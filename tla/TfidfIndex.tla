----------------------------- MODULE TfidfIndex -----------------------------
(***************************************************************************)
(* The TF-IDF index (backend/tfidf): the terms table counts the entries    *)
(* that hold a term and remembers the first one; a posting is written only *)
(* for a term of two entries or more, and the first entry gets its posting *)
(* when the second one comes.  RecalculateTFIDF jobs index one entry at a  *)
(* time (backend/jobs/recalculate_tfidf.go), the subcommand recalc-tfidf   *)
(* indexes all of them in chunks, from a process of its own.               *)
(*                                                                         *)
(* A text is its set of terms, each of which it holds once; all terms are  *)
(* bigrams.  A weight is known by whether it is positive.  The limits of   *)
(* the queries (50 terms, 100 candidates, 10 and 50 results) are not       *)
(* reached.  Every entry is there from the start, perhaps as an empty      *)
(* draft, so that their number does not change.                            *)
(***************************************************************************)
EXTENDS Integers, FiniteSets

CONSTANTS
  MaxEntry,      \* the number of entries; their ids are 1 .. MaxEntry
  Term,          \* the terms
  MaxRate,       \* DFMaxThresholdRate in percent
  MinValidTerms, \* positive weights an entry must have to be related to others
  MinShared,     \* more shared terms than that make a candidate, 3 in the code
  ChunkSize,     \* entries in one transaction of the subcommand, 100 in the code
  MaxSaves,      \* bound: how often entries are saved
  MaxRuns,       \* bound: how often the subcommand is started
  MaxFaults,     \* bound: steps that fail, and processes that end
  MaxEvents      \* bound: saves, runs and faults together

Entry == 1 .. MaxEntry
NoEntry == 0

ASSUME IndexBounds ==
  /\ MaxEntry \in Nat \ {0} /\ MaxRate \in 0 .. 100 /\ MinValidTerms \in Nat /\ MinShared \in Nat
  /\ IsFiniteSet(Term) /\ ChunkSize \in Nat \ {0} /\ MaxSaves \in Nat /\ MaxRuns \in Nat
  /\ MaxFaults \in Nat /\ MaxEvents \in Nat

VARIABLES
  text,     \* the entries table: the terms of the title and the body
  visible,  \* the entries that are publicly visible
  df,       \* terms.df_count, 0 for a term without a row
  first,    \* terms.first_entry_id
  postings, \* the postings table: <<entry, term>>
  positive, \* the postings whose weight tfidf_n is positive
  related,  \* the related_entries table: per entry
  due,      \* the entries whose RecalculateTFIDF is enqueued and not started
  job,      \* the job that runs: pc, entry, and the text it has read
  tool,     \* the subcommand: phase, the ids it has yet to take, the chunk it has read
  count,    \* how many saves, runs and faults there were
  indexed,  \* history: per entry, the terms it was last indexed with
  founder,  \* history: per term, the entry that was first to hold it since nobody did
  early,    \* history: the postings of founders that are to hold the term again, and do not yet
  drifted,  \* history: the terms that the index has miscounted
  missed,   \* history: the postings that no promotion has written
  behind,   \* history: the entries whose last text no job has indexed
  torn,     \* history: postings were written and their weights were not
  last      \* history: the entries that were related to others last

index == <<df, first, postings>>
counted == <<indexed, founder, early, drifted, missed>>
history == <<counted, behind>>
vars == <<text, visible, index, positive, related, due, job, tool, count, history, torn, last>>

MoreMayCome == count.saves + count.runs + count.faults < MaxEvents
MayFail == count.faults < MaxFaults /\ MoreMayCome

-----------------------------------------------------------------------------
(* UpdateTFIDFs, one transaction for a batch of [id, text] in the order of *)
(* their ids; D is the state of the tables in between.                     *)

Ids(batch) == {u.id : u \in batch}

\* The terms the index has for an entry: from its postings, or as first entry
TermsOf(D, e) == {t \in Term : <<e, t>> \in D.postings \/ D.first[t] = e}

\* Mutant: only the terms with a posting are counted down
DecrementPostings(D, ids) ==
  [D EXCEPT !.df = [t \in Term |-> IF \E e \in ids : <<e, t>> \in D.postings THEN @[t] - 1 ELSE @[t]],
            !.postings = {x \in @ : x[1] \notin ids}]

\* Each term is counted down once, whatever number of the batch held it
Decrement(D, ids) ==
  [D EXCEPT !.df = [t \in Term |-> IF \E e \in ids : t \in TermsOf(D, e) THEN @[t] - 1 ELSE @[t]],
            !.postings = {x \in @ : x[1] \notin ids}]

\* The terms of one entry are counted up; those of two entries or more get a
\* posting; those that reach two are promoted, unless the first is in the batch
Upsert(D, u, ids) ==
  LET df2 == [t \in Term |-> IF t \in u.text THEN D.df[t] + 1 ELSE D.df[t]]
      first2 == [t \in Term |-> IF t \in u.text /\ D.df[t] <= 0 THEN u.id ELSE D.first[t]]
  IN  [df |-> df2,
       first |-> first2,
       postings |-> D.postings \cup {<<u.id, t>> : t \in {x \in u.text : df2[x] >= 2}},
       promoted |-> D.promoted \cup {t \in u.text : df2[t] = 2 /\ first2[t] \notin ids}]

UpsertAll(D, batch) ==
  LET upTo[e \in 0 .. MaxEntry] ==
        IF e = 0 THEN D
        ELSE IF e \in Ids(batch)
        THEN Upsert(upTo[e - 1], CHOOSE u \in batch : u.id = e, Ids(batch))
        ELSE upTo[e - 1]
  IN  upTo[MaxEntry]

\* Mutant: a term of two entries keeps the posting of the second one only
PromoteNone(D) == D

\* The first entries get their postings, as far as their present text has the term
Promote(D) ==
  [D EXCEPT !.postings = @ \cup {<<D.first[t], t>> : t \in {x \in D.promoted :
                                    x \in text[D.first[x]]}}]

UpdateTFIDFs(batch) ==
  LET D == [df |-> df, first |-> first, postings |-> postings, promoted |-> {}]
  IN  Promote(UpsertAll(Decrement(D, Ids(batch)), batch))

Holders(t) == {e \in Entry : t \in indexed[e]}

Least(S) == CHOOSE e \in S : \A o \in S : e <= o

\* The texts as the index is to know them when a batch is indexed
IndexedWith(batch) ==
  [e \in Entry |-> IF e \in Ids(batch) THEN (CHOOSE u \in batch : u.id = e).text ELSE indexed[e]]

\* Each entry of the batch is a loss of the term if it held it; the index takes one
\* off when it finds a trace of the batch, which may be that of several entries,
\* or of a founder that has lost the term before
Miscounts(t, ids) ==
  LET lost == Cardinality(ids \cap Holders(t))
  IN  \/ lost > 1
      \/ lost = 0 /\ (founder[t] \in ids \/ early \cap (ids \X {t}) # {})

\* The history of a batch, told from the texts alone
Account(batch) ==
  LET ids == Ids(batch)
      indexed2 == IndexedWith(batch)
      New(t) == {e \in ids : t \in indexed2[e]}
      Kept(t) == Holders(t) \ ids
      drifted2 == drifted \cup {t \in Term : Miscounts(t, ids)}
  IN  /\ indexed' = indexed2
      /\ drifted' = drifted2
      /\ founder' = [t \in Term |-> IF t \in drifted2 THEN NoEntry
                                    ELSE IF Kept(t) = {} /\ New(t) # {} THEN Least(New(t))
                                    ELSE founder[t]]
      /\ early' = {x \in Entry \X (Term \ drifted2) :
                     /\ x[1] \notin ids
                     /\ \/ x \in early
                        \/ /\ x[1] = founder[x[2]] /\ x[1] \notin Holders(x[2])
                           /\ x[2] \in text[x[1]]
                           /\ Cardinality(Kept(x[2])) = 1 /\ New(x[2]) # {}}

\* What is written, the weights of the new postings being zero
Update(batch) ==
  LET D == UpdateTFIDFs(batch)
      ids == Ids(batch)
  IN  /\ df' = D.df /\ first' = D.first /\ postings' = D.postings
      /\ positive' = {x \in positive : x[1] \notin ids}
      /\ Account(batch)
      /\ missed' = {x \in missed \cup (ids \X Term) :
                      x[2] \in indexed'[x[1]] /\ D.df[x[2]] >= 2 /\ x \notin D.postings}

-----------------------------------------------------------------------------
(* RecalculateTFIDFValues and CalculateSimilarEntries.                     *)

PostingsOf(e) == {t \in Term : <<e, t>> \in postings}

\* A term of one entry, or of too many, has no weight, nor have the terms of an
\* entry that holds one term once: the logarithm of one is the divisor
HasWeight(x) ==
  /\ df[x[2]] >= 2 /\ df[x[2]] * 100 <= MaxRate * MaxEntry
  /\ Cardinality(PostingsOf(x[1])) >= 2

RecalculateTFIDFValues ==
  /\ positive' = {x \in postings : HasWeight(x)}
  /\ torn' = FALSE
  /\ last' = {}

IsShort(e) == Cardinality({t \in Term : <<e, t>> \in positive}) < MinValidTerms

Candidates(e) ==
  {c \in Entry \ {e} : Cardinality(PostingsOf(e) \cap PostingsOf(c)) > MinShared}

SimilarEntries(e) == IF IsShort(e) THEN {} ELSE Candidates(e)

CalculateSimilarEntries(ids) ==
  /\ related' = [e \in Entry |-> IF e \in ids THEN SimilarEntries(e) ELSE related[e]]
  /\ last' = ids

-----------------------------------------------------------------------------
(* The site: entries are saved, and searched.                              *)

\* A public entry has its job enqueued; a draft, or an entry that is withdrawn,
\* keeps what the index has of it
Save(e, terms, public) ==
  /\ count.saves < MaxSaves /\ MoreMayCome
  /\ count' = [count EXCEPT !.saves = @ + 1]
  /\ text' = [text EXCEPT ![e] = terms]
  /\ visible' = IF public THEN visible \cup {e} ELSE visible \ {e}
  /\ due' = IF public THEN due \cup {e} ELSE due
  /\ behind' = IF public THEN behind ELSE behind \cup {e}
  /\ UNCHANGED <<index, positive, related, job, tool, counted, torn, last>>

\* A term nobody holds ends the search; a posting counts for its entry, and so
\* does a term of one entry for its first; all terms must be met
Search(terms) ==
  IF \E t \in terms : df[t] <= 0 THEN {}
  ELSE {e \in Entry :
          Cardinality({t \in terms : <<e, t>> \in postings})
            + Cardinality({t \in terms : df[t] = 1 /\ first[t] = e}) = Cardinality(terms)}

HandleApiSearch(terms) == Search(terms) \cap visible

\* The similar entries of a page are not asked whether they are visible
PopulateSimilarEntries(e) == related[e]

-----------------------------------------------------------------------------
(* The job.                                                                *)

Idle == [pc |-> "idle", entry |-> NoEntry, text |-> {}]

Start(e) ==
  /\ job = Idle /\ e \in due
  /\ due' = due \ {e}
  /\ job' = [pc |-> "read", entry |-> e, text |-> text[e]]
  /\ UNCHANGED <<text, visible, index, positive, related, tool, count, history, torn, last>>

UpdateTFIDF ==
  /\ job.pc = "read"
  /\ job' = [job EXCEPT !.pc = "updated"]
  /\ Update({[id |-> job.entry, text |-> job.text]})
  /\ behind' = IF job.text = text[job.entry] THEN behind \ {job.entry} ELSE behind
  /\ UNCHANGED <<text, visible, related, due, tool, count, torn, last>>

\* Mutant: the entries are related before the weights are known
RecalculateLate ==
  /\ job.pc = "updated"
  /\ job' = [job EXCEPT !.pc = "recalculated"]
  /\ UNCHANGED <<text, visible, index, positive, related, due, tool, count, history, torn, last>>

Recalculate ==
  /\ job.pc = "updated"
  /\ job' = [job EXCEPT !.pc = "recalculated"]
  /\ RecalculateTFIDFValues
  /\ UNCHANGED <<text, visible, index, related, due, tool, count, history>>

\* Mutant: a job that ends takes the one along that was enqueued meanwhile
RelateForgetting ==
  /\ job.pc = "recalculated"
  /\ job' = Idle
  /\ CalculateSimilarEntries({job.entry})
  /\ due' = due \ {job.entry}
  /\ UNCHANGED <<text, visible, index, positive, tool, count, history, torn>>

Relate ==
  /\ job.pc = "recalculated"
  /\ job' = Idle
  /\ CalculateSimilarEntries({job.entry})
  /\ UNCHANGED <<text, visible, index, positive, due, tool, count, history, torn>>

\* A step fails, or the server ends: the queue runs the job again, or gives it up
JobFails ==
  /\ job # Idle /\ MayFail
  /\ count' = [count EXCEPT !.faults = @ + 1]
  /\ job' = Idle
  /\ torn' = (torn \/ job.pc = "updated")
  /\ \/ due' = due \cup {job.entry} /\ UNCHANGED behind
     \/ behind' = behind \cup {job.entry} /\ UNCHANGED due
  /\ UNCHANGED <<text, visible, index, positive, related, tool, counted, last>>

-----------------------------------------------------------------------------
(* The subcommand.                                                         *)

Off == [phase |-> "off", todo |-> {}, chunk |-> {}]

\* The first ChunkSize of a set of ids
ChunkOf(S) == {e \in S : Cardinality({o \in S : o < e}) < ChunkSize}

ToolStart(similarityOnly) ==
  /\ tool = Off /\ count.runs < MaxRuns /\ MoreMayCome
  /\ count' = [count EXCEPT !.runs = @ + 1]
  /\ tool' = [Off EXCEPT !.phase = IF similarityOnly THEN "relate" ELSE "update", !.todo = Entry]
  /\ UNCHANGED <<text, visible, index, positive, related, due, job, history, torn, last>>

\* The texts of a chunk are read one by one
ToolRead ==
  /\ tool.phase = "update" /\ tool.todo # {} /\ Cardinality(tool.chunk) < ChunkSize
  /\ LET e == Least(tool.todo)
     IN  tool' = [tool EXCEPT !.todo = @ \ {e},
                              !.chunk = @ \cup {[id |-> e, text |-> text[e]]}]
  /\ UNCHANGED <<text, visible, index, positive, related, due, job, count, history, torn, last>>

\* A text that cannot be read is left out
ToolReadFails ==
  /\ tool.phase = "update" /\ tool.todo # {} /\ MayFail
  /\ count' = [count EXCEPT !.faults = @ + 1]
  /\ tool' = [tool EXCEPT !.todo = @ \ {Least(tool.todo)}]
  /\ UNCHANGED <<text, visible, index, positive, related, due, job, history, torn, last>>

ChunkIsRead ==
  /\ tool.phase = "update" /\ tool.chunk # {}
  /\ tool.todo = {} \/ Cardinality(tool.chunk) = ChunkSize

\* The chunk is indexed as it was read, whatever a job has indexed meanwhile
ToolUpdate ==
  /\ ChunkIsRead
  /\ tool' = [tool EXCEPT !.chunk = {}]
  /\ Update(tool.chunk)
  /\ behind' = {e \in behind \cup Ids(tool.chunk) :
                  \A u \in tool.chunk : u.id = e => u.text # text[e]}
  /\ UNCHANGED <<text, visible, related, due, job, count, torn, last>>

\* The transaction fails: that is logged, and the next chunk is read
ToolUpdateFails ==
  /\ ChunkIsRead /\ MayFail
  /\ count' = [count EXCEPT !.faults = @ + 1]
  /\ tool' = [tool EXCEPT !.chunk = {}]
  /\ UNCHANGED <<text, visible, index, positive, related, due, job, history, torn, last>>

ToolRecalculate ==
  /\ tool.phase = "update" /\ tool.todo = {} /\ tool.chunk = {}
  /\ tool' = [Off EXCEPT !.phase = "relate", !.todo = Entry]
  /\ RecalculateTFIDFValues
  /\ UNCHANGED <<text, visible, index, related, due, job, count, history>>

ToolGoesOn ==
  LET rest == tool.todo \ ChunkOf(tool.todo)
  IN  tool' = IF rest = {} THEN Off ELSE [tool EXCEPT !.todo = rest]

ToolRelate ==
  /\ tool.phase = "relate"
  /\ CalculateSimilarEntries(ChunkOf(tool.todo))
  /\ ToolGoesOn
  /\ UNCHANGED <<text, visible, index, positive, due, job, count, history, torn>>

\* The transaction fails: that is logged, and the next chunk is related
ToolRelateFails ==
  /\ tool.phase = "relate" /\ MayFail
  /\ count' = [count EXCEPT !.faults = @ + 1]
  /\ ToolGoesOn
  /\ UNCHANGED <<text, visible, index, positive, related, due, job, history, torn, last>>

\* A step fails for which the subcommand gives up, or it is interrupted
ToolEnds ==
  /\ tool # Off /\ MayFail
  /\ count' = [count EXCEPT !.faults = @ + 1]
  /\ tool' = Off
  /\ torn' = (torn \/ tool.phase = "update")
  /\ UNCHANGED <<text, visible, index, positive, related, due, job, history, last>>

-----------------------------------------------------------------------------
Init ==
  /\ text = [e \in Entry |-> {}] /\ visible = {}
  /\ df = [t \in Term |-> 0] /\ first = [t \in Term |-> NoEntry]
  /\ postings = {} /\ positive = {}
  /\ related = [e \in Entry |-> {}]
  /\ due = {} /\ job = Idle /\ tool = Off
  /\ count = [saves |-> 0, runs |-> 0, faults |-> 0]
  /\ indexed = [e \in Entry |-> {}]
  /\ founder = [t \in Term |-> NoEntry] /\ early = {}
  /\ drifted = {} /\ missed = {} /\ behind = {} /\ torn = FALSE /\ last = {}

JobStep == (\E e \in Entry : Start(e)) \/ UpdateTFIDF \/ Recalculate \/ Relate

ToolStep ==
  \/ ToolRead \/ ToolReadFails \/ ToolUpdate \/ ToolUpdateFails
  \/ ToolRecalculate \/ ToolRelate \/ ToolRelateFails \/ ToolEnds

Next ==
  \/ \E e \in Entry, terms \in SUBSET Term, public \in BOOLEAN : Save(e, terms, public)
  \/ JobStep \/ JobFails
  \/ \E similarityOnly \in BOOLEAN : ToolStart(similarityOnly)
  \/ ToolStep

Spec == Init /\ [][Next]_vars

-----------------------------------------------------------------------------
\* The visible entries that are indexed as they stand, by a job that has run
Settled == visible \ (due \cup behind \cup {job.entry})

\* A public entry whose job has run is indexed with the text it has now, unless
\* the queue gave the job up or the subcommand wrote a text it had read before
IndexedWhenDone ==
  \A e \in Settled : indexed[e] = text[e]

\* df_count is the number of the entries that hold the term (calculator.go:16-18),
\* through any order of edits, promotions, demotions and repeated jobs, also when
\* the first entry of the term has lost it, up to the first batch the index
\* miscounts: one that indexes again an entry that was first to hold the term
\* and had lost it, or one with two entries that held it
DfCountsHolders == \A t \in Term \ drifted : df[t] = Cardinality(Holders(t))

\* df_count is that number always, which is what calculator.go:16-18 says of it
DfIsExact == \A t \in Term : df[t] = Cardinality(Holders(t))

\* Terms that have come down to one entry from two keep a posting
Demoted(t) == df[t] = 1 /\ \E e \in Entry : <<e, t>> \in postings

\* A visible entry whose job has run is found by exactly those of the
\* queries whose bigrams it holds (searcher.go:32), whether a bigram is in the
\* postings or, for one entry, in the terms table only.  Left out are the bigrams
\* that were miscounted, those that have come down from two entries to one,
\* and the postings that the subcommand has not written
SearchFindsHolders ==
  \A terms \in SUBSET {t \in Term \ drifted : ~Demoted(t)} \ {{}} :
    \A e \in Settled :
      missed \cap ({e} \X terms) = {} =>
        (e \in HandleApiSearch(terms) <=> terms \subseteq text[e])

\* When nothing runs and no one was stopped half-way, all weights are those of
\* the present counts, and the entries related last show what their postings give,
\* however a job and the subcommand have interleaved
SettledIsCurrent ==
  job = Idle /\ tool = Off /\ ~torn =>
    /\ positive = {x \in postings : HasWeight(x)}
    /\ \A e \in last : PopulateSimilarEntries(e) = SimilarEntries(e)

-----------------------------------------------------------------------------
(* The inductive invariant of TfidfIndexProofs.                            *)

Batch == SUBSET [id: Entry, text: SUBSET Term]

\* The types, but for what UpdateTFIDFs computes
Shapes ==
  /\ text \in [Entry -> SUBSET Term] /\ indexed \in [Entry -> SUBSET Term]
  /\ related \in [Entry -> SUBSET Entry]
  /\ visible \subseteq Entry /\ due \subseteq Entry /\ last \subseteq Entry
  /\ job \in [pc: {"idle", "read", "updated", "recalculated"}, entry: Entry \cup {NoEntry},
              text: SUBSET Term]
  /\ IF job.pc = "idle" THEN job = Idle ELSE job.entry \in Entry
  /\ tool \in [phase: {"off", "update", "relate"}, todo: SUBSET Entry, chunk: Batch]

\* A chunk has one text of an entry, of which it is not to read another
ChunkIsMap ==
  /\ Ids(tool.chunk) \cap tool.todo = {}
  /\ \A u, v \in tool.chunk : u.id = v.id => u = v

\* The text that a job has read is that of its entry, or another job follows
ReadIsCurrent ==
  job.pc = "read" /\ job.entry \in visible /\ job.text # text[job.entry] => job.entry \in due

\* What no job is to index, and none has given up, is indexed as it stands
DoneIsIndexed ==
  \A e \in visible \ (due \cup behind) :
    (job.pc = "read" /\ job.entry = e) \/ indexed[e] = text[e]

\* Who has counted recalculates the weights or is stopped
CountedIsWeighed ==
  job.pc # "updated" /\ tool.phase # "update" /\ ~torn =>
    /\ positive = {x \in postings : HasWeight(x)}
    /\ \A e \in last : related[e] = SimilarEntries(e)

\* A term that is counted has a first entry
IndexShapes ==
  /\ df \in [Term -> Int] /\ first \in [Term -> Entry \cup {NoEntry}]
  /\ postings \subseteq Entry \X Term
  /\ \A t \in Term : df[t] > 0 => first[t] \in Entry

\* Of a term that was not miscounted, the founder is the first entry, and the
\* holders are who has a posting or is first, but for the founders promoted early
CountIsTrue(t) ==
  /\ df[t] = Cardinality(Holders(t))
  /\ first[t] = founder[t]
  /\ \A e \in Entry : <<e, t>> \in postings => e \in Holders(t) \/ <<e, t>> \in early
  /\ \A e \in Holders(t) : <<e, t>> \in postings \/ first[t] = e
  /\ \A e \in Entry : <<e, t>> \in early => <<e, t>> \in postings /\ e \notin Holders(t)

CountsAreTrue == \A t \in Term \ drifted : CountIsTrue(t)

\* A holder without its posting is one that no promotion has written, or has
\* another text by now
PromotionsAreDone ==
  \A t \in Term \ drifted : \A e \in (visible \ (due \cup behind)) \cap Holders(t) :
    df[t] >= 2 => <<e, t>> \in postings \cup missed \/ (job.pc = "read" /\ job.entry = e)

\* Who was promoted early has a text that is not indexed yet
EarlyIsUnsettled ==
  \A x \in early : x[1] \in visible \ (due \cup behind) => job.pc = "read" /\ job.entry = x[1]

IndexInv == IndexShapes /\ CountsAreTrue /\ PromotionsAreDone /\ EarlyIsUnsettled

IInv == Shapes /\ ChunkIsMap /\ ReadIsCurrent /\ DoneIsIndexed /\ CountedIsWeighed
=============================================================================
