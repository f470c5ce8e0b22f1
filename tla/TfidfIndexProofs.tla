-------------------------- MODULE TfidfIndexProofs --------------------------
(***************************************************************************)
(* For any number of entries, terms, saves, runs and faults: a public      *)
(* entry whose job has run is indexed as it stands (IndexedWhenDone), and  *)
(* at rest the weights and the similar entries are those of the present    *)
(* counts (SettledIsCurrent), although the server's job and the subcommand *)
(* interleave.  UpdateTFIDFs is a recursion over the entries of a batch:   *)
(* it is unfolded into a sequence of tables (UpsertsInOrder), in which a   *)
(* term changes once, where its one new holder is (UpsertAllOfTerm).  From *)
(* that, a term that has not drifted is counted right (DfCountsHolders),   *)
(* and the searches that need it find what they should                     *)
(* (SearchFindsHolders).                                                   *)
(***************************************************************************)
EXTENDS TfidfIndex, FiniteSetTheorems, WellFoundedInduction, TLAPS

-----------------------------------------------------------------------------
(* Induction over the numbers up to a bound, and what is defined by it.    *)

\* A set of numbers has a least one
LEMMA LeastNumber ==
  ASSUME NEW T, T \subseteq Nat, T # {}
  PROVE  \E m \in T : \A n \in T : m <= n
<1>1. PICK m \in T : \A n \in T : ~ (<<n, m>> \in OpToRel(<, Nat))
  BY NatLessThanWellFounded, WFMin
<1>2. \A n \in T : ~ (n < m)
  BY <1>1 DEF OpToRel
<1> QED
  BY <1>2

\* Induction up to a bound, over a set of numbers
LEMMA ReachesAll ==
  ASSUME NEW N \in Nat, NEW G, 0 \in G, \A n \in 1 .. N : n - 1 \in G => n \in G
  PROVE  \A n \in 0 .. N : n \in G
<1> DEFINE Missing == {n \in 0 .. N : n \notin G}
<1> SUFFICES ASSUME Missing # {} PROVE FALSE
  OBVIOUS
<1>1. Missing \subseteq Nat
  OBVIOUS
<1>2. PICK m \in Missing : \A n \in Missing : m <= n
  BY <1>1, LeastNumber
<1>3. m \in 1 .. N /\ m - 1 \in 0 .. N /\ ~ (m <= m - 1)
  BY <1>2
<1>4. m - 1 \notin Missing
  BY <1>2, <1>3
<1> QED
  BY <1>2, <1>3, <1>4

\* A recursion over the numbers up to a bound has a value at each of them
Iterated(N, S, s0, step, g) ==
  /\ g \in [0 .. N -> S] /\ g[0] = s0
  /\ \A n \in 1 .. N : g[n] = step[<<n, g[n - 1]>>]

LEMMA Iterates ==
  ASSUME NEW N \in Nat, NEW S, NEW s0 \in S, NEW step \in [(1 .. N) \X S -> S]
  PROVE  \E g : Iterated(N, S, s0, step, g)
<1> DEFINE Runs(n, g) == g[0] = s0 /\ \A k \in 1 .. n : g[k] = step[<<k, g[k - 1]>>]
           Reached == {n \in 0 .. N : \E g \in [0 .. n -> S] : Runs(n, g)}
<1>1. 0 \in Reached
  <2>1. [k \in 0 .. 0 |-> s0] \in [0 .. 0 -> S] /\ Runs(0, [k \in 0 .. 0 |-> s0])
    OBVIOUS
  <2>2. 0 \in 0 .. N
    OBVIOUS
  <2> HIDE DEF Runs
  <2> QED
    BY <2>1, <2>2
<1>2. ASSUME NEW n \in 1 .. N, n - 1 \in Reached PROVE n \in Reached
  <2>1. PICK g \in [0 .. n - 1 -> S] : Runs(n - 1, g)
    BY <1>2
  <2> DEFINE h == [k \in 0 .. n |-> IF k = n THEN step[<<n, g[n - 1]>>] ELSE g[k]]
  <2>2. g[n - 1] \in S /\ <<n, g[n - 1]>> \in (1 .. N) \X S
    OBVIOUS
  <2>3. \A k \in 0 .. n : k # n => k \in 0 .. n - 1
    OBVIOUS
  <2>4. h \in [0 .. n -> S]
    BY <2>2, <2>3
  <2>5. h[0] = s0
    BY <2>1
  <2>6. ASSUME NEW k \in 1 .. n PROVE h[k] = step[<<k, h[k - 1]>>]
    <3>1. h[k - 1] = g[k - 1]
      OBVIOUS
    <3>2. k # n => h[k] = g[k] /\ k \in 1 .. n - 1
      OBVIOUS
    <3>3. k = n => h[k] = step[<<n, g[n - 1]>>]
      OBVIOUS
    <3> HIDE DEF h
    <3> QED
      BY <2>1, <3>1, <3>2, <3>3
  <2> HIDE DEF h
  <2>7. n \in 0 .. N
    OBVIOUS
  <2> QED
    BY <2>4, <2>5, <2>6, <2>7
<1> HIDE DEF Reached
<1>3. N \in Reached
  BY <1>1, <1>2, ReachesAll
<1> QED
  BY <1>3 DEF Reached, Iterated

-----------------------------------------------------------------------------
(* Entries, and the history of a batch.                                    *)

\* A set of entries has a least one
LEMMA LeastIsMember ==
  ASSUME NEW S, S \subseteq Entry, S # {}
  PROVE  Least(S) \in S
<1>1. \A e \in Entry : e \in Nat
  BY IndexBounds DEF Entry
<1>2. S \subseteq Nat
  BY <1>1
<1> QED
  BY <1>2, LeastNumber DEF Least

\* The least of a set and a greater one is that of the set
LEMMA LeastGrows ==
  ASSUME NEW S, S \subseteq Entry, NEW n \in Entry, \A e \in S : e < n
  PROVE  Least(S \cup {n}) = IF S = {} THEN n ELSE Least(S)
<1>1. \A e \in Entry : e \in Nat
  BY IndexBounds DEF Entry
<1>2. CASE S = {}
  <2>1. S \cup {n} = {n} /\ \A o \in {n} : n <= o
    BY <1>1, <1>2
  <2> QED
    BY <1>2, <2>1 DEF Least
<1>3. CASE S # {}
  <2>1. S \subseteq Nat /\ S \cup {n} \subseteq Nat /\ S \cup {n} # {}
    BY <1>1
  <2>2. Least(S) \in S /\ \A o \in S : Least(S) <= o
    BY <1>3, <2>1, LeastNumber DEF Least
  <2>3. Least(S \cup {n}) \in S \cup {n} /\ \A o \in S \cup {n} : Least(S \cup {n}) <= o
    BY <2>1, LeastNumber DEF Least
  <2>4. Least(S) <= Least(S \cup {n}) /\ Least(S \cup {n}) <= Least(S)
    BY <1>1, <2>2, <2>3
  <2>5. Least(S) \in Nat /\ Least(S \cup {n}) \in Nat
    BY <2>1, <2>2, <2>3
  <2> QED
    BY <1>3, <2>4, <2>5
<1> QED
  BY <1>2, <1>3

\* A set of entries is finite
LEMMA EntriesAreFinite ==
  ASSUME NEW S, S \subseteq Entry
  PROVE  IsFiniteSet(S) /\ Cardinality(S) \in Nat
<1>1. IsFiniteSet(Entry)
  BY IndexBounds, FS_Interval DEF Entry
<1>2. S \in SUBSET Entry
  OBVIOUS
<1>3. IsFiniteSet(S)
  BY <1>1, <1>2, FS_Subset
<1> QED
  BY <1>3, FS_CardinalityType

\* What is not more than one
LEMMA AtMostOne ==
  ASSUME NEW S, S \subseteq Entry, ~ (Cardinality(S) > 1)
  PROVE  S = {} \/ \E n \in Entry : S = {n}
<1>1. IsFiniteSet(S) /\ Cardinality(S) \in Nat
  BY EntriesAreFinite
<1>2. Cardinality(S) = 0 \/ Cardinality(S) = 1
  BY <1>1
<1>3. Cardinality(S) = 0 => S = {}
  BY <1>1, FS_EmptySet
<1>4. Cardinality(S) = 1 => \E n : S = {n}
  BY <1>1, FS_Singleton
<1> QED
  BY <1>2, <1>3, <1>4

\* No entry has the id that stands for none
LEMMA NoEntryIsNone == NoEntry \notin Entry
  BY IndexBounds DEF Entry, NoEntry

\* Similar entries are entries
LEMMA SimilarAreEntries == \A e : SimilarEntries(e) \in SUBSET Entry
  BY DEF SimilarEntries, Candidates

\* What Update makes of the history: the batch is indexed with its texts
LEMMA UpdateIndexes ==
  ASSUME NEW batch \in Batch, indexed \in [Entry -> SUBSET Term],
         \A u, v \in batch : u.id = v.id => u = v,
         Update(batch)
  PROVE  /\ indexed' \in [Entry -> SUBSET Term]
         /\ \A u \in batch : u.id \in Entry /\ indexed'[u.id] = u.text
         /\ \A e \in Entry \ Ids(batch) : indexed'[e] = indexed[e]
<1> DEFINE textOf(e) == (CHOOSE u \in batch : u.id = e).text
<1>1. indexed' = [e \in Entry |-> IF e \in Ids(batch) THEN textOf(e) ELSE indexed[e]]
  BY DEF Update, Account, IndexedWith
<1>2. \A u \in batch : u.id \in Entry /\ u.text \in SUBSET Term
  BY DEF Batch
<1>3. ASSUME NEW u \in batch PROVE textOf(u.id) = u.text /\ u.id \in Ids(batch)
  <2>1. (CHOOSE v \in batch : v.id = u.id) = u
    OBVIOUS
  <2> QED
    BY <2>1 DEF Ids
<1>4. \A e \in Ids(batch) : textOf(e) \in SUBSET Term
  BY <1>2, <1>3 DEF Ids
<1> HIDE DEF textOf
<1> QED
  BY <1>1, <1>2, <1>3, <1>4

-----------------------------------------------------------------------------
LEMMA InitEstablishes == Init => IInv
<1> SUFFICES ASSUME Init PROVE IInv
  OBVIOUS
<1>1. Shapes
  BY NoEntryIsNone DEF Init, Shapes, Idle, Off, Batch
<1> QED
  BY <1>1 DEF Init, IInv, ChunkIsMap, ReadIsCurrent, DoneIsIndexed, CountedIsWeighed,
     Idle, Off, Ids

\* A public entry that is saved has its job before it
LEMMA SaveKeeps ==
  ASSUME IInv, NEW e \in Entry, NEW terms \in SUBSET Term, NEW public \in BOOLEAN,
         Save(e, terms, public)
  PROVE  IInv'
<1>1. Shapes'
  BY DEF IInv, Shapes, Save, counted
<1>2. ChunkIsMap'
  BY DEF IInv, ChunkIsMap, Save
<1>3. /\ \A o \in Entry : text'[o] = IF o = e THEN terms ELSE text[o]
      /\ e \in visible' => e \in due'
      /\ \A o \in visible' \ {e} : o \in visible /\ (o \in due => o \in due')
      /\ due \subseteq due' /\ behind \subseteq behind' /\ visible' \subseteq Entry
      /\ UNCHANGED <<job, indexed>>
  BY DEF IInv, Shapes, Save, counted
<1>4. ReadIsCurrent'
  BY <1>3 DEF IInv, ReadIsCurrent
<1>5. DoneIsIndexed'
  BY <1>3 DEF IInv, DoneIsIndexed
<1>6. CountedIsWeighed'
  BY DEF IInv, CountedIsWeighed, Save, HasWeight, SimilarEntries, IsShort, Candidates,
     PostingsOf, index
<1> QED
  BY <1>1, <1>2, <1>4, <1>5, <1>6 DEF IInv

-----------------------------------------------------------------------------
(* The job.                                                                *)

LEMMA StartKeeps ==
  ASSUME IInv, NEW e \in Entry, Start(e)
  PROVE  IInv'
<1>0. /\ job' = [pc |-> "read", entry |-> e, text |-> text[e]] /\ due' = due \ {e}
      /\ job.entry = NoEntry /\ job.pc = "idle"
      /\ UNCHANGED <<text, visible, index, positive, related, tool, history, torn, last>>
  BY DEF Start, Idle
<1>1. Shapes'
  BY <1>0, NoEntryIsNone DEF IInv, Shapes, history, counted
<1> QED
  BY <1>0, <1>1 DEF IInv, ChunkIsMap, ReadIsCurrent, DoneIsIndexed, CountedIsWeighed,
     history, counted, index, HasWeight, SimilarEntries, IsShort, Candidates, PostingsOf

LEMMA UpdateTFIDFKeeps ==
  ASSUME IInv, UpdateTFIDF
  PROVE  IInv'
<1> DEFINE u == [id |-> job.entry, text |-> job.text]
<1>0. /\ job.pc = "read" /\ job.entry \in Entry /\ job.text \in SUBSET Term
      /\ job' = [job EXCEPT !.pc = "updated"] /\ Update({u})
      /\ behind' = IF job.text = text[job.entry] THEN behind \ {job.entry} ELSE behind
      /\ UNCHANGED <<text, visible, related, due, tool, torn, last>>
  BY DEF UpdateTFIDF, IInv, Shapes
<1>1. {u} \in Batch /\ Ids({u}) = {job.entry}
  BY <1>0 DEF Batch, Ids
<1>2. /\ indexed' \in [Entry -> SUBSET Term]
      /\ indexed'[job.entry] = job.text
      /\ \A e \in Entry \ {job.entry} : indexed'[e] = indexed[e]
  BY <1>0, <1>1, UpdateIndexes DEF IInv, Shapes
<1>3. job'.pc = "updated" /\ job'.entry = job.entry
  BY <1>0 DEF IInv, Shapes
<1>4. Shapes'
  BY <1>0, <1>2, <1>3, NoEntryIsNone DEF IInv, Shapes
<1>5. DoneIsIndexed'
  <2> SUFFICES ASSUME NEW e \in visible \ (due \cup behind') PROVE indexed'[e] = text[e]
    BY <1>0 DEF DoneIsIndexed
  <2>1. CASE e = job.entry
    BY <1>0, <1>2, <2>1 DEF IInv, ReadIsCurrent
  <2>2. CASE e # job.entry
    BY <1>0, <1>2, <2>2 DEF IInv, DoneIsIndexed, Shapes
  <2> QED
    BY <2>1, <2>2
<1> QED
  BY <1>0, <1>3, <1>4, <1>5 DEF IInv, ChunkIsMap, ReadIsCurrent, CountedIsWeighed

LEMMA RecalculateKeeps ==
  ASSUME IInv, Recalculate
  PROVE  IInv'
<1>0. /\ job.pc = "updated" /\ job' = [job EXCEPT !.pc = "recalculated"]
      /\ RecalculateTFIDFValues
      /\ UNCHANGED <<text, visible, index, related, due, tool, history>>
  BY DEF Recalculate
<1>1. job'.pc = "recalculated" /\ job'.entry = job.entry
  BY <1>0 DEF IInv, Shapes
<1>2. Shapes'
  BY <1>0, <1>1 DEF IInv, Shapes, history, counted, RecalculateTFIDFValues
<1>3. CountedIsWeighed'
  BY <1>0 DEF CountedIsWeighed, RecalculateTFIDFValues, index, HasWeight, PostingsOf
<1> QED
  BY <1>0, <1>1, <1>2, <1>3 DEF IInv, ChunkIsMap, ReadIsCurrent, DoneIsIndexed, history, counted

\* Relating some entries makes their similar entries those of the present weights
LEMMA RelatingKeeps ==
  ASSUME IInv, NEW ids \in SUBSET Entry, CalculateSimilarEntries(ids),
         UNCHANGED <<index, positive, torn>>,
         job.pc # "updated" /\ tool.phase # "update"
  PROVE  CountedIsWeighed' /\ related' \in [Entry -> SUBSET Entry] /\ last' \subseteq Entry
<1>1. related' \in [Entry -> SUBSET Entry] /\ last' = ids
  BY SimilarAreEntries DEF IInv, Shapes, CalculateSimilarEntries
<1>2. \A e \in last' : related'[e] = SimilarEntries(e)
  BY DEF CalculateSimilarEntries
<1>3. \A e : SimilarEntries(e)' = SimilarEntries(e)
  BY DEF SimilarEntries, IsShort, Candidates, PostingsOf, index
<1>4. {x \in postings : HasWeight(x)}' = {x \in postings : HasWeight(x)}
  BY DEF HasWeight, PostingsOf, index
<1> QED
  BY <1>1, <1>2, <1>3, <1>4 DEF IInv, CountedIsWeighed

\* The part of the invariant on weights and similar entries looks at these only
LEMMA WeighedStays ==
  ASSUME CountedIsWeighed, UNCHANGED <<index, positive, related, last>>,
         job'.pc # "updated" /\ tool'.phase # "update" /\ ~torn'
           => job.pc # "updated" /\ tool.phase # "update" /\ ~torn
  PROVE  CountedIsWeighed'
<1>1. \A e : SimilarEntries(e)' = SimilarEntries(e)
  BY DEF SimilarEntries, IsShort, Candidates, PostingsOf, index
<1>2. {x \in postings : HasWeight(x)}' = {x \in postings : HasWeight(x)}
  BY DEF HasWeight, PostingsOf, index
<1> QED
  BY <1>1, <1>2 DEF CountedIsWeighed

LEMMA RelateKeeps ==
  ASSUME IInv, Relate
  PROVE  IInv'
<1>0. /\ job.pc = "recalculated" /\ job' = Idle /\ job.entry \in Entry
      /\ CalculateSimilarEntries({job.entry})
      /\ UNCHANGED <<text, visible, index, positive, due, tool, count, history, torn>>
  BY DEF Relate, IInv, Shapes
<1>1. CASE tool.phase = "update"
  <2>1. related' \in [Entry -> SUBSET Entry] /\ last' \subseteq Entry
    BY <1>0, SimilarAreEntries DEF IInv, Shapes, CalculateSimilarEntries
  <2>2. CountedIsWeighed'
    BY <1>0, <1>1 DEF CountedIsWeighed
  <2> QED
    BY <1>0, <2>1, <2>2, NoEntryIsNone
    DEF IInv, Shapes, ChunkIsMap, ReadIsCurrent, DoneIsIndexed, history, counted, Idle
<1>2. CASE tool.phase # "update"
  <2>1. CountedIsWeighed' /\ related' \in [Entry -> SUBSET Entry] /\ last' \subseteq Entry
    BY <1>0, <1>2, RelatingKeeps
  <2> QED
    BY <1>0, <2>1, NoEntryIsNone
    DEF IInv, Shapes, ChunkIsMap, ReadIsCurrent, DoneIsIndexed, history, counted, Idle
<1> QED
  BY <1>1, <1>2

\* A job that fails is due again or given up; its counts may lack their weights
LEMMA JobFailsKeeps ==
  ASSUME IInv, JobFails
  PROVE  IInv'
<1>0. /\ job' = Idle /\ job.entry \in Entry
      /\ torn' = (torn \/ job.pc = "updated")
      /\ \/ due' = due \cup {job.entry} /\ behind' = behind
         \/ behind' = behind \cup {job.entry} /\ due' = due
      /\ UNCHANGED <<text, visible, index, positive, related, tool, indexed, last>>
  <2>1. job.pc # "idle"
    BY DEF JobFails, IInv, Shapes
  <2> QED
    BY <2>1 DEF JobFails, IInv, Shapes, counted
<1>1. Shapes'
  BY <1>0, NoEntryIsNone DEF IInv, Shapes, Idle
<1>2. CountedIsWeighed'
  BY <1>0, WeighedStays DEF IInv
<1>3. DoneIsIndexed'
  BY <1>0 DEF IInv, DoneIsIndexed
<1> QED
  BY <1>0, <1>1, <1>2, <1>3 DEF IInv, ChunkIsMap, ReadIsCurrent, Idle

-----------------------------------------------------------------------------
(* The subcommand.                                                         *)

LEMMA ToolStartKeeps ==
  ASSUME IInv, NEW similarityOnly \in BOOLEAN, ToolStart(similarityOnly)
  PROVE  IInv'
<1>0. /\ tool.phase = "off" /\ tool' = [Off EXCEPT !.phase = IF similarityOnly THEN "relate" ELSE "update",
                                                   !.todo = Entry]
      /\ UNCHANGED <<text, visible, index, positive, related, due, job, history, torn, last>>
  BY DEF ToolStart, Off
<1>1. Shapes' /\ tool'.chunk = {}
  BY <1>0 DEF IInv, Shapes, history, counted, Off, Batch
<1>2. CountedIsWeighed'
  BY <1>0, WeighedStays DEF IInv
<1> QED
  BY <1>0, <1>1, <1>2 DEF IInv, ChunkIsMap, ReadIsCurrent, DoneIsIndexed, history, counted, Ids

\* The next text of a chunk is that of an entry it has no text of
LEMMA ToolReadKeeps ==
  ASSUME IInv, ToolRead
  PROVE  IInv'
<1> DEFINE e == Least(tool.todo)
           u == [id |-> e, text |-> text[e]]
<1>0. /\ tool.phase = "update" /\ tool.todo # {} /\ tool.todo \subseteq Entry
      /\ tool' = [tool EXCEPT !.todo = @ \ {e}, !.chunk = @ \cup {u}]
      /\ UNCHANGED <<text, visible, index, positive, related, due, job, count, history, torn, last>>
  BY DEF ToolRead, IInv, Shapes
<1>1. e \in tool.todo
  BY <1>0, LeastIsMember
<1> HIDE DEF e
<1>2. /\ tool'.phase = "update" /\ tool'.todo = tool.todo \ {e}
      /\ tool'.chunk = tool.chunk \cup {u}
  BY <1>0 DEF IInv, Shapes
<1>3. u \in [id: Entry, text: SUBSET Term]
  BY <1>0, <1>1 DEF IInv, Shapes
<1>4. Shapes'
  BY <1>0, <1>3 DEF IInv, Shapes, history, counted, Batch
<1>5. ChunkIsMap'
  <2>1. \A v \in tool.chunk : v.id # e
    BY <1>1 DEF IInv, ChunkIsMap, Ids
  <2>2. u.id = e
    OBVIOUS
  <2> HIDE DEF u
  <2>3. Ids(tool'.chunk) = Ids(tool.chunk) \cup {e}
    BY <1>2, <2>2 DEF Ids
  <2> QED
    BY <1>2, <2>1, <2>2, <2>3 DEF IInv, ChunkIsMap
<1>6. CountedIsWeighed'
  BY <1>0, <1>2 DEF CountedIsWeighed
<1> QED
  BY <1>0, <1>4, <1>5, <1>6 DEF IInv, ReadIsCurrent, DoneIsIndexed, history, counted

LEMMA ToolReadFailsKeeps ==
  ASSUME IInv, ToolReadFails
  PROVE  IInv'
<1>0. /\ tool.phase = "update"
      /\ tool' = [tool EXCEPT !.todo = @ \ {Least(tool.todo)}]
      /\ UNCHANGED <<text, visible, index, positive, related, due, job, history, torn, last>>
  BY DEF ToolReadFails
<1>1. /\ Shapes' /\ tool'.phase = "update" /\ tool'.todo \subseteq tool.todo
      /\ tool'.chunk = tool.chunk
  BY <1>0 DEF IInv, Shapes, history, counted
<1> QED
  BY <1>0, <1>1 DEF IInv, ChunkIsMap, CountedIsWeighed, ReadIsCurrent, DoneIsIndexed, history, counted

\* A chunk leaves its entries indexed with the texts read, and behind if these are old
LEMMA ToolUpdateKeeps ==
  ASSUME IInv, ToolUpdate
  PROVE  IInv'
<1>0. /\ tool.phase = "update" /\ tool' = [tool EXCEPT !.chunk = {}]
      /\ Update(tool.chunk) /\ tool.chunk \in Batch
      /\ behind' = {e \in behind \cup Ids(tool.chunk) :
                      \A u \in tool.chunk : u.id = e => u.text # text[e]}
      /\ UNCHANGED <<text, visible, related, due, job, torn, last>>
  BY DEF ToolUpdate, ChunkIsRead, IInv, Shapes
<1>1. tool'.phase = "update" /\ tool'.chunk = {} /\ tool'.todo = tool.todo
  BY <1>0 DEF IInv, Shapes
<1>2. /\ indexed' \in [Entry -> SUBSET Term]
      /\ \A u \in tool.chunk : u.id \in Entry /\ indexed'[u.id] = u.text
      /\ \A e \in Entry \ Ids(tool.chunk) : indexed'[e] = indexed[e]
  BY <1>0, UpdateIndexes DEF IInv, Shapes, ChunkIsMap
<1>3. Shapes'
  BY <1>0, <1>1, <1>2 DEF IInv, Shapes, Batch
<1>4. DoneIsIndexed'
  <2> SUFFICES ASSUME NEW e \in visible \ (due \cup behind'),
                      ~ (job.pc = "read" /\ job.entry = e)
               PROVE  indexed'[e] = text[e]
    BY <1>0 DEF DoneIsIndexed
  <2>1. CASE e \in Ids(tool.chunk)
    <3>1. PICK u \in tool.chunk : u.id = e /\ u.text = text[e]
      BY <1>0, <2>1
    <3> QED
      BY <1>2, <3>1
  <2>2. CASE e \notin Ids(tool.chunk)
    <3>1. e \notin behind
      BY <1>0, <2>2 DEF Ids
    <3> QED
      BY <1>2, <2>2, <3>1 DEF IInv, DoneIsIndexed, Shapes
  <2> QED
    BY <2>1, <2>2
<1> QED
  BY <1>0, <1>1, <1>3, <1>4 DEF IInv, ChunkIsMap, ReadIsCurrent, CountedIsWeighed, Ids

LEMMA ToolUpdateFailsKeeps ==
  ASSUME IInv, ToolUpdateFails
  PROVE  IInv'
<1>0. /\ tool.phase = "update" /\ tool' = [tool EXCEPT !.chunk = {}]
      /\ UNCHANGED <<text, visible, index, positive, related, due, job, history, torn, last>>
  BY DEF ToolUpdateFails, ChunkIsRead
<1>1. Shapes' /\ tool'.phase = "update" /\ tool'.chunk = {}
  BY <1>0 DEF IInv, Shapes, history, counted, Batch
<1> QED
  BY <1>0, <1>1 DEF IInv, ChunkIsMap, CountedIsWeighed, ReadIsCurrent, DoneIsIndexed, history, counted, Ids

LEMMA ToolRecalculateKeeps ==
  ASSUME IInv, ToolRecalculate
  PROVE  IInv'
<1>0. /\ tool' = [Off EXCEPT !.phase = "relate", !.todo = Entry]
      /\ RecalculateTFIDFValues
      /\ UNCHANGED <<text, visible, index, related, due, job, history>>
  BY DEF ToolRecalculate
<1>1. Shapes' /\ tool'.chunk = {}
  BY <1>0 DEF IInv, Shapes, history, counted, Off, Batch, RecalculateTFIDFValues
<1>2. CountedIsWeighed'
  BY <1>0 DEF CountedIsWeighed, RecalculateTFIDFValues, index, HasWeight, PostingsOf
<1> QED
  BY <1>0, <1>1, <1>2 DEF IInv, ChunkIsMap, ReadIsCurrent, DoneIsIndexed, history, counted, Ids

\* The next chunk, or the end
LEMMA GoesOn ==
  ASSUME IInv, tool.phase = "relate", ToolGoesOn
  PROVE  /\ tool'.phase \in {"off", "relate"}
         /\ tool' \in [phase: {"off", "update", "relate"}, todo: SUBSET Entry, chunk: Batch]
         /\ tool'.todo \subseteq tool.todo
         /\ tool'.chunk = tool.chunk \/ tool'.chunk = {}
<1> DEFINE rest == tool.todo \ ChunkOf(tool.todo)
<1>1. tool' = IF rest = {} THEN Off ELSE [tool EXCEPT !.todo = rest]
  BY DEF ToolGoesOn
<1>2. rest \subseteq tool.todo
  OBVIOUS
<1> HIDE DEF rest
<1> QED
  BY <1>1, <1>2 DEF IInv, Shapes, Off, Batch

LEMMA ToolRelateKeeps ==
  ASSUME IInv, ToolRelate
  PROVE  IInv'
<1>0. /\ tool.phase = "relate" /\ ToolGoesOn /\ CalculateSimilarEntries(ChunkOf(tool.todo))
      /\ UNCHANGED <<text, visible, index, positive, due, job, history, torn>>
  BY DEF ToolRelate
<1>1. ChunkOf(tool.todo) \in SUBSET Entry
  BY DEF ChunkOf, IInv, Shapes
<1>2. related' \in [Entry -> SUBSET Entry] /\ last' \subseteq Entry
  BY <1>0, <1>1, SimilarAreEntries DEF IInv, Shapes, CalculateSimilarEntries
<1>3. CountedIsWeighed'
  <2>1. CASE job.pc = "updated"
    BY <1>0, <2>1 DEF CountedIsWeighed
  <2>2. CASE job.pc # "updated"
    BY <1>0, <1>1, <2>2, RelatingKeeps
  <2> QED
    BY <2>1, <2>2
<1>4. Shapes' /\ ChunkIsMap'
  BY <1>0, <1>2, GoesOn DEF IInv, Shapes, ChunkIsMap, history, counted, Ids
<1> QED
  BY <1>0, <1>3, <1>4 DEF IInv, ReadIsCurrent, DoneIsIndexed, history, counted

LEMMA ToolRelateFailsKeeps ==
  ASSUME IInv, ToolRelateFails
  PROVE  IInv'
<1>0. /\ tool.phase = "relate" /\ ToolGoesOn
      /\ UNCHANGED <<text, visible, index, positive, related, due, job, history, torn, last>>
  BY DEF ToolRelateFails
<1>1. Shapes' /\ ChunkIsMap'
  BY <1>0, GoesOn DEF IInv, Shapes, ChunkIsMap, history, counted, Ids
<1>2. CountedIsWeighed'
  BY <1>0, WeighedStays DEF IInv
<1> QED
  BY <1>0, <1>1, <1>2 DEF IInv, ReadIsCurrent, DoneIsIndexed, history, counted

LEMMA ToolEndsKeeps ==
  ASSUME IInv, ToolEnds
  PROVE  IInv'
<1>0. /\ tool' = Off /\ torn' = (torn \/ tool.phase = "update")
      /\ UNCHANGED <<text, visible, index, positive, related, due, job, history, last>>
  BY DEF ToolEnds
<1>1. Shapes' /\ ChunkIsMap'
  BY <1>0 DEF IInv, Shapes, ChunkIsMap, history, counted, Off, Batch, Ids
<1>2. CountedIsWeighed'
  BY <1>0, WeighedStays DEF IInv
<1> QED
  BY <1>0, <1>1, <1>2 DEF IInv, ReadIsCurrent, DoneIsIndexed, history, counted

-----------------------------------------------------------------------------
LEMMA NextKeeps == IInv /\ [Next]_vars => IInv'
<1> SUFFICES ASSUME IInv, [Next]_vars PROVE IInv'
  OBVIOUS
<1>1. CASE \E e \in Entry, terms \in SUBSET Term, public \in BOOLEAN : Save(e, terms, public)
  BY <1>1, SaveKeeps
<1>2. CASE JobStep \/ JobFails
  BY <1>2, StartKeeps, UpdateTFIDFKeeps, RecalculateKeeps, RelateKeeps, JobFailsKeeps
  DEF JobStep
<1>3. CASE (\E similarityOnly \in BOOLEAN : ToolStart(similarityOnly)) \/ ToolStep
  BY <1>3, ToolStartKeeps, ToolReadKeeps, ToolReadFailsKeeps, ToolUpdateKeeps,
     ToolUpdateFailsKeeps, ToolRecalculateKeeps, ToolRelateKeeps, ToolRelateFailsKeeps,
     ToolEndsKeeps DEF ToolStep
<1>4. CASE UNCHANGED vars
  <2>1. CountedIsWeighed'
    BY <1>4, WeighedStays DEF vars, IInv
  <2> QED
    BY <1>4, <2>1 DEF vars, history, counted, IInv, Shapes, ChunkIsMap, ReadIsCurrent, DoneIsIndexed
<1> QED
  BY <1>1, <1>2, <1>3, <1>4 DEF Next

\* What is counted is weighed, and what is done is indexed, in every state
THEOREM InductiveInvariant == Spec => []IInv
  BY InitEstablishes, NextKeeps, PTL DEF Spec

\* A public entry whose job has run is indexed with the text it has now, unless
\* the queue gave the job up or the subcommand wrote a text it had read before
THEOREM DoneEntriesAreIndexed == Spec => []IndexedWhenDone
<1>1. IInv => IndexedWhenDone
  BY DEF IInv, DoneIsIndexed, IndexedWhenDone, Settled
<1> QED
  BY <1>1, InductiveInvariant, PTL

\* When nothing runs and no one was stopped half-way, the weights are those of
\* the present counts, and so are the entries related last
THEOREM RestIsCurrent == Spec => []SettledIsCurrent
<1>1. IInv => SettledIsCurrent
  BY DEF IInv, CountedIsWeighed, SettledIsCurrent, PopulateSimilarEntries, Idle, Off
<1> QED
  BY <1>1, InductiveInvariant, PTL

-----------------------------------------------------------------------------
(* What UpdateTFIDFs makes of one term.                                    *)

\* The tables between two statements of a transaction
Rows ==
  [df: [Term -> Int], first: [Term -> Entry \cup {NoEntry}], postings: SUBSET (Entry \X Term),
   promoted: SUBSET Term]

\* A term that is counted has a first entry
Tables ==
  {D \in Rows : \A t \in Term : D.df[t] > 0 \/ t \in D.promoted => D.first[t] \in Entry}

\* A batch has one text of an entry
IsMap(batch) == \A u, v \in batch : u.id = v.id => u = v

TextIn(batch, e) == CHOOSE u \in batch : u.id = e

LEMMA TextInBatch ==
  ASSUME NEW batch \in Batch, IsMap(batch), NEW e \in Ids(batch)
  PROVE  TextIn(batch, e) \in batch /\ TextIn(batch, e).id = e
         /\ TextIn(batch, e).text \in SUBSET Term /\ e \in Entry
<1>1. TextIn(batch, e) \in batch /\ TextIn(batch, e).id = e
  BY DEF Ids, TextIn
<1>2. TextIn(batch, e) \in [id: Entry, text: SUBSET Term]
  BY <1>1 DEF Batch
<1> QED
  BY <1>1, <1>2

\* What Upsert makes of a term
LEMMA UpsertRows ==
  ASSUME NEW D \in Rows, NEW u \in [id: Entry, text: SUBSET Term], NEW ids
  PROVE  LET E == Upsert(D, u, ids)
         IN  /\ E \in Rows
             /\ \A t \in Term :
                  /\ E.df[t] = IF t \in u.text THEN D.df[t] + 1 ELSE D.df[t]
                  /\ E.first[t] = IF t \in u.text /\ D.df[t] <= 0 THEN u.id ELSE D.first[t]
                  /\ t \in E.promoted <=>
                       t \in D.promoted
                       \/ (t \in u.text /\ E.df[t] = 2 /\ E.first[t] \notin ids)
                  /\ \A e \in Entry : <<e, t>> \in E.postings <=>
                       <<e, t>> \in D.postings \/ (e = u.id /\ t \in u.text /\ E.df[t] >= 2)
<1> DEFINE df2 == [t \in Term |-> IF t \in u.text THEN D.df[t] + 1 ELSE D.df[t]]
           first2 == [t \in Term |-> IF t \in u.text /\ D.df[t] <= 0 THEN u.id ELSE D.first[t]]
           postings2 == D.postings \cup {<<u.id, t>> : t \in {x \in u.text : df2[x] >= 2}}
           promoted2 == D.promoted \cup {t \in u.text : df2[t] = 2 /\ first2[t] \notin ids}
           E == Upsert(D, u, ids)
<1>1. /\ D.df \in [Term -> Int] /\ D.first \in [Term -> Entry \cup {NoEntry}]
      /\ D.postings \subseteq Entry \X Term /\ D.promoted \subseteq Term
      /\ u.id \in Entry /\ u.text \subseteq Term
  BY DEF Rows
<1>2. df2 \in [Term -> Int] /\ first2 \in [Term -> Entry \cup {NoEntry}]
  BY <1>1
<1>3. E = [df |-> df2, first |-> first2, postings |-> postings2, promoted |-> promoted2]
  BY DEF Upsert
<1>4. E.df = df2 /\ E.first = first2 /\ E.postings = postings2 /\ E.promoted = promoted2
  BY <1>3
<1>5. \A t \in Term : df2[t] = IF t \in u.text THEN D.df[t] + 1 ELSE D.df[t]
  OBVIOUS
<1>6. \A t \in Term : first2[t] = IF t \in u.text /\ D.df[t] <= 0 THEN u.id ELSE D.first[t]
  OBVIOUS
<1> HIDE DEF df2, first2
<1>7. postings2 \subseteq Entry \X Term
  BY <1>1
<1>8. promoted2 \subseteq Term
  BY <1>1
<1>9. \A t \in Term : t \in promoted2 <=>
        t \in D.promoted \/ (t \in u.text /\ df2[t] = 2 /\ first2[t] \notin ids)
  OBVIOUS
<1>10. \A t \in Term : \A e \in Entry : <<e, t>> \in postings2 <=>
         <<e, t>> \in D.postings \/ (e = u.id /\ t \in u.text /\ df2[t] >= 2)
  OBVIOUS
<1> HIDE DEF postings2, promoted2
<1>11. E \in Rows
  BY <1>2, <1>3, <1>7, <1>8 DEF Rows
<1> HIDE DEF E
<1>12. \A t \in Term :
         /\ E.df[t] = IF t \in u.text THEN D.df[t] + 1 ELSE D.df[t]
         /\ E.first[t] = IF t \in u.text /\ D.df[t] <= 0 THEN u.id ELSE D.first[t]
         /\ t \in E.promoted <=>
              t \in D.promoted \/ (t \in u.text /\ E.df[t] = 2 /\ E.first[t] \notin ids)
         /\ \A e \in Entry : <<e, t>> \in E.postings <=>
              <<e, t>> \in D.postings \/ (e = u.id /\ t \in u.text /\ E.df[t] >= 2)
  BY <1>4, <1>5, <1>6, <1>9, <1>10
<1> QED
  BY <1>11, <1>12 DEF E

\* Upsert keeps every counted term with a first entry
LEMMA UpsertType ==
  ASSUME NEW D \in Tables, NEW u \in [id: Entry, text: SUBSET Term], NEW ids
  PROVE  Upsert(D, u, ids) \in Tables
<1> DEFINE E == Upsert(D, u, ids)
<1>1. D \in Rows /\ \A t \in Term : D.df[t] > 0 \/ t \in D.promoted => D.first[t] \in Entry
  BY DEF Tables
<1>2. /\ E \in Rows
      /\ \A t \in Term :
           /\ E.df[t] = IF t \in u.text THEN D.df[t] + 1 ELSE D.df[t]
           /\ E.first[t] = IF t \in u.text /\ D.df[t] <= 0 THEN u.id ELSE D.first[t]
           /\ t \in E.promoted => t \in D.promoted \/ (t \in u.text /\ E.df[t] = 2)
  BY <1>1, UpsertRows
<1>3. u.id \in Entry /\ \A t \in Term : D.df[t] \in Int
  BY <1>1 DEF Rows
<1> HIDE DEF E
<1>4. ASSUME NEW t \in Term, E.df[t] > 0 \/ t \in E.promoted PROVE E.first[t] \in Entry
  BY <1>1, <1>2, <1>3, <1>4
<1> QED
  BY <1>2, <1>4 DEF Tables, E

\* The recursion of UpsertAll, unfolded
LEMMA UpsertsInOrder ==
  ASSUME NEW D \in Tables, NEW batch \in Batch, IsMap(batch)
  PROVE  \E g \in [0 .. MaxEntry -> Tables] :
           /\ g[0] = D /\ UpsertAll(D, batch) = g[MaxEntry]
           /\ \A e \in 1 .. MaxEntry :
                g[e] = IF e \in Ids(batch) THEN Upsert(g[e - 1], TextIn(batch, e), Ids(batch))
                       ELSE g[e - 1]
<1> DEFINE body(f, e) == IF e \in Ids(batch) THEN Upsert(f, TextIn(batch, e), Ids(batch)) ELSE f
           step == [x \in (1 .. MaxEntry) \X Tables |-> body(x[2], x[1])]
<1>1. \A f \in Tables : \A e \in 1 .. MaxEntry : body(f, e) \in Tables
  <2> SUFFICES ASSUME NEW f \in Tables, NEW e \in 1 .. MaxEntry PROVE body(f, e) \in Tables
    OBVIOUS
  <2>1. CASE e \in Ids(batch)
    <3>1. TextIn(batch, e) \in [id: Entry, text: SUBSET Term]
      BY <2>1, TextInBatch DEF Batch
    <3> QED
      BY <2>1, <3>1, UpsertType
  <2>2. CASE e \notin Ids(batch)
    BY <2>2
  <2> QED
    BY <2>1, <2>2
<1>2. step \in [(1 .. MaxEntry) \X Tables -> Tables]
  BY <1>1
<1>3. \A f \in Tables : \A e \in 1 .. MaxEntry : step[<<e, f>>] = body(f, e)
  OBVIOUS
<1>4. MaxEntry \in Nat
  BY IndexBounds
<1> HIDE DEF step
<1>5. PICK g : Iterated(MaxEntry, Tables, D, step, g)
  BY <1>2, <1>4, Iterates
<1>6. /\ g \in [0 .. MaxEntry -> Tables] /\ g[0] = D
      /\ \A n \in 1 .. MaxEntry : g[n] = step[<<n, g[n - 1]>>]
  BY <1>5 DEF Iterated
<1>7. \A e \in 1 .. MaxEntry : e - 1 \in 0 .. MaxEntry
  BY <1>4
<1>8. \A e \in 1 .. MaxEntry : g[e] = body(g[e - 1], e)
  BY <1>3, <1>6, <1>7
<1> HIDE DEF body
<1> DEFINE Is(h) == h = [e \in 0 .. MaxEntry |->
                           IF e = 0 THEN D
                           ELSE IF e \in Ids(batch)
                           THEN Upsert(h[e - 1], CHOOSE u \in batch : u.id = e, Ids(batch))
                           ELSE h[e - 1]]
           upTo == CHOOSE h : Is(h)
<1>9. Is(g)
  <2>1. \A e \in 0 .. MaxEntry : e # 0 => e \in 1 .. MaxEntry
    BY <1>4
  <2>2. g = [e \in 0 .. MaxEntry |-> g[e]]
    BY <1>6
  <2>3. \A e \in 0 .. MaxEntry :
          g[e] = IF e = 0 THEN D
                 ELSE IF e \in Ids(batch)
                 THEN Upsert(g[e - 1], CHOOSE u \in batch : u.id = e, Ids(batch))
                 ELSE g[e - 1]
    BY <1>6, <1>8, <2>1 DEF body, TextIn
  <2> QED
    BY <2>2, <2>3
<1>10. Is(upTo)
  <2> HIDE DEF Is
  <2> QED
    BY <1>9
<1>11. UpsertAll(D, batch) = upTo[MaxEntry]
  BY DEF UpsertAll
<1> HIDE DEF upTo
<1>12. upTo[0] = D /\ \A e \in 1 .. MaxEntry :
         upTo[e] = IF e \in Ids(batch) THEN Upsert(upTo[e - 1], TextIn(batch, e), Ids(batch))
                   ELSE upTo[e - 1]
  BY <1>4, <1>10 DEF TextIn
<1>13. \A e \in 0 .. MaxEntry : upTo[e] = g[e]
  <2> DEFINE Same == {e \in 0 .. MaxEntry : upTo[e] = g[e]}
  <2>1. 0 \in Same
    BY <1>4, <1>6, <1>12
  <2>2. ASSUME NEW n \in 1 .. MaxEntry, n - 1 \in Same PROVE n \in Same
    BY <1>4, <1>8, <1>12, <2>2 DEF body
  <2> HIDE DEF Same
  <2>3. \A n \in 0 .. MaxEntry : n \in Same
    BY <1>4, <2>1, <2>2, ReachesAll
  <2> QED
    BY <2>3 DEF Same
<1>14. MaxEntry \in 0 .. MaxEntry
  BY <1>4
<1> QED
  BY <1>6, <1>8, <1>11, <1>13, <1>14 DEF body

-----------------------------------------------------------------------------
(* What a batch makes of one term.                                         *)

\* The tables D and E have the same of a term
Same(D, E, t) ==
  /\ E.df[t] = D.df[t] /\ E.first[t] = D.first[t]
  /\ t \in E.promoted <=> t \in D.promoted
  /\ \A e \in Entry : <<e, t>> \in E.postings <=> <<e, t>> \in D.postings

\* In E, the entries new of a batch hold the term in addition to those of D
Grown(D, E, new, ids, t) ==
  /\ E.df[t] = D.df[t] + Cardinality(new)
  /\ E.first[t] = IF D.df[t] = 0 /\ new # {} THEN Least(new) ELSE D.first[t]
  /\ t \in E.promoted <=>
       t \in D.promoted \/ (D.df[t] = 1 /\ new # {} /\ D.first[t] \notin ids)
  /\ \A e \in Entry : <<e, t>> \in E.postings <=>
       <<e, t>> \in D.postings \/ (e \in new /\ (D.df[t] >= 1 \/ e # Least(new)))

\* The entries of a batch whose text holds a term
Holding(batch, t) == {e \in Ids(batch) : t \in TextIn(batch, e).text}

\* One entry of a batch changes the terms of its text, and no other
LEMMA UpsertOne ==
  ASSUME NEW D \in Tables, NEW u \in [id: Entry, text: SUBSET Term], NEW ids, NEW t \in Term
  PROVE  LET E == Upsert(D, u, ids)
         IN  /\ t \notin u.text => Same(D, E, t)
             /\ t \in u.text =>
                  /\ E.df[t] = D.df[t] + 1
                  /\ E.first[t] = IF D.df[t] <= 0 THEN u.id ELSE D.first[t]
                  /\ t \in E.promoted <=> t \in D.promoted \/ (E.df[t] = 2 /\ E.first[t] \notin ids)
                  /\ \A e \in Entry : <<e, t>> \in E.postings <=>
                       <<e, t>> \in D.postings \/ (e = u.id /\ E.df[t] >= 2)
<1> DEFINE E == Upsert(D, u, ids)
<1>1. /\ E.df[t] = IF t \in u.text THEN D.df[t] + 1 ELSE D.df[t]
      /\ E.first[t] = IF t \in u.text /\ D.df[t] <= 0 THEN u.id ELSE D.first[t]
      /\ t \in E.promoted <=>
           t \in D.promoted \/ (t \in u.text /\ E.df[t] = 2 /\ E.first[t] \notin ids)
      /\ \A e \in Entry : <<e, t>> \in E.postings <=>
           <<e, t>> \in D.postings \/ (e = u.id /\ t \in u.text /\ E.df[t] >= 2)
  BY UpsertRows DEF Tables
<1> HIDE DEF E
<1>2. t \notin u.text => Same(D, E, t)
  BY <1>1 DEF Same
<1> QED
  BY <1>1, <1>2 DEF E

LEMMA UpsertAllType ==
  ASSUME NEW D \in Tables, NEW batch \in Batch, IsMap(batch)
  PROVE  UpsertAll(D, batch) \in Tables
<1>1. PICK g \in [0 .. MaxEntry -> Tables] : UpsertAll(D, batch) = g[MaxEntry]
  BY UpsertsInOrder
<1>2. MaxEntry \in 0 .. MaxEntry
  BY IndexBounds
<1> QED
  BY <1>1, <1>2

\* The entries of a batch that hold a term change it one after the other
LEMMA UpsertAllOfTerm ==
  ASSUME NEW D \in Tables, NEW batch \in Batch, IsMap(batch), NEW t \in Term, D.df[t] \in Nat
  PROVE  Grown(D, UpsertAll(D, batch), Holding(batch, t), Ids(batch), t)
<1> DEFINE new == Holding(batch, t)
           ids == Ids(batch)
           Upto(n) == {e \in new : e <= n}
<1>1. PICK g \in [0 .. MaxEntry -> Tables] :
        /\ g[0] = D /\ UpsertAll(D, batch) = g[MaxEntry]
        /\ \A e \in 1 .. MaxEntry :
             g[e] = IF e \in ids THEN Upsert(g[e - 1], TextIn(batch, e), ids) ELSE g[e - 1]
  BY UpsertsInOrder
<1>2. MaxEntry \in Nat /\ MaxEntry \in 0 .. MaxEntry
  BY IndexBounds
<1>3. new \subseteq ids /\ new \subseteq Entry
  BY TextInBatch DEF Holding
<1>4. D.first[t] \in Entry \cup {NoEntry}
  BY DEF Tables, Rows
<1>5. ASSUME NEW e \in 1 .. MaxEntry
      PROVE  /\ g[e - 1] \in Tables
             /\ e \notin new => Same(g[e - 1], g[e], t)
             /\ e \in new =>
                  /\ g[e].df[t] = g[e - 1].df[t] + 1
                  /\ g[e].first[t] = IF g[e - 1].df[t] <= 0 THEN e ELSE g[e - 1].first[t]
                  /\ t \in g[e].promoted <=>
                       t \in g[e - 1].promoted \/ (g[e].df[t] = 2 /\ g[e].first[t] \notin ids)
                  /\ \A o \in Entry : <<o, t>> \in g[e].postings <=>
                       <<o, t>> \in g[e - 1].postings \/ (o = e /\ g[e].df[t] >= 2)
  <2>1. e - 1 \in 0 .. MaxEntry
    BY <1>2
  <2>2. g[e - 1] \in Tables
    BY <2>1
  <2>3. CASE e \in ids
    <3>1. TextIn(batch, e) \in [id: Entry, text: SUBSET Term] /\ TextIn(batch, e).id = e
      BY <2>3, TextInBatch DEF Batch
    <3>2. g[e] = Upsert(g[e - 1], TextIn(batch, e), ids)
      BY <1>1, <2>3
    <3>3. e \in new <=> t \in TextIn(batch, e).text
      BY <2>3 DEF Holding
    <3> HIDE DEF new, ids
    <3> QED
      BY <2>2, <3>1, <3>2, <3>3, UpsertOne
  <2>4. CASE e \notin ids
    BY <1>1, <1>3, <2>2, <2>4 DEF Same
  <2> QED
    BY <2>3, <2>4
<1> HIDE DEF new, ids
<1>a. \A n, e : e \in Upto(n) <=> e \in new /\ e <= n
  OBVIOUS
<1>b. \A e \in new : e \in Nat /\ 1 <= e /\ e <= MaxEntry
  BY <1>2, <1>3 DEF Entry
<1> HIDE DEF Upto
<1> DEFINE Good(n) == Grown(D, g[n], Upto(n), ids, t)
           G == {n \in 0 .. MaxEntry : Good(n)}
<1> HIDE DEF Good
<1>c. \A n \in 0 .. MaxEntry : n \in G <=> Good(n)
  OBVIOUS
<1> HIDE DEF G
<1>6. 0 \in G
  <2>1. Upto(0) = {}
    <3>1. \A e : e \notin Upto(0)
      BY <1>a, <1>b
    <3> QED
      BY <3>1
  <2>2. Cardinality({}) = 0
    BY FS_EmptySet
  <2>3. Grown(D, D, {}, ids, t)
    BY <2>2 DEF Grown
  <2>4. Good(0)
    BY <1>1, <2>1, <2>3 DEF Good
  <2>5. 0 \in 0 .. MaxEntry
    BY <1>2
  <2> QED
    BY <1>c, <2>4, <2>5
<1>7. ASSUME NEW n \in 1 .. MaxEntry, n - 1 \in G PROVE n \in G
  <2>1. n \in 0 .. MaxEntry /\ n \in Entry /\ n \in Nat
    BY <1>2 DEF Entry
  <2>2. Grown(D, g[n - 1], Upto(n - 1), ids, t)
    <3>1. n - 1 \in 0 .. MaxEntry
      BY <1>2
    <3> QED
      BY <1>7, <1>c, <3>1 DEF Good
  <2>a. /\ \A e : e \in Upto(n - 1) <=> e \in new /\ e <= n - 1
        /\ \A e : e \in Upto(n) <=> e \in new /\ e <= n
    BY <1>a
  <2>b. \A e \in new : e <= n - 1 <=> e <= n /\ e # n
    BY <1>b, <2>1
  <2>c. \A e \in new : e <= n - 1 => e < n
    BY <1>b, <2>1
  <2>3. Upto(n - 1) \subseteq Entry /\ \A e \in Upto(n - 1) : e < n
    BY <1>3, <2>a, <2>c
  <2>4. IsFiniteSet(Upto(n - 1)) /\ Cardinality(Upto(n - 1)) \in Nat
        /\ (Cardinality(Upto(n - 1)) = 0 <=> Upto(n - 1) = {})
    BY <2>3, EntriesAreFinite, FS_EmptySet
  <2>5. CASE n \notin new
    <3>0. \A e : e \in Upto(n) <=> e \in Upto(n - 1)
      BY <2>a, <2>b, <2>5
    <3>1. Upto(n) = Upto(n - 1)
      <4>1. Upto(n) \subseteq new /\ Upto(n - 1) \subseteq new
        BY <1>a
      <4> QED
        BY <3>0, <4>1
    <3>2. Same(g[n - 1], g[n], t)
      BY <1>5, <2>5
    <3>3. Grown(D, g[n], Upto(n), ids, t)
      BY <2>2, <3>1, <3>2 DEF Grown, Same
    <3> QED
      BY <1>c, <2>1, <3>3 DEF Good
  <2>6. CASE n \in new
    <3>0. \A e : e \in Upto(n) <=> e \in Upto(n - 1) \cup {n}
      <4>1. n <= n
        BY <2>1
      <4>2. \A e : e \in Upto(n) <=> e \in new /\ (e <= n - 1 \/ e = n)
        BY <2>a, <2>b, <4>1
      <4> QED
        BY <2>6, <2>a, <4>2, Zenon
    <3>1. Upto(n) = Upto(n - 1) \cup {n} /\ n \notin Upto(n - 1)
      <4>1. Upto(n) \subseteq new /\ Upto(n - 1) \subseteq new
        BY <1>a
      <4> QED
        BY <2>1, <2>3, <2>6, <3>0, <4>1
    <3> DEFINE old == Upto(n - 1)
               all == Upto(n)
    <3>2. Cardinality(all) = Cardinality(old) + 1
      BY <2>4, <3>1, FS_AddElement
    <3>3. Least(all) = IF old = {} THEN n ELSE Least(old)
      BY <2>1, <2>3, <3>1, LeastGrows
    <3>4. /\ g[n].df[t] = g[n - 1].df[t] + 1
          /\ g[n].first[t] = IF g[n - 1].df[t] <= 0 THEN n ELSE g[n - 1].first[t]
          /\ t \in g[n].promoted <=>
               t \in g[n - 1].promoted \/ (g[n].df[t] = 2 /\ g[n].first[t] \notin ids)
          /\ \A o \in Entry : <<o, t>> \in g[n].postings <=>
               <<o, t>> \in g[n - 1].postings \/ (o = n /\ g[n].df[t] >= 2)
      BY <1>5, <2>6
    <3>5. old # {} => Least(old) \in old
      BY <2>3, LeastIsMember
    <3>6. old \subseteq ids /\ n \in ids
      BY <1>3, <1>a, <2>6
    <3>7. all # {} /\ n \in all /\ old \subseteq all
      BY <3>1
    <3> HIDE DEF old, all
    <3>8. /\ g[n - 1].df[t] = D.df[t] + Cardinality(old)
          /\ g[n - 1].first[t] = IF D.df[t] = 0 /\ old # {} THEN Least(old) ELSE D.first[t]
          /\ t \in g[n - 1].promoted <=>
               t \in D.promoted \/ (D.df[t] = 1 /\ old # {} /\ D.first[t] \notin ids)
          /\ \A e \in Entry : <<e, t>> \in g[n - 1].postings <=>
               <<e, t>> \in D.postings \/ (e \in old /\ (D.df[t] >= 1 \/ e # Least(old)))
      BY <2>2 DEF Grown, old
    <3>9. g[n].df[t] = D.df[t] + Cardinality(all)
      BY <2>4, <3>2, <3>4, <3>8 DEF old
    <3>10. g[n].first[t] = IF D.df[t] = 0 /\ all # {} THEN Least(all) ELSE D.first[t]
      BY <2>4, <3>3, <3>4, <3>7, <3>8 DEF old
    <3>11. t \in g[n].promoted <=>
             t \in D.promoted \/ (D.df[t] = 1 /\ all # {} /\ D.first[t] \notin ids)
      <4>1. CASE old = {}
        BY <2>4, <3>3, <3>4, <3>6, <3>7, <3>8, <3>10, <4>1 DEF old
      <4>2. CASE old # {} /\ D.df[t] = 0
        BY <2>4, <3>4, <3>5, <3>6, <3>8, <4>2 DEF old
      <4>3. CASE old # {} /\ D.df[t] >= 1
        BY <2>4, <3>4, <3>7, <3>8, <4>3 DEF old
      <4> QED
        BY <4>1, <4>2, <4>3
    <3>12. ASSUME NEW e \in Entry
           PROVE  <<e, t>> \in g[n].postings <=>
                    <<e, t>> \in D.postings \/ (e \in all /\ (D.df[t] >= 1 \/ e # Least(all)))
      <4>1. e \in all <=> e \in old \/ e = n
        BY <3>1 DEF old, all
      <4>2. n \notin old /\ (g[n].df[t] >= 2 <=> D.df[t] >= 1 \/ old # {})
        BY <2>4, <3>1, <3>2, <3>9 DEF old
      <4>3. old # {} => Least(old) # n
        BY <3>5, <4>2
      <4> QED
        BY <3>3, <3>4, <3>8, <4>1, <4>2, <4>3
    <3>13. Grown(D, g[n], all, ids, t)
      BY <3>9, <3>10, <3>11, <3>12 DEF Grown
    <3> QED
      BY <1>c, <2>1, <3>13 DEF all, Good
  <2> QED
    BY <2>5, <2>6
<1>8. Upto(MaxEntry) = new
  <2>1. \A e : e \in Upto(MaxEntry) <=> e \in new
    BY <1>a, <1>b
  <2> QED
    BY <2>1
<1>9. MaxEntry \in G
  BY <1>2, <1>6, <1>7, ReachesAll
<1> QED
  BY <1>1, <1>2, <1>8, <1>9, <1>c DEF Good, new, ids

-----------------------------------------------------------------------------
(* What UpdateTFIDFs writes for one term.                                  *)

\* The tables as a transaction finds them
Stored == [df |-> df, first |-> first, postings |-> postings, promoted |-> {}]

\* What Decrement takes off a term
LEMMA DecrementOfTerm ==
  ASSUME IndexShapes, NEW ids
  PROVE  LET D == Decrement(Stored, ids)
         IN  /\ D \in Tables
             /\ \A t \in Term :
                  /\ D.df[t] = IF \E e \in ids : <<e, t>> \in postings \/ first[t] = e
                               THEN df[t] - 1 ELSE df[t]
                  /\ D.first[t] = first[t] /\ t \notin D.promoted
                  /\ \A e \in Entry : <<e, t>> \in D.postings <=> <<e, t>> \in postings /\ e \notin ids
<1> DEFINE df2 == [t \in Term |-> IF \E e \in ids : t \in TermsOf(Stored, e) THEN df[t] - 1 ELSE df[t]]
           postings2 == {x \in postings : x[1] \notin ids}
           D == Decrement(Stored, ids)
<1>1. D = [df |-> df2, first |-> first, postings |-> postings2, promoted |-> {}]
  <2>1. Stored.df = df /\ Stored.postings = postings
    BY DEF Stored
  <2>2. D = [Stored EXCEPT !.df = df2, !.postings = postings2]
    BY <2>1 DEF Decrement
  <2> HIDE DEF D, df2, postings2
  <2> QED
    BY <2>2 DEF Stored
<1>2. D.df = df2 /\ D.first = first /\ D.postings = postings2 /\ D.promoted = {}
  BY <1>1
<1>3. \A t \in Term : \A e : t \in TermsOf(Stored, e) <=> <<e, t>> \in postings \/ first[t] = e
  BY DEF TermsOf, Stored
<1>4. \A t \in Term : df2[t] = IF \E e \in ids : <<e, t>> \in postings \/ first[t] = e
                               THEN df[t] - 1 ELSE df[t]
  BY <1>3
<1>5. \A t \in Term : \A e \in Entry :
        <<e, t>> \in postings2 <=> <<e, t>> \in postings /\ e \notin ids
  OBVIOUS
<1>6. df \in [Term -> Int] /\ df2 \in [Term -> Int] /\ postings2 \subseteq Entry \X Term
  BY DEF IndexShapes
<1>7. \A t \in Term : df2[t] > 0 => first[t] \in Entry
  BY <1>4, <1>6 DEF IndexShapes
<1> HIDE DEF df2, postings2
<1>8. D \in Rows
  BY <1>1, <1>6 DEF Rows, IndexShapes
<1> HIDE DEF D
<1>9. D \in Tables
  BY <1>2, <1>7, <1>8 DEF Tables
<1>10. \A t \in Term :
         /\ D.df[t] = IF \E e \in ids : <<e, t>> \in postings \/ first[t] = e
                      THEN df[t] - 1 ELSE df[t]
         /\ D.first[t] = first[t] /\ t \notin D.promoted
         /\ \A e \in Entry : <<e, t>> \in D.postings <=> <<e, t>> \in postings /\ e \notin ids
  BY <1>2, <1>4, <1>5
<1> QED
  BY <1>9, <1>10 DEF D

\* What Promote adds of a term
LEMMA PromoteRows ==
  ASSUME NEW D \in Tables
  PROVE  LET E == Promote(D)
         IN  /\ E \in Rows /\ E.df = D.df /\ E.first = D.first
             /\ \A t \in Term : \A e \in Entry :
                  <<e, t>> \in E.postings <=>
                    <<e, t>> \in D.postings
                    \/ (t \in D.promoted /\ D.first[t] = e /\ t \in text[e])
<1> DEFINE first2 == {<<D.first[t], t>> : t \in {x \in D.promoted : x \in text[D.first[x]]}}
           E == Promote(D)
<1>1. D \in Rows /\ \A t \in D.promoted : t \in Term /\ D.first[t] \in Entry
  BY DEF Tables, Rows
<1>2. E = [df |-> D.df, first |-> D.first, postings |-> D.postings \cup first2,
           promoted |-> D.promoted]
  <2>1. E = [D EXCEPT !.postings = @ \cup first2]
    BY DEF Promote
  <2> HIDE DEF E, first2
  <2> QED
    BY <1>1, <2>1 DEF Rows
<1>3. first2 \subseteq Entry \X Term
  BY <1>1
<1>4. \A t \in Term : \A e \in Entry :
        <<e, t>> \in first2 <=> t \in D.promoted /\ D.first[t] = e /\ t \in text[e]
  OBVIOUS
<1> HIDE DEF first2
<1>5. E \in Rows
  BY <1>1, <1>2, <1>3 DEF Rows
<1> QED
  BY <1>2, <1>4, <1>5

\* The count of a term once the entries of a batch are taken off it
CountedDown(ids, t) ==
  IF \E e \in ids : <<e, t>> \in postings \/ first[t] = e THEN df[t] - 1 ELSE df[t]

\* What a transaction makes of a term
LEMMA UpdateOfTerm ==
  ASSUME NEW batch \in Batch, IsMap(batch), IndexShapes, Update(batch)
  PROVE  /\ IndexShapes'
         /\ \A t \in Term :
              LET ids == Ids(batch)
                  new == Holding(batch, t)
                  kept == CountedDown(ids, t)
              IN  kept \in Nat =>
                    /\ df'[t] = kept + Cardinality(new)
                    /\ first'[t] = IF kept = 0 /\ new # {} THEN Least(new) ELSE first[t]
                    /\ \A e \in Entry : <<e, t>> \in postings' <=>
                         \/ <<e, t>> \in postings /\ e \notin ids
                         \/ e \in new /\ (kept >= 1 \/ e # Least(new))
                         \/ kept = 1 /\ new # {} /\ first[t] = e /\ e \notin ids /\ t \in text[e]
<1> DEFINE ids == Ids(batch)
           D1 == Decrement(Stored, ids)
           D2 == UpsertAll(D1, batch)
           D3 == Promote(D2)
<1>1. D1 \in Tables
  BY DecrementOfTerm
<1>2. \A t \in Term :
        /\ D1.df[t] = CountedDown(ids, t) /\ D1.first[t] = first[t] /\ t \notin D1.promoted
        /\ \A e \in Entry : <<e, t>> \in D1.postings <=> <<e, t>> \in postings /\ e \notin ids
  BY DecrementOfTerm DEF CountedDown
<1>3. df' = D3.df /\ first' = D3.first /\ postings' = D3.postings
  BY DEF Update, UpdateTFIDFs, Stored
<1> HIDE DEF D1
<1>4. D2 \in Tables
  BY <1>1, UpsertAllType
<1>5. ASSUME NEW t \in Term, CountedDown(ids, t) \in Nat
      PROVE  Grown(D1, D2, Holding(batch, t), ids, t)
  <2>1. D1.df[t] \in Nat
    BY <1>2, <1>5
  <2> QED
    BY <1>1, <2>1, UpsertAllOfTerm
<1> HIDE DEF D2
<1>6. /\ D3 \in Rows /\ D3.df = D2.df /\ D3.first = D2.first
      /\ \A t \in Term : \A e \in Entry :
           <<e, t>> \in D3.postings <=>
             <<e, t>> \in D2.postings \/ (t \in D2.promoted /\ D2.first[t] = e /\ t \in text[e])
  BY <1>4, PromoteRows
<1> HIDE DEF D3, ids
<1>7. IndexShapes'
  BY <1>3, <1>4, <1>6 DEF IndexShapes, Tables, Rows
<1>8. ASSUME NEW t \in Term, CountedDown(ids, t) \in Nat
      PROVE  LET new == Holding(batch, t)
                 kept == CountedDown(ids, t)
             IN  /\ df'[t] = kept + Cardinality(new)
                 /\ first'[t] = IF kept = 0 /\ new # {} THEN Least(new) ELSE first[t]
                 /\ \A e \in Entry : <<e, t>> \in postings' <=>
                      \/ <<e, t>> \in postings /\ e \notin ids
                      \/ e \in new /\ (kept >= 1 \/ e # Least(new))
                      \/ kept = 1 /\ new # {} /\ first[t] = e /\ e \notin ids /\ t \in text[e]
  <2> DEFINE new == Holding(batch, t)
             kept == CountedDown(ids, t)
  <2>0. Grown(D1, D2, new, ids, t) /\ kept \in Nat
    BY <1>5, <1>8
  <2> HIDE DEF new
  <2>1. /\ D2.df[t] = kept + Cardinality(new)
        /\ D2.first[t] = IF kept = 0 /\ new # {} THEN Least(new) ELSE first[t]
        /\ t \in D2.promoted <=> kept = 1 /\ new # {} /\ first[t] \notin ids
        /\ \A e \in Entry : <<e, t>> \in D2.postings <=>
             \/ <<e, t>> \in postings /\ e \notin ids
             \/ e \in new /\ (kept >= 1 \/ e # Least(new))
    BY <1>2, <2>0 DEF Grown
  <2> HIDE DEF kept
  <2>2. df'[t] = D2.df[t] /\ first'[t] = D2.first[t]
    BY <1>3, <1>6
  <2>3. ASSUME NEW e \in Entry
        PROVE  <<e, t>> \in postings' <=>
                 \/ <<e, t>> \in postings /\ e \notin ids
                 \/ e \in new /\ (kept >= 1 \/ e # Least(new))
                 \/ kept = 1 /\ new # {} /\ first[t] = e /\ e \notin ids /\ t \in text[e]
    <3>1. <<e, t>> \in postings' <=>
            <<e, t>> \in D2.postings \/ (t \in D2.promoted /\ D2.first[t] = e /\ t \in text[e])
      BY <1>3, <1>6
    <3>2. t \in D2.promoted => D2.first[t] = first[t]
      BY <2>1
    <3> QED
      BY <2>1, <3>1, <3>2
  <2> QED
    BY <2>1, <2>2, <2>3 DEF new, kept
<1> QED
  BY <1>7, <1>8 DEF ids

-----------------------------------------------------------------------------
(* The count of a term.                                                    *)

\* What the history says of a batch
LEMMA UpdateAccounts ==
  ASSUME NEW batch \in Batch, IsMap(batch), indexed \in [Entry -> SUBSET Term], Update(batch)
  PROVE  LET ids == Ids(batch)
         IN  /\ indexed' \in [Entry -> SUBSET Term]
             /\ \A e \in Entry \ ids : indexed'[e] = indexed[e]
             /\ \A t \in Term : Holding(batch, t) = {e \in ids : t \in indexed'[e]}
             /\ \A t \in Term \ drifted' :
                  /\ t \notin drifted /\ ~ Miscounts(t, ids)
                  /\ founder'[t] = IF Holders(t) \ ids = {} /\ Holding(batch, t) # {}
                                   THEN Least(Holding(batch, t)) ELSE founder[t]
                  /\ \A e \in Entry : <<e, t>> \in early' <=>
                       /\ e \notin ids
                       /\ \/ <<e, t>> \in early
                          \/ /\ e = founder[t] /\ e \notin Holders(t) /\ t \in text[e]
                             /\ Cardinality(Holders(t) \ ids) = 1 /\ Holding(batch, t) # {}
             /\ \A x \in early' :
                  /\ x \in Entry \X Term /\ x[1] \notin ids
                  /\ x \in early \/ (x[1] \notin Holders(x[2]) /\ x[2] \in text[x[1]])
             /\ missed' = {x \in missed \cup (ids \X Term) :
                             x[2] \in indexed'[x[1]] /\ df'[x[2]] >= 2 /\ x \notin postings'}
<1> DEFINE ids == Ids(batch)
           New(t) == Holding(batch, t)
           Kept(t) == Holders(t) \ ids
<1>1. /\ indexed' \in [Entry -> SUBSET Term]
      /\ \A e \in Entry \ ids : indexed'[e] = indexed[e]
      /\ \A u \in batch : indexed'[u.id] = u.text
  BY UpdateIndexes DEF IsMap
<1>2. \A e \in ids : indexed'[e] = TextIn(batch, e).text
  BY <1>1, TextInBatch
<1>3. \A t \in Term : New(t) = {e \in ids : t \in indexed'[e]}
  BY <1>2 DEF Holding
<1>4. /\ drifted' = drifted \cup {t \in Term : Miscounts(t, ids)}
      /\ \A t \in Term \ drifted' :
           founder'[t] = IF Kept(t) = {} /\ New(t) # {} THEN Least(New(t)) ELSE founder[t]
      /\ \A x : x \in early' <=>
           /\ x \in Entry \X (Term \ drifted') /\ x[1] \notin ids
           /\ \/ x \in early
              \/ /\ x[1] = founder[x[2]] /\ x[1] \notin Holders(x[2])
                 /\ x[2] \in text[x[1]]
                 /\ Cardinality(Kept(x[2])) = 1 /\ New(x[2]) # {}
  <2> DEFINE N(t) == {e \in ids : t \in indexed'[e]}
  <2>1. /\ drifted' = drifted \cup {t \in Term : Miscounts(t, ids)}
        /\ founder' = [t \in Term |-> IF t \in drifted' THEN NoEntry
                                      ELSE IF Kept(t) = {} /\ N(t) # {} THEN Least(N(t))
                                      ELSE founder[t]]
        /\ early' = {x \in Entry \X (Term \ drifted') :
                       /\ x[1] \notin ids
                       /\ \/ x \in early
                          \/ /\ x[1] = founder[x[2]] /\ x[1] \notin Holders(x[2])
                             /\ x[2] \in text[x[1]]
                             /\ Cardinality(Kept(x[2])) = 1 /\ N(x[2]) # {}}
    BY DEF Update, Account
  <2>2. \A t \in Term : N(t) = New(t)
    BY <1>3
  <2> HIDE DEF N, New, Kept, ids
  <2>3. \A x \in Entry \X (Term \ drifted') : x[2] \in Term
    OBVIOUS
  <2> QED
    BY <2>1, <2>2, <2>3
<1>5. missed' = {x \in missed \cup (ids \X Term) :
                   x[2] \in indexed'[x[1]] /\ df'[x[2]] >= 2 /\ x \notin postings'}
  BY DEF Update
<1> HIDE DEF ids, New, Kept
<1>6. ASSUME NEW t \in Term \ drifted'
      PROVE  /\ t \notin drifted /\ ~ Miscounts(t, ids)
             /\ founder'[t] = IF Kept(t) = {} /\ New(t) # {} THEN Least(New(t)) ELSE founder[t]
             /\ \A e \in Entry : <<e, t>> \in early' <=>
                  /\ e \notin ids
                  /\ \/ <<e, t>> \in early
                     \/ /\ e = founder[t] /\ e \notin Holders(t) /\ t \in text[e]
                        /\ Cardinality(Kept(t)) = 1 /\ New(t) # {}
  BY <1>4
<1>7. ASSUME NEW x \in early'
      PROVE  /\ x \in Entry \X Term /\ x[1] \notin ids
             /\ x \in early \/ (x[1] \notin Holders(x[2]) /\ x[2] \in text[x[1]])
  BY <1>4
<1> QED
  BY <1>1, <1>3, <1>5, <1>6, <1>7 DEF ids, New, Kept

\* A batch leaves the count of a term true, unless it miscounts the term; the first
\* of two holders gets its posting, unless it holds the term no more
LEMMA CountStaysTrue ==
  ASSUME NEW batch \in Batch, IsMap(batch), IndexShapes, indexed \in [Entry -> SUBSET Term],
         Update(batch), NEW t \in Term \ drifted', CountIsTrue(t)
  PROVE  /\ CountIsTrue(t)'
         /\ \A e \in Entry \ Ids(batch) : e \in Holders(t)' =>
              /\ e \in Holders(t)
              /\ df'[t] >= 2 => \/ <<e, t>> \in postings'
                                \/ <<e, t>> \notin postings /\ (df[t] >= 2 \/ t \notin text[e])
<1> DEFINE ids == Ids(batch)
           H == Holders(t)
           R == H \ ids
           new == Holding(batch, t)
<1>1. ids \subseteq Entry /\ H \subseteq Entry /\ R \subseteq Entry /\ new \subseteq ids
  BY DEF Batch, Ids, Holders, Holding
<1>2. /\ df[t] = Cardinality(H) /\ first[t] = founder[t]
      /\ \A e \in Entry : <<e, t>> \in postings => e \in H \/ <<e, t>> \in early
      /\ \A e \in H : <<e, t>> \in postings \/ first[t] = e
      /\ \A e \in Entry : <<e, t>> \in early => <<e, t>> \in postings /\ e \notin H
  BY DEF CountIsTrue
<1>3. Holders(t)' = R \cup new
  <2>1. \A e \in Entry : e \in Holders(t)' <=> t \in indexed'[e]
    BY DEF Holders
  <2>2. \A e \in Entry \ ids : t \in indexed'[e] <=> e \in H
    BY UpdateAccounts DEF Holders
  <2>3. \A e \in ids : t \in indexed'[e] <=> e \in new
    BY UpdateAccounts
  <2>4. Holders(t)' \subseteq Entry
    BY DEF Holders
  <2> HIDE DEF H, ids, new
  <2> QED
    BY <1>1, <2>1, <2>2, <2>3, <2>4
<1>4. /\ ~ (Cardinality(ids \cap H) > 1)
      /\ ids \cap H = {} => founder[t] \notin ids /\ early \cap (ids \X {t}) = {}
  <2>1. ~ Miscounts(t, ids)
    BY UpdateAccounts
  <2>2. Cardinality({}) = 0
    BY FS_EmptySet
  <2> HIDE DEF ids, H
  <2> QED
    BY <2>1, <2>2 DEF Miscounts, H
<1>5. /\ founder'[t] = IF R = {} /\ new # {} THEN Least(new) ELSE founder[t]
      /\ \A e \in Entry : <<e, t>> \in early' <=>
           /\ e \notin ids
           /\ \/ <<e, t>> \in early
              \/ /\ e = founder[t] /\ e \notin H /\ t \in text[e]
                 /\ Cardinality(R) = 1 /\ new # {}
  BY UpdateAccounts
<1>6. ids \cap H = {} \/ \E o \in Entry : ids \cap H = {o}
  <2>1. ids \cap H \subseteq Entry
    BY <1>1
  <2> HIDE DEF ids, H
  <2> QED
    BY <1>4, <2>1, AtMostOne
<1> HIDE DEF H, ids, new
<1>7. /\ Cardinality(R) \in Nat /\ IsFiniteSet(R) /\ (Cardinality(R) = 0 <=> R = {})
      /\ Cardinality(new) \in Nat /\ IsFiniteSet(new) /\ (Cardinality(new) = 0 <=> new = {})
  BY <1>1, EntriesAreFinite, FS_EmptySet
<1>8. CountedDown(ids, t) = Cardinality(R)
  <2>1. CASE ids \cap H = {}
    <3>1. R = H
      BY <2>1
    <3>2. ~ \E e \in ids : <<e, t>> \in postings \/ first[t] = e
      <4>1. \A e \in ids : <<e, t>> \notin early /\ e # founder[t] /\ e \notin H
        BY <1>4, <2>1
      <4> QED
        BY <1>1, <1>2, <4>1
    <3> QED
      BY <1>2, <3>1, <3>2 DEF CountedDown
  <2>2. CASE \E o \in Entry : ids \cap H = {o}
    <3>1. PICK o \in Entry : ids \cap H = {o}
      BY <2>2
    <3>2. R = H \ {o} /\ o \in H /\ o \in ids
      BY <3>1
    <3>3. Cardinality(H \ {o}) = Cardinality(H) - 1
      BY <1>1, <3>2, EntriesAreFinite, FS_RemoveElement
    <3>4. \E e \in ids : <<e, t>> \in postings \/ first[t] = e
      BY <1>2, <3>2
    <3> QED
      BY <1>2, <3>2, <3>3, <3>4 DEF CountedDown
  <2> QED
    BY <1>6, <2>1, <2>2
<1>9. /\ df'[t] = Cardinality(R) + Cardinality(new)
      /\ first'[t] = IF R = {} /\ new # {} THEN Least(new) ELSE first[t]
      /\ \A e \in Entry : <<e, t>> \in postings' <=>
           \/ <<e, t>> \in postings /\ e \notin ids
           \/ e \in new /\ (R # {} \/ e # Least(new))
           \/ Cardinality(R) = 1 /\ new # {} /\ first[t] = e /\ e \notin ids /\ t \in text[e]
  <2>1. CountedDown(ids, t) \in Nat /\ (CountedDown(ids, t) >= 1 <=> R # {})
        /\ (CountedDown(ids, t) = 0 <=> R = {})
    BY <1>7, <1>8
  <2> DEFINE kept == CountedDown(ids, t)
  <2>2. /\ df'[t] = kept + Cardinality(new)
        /\ first'[t] = IF kept = 0 /\ new # {} THEN Least(new) ELSE first[t]
        /\ \A e \in Entry : <<e, t>> \in postings' <=>
             \/ <<e, t>> \in postings /\ e \notin ids
             \/ e \in new /\ (kept >= 1 \/ e # Least(new))
             \/ kept = 1 /\ new # {} /\ first[t] = e /\ e \notin ids /\ t \in text[e]
    BY <2>1, UpdateOfTerm DEF ids, new
  <2> HIDE DEF R
  <2> QED
    BY <1>8, <2>1, <2>2
<1>10. R \subseteq H /\ R \cap ids = {} /\ R \cap new = {}
  BY <1>1
<1>11. df'[t] = Cardinality(R \cup new)
  <2> HIDE DEF R
  <2>1. Cardinality(R \cup new) = Cardinality(R) + Cardinality(new) - Cardinality(R \cap new)
    BY <1>7, FS_Union
  <2>2. Cardinality(R \cap new) = 0
    BY <1>10, FS_EmptySet
  <2> QED
    BY <1>7, <1>9, <2>1, <2>2
<1>12. first'[t] = founder'[t]
  BY <1>2, <1>5, <1>9
<1>13. \A e \in Entry : <<e, t>> \in postings' => e \in R \cup new \/ <<e, t>> \in early'
  BY <1>2, <1>5, <1>9
<1>14. \A e \in R \cup new : <<e, t>> \in postings' \/ first'[t] = e
  <2>1. ASSUME NEW e \in R PROVE <<e, t>> \in postings' \/ first'[t] = e
    BY <1>1, <1>2, <1>9, <1>10
  <2>2. ASSUME NEW e \in new PROVE <<e, t>> \in postings' \/ first'[t] = e
    BY <1>1, <1>9
  <2> QED
    BY <2>1, <2>2
<1>15. \A e \in Entry : <<e, t>> \in early' => <<e, t>> \in postings' /\ e \notin R \cup new
  BY <1>1, <1>2, <1>5, <1>9
<1>16. CountIsTrue(t)'
  BY <1>3, <1>11, <1>12, <1>13, <1>14, <1>15 DEF CountIsTrue
<1>17. ASSUME NEW e \in Entry \ ids, e \in Holders(t)'
       PROVE  /\ e \in H
              /\ df'[t] >= 2 => \/ <<e, t>> \in postings'
                                \/ <<e, t>> \notin postings /\ (df[t] >= 2 \/ t \notin text[e])
  <2>1. e \in R /\ e \in H
    BY <1>1, <1>3, <1>10, <1>17
  <2>2. ASSUME df'[t] >= 2, <<e, t>> \notin postings', ~ (df[t] >= 2) PROVE t \notin text[e]
    <3>1. first[t] = e
      BY <1>2, <1>9, <1>17, <2>1, <2>2
    <3>2. Cardinality(R) <= Cardinality(H) /\ Cardinality(H) \in Nat
      BY <1>1, <1>10, EntriesAreFinite, FS_Subset
    <3>3. Cardinality(R) = 1 /\ new # {}
      BY <1>2, <1>7, <1>9, <2>1, <2>2, <3>2
    <3> QED
      BY <1>9, <1>17, <2>2, <3>1, <3>3
  <2> QED
    BY <1>9, <1>17, <2>1, <2>2
<1> QED
  BY <1>16, <1>17 DEF H, ids

-----------------------------------------------------------------------------
(* The index in every step.                                                *)

LEMMA IndexInit == Init => IndexInv
<1> SUFFICES ASSUME Init PROVE IndexInv
  OBVIOUS
<1>1. IndexShapes
  BY DEF Init, IndexShapes
<1>2. \A t \in Term : Holders(t) = {}
  BY DEF Init, Holders
<1>3. CountsAreTrue
  BY <1>2, FS_EmptySet DEF Init, CountsAreTrue, CountIsTrue
<1>4. PromotionsAreDone
  BY <1>2 DEF PromotionsAreDone
<1>5. EarlyIsUnsettled
  BY DEF Init, EarlyIsUnsettled
<1> QED
  BY <1>1, <1>3, <1>4, <1>5 DEF IndexInv

\* Who becomes visible, and is no more due or behind, is read by a job
LEMMA IndexStays ==
  ASSUME IndexInv, UNCHANGED <<index, counted>>,
         \A e \in visible' \ (due' \cup behind') :
           \/ job'.pc = "read" /\ job'.entry = e
           \/ e \in visible \ (due \cup behind) /\ ~ (job.pc = "read" /\ job.entry = e)
  PROVE  IndexInv'
<1>1. IndexShapes'
  BY DEF IndexInv, IndexShapes, index
<1>2. \A t : Holders(t)' = Holders(t)
  BY DEF Holders, counted
<1>3. CountsAreTrue'
  BY <1>2 DEF IndexInv, CountsAreTrue, CountIsTrue, index, counted
<1>4. PromotionsAreDone'
  BY <1>2 DEF IndexInv, PromotionsAreDone, index, counted
<1>5. EarlyIsUnsettled'
  BY DEF IndexInv, EarlyIsUnsettled, counted
<1> QED
  BY <1>1, <1>3, <1>4, <1>5 DEF IndexInv

\* A batch is counted, and promotes what it makes two of
LEMMA UpdateKeepsIndex ==
  ASSUME IInv, IndexInv, NEW batch \in Batch, IsMap(batch), Update(batch),
         UNCHANGED <<text, visible, due>>,
         \A e \in Entry \ Ids(batch) : e \in behind => e \in behind',
         \A e \in Entry \ Ids(batch) :
           job.pc = "read" /\ job.entry = e => job'.pc = "read" /\ job'.entry = e
  PROVE  IndexInv'
<1>0. indexed \in [Entry -> SUBSET Term] /\ IndexShapes
  BY DEF IInv, Shapes, IndexInv
<1>1. IndexShapes'
  BY <1>0, UpdateOfTerm
<1>2. \A t \in Term \ drifted' : CountIsTrue(t)
  BY <1>0, UpdateAccounts DEF IndexInv, CountsAreTrue
<1>3. CountsAreTrue'
  BY <1>0, <1>2, CountStaysTrue DEF CountsAreTrue
<1>4. ASSUME NEW t \in Term \ drifted',
             NEW e \in (visible' \ (due' \cup behind')) \cap Holders(t)', df'[t] >= 2,
             <<e, t>> \notin postings', ~ (job'.pc = "read" /\ job'.entry = e)
      PROVE  <<e, t>> \in missed'
  <2>1. e \in Entry /\ t \in indexed'[e]
    BY DEF Holders
  <2>2. <<e, t>> \in missed \cup (Ids(batch) \X Term) => <<e, t>> \in missed'
    BY <1>0, <1>4, <2>1, UpdateAccounts
  <2>3. CASE e \in Ids(batch)
    BY <2>2, <2>3
  <2>4. CASE e \notin Ids(batch)
    <3>1. /\ e \in visible \ (due \cup behind) /\ e \in Holders(t) /\ t \in indexed[e]
          /\ ~ (job.pc = "read" /\ job.entry = e)
      BY <1>0, <1>2, <1>4, <2>1, <2>4, CountStaysTrue DEF Holders
    <3>2. <<e, t>> \notin postings /\ (df[t] >= 2 \/ t \notin text[e])
      BY <1>0, <1>2, <1>4, <2>1, <2>4, CountStaysTrue
    <3>3. t \in text[e]
      BY <3>1 DEF IInv, DoneIsIndexed
    <3>4. t \in Term \ drifted
      BY <1>0, UpdateAccounts
    <3>5. <<e, t>> \in missed
      BY <3>1, <3>2, <3>3, <3>4 DEF IndexInv, PromotionsAreDone
    <3> QED
      BY <2>2, <3>5
  <2> QED
    BY <2>3, <2>4
<1>5. PromotionsAreDone'
  BY <1>4 DEF PromotionsAreDone
<1>6. EarlyIsUnsettled'
  <2> SUFFICES ASSUME NEW x \in early', x[1] \in visible' \ (due' \cup behind')
               PROVE  job'.pc = "read" /\ job'.entry = x[1]
    BY DEF EarlyIsUnsettled
  <2>1. /\ x \in Entry \X Term /\ x[1] \notin Ids(batch)
        /\ x \in early \/ (x[1] \notin Holders(x[2]) /\ x[2] \in text[x[1]])
    BY <1>0, UpdateAccounts
  <2>2. x[1] \in Entry \ Ids(batch) /\ x[1] \in visible \ (due \cup behind)
    BY <2>1
  <2>3. CASE x \in early
    BY <2>2, <2>3 DEF IndexInv, EarlyIsUnsettled
  <2>4. CASE x[1] \notin Holders(x[2]) /\ x[2] \in text[x[1]]
    <3>1. indexed[x[1]] # text[x[1]]
      BY <2>2, <2>4 DEF Holders
    <3> QED
      BY <2>2, <3>1 DEF IInv, DoneIsIndexed
  <2> QED
    BY <2>1, <2>3, <2>4
<1> QED
  BY <1>1, <1>3, <1>5, <1>6 DEF IndexInv

LEMMA SaveKeepsIndex ==
  ASSUME IInv, IndexInv, NEW e \in Entry, NEW terms \in SUBSET Term, NEW public \in BOOLEAN,
         Save(e, terms, public)
  PROVE  IndexInv'
<1>1. UNCHANGED <<index, counted, job>>
  BY DEF Save
<1>2. \A o \in visible' \ (due' \cup behind') : o \in visible \ (due \cup behind)
  BY DEF Save
<1> QED
  BY <1>1, <1>2, IndexStays

LEMMA StartKeepsIndex ==
  ASSUME IndexInv, NEW e \in Entry, Start(e)
  PROVE  IndexInv'
<1>1. UNCHANGED <<index, counted, visible, behind>> /\ due' = due \ {e}
  BY DEF Start, history
<1>2. job'.pc = "read" /\ job'.entry = e /\ job.pc = "idle"
  BY DEF Start, Idle
<1> QED
  BY <1>1, <1>2, IndexStays

LEMMA UpdateTFIDFKeepsIndex ==
  ASSUME IInv, IndexInv, UpdateTFIDF
  PROVE  IndexInv'
<1> DEFINE u == [id |-> job.entry, text |-> job.text]
<1>1. /\ job.entry \in Entry /\ job.text \in SUBSET Term /\ Update({u})
      /\ behind' = IF job.text = text[job.entry] THEN behind \ {job.entry} ELSE behind
      /\ UNCHANGED <<text, visible, due>>
  BY DEF UpdateTFIDF, IInv, Shapes
<1>2. {u} \in Batch /\ Ids({u}) = {job.entry} /\ IsMap({u})
  BY <1>1 DEF Batch, Ids, IsMap
<1>3. \A e \in Entry \ Ids({u}) : (e \in behind => e \in behind') /\ job.entry # e
  BY <1>1, <1>2
<1> HIDE DEF u
<1> QED
  BY <1>1, <1>2, <1>3, UpdateKeepsIndex

LEMMA ToolUpdateKeepsIndex ==
  ASSUME IInv, IndexInv, ToolUpdate
  PROVE  IndexInv'
<1>1. /\ Update(tool.chunk) /\ tool.chunk \in Batch /\ IsMap(tool.chunk)
      /\ UNCHANGED <<text, visible, due, job>>
  BY DEF ToolUpdate, IInv, Shapes, ChunkIsMap, IsMap
<1>2. \A e \in Entry \ Ids(tool.chunk) : e \in behind => e \in behind'
  BY DEF ToolUpdate, Ids
<1> QED
  BY <1>1, <1>2, UpdateKeepsIndex

LEMMA JobFailsKeepsIndex ==
  ASSUME IndexInv, JobFails
  PROVE  IndexInv'
<1>1. /\ UNCHANGED <<index, counted, visible>> /\ due \subseteq due'
      /\ behind \subseteq behind' /\ job.entry \in due' \cup behind'
  BY DEF JobFails
<1> QED
  BY <1>1, IndexStays

LEMMA IndexNext == IInv /\ IndexInv /\ [Next]_vars => IndexInv'
<1> SUFFICES ASSUME IInv, IndexInv, [Next]_vars PROVE IndexInv'
  OBVIOUS
<1>1. CASE \E e \in Entry, terms \in SUBSET Term, public \in BOOLEAN : Save(e, terms, public)
  BY <1>1, SaveKeepsIndex
<1>2. CASE (\E e \in Entry : Start(e)) \/ UpdateTFIDF \/ JobFails
  BY <1>2, StartKeepsIndex, UpdateTFIDFKeepsIndex, JobFailsKeepsIndex
<1>3. CASE Recalculate \/ Relate
  <2>1. UNCHANGED <<index, history, visible, due>> /\ job.pc # "read"
    BY <1>3 DEF Recalculate, Relate
  <2> QED
    BY <2>1, IndexStays DEF history
<1>4. CASE ToolUpdate
  BY <1>4, ToolUpdateKeepsIndex
<1>5. CASE \/ \E similarityOnly \in BOOLEAN : ToolStart(similarityOnly)
           \/ ToolRead \/ ToolReadFails \/ ToolUpdateFails
           \/ ToolRecalculate \/ ToolRelate \/ ToolRelateFails \/ ToolEnds
           \/ UNCHANGED vars
  <2>1. UNCHANGED <<index, history, visible, due, job>>
    BY <1>5 DEF ToolStart, ToolRead, ToolReadFails, ToolUpdateFails, ToolRecalculate, ToolRelate,
       ToolRelateFails, ToolEnds, vars
  <2> QED
    BY <2>1, IndexStays DEF history
<1> QED
  BY <1>1, <1>2, <1>3, <1>4, <1>5 DEF Next, JobStep, ToolStep

\* The index counts what was not miscounted, in every state
THEOREM IndexInvariant == Spec => []IndexInv
  BY InductiveInvariant, IndexInit, IndexNext, PTL DEF Spec

\* df_count is the number of the entries that hold the term, through any order of
\* edits, promotions, demotions and repeated jobs, up to the first batch that
\* indexes a founder again that had lost the term, or two entries that held it
THEOREM CountsHold == Spec => []DfCountsHolders
<1>1. IndexInv => DfCountsHolders
  BY DEF IndexInv, CountsAreTrue, CountIsTrue, DfCountsHolders
<1> QED
  BY <1>1, IndexInvariant, PTL

\* The terms that an entry has in the index
Met(terms, e) == {t \in terms : <<e, t>> \in postings}
             \cup {t \in terms : df[t] = 1 /\ first[t] = e}

\* The two counts of a search add up to the number of its terms just when all are met
LEMMA FoundIsMet ==
  ASSUME IndexInv, NEW terms \in SUBSET {t \in Term \ drifted : ~Demoted(t)}, NEW e \in Entry,
         \A t : <<e, t>> \notin early
  PROVE  /\ Met(terms, e) \subseteq {t \in terms : e \in Holders(t)}
         /\ e \in Search(terms) <=> Met(terms, e) = terms
<1> DEFINE P == {t \in terms : <<e, t>> \in postings}
           Q == {t \in terms : df[t] = 1 /\ first[t] = e}
<1>1. P \cap Q = {} /\ P \cup Q \subseteq terms
  BY DEF Demoted
<1>2. \A t \in terms : CountIsTrue(t)
  BY DEF IndexInv, CountsAreTrue
<1>3. Met(terms, e) \subseteq {t \in terms : e \in Holders(t)}
  <2> SUFFICES ASSUME NEW t \in Met(terms, e) PROVE e \in Holders(t)
    BY DEF Met
  <2>1. t \in terms /\ CountIsTrue(t)
    BY <1>2 DEF Met
  <2>2. CASE <<e, t>> \in postings
    BY <2>1, <2>2 DEF CountIsTrue
  <2>3. CASE df[t] = 1 /\ first[t] = e
    <3>1. Holders(t) \subseteq Entry
      BY DEF Holders
    <3>2. PICK o \in Entry : o \in Holders(t)
      <4>1. Cardinality({}) = 0
        BY FS_EmptySet
      <4>2. Cardinality(Holders(t)) = 1
        BY <2>1, <2>3 DEF CountIsTrue
      <4> QED
        BY <3>1, <4>1, <4>2
    <3>3. <<o, t>> \notin postings
      BY <2>1, <2>3 DEF Demoted
    <3> QED
      BY <2>1, <2>3, <3>2, <3>3 DEF CountIsTrue
  <2> QED
    BY <2>1, <2>2, <2>3 DEF Met
<1>4. IsFiniteSet(terms) /\ IsFiniteSet(P) /\ IsFiniteSet(Q) /\ IsFiniteSet(P \cup Q)
  <2>1. terms \in SUBSET Term /\ P \in SUBSET terms /\ Q \in SUBSET terms /\ P \cup Q \in SUBSET terms
    OBVIOUS
  <2>2. IsFiniteSet(terms)
    BY <2>1, IndexBounds, FS_Subset
  <2> HIDE DEF P, Q
  <2> QED
    BY <2>1, <2>2, FS_Subset
<1>5. Cardinality(P \cup Q) = Cardinality(P) + Cardinality(Q)
  <2> HIDE DEF P, Q
  <2>1. Cardinality(P \cup Q) = Cardinality(P) + Cardinality(Q) - Cardinality(P \cap Q)
    BY <1>4, FS_Union
  <2>2. Cardinality(P) \in Nat /\ Cardinality(Q) \in Nat
    BY <1>4, FS_CardinalityType
  <2>3. Cardinality(P \cap Q) = 0
    BY <1>1, FS_EmptySet
  <2> QED
    BY <2>1, <2>2, <2>3
<1>6. Cardinality(P \cup Q) = Cardinality(terms) <=> P \cup Q = terms
  <2> HIDE DEF P, Q
  <2>1. P \cup Q \in SUBSET terms
    BY <1>1
  <2> QED
    BY <1>4, <2>1, FS_Subset
<1>7. ASSUME Met(terms, e) = terms PROVE ~ \E t \in terms : df[t] <= 0
  <2> SUFFICES ASSUME NEW t \in terms PROVE ~ (df[t] <= 0)
    OBVIOUS
  <2>1. e \in Holders(t) /\ CountIsTrue(t)
    BY <1>2, <1>3, <1>7
  <2>2. Holders(t) \subseteq Entry
    BY DEF Holders
  <2>3. Cardinality(Holders(t)) \in Nat /\ IsFiniteSet(Holders(t))
    BY <2>2, EntriesAreFinite
  <2>4. Cardinality(Holders(t)) # 0
    BY <2>1, <2>3, FS_EmptySet
  <2>5. df[t] = Cardinality(Holders(t))
    BY <2>1 DEF CountIsTrue
  <2> QED
    BY <2>3, <2>4, <2>5
<1>8. e \in Search(terms) <=>
        ~ (\E t \in terms : df[t] <= 0) /\ Cardinality(P) + Cardinality(Q) = Cardinality(terms)
  BY DEF Search
<1>9. Met(terms, e) = P \cup Q
  BY DEF Met
<1> QED
  BY <1>3, <1>5, <1>6, <1>7, <1>8, <1>9

\* A visible entry whose job has run is found by exactly those of the queries
\* whose bigrams it holds, but for the bigrams that were miscounted, those that
\* have come down to one entry, and the postings that no promotion has written
THEOREM SearchIsExact == Spec => []SearchFindsHolders
<1>1. ASSUME IInv, IndexInv PROVE SearchFindsHolders
  <2> SUFFICES ASSUME NEW terms \in SUBSET {t \in Term \ drifted : ~Demoted(t)} \ {{}},
                      NEW e \in Settled, missed \cap ({e} \X terms) = {}
               PROVE  e \in HandleApiSearch(terms) <=> terms \subseteq text[e]
    BY DEF SearchFindsHolders
  <2>1. /\ e \in visible \ (due \cup behind) /\ job.entry # e /\ e \in Entry
        /\ indexed[e] = text[e]
    BY <1>1 DEF Settled, IInv, DoneIsIndexed, Shapes
  <2>2. /\ Met(terms, e) \subseteq {t \in terms : e \in Holders(t)}
        /\ e \in Search(terms) <=> Met(terms, e) = terms
    <3>1. \A t : <<e, t>> \notin early
      BY <1>1, <2>1 DEF IndexInv, EarlyIsUnsettled
    <3> QED
      BY <1>1, <2>1, <3>1, FoundIsMet
  <2>3. \A t \in terms : e \in Holders(t) <=> t \in text[e]
    BY <2>1 DEF Holders
  <2>4. ASSUME NEW t \in terms, t \in text[e] PROVE t \in Met(terms, e)
    <3>1. e \in Holders(t) /\ CountIsTrue(t) /\ t \in Term \ drifted
      BY <1>1, <2>3, <2>4 DEF IndexInv, CountsAreTrue
    <3>2. <<e, t>> \notin missed
      OBVIOUS
    <3>3. df[t] >= 2 => <<e, t>> \in postings
      BY <1>1, <2>1, <3>1, <3>2 DEF IndexInv, PromotionsAreDone
    <3>4. Holders(t) \subseteq Entry
      BY DEF Holders
    <3>5. df[t] \in Nat /\ df[t] # 0
      <4>1. Cardinality(Holders(t)) \in Nat /\ IsFiniteSet(Holders(t))
        BY <3>4, EntriesAreFinite
      <4>2. Cardinality(Holders(t)) # 0
        BY <3>1, <4>1, FS_EmptySet
      <4> QED
        BY <3>1, <4>1, <4>2 DEF CountIsTrue
    <3>6. <<e, t>> \in postings \/ first[t] = e
      BY <3>1 DEF CountIsTrue
    <3> QED
      BY <3>3, <3>5, <3>6 DEF Met
  <2>5. e \in HandleApiSearch(terms) <=> e \in Search(terms)
    BY <2>1 DEF HandleApiSearch
  <2> QED
    BY <2>2, <2>3, <2>4, <2>5
<1> QED
  BY <1>1, InductiveInvariant, IndexInvariant, PTL
=============================================================================
