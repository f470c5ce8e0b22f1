----------------------------- MODULE ImageIndex -----------------------------
(***************************************************************************)
(* The image index (backend/jobs/index_images.go, the images database): a  *)
(* row for every image of every entry, its signature, the n-grams of the   *)
(* signature, and the cache of similar images that a page shows when it    *)
(* has no similar entries.  IndexImages jobs index one entry at a time,    *)
(* the subcommands index-images and recalc-image-similarity all of them,   *)
(* from a process of their own.  The subcommand gc-images removes files    *)
(* that no row names.                                                      *)
(*                                                                         *)
(* The picture of an image does not change: an upload has a name of its    *)
(* own.  A signature is its set of bits.  Transactions of the images       *)
(* database are steps; an entry is read before the snapshot of the         *)
(* transaction that synchronises it.  The limits of 50 and 3 similar       *)
(* images of a page are not reached.                                       *)
(***************************************************************************)
EXTENDS Integers, FiniteSets

CONSTANTS
  MaxEntry,   \* the number of entries; their ids are 1 .. MaxEntry
  Listed,     \* the entries by date, the latest first, as index-images takes them
  Uri,        \* the images
  Escaped,    \* the images whose file name is not the one in their uri
  SigOf,      \* the signature of each image
  SigBits,    \* the bits of a signature, 64 in the code
  Window,     \* the bits of an n-gram, 12 in the code
  MaxSimilar, \* how many images are similar to one at most, 20 in the code
  ChunkSize,  \* entries or images in one transaction of a subcommand, 100 or 1000 in the code
  MaxSaves,   \* bound: how often entries are saved
  MaxRuns,    \* bound: how often a subcommand is started
  MaxFaults   \* bound: loads and steps that fail, and processes that end

Entry == 1 .. MaxEntry
NoEntry == 0
NoSig == {}

ASSUME ImageBounds ==
  /\ MaxEntry \in Nat \ {0} /\ Escaped \subseteq Uri /\ IsFiniteSet(Uri)
  /\ Listed \in [Entry -> Entry] /\ \A m, n \in Entry : Listed[m] = Listed[n] => m = n
  /\ SigBits \in Nat /\ Window \in 1 .. SigBits
  /\ SigOf \in [Uri -> (SUBSET (0 .. SigBits - 1)) \ {NoSig}]
  /\ MaxSimilar \in Nat \ {0} /\ ChunkSize \in Nat \ {0}
  /\ MaxSaves \in Nat /\ MaxRuns \in Nat /\ MaxFaults \in Nat

VARIABLES
  body,     \* the entries table: the images of the formatted body
  file,     \* the storage: none, stored, deleted
  images,   \* the images table: [id, uri, entry, sig]
  ngram,    \* the ngram table: <<image, word>>
  similar,  \* the similar_images table: <<image, similar image>>
  due,      \* the entries whose IndexImages is enqueued and not started
  job,      \* the job that runs: pc, entry, the body it has read, the images it has loaded
  tool,     \* the subcommand: phase, overwrite, what it has yet to take, what it has read
  gc,       \* gc-images: whether it lists, the keys it has read, the file it has written
  count,    \* how many saves, runs and faults there were
  behind,   \* history: the entries whose last body no job synchronises
  mistaken, \* history: the ids whose row was another image when its picture was loaded
  torn      \* history: the cache was cleared, and not filled again with all there was

tables == <<images, ngram, similar>>
vars == <<body, file, tables, due, job, tool, gc, count, behind, mistaken, torn>>

Tables == [images |-> images, ngram |-> ngram, similar |-> similar]

Become(D) == images' = D.images /\ ngram' = D.ngram /\ similar' = D.similar

IdsOf(rows) == {i.id : i \in rows}
UrisOf(rows) == {i.uri : i \in rows}
ImagesOf(e) == {i \in images : i.entry = e}
Greatest(S) == CHOOSE n \in S : \A m \in S : m <= n
Least(S) == CHOOSE n \in S : \A m \in S : n <= m
ChunkOf(S) == {n \in S : Cardinality({m \in S : m < n}) < ChunkSize}

-----------------------------------------------------------------------------
(* The storage.                                                            *)

ListObjects == {u \in Uri : file[u] = "stored"}
PutObject(u) == file' = [file EXCEPT ![u] = "stored"]
DeleteObject(u) == file' = [file EXCEPT ![u] = "deleted"]

-----------------------------------------------------------------------------
(* Signatures.                                                             *)

\* The n-grams at every place, without the empty ones
Words(sig) ==
  {<<i, sig \cap (i .. i + Window - 1)>> : i \in 0 .. SigBits - Window} \ ((0 .. SigBits) \X {{}})

\* At least a quarter of the bits of both are common
Resembles(a, b) == 4 * Cardinality(a \cap b) >= Cardinality(a \cup b)

-----------------------------------------------------------------------------
(* syncInternal: the rows of an entry become those of its body.            *)

\* The uris are added in any order
Order == {rank \in [Uri -> 1 .. Cardinality(Uri)] : \A u, v \in Uri : rank[u] = rank[v] => u = v}

\* A row takes the id after the greatest there is
Created(rows, e, uris, rank) ==
  LET top == Greatest(IdsOf(rows) \cup {0})
  IN  {[id |-> top + Cardinality({v \in uris : rank[v] <= rank[u]}),
        uri |-> u, entry |-> e, sig |-> NoSig] : u \in uris}

\* With an image go its n-grams and what the cache has of it on either side
Without(D, ids) ==
  [images  |-> {i \in D.images : i.id \notin ids},
   ngram   |-> {x \in D.ngram : x[1] \notin ids},
   similar |-> {p \in D.similar : p[1] \notin ids /\ p[2] \notin ids}]

SyncEntry(D, e, uris, rank) ==
  LET mine == {i \in D.images : i.entry = e}
      kept == Without(D, IdsOf({i \in mine : i.uri \notin uris}))
  IN  [kept EXCEPT !.images = @ \cup Created(@, e, uris \ UrisOf(mine), rank)]

\* The entries at some places of the list, each after those before it
SyncImagesForEntries(D, places, bodies, rank) ==
  LET upTo[n \in 0 .. MaxEntry] ==
        IF n = 0 THEN D
        ELSE IF n \in places THEN SyncEntry(upTo[n - 1], Listed[n], bodies[Listed[n]], rank)
        ELSE upTo[n - 1]
  IN  upTo[MaxEntry]

-----------------------------------------------------------------------------
(* FillImagesForEntries: the images without a signature are loaded, and    *)
(* written in one transaction.                                             *)

SigIn(D, id) == (CHOOSE i \in D.images : i.id = id).sig

\* Rows of other images that share a word with this one, and how many they share
SharedWords(D, a, b) == {x[2] : x \in {y \in D.ngram : y[1] = a}} \cap {x[2] : x \in {y \in D.ngram : y[1] = b}}
ListSimilarImages(D, id) == {o \in IdsOf(D.images) \ {id} : SharedWords(D, id, o) # {}}

\* Of those that resemble it, the first in the order of the words they share
SimilarTo(D, id) ==
  LET close == {o \in ListSimilarImages(D, id) : Resembles(SigIn(D, id), SigIn(D, o))}
      Score(o) == Cardinality(SharedWords(D, id, o))
      Before(p, o) == Score(p) > Score(o) \/ (Score(p) = Score(o) /\ p < o)
  IN  {o \in close : Cardinality({p \in close : Before(p, o)}) < MaxSimilar}

\* Mutant: the other image does not learn of this one
UpsertOneWay(D, id, others) == [D EXCEPT !.similar = @ \cup ({id} \X others)]

UpsertSimilarImages(D, id, others) == [D EXCEPT !.similar = @ \cup ({id} \X others) \cup (others \X {id})]

UpdateSimilarImagesCache(D, id) ==
  UpsertSimilarImages([D EXCEPT !.similar = {p \in @ : p[1] # id /\ p[2] # id}], id, SimilarTo(D, id))

UpdateImageSig(D, id, sig) ==
  [D EXCEPT !.images = {IF i.id = id THEN [i EXCEPT !.sig = sig] ELSE i : i \in @}]

CreateNgrams(D, id, sig) ==
  [D EXCEPT !.ngram = {x \in @ : x[1] # id} \cup ({id} \X Words(sig))]

\* The signature goes to the row that has the id of the image that was loaded
FillImage(D, image) ==
  LET sig == SigOf[image.uri]
  IN  UpdateSimilarImagesCache(
        CreateNgrams(UpdateImageSig(D, image.id, sig), image.id, sig), image.id)

\* Mutant: the goroutines share the loop variable, and load its last image
FillImagesOfLast(D, loaded) ==
  LET last == CHOOSE i \in loaded : i.id = Greatest(IdsOf(loaded))
      upTo[n \in 0 .. Greatest(IdsOf(loaded) \cup {0})] ==
        IF n \in IdsOf(loaded) THEN FillImage(upTo[n - 1], [last EXCEPT !.id = n])
        ELSE IF n = 0 THEN D ELSE upTo[n - 1]
  IN  upTo[Greatest(IdsOf(loaded) \cup {0})]

FillImages(D, loaded) ==
  LET upTo[n \in 0 .. Greatest(IdsOf(loaded) \cup {0})] ==
        IF n = 0 THEN D
        ELSE IF n \in IdsOf(loaded) THEN FillImage(upTo[n - 1], CHOOSE i \in loaded : i.id = n)
        ELSE upTo[n - 1]
  IN  upTo[Greatest(IdsOf(loaded) \cup {0})]

\* An image that is there no more makes the transaction fail
CanFill(loaded) == IdsOf(loaded) \subseteq IdsOf(images)

Unfilled(entries, force) == {i \in images : i.entry \in entries /\ (force \/ i.sig = NoSig)}

\* Loads fail for files that are gone, and for faults of the network
Load(entries, force, loaded, failed) ==
  LET present == {i \in Unfilled(entries, force) : i.uri \in ListObjects}
  IN  /\ loaded = present \ failed
      /\ failed \subseteq present
      /\ failed # {} => count.faults < MaxFaults
      /\ count' = IF failed = {} THEN count ELSE [count EXCEPT !.faults = @ + 1]

\* What is written, and what the history makes of it
Write(loaded) ==
  /\ CanFill(loaded)
  /\ Become(FillImages(Tables, loaded))
  /\ mistaken' = (mistaken \ IdsOf(loaded)) \cup
                   {i.id : i \in {l \in loaded : \E r \in images : r.id = l.id /\ r.uri # l.uri}}

WriteSync(D) ==
  /\ Become(D) /\ UNCHANGED torn
  /\ mistaken' = {n \in mistaken : \E i \in D.images \cap images : i.id = n}

-----------------------------------------------------------------------------
(* The site.                                                               *)

Upload(u) ==
  /\ file[u] = "none"
  /\ PutObject(u)
  /\ UNCHANGED <<body, tables, due, job, tool, gc, count, behind, mistaken, torn>>

\* Mutant: an entry whose job runs is taken for one whose job is to come
SaveDuringJob(e, uris, public) ==
  /\ count.saves < MaxSaves
  /\ \A u \in uris : file[u] # "none"
  /\ count' = [count EXCEPT !.saves = @ + 1]
  /\ body' = [body EXCEPT ![e] = uris]
  /\ due' = IF public /\ job.entry # e THEN due \cup {e} ELSE due
  /\ behind' = IF public THEN behind ELSE behind \cup {e}
  /\ UNCHANGED <<file, tables, job, tool, gc, mistaken, torn>>

\* An entry shows images that were uploaded; a public one has its job enqueued
Save(e, uris, public) ==
  /\ count.saves < MaxSaves
  /\ \A u \in uris : file[u] # "none"
  /\ count' = [count EXCEPT !.saves = @ + 1]
  /\ body' = [body EXCEPT ![e] = uris]
  /\ due' = IF public THEN due \cup {e} ELSE due
  /\ behind' = IF public THEN behind ELSE behind \cup {e}
  /\ UNCHANGED <<file, tables, job, tool, gc, mistaken, torn>>

\* What the cache has of images, as far as the rows are still there
FindSimilarImagesBulk(ids) ==
  [id \in ids |-> {o \in IdsOf(images) : <<id, o>> \in similar}]

\* The similar images on a page, one set for each image of the entry
SimilarImagesOf(e) == FindSimilarImagesBulk(IdsOf(ImagesOf(e)))

-----------------------------------------------------------------------------
(* The job.                                                                *)

Idle == [pc |-> "idle", entry |-> NoEntry, body |-> {}, loaded |-> {}]

Start(e) ==
  /\ job = Idle /\ e \in due
  /\ due' = due \ {e}
  /\ job' = [Idle EXCEPT !.pc = "read", !.entry = e, !.body = body[e]]
  /\ UNCHANGED <<body, file, tables, tool, gc, count, behind, mistaken, torn>>

SyncImages(rank) ==
  /\ job.pc = "read"
  /\ WriteSync(SyncEntry(Tables, job.entry, job.body, rank))
  /\ job' = [job EXCEPT !.pc = "synced"]
  /\ behind' = IF job.body = body[job.entry] THEN behind \ {job.entry} ELSE behind
  /\ UNCHANGED <<body, file, due, tool, gc, count>>

LoadImages(loaded, failed) ==
  /\ job.pc = "synced"
  /\ Load({job.entry}, FALSE, loaded, failed)
  /\ job' = IF Unfilled({job.entry}, FALSE) = {} THEN Idle
            ELSE [job EXCEPT !.pc = "loaded", !.loaded = loaded]
  /\ UNCHANGED <<body, file, tables, due, tool, gc, behind, mistaken, torn>>

\* Images that are filled after the subcommand has listed the images and before
\* it clears the cache lose what they know of each other
WriteImages ==
  /\ job.pc = "loaded"
  /\ Write(job.loaded)
  /\ job' = Idle
  /\ tool' = [tool EXCEPT !.raced = @ \/ tool.phase = "clear"]
  /\ UNCHANGED <<body, file, due, gc, count, behind, torn>>

\* A step fails, or the server ends: the queue runs the job again, or gives it up
JobFails ==
  /\ job # Idle
  /\ IF job.pc = "loaded" /\ ~CanFill(job.loaded) THEN UNCHANGED count
     ELSE count.faults < MaxFaults /\ count' = [count EXCEPT !.faults = @ + 1]
  /\ job' = Idle
  /\ \/ due' = due \cup {job.entry} /\ UNCHANGED behind
     \/ behind' = behind \cup {job.entry} /\ UNCHANGED due
  /\ UNCHANGED <<body, file, tables, tool, gc, mistaken, torn>>

-----------------------------------------------------------------------------
(* The subcommands index-images and recalc-image-similarity.               *)

Off == [phase |-> "off", fill |-> FALSE, overwrite |-> FALSE, todo |-> {},
        body |-> {}, loaded |-> {}, raced |-> FALSE]

Proceed(phase) ==
  LET rest == tool.todo \ ChunkOf(tool.todo)
  IN  tool' = IF rest # {} THEN [tool EXCEPT !.phase = phase, !.todo = rest, !.body = {}, !.loaded = {}]
              ELSE IF phase = "sync" /\ tool.fill THEN [Off EXCEPT !.phase = "list", !.overwrite = tool.overwrite]
              ELSE Off

IndexImages(sync, fill, overwrite) ==
  /\ tool = Off /\ count.runs < MaxRuns /\ (sync \/ fill)
  /\ count' = [count EXCEPT !.runs = @ + 1]
  /\ tool' = [Off EXCEPT !.phase = IF sync THEN "sync" ELSE "list", !.fill = fill,
                         !.overwrite = overwrite, !.todo = IF sync THEN Entry ELSE {}]
  /\ UNCHANGED <<body, file, tables, due, job, gc, behind, mistaken, torn>>

EntriesAt(places) == {Listed[n] : n \in places}

\* The first entry of a chunk is read before the snapshot of the transaction
ToolReadEntry ==
  /\ tool.phase = "sync"
  /\ tool' = [tool EXCEPT !.phase = "read", !.body = body[Listed[Least(tool.todo)]]]
  /\ UNCHANGED <<body, file, tables, due, job, gc, count, behind, mistaken, torn>>

ToolSync(rank) ==
  /\ tool.phase = "read"
  /\ LET places == ChunkOf(tool.todo)
         chunk == EntriesAt(places)
         bodies == [body EXCEPT ![Listed[Least(tool.todo)]] = tool.body]
         fresh == {e \in chunk : bodies[e] = body[e]}
         open == {e \in chunk : job.pc = "read" /\ job.entry = e}
     IN  /\ WriteSync(SyncImagesForEntries(Tables, places, bodies, rank))
         /\ behind' = (behind \ (fresh \ open)) \cup (chunk \ (fresh \cup due))
  /\ Proceed("sync")
  /\ UNCHANGED <<body, file, due, job, gc, count>>

EntriesToFill(overwrite) == {i.entry : i \in {r \in images : overwrite \/ r.sig = NoSig}}

ToolList ==
  /\ tool.phase = "list"
  /\ LET entries == EntriesToFill(tool.overwrite)
     IN  tool' = IF entries = {} THEN Off ELSE [tool EXCEPT !.phase = "fill", !.todo = entries]
  /\ UNCHANGED <<body, file, tables, due, job, gc, count, behind, mistaken, torn>>

ToolLoad(loaded, failed) ==
  /\ tool.phase = "fill"
  /\ Load(ChunkOf(tool.todo), tool.overwrite, loaded, failed)
  /\ tool' = [tool EXCEPT !.phase = "loaded", !.loaded = loaded]
  /\ UNCHANGED <<body, file, tables, due, job, gc, behind, mistaken, torn>>

ToolWrite ==
  /\ tool.phase = "loaded"
  /\ Write(tool.loaded)
  /\ Proceed("fill")
  /\ UNCHANGED <<body, file, due, job, gc, count, behind, torn>>

\* The transaction of a chunk fails: that is logged, and the next one follows
ToolChunkFails ==
  /\ tool.phase \in {"read", "loaded"}
  /\ IF tool.phase = "loaded" /\ ~CanFill(tool.loaded) THEN UNCHANGED count
     ELSE count.faults < MaxFaults /\ count' = [count EXCEPT !.faults = @ + 1]
  /\ Proceed(IF tool.phase = "read" THEN "sync" ELSE "fill")
  /\ UNCHANGED <<body, file, tables, due, job, gc, behind, mistaken, torn>>

RecalcImageSimilarity ==
  /\ tool = Off /\ count.runs < MaxRuns
  /\ count' = [count EXCEPT !.runs = @ + 1]
  /\ tool' = [Off EXCEPT !.phase = "clear", !.todo = IdsOf({i \in images : i.sig # NoSig})]
  /\ UNCHANGED <<body, file, tables, due, job, gc, behind, mistaken, torn>>

DeleteAllSimilarImages ==
  /\ tool.phase = "clear"
  /\ similar' = {}
  /\ tool' = IF tool.todo = {} THEN Off ELSE [tool EXCEPT !.phase = "recalc"]
  /\ torn' = tool.raced
  /\ UNCHANGED <<body, file, images, ngram, due, job, gc, count, behind, mistaken>>

CanRecalc(ids) == ids \subseteq IdsOf({i \in images : i.sig # NoSig})

RecalcChunk(D, todo) ==
  LET upTo[n \in 0 .. Greatest(todo)] ==
        IF n = 0 THEN D
        ELSE IF n \in ChunkOf(todo) THEN UpdateSimilarImagesCache(upTo[n - 1], n)
        ELSE upTo[n - 1]
  IN  upTo[Greatest(todo)]

RecalcBatch ==
  /\ tool.phase = "recalc" /\ CanRecalc(ChunkOf(tool.todo))
  /\ Become(RecalcChunk(Tables, tool.todo))
  /\ Proceed("recalc")
  /\ UNCHANGED <<body, file, due, job, gc, count, behind, mistaken, torn>>

\* The image is gone, which is an error, or has no signature, which is a panic
RecalcStops ==
  /\ tool.phase = "recalc" /\ ~CanRecalc(ChunkOf(tool.todo))
  /\ tool' = Off
  /\ torn' = TRUE
  /\ UNCHANGED <<body, file, tables, due, job, gc, count, behind, mistaken>>

ToolEnds ==
  /\ tool # Off /\ count.faults < MaxFaults
  /\ count' = [count EXCEPT !.faults = @ + 1]
  /\ tool' = Off
  /\ torn' = (torn \/ tool.phase = "recalc")
  /\ UNCHANGED <<body, file, tables, due, job, gc, behind, mistaken>>

-----------------------------------------------------------------------------
(* The subcommand gc-images, in two runs: the rows are read, then the files *)
(* that none of them names are listed, and later what the list names is    *)
(* deleted.                                                                *)

\* The name in an uri is escaped, the one in the storage is not
KeysInImages == UrisOf(images) \ Escaped

ListRows ==
  /\ ~gc.listing /\ count.runs < MaxRuns
  /\ count' = [count EXCEPT !.runs = @ + 1]
  /\ gc' = [gc EXCEPT !.listing = TRUE, !.keys = KeysInImages]
  /\ UNCHANGED <<body, file, tables, due, job, tool, behind, mistaken, torn>>

\* The files are listed after the rows; a list of none is not written
ListOrphans ==
  /\ gc.listing
  /\ LET found == ListObjects \ gc.keys
     IN  gc' = [listing |-> FALSE, keys |-> {}, orphans |-> IF found = {} THEN gc.orphans ELSE found]
  /\ UNCHANGED <<body, file, tables, due, job, tool, count, behind, mistaken, torn>>

ListFails ==
  /\ gc.listing /\ count.faults < MaxFaults
  /\ count' = [count EXCEPT !.faults = @ + 1]
  /\ gc' = [gc EXCEPT !.listing = FALSE, !.keys = {}]
  /\ UNCHANGED <<body, file, tables, due, job, tool, behind, mistaken, torn>>

\* A file that cannot be deleted stays, and the next one follows
DeleteOrphan(u) ==
  /\ u \in gc.orphans
  /\ gc' = [gc EXCEPT !.orphans = @ \ {u}]
  /\ \/ DeleteObject(u) /\ UNCHANGED count
     \/ count.faults < MaxFaults /\ count' = [count EXCEPT !.faults = @ + 1] /\ UNCHANGED file
  /\ UNCHANGED <<body, tables, due, job, tool, behind, mistaken, torn>>

-----------------------------------------------------------------------------
Init ==
  /\ body = [e \in Entry |-> {}] /\ file = [u \in Uri |-> "none"]
  /\ images = {} /\ ngram = {} /\ similar = {}
  /\ due = {} /\ job = Idle /\ tool = Off
  /\ gc = [listing |-> FALSE, keys |-> {}, orphans |-> {}]
  /\ count = [saves |-> 0, runs |-> 0, faults |-> 0]
  /\ behind = {} /\ mistaken = {} /\ torn = FALSE

JobStep ==
  \/ \E e \in Entry : Start(e)
  \/ \E rank \in Order : SyncImages(rank)
  \/ \E loaded, failed \in SUBSET images : LoadImages(loaded, failed)
  \/ WriteImages \/ JobFails

ToolStep ==
  \/ \E sync, fill, overwrite \in BOOLEAN : IndexImages(sync, fill, overwrite)
  \/ ToolReadEntry \/ ToolList \/ ToolWrite \/ ToolChunkFails \/ ToolEnds
  \/ \E rank \in Order : ToolSync(rank)
  \/ \E loaded, failed \in SUBSET images : ToolLoad(loaded, failed)
  \/ RecalcImageSimilarity \/ DeleteAllSimilarImages \/ RecalcBatch \/ RecalcStops

GCStep == ListRows \/ ListOrphans \/ ListFails \/ \E u \in Uri : DeleteOrphan(u)

Next ==
  \/ \E u \in Uri : Upload(u)
  \/ \E e \in Entry, uris \in SUBSET Uri, public \in BOOLEAN : Save(e, uris, public)
  \/ JobStep \/ ToolStep \/ GCStep

Spec == Init /\ [][Next]_vars

-----------------------------------------------------------------------------
\* The entries whose job has run since they were saved
Settled == Entry \ (due \cup behind \cup {job.entry})

\* An entry whose job has run has exactly the rows of the images it shows, each
\* once, although a job may write a body that was saved over since it read it;
\* unless the entry was saved as a draft, the queue gave the job up or, after
\* the job had run, the subcommand wrote a body it had read before (syncInternal
\* reads the entry before its snapshot)
ImagesFollowText ==
  \A e \in Settled :
    UrisOf(ImagesOf(e)) = body[e] /\ Cardinality(ImagesOf(e)) = Cardinality(body[e])

\* The images that a search in the signatures themselves would find
TrulySimilar(id) ==
  LET sig == SigIn(Tables, id)
  IN  {i.id : i \in {o \in images : o.id # id /\ Words(sig) \cap Words(o.sig) # {}
                                   /\ Resembles(sig, o.sig)}}

\* The cache that is kept up incrementally finds for every image what a search
\* would find, in both directions (plans/20260117-image-similarity-cache.md),
\* through edits, failures and overwriting, except while it is filled again or
\* after that was broken off or raced with a job.  The limit of MaxSimilar is
\* not reached
CacheIsCurrent ==
  ~torn /\ tool.phase # "recalc" =>
    \A e \in Entry : SimilarImagesOf(e) = [id \in IdsOf(ImagesOf(e)) |-> TrulySimilar(id)]

\* A row has the signature of its own image or none, although ids are used
\* again and pictures are loaded outside of the transaction that writes them;
\* except when a sync of the other process has put another image on the id
SignatureIsOwn ==
  \A i \in images : i.id \notin mistaken => i.sig \in {NoSig, SigOf[i.uri]}

-----------------------------------------------------------------------------
(* The inductive invariant of ImageIndexProofs.                            *)

Row == [id: Nat \ {0}, uri: Uri, entry: Entry, sig: SUBSET (0 .. SigBits - 1)]

DistinctIds(rows) == \A i, j \in rows : i.id = j.id => i = j
UrisOnce(rows) == \A i, j \in rows : i.entry = j.entry /\ i.uri = j.uri => i = j

\* The n-grams are those of the signatures; a row without one has none
NgramsAreWords(D) == D.ngram = UNION {{i.id} \X Words(i.sig) : i \in D.images}

\* A search in the signatures themselves finds the one for the other
Alike(a, b) == Words(a) \cap Words(b) # {} /\ Resembles(a, b)

Close(D, a, b) == a # b /\ Alike(SigIn(D, a), SigIn(D, b))

\* What is cached is so
CacheIsTrue(D) ==
  \A p \in D.similar :
    p[1] \in IdsOf(D.images) /\ p[2] \in IdsOf(D.images) /\ Close(D, p[1], p[2])

\* What is so is cached, but for those of which neither has been taken
CacheIsWhole(D, left) ==
  \A a, b \in IdsOf(D.images) :
    Close(D, a, b) => <<a, b>> \in D.similar \/ (a \in left /\ b \in left)

\* An id is that of one row, and an entry has an image once
RowsAreGood ==
  /\ images \subseteq Row /\ IsFiniteSet(IdsOf(images)) /\ similar \subseteq Nat \X Nat
  /\ DistinctIds(images) /\ UrisOnce(images)

SiteShape ==
  body \in [Entry -> SUBSET Uri] /\ due \subseteq Entry /\ behind \subseteq Entry /\ torn \in BOOLEAN

JobShape ==
  /\ job \in [pc: {"idle", "read", "synced", "loaded"}, entry: Entry \cup {NoEntry},
              body: SUBSET Uri, loaded: SUBSET Row]
  /\ DistinctIds(job.loaded)
  /\ IF job.pc = "idle" THEN job = Idle ELSE job.entry \in Entry

\* With what the subcommand has yet to take in each phase
ToolShape ==
  /\ tool \in [phase: {"off", "sync", "read", "list", "fill", "loaded", "clear", "recalc"},
               fill: BOOLEAN, overwrite: BOOLEAN, todo: SUBSET Nat, body: SUBSET Uri,
               loaded: SUBSET Row, raced: BOOLEAN]
  /\ DistinctIds(tool.loaded) /\ IsFiniteSet(tool.todo)
  /\ tool.phase \in {"sync", "read", "fill", "loaded"} => tool.todo \subseteq Entry
  /\ tool.phase \in {"sync", "read", "recalc"} => tool.todo # {}

\* What no job is to synchronise, and none has given up, has its rows; a job
\* that is about to write an older body is followed by another
RowsFollow ==
  /\ \A e \in Entry \ (due \cup behind) :
       (job.pc = "read" /\ job.entry = e) \/ UrisOf(ImagesOf(e)) = body[e]
  /\ job.pc = "read" /\ job.body # body[job.entry] => job.entry \in due \cup behind

\* Before the cache is cleared, the images to be taken again are all with a signature
ClearSeesAll ==
  tool.phase = "clear" /\ ~tool.raced => \A i \in images : i.sig # NoSig => i.id \in tool.todo

Left == IF tool.phase = "recalc" THEN tool.todo ELSE {}

RowsInv ==
  RowsAreGood /\ SiteShape /\ JobShape /\ ToolShape /\ RowsFollow /\ SignatureIsOwn
CacheInv == NgramsAreWords(Tables) /\ CacheIsTrue(Tables)
WholeInv == ClearSeesAll /\ (~torn => CacheIsWhole(Tables, Left))

\* A step in which no image meets more than MaxSimilar others that are like it,
\* with the signatures they had before or have afterwards
FewAlike ==
  \A i \in images' :
    LET others == {k \in images \cup images' : k.id \in IdsOf(images') \ {i.id}}
    IN  Cardinality(IdsOf({k \in others : Alike(i.sig, k.sig)})) <= MaxSimilar
=============================================================================
