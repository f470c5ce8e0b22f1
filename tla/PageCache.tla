----------------------------- MODULE PageCache -----------------------------
(***************************************************************************)
(* The page cache of the public site: the middleware that stores rendered  *)
(* pages with the ids of the sources they depend on                        *)
(* (backend/app/page_cache.go), the service and the SQLite triggers that   *)
(* keep pages and dependencies together (backend/app/cache_service.go,     *)
(* backend/db/schema/cache.sql), the entries the pages show, and the two   *)
(* jobs that drop pages after an entry is saved                            *)
(* (backend/jobs/update_trackbacks.go, backend/jobs/finalize_entry.go).    *)
(*                                                                         *)
(* A page is the entries it lists and the trackbacks it shows, each at the *)
(* revision the page was rendered from; neighbours, similar entries and    *)
(* the limits of the lists are left out.  A hit and a 304 serve the stored *)
(* row and change nothing, so the properties are about the stored rows.    *)
(***************************************************************************)
EXTENDS Naturals, FiniteSets

CONSTANTS
  Entry,      \* the ids of the entries
  Query,      \* the tags and the years, months and days that have a page
  Linked,     \* the entries that bodies may link to
  Page,       \* the pages that visitors ask for
  Reader,     \* the requests that may be under way at once
  SaveStatus, \* what an entry may be saved as
  MaxSaves,   \* bound: how often entries are saved
  MaxFaults   \* bound: restarts, failed enqueues, jobs and invalidations

Job == {"UpdateTrackbacks", "FinalizeEntry"}
Encoding == {"gzip", "raw"}

\* The ids under which a page registers what it depends on
OfEntry(e) == <<"entry", e>>
OfQuery(q) == <<"query", q>>
Latest == <<"global:latest">>
Source == {OfEntry(e) : e \in Entry} \cup {OfQuery(q) : q \in Query} \cup {Latest}

\* The pages: the index, the lists of everything (feed, archive, sitemap),
\* the list of a tag or of a date, and an entry's own page
Index == <<"index">>
Feed == <<"feed">>
AnyPage == {Index, Feed} \cup {OfQuery(q) : q \in Query} \cup {OfEntry(e) : e \in Entry}
Key == Page \X Encoding

ASSUME PagesExist == Page \subseteq AnyPage /\ Linked \subseteq Entry /\ Entry # {}
ASSUME StatusesOfSave == SaveStatus \subseteq {"public", "delayed", "withdrawn"}
ASSUME BoundsAreNaturals == MaxSaves \in Nat /\ MaxFaults \in Nat

VARIABLES
  entries,     \* the entries table
  trackbacks,  \* the trackbacks table: <<linked entry, linking entry>>
  unsent,      \* entries saved whose jobs are not enqueued yet
  due,         \* per entry, the jobs that are enqueued and not started
  failed,      \* the entries whose UpdateTrackbacks is given up
  worker,      \* the job that runs, and the sources it has yet to invalidate
  cache,       \* the cache table
  relation,    \* the cache_relation table: <<cache key, source id>>
  reader,      \* the requests that missed the cache
  saves,       \* how often an entry was saved: the clock of the revisions
  faults,      \* how often something failed
  silent       \* history: <<job, entry>> changes that no job will announce

vars == <<entries, trackbacks, unsent, due, failed, worker, cache, relation,
          reader, saves, faults, silent>>

site == <<entries, trackbacks, saves>>
pipeline == <<unsent, due, failed, worker>>
stored == <<cache, relation>>

Time == 0 .. MaxSaves
Shown == Entry \X Time
ContentSet == [listed: SUBSET Shown, trackbacks: SUBSET Shown]
NoPage == [listed |-> {}, trackbacks |-> {}]

-----------------------------------------------------------------------------
(* What the handlers of the public site render.                            *)

\* "delayed" is status public with publish_at in the future
Visible(e) == entries[e].status = "public"
HasPath(e) == entries[e].status # "unpublished"

AsShown(S) == {<<e, entries[e].modified>> : e \in S}

ListedOn(p) ==
  {e \in Entry : Visible(e) /\
     \/ p \in {Index, Feed}
     \/ p = OfEntry(e)
     \/ \E q \in entries[e].queries : p = OfQuery(q)}

Content(p) ==
  LET own == {e \in Entry : p = OfEntry(e) /\ Visible(e)}
  IN  [listed     |-> AsShown(ListedOn(p)),
       trackbacks |-> AsShown({s \in Entry : \E e \in own : <<e, s>> \in trackbacks})]

\* The ids a handler registers for the page it rendered; an index without
\* entries registers none, and an entry's own page names only the entry
Declared(p, c) ==
  IF p = Index /\ c.listed = {} THEN {}
  ELSE {OfQuery(q) : q \in {x \in Query : p = OfQuery(x)}}
         \cup (IF p \in {Index, Feed} THEN {Latest} ELSE {})
         \cup (IF p = Feed THEN {} ELSE {OfEntry(s[1]) : s \in c.listed})

\* A page of an entry that nobody may see is answered 404
Answered(p) == \A e \in Entry : p = OfEntry(e) => Visible(e)

-----------------------------------------------------------------------------
(* The tables of the cache.                                                *)

NoRow == [present |-> FALSE, content |-> NoPage, late |-> FALSE]

KeysOf(s) == {k \in Key : <<k, s>> \in relation}

\* The triggers: a row that goes takes its relations along, and a relation
\* that goes takes the row and the other relations of its key along
DeleteKeys(K) ==
  /\ cache' = [k \in Key |-> IF k \in K THEN NoRow ELSE cache[k]]
  /\ relation' = {x \in relation : x[1] \notin K}

\* A request that has rendered a page and still stores it misses the
\* invalidations that run meanwhile: its rows are marked late
Holds(r, s) == reader[r].pc \in {"gzip", "raw"}
                 /\ s \in Declared(reader[r].page, reader[r].content)

InvalidateBySourceID(s) ==
  /\ DeleteKeys(KeysOf(s))
  /\ reader' = [r \in Reader |-> [reader[r] EXCEPT !.late = @ \/ Holds(r, s)]]

Set(k, content, late) ==
  /\ cache' = [cache EXCEPT ![k] = [present |-> TRUE, content |-> content, late |-> late]]
  /\ relation' = {x \in relation : x[1] # k}
                   \cup {<<k, s>> : s \in Declared(k[1], content)}

-----------------------------------------------------------------------------
(* Visitors: a request that finds no compressed row renders the page and   *)
(* stores the compressed row, then the row that has only the ETag.         *)

NoRequest == [pc |-> "idle", page |-> Index, content |-> NoPage, late |-> FALSE]

Miss(r, p) ==
  /\ reader[r].pc = "idle"
  /\ ~cache[p, "gzip"].present
  /\ reader' = [reader EXCEPT ![r] = [NoRequest EXCEPT !.pc = "missed", !.page = p]]
  /\ UNCHANGED <<site, pipeline, stored, faults, silent>>

Render(r) ==
  /\ reader[r].pc = "missed"
  /\ LET p == reader[r].page
     IN  reader' = [reader EXCEPT ![r] =
                      IF Answered(p) /\ Declared(p, Content(p)) # {}
                      THEN [@ EXCEPT !.pc = "gzip", !.content = Content(p)]
                      ELSE NoRequest]
  /\ UNCHANGED <<site, pipeline, stored, faults, silent>>

Stored(r) ==
  reader' = [reader EXCEPT ![r] =
               IF @.pc = "gzip" THEN [@ EXCEPT !.pc = "raw"] ELSE NoRequest]

Store(r) ==
  /\ reader[r].pc \in Encoding
  /\ Set(<<reader[r].page, reader[r].pc>>, reader[r].content, reader[r].late)
  /\ Stored(r)
  /\ UNCHANGED <<site, pipeline, faults, silent>>

\* A failed Set is logged and the request goes on
StoreFails(r) ==
  /\ reader[r].pc \in Encoding
  /\ Stored(r)
  /\ UNCHANGED <<site, pipeline, stored, faults, silent>>

\* The administrator deletes one row
InvalidateByKey(k) ==
  /\ cache[k].present
  /\ DeleteKeys({k})
  /\ UNCHANGED <<site, pipeline, reader, faults, silent>>

-----------------------------------------------------------------------------
(* Saving an entry.  "unpublished" is an entry that never had a path, and  *)
(* "withdrawn" a draft that once was public; a scheduled entry that the    *)
(* publisher makes public is saved as "public" here.                       *)

Save(e, status, queries, links) ==
  /\ saves < MaxSaves
  /\ status = "withdrawn" => HasPath(e)
  /\ saves' = saves + 1
  /\ entries' = [entries EXCEPT ![e] =
       [status   |-> status,
        queries  |-> queries,
        links    |-> links,
        modified |-> saves + 1]]
  /\ IF status = "withdrawn"
     THEN silent' = silent \cup (Job \X {e}) /\ UNCHANGED unsent
     ELSE unsent' = unsent \cup {e} /\ UNCHANGED silent
  /\ UNCHANGED <<trackbacks, due, failed, worker, stored, reader, faults>>

\* publish_at passes: the entry is visible from now on, and no code runs
PublishAtPasses(e) ==
  /\ entries[e].status = "delayed"
  /\ entries' = [entries EXCEPT ![e].status = "public"]
  /\ silent' = silent \cup {<<"FinalizeEntry", e>>}
  /\ UNCHANGED <<trackbacks, saves, pipeline, stored, reader, faults>>

\* Mutant: FinalizeEntry is forgotten
EnqueueWithoutFinalize(e) ==
  /\ e \in unsent
  /\ unsent' = unsent \ {e}
  /\ due' = [due EXCEPT ![e] = {"UpdateTrackbacks"}]
  /\ failed' = failed \ {e}
  /\ UNCHANGED <<site, worker, stored, reader, faults, silent>>

\* A job that had been given up is pending again
EnqueuePublishedEntryJobs(e) ==
  /\ e \in unsent
  /\ unsent' = unsent \ {e}
  /\ due' = [due EXCEPT ![e] = Job]
  /\ failed' = failed \ {e}
  /\ UNCHANGED <<site, worker, stored, reader, faults, silent>>

\* An Enqueue that fails ends the sequence; the error is logged
EnqueueFails(e) ==
  /\ e \in unsent /\ faults < MaxFaults
  /\ faults' = faults + 1
  /\ unsent' = unsent \ {e}
  /\ \E sent \in {{}, {"UpdateTrackbacks"}} :
       /\ due' = [due EXCEPT ![e] = @ \cup sent]
       /\ failed' = IF sent = {} THEN failed ELSE failed \ {e}
       /\ silent' = silent \cup ((Job \ sent) \X {e})
  /\ UNCHANGED <<site, worker, stored, reader>>

-----------------------------------------------------------------------------
(* The jobs, which the queue's worker runs one at a time.                  *)

Idle == [job |-> "none", entry |-> CHOOSE e \in Entry : TRUE, todo |-> {}]

Start(job, e, todo) ==
  /\ worker = Idle
  /\ job \in due[e]
  /\ due' = [due EXCEPT ![e] = @ \ {job}]
  /\ worker' = [job |-> job, entry |-> e, todo |-> todo]
  /\ silent' = silent \ {<<job, e>>}

LinkTargets(e) == {t \in entries[e].links : HasPath(t)}

\* Mutant: the targets of the links are not invalidated
UpdateTrackbacksOnly(e) ==
  /\ Start("UpdateTrackbacks", e, {})
  /\ trackbacks' = {x \in trackbacks : x[2] # e} \cup (LinkTargets(e) \X {e})
  /\ UNCHANGED <<entries, saves, unsent, failed, stored, reader, faults>>

\* The links are stored in one transaction; their targets are invalidated
\* after it
UpdateTrackbacks(e) ==
  /\ Start("UpdateTrackbacks", e, {OfEntry(t) : t \in LinkTargets(e)})
  /\ trackbacks' = {x \in trackbacks : x[2] # e} \cup (LinkTargets(e) \X {e})
  /\ UNCHANGED <<entries, saves, unsent, failed, stored, reader, faults>>

\* Mutant: the tags and dates alone
FinalizeSourcesWithoutEntry(e) == {Latest} \cup {OfQuery(q) : q \in entries[e].queries}

FinalizeSources(e) ==
  {OfEntry(e), Latest} \cup {OfQuery(q) : q \in entries[e].queries}

\* The queue holds FinalizeEntry back until UpdateTrackbacks has completed
FinalizeEntry(e) ==
  /\ "UpdateTrackbacks" \notin due[e] /\ e \notin failed
  /\ Start("FinalizeEntry", e, FinalizeSources(e))
  /\ UNCHANGED <<site, unsent, failed, stored, reader, faults>>

\* A job is given up: its attempts have failed, each before it changed anything
\* (update_trackbacks.go returns no error after its commit, finalize_entry.go
\* none after it has read the entry), its waits or restarts are used up, one of
\* the two jobs that are not modelled here and that FinalizeEntry depends on
\* has failed, or its enqueue is lost to a verdict
JobFails(job, e) ==
  /\ worker = Idle
  /\ job \in due[e] /\ faults < MaxFaults
  /\ faults' = faults + 1
  /\ due' = [due EXCEPT ![e] = @ \ {job}]
  /\ failed' = IF job = "UpdateTrackbacks" THEN failed \cup {e} ELSE failed
  /\ silent' = silent \cup {<<job, e>>}
  /\ UNCHANGED <<site, unsent, worker, stored, reader>>

\* FinalizeEntry asks for UpdateTrackbacks to complete, and fails with it
DependencyFails(e) ==
  /\ worker = Idle
  /\ "FinalizeEntry" \in due[e] /\ e \in failed
  /\ due' = [due EXCEPT ![e] = @ \ {"FinalizeEntry"}]
  /\ silent' = silent \cup {<<"FinalizeEntry", e>>}
  /\ UNCHANGED <<site, unsent, failed, worker, stored, reader, faults>>

Invalidate(s) ==
  /\ s \in worker.todo
  /\ InvalidateBySourceID(s)
  /\ worker' = [worker EXCEPT !.todo = @ \ {s}]
  /\ UNCHANGED <<site, unsent, due, failed, faults, silent>>

\* A failed invalidation is logged and the job goes on
InvalidateFails(s) ==
  /\ s \in worker.todo /\ faults < MaxFaults
  /\ faults' = faults + 1
  /\ worker' = [worker EXCEPT !.todo = @ \ {s}]
  /\ silent' = silent \cup {<<worker.job, worker.entry>>}
  /\ UNCHANGED <<site, unsent, due, failed, stored, reader>>

Complete ==
  /\ worker # Idle /\ worker.todo = {}
  /\ worker' = Idle
  /\ UNCHANGED <<site, unsent, due, failed, stored, reader, faults, silent>>

\* A restart ends the requests and the saving goroutines; the queue runs the
\* interrupted job again; a new version of the program truncates the cache
Restart ==
  /\ faults < MaxFaults
  /\ faults' = faults + 1
  /\ reader' = [r \in Reader |-> NoRequest]
  /\ silent' = silent \cup (Job \X unsent)
  /\ unsent' = {}
  /\ worker' = Idle
  /\ due' = IF worker = Idle THEN due ELSE [due EXCEPT ![worker.entry] = @ \cup {worker.job}]
  /\ \E truncate \in BOOLEAN : DeleteKeys(IF truncate THEN Key ELSE {})
  /\ UNCHANGED <<site, failed>>

-----------------------------------------------------------------------------
NewEntry == [status |-> "unpublished", queries |-> {}, links |-> {}, modified |-> 0]

Init ==
  /\ entries = [e \in Entry |-> NewEntry]
  /\ trackbacks = {}
  /\ unsent = {}
  /\ due = [e \in Entry |-> {}]
  /\ failed = {}
  /\ worker = Idle
  /\ cache = [k \in Key |-> NoRow]
  /\ relation = {}
  /\ reader = [r \in Reader |-> NoRequest]
  /\ saves = 0
  /\ faults = 0
  /\ silent = {}

JobStep ==
  \/ \E e \in Entry : EnqueuePublishedEntryJobs(e)
                      \/ UpdateTrackbacks(e) \/ FinalizeEntry(e) \/ DependencyFails(e)
  \/ \E s \in Source : Invalidate(s)
  \/ Complete

ReaderStep(r) == Render(r) \/ Store(r)

Next ==
  \/ JobStep
  \/ \E r \in Reader : ReaderStep(r) \/ StoreFails(r) \/ \E p \in Page : Miss(r, p)
  \/ \E k \in Key : InvalidateByKey(k)
  \/ \E e \in Entry, status \in SaveStatus, queries \in SUBSET Query, links \in SUBSET Linked :
       Save(e, status, queries, links)
  \/ \E e \in Entry : PublishAtPasses(e) \/ EnqueueFails(e) \/ \E job \in Job : JobFails(job, e)
  \/ \E s \in Source : InvalidateFails(s)
  \/ Restart

Spec == Init /\ [][Next]_vars

\* A goroutine that has saved enqueues, the worker runs what is due, and a
\* request under way ends
FairSpec == Spec /\ WF_vars(JobStep) /\ \A r \in Reader : WF_vars(ReaderStep(r))

-----------------------------------------------------------------------------
TypeOK ==
  /\ entries \in [Entry -> [status: {"unpublished", "public", "delayed", "withdrawn"},
                            queries: SUBSET Query, links: SUBSET Entry,
                            modified: Time]]
  /\ trackbacks \subseteq Entry \X Entry
  /\ unsent \subseteq Entry
  /\ due \in [Entry -> SUBSET Job]
  /\ failed \subseteq Entry
  /\ worker \in [job: Job \cup {"none"}, entry: Entry, todo: SUBSET Source]
  /\ cache \in [Key -> [present: BOOLEAN, content: ContentSet, late: BOOLEAN]]
  /\ relation \subseteq Key \X Source
  /\ reader \in [Reader -> [pc: {"idle", "missed", "gzip", "raw"}, page: Page \cup {Index},
                            content: ContentSet, late: BOOLEAN]]
  /\ saves \in Time
  /\ faults \in 0 .. MaxFaults
  /\ silent \subseteq Job \X Entry

\* A row has exactly the relations of its content, and at least one; a key
\* without row has none.  This is what Set in one transaction and the two
\* triggers of cache.sql keep up: otherwise a row outlives every invalidation
CacheRelated ==
  \A k \in Key :
    /\ cache[k].present => Declared(k[1], cache[k].content) # {}
    /\ {s \in Source : <<k, s>> \in relation} =
         IF cache[k].present THEN Declared(k[1], cache[k].content) ELSE {}

-----------------------------------------------------------------------------
(* What the invalidation of finalize_entry.go promises for the lists.      *)

Of(e, S) == {x \in S : x[1] = e}

\* The entries a stored or rendered list no longer shows as they are
Outdated(p, c) == {e \in Entry : Of(e, c.listed) # Of(e, Content(p).listed)}

\* FinalizeEntry of e will still delete what is registered under sources
ToFinalize(e, sources) ==
  \/ <<"FinalizeEntry", e>> \in silent
  \/ e \in unsent
  \/ "FinalizeEntry" \in due[e]
  \/ worker.job = "FinalizeEntry" /\ worker.entry = e /\ worker.todo \cap sources # {}

\* A stored page that lists an entry otherwise than the site has it, and that
\* missed no invalidation while it was rendered, will be deleted by a job of
\* that entry: the ids that handler_public.go registers and those that
\* finalize_entry.go invalidates meet, whatever tags and dates the entry had
OutdatedIsAnnounced ==
  \A k \in Key :
    cache[k].present /\ ~cache[k].late =>
      \A e \in Outdated(k[1], cache[k].content) :
        ToFinalize(e, {s \in Source : <<k, s>> \in relation})

\* The same for the pages that requests have rendered and not stored yet
RenderedIsAnnounced ==
  \A r \in Reader :
    reader[r].pc \in Encoding /\ ~reader[r].late =>
      \A e \in Outdated(reader[r].page, reader[r].content) :
        ToFinalize(e, Declared(reader[r].page, reader[r].content))

\* UpdateTrackbacks of s will still delete the page of t
ToUpdate(s, t) ==
  \/ <<"UpdateTrackbacks", s>> \in silent
  \/ s \in unsent
  \/ "UpdateTrackbacks" \in due[s]
  \/ worker.job = "UpdateTrackbacks" /\ worker.entry = s /\ OfEntry(t) \in worker.todo

\* A stored entry page that lacks a trackback, or shows it at an old revision,
\* will be deleted by the job that stored the trackback (update_trackbacks.go
\* invalidates the targets after the commit, not before it)
TrackbackIsAnnounced ==
  \A t \in Entry, s \in Entry, k \in Key :
    /\ k[1] = OfEntry(t) /\ cache[k].present /\ ~cache[k].late
    /\ <<t, s>> \in trackbacks
    /\ AsShown({s}) \cap cache[k].content.trackbacks = {}
    => ToUpdate(s, t)

Stale(k) == cache[k].present /\ ~cache[k].late /\ Outdated(k[1], cache[k].content) # {}

\* When nothing fails, a stored page that an update made stale does not stay:
\* the jobs that the save enqueues delete it
StaleGoes == \A k \in Key : Stale(k) /\ silent = {} ~> ~Stale(k) \/ silent # {}

-----------------------------------------------------------------------------
(* What the proofs rest on: every page that was rendered registers itself,  *)
(* an idle worker has nothing to do, and pages that are rendered and not    *)
(* stored yet miss no trackback either.                                     *)

Fits(p, c) ==
  /\ Declared(p, c) # {}
  /\ \A e \in Entry : p = OfEntry(e) => c.listed # {} /\ \A x \in c.listed : x[1] = e

RenderedWell ==
  /\ \A k \in Key : cache[k].present => Fits(k[1], cache[k].content)
  /\ \A r \in Reader : reader[r].pc \in Encoding => Fits(reader[r].page, reader[r].content)
  /\ \A r \in Reader : reader[r].pc # "idle" => reader[r].page \in Page

IdleIsIdle == worker.job = "none" => worker = Idle

RenderedTrackbackIsAnnounced ==
  \A t \in Entry, s \in Entry, r \in Reader :
    /\ reader[r].page = OfEntry(t) /\ reader[r].pc \in Encoding /\ ~reader[r].late
    /\ <<t, s>> \in trackbacks
    /\ AsShown({s}) \cap reader[r].content.trackbacks = {}
    => ToUpdate(s, t)

\* The inductive invariant
IInv ==
  /\ TypeOK
  /\ IdleIsIdle
  /\ CacheRelated
  /\ RenderedWell
  /\ OutdatedIsAnnounced
  /\ RenderedIsAnnounced
  /\ TrackbackIsAnnounced
  /\ RenderedTrackbackIsAnnounced

-----------------------------------------------------------------------------
\* What docs/about-page-cache-and-how-to-invalidate-related-cache.md:23 says of
\* every update: when its jobs are done, no page it affects is left.  A page
\* that was rendered before the save and stored after the invalidation is left
\* (page_cache.go, lines 82 to 125)
AtRest == unsent = {} /\ worker = Idle /\ \A e \in Entry : due[e] = {}

FreshAtRest ==
  AtRest => \A k \in Key : cache[k].present => Outdated(k[1], cache[k].content) = {}
=============================================================================
