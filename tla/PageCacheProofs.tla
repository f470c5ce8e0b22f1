--------------------------- MODULE PageCacheProofs ---------------------------
(* The inductive invariant of PageCache, and the theorems that follow.     *)
EXTENDS PageCache, TLAPS

-----------------------------------------------------------------------------
(* Pages and sources are told apart by their names.                        *)

LEMMA PagesDiffer ==
  /\ Index # Feed
  /\ \A e \in Entry : OfEntry(e) \notin {Index, Feed}
  /\ \A q \in Query : OfQuery(q) \notin {Index, Feed}
  /\ \A e, f \in Entry : OfEntry(e) = OfEntry(f) => e = f
  /\ \A p, q \in Query : OfQuery(p) = OfQuery(q) => p = q
  /\ \A e \in Entry, q \in Query : OfEntry(e) # OfQuery(q)
BY DEF Index, Feed, OfEntry, OfQuery

LEMMA PageKinds ==
  ASSUME NEW p \in AnyPage
  PROVE  \/ p = Index
         \/ p = Feed
         \/ \E q \in Query : p = OfQuery(q)
         \/ \E e \in Entry : p = OfEntry(e)
BY DEF AnyPage

-----------------------------------------------------------------------------
(* What pages show and register.                                           *)

LEMMA ShownTyped ==
  ASSUME TypeOK, NEW S, S \subseteq Entry
  PROVE  AsShown(S) \subseteq Shown
BY DEF AsShown, Shown, TypeOK

LEMMA ContentTyped ==
  ASSUME TypeOK, NEW p
  PROVE  Content(p) \in ContentSet
<1>1. ListedOn(p) \subseteq Entry
  BY DEF ListedOn
<1>2. {s \in Entry : \E e \in {e \in Entry : p = OfEntry(e) /\ Visible(e)} : <<e, s>> \in trackbacks}
        \subseteq Entry
  OBVIOUS
<1> QED
  BY <1>1, <1>2, ShownTyped DEF Content, ContentSet

LEMMA DeclaredTyped ==
  ASSUME NEW p, NEW c \in ContentSet
  PROVE  Declared(p, c) \subseteq Source
BY DEF Declared, ContentSet, Shown, Source

\* A list shows an entry once, at its present revision, or not at all
LEMMA ListedOnce ==
  ASSUME NEW p, NEW e \in Entry
  PROVE  Of(e, Content(p).listed)
           = IF e \in ListedOn(p) THEN {<<e, entries[e].modified>>} ELSE {}
BY DEF Of, Content, AsShown, ListedOn

\* The sources that FinalizeEntry invalidates meet those of every page that
\* shows the entry otherwise than the site has it
LEMMA SourcesMeet ==
  ASSUME TypeOK, NEW p \in AnyPage, NEW c \in ContentSet, Fits(p, c), NEW e \in Outdated(p, c)
  PROVE  FinalizeSources(e) \cap Declared(p, c) # {}
<1>1. e \in Entry /\ Of(e, c.listed) # Of(e, Content(p).listed)
  BY DEF Outdated
<1>2. CASE p = Index
  <2>1. Latest \in Declared(p, c)
    BY <1>2, PagesDiffer DEF Declared, Fits
  <2> QED
    BY <2>1 DEF FinalizeSources
<1>3. CASE p = Feed
  <2>1. Latest \in Declared(p, c)
    BY <1>3, PagesDiffer DEF Declared
  <2> QED
    BY <2>1 DEF FinalizeSources
<1>4. ASSUME p \notin {Index, Feed}, NEW x \in c.listed, x[1] = e
      PROVE  FinalizeSources(e) \cap Declared(p, c) # {}
  <2>1. OfEntry(e) \in Declared(p, c)
    BY <1>4 DEF Declared
  <2> QED
    BY <2>1 DEF FinalizeSources
<1>5. ASSUME p \notin {Index, Feed}, \A x \in c.listed : x[1] # e
      PROVE  FinalizeSources(e) \cap Declared(p, c) # {}
  <2>1. Of(e, c.listed) = {}
    BY <1>5 DEF Of
  <2>2. e \in ListedOn(p)
    BY <1>1, <2>1, ListedOnce
  <2>3. CASE p = OfEntry(e)
    BY <1>1, <1>5, <2>3 DEF Fits
  <2>4. CASE \E q \in entries[e].queries : p = OfQuery(q)
    <3>1. PICK q \in entries[e].queries : p = OfQuery(q)
      BY <2>4
    <3>2. q \in Query
      BY <1>1 DEF TypeOK
    <3>3. OfQuery(q) \in Declared(p, c) /\ OfQuery(q) \in FinalizeSources(e)
      BY <1>5, <3>1, <3>2 DEF Declared, FinalizeSources
    <3> QED
      BY <3>3
  <2> QED
    BY <1>5, <2>2, <2>3, <2>4 DEF ListedOn
<1> QED
  BY <1>2, <1>3, <1>4, <1>5

-----------------------------------------------------------------------------
(* What is announced of a page p that was rendered as c stays so with every *)
(* step, unless the step invalidates the page.                             *)

Announced(p, c) == \A e \in Outdated(p, c) : ToFinalize(e, Declared(p, c))

LinksAnnounced(p, c) ==
  \A t \in Entry, s \in Entry :
    /\ p = OfEntry(t)
    /\ <<t, s>> \in trackbacks
    /\ AsShown({s}) \cap c.trackbacks = {}
    => ToUpdate(s, t)

\* An entry that a step leaves alone is outdated on a page afterwards only if
\* it was so before
LEMMA OutdatedLocally ==
  ASSUME NEW p, NEW c, NEW e \in Entry, e \in Outdated(p, c)', entries'[e] = entries[e]
  PROVE  e \in Outdated(p, c)
<1>1. e \in ListedOn(p) <=> (e \in ListedOn(p))'
  BY DEF ListedOn, Visible
<1>2. Of(e, Content(p).listed)' = IF (e \in ListedOn(p))' THEN {<<e, entries'[e].modified>>} ELSE {}
  BY DEF Of, Content, AsShown, ListedOn
<1>3. Of(e, Content(p).listed)' = Of(e, Content(p).listed)
  BY <1>1, <1>2, ListedOnce
<1> QED
  BY <1>3 DEF Outdated, Of

\* The steps that neither save nor run a job
Elsewhere == UNCHANGED <<site, pipeline, silent>>

LEMMA AnnouncedElsewhere ==
  ASSUME TypeOK, Elsewhere, NEW p, NEW c, Announced(p, c), LinksAnnounced(p, c)
  PROVE  Announced(p, c)' /\ LinksAnnounced(p, c)'
<1>1. Outdated(p, c)' = Outdated(p, c)
  BY DEF Elsewhere, site, Outdated, Content, ListedOn, AsShown, Visible, Of
<1>2. Announced(p, c)'
  BY <1>1 DEF Announced, ToFinalize, Elsewhere, pipeline
<1>3. LinksAnnounced(p, c)'
  BY DEF LinksAnnounced, ToUpdate, Elsewhere, pipeline, site, AsShown
<1> QED
  BY <1>2, <1>3

\* The entries' steps: the entry that changes is announced by unsent or silent
LEMMA AnnouncedOnSave ==
  ASSUME TypeOK, NEW p, NEW c, Announced(p, c), LinksAnnounced(p, c), NEW x \in Entry,
         \/ \E status \in SaveStatus, queries \in SUBSET Query, links \in SUBSET Linked :
              Save(x, status, queries, links)
         \/ PublishAtPasses(x)
  PROVE  Announced(p, c)' /\ LinksAnnounced(p, c)'
<1>1. /\ \A e \in Entry : e # x => entries'[e] = entries[e]
      /\ trackbacks' = trackbacks
      /\ due' = due /\ worker' = worker
      /\ unsent \subseteq unsent' /\ silent \subseteq silent'
  BY DEF Save, PublishAtPasses, TypeOK, pipeline
<1>2. x \in unsent' \/ <<"FinalizeEntry", x>> \in silent'
  BY DEF Save, PublishAtPasses, Job
<1>3. \/ x \in unsent' \/ <<"UpdateTrackbacks", x>> \in silent'
      \/ entries'[x].modified = entries[x].modified
  BY DEF Save, PublishAtPasses, Job, TypeOK
<1>4. ASSUME NEW e \in Entry, e \in Outdated(p, c)' PROVE ToFinalize(e, Declared(p, c))'
  <2>1. CASE e = x
    BY <1>2, <2>1 DEF ToFinalize
  <2>2. CASE e # x
    BY <1>1, <1>4, <2>2, OutdatedLocally DEF Announced, ToFinalize
  <2> QED
    BY <2>1, <2>2
<1>5. ASSUME NEW t \in Entry, NEW s \in Entry, p = OfEntry(t), <<t, s>> \in trackbacks,
             AsShown({s})' \cap c.trackbacks = {}
      PROVE  ToUpdate(s, t)'
  <2>1. CASE entries'[s].modified = entries[s].modified
    <3>1. AsShown({s})' = AsShown({s})
      BY <2>1 DEF AsShown
    <3>2. ToUpdate(s, t)
      BY <1>5, <3>1 DEF LinksAnnounced
    <3> QED
      BY <1>1, <3>2 DEF ToUpdate
  <2>2. CASE entries'[s].modified # entries[s].modified
    BY <1>1, <1>3, <2>2 DEF ToUpdate
  <2> QED
    BY <2>1, <2>2
<1>6. Announced(p, c)'
  BY <1>4 DEF Announced, Outdated
<1>7. LinksAnnounced(p, c)'
  BY <1>1, <1>5 DEF LinksAnnounced
<1> QED
  BY <1>6, <1>7

\* The steps that leave the entries alone and keep what announced them
LEMMA AnnouncedAlike ==
  ASSUME TypeOK, NEW p, NEW c, Announced(p, c), LinksAnnounced(p, c),
         UNCHANGED site,
         \A e \in Entry : ToFinalize(e, Declared(p, c)) => ToFinalize(e, Declared(p, c))',
         \A t \in Entry, s \in Entry : p = OfEntry(t) /\ ToUpdate(s, t) => ToUpdate(s, t)'
  PROVE  Announced(p, c)' /\ LinksAnnounced(p, c)'
<1>1. Outdated(p, c)' = Outdated(p, c)
  BY DEF site, Outdated, Content, ListedOn, AsShown, Visible, Of
<1>2. Announced(p, c)'
  BY <1>1 DEF Announced, Outdated
<1>3. LinksAnnounced(p, c)'
  BY DEF LinksAnnounced, site, AsShown
<1> QED
  BY <1>2, <1>3

LEMMA AnnouncedOnEnqueue ==
  ASSUME TypeOK, NEW p, NEW c, Announced(p, c), LinksAnnounced(p, c), NEW x \in Entry,
         EnqueuePublishedEntryJobs(x) \/ EnqueueFails(x)
  PROVE  Announced(p, c)' /\ LinksAnnounced(p, c)'
<1>1. /\ UNCHANGED <<site, worker>>
      /\ silent \subseteq silent'
      /\ unsent' = unsent \ {x}
      /\ \A e \in Entry : e # x => due'[e] = due[e]
  BY DEF EnqueuePublishedEntryJobs, EnqueueFails, TypeOK
<1>2. /\ "FinalizeEntry" \in due'[x] \/ <<"FinalizeEntry", x>> \in silent'
      /\ "UpdateTrackbacks" \in due'[x] \/ <<"UpdateTrackbacks", x>> \in silent'
  BY DEF EnqueuePublishedEntryJobs, EnqueueFails, TypeOK, Job
<1>3. \A e \in Entry : ToFinalize(e, Declared(p, c)) => ToFinalize(e, Declared(p, c))'
  BY <1>1, <1>2 DEF ToFinalize
<1>4. \A t \in Entry, s \in Entry : ToUpdate(s, t) => ToUpdate(s, t)'
  BY <1>1, <1>2 DEF ToUpdate
<1> QED
  BY <1>1, <1>3, <1>4, AnnouncedAlike

\* A worker that starts a job was idle and announced nothing
LEMMA IdleAnnouncesNothing ==
  ASSUME worker = Idle
  PROVE  worker.job = "none"
BY DEF Idle

LEMMA AnnouncedOnUpdateTrackbacks ==
  ASSUME TypeOK, NEW p, NEW c, Announced(p, c), LinksAnnounced(p, c), NEW x \in Entry,
         UpdateTrackbacks(x)
  PROVE  Announced(p, c)' /\ LinksAnnounced(p, c)'
<1>1. /\ worker.job = "none"
      /\ due' = [due EXCEPT ![x] = @ \ {"UpdateTrackbacks"}]
      /\ worker' = [job |-> "UpdateTrackbacks", entry |-> x,
                    todo |-> {OfEntry(t) : t \in LinkTargets(x)}]
      /\ silent' = silent \ {<<"UpdateTrackbacks", x>>}
      /\ UNCHANGED <<entries, unsent>>
      /\ trackbacks' = {y \in trackbacks : y[2] # x} \cup (LinkTargets(x) \X {x})
  BY IdleAnnouncesNothing DEF UpdateTrackbacks, Start
<1>2. /\ \A e \in Entry : e # x => due'[e] = due[e]
      /\ due'[x] = due[x] \ {"UpdateTrackbacks"}
  BY <1>1 DEF TypeOK
<1>3. Outdated(p, c)' = Outdated(p, c)
  BY <1>1 DEF Outdated, Content, ListedOn, AsShown, Visible, Of
<1>4. \A e \in Entry : ToFinalize(e, Declared(p, c)) => ToFinalize(e, Declared(p, c))'
  BY <1>1, <1>2 DEF ToFinalize
<1>5. Announced(p, c)'
  BY <1>3, <1>4 DEF Announced, Outdated
<1>6. ASSUME NEW t \in Entry, NEW s \in Entry, p = OfEntry(t), <<t, s>> \in trackbacks',
             AsShown({s})' \cap c.trackbacks = {}
      PROVE  ToUpdate(s, t)'
  <2>1. CASE s = x
    <3>1. t \in LinkTargets(x)
      BY <1>1, <1>6, <2>1
    <3> QED
      BY <1>1, <2>1, <3>1 DEF ToUpdate
  <2>2. CASE s # x
    <3>1. <<t, s>> \in trackbacks /\ AsShown({s})' = AsShown({s})
      BY <1>1, <1>6, <2>2 DEF AsShown
    <3>2. ToUpdate(s, t)
      BY <1>6, <3>1 DEF LinksAnnounced
    <3> QED
      BY <1>1, <1>2, <2>2, <3>2 DEF ToUpdate
  <2> QED
    BY <2>1, <2>2
<1> QED
  BY <1>5, <1>6 DEF LinksAnnounced

LEMMA AnnouncedOnFinalizeEntry ==
  ASSUME TypeOK, NEW p \in AnyPage, NEW c \in ContentSet, Fits(p, c),
         Announced(p, c), LinksAnnounced(p, c), NEW x \in Entry,
         FinalizeEntry(x)
  PROVE  Announced(p, c)' /\ LinksAnnounced(p, c)'
<1>1. /\ worker.job = "none"
      /\ due' = [due EXCEPT ![x] = @ \ {"FinalizeEntry"}]
      /\ worker' = [job |-> "FinalizeEntry", entry |-> x, todo |-> FinalizeSources(x)]
      /\ silent' = silent \ {<<"FinalizeEntry", x>>}
      /\ UNCHANGED <<site, unsent>>
  BY IdleAnnouncesNothing DEF FinalizeEntry, Start
<1>2. /\ \A e \in Entry : e # x => due'[e] = due[e]
      /\ due'[x] = due[x] \ {"FinalizeEntry"}
  BY <1>1 DEF TypeOK
<1>3. Outdated(p, c)' = Outdated(p, c)
  BY <1>1 DEF site, Outdated, Content, ListedOn, AsShown, Visible, Of
<1>4. ASSUME NEW e \in Outdated(p, c) PROVE ToFinalize(e, Declared(p, c))'
  <2>1. CASE e = x
    <3>1. FinalizeSources(x) \cap Declared(p, c) # {}
      BY <2>1, SourcesMeet
    <3> QED
      BY <1>1, <2>1, <3>1 DEF ToFinalize
  <2>2. CASE e # x
    BY <1>1, <1>2, <2>2 DEF Announced, ToFinalize, Outdated
  <2> QED
    BY <2>1, <2>2
<1>5. \A t \in Entry, s \in Entry : ToUpdate(s, t) => ToUpdate(s, t)'
  BY <1>1, <1>2 DEF ToUpdate
<1>6. LinksAnnounced(p, c)'
  BY <1>1, <1>5 DEF LinksAnnounced, site, AsShown
<1> QED
  BY <1>3, <1>4, <1>6 DEF Announced

\* An invalidation takes from what is to be done only what the page has not
LEMMA AnnouncedOnInvalidate ==
  ASSUME TypeOK, NEW p \in AnyPage, NEW c \in ContentSet, Fits(p, c),
         Announced(p, c), LinksAnnounced(p, c), NEW x \in Source,
         \/ Invalidate(x) /\ x \notin Declared(p, c)
         \/ InvalidateFails(x)
  PROVE  Announced(p, c)' /\ LinksAnnounced(p, c)'
<1>1. /\ worker' = [worker EXCEPT !.todo = @ \ {x}]
      /\ UNCHANGED <<site, unsent, due>>
      /\ silent \subseteq silent'
  BY DEF Invalidate, InvalidateFails
<1>2. /\ worker'.job = worker.job /\ worker'.entry = worker.entry
      /\ worker'.todo = worker.todo \ {x}
  BY <1>1 DEF TypeOK
<1>3. \/ x \notin Declared(p, c)
      \/ <<worker.job, worker.entry>> \in silent'
  BY DEF InvalidateFails
<1>4. ASSUME NEW t \in Entry, p = OfEntry(t) PROVE OfEntry(t) \in Declared(p, c)
  <2>1. PICK y \in c.listed : y[1] = t
    BY <1>4 DEF Fits
  <2>2. p # Feed
    BY <1>4, PagesDiffer
  <2>3. p # Index
    BY <1>4, PagesDiffer
  <2> QED
    BY <2>1, <2>2, <2>3 DEF Declared
<1>5. \A e \in Entry : ToFinalize(e, Declared(p, c)) => ToFinalize(e, Declared(p, c))'
  BY <1>1, <1>2, <1>3 DEF ToFinalize
<1>6. \A t \in Entry, s \in Entry : p = OfEntry(t) /\ ToUpdate(s, t) => ToUpdate(s, t)'
  BY <1>1, <1>2, <1>3, <1>4 DEF ToUpdate
<1> QED
  BY <1>1, <1>5, <1>6, AnnouncedAlike

\* A job that is not run is told of by silent
LEMMA AnnouncedOnFailure ==
  ASSUME TypeOK, NEW p, NEW c, Announced(p, c), LinksAnnounced(p, c), NEW x \in Entry,
         DependencyFails(x) \/ \E job \in Job : JobFails(job, x)
  PROVE  Announced(p, c)' /\ LinksAnnounced(p, c)'
<1>1. PICK job \in Job : /\ UNCHANGED <<site, unsent, worker>>
                         /\ due' = [due EXCEPT ![x] = @ \ {job}]
                         /\ silent' = silent \cup {<<job, x>>}
  BY DEF DependencyFails, JobFails, Job
<1>2. /\ \A e \in Entry, j \in Job : j \in due[e] => j \in due'[e] \/ <<j, e>> \in silent'
      /\ silent \subseteq silent'
  BY <1>1 DEF TypeOK
<1>3. \A e \in Entry : ToFinalize(e, Declared(p, c)) => ToFinalize(e, Declared(p, c))'
  BY <1>1, <1>2 DEF ToFinalize, Job
<1>4. \A t \in Entry, s \in Entry : ToUpdate(s, t) => ToUpdate(s, t)'
  BY <1>1, <1>2 DEF ToUpdate, Job
<1> QED
  BY <1>1, <1>3, <1>4, AnnouncedAlike

LEMMA AnnouncedOnComplete ==
  ASSUME TypeOK, NEW p, NEW c, Announced(p, c), LinksAnnounced(p, c), Complete
  PROVE  Announced(p, c)' /\ LinksAnnounced(p, c)'
<1>1. worker.todo = {} /\ UNCHANGED <<site, unsent, due, silent>>
  BY DEF Complete
<1>2. /\ \A e \in Entry : ToFinalize(e, Declared(p, c)) => ToFinalize(e, Declared(p, c))'
      /\ \A t \in Entry, s \in Entry : ToUpdate(s, t) => ToUpdate(s, t)'
  BY <1>1 DEF ToFinalize, ToUpdate
<1> QED
  BY <1>1, <1>2, AnnouncedAlike

LEMMA AnnouncedOnRestart ==
  ASSUME TypeOK, IdleIsIdle, NEW p, NEW c, Announced(p, c), LinksAnnounced(p, c), Restart
  PROVE  Announced(p, c)' /\ LinksAnnounced(p, c)'
<1>1. /\ silent' = silent \cup (Job \X unsent)
      /\ due' = IF worker = Idle THEN due ELSE [due EXCEPT ![worker.entry] = @ \cup {worker.job}]
      /\ UNCHANGED site
  BY DEF Restart
<1>2. \A e \in Entry : due[e] \subseteq due'[e]
  BY <1>1 DEF TypeOK
<1>3. worker # Idle => worker.job \in due'[worker.entry]
  BY <1>1 DEF TypeOK
<1>4. \A e \in Entry : ToFinalize(e, Declared(p, c)) => ToFinalize(e, Declared(p, c))'
  BY <1>1, <1>2, <1>3, IdleAnnouncesNothing DEF ToFinalize, Job
<1>5. \A t \in Entry, s \in Entry : ToUpdate(s, t) => ToUpdate(s, t)'
  BY <1>1, <1>2, <1>3, IdleAnnouncesNothing DEF ToUpdate, Job
<1> QED
  BY <1>1, <1>4, <1>5, AnnouncedAlike

\* All steps together
LEMMA AnnouncedStays ==
  ASSUME TypeOK, IdleIsIdle, [Next]_vars,
         NEW p \in AnyPage, NEW c \in ContentSet, Fits(p, c),
         Announced(p, c), LinksAnnounced(p, c),
         \A x \in Source : Invalidate(x) => x \notin Declared(p, c)
  PROVE  Announced(p, c)' /\ LinksAnnounced(p, c)'
<1>1. CASE JobStep
  BY <1>1, AnnouncedOnEnqueue, AnnouncedOnUpdateTrackbacks, AnnouncedOnFinalizeEntry,
     AnnouncedOnInvalidate, AnnouncedOnComplete, AnnouncedOnFailure DEF JobStep
<1>2. CASE Elsewhere
  BY <1>2, AnnouncedElsewhere
<1>3. ASSUME NEW e \in Entry,
             \/ \E status \in SaveStatus, queries \in SUBSET Query, links \in SUBSET Linked :
                  Save(e, status, queries, links)
             \/ PublishAtPasses(e)
      PROVE  Announced(p, c)' /\ LinksAnnounced(p, c)'
  BY <1>3, AnnouncedOnSave
<1>4. ASSUME NEW e \in Entry, EnqueueFails(e)
      PROVE  Announced(p, c)' /\ LinksAnnounced(p, c)'
  BY <1>4, AnnouncedOnEnqueue
<1>5. ASSUME NEW x \in Source, InvalidateFails(x)
      PROVE  Announced(p, c)' /\ LinksAnnounced(p, c)'
  BY <1>5, AnnouncedOnInvalidate
<1>6. CASE Restart
  BY <1>6, AnnouncedOnRestart
<1>7. ASSUME NEW r \in Reader, ReaderStep(r) \/ StoreFails(r) \/ \E q \in Page : Miss(r, q)
      PROVE  Elsewhere
  BY <1>7 DEF ReaderStep, Render, Store, StoreFails, Miss, Elsewhere, site, pipeline
<1>8. ASSUME NEW k \in Key, InvalidateByKey(k) PROVE Elsewhere
  BY <1>8 DEF InvalidateByKey, Elsewhere, site, pipeline
<1>9. CASE UNCHANGED vars
  BY <1>2, <1>9 DEF vars, Elsewhere, site, pipeline
<1>10. ASSUME NEW e \in Entry, NEW job \in Job, JobFails(job, e)
       PROVE  Announced(p, c)' /\ LinksAnnounced(p, c)'
  BY <1>10, AnnouncedOnFailure
<1> QED
  BY <1>1, <1>2, <1>3, <1>4, <1>5, <1>6, <1>7, <1>8, <1>9, <1>10 DEF Next

-----------------------------------------------------------------------------
(* What the steps do to the rows and to the requests.                      *)

RowType == [present: BOOLEAN, content: ContentSet, late: BOOLEAN]
RequestType == [pc: {"idle", "missed", "gzip", "raw"}, page: Page \cup {Index},
                content: ContentSet, late: BOOLEAN]

LEMMA EmptyTyped ==
  /\ NoPage \in ContentSet
  /\ NoRow \in RowType /\ ~NoRow.present
  /\ NoRequest \in RequestType /\ NoRequest.pc = "idle"
BY DEF NoPage, NoRow, NoRequest, RowType, RequestType, ContentSet

LEMMA PagesTyped ==
  ASSUME TypeOK
  PROVE  /\ \A k \in Key : k[1] \in AnyPage /\ k[2] \in Encoding /\ k = <<k[1], k[2]>>
         /\ \A r \in Reader : reader[r].page \in AnyPage
<1>1. \A k \in Key : k[1] \in AnyPage /\ k[2] \in Encoding /\ k = <<k[1], k[2]>>
  BY PagesExist DEF Key
<1>2. \A r \in Reader : reader[r].page \in Page \cup {Index}
  BY DEF TypeOK
<1> QED
  BY <1>1, <1>2, PagesExist DEF AnyPage

\* The tables after a deletion
LEMMA Deleted ==
  ASSUME TypeOK, NEW K \in SUBSET Key, DeleteKeys(K)
  PROVE  /\ cache' \in [Key -> RowType]
         /\ relation' \subseteq Key \X Source
         /\ \A k \in Key : cache'[k] = IF k \in K THEN NoRow ELSE cache[k]
         /\ \A k \in Key, s \in Source :
              <<k, s>> \in relation' <=> <<k, s>> \in relation /\ k \notin K
BY EmptyTyped DEF DeleteKeys, TypeOK, RowType

LEMMA DeletedRelated ==
  ASSUME TypeOK, CacheRelated, NEW K \in SUBSET Key, DeleteKeys(K)
  PROVE  CacheRelated'
<1>1. SUFFICES ASSUME NEW k \in Key
      PROVE  /\ cache'[k].present => Declared(k[1], cache'[k].content) # {}
             /\ {s \in Source : <<k, s>> \in relation'} =
                  IF cache'[k].present THEN Declared(k[1], cache'[k].content) ELSE {}
  BY DEF CacheRelated
<1>2. CASE k \in K
  BY <1>2, Deleted, EmptyTyped
<1>3. CASE k \notin K
  BY <1>3, Deleted DEF CacheRelated
<1> QED
  BY <1>2, <1>3

\* A row that a step leaves behind was there before, and then the step did not
\* invalidate it, or it is the one a request had rendered
LEMMA RowsWritten ==
  ASSUME TypeOK, CacheRelated, RenderedWell, [Next]_vars, NEW k \in Key, cache'[k].present
  PROVE  \/ /\ cache'[k] = cache[k]
            /\ \A x \in Source : Invalidate(x) => x \notin Declared(k[1], cache[k].content)
         \/ /\ Elsewhere
            /\ \E r \in Reader : /\ reader[r].pc \in Encoding /\ reader[r].page = k[1]
                                 /\ cache'[k].content = reader[r].content
                                 /\ cache'[k].late = reader[r].late
<1>1. ASSUME NEW K \in SUBSET Key, DeleteKeys(K) PROVE cache'[k] = cache[k] /\ k \notin K
  BY <1>1, Deleted, EmptyTyped
<1>2. \A x \in Source : Invalidate(x) => k \notin KeysOf(x)
  <2>1. \A x \in Source : KeysOf(x) \in SUBSET Key
    BY DEF KeysOf
  <2> QED
    BY <1>1, <2>1 DEF Invalidate, InvalidateBySourceID
<1>3. cache'[k] = cache[k] =>
        \A x \in Source : Invalidate(x) => x \notin Declared(k[1], cache[k].content)
  BY <1>2 DEF KeysOf, CacheRelated
<1>4. ASSUME NEW r \in Reader, Store(r), cache'[k] # cache[k]
      PROVE  /\ Elsewhere
             /\ reader[r].pc \in Encoding /\ reader[r].page = k[1]
             /\ cache'[k].content = reader[r].content
             /\ cache'[k].late = reader[r].late
  <2> DEFINE j == <<reader[r].page, reader[r].pc>>
             row == [present |-> TRUE, content |-> reader[r].content, late |-> reader[r].late]
  <2>1. cache' = [cache EXCEPT ![j] = row] /\ reader[r].pc \in Encoding /\ Elsewhere
    BY <1>4 DEF Store, Set, Elsewhere, site, pipeline
  <2>2. j \in Key
    BY <2>1 DEF RenderedWell, Key, Encoding
  <2>3. k = j /\ cache'[k] = row
    BY <1>4, <2>1, <2>2 DEF TypeOK
  <2> QED
    BY <2>1, <2>3
<1>5. CASE \E r \in Reader : Store(r)
  BY <1>3, <1>4, <1>5
<1>6. CASE cache' = cache
  BY <1>3, <1>6
<1>7. CASE \E x \in Source : Invalidate(x)
  <2>1. \A x \in Source : KeysOf(x) \in SUBSET Key
    BY DEF KeysOf
  <2> QED
    BY <1>1, <1>3, <1>7, <2>1 DEF Invalidate, InvalidateBySourceID
<1>8. CASE \E j \in Key : InvalidateByKey(j)
  BY <1>1, <1>3, <1>8 DEF InvalidateByKey
<1>9. CASE Restart
  <2>1. PICK truncate \in BOOLEAN : DeleteKeys(IF truncate THEN Key ELSE {})
    BY <1>9 DEF Restart
  <2> QED
    BY <1>1, <1>3, <2>1
<1>10. cache' = cache \/ \/ \E r \in Reader : Store(r)
                         \/ \E x \in Source : Invalidate(x)
                         \/ \E j \in Key : InvalidateByKey(j)
                         \/ Restart
  BY DEF Next, JobStep, ReaderStep, EnqueuePublishedEntryJobs, UpdateTrackbacks, FinalizeEntry,
         Complete, Render, StoreFails, Miss, Save, PublishAtPasses, EnqueueFails, InvalidateFails,
         JobFails, DependencyFails,
         stored, vars
<1> QED
  BY <1>5, <1>6, <1>7, <1>8, <1>9, <1>10

\* A request that holds a page after a step held it before, and is late if the
\* step invalidated the page, or it has just rendered the page
LEMMA RequestsRendered ==
  ASSUME TypeOK, RenderedWell, [Next]_vars, NEW r \in Reader, reader'[r].pc \in Encoding
  PROVE  \/ /\ reader[r].pc \in Encoding
            /\ reader'[r].page = reader[r].page /\ reader'[r].content = reader[r].content
            /\ reader[r].late => reader'[r].late
            /\ \A x \in Source : /\ Invalidate(x)
                                 /\ x \in Declared(reader[r].page, reader[r].content)
                                 => reader'[r].late
         \/ /\ Elsewhere
            /\ reader[r].page \in Page /\ reader'[r].page = reader[r].page
            /\ reader'[r].content = Content(reader[r].page)
            /\ Answered(reader[r].page)
            /\ Declared(reader[r].page, Content(reader[r].page)) # {}
<1> DEFINE Held == /\ reader[r].pc \in Encoding
                   /\ reader'[r].page = reader[r].page /\ reader'[r].content = reader[r].content
                   /\ reader[r].late => reader'[r].late
<1>1. \A x \in Source : Invalidate(x) => reader'[r] = [reader[r] EXCEPT !.late = @ \/ Holds(r, x)]
  BY DEF Invalidate, InvalidateBySourceID
<1>2. ASSUME Held, NEW x \in Source, Invalidate(x),
             x \in Declared(reader[r].page, reader[r].content)
      PROVE  reader'[r].late
  <2>1. Holds(r, x)
    BY <1>2 DEF Holds, Encoding
  <2> QED
    BY <1>1, <1>2, <2>1 DEF TypeOK
<1>3. CASE reader' = reader
  BY <1>2, <1>3
<1>4. CASE \E x \in Source : Invalidate(x)
  <2>1. Held
    BY <1>1, <1>4 DEF TypeOK
  <2> QED
    BY <1>2, <2>1
<1>5. ASSUME NEW q \in Reader, Stored(q) PROVE Held
  BY <1>5, EmptyTyped DEF Stored, TypeOK, Encoding
<1>6. ASSUME NEW q \in Reader, NEW p \in Page, Miss(q, p) PROVE Held
  BY <1>6 DEF Miss, NoRequest, TypeOK, Encoding
<1>7. ASSUME NEW q \in Reader, Render(q), q # r PROVE Held
  BY <1>7 DEF Render, TypeOK
<1>8. ASSUME Render(r)
      PROVE  /\ Elsewhere
             /\ reader[r].page \in Page /\ reader'[r].page = reader[r].page
             /\ reader'[r].content = Content(reader[r].page)
             /\ Answered(reader[r].page)
             /\ Declared(reader[r].page, Content(reader[r].page)) # {}
  <2>1. Answered(reader[r].page) /\ Declared(reader[r].page, Content(reader[r].page)) # {}
    BY <1>8, EmptyTyped DEF Render, TypeOK, Encoding
  <2>2. reader'[r] = [reader[r] EXCEPT !.pc = "gzip", !.content = Content(reader[r].page)]
    BY <1>8, <2>1 DEF Render, TypeOK
  <2>3. reader'[r].page = reader[r].page /\ reader'[r].content = Content(reader[r].page)
    BY <2>2 DEF TypeOK
  <2> QED
    BY <1>8, <2>1, <2>3 DEF Render, Elsewhere, RenderedWell, site, pipeline
<1>9. ~Restart
  BY EmptyTyped DEF Restart, Encoding
<1>10. \/ reader' = reader
       \/ \E x \in Source : Invalidate(x)
       \/ \E q \in Reader : Stored(q) \/ Render(q) \/ \E p \in Page : Miss(q, p)
  BY <1>9 DEF Next, JobStep, ReaderStep, EnqueuePublishedEntryJobs, UpdateTrackbacks, FinalizeEntry,
         Complete, Store, StoreFails, Save, PublishAtPasses, EnqueueFails, InvalidateFails,
         JobFails, DependencyFails,
         InvalidateByKey, vars
<1> QED
  BY <1>2, <1>3, <1>4, <1>5, <1>6, <1>7, <1>8, <1>10

-----------------------------------------------------------------------------
(* The parts of the inductive invariant, one after the other.              *)

LEMMA IdleTyped == Idle \in [job: Job \cup {"none"}, entry: Entry, todo: SUBSET Source]
<1>1. (CHOOSE e \in Entry : TRUE) \in Entry
  BY PagesExist
<1> QED
  BY <1>1 DEF Idle

LEMMA SourcesTyped ==
  ASSUME TypeOK, NEW e \in Entry
  PROVE  /\ LinkTargets(e) \subseteq Entry
         /\ {OfEntry(t) : t \in LinkTargets(e)} \subseteq Source
         /\ FinalizeSources(e) \subseteq Source
<1>1. entries[e].links \subseteq Entry /\ entries[e].queries \subseteq Query
  BY DEF TypeOK
<1> QED
  BY <1>1 DEF LinkTargets, FinalizeSources, Source

LEMMA TypeOfJobs ==
  ASSUME TypeOK, NEW e \in Entry,
         \/ EnqueuePublishedEntryJobs(e) \/ EnqueueFails(e)
         \/ UpdateTrackbacks(e) \/ FinalizeEntry(e)
         \/ DependencyFails(e) \/ \E job \in Job : JobFails(job, e)
  PROVE  TypeOK'
<1>1. CASE EnqueuePublishedEntryJobs(e)
  BY <1>1 DEF EnqueuePublishedEntryJobs, TypeOK, site, stored
<1>2. CASE EnqueueFails(e)
  <2>1. faults' \in 0 .. MaxFaults
    BY <1>2, BoundsAreNaturals DEF EnqueueFails, TypeOK
  <2>2. PICK sent \in {{}, {"UpdateTrackbacks"}} :
          /\ due' = [due EXCEPT ![e] = @ \cup sent]
          /\ silent' = silent \cup ((Job \ sent) \X {e})
    BY <1>2 DEF EnqueueFails
  <2>3. /\ due' \in [Entry -> SUBSET Job] /\ silent' \subseteq Job \X Entry
        /\ failed' \subseteq Entry
    BY <1>2, <2>2 DEF EnqueueFails, TypeOK, Job
  <2> QED
    BY <1>2, <2>1, <2>3 DEF EnqueueFails, TypeOK, site, stored
<1>3. CASE UpdateTrackbacks(e)
  <2>1. /\ due' = [due EXCEPT ![e] = @ \ {"UpdateTrackbacks"}]
        /\ worker' = [job |-> "UpdateTrackbacks", entry |-> e,
                      todo |-> {OfEntry(t) : t \in LinkTargets(e)}]
        /\ silent' \subseteq silent
        /\ trackbacks' = {x \in trackbacks : x[2] # e} \cup (LinkTargets(e) \X {e})
        /\ UNCHANGED <<entries, saves, unsent, failed, stored, reader, faults>>
    BY <1>3 DEF UpdateTrackbacks, Start
  <2>2. worker' \in [job: Job \cup {"none"}, entry: Entry, todo: SUBSET Source]
    BY <2>1, SourcesTyped DEF Job
  <2>3. trackbacks' \subseteq Entry \X Entry
    BY <2>1, SourcesTyped DEF TypeOK
  <2> QED
    BY <2>1, <2>2, <2>3 DEF TypeOK, stored
<1>4. CASE FinalizeEntry(e)
  <2>1. /\ due' = [due EXCEPT ![e] = @ \ {"FinalizeEntry"}]
        /\ worker' = [job |-> "FinalizeEntry", entry |-> e, todo |-> FinalizeSources(e)]
        /\ silent' \subseteq silent
        /\ UNCHANGED <<site, unsent, failed, stored, reader, faults>>
    BY <1>4 DEF FinalizeEntry, Start
  <2>2. worker' \in [job: Job \cup {"none"}, entry: Entry, todo: SUBSET Source]
    BY <2>1, SourcesTyped DEF Job
  <2> QED
    BY <2>1, <2>2 DEF TypeOK, stored, site
<1>5. CASE DependencyFails(e)
  BY <1>5 DEF DependencyFails, TypeOK, Job, stored, site
<1>6. ASSUME NEW job \in Job, JobFails(job, e) PROVE TypeOK'
  <2>1. faults' \in 0 .. MaxFaults
    BY <1>6, BoundsAreNaturals DEF JobFails, TypeOK
  <2> QED
    BY <1>6, <2>1 DEF JobFails, TypeOK, stored, site
<1> QED
  BY <1>1, <1>2, <1>3, <1>4, <1>5, <1>6

LEMMA TypeOfWorker ==
  ASSUME TypeOK, IdleIsIdle,
         \/ \E s \in Source : Invalidate(s) \/ InvalidateFails(s)
         \/ Complete \/ Restart
  PROVE  TypeOK'
<1>1. ASSUME NEW s \in Source, Invalidate(s) PROVE TypeOK'
  <2>1. KeysOf(s) \in SUBSET Key /\ DeleteKeys(KeysOf(s))
    BY <1>1 DEF KeysOf, Invalidate, InvalidateBySourceID
  <2>2. cache' \in [Key -> RowType] /\ relation' \subseteq Key \X Source
    BY <2>1, Deleted
  <2>3. \A r \in Reader : /\ reader[r] \in RequestType
                          /\ (reader[r].late \/ Holds(r, s)) \in BOOLEAN
    BY DEF TypeOK, RequestType, Holds
  <2>4. reader' = [r \in Reader |-> [reader[r] EXCEPT !.late = @ \/ Holds(r, s)]]
    BY <1>1 DEF Invalidate, InvalidateBySourceID
  <2>5. \A r \in Reader : [reader[r] EXCEPT !.late = reader[r].late \/ Holds(r, s)] \in RequestType
    <3>1. ASSUME NEW x \in RequestType, NEW b \in BOOLEAN PROVE [x EXCEPT !.late = b] \in RequestType
      BY DEF RequestType
    <3> QED
      BY <2>3, <3>1
  <2>6. reader' \in [Reader -> RequestType]
    BY <2>4, <2>5
  <2>7. worker' \in [job: Job \cup {"none"}, entry: Entry, todo: SUBSET Source]
    BY <1>1 DEF Invalidate, TypeOK
  <2> QED
    BY <1>1, <2>2, <2>6, <2>7 DEF Invalidate, TypeOK, RowType, RequestType, site
<1>2. ASSUME NEW s \in Source, InvalidateFails(s) PROVE TypeOK'
  <2>1. faults' \in 0 .. MaxFaults
    BY <1>2, BoundsAreNaturals DEF InvalidateFails, TypeOK
  <2>2. <<worker.job, worker.entry>> \in Job \X Entry
    BY <1>2 DEF InvalidateFails, IdleIsIdle, Idle, TypeOK
  <2> QED
    BY <1>2, <2>1, <2>2 DEF InvalidateFails, TypeOK, site, stored
<1>3. CASE Complete
  BY <1>3, IdleTyped DEF Complete, TypeOK, site, stored
<1>4. CASE Restart
  <2>1. faults' \in 0 .. MaxFaults
    BY <1>4, BoundsAreNaturals DEF Restart, TypeOK
  <2>2. PICK truncate \in BOOLEAN : DeleteKeys(IF truncate THEN Key ELSE {})
    BY <1>4 DEF Restart
  <2>3. cache' \in [Key -> RowType] /\ relation' \subseteq Key \X Source
    BY <2>2, Deleted
  <2>4. reader' \in [Reader -> RequestType]
    BY <1>4, EmptyTyped DEF Restart
  <2>5. due' \in [Entry -> SUBSET Job]
    BY <1>4 DEF Restart, TypeOK, IdleIsIdle
  <2>6. silent' \subseteq Job \X Entry
    BY <1>4 DEF Restart, TypeOK
  <2> QED
    BY <1>4, <2>1, <2>3, <2>4, <2>5, <2>6, IdleTyped DEF Restart, TypeOK, RowType, RequestType, site
<1> QED
  BY <1>1, <1>2, <1>3, <1>4

LEMMA TypeOfEntries ==
  ASSUME TypeOK, NEW e \in Entry,
         \/ \E status \in SaveStatus, queries \in SUBSET Query, links \in SUBSET Linked :
              Save(e, status, queries, links)
         \/ PublishAtPasses(e)
  PROVE  TypeOK'
<1>1. ASSUME NEW status \in SaveStatus, NEW queries \in SUBSET Query, NEW links \in SUBSET Linked,
             Save(e, status, queries, links)
      PROVE  TypeOK'
  <2>1. saves' \in Time /\ saves + 1 \in Time
    BY <1>1, BoundsAreNaturals DEF Save, TypeOK, Time
  <2>2. /\ entries' = [entries EXCEPT ![e] = [status |-> status, queries |-> queries,
                                              links |-> links, modified |-> saves + 1]]
        /\ unsent' \subseteq Entry /\ silent' \subseteq Job \X Entry
        /\ UNCHANGED <<trackbacks, due, failed, worker, stored, reader, faults>>
    BY <1>1 DEF Save, TypeOK
  <2>3. entries' \in [Entry -> [status: {"unpublished", "public", "delayed", "withdrawn"},
                                queries: SUBSET Query, links: SUBSET Entry, modified: Time]]
    BY <2>1, <2>2, StatusesOfSave, PagesExist DEF TypeOK
  <2> QED
    BY <2>1, <2>2, <2>3 DEF TypeOK, stored
<1>2. CASE PublishAtPasses(e)
  <2>1. entries' \in [Entry -> [status: {"unpublished", "public", "delayed", "withdrawn"},
                                queries: SUBSET Query, links: SUBSET Entry, modified: Time]]
    <3> DEFINE EntryType == [status: {"unpublished", "public", "delayed", "withdrawn"},
                             queries: SUBSET Query, links: SUBSET Entry, modified: Time]
    <3>1. entries \in [Entry -> EntryType]
      BY DEF TypeOK
    <3>2. entries' = [entries EXCEPT ![e] = [entries[e] EXCEPT !.status = "public"]]
      BY <1>2 DEF PublishAtPasses
    <3>3. [entries[e] EXCEPT !.status = "public"] \in EntryType
      BY <3>1
    <3> HIDE DEF EntryType
    <3>4. entries' \in [Entry -> EntryType]
      BY <3>1, <3>2, <3>3
    <3> QED
      BY <3>4 DEF EntryType
  <2>2. silent' \subseteq Job \X Entry
    BY <1>2 DEF PublishAtPasses, TypeOK, Job
  <2> QED
    BY <1>2, <2>1, <2>2 DEF PublishAtPasses, TypeOK, pipeline, stored
<1> QED
  BY <1>1, <1>2

\* The tables after a row was stored
LEMMA StoreWrites ==
  ASSUME TypeOK, RenderedWell, NEW r \in Reader, Store(r)
  PROVE  \E k \in Key :
           /\ k = <<reader[r].page, reader[r].pc>>
           /\ cache'[k] = [present |-> TRUE, content |-> reader[r].content, late |-> reader[r].late]
           /\ \A j \in Key : j # k => cache'[j] = cache[j]
           /\ relation' = {x \in relation : x[1] # k}
                            \cup {<<k, s>> : s \in Declared(k[1], reader[r].content)}
           /\ Declared(k[1], reader[r].content) \subseteq Source
           /\ Declared(k[1], reader[r].content) # {}
<1> DEFINE k == <<reader[r].page, reader[r].pc>>
<1>1. /\ reader[r].pc \in Encoding
      /\ cache' = [cache EXCEPT ![k] = [present |-> TRUE, content |-> reader[r].content,
                                        late |-> reader[r].late]]
      /\ relation' = {x \in relation : x[1] # k}
                       \cup {<<k, s>> : s \in Declared(k[1], reader[r].content)}
  BY DEF Store, Set
<1>2. k \in Key
  BY <1>1 DEF RenderedWell, Key, Encoding
<1>3. reader[r].content \in ContentSet
  BY DEF TypeOK
<1>4. Declared(k[1], reader[r].content) # {}
  BY <1>1 DEF RenderedWell, Fits
<1> QED
  BY <1>1, <1>2, <1>3, <1>4, DeclaredTyped DEF TypeOK

LEMMA TypeOfRequests ==
  ASSUME TypeOK, RenderedWell, NEW r \in Reader,
         ReaderStep(r) \/ StoreFails(r) \/ \E p \in Page : Miss(r, p)
  PROVE  TypeOK'
<1>1. CASE Render(r)
  <2>1. Content(reader[r].page) \in ContentSet
    BY ContentTyped
  <2>2. reader[r] \in RequestType
    BY DEF TypeOK, RequestType
  <2>3. [reader[r] EXCEPT !.pc = "gzip", !.content = Content(reader[r].page)] \in RequestType
    BY <2>1, <2>2 DEF RequestType
  <2>4. reader' \in [Reader -> RequestType]
    BY <1>1, <2>3, EmptyTyped DEF Render, TypeOK, RequestType
  <2> QED
    BY <1>1, <2>4 DEF Render, TypeOK, RequestType, site, pipeline, stored
<1>2. ASSUME Stored(r) PROVE reader' \in [Reader -> RequestType]
  BY <1>2, EmptyTyped DEF Stored, TypeOK, RequestType
<1>3. CASE Store(r)
  <2>1. cache' \in [Key -> [present: BOOLEAN, content: ContentSet, late: BOOLEAN]]
    BY <1>3 DEF Store, Set, TypeOK
  <2>2. relation' \subseteq Key \X Source
    <3>1. PICK k \in Key :
            /\ relation' = {x \in relation : x[1] # k}
                             \cup {<<k, s>> : s \in Declared(k[1], reader[r].content)}
            /\ Declared(k[1], reader[r].content) \subseteq Source
      BY <1>3, StoreWrites
    <3> QED
      BY <3>1 DEF TypeOK
  <2> QED
    BY <1>2, <1>3, <2>1, <2>2 DEF Store, TypeOK, RequestType, site, pipeline
<1>4. CASE StoreFails(r)
  BY <1>2, <1>4 DEF StoreFails, TypeOK, RequestType, site, pipeline, stored
<1>5. ASSUME NEW p \in Page, Miss(r, p) PROVE TypeOK'
  <2>1. [NoRequest EXCEPT !.pc = "missed", !.page = p] \in RequestType
    BY EmptyTyped DEF RequestType
  <2>2. reader' \in [Reader -> RequestType]
    BY <1>5, <2>1 DEF Miss, TypeOK, RequestType
  <2> QED
    BY <1>5, <2>2 DEF Miss, TypeOK, RequestType, site, pipeline, stored
<1> QED
  BY <1>1, <1>3, <1>4, <1>5 DEF ReaderStep

LEMMA TypeStep ==
  ASSUME TypeOK, IdleIsIdle, RenderedWell, [Next]_vars
  PROVE  TypeOK'
<1>1. ASSUME NEW k \in Key, InvalidateByKey(k) PROVE TypeOK'
  <2>1. cache' \in [Key -> RowType] /\ relation' \subseteq Key \X Source
    BY <1>1, Deleted DEF InvalidateByKey
  <2> QED
    BY <1>1, <2>1 DEF InvalidateByKey, TypeOK, RowType, site, pipeline
<1>2. CASE UNCHANGED vars
  BY <1>2 DEF vars, TypeOK
<1> QED
  BY <1>1, <1>2, TypeOfJobs, TypeOfWorker, TypeOfEntries, TypeOfRequests DEF Next, JobStep

LEMMA IdleStep ==
  ASSUME IdleIsIdle, [Next]_vars
  PROVE  IdleIsIdle'
<1>1. CASE UNCHANGED worker
  BY <1>1 DEF IdleIsIdle
<1>2. ASSUME NEW e \in Entry, UpdateTrackbacks(e) \/ FinalizeEntry(e) PROVE IdleIsIdle'
  <2>1. worker'.job \in Job
    BY <1>2 DEF UpdateTrackbacks, FinalizeEntry, Start, Job
  <2> QED
    BY <2>1 DEF IdleIsIdle, Job
<1>3. ASSUME NEW s \in Source, Invalidate(s) \/ InvalidateFails(s) PROVE IdleIsIdle'
  <2>1. worker.job # "none" /\ worker' = [worker EXCEPT !.todo = @ \ {s}]
    BY <1>3 DEF Invalidate, InvalidateFails, IdleIsIdle, Idle
  <2>2. worker'.job = worker.job
    BY <2>1
  <2> QED
    BY <2>1, <2>2 DEF IdleIsIdle
<1>4. CASE Complete \/ Restart
  BY <1>4 DEF Complete, Restart, IdleIsIdle
<1>5. \/ UNCHANGED worker
      \/ \E e \in Entry : UpdateTrackbacks(e) \/ FinalizeEntry(e)
      \/ \E s \in Source : Invalidate(s) \/ InvalidateFails(s)
      \/ Complete \/ Restart
  BY DEF Next, JobStep, ReaderStep, EnqueuePublishedEntryJobs, Render, Store, StoreFails, Miss,
         Save, PublishAtPasses, EnqueueFails, JobFails, DependencyFails, InvalidateByKey, pipeline, vars
<1> QED
  BY <1>1, <1>2, <1>3, <1>4, <1>5

\* Storing a row replaces the relations of its key
LEMMA StoreRelated ==
  ASSUME TypeOK, CacheRelated, RenderedWell, NEW r \in Reader, Store(r)
  PROVE  CacheRelated'
<1>1. PICK k \in Key :
        /\ k = <<reader[r].page, reader[r].pc>>
        /\ cache'[k] = [present |-> TRUE, content |-> reader[r].content, late |-> reader[r].late]
        /\ \A j \in Key : j # k => cache'[j] = cache[j]
        /\ relation' = {x \in relation : x[1] # k}
                         \cup {<<k, s>> : s \in Declared(k[1], reader[r].content)}
        /\ Declared(k[1], reader[r].content) \subseteq Source
        /\ Declared(k[1], reader[r].content) # {}
  BY StoreWrites
<1>2. SUFFICES ASSUME NEW j \in Key
      PROVE  /\ cache'[j].present => Declared(j[1], cache'[j].content) # {}
             /\ {s \in Source : <<j, s>> \in relation'} =
                  IF cache'[j].present THEN Declared(j[1], cache'[j].content) ELSE {}
  BY DEF CacheRelated
<1>3. CASE j = k
  <2>1. \A s \in Source : <<j, s>> \in relation' <=> s \in Declared(k[1], reader[r].content)
    BY <1>1, <1>3
  <2> QED
    BY <1>1, <1>3, <2>1
<1>4. CASE j # k
  <2>1. \A s \in Source : <<j, s>> \in relation' <=> <<j, s>> \in relation
    BY <1>1, <1>4
  <2> QED
    BY <1>1, <1>4, <2>1 DEF CacheRelated
<1> QED
  BY <1>3, <1>4

LEMMA RelatedStep ==
  ASSUME TypeOK, CacheRelated, RenderedWell, [Next]_vars
  PROVE  CacheRelated'
<1>1. CASE UNCHANGED stored
  BY <1>1 DEF CacheRelated, stored
<1>2. ASSUME NEW s \in Source, Invalidate(s) PROVE CacheRelated'
  <2>1. KeysOf(s) \in SUBSET Key
    BY DEF KeysOf
  <2> QED
    BY <1>2, <2>1, DeletedRelated DEF Invalidate, InvalidateBySourceID
<1>3. ASSUME NEW k \in Key, InvalidateByKey(k) PROVE CacheRelated'
  BY <1>3, DeletedRelated DEF InvalidateByKey
<1>4. CASE Restart
  BY <1>4, DeletedRelated DEF Restart
<1>5. ASSUME NEW r \in Reader, Store(r) PROVE CacheRelated'
  BY <1>5, StoreRelated
<1>6. \/ UNCHANGED stored
      \/ \E s \in Source : Invalidate(s)
      \/ \E k \in Key : InvalidateByKey(k)
      \/ Restart
      \/ \E r \in Reader : Store(r)
  BY DEF Next, JobStep, ReaderStep, EnqueuePublishedEntryJobs, UpdateTrackbacks, FinalizeEntry,
         Complete, Render, StoreFails, Miss, Save, PublishAtPasses, EnqueueFails, InvalidateFails,
         JobFails, DependencyFails,
         stored, vars
<1> QED
  BY <1>1, <1>2, <1>3, <1>4, <1>5, <1>6

\* A page that has just been rendered registers itself
LEMMA FreshFits ==
  ASSUME TypeOK, NEW p, Answered(p), Declared(p, Content(p)) # {}
  PROVE  Fits(p, Content(p))
<1>1. ASSUME NEW e \in Entry, p = OfEntry(e)
      PROVE  Content(p).listed = {<<e, entries[e].modified>>}
  <2>1. e \in ListedOn(p)
    BY <1>1 DEF Answered, ListedOn
  <2>2. \A f \in ListedOn(p) : f = e
    BY <1>1, PagesDiffer DEF ListedOn, TypeOK
  <2>3. ListedOn(p) = {e}
    BY <2>1, <2>2
  <2> QED
    BY <2>3 DEF Content, AsShown
<1>2. ASSUME NEW e \in Entry, p = OfEntry(e)
      PROVE  Content(p).listed # {} /\ \A x \in Content(p).listed : x[1] = e
  <2>1. Content(p).listed = {<<e, entries[e].modified>>}
    BY <1>1, <1>2
  <2> QED
    BY <2>1
<1> QED
  BY <1>2 DEF Fits

LEMMA RenderedWellStep ==
  ASSUME TypeOK, CacheRelated, RenderedWell, [Next]_vars
  PROVE  RenderedWell'
<1>1. ASSUME NEW k \in Key, cache'[k].present PROVE Fits(k[1], cache'[k].content)
  BY <1>1, RowsWritten DEF RenderedWell
<1>2. ASSUME NEW r \in Reader, reader'[r].pc \in Encoding
      PROVE  Fits(reader'[r].page, reader'[r].content)
  BY <1>2, RequestsRendered, FreshFits DEF RenderedWell
<1>3. ASSUME NEW r \in Reader, reader'[r].pc # "idle" PROVE reader'[r].page \in Page
  <2>1. CASE reader'[r].pc \in Encoding
    BY <2>1, RequestsRendered DEF RenderedWell, Encoding
  <2>2. ASSUME NEW q \in Reader, NEW p \in Page, Miss(q, p) PROVE reader'[r].page \in Page
    <3>1. CASE q = r
      <4>1. reader'[r] = [NoRequest EXCEPT !.pc = "missed", !.page = p]
        BY <2>2, <3>1 DEF Miss, TypeOK
      <4> QED
        BY <4>1 DEF NoRequest
    <3>2. CASE q # r
      BY <1>3, <2>2, <3>2 DEF Miss, RenderedWell, TypeOK
    <3> QED
      BY <3>1, <3>2
  <2>3. ASSUME NEW q \in Reader, Render(q) \/ Stored(q) PROVE reader'[r].page \in Page
    <3>1. CASE q = r
      <4>1. CASE Render(q)
        BY <1>3, <2>1, <3>1, <4>1, EmptyTyped DEF Render, TypeOK, Encoding
      <4>2. CASE Stored(q)
        BY <1>3, <2>1, <3>1, <4>2, EmptyTyped DEF Stored, TypeOK, Encoding
      <4> QED
        BY <2>3, <4>1, <4>2
    <3>2. CASE q # r
      BY <1>3, <2>3, <3>2 DEF Render, Stored, RenderedWell, TypeOK
    <3> QED
      BY <3>1, <3>2
  <2>4. ASSUME NEW s \in Source, Invalidate(s) PROVE reader'[r].page \in Page
    <3>1. reader'[r] = [reader[r] EXCEPT !.late = @ \/ Holds(r, s)]
      BY <2>4 DEF Invalidate, InvalidateBySourceID
    <3>2. reader'[r].pc = reader[r].pc /\ reader'[r].page = reader[r].page
      BY <3>1 DEF TypeOK
    <3> QED
      BY <1>3, <3>2 DEF RenderedWell
  <2>5. CASE Restart
    BY <1>3, <2>5 DEF Restart, NoRequest
  <2>6. CASE reader' = reader
    BY <1>3, <2>6 DEF RenderedWell
  <2>7. \/ reader' = reader
        \/ \E s \in Source : Invalidate(s)
        \/ \E q \in Reader : Stored(q) \/ Render(q) \/ \E p \in Page : Miss(q, p)
        \/ Restart
    BY DEF Next, JobStep, ReaderStep, EnqueuePublishedEntryJobs, UpdateTrackbacks, FinalizeEntry,
           Complete, Store, StoreFails, Save, PublishAtPasses, EnqueueFails, InvalidateFails,
         JobFails, DependencyFails,
           InvalidateByKey, vars
  <2> QED
    BY <2>2, <2>3, <2>4, <2>5, <2>6, <2>7
<1> QED
  BY <1>1, <1>2, <1>3 DEF RenderedWell

-----------------------------------------------------------------------------
(* What is announced of the pages that are stored and that are rendered,    *)
(* said page by page.                                                      *)

RowsAnnounced ==
  \A k \in Key, c \in ContentSet :
    cache[k].present /\ ~cache[k].late /\ cache[k].content = c =>
      Announced(k[1], c) /\ LinksAnnounced(k[1], c)

ReadersAnnounced ==
  \A r \in Reader, p \in AnyPage, c \in ContentSet :
    /\ reader[r].pc \in Encoding /\ ~reader[r].late
    /\ reader[r].page = p /\ reader[r].content = c
    => Announced(p, c) /\ LinksAnnounced(p, c)

LEMMA RowsSay ==
  TypeOK /\ CacheRelated => (RowsAnnounced <=> OutdatedIsAnnounced /\ TrackbackIsAnnounced)
<1> SUFFICES ASSUME TypeOK, CacheRelated
    PROVE  RowsAnnounced <=> OutdatedIsAnnounced /\ TrackbackIsAnnounced
  OBVIOUS
<1>1. \A k \in Key : cache[k].content \in ContentSet
  BY DEF TypeOK
<1>2. \A k \in Key : cache[k].present =>
        {s \in Source : <<k, s>> \in relation} = Declared(k[1], cache[k].content)
  BY DEF CacheRelated
<1>3. OutdatedIsAnnounced <=>
        \A k \in Key : cache[k].present /\ ~cache[k].late => Announced(k[1], cache[k].content)
  BY <1>2 DEF OutdatedIsAnnounced, Announced
<1>4. TrackbackIsAnnounced <=>
        \A k \in Key : cache[k].present /\ ~cache[k].late => LinksAnnounced(k[1], cache[k].content)
  BY DEF TrackbackIsAnnounced, LinksAnnounced
<1>5. RowsAnnounced <=>
        \A k \in Key : cache[k].present /\ ~cache[k].late =>
          Announced(k[1], cache[k].content) /\ LinksAnnounced(k[1], cache[k].content)
  BY <1>1 DEF RowsAnnounced
<1> QED
  BY <1>3, <1>4, <1>5

LEMMA ReadersSay ==
  TypeOK => (ReadersAnnounced <=> RenderedIsAnnounced /\ RenderedTrackbackIsAnnounced)
<1> SUFFICES ASSUME TypeOK
    PROVE  ReadersAnnounced <=> RenderedIsAnnounced /\ RenderedTrackbackIsAnnounced
  OBVIOUS
<1>1. \A r \in Reader : reader[r].content \in ContentSet /\ reader[r].page \in AnyPage
  BY PagesTyped DEF TypeOK
<1>2. RenderedIsAnnounced <=>
        \A r \in Reader : reader[r].pc \in Encoding /\ ~reader[r].late =>
          Announced(reader[r].page, reader[r].content)
  BY DEF RenderedIsAnnounced, Announced
<1>3. RenderedTrackbackIsAnnounced <=>
        \A r \in Reader : reader[r].pc \in Encoding /\ ~reader[r].late =>
          LinksAnnounced(reader[r].page, reader[r].content)
  BY DEF RenderedTrackbackIsAnnounced, LinksAnnounced
<1>4. ReadersAnnounced <=>
        \A r \in Reader : reader[r].pc \in Encoding /\ ~reader[r].late =>
          /\ Announced(reader[r].page, reader[r].content)
          /\ LinksAnnounced(reader[r].page, reader[r].content)
  BY <1>1 DEF ReadersAnnounced
<1> QED
  BY <1>2, <1>3, <1>4

\* A page that has just been rendered lacks nothing
LEMMA FreshAnnounced ==
  ASSUME TypeOK, NEW p, NEW c, c = Content(p), Answered(p)
  PROVE  Announced(p, c) /\ LinksAnnounced(p, c)
<1>1. Outdated(p, c) = {}
  BY DEF Outdated
<1>2. ASSUME NEW t \in Entry, NEW s \in Entry, p = OfEntry(t), <<t, s>> \in trackbacks
      PROVE  <<s, entries[s].modified>> \in AsShown({s}) \cap c.trackbacks
  <2>1. Visible(t)
    BY <1>2 DEF Answered
  <2> QED
    BY <1>2, <2>1 DEF Content, AsShown
<1> QED
  BY <1>1, <1>2 DEF Announced, LinksAnnounced

LEMMA RowsStep ==
  ASSUME TypeOK, IdleIsIdle, CacheRelated, RenderedWell, RowsAnnounced, ReadersAnnounced,
         [Next]_vars
  PROVE  RowsAnnounced'
<1>1. SUFFICES ASSUME NEW k \in Key, NEW c \in ContentSet,
                      cache'[k].present, ~cache'[k].late, cache'[k].content = c
      PROVE  Announced(k[1], c)' /\ LinksAnnounced(k[1], c)'
  BY DEF RowsAnnounced
<1>2. k[1] \in AnyPage
  BY PagesTyped
<1>3. CASE /\ cache'[k] = cache[k]
           /\ \A x \in Source : Invalidate(x) => x \notin Declared(k[1], cache[k].content)
  <2>1. Announced(k[1], c) /\ LinksAnnounced(k[1], c) /\ Fits(k[1], c)
    BY <1>1, <1>3 DEF RowsAnnounced, RenderedWell
  <2>2. \A x \in Source : Invalidate(x) => x \notin Declared(k[1], c)
    BY <1>1, <1>3
  <2> QED
    BY <1>2, <2>1, <2>2, AnnouncedStays
<1>4. CASE /\ Elsewhere
           /\ \E r \in Reader : /\ reader[r].pc \in Encoding /\ reader[r].page = k[1]
                                /\ cache'[k].content = reader[r].content
                                /\ cache'[k].late = reader[r].late
  <2>1. Announced(k[1], c) /\ LinksAnnounced(k[1], c)
    BY <1>1, <1>2, <1>4 DEF ReadersAnnounced
  <2> QED
    BY <1>4, <2>1, AnnouncedElsewhere
<1> QED
  BY <1>1, <1>3, <1>4, RowsWritten

LEMMA ReadersStep ==
  ASSUME TypeOK, IdleIsIdle, RenderedWell, ReadersAnnounced, [Next]_vars
  PROVE  ReadersAnnounced'
<1>1. SUFFICES ASSUME NEW r \in Reader, NEW p \in AnyPage, NEW c \in ContentSet,
                      reader'[r].pc \in Encoding, ~reader'[r].late,
                      reader'[r].page = p, reader'[r].content = c
      PROVE  Announced(p, c)' /\ LinksAnnounced(p, c)'
  BY DEF ReadersAnnounced
<1>2. CASE /\ reader[r].pc \in Encoding
           /\ reader'[r].page = reader[r].page /\ reader'[r].content = reader[r].content
           /\ reader[r].late => reader'[r].late
           /\ \A x \in Source : /\ Invalidate(x)
                                /\ x \in Declared(reader[r].page, reader[r].content)
                                => reader'[r].late
  <2>1. Announced(p, c) /\ LinksAnnounced(p, c) /\ Fits(p, c)
    BY <1>1, <1>2 DEF ReadersAnnounced, RenderedWell
  <2>2. \A x \in Source : Invalidate(x) => x \notin Declared(p, c)
    BY <1>1, <1>2
  <2> QED
    BY <2>1, <2>2, AnnouncedStays
<1>3. CASE /\ Elsewhere
           /\ reader'[r].page = reader[r].page
           /\ reader'[r].content = Content(reader[r].page)
           /\ Answered(reader[r].page)
  <2>1. c = Content(p) /\ Answered(p)
    BY <1>1, <1>3
  <2>2. Announced(p, c) /\ LinksAnnounced(p, c)
    BY <2>1, FreshAnnounced
  <2> QED
    BY <1>3, <2>2, AnnouncedElsewhere
<1> QED
  BY <1>1, <1>2, <1>3, RequestsRendered

-----------------------------------------------------------------------------
(* The theorems.                                                           *)

LEMMA InitIInv == Init => IInv
<1> SUFFICES ASSUME Init PROVE IInv
  OBVIOUS
<1> USE DEF Init
<1>1. TypeOK
  <2>1. cache \in [Key -> RowType] /\ reader \in [Reader -> RequestType]
    BY EmptyTyped
  <2>2. /\ entries \in [Entry -> [status: {"unpublished", "public", "delayed", "withdrawn"},
                                  queries: SUBSET Query, links: SUBSET Entry, modified: Time]]
        /\ saves \in Time /\ faults \in 0 .. MaxFaults
    BY BoundsAreNaturals DEF NewEntry, Time
  <2> QED
    BY <2>1, <2>2, IdleTyped DEF TypeOK, RowType, RequestType
<1>2. /\ \A k \in Key : ~cache[k].present
      /\ \A r \in Reader : reader[r].pc = "idle"
  BY EmptyTyped
<1>3. IdleIsIdle
  BY DEF IdleIsIdle
<1>4. CacheRelated
  BY <1>2 DEF CacheRelated
<1>5. RenderedWell /\ RenderedIsAnnounced /\ RenderedTrackbackIsAnnounced
  BY <1>2 DEF RenderedWell, RenderedIsAnnounced, RenderedTrackbackIsAnnounced, Encoding
<1>6. OutdatedIsAnnounced /\ TrackbackIsAnnounced
  BY <1>2 DEF OutdatedIsAnnounced, TrackbackIsAnnounced
<1> QED
  BY <1>1, <1>3, <1>4, <1>5, <1>6 DEF IInv

\* IInv with what is announced said page by page
PagewiseInv ==
  /\ TypeOK
  /\ IdleIsIdle
  /\ CacheRelated
  /\ RenderedWell
  /\ RowsAnnounced
  /\ ReadersAnnounced

LEMMA IInvPagewise == IInv <=> PagewiseInv
BY RowsSay, ReadersSay DEF IInv, PagewiseInv

LEMMA PagewiseStep == PagewiseInv /\ [Next]_vars => PagewiseInv'
BY TypeStep, IdleStep, RelatedStep, RenderedWellStep, RowsStep, ReadersStep DEF PagewiseInv

\* Every state the site can reach satisfies the inductive invariant: tables
\* that agree, and a job that will delete whatever page is outdated
THEOREM InductiveInvariant == Spec => []IInv
<1>1. Init => PagewiseInv
  BY InitIInv, IInvPagewise
<1> QED
  BY <1>1, PagewiseStep, IInvPagewise, PTL DEF Spec

\* All variables keep their types
THEOREM TypeCorrect == Spec => []TypeOK
BY InductiveInvariant, PTL DEF IInv

\* Rows and relations of the cache agree at all times: no row outlives every
\* invalidation for want of relations (page_cache.go Set, cache.sql triggers)
THEOREM RowsAndRelationsAgree == Spec => []CacheRelated
BY InductiveInvariant, PTL DEF IInv

\* A stored page that shows an entry otherwise than the site has it will be
\* deleted by FinalizeEntry of that entry, whatever the tags and dates, unless
\* an enqueue or an invalidation failed or the page was late
THEOREM OutdatedPagesAreAnnounced == Spec => []OutdatedIsAnnounced
BY InductiveInvariant, PTL DEF IInv

\* The same of the pages that requests hold between rendering and storing
THEOREM RenderedPagesAreAnnounced == Spec => []RenderedIsAnnounced
BY InductiveInvariant, PTL DEF IInv

\* A stored entry page that lacks a trackback will be deleted by the
\* UpdateTrackbacks that stored it
THEOREM TrackbacksAreAnnounced == Spec => []TrackbackIsAnnounced
BY InductiveInvariant, PTL DEF IInv
=============================================================================
