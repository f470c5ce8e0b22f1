# A TLA+ verification of Hanrangon

Hanrangon is a blog engine in Go: one server process with four SQLite
databases, a job queue in one of them, a page cache in another, and a Node
process that post-processes HTML. This directory holds TLA+ specifications of
its stateful parts, the TLC configurations that check them, and proofs for
TLAPS. `PROJECT.json` maps every definition to the source lines it stands for.

    tlc -config queue_single.cfg MCJobQueue      # check one run
    tlapm JobQueueProofs.tla                     # check one module of proofs

## 1. Inventory

### Components

| Component | State | Operations | Hard behaviour | What makes it correct |
| --- | --- | --- | --- | --- |
| Job queue (`backend/jobqueue/queue.go`, `db/query/worker.sql`) | table `jobs`; position of the worker loop, tick counter | enqueue with or without dependencies, find, grab, judge, execute, mark, recover, clean up, stop, restart | one statement at a time against concurrent enqueues; crashes and failing statements between any two; timeouts and retries; times compared across statements | a job is executed by one worker at a time, nothing enqueued is lost, every job is settled, retries are bounded |
| Job dependencies (`job.go`) | `depends_on` of a job | Evaluate, Merge | several enqueues of one job; parents cleaned up or failed | no handler before its parents, no ghost job, a merge runs no job earlier but where the code says so |
| Page cache (`app/page_cache.go`, `cache_service.go`, `schema/cache.sql`) | tables `cache`, `cache_relation`, the application hash | get, render and set (two variants), invalidate by key or source, truncate | renders that overlap saves and invalidations; two transactions per page; triggers that delete each other's rows | a cached page can always be invalidated by each of its sources; no page stays stale |
| Publish pipeline (`app.go` EnqueuePublishedEntryJobs, `jobs/*.go`) | four jobs per entry, in the queue | enqueue four jobs; recalculate, update trackbacks, index, finalize | partial enqueues, failed parents, swallowed errors | a public entry is indexed and its pages are invalidated in the end |
| Entry service (`entry_service.go`) | table `entries`: status, date, path, publish_at | SaveEntry, PublishScheduledEntries, CalculateNextPath | saves against the publisher; state read before a transaction; numbering | paths are unique and stable, scheduled entries become public once |
| Post-processing (`app.go` BatchProcessor) | the shared process, its sessions, flags, channels | get, process, retry, close, reader loop | concurrent requests, a process that dies or is closed under others | each request gets its own answer or an error; one broken process fails nobody; the reader never blocks |
| Progress sessions (`app.go`, `handler_admin.go`) | session map, message and error channels | create, report, stream, finish, clean up | timers that close a channel in use; slow or absent listeners | no send on a closed channel, the editor learns the outcome |
| TF-IDF index (`tfidf/*.go`, `jobs/recalculate_tfidf.go`) | `terms`, `postings`, weights, related entries | update, recalculate, relate, search | incremental counts over edits; promotion of terms at the second entry; a job beside the subcommand | what is done is indexed, counts agree with the texts, the search finds every holder |
| Image index (`jobs/index_images.go`, `image_similarity.go`) | images, signatures, n-grams, similarity cache, files | sync, fill, update the cache, collect garbage | partial failures, ids used again, pictures loaded outside of the transaction, a job beside the subcommands | rows agree with the bodies, the incremental cache is what a full search finds |
| Public navigation (`handler_public.go`, `entries.sql`) | none of its own: the visitor's place | index with older pages, categories, older links, archive | pages read while entries are published, withdrawn and retitled; cuts within a day | a walk to the end leaves no entry out and shows none twice |
| Server life cycle (`main.go`) | contexts, wait groups, listeners | start, stop | shutdown order, edits that go on while the server closes | every background task ends before the process |

Formatters, views, drawing, configuration, the Cloudflare client and the admin
frontend have no state worth a model; of storage, the subcommands, the HTTP
handlers and the generated queries only what the models above rest on is
modelled. `PROJECT.json` lists each with the reason.

### Interaction

The web server's goroutines call the entry service; after its transaction it
enqueues the four jobs of an entry. A goroutine with a one minute ticker
publishes scheduled entries and enqueues the same jobs. The worker, one
goroutine of the same process with a five second ticker, executes them; the
last one depends on the other three and invalidates pages of the cache, which
the web server fills when it renders. An edit runs in a goroutine of its own,
which post-processes its HTML in the Node process that previews use too and
reports into a progress session that a handler of server-sent events drains.
The subcommands (`recalc-tfidf`, `index-images`, `recalc-image-similarity`,
`gc-images`) are processes of their own that work on the same databases while
the server runs. Nothing but the databases, the storage, the session map and
the post-processing pool is shared.

### Hazards

`PROJECT.json` lists them, each at its line, with the properties that watch
over it, or the reason why none does.

## 2. The modules

| Module | What it is |
| --- | --- |
| `JobDependency` | Evaluate and Merge of `job.go`, on sets of (parent, condition) pairs |
| `DependencyList` | the lists and loops of `job.go`, checked against `JobDependency` |
| `JobLease` | abstract: what the queue promises, as leases on jobs |
| `JobQueue` | the queue: `queue.go` with the statements of `worker.sql`, and its properties |
| `PageCache` | the pages of the public site, their stored rows and sources, and the jobs that invalidate them |
| `EntryService` | statuses, dates and paths of entries: `SaveEntry` and `PublishScheduledEntries` |
| `PostprocessPool` | the Node process, those who call it, and the loop that reads its output |
| `ProgressSession` | the channels, timers and event stream of an edit |
| `EditPipeline` | the two together: edits that report into sessions, beside previews |
| `TfidfIndex` | terms, postings, related entries and the search, with the job and the subcommand |
| `ImageIndex` | images, signatures, n-grams and the cache of similar images, with the job and the subcommands |
| `Navigation` | a visitor who follows the links of the public site while it changes |
| `MCJobQueue`, `MCPageCache`, `MCEntryService`, `MCTfidfIndex`, `MCImageIndex`, `MCNavigation` | sets, functions and symmetries of the TLC runs |
| `JobQueueProofs`, `DependencyListProofs`, `EntryServiceProofs`, `PageCacheProofs`, `EditPipelineProofs`, `TfidfIndexProofs`, `ImageIndexProofs`, `NavigationProofs` | the theorems |

`JobQueue` EXTENDS `JobDependency` and implements `JobLease` through the
refinement mapping at its end (`leaseState`, `leaseHolders`, `leaseAgain`).
`EditPipeline` EXTENDS `PostprocessPool` and `ProgressSession` and joins their
steps where the code does: a call of an edit creates its session, a progress
line of Node is a report into it, the end of the call ends the edit. The others
stand alone: what one needs of another is a short action of its own (`Save` in
`PageCache`, `TfidfIndex` and `ImageIndex`, `Enqueue` in `EntryService`,
`Publish` in `Navigation`), and of the queue they take only that a job runs
after it was enqueued, one at a time, again after a restart or a failure, or is
given up, which is what `JobLease` promises.

### How JobQueue corresponds to the code

One step is one SQL statement, or one transaction of `EnqueueWithDepends`,
which takes the write lock with BEGIN IMMEDIATE before it reads anything. What
a worker does between two statements is local to it.

| Actions | Code |
| --- | --- |
| `Enqueue` | `EnqueueWithDepends`: the look-up by type and uniqkey, then `EnqueueJob`, or `Merge` and `UpdateJobForEnqueue` |
| `FindJob`, `FindNothing` | a tick: the look at the context, `FindNextJob`, its early returns |
| `ReadTime` | `now := time.Now()`, whose value becomes `grabbed_at` |
| `Grab`, `GrabNothing` | `GrabJob` and its count of rows |
| `Judge` | `GetJobsByIDs`, the self-dependency, `Evaluate`, the registry |
| `ExecuteSucceeds`, `ExecuteFails` | `executeJob`: nil, or an error, a panic, the timeout |
| `Mark` | `MarkJobCompleted`, `MarkJobFailed` (failures and waits), `MarkJobPermanentlyFailed` |
| `Abandon` | every early return that leaves the job running: a failing query, a failing mark, the end of `jobCtx` |
| `RecoverStuck`, `FailStuck`, `Cleanup`, `MaintenanceFails` | the recovery at the start and the maintenance every `ticksUntilRecovery` ticks |
| `Stop`, `Exit`, `Crash`, `Start` | the cancelled context, the return of `run`, the end of the process at any time, a new process |
| `RunAfterReached`, `CutoffReached`, `DayPassed` | the passage of time |

*Rows.* A row is its status, key, dependencies, retry count, `created_at` and
`grabbed_at`. `arg` is written together with `created_at` and nowhere else, so
`created` names the argument too. A missing row has status "none".

*Time.* Only comparisons matter. `created_at > grabbed_at` compares stamps:
each enqueue takes the next one, a worker that reads the time takes the
current one, so an enqueue is "later" exactly if it follows the reading. Both
are written by one process in one zone, and Go's format of a later time is the
greater text. `run_after`, `grabbed_at` and `finished_at` are compared with the
present; the sets `due`, `overdue` and `expired` hold the jobs whose time has
come, which can happen at any moment.

*Keys.* A key is a pair of job type and uniqkey. `UnregisteredKey` are the
types without a handler (jobs of an older version of the program), `SlowKey`
the jobs that may outlive both the five minute stuck cutoff and the ten minute
context; all others end before either.

*Failures.* `MaxDisruptions` bounds crashes, stops and failing statements
together. A failing enqueue is a transaction rolled back and so no step.

*History.* `ranArg`, `ranAt` remember the argument and the stamp of the last
successful run of a job, `orphaned` the jobs whose worker went away while they
were running. They occur in no guard.

*External.* What is not code of the repository: a failing statement, the end
of the process and the passage of time (`Disruption`, `Crash`, `TimePasses`).

### How PageCache corresponds to the code

| Actions | Code |
| --- | --- |
| `Miss`, `Render`, `Store`, `StoreFails` | `PageCacheMiddleware` from the look-up of the compressed row to the two calls of `CacheService.Set`, each a transaction |
| `InvalidateBySourceID`, `InvalidateByKey` | the deletes of `cache_service.go` with the two triggers of `schema/cache.sql` |
| `Save`, `PublishAtPasses` | what the rest of the program does to an entry: a save, and a `publish_at` that passes, at which no code runs |
| `EnqueuePublishedEntryJobs`, `EnqueueFails` | the calls of Enqueue after the entry is committed |
| `UpdateTrackbacks`, `FinalizeEntry`, `Invalidate`, `InvalidateFails`, `Complete` | the two jobs that invalidate, one source per step |
| `JobFails`, `DependencyFails` | the queue gives a job up; it gives `FinalizeEntry` up with the `UpdateTrackbacks` it waits for |
| `Restart` | the end of the process at any time, the recovery of the interrupted job, and `CheckAndTruncateCache` of a new version |

*Pages.* A page is the entries it lists and the trackbacks it shows, each at
the revision it was rendered from (`Content`). `Declared` is what the handler
registers for it, `ListedOn` what its query returns: two definitions from two
places of the code, which the properties bring together. The index, the lists
of everything (feed, archive, sitemap: one kind), the lists of a tag or date,
and the page of an entry are the kinds of pages.

*History.* `silent` holds the changes whose job was never enqueued, failed to
invalidate, or was given up, until the job starts again; `late` marks rows of a
page that was rendered before an invalidation and stored after it. Both are
excuses of the properties, and `page_late` shows that the second one is needed.

### How EntryService corresponds to the code

| Actions | Code |
| --- | --- |
| `Submit`, `SaveFails` | the goroutine of `HandleAdminApiEdit` up to the transaction: the check of `publish_at`, formatting, post-processing |
| `Commit` | the transaction of `SaveEntry`, from BEGIN IMMEDIATE to the commit; `DateAndPath`, `Saved` and `CalculateNextPath` are what it computes |
| `Enqueue`, `EnqueueFails` | `EnqueuePublishedEntryJobs` after it, for a public entry |
| `FindScheduledEntriesToPublish` | the query of the publisher, outside of any transaction |
| `PublishEntry`, `PublishFails`, `EnqueuePublished`, `EnqueuePublishedFails` | the loop over the rows found: one transaction each, errors are logged |
| `Tick`, `Crash` | time and the end of the process |

*Rows.* A row is status, date, path and `publish_at`; a path is a day and a
number. The publisher keeps the rows it found, as the code keeps the slice.

*History.* `announced`, `lost` say whether the jobs of a public entry were
enqueued; `reused` holds scheduled entries that were published with a path an
edit had changed since the query. They occur in no guard.

### How EditPipeline corresponds to the code

| Actions | Code |
| --- | --- |
| `Call`, `GivesUp`, `Cancel` | `postprocessWithRetry`: two attempts, none after the context has ended |
| `GetCurrent`, `GetNew`, `GetFails` | `getPostprocessProcessor` under the mutex: the current process if it is alive, or else a new one after `Close` of the old |
| `Admit`, `Register`, `Write` | `BatchProcessor.Process`: the closing flag, the id and the session, the line to stdin |
| `Receive`, `SeesDone`, `TimesOut` | its `select`, and the deferred Delete of the session (`Leaves`) |
| `Discard`, `AppClose` | `discardPostprocessProcessor`, `AppImpl.Close` |
| `Load`, `Deliver`, `Report`, `ReaderEnds`, `ReaderBreaks` | the loop over stdout: the look-up of the session, the result, the reporter, the end of the stream, a line that is too long |
| `Progresses`, `Answers`, `NodeExits` | external: the Node script, known by the lines it answers |
| `Create`, `SaveSucceeds`, `SendDone`, `CloseMessages`, `SaveFails` | the goroutine of `HandleAdminApiEdit` |
| `ReportProgress` | the reporter, which drops what finds the buffer full |
| `FiveMinutes`, `CleanupFailed`, `DeleteSaved` | the three `time.AfterFunc`, two of them `cleanupProgressSession` |
| `Connect`, `ReceiveMessage`, `ReceiveError`, `SeesClosed`, `Disconnect` | `HandleAdminApiEditProgress` and its browser |

The look-up of a session and what follows are two steps, since the map is read
and the channel used without a lock in common; so are the closing flag and the
registration. A panic of a goroutine (a send on a closed channel, a second
close) ends the server: `panicked`. HTML is the name of the request it came
from. That a message taken from the channel reaches the browser is one step.
`tried`, `broken`, `waited` and `late` are history and occur in no guard, but
for the disjunct of `FiveMinutes` that says when five minutes can have passed.

### How TfidfIndex corresponds to the code

| Actions | Code |
| --- | --- |
| `Save` | a save that changes the text and perhaps enqueues the job |
| `Start`, `UpdateTFIDF`, `Recalculate`, `Relate`, `JobFails` | `RecalculateTFIDF`: read the entry, and three calls, each a transaction |
| `ToolStart` ... `ToolEnds` | `recalc-tfidf`: chunks read entry by entry, indexed in a transaction, then weights, then relations |
| `Decrement`, `UpsertAll`, `Promote` (`UpdateTFIDFs`) | the three loops of the transaction of `calculator.go` |
| `RecalculateTFIDFValues`, `CalculateSimilarEntries`, `Search` | the statements of `calculator.go` and `search.go` |

A text is a set of terms. A weight is a logarithm and is known only by whether
it is positive, which is what the code asks of it (`IsShort`). `drifted`,
`missed`, `behind`, `torn` are history: the terms miscounted, the postings no
promotion wrote, entries no job has indexed with their last text, weights not
recalculated after an update. What they excuse is observed below.

`drifted` is told from the texts, never from the index (`Account`): `founder`
is the entry that was first to hold a term since nobody did, `early` the founders
whose posting a promotion wrote from a text not indexed yet. A term has drifted
(`Miscounts`) when a batch holds two of its holders, of which the index takes one
off, or none but its founder or one of the early, for which it takes one off all
the same. That an entry loses a term, or another one holds it next, is no drift:
those counts are right, and asserted. `tfidf_drift` asserts the others too.

### How ImageIndex corresponds to the code

| Actions | Code |
| --- | --- |
| `Upload`, `Save` | files in the storage; a save that changes the images of the body |
| `Start`, `SyncImages`, `LoadImages`, `WriteImages`, `JobFails` | `IndexImages`: read the entry, `SyncImagesForEntries`, the loads of `FillImagesForEntries` and its transaction |
| `IndexImages`, `ToolReadEntry`, `ToolSync`, `ToolList`, `ToolLoad`, `ToolWrite`, `ToolChunkFails` | `index-images` |
| `RecalcImageSimilarity`, `DeleteAllSimilarImages`, `RecalcBatch`, `RecalcStops` | `recalc-image-similarity` |
| `ListRows`, `ListOrphans`, `ListFails`, `DeleteOrphan` | the two phases of `gc-images`: the rows, the files, the deletion of what the list names |

A signature is its set of bits, `Words` are its n-grams. Ids are given as
SQLite gives them, after the greatest there is, so that an id is used again.
`index-images` takes the entries in the order of `Listed`, by date; the chunks
of its transactions are chunks of places in it. The history `behind` holds the
entries saved as drafts, those whose job was given up, and those for which
`index-images` wrote a body older than the last job; a save between the reading
and the writing of a job is not in it, since the next job must take it up.

### How Navigation corresponds to the code

| Actions | Code |
| --- | --- |
| `ReadDates`, `ReadEntries` | `HandleIndex`: the unique dates, then the entries of those dates, in two statements |
| `HandleCategory` | the page of a category and the date its older link names |
| `HandlePath` | an entry's page with the answer of `GetOlderEntry` |
| `HandleArchive`, `HandleDateArchive` | the months, and the page of a month |
| `Publish`, `Withdraw`, `Retitle` | what saves do meanwhile to what the queries see |

`sought` holds what was there when the walk began and has not changed since,
`met` and `twice` what was shown once and twice, `skipped` what has the
`created_at`, to the instant, of an entry on whose page the visitor was.

## 3. What is checked

| Run | Instance | Shows |
| --- | --- | --- |
| `queue_single` | one worker, one slow keyed job and jobs without key, two rows, dependencies on either of the first two jobs and so on itself and in cycles, one disruption | the safety properties of the deployment, the refinement of `JobLease`, that every job is settled and what is enqueued during a run is served |
| `queue_deps` | two workers, two keys and jobs without key and handler, three rows, dependencies on one or two jobs under both strategies and conditions, prompt jobs | handlers run after their parents; exclusive execution; `IInv` |
| `dependency_list` | three parents, lists of up to two dependencies | the loops of `job.go` and the definitions on sets agree; a merge runs no job earlier but where the code says so |
| `page_entry` | the page of an entry another one links to, two saves, one fault (failed enqueue, store, invalidation, a job given up, a restart) | what an update or a trackback makes outdated will be deleted, and is in the end; `IInv` |
| `entry_service` | two entries, two goroutines that save, three edits, two days, one fault | the properties of paths and announcements, `IInv`, and that due entries are published |
| `edit` | an edit and a preview, three processes, one fault (crash, failed start, timeout, cancelled caller, line too long, failing page, shutdown), a buffer of one, one visit | answers go to their callers, nobody fails for one broken process, the reader waits for nobody, panics and lost outcomes have the causes named; deadlock checked |
| `tfidf` | two entries, two terms, up to four saves, one run of the subcommand and one fault, five of these events in all | what is done is indexed, frequencies count holders, the search finds holders, relations are current |
| `images` | two images in two entries, two saves, one run of a subcommand, one fault | rows follow the bodies, the cache is what a full search finds, signatures stay with their images |
| `navigation` | three entries on three days, two months, pages of two days and of one entry, two changes | walks leave nothing out, show nothing twice, and end |

*The queue.* `ExclusiveExecution` (with `HoldsItsJob`, a part of `IInv`: a job
has one worker and that worker owns the row), `RunningIsAccountedFor` (a running
row has a worker or lost it to a crash or failing statement), `RetryBounded`,
`CompletedAfterLastEnqueue` (a completed job ran after its last enqueue),
`MissingParentsSucceeded` (Evaluate is right to take a missing parent for a
success), `DependenciesHonoured`, and the action property `FailedStaysFailed`.
`WeakenedOnlyByAny` is about the lists of `dependency_list`: unless the merged
strategy is "any" (which a later enqueue may put in the place of "all"), a job
that the merged dependencies let run may also run under those it had before, and
under those of the new enqueue unless they name a known parent with another
condition (the first one stays). The jobs of `queue_deps` are prompt and nothing
disrupts them; that a job may outlive the cutoff is met by `queue_single` and
the proofs. `ImplementsLease` says that every behaviour of the queue is one of
`JobLease`. Liveness: `QueueDrains` and `ReenqueueIsServed`.

*The page cache.* `OutdatedIsAnnounced` and `RenderedIsAnnounced` (a stored or
rendered page that lists an entry otherwise than the site has it is registered
under a source that a job of that entry has yet to invalidate),
`TrackbackIsAnnounced` (the same for trackbacks), and the liveness property
`StaleGoes`. `CacheRelated` (a row has exactly the relations of its content) is
a part of `IInv`. Lists (index, feed, tags) are kinds of pages of the model that
no passing run stores; the theorems of section 4 cover them.

*The entry service.* `PathsUnique`, `PublicIsAnnounced`, the action property
`UrlStable`, `DueIsPublished`; `PathsConsistent` is a part of `IInv`.

*Edits.* `AnswerIsOwn` (nobody gets the HTML of another), `FailsAfterTwo` (one
broken process makes no caller fail), `ReaderNeverStuck` (the loop that reads
for all waits for nobody), `PanicHasCause` and `ClosedMeansFailure` (the server
dies of a session, or a browser is cut off without the outcome, only in the
cases named). Deadlock is checked: `Finished` is the only step of a state in
which every caller has returned, every edit has ended, every session has gone
and every stream is over, so no state gets stuck before.

*Indexes.* `IndexedWhenDone`, `DfCountsHolders`, `SearchFindsHolders` and
`SettledIsCurrent` of the terms; `ImagesFollowText`, `CacheIsCurrent` and
`SignatureIsOwn` of the images. Two windows between the processes are open in the
code and excused, not watched: `index-images` writes a body that it read before a
save, after the job of that save has run (`behind`), and a sync of the other
process gives the id of an image to another one while its picture is loaded
(`mistaken`). What is watched is that nothing else, and no step of the job alone,
leads there.

*Navigation.* `EndMeetsAll` (who reaches the end was shown all that was there),
`ShowsOnce`, and the liveness property `WalksEnd`.

*Bounds.* Of the queue, two enqueues are one job enqueued before, during and
after its run, or two jobs that may depend on each other; `queue_deps` adds the
third job, so that one waits for two, and two workers, every pair of actors that
can meet on a row. Two attempts reach each branch of `MarkJobFailed` and, with
the recovery, both sides of `retry_count < max_retries`. One disruption at any
step is enough for each recovery path; that more of them change nothing for the
safety properties is what the proofs add.

Two saves of an entry are one revision that is rendered and one that makes it
stale; the invalidations of the first may still run when the second commits.
One request is enough to overlap all of these. In `entry_service` two days, each
with an instant of its own, tell the day of saving from the day of publication;
three edits take one entry through three statuses, or two entries onto one day.

In `edit` two callers share a process, one fault breaks it for both, each
retries, and three processes are as many as two callers and one fault can ask
for before they fail or end; a buffer of one is full after one report, so that
reports are dropped and the notice of the end waits; one visit of the browser
may begin and end at any time. That a caller fails after two broken processes
takes a second fault: `FailsAfterTwo` says that with one nobody does.

In `tfidf` four saves let a term come, go and come again in one entry while
the other holds it; of saves, starts of the subcommand and faults there are up to
five in all (`MaxEvents`), so that a run or a fault may meet any such sequence.
Two entries are the fewest that promote a term, `MinShared`
and `MinValidTerms` are lowered so that two terms make entries related, and a
chunk holds both, so that the branch within a batch is met. In `images` two
pictures share an n-gram and a third of their bits, so that they are similar; a
chunk of one makes the subcommands take two transactions between which jobs
run. The limits of 20 similar images and of the lists of a page are not
reached. In `navigation` a page of the index shows one or two of three days
(`MinDays`, `MaxDays`, `Threshold`), a page of a category one entry of up to
three, so that pages are cut within a day, and two changes may come between any
two statements.

*Symmetry.* `queue_deps` exchanges its keys and its workers, which its constants
treat alike, and `tfidf` its terms, whose order no definition uses. No run with
symmetry checks liveness.

*Fairness.* `FairSpec` of `JobQueue` assumes that the loop of a live process
keeps taking steps (SQLite answers, and a handler runs under a timeout), that a
cancelled loop does not take the tick for ever in its `select` (Go chooses at
random, hence strong fairness of `Exit`), that the service manager starts the
process again, and that time passes. Nobody has to enqueue, stop or crash.
`FairSpec` of `PageCache` assumes that a goroutine that has saved enqueues, that
the worker runs what is due, and that a request under way ends; nobody has to
save, to visit or to fail. `FairSpec` of `EntryService` assumes that the ticker
of `main.go` keeps running the publisher. `FairSpec` of `Navigation` assumes
that a visitor who has begun goes on (weak fairness of `Visit`, the author need
not do anything): it is no promise of the server, and `WalksEnd` says that the
links end for whoever follows them. The other runs check safety, and `edit` the
absence of deadlock.

### Where documents and code disagree

Three runs expect a violation; each states what the documentation or a comment
says:

- `queue_stale_arg`: the worker reads the row before it reads the time that
  becomes `grabbed_at`. An enqueue between the two is completed by a run that
  had the previous argument, although `docs/how-to-use-jobqueue.md` promises
  the latest one. `CompletedAfterLastEnqueue` is the part that does hold: the
  run was *grabbed* after the enqueue.
- `page_late`: a page rendered before a save is stored after the invalidation
  and stays, although the document on the page cache says that every affected
  page is deleted for certain.
- `tfidf_drift`: an entry that was first to hold a term and has lost it is still
  its `first_entry_id`, so the term is counted down each time the entry is
  indexed again, although the comment at `calculator.go:16-18` says that counts
  are decremented exactly. The next holder is counted zero and not found.
  `DfCountsHolders` is the part that does hold.

Observed while reading, without a run:

- Queue. A wait is recorded by `MarkJobFailed` and counts as a retry, so a
  child may fail while its parent is still being retried. A later enqueue with the
  strategy "any" replaces "all" (`job.go:138-139`), and a later, stronger condition
  on a known parent is dropped (`job.go:132`).
  `MarkJobPermanentlyFailed` does not look at `created_at`; a job enqueued again
  during its judgement stays failed. `jobCtx` ends after ten minutes, like the
  timeout of `RecalculateTFIDF`; the statement that records the outcome then
  fails, and the job waits for the recovery. `docs/how-to-use-jobqueue.md` says
  that cycles are detected at run time, but `DetectCircularDependency` is called
  by tests only and a cycle ends when its waits have used up the attempts
  (`QueueDrains`). The cap of one hour on the delay is never reached with five
  attempts. `RecoverStuckJobs` compares the local time stored in `grabbed_at`
  with UTC as texts, which moves the cutoff by the zone's offset.
- Page cache. Withdrawing an entry enqueues nothing (`entry_service.go:204`), and
  a public entry with a future `publish_at` becomes visible without any code
  running; both are in `silent`. An entry's page shows its neighbours but does not
  register them (`handler_public.go:715`). The target of a link that was removed
  is not invalidated (`update_trackbacks.go:104`). LIKE finds tags without
  regard to case, the registered id keeps the case (`handler_public.go:291`).
- Entries. `docs/specs/entry-path-logic.md` says that an entry going from
  reserved to draft keeps its path; `SaveEntry` drops it. The publisher reads
  before its transactions and writes by id alone, so an entry made a draft in
  between is published all the same. The comment in `HandleAdminApiEdit` refers
  to a test file that does not exist.
- Edits. The notice that an edit is done is sent without a default: with a full
  buffer and no listener the goroutine waits until the clean-up of five minutes
  closes the channel under it, and the send panics. A disconnected preview ends
  its attempt by closing the process under all others, which retry once;
  `discardPostprocessProcessor` forgets the current process even if another
  request has started it, and that one runs on without a caller. Edits that are
  saved while the server closes may start a process that nobody closes. HTML on
  which the script fails makes other requests of the same process retry.
- TF-IDF. Besides `tfidf_drift`: a batch counts a term that two of its entries
  shared down once (`drifted`), and promotes no first holder that is in the batch
  (`missed`). The search is for all bigrams of the query (`searcher.go:32-34`);
  it answers otherwise for the terms in `drifted` and `missed` and for those that
  have come down from two. A term with a count of one that has
  been two counts twice for its first entry in a search. Similar entries on a
  page are not asked whether they are public.
- Images. A picture that cannot be loaded leaves its row without a signature
  although the job completes. `recalc-image-similarity` lists the images before
  it clears the cache, so that a job in between loses its relations (`raced`), and
  it stops, by an error or a panic, at an image that has gone or has no signature
  (`torn`). A row deleted while its picture is loaded may give its id to another
  image, which then gets the signature (`mistaken`). The sync of the other
  process reads an entry before its snapshot (`behind`). `gc-images` says that it
  lists images that are not in the database (`gc_images.go:19`), but it compares
  names escaped in uris (`storage.go:75`, `storage.go:214`) with the unescaped
  names of the storage (`gc_images.go:74-91`): an image whose name has a space or
  Japanese characters is listed although the images table has it, and the delete
  phase removes it (`Escaped`). It also lists what only drafts show, which are
  never indexed, and what is indexed between its reading of the rows and of the
  storage; the list may be old when its delete phase runs.
- Navigation. A day of a category with more entries than a page leads to itself,
  so that what is older cannot be reached (`Crowded`). The older link passes over
  entries that share their `created_at` (`skipped`). The comment in `HandleIndex`
  says `date < targetDate`, the query has `<=`. The index shows entries dated
  after today, a category does not.

## 4. What is proved

Each invariant and each action property of the passing runs is a theorem, for
every value of the constants, those of the queue and one of the images under a
hypothesis named below; liveness is not (see the end of this section).

The theorems on the queue hold for any number of workers, keys, jobs, enqueues,
attempts and disruptions. They assume `QueueAssumption` (types of the constants),
`CallersAssumption` (callers name a parent once, as
`EnqueuePublishedEntryJobs` does) and, but for `TypeCorrect`, the hypothesis
`OneWorkerOrPromptJobs`: the server runs one worker, or else jobs end before the
five minute cutoff. Without it the claims are false: a second worker may recover
a job that the first still executes.

The inductive invariant `IInv` of `JobQueue` has seven parts.

1. `Bookkeeping`: ids are handed out once and named after that, and a worker
   that read the time did so after an enqueue, so `grabbed_at` is not null.
2. `TimesHavePassed`: no stored or read time lies in the future. This makes a
   new enqueue later than every `grabbed_at`.
3. `Ownership`: `HoldsItsJob`, `ExclusiveExecution`, and that only slow jobs
   are overdue while held. With the hypothesis, recovery never takes a held
   job; so the row is as its worker left it when it is marked.
4. `RunningIsAccountedFor`.
5. `RetryBounded`: a pending or running row has at most `max_retries`, since
   each statement that increments it looks at it first.
6. `HistoryAgrees`: an outcome about to be recorded is that of the last run;
   what is completed or gone was run; `CompletedAfterLastEnqueue` and
   `MissingParentsSucceeded`.
7. `DependenciesHonoured`.

`JobQueueProofs` proves Init => IInv, that each action preserves each part, the
theorems named after the properties, and that every step of the queue maps to a
step of `JobLease` or leaves its variables alone (`QueueImplementsLease`).

`DependencyListProofs` holds for any set of parents and lists of any length. On
sets, Evaluate decides once all parents are settled (`SettledParentsDecide`) and
gives one verdict (`VerdictsExclude`). That the loops of `job.go` compute the same
rests on what the recursive function `AddDependencies` builds (`Iterates` gives it
a value at every index, and an induction over the indices shows that it keeps what
is stored in front and adds exactly the parents not yet named), and on counts:
Evaluate counts all dependencies or none if and only if each, or no one, is so
(`VerdictsAgree`). From these follow `ListIsSet`, `EvaluateIsVerdictOnSets`,
`NoJobWaitsForNothing` and `MergeWeakensOnlyByAny`: what is
ready under another strategy than "any" is ready with any part of its list
(`ReadyByFewer`), so a merge runs no job earlier but under "any" or with a known
parent's first condition.

`EntryServiceProofs` holds for any number of entries, goroutines, edits, instants
and faults, and for any calendar `DayOf`; it assumes only the types of the
constants. Its `IInv` adds to the properties that what the publisher holds was
once a row in order (`FoundWell`) and that edits under way have passed the check
(`EditsValid`). The argument for `PathsUnique`: by `PathsConsistent` every path
of a day is carried by a row with that date, so `CalculateNextPath` sees it and
exceeds it (`NextPathIsFresh`, for which `GreatestNumber` shows that the maximum
exists); an edit keeps its own path or takes a fresh one (`SavedFits`), and the
publisher takes a fresh one or writes the one it found (`PublishedFits`), which
is the row's own unless an edit came between.

`PageCacheProofs` holds for any number of entries, tags, pages, requests, saves
and faults, and assumes only what the constants are (`PagesExist`,
`StatusesOfSave`, `BoundsAreNaturals`). Its `IInv` adds to the properties that
an idle worker has nothing to do (`IdleIsIdle`), that every rendered page
registers itself (`RenderedWell`), and that pages rendered and not stored yet
lack no unannounced trackback either, since they become rows. The argument has
three parts. `SourcesMeet`: whatever entry a page shows wrongly, and whatever
its tags were and are, the sources that `FinalizeEntry` computes for it meet
those that the handler registered for the page. `AnnouncedStays`: no step takes
away what is announced of a page, except the invalidation of one of the page's
sources. `RowsWritten` and `RequestsRendered`: a row or request that survives
such an invalidation did not register the source, or is `late`; a page rendered
in the step itself shows everything as it is. `RelatedStep` is the part of the
two tables.

`EditPipelineProofs` holds for any number of edits, previews, processes, visits
and faults and any size of the buffer; it assumes the types of the constants and
that edits are the requests with a reporter. Its invariant has two halves which
steps of the other half leave alone (`StepsAreOfParts`), one of sessions and one
of the pool, in three parts. `PoolInv`: the ids in use at a process (`Named`: in
its sessions, on its stdin, on its stdout, in the hands of a caller about to
write) are at most its counter, and none stands for two requests (`IdsAreOwn`),
hence the session found for a line is that of its request (`LoadKeeps`) and what
is held or sent is its own (`ResultsAreOwn`). `BlameInv`: a process that ended,
or was closed under its callers, had a cause in `broken` (`EndsHaveCauses`), and
a caller in its second attempt has lost its first process to one
(`AttemptsAreTold`), from which `FailsAfterTwo` follows. `OneAnswerEach`: of the
line a caller wrote, its answer, the result that the reader holds and the result
in the channel, there is at most one for each caller of a process, so the
channel of one place has room for the result (`ReaderGoesOn`). `SessionInv`:
unless the buffer was full at the end or a report came late, whoever closes a
channel finds it open (`QuietIsSafe`: an ended edit has exactly one timer left,
and only the failed kind closes), and what an edit has come to is in its
channels or known to its browser (`EndIsTold`).

`TfidfIndexProofs` holds for any number of entries, terms, saves, runs and
faults. `DoneEntriesAreIndexed` rests on `ReadIsCurrent` (a job that has read an
old text finds its entry due again) and `DoneIsIndexed`; `RestIsCurrent` on
`CountedIsWeighed`: between an update and the recalculation that follows it, the
job, the subcommand or `torn` says so. The counts and the search need to know
what the loops of `UpdateTFIDFs` do to a batch of any size: the loop over its
entries is unfolded into a sequence of tables (`UpsertsInOrder`), along which
each term gains its holders one by one. `IndexInv` says what comes out of it: of
a term that has not drifted, `first_entry_id` is the founder that the texts
tell, the holders are those with a posting and the first entry, `df_count` is
their number (`CountsAreTrue`), and a holder of a term with two lacks its
posting only if it is in `missed` or is being indexed (`PromotionsAreDone`).

`ImageIndexProofs` holds for any number of entries, images, saves, runs and
faults and any signatures; it assumes only what the constants are
(`ImageBounds`). The tables within a transaction are records that the statements
change one after another. Each statement keeps n-grams that are the words of the
signatures and a cache in which only true relations stand (`CacheUpdated`,
`FillKeeps`, `SyncEntryKeeps`), and the loops are unfolded as above
(`SyncsInOrder`, `FillsInOrder`, `RecalcsInOrder`). `IInv` holds without any
condition: ids are those of one row although they are used again, a row has the
signature of its own image (`SignaturesAreOwn`), and the rows follow the bodies
(`RowsFollowText`: a job that holds an older body finds its entry due again or
given up). That the cache lacks nothing, `WholeInv`, is another matter: a new
image looks for the `MaxSimilar` most similar ones and stores both directions of
these only. It is proved under `[][FewAlike]_vars`: in no step is an image like
more than `MaxSimilar` others. `FewAlike` speaks of the rows alone and says
nothing of the cache. Under it the cache is what a full search finds
(`CacheFindsAll`), for all that jobs, `index-images` and
`recalc-image-similarity` do to it meanwhile. The run `images` satisfies
`FewAlike`; with `MaxSimilar` = 1 TLC finds `CacheIsCurrent` violated, so the
hypothesis is needed and is a limit of the code: on a site where more than 20
images resemble one, the cache depends on the order in which they came.

`NavigationProofs` holds for any finite set of entries, any calendar, sizes of
pages and number of changes. Its `IInv` says, for each kind of walk, which part
of what is sought was met by the place in the walk: all that is dated after the
bound of the next page (`IndexMetLater`, `DatesAreNext`, `CategoryMetLater`), all
that was created after the next entry (`OlderMetLater`), all months but those yet
to be followed (`ArchiveMetOthers`).

The prover has no induction principle for data that it could instantiate, so
`ReachesAll` (in the three modules on loops) derives induction over the numbers
up to a bound from their well-foundedness, for a set instead of a predicate.
These loops are therefore written as recursive functions of a number, not as
folds.

Only model-checked, since they need fairness or ENABLED, which are beyond this
prover: `QueueDrains` and `ReenqueueIsServed` of the queue, `StaleGoes` of the
page cache, `DueIsPublished` of the entry service and `WalksEnd` of the
navigation, and that `edit` has no deadlock. The properties of the three runs
that expect a violation are false.

## 5. What is left out

Of the queue: the text of errors, the exact delays (only that a delayed job is
not due), JSON (a `depends_on` that cannot be parsed is only ever written by
hand), the `job_types` table beyond the key, the queries of the admin pages.
The model starts from an empty table; rows an older version left behind are
those of `UnregisteredKey`.

Of the page cache: neighbours, similar entries and images on an entry's page,
the limits and next-page links of the lists, the bytes, hashes and conditional
requests (a hit changes nothing), `UpdateContentToNull`, which nothing calls.
Of the entry service: text, `created_at`, `modified_at` and
`InvalidateOGPCache`, which deletes a file. A status that the editor does not
offer is not an input.

Of the edits: the keep-alive of the event stream, the delivery of a message once
it is taken from the channel, and the Node script but for the lines it answers.
Of the indexes: tokenising, the values of weights and similarities, the limits of
the queries, image processing on pixels. Of the navigation: newer links, yearly
and daily lists, and cached pages.

Not modelled at all, with the reason in `PROJECT.json`: open graph images,
formatters and views (functions of their input), the Cloudflare client (one
request), configuration (read once), the admin frontend (a program in the
browser), and of the subcommands those run by hand and alone (`backup`,
`import-subtech`, `reformat`, `recalc-metadata`, the password).

## 6. What could follow

1. A composition of `EntryService`, `PageCache` and the leases of `JobLease`:
   which pages of an edited entry are invalidated in the end, and when not.
2. `ServerLifecycle`: the listeners and wait groups of `main.go` around the
   worker, the publisher and the edits under way.
3. `StuckCutoff`, for the comparison of times as texts in `RecoverStuckJobs`.
4. A weaker hypothesis than `FewAlike`: which relations the cache still has when
   more than `MaxSimilar` images resemble one.
