------------------------------ MODULE JobQueue ------------------------------
(***************************************************************************)
(* The SQLite job queue of backend/jobqueue/queue.go with the statements   *)
(* of backend/db/query/worker.sql: enqueuers, workers that poll, grab,     *)
(* judge, execute and mark jobs, the recovery of stuck jobs, the clean-up, *)
(* graceful stops, crashes, restarts and failing statements.               *)
(*                                                                         *)
(* One SQL statement (or one transaction of Enqueue, which holds the write *)
(* lock from BEGIN IMMEDIATE on) is one step.  Everything a worker does    *)
(* between two statements is local to it.                                  *)
(*                                                                         *)
(* Time.  The code compares created_at with grabbed_at, and run_after,     *)
(* grabbed_at and finished_at with the present.  `clock` is the stamp of   *)
(* the last enqueue: an enqueue takes the next stamp as created_at, a      *)
(* worker that reads the time takes the current one as grabbed_at, so that *)
(* created > grabbed says that the enqueue came after that reading.  The   *)
(* other three comparisons are the sets due, overdue and expired, which    *)
(* grow as time passes.                                                    *)
(*                                                                         *)
(* arg and created_at are written together, by EnqueueJob and              *)
(* UpdateJobForEnqueue only: `created` also names the argument.            *)
(***************************************************************************)
EXTENDS JobDependency

CONSTANTS
  Worker,              \* worker loops; the server runs one
  Key,                 \* (job type, uniqkey) pairs
  NoKey,               \* an enqueue without uniqkey
  UnregisteredKey,     \* the keys whose job type has no handler
  SlowKey,             \* the jobs that may outlive the 5 minute stuck
                       \* cutoff and the 10 minute job context
  MaxRetries,          \* max_retries of every job, 5 in the code
  TicksUntilRecovery,  \* polls between two recoveries, 12 in the code
  MaxJobId,            \* bound: rows ever inserted
  MaxEnqueue,          \* bound: enqueues
  MaxDisruptions,      \* bound: crashes, graceful stops, failing statements
  GivenDependsOn       \* the dependencies that callers of Enqueue pass

ASSUME QueueAssumption ==
  /\ NoKey \notin Key
  /\ UnregisteredKey \subseteq Key \cup {NoKey}
  /\ SlowKey \subseteq Key \cup {NoKey}
  /\ MaxRetries \in Nat \ {0}
  /\ TicksUntilRecovery \in Nat \ {0}
  /\ MaxJobId \in Nat /\ MaxEnqueue \in Nat /\ MaxDisruptions \in Nat
  /\ GivenDependsOn \subseteq DependsOn(1..MaxJobId)

ASSUME CallersAssumption == \A d \in GivenDependsOn : NamesParentsOnce(d)

JobId == 1..MaxJobId

VARIABLES
  row,        \* the jobs table
  nextId,     \* its AUTOINCREMENT counter
  clock,      \* stamp of the last enqueue
  due,        \* jobs whose run_after has been reached
  overdue,    \* jobs whose grabbed_at is older than the stuck cutoff
  expired,    \* jobs whose finished_at is older than a day
  pc,         \* where each worker loop is
  snap,       \* the row its FindNextJob returned
  stamp,      \* the time it read for grabbed_at
  outcome,    \* what it will record for its job
  ticks,      \* ticksSinceLastRecovery
  stopping,   \* its context is cancelled
  ranArg,     \* history: argument of the last successful run of a job
  ranAt,      \* history: grabbed_at of that run
  orphaned,   \* history: jobs whose worker went away without marking them
  disruptions \* crashes, graceful stops and failing statements so far

dbVars == <<row, nextId, clock, due, overdue, expired>>
workerVars == <<pc, snap, stamp, outcome, ticks, stopping>>
historyVars == <<ranArg, ranAt, orphaned>>
vars == <<row, nextId, clock, due, overdue, expired,
          pc, snap, stamp, outcome, ticks, stopping,
          ranArg, ranAt, orphaned, disruptions>>

-----------------------------------------------------------------------------
(* grabbed = 0 is NULL: no worker reads the time before the first enqueue  *)
(* it serves.                                                              *)
Row == [status : Status, key : Key \cup {NoKey}, dependsOn : DependsOn(JobId),
        retry : Nat, created : Nat, grabbed : Nat]

NoRow == [status |-> "none", key |-> NoKey, dependsOn |-> NoDependsOn,
          retry |-> 0, created |-> 0, grabbed |-> 0]

Snapshot == [id : JobId \cup {0}, key : Key \cup {NoKey}, arg : Nat,
             dependsOn : DependsOn(JobId)]

NoSnapshot == [id |-> 0, key |-> NoKey, arg |-> 0, dependsOn |-> NoDependsOn]

(* startRecover, startFail: the recovery before the first poll; idle: in   *)
(* the select; found .. finishing: in processNextJob; recover, failStuck,  *)
(* cleanup: the maintenance every TicksUntilRecovery polls.                *)
PC == {"down", "startRecover", "startFail", "idle", "found", "stamped",
       "grabbed", "executing", "finishing", "recover", "failStuck", "cleanup"}

Outcome == {"none", "done", "error", "wait", "impossible"}

-----------------------------------------------------------------------------
(* The statements of worker.sql, as what they make of a row. *)

(* created_at > grabbed_at; a comparison with NULL is not true. *)
Reenqueued(r) == r.grabbed # 0 /\ r.created > r.grabbed

EnqueueJob(k, dependsOn, now) ==
  [status |-> "pending", key |-> k, dependsOn |-> dependsOn,
   retry |-> 0, created |-> now, grabbed |-> 0]

(* A running job stays running, any other becomes pending.  grabbed_at and *)
(* finished_at stay as they are.                                           *)
UpdateJobForEnqueue(r, dependsOn, now) ==
  [r EXCEPT !.status = IF @ = "running" THEN @ ELSE "pending",
            !.dependsOn = Merge(@, dependsOn),
            !.retry = 0, !.created = now]

(* Variant: without the condition on the status. *)
GrabbableAlways(r) == TRUE

Grabbable(r) == r.status = "pending"

GrabJob(r, now) == [r EXCEPT !.status = "running", !.grabbed = now]

(* Variant: without the comparison of the two times. *)
MarkJobCompletedAlways(r) == [r EXCEPT !.status = "completed", !.grabbed = 0]

(* A job enqueued again since it was grabbed goes back to pending with a   *)
(* fresh retry count.                                                      *)
MarkJobCompleted(r) ==
  [r EXCEPT !.status = IF Reenqueued(r) THEN "pending" ELSE "completed",
            !.retry = IF Reenqueued(r) THEN 0 ELSE @,
            !.grabbed = 0]

(* Variant: the retry is not counted. *)
MarkJobFailedUncounted(r) ==
  [r EXCEPT !.status = IF r.retry + 1 >= MaxRetries THEN "failed" ELSE "pending",
            !.grabbed = 0]

(* For a failed run and for a wait alike. *)
MarkJobFailed(r) ==
  [r EXCEPT !.status = IF r.retry + 1 >= MaxRetries THEN "failed" ELSE "pending",
            !.retry = @ + 1,
            !.grabbed = 0]

MarkJobPermanentlyFailed(r) == [r EXCEPT !.status = "failed", !.grabbed = 0]

(* Variant: the retries left are not asked for. *)
RecoverableRegardless(r) == TRUE

Recoverable(r) == r.retry < MaxRetries

RecoverStuckJob(r) ==
  [r EXCEPT !.status = "pending", !.grabbed = 0, !.retry = @ + 1]

(* grabbed_at stays. *)
FailStuckJob(r) == [r EXCEPT !.status = "failed"]

-----------------------------------------------------------------------------
statusOf == [j \in JobId |-> row[j].status]

Holding(w) == pc[w] \in {"grabbed", "executing", "finishing"}

Serving(w) == pc[w] \in {"found", "stamped"} \/ Holding(w)

Held == {snap[w].id : w \in {v \in Worker : Holding(v)}}

Runnable == {j \in due : row[j].status = "pending"}

Stuck == {j \in overdue : row[j].status = "running"}

Init ==
  /\ row = [j \in JobId |-> NoRow]
  /\ nextId = 1
  /\ clock = 0
  /\ due = {} /\ overdue = {} /\ expired = {}
  /\ pc = [w \in Worker |-> "startRecover"]
  /\ snap = [w \in Worker |-> NoSnapshot]
  /\ stamp = [w \in Worker |-> 0]
  /\ outcome = [w \in Worker |-> "none"]
  /\ ticks = [w \in Worker |-> 0]
  /\ stopping = [w \in Worker |-> FALSE]
  /\ ranArg = [j \in JobId |-> 0]
  /\ ranAt = [j \in JobId |-> 0]
  /\ orphaned = {}
  /\ disruptions = 0

-----------------------------------------------------------------------------
(* Enqueuers: goroutines of the web server and of the publisher.           *)

Existing(k) ==
  {j \in JobId : k # NoKey /\ row[j].status # "none" /\ row[j].key = k}

EnqueueNew(k, dependsOn) ==
  /\ Existing(k) = {}
  /\ nextId <= MaxJobId
  /\ row' = [row EXCEPT ![nextId] = EnqueueJob(k, dependsOn, clock + 1)]
  /\ due' = due \cup {nextId}
  /\ nextId' = nextId + 1

EnqueueExisting(j, dependsOn) ==
  /\ row' = [row EXCEPT ![j] = UpdateJobForEnqueue(@, dependsOn, clock + 1)]
  /\ due' = due \cup {j}
  /\ UNCHANGED nextId

(* The ids that a caller names were returned by earlier enqueues. *)
Enqueue(k, dependsOn) ==
  /\ clock < MaxEnqueue
  /\ ParentIds(dependsOn) \subseteq 1 .. nextId - 1
  /\ \/ EnqueueNew(k, dependsOn)
     \/ \E j \in Existing(k) : EnqueueExisting(j, dependsOn)
  /\ clock' = clock + 1
  /\ UNCHANGED <<overdue, expired, disruptions, workerVars, historyVars>>

-----------------------------------------------------------------------------
(* The worker loop. *)

(* The end of one poll: on the way to the select, or to the maintenance. *)
EndTick(w) ==
  /\ IF ticks[w] + 1 >= TicksUntilRecovery
     THEN /\ pc' = [pc EXCEPT ![w] = "recover"]
          /\ ticks' = [ticks EXCEPT ![w] = 0]
     ELSE /\ pc' = [pc EXCEPT ![w] = "idle"]
          /\ ticks' = [ticks EXCEPT ![w] = @ + 1]
  /\ snap' = [snap EXCEPT ![w] = NoSnapshot]
  /\ stamp' = [stamp EXCEPT ![w] = 0]
  /\ outcome' = [outcome EXCEPT ![w] = "none"]

Disruption == disruptions < MaxDisruptions /\ disruptions' = disruptions + 1

(* FindNextJob: the oldest enqueue among the pending jobs that are due. *)
FindJob(w) ==
  /\ pc[w] = "idle" /\ ~stopping[w]
  /\ \E j \in Runnable :
       /\ \A i \in Runnable : row[j].created <= row[i].created
       /\ snap' = [snap EXCEPT ![w] = [id |-> j, key |-> row[j].key,
                                       arg |-> row[j].created,
                                       dependsOn |-> row[j].dependsOn]]
  /\ pc' = [pc EXCEPT ![w] = "found"]
  /\ UNCHANGED <<stamp, outcome, ticks, stopping, disruptions, dbVars,
                 historyVars>>

(* sql.ErrNoRows, or an error of the statement.  A select that finds the   *)
(* ticker and the cancelled context both ready may still take the tick,    *)
(* which then looks for nothing.                                           *)
FindNothing(w) ==
  /\ pc[w] = "idle"
  /\ \/ (Runnable = {} \/ stopping[w]) /\ UNCHANGED disruptions
     \/ Disruption
  /\ EndTick(w)
  /\ UNCHANGED <<stopping, dbVars, historyVars>>

(* now := time.Now(), read before the GrabJob statement. *)
ReadTime(w) ==
  /\ pc[w] = "found"
  /\ stamp' = [stamp EXCEPT ![w] = clock]
  /\ pc' = [pc EXCEPT ![w] = "stamped"]
  /\ UNCHANGED <<snap, outcome, ticks, stopping, disruptions, dbVars,
                 historyVars>>

(* GrabJob on a job that is still pending. *)
Grab(w) ==
  LET j == snap[w].id IN
  /\ pc[w] = "stamped"
  /\ Grabbable(row[j])
  /\ row' = [row EXCEPT ![j] = GrabJob(@, stamp[w])]
  /\ overdue' = overdue \ {j}
  /\ pc' = [pc EXCEPT ![w] = "grabbed"]
  /\ UNCHANGED <<nextId, clock, due, expired, snap, stamp, outcome, ticks,
                 stopping, disruptions, historyVars>>

(* No row affected, or an error of the statement. *)
GrabNothing(w) ==
  /\ pc[w] = "stamped"
  /\ \/ ~Grabbable(row[snap[w].id]) /\ UNCHANGED disruptions
     \/ Disruption
  /\ EndTick(w)
  /\ UNCHANGED <<stopping, dbVars, historyVars>>

Decide(w, at, out) ==
  /\ pc' = [pc EXCEPT ![w] = at]
  /\ outcome' = [outcome EXCEPT ![w] = out]

(* GetJobsByIDs and Evaluate, on the dependencies of the snapshot; then    *)
(* the registry look-up.  A self-dependency fails for good.                *)
Judge(w) ==
  LET dependsOn == snap[w].dependsOn
      selfDependent == snap[w].id \in ParentIds(dependsOn)
  IN
  /\ pc[w] = "grabbed"
  /\ \/ /\ selfDependent \/ IsHopeless(dependsOn, statusOf)
        /\ Decide(w, "finishing", "impossible")
     \/ /\ ~selfDependent /\ MustWait(dependsOn, statusOf)
        /\ Decide(w, "finishing", "wait")
     \/ /\ ~selfDependent /\ IsReady(dependsOn, statusOf)
        /\ IF snap[w].key \in UnregisteredKey
           THEN Decide(w, "finishing", "error")
           ELSE Decide(w, "executing", "none")
  /\ UNCHANGED <<snap, stamp, ticks, stopping, disruptions, dbVars,
                 historyVars>>

(* The handler returns nil. *)
ExecuteSucceeds(w) ==
  /\ pc[w] = "executing"
  /\ pc' = [pc EXCEPT ![w] = "finishing"]
  /\ outcome' = [outcome EXCEPT ![w] = "done"]
  /\ ranArg' = [ranArg EXCEPT ![snap[w].id] = snap[w].arg]
  /\ ranAt' = [ranAt EXCEPT ![snap[w].id] = stamp[w]]
  /\ UNCHANGED <<snap, stamp, ticks, stopping, disruptions, orphaned, dbVars>>

(* The handler returns an error, panics or runs into its timeout. *)
ExecuteFails(w) ==
  /\ pc[w] = "executing"
  /\ pc' = [pc EXCEPT ![w] = "finishing"]
  /\ outcome' = [outcome EXCEPT ![w] = "error"]
  /\ UNCHANGED <<snap, stamp, ticks, stopping, disruptions, dbVars,
                 historyVars>>

(* The statement that records the outcome names the job by its id only.  A *)
(* failed run and a wait move run_after into the future, the other two     *)
(* outcomes set finished_at, or clear it.                                  *)
Mark(w) ==
  LET j == snap[w].id IN
  /\ pc[w] = "finishing"
  /\ \/ /\ outcome[w] = "done"
        /\ row' = [row EXCEPT ![j] = MarkJobCompleted(@)]
        /\ expired' = expired \ {j}
        /\ UNCHANGED due
     \/ /\ outcome[w] \in {"error", "wait"}
        /\ row' = [row EXCEPT ![j] = MarkJobFailed(@)]
        /\ due' = due \ {j}
        /\ UNCHANGED expired
     \/ /\ outcome[w] = "impossible"
        /\ row' = [row EXCEPT ![j] = MarkJobPermanentlyFailed(@)]
        /\ expired' = expired \ {j}
        /\ UNCHANGED due
  /\ overdue' = overdue \ {j}
  /\ EndTick(w)
  /\ UNCHANGED <<nextId, clock, stopping, disruptions, historyVars>>

(* processNextJob returns early and leaves the job running: a query before *)
(* the execution or the statement after it fails, or the job has outlived  *)
(* the context the statement runs under.                                   *)
Abandon(w) ==
  /\ \/ pc[w] \in {"grabbed", "finishing"} /\ Disruption
     \/ /\ pc[w] = "finishing" /\ outcome[w] \in {"done", "error"}
        /\ snap[w].key \in SlowKey \ UnregisteredKey
        /\ UNCHANGED disruptions
  /\ EndTick(w)
  /\ orphaned' = orphaned \cup {snap[w].id}
  /\ UNCHANGED <<stopping, ranArg, ranAt, dbVars>>

-----------------------------------------------------------------------------
(* Maintenance: at start under a context of its own, later under the one   *)
(* of the loop, where a cancelled context fails the statements.            *)

MayMaintain(w) == pc[w] \in {"startRecover", "startFail"} \/ ~stopping[w]

(* Variant: failed jobs, many of which have no finished_at, go as well. *)
CleanableWithFailed ==
  {j \in JobId : \/ row[j].status = "completed" /\ j \in expired
                 \/ row[j].status = "failed"}

Cleanable == {j \in expired : row[j].status = "completed"}

RecoverStuck(w) ==
  LET J == {j \in Stuck : Recoverable(row[j])} IN
  /\ pc[w] \in {"startRecover", "recover"} /\ MayMaintain(w)
  /\ row' = [j \in JobId |-> IF j \in J THEN RecoverStuckJob(row[j]) ELSE row[j]]
  /\ overdue' = overdue \ J
  /\ orphaned' = orphaned \ J
  /\ pc' = [pc EXCEPT ![w] = IF @ = "recover" THEN "failStuck" ELSE "startFail"]
  /\ UNCHANGED <<nextId, clock, due, expired, snap, stamp, outcome, ticks,
                 stopping, disruptions, ranArg, ranAt>>

FailStuck(w) ==
  LET J == {j \in Stuck : row[j].retry >= MaxRetries} IN
  /\ pc[w] \in {"startFail", "failStuck"} /\ MayMaintain(w)
  /\ row' = [j \in JobId |-> IF j \in J THEN FailStuckJob(row[j]) ELSE row[j]]
  /\ orphaned' = orphaned \ J
  /\ pc' = [pc EXCEPT ![w] = IF @ = "failStuck" THEN "cleanup" ELSE "idle"]
  /\ UNCHANGED <<nextId, clock, due, overdue, expired, snap, stamp, outcome,
                 ticks, stopping, disruptions, ranArg, ranAt>>

(* CleanupJobs *)
Cleanup(w) ==
  LET J == Cleanable IN
  /\ pc[w] = "cleanup" /\ MayMaintain(w)
  /\ row' = [j \in JobId |-> IF j \in J THEN NoRow ELSE row[j]]
  /\ due' = due \ J
  /\ overdue' = overdue \ J
  /\ expired' = expired \ J
  /\ pc' = [pc EXCEPT ![w] = "idle"]
  /\ UNCHANGED <<nextId, clock, snap, stamp, outcome, ticks, stopping,
                 disruptions, historyVars>>

(* A failing recovery skips its second statement, not the clean-up. *)
MaintenanceFails(w) ==
  /\ pc[w] \in {"startRecover", "startFail", "recover", "failStuck", "cleanup"}
  /\ \/ ~MayMaintain(w) /\ UNCHANGED disruptions
     \/ Disruption
  /\ pc' = [pc EXCEPT ![w] = IF @ \in {"recover", "failStuck"}
                             THEN "cleanup" ELSE "idle"]
  /\ UNCHANGED <<snap, stamp, outcome, ticks, stopping, dbVars, historyVars>>

-----------------------------------------------------------------------------
(* The life of the process. *)

(* The server's context is cancelled; the job at hand runs on. *)
Stop(w) ==
  /\ pc[w] # "down" /\ ~stopping[w]
  /\ Disruption
  /\ stopping' = [stopping EXCEPT ![w] = TRUE]
  /\ UNCHANGED <<pc, snap, stamp, outcome, ticks, dbVars, historyVars>>

(* Variant: the process does not wait for its worker. *)
MayExitAnytime(w) == pc[w] # "down"

MayExit(w) == pc[w] = "idle"

(* The loop sees the cancelled context in its select and returns. *)
Exit(w) ==
  /\ MayExit(w) /\ stopping[w]
  /\ pc' = [pc EXCEPT ![w] = "down"]
  /\ UNCHANGED <<snap, stamp, outcome, ticks, stopping, disruptions, dbVars,
                 historyVars>>

Crash(w) ==
  /\ pc[w] # "down"
  /\ Disruption
  /\ pc' = [pc EXCEPT ![w] = "down"]
  /\ snap' = [snap EXCEPT ![w] = NoSnapshot]
  /\ stamp' = [stamp EXCEPT ![w] = 0]
  /\ outcome' = [outcome EXCEPT ![w] = "none"]
  /\ orphaned' = IF Holding(w) THEN orphaned \cup {snap[w].id} ELSE orphaned
  /\ UNCHANGED <<ticks, stopping, ranArg, ranAt, dbVars>>

(* A new process: a new loop with its counters at zero. *)
Start(w) ==
  /\ pc[w] = "down"
  /\ pc' = [pc EXCEPT ![w] = "startRecover"]
  /\ ticks' = [ticks EXCEPT ![w] = 0]
  /\ stopping' = [stopping EXCEPT ![w] = FALSE]
  /\ UNCHANGED <<snap, stamp, outcome, disruptions, dbVars, historyVars>>

-----------------------------------------------------------------------------
(* The passage of time. *)

RunAfterReached(j) ==
  /\ row[j].status = "pending" /\ j \notin due
  /\ due' = due \cup {j}
  /\ UNCHANGED <<row, nextId, clock, overdue, expired, disruptions, workerVars,
                 historyVars>>

(* Five minutes since grabbed_at.  A job still held is as old only if it   *)
(* is one of the slow ones.                                                *)
CutoffReached(j) ==
  /\ row[j].status = "running" /\ j \notin overdue
  /\ j \in Held => row[j].key \in SlowKey
  /\ overdue' = overdue \cup {j}
  /\ UNCHANGED <<row, nextId, clock, due, expired, disruptions, workerVars,
                 historyVars>>

(* A day since finished_at, far longer than any run of the job lasts. *)
DayPassed(j) ==
  /\ row[j].status = "completed" /\ j \notin expired /\ j \notin Held
  /\ expired' = expired \cup {j}
  /\ UNCHANGED <<row, nextId, clock, due, overdue, disruptions, workerVars,
                 historyVars>>

-----------------------------------------------------------------------------
WorkerStep(w) ==
  \/ FindJob(w) \/ FindNothing(w) \/ ReadTime(w) \/ Grab(w) \/ GrabNothing(w)
  \/ Judge(w) \/ ExecuteSucceeds(w) \/ ExecuteFails(w) \/ Mark(w) \/ Abandon(w)
  \/ RecoverStuck(w) \/ FailStuck(w) \/ Cleanup(w) \/ MaintenanceFails(w)
  \/ Exit(w)

TimePasses(j) == RunAfterReached(j) \/ CutoffReached(j) \/ DayPassed(j)

Next ==
  \/ \E k \in Key \cup {NoKey}, d \in GivenDependsOn : Enqueue(k, d)
  \/ \E w \in Worker : WorkerStep(w) \/ Stop(w) \/ Crash(w) \/ Start(w)
  \/ \E j \in JobId : TimePasses(j)

Spec == Init /\ [][Next]_vars

(* The loop of a live process keeps running: SQLite answers, and a handler *)
(* returns, since it runs under a timeout.  A cancelled loop does not take *)
(* the tick in its select for ever, for Go chooses at random.  The service *)
(* manager starts the process again.  Time passes.  Nobody has to enqueue, *)
(* stop or crash.                                                          *)
Fairness ==
  /\ \A w \in Worker :
       WF_vars(WorkerStep(w)) /\ SF_vars(Exit(w)) /\ WF_vars(Start(w))
  /\ \A j \in JobId : WF_vars(TimePasses(j))

FairSpec == Spec /\ Fairness

-----------------------------------------------------------------------------
(* Correctness. *)

TypeOK ==
  /\ row \in [JobId -> Row]
  /\ nextId \in 1 .. MaxJobId + 1
  /\ clock \in 0..MaxEnqueue
  /\ due \subseteq JobId /\ overdue \subseteq JobId /\ expired \subseteq JobId
  /\ pc \in [Worker -> PC]
  /\ snap \in [Worker -> Snapshot]
  /\ \A w \in Worker : Serving(w) => snap[w].id \in JobId
  /\ stamp \in [Worker -> Nat]
  /\ outcome \in [Worker -> Outcome]
  /\ ticks \in [Worker -> Nat]
  /\ stopping \in [Worker -> BOOLEAN]
  /\ ranArg \in [JobId -> Nat]
  /\ ranAt \in [JobId -> Nat]
  /\ orphaned \subseteq JobId
  /\ disruptions \in 0..MaxDisruptions

(* A worker that has grabbed a job owns its row until it has recorded the  *)
(* outcome: no enqueue, recovery or other worker takes the row out of      *)
(* running or grabs it again (GrabJob, UpdateJobForEnqueue,                *)
(* RecoverStuckJobs).                                                      *)
HoldsItsJob ==
  \A w \in Worker : Holding(w) =>
    /\ row[snap[w].id].status = "running"
    /\ row[snap[w].id].grabbed = stamp[w]

(* Two workers never execute the same job at a time (GrabJob). *)
ExclusiveExecution ==
  \A v, w \in Worker :
    Holding(v) /\ Holding(w) /\ snap[v].id = snap[w].id => v = w

(* A running row belongs to a worker that is at it, or to one that crashed *)
(* or could not record the outcome: a graceful stop, a missing handler, a  *)
(* self-dependency or a lost race leaves no job running (processNextJob).  *)
RunningIsAccountedFor ==
  \A j \in JobId : row[j].status = "running" => j \in Held \cup orphaned

(* Retries are bounded whatever mix of failures, waits, crashes and        *)
(* recoveries a job meets, so 1<<retry_count stays small (MarkJobFailed,   *)
(* RecoverStuckJobs, FailStuckJobs).                                       *)
RetryBounded ==
  \A j \in JobId :
    row[j].retry <= IF row[j].status \in {"pending", "running"}
                    THEN MaxRetries ELSE MaxRetries + 1

(* A job is completed only after a run that was grabbed after its last     *)
(* enqueue: what was enqueued during the run is served by another run      *)
(* (MarkJobCompleted).                                                     *)
CompletedAfterLastEnqueue ==
  \A j \in JobId : row[j].status = "completed" => ranAt[j] >= row[j].created

(* Evaluate takes a missing parent for one that completed and was cleaned  *)
(* up: rows that are gone did run to success.                              *)
MissingParentsSucceeded ==
  \A j \in JobId :
    row[j].status = "none" /\ j < nextId => ranAt[j] > 0

(* A handler runs only when the dependencies it was found with have been   *)
(* honoured: under "all" every parent whose completion is required has     *)
(* succeeded, under "any" one has or some parent only had to finish.       *)
DependenciesHonoured ==
  \A w \in Worker : pc[w] = "executing" =>
    LET deps == snap[w].dependsOn.deps
        honoured == {d \in deps : d.cond = "finished" \/ ranAt[d.id] > 0}
    IN  IF snap[w].dependsOn.strategy = "any"
        THEN deps # {} => honoured # {}
        ELSE honoured = deps

(* A failed job stays failed until it is enqueued again: no late outcome,  *)
(* recovery or clean-up revives or removes it.                             *)
FailedStaysFailed ==
  [][\A j \in JobId :
       row[j].status = "failed" /\ row'[j].status # "failed"
         => row'[j].status = "pending" /\ row'[j].created = clock + 1]_row

(* Every job is settled in the end, cycles of dependencies, crashes and    *)
(* stops included.                                                         *)
QueueDrains ==
  \A j \in JobId :
    row[j].status \in {"pending", "running"}
      ~> row[j].status \in {"completed", "failed", "none"}

(* An enqueue that finds its job running is served by a later run with its *)
(* argument, unless the job fails or is enqueued once more.                *)
ReenqueueIsServed ==
  \A j \in JobId, n \in 1..MaxEnqueue :
    (row[j].status = "running" /\ row[j].created = n /\ Reenqueued(row[j]))
      ~> (ranArg[j] >= n \/ row[j].status = "failed" \/ row[j].created > n)

-----------------------------------------------------------------------------
(* What the proofs of the invariants rest on. *)

(* The assumption of the deployment: one worker, or jobs that end before   *)
(* the stuck cutoff.                                                       *)
OneWorkerOrPromptJobs == SlowKey = {} \/ \A v, w \in Worker : v = w

(* Ids are handed out once, are known before they are named, and are never *)
(* more than there were enqueues.                                          *)
Bookkeeping ==
  /\ nextId <= clock + 1
  /\ \A j \in JobId :
       /\ row[j].status # "none" => j < nextId
       /\ ParentIds(row[j].dependsOn) \subseteq 1 .. nextId - 1
  /\ \A w \in Worker : Serving(w) =>
       /\ snap[w].id < nextId
       /\ ParentIds(snap[w].dependsOn) \subseteq 1 .. nextId - 1
       /\ pc[w] # "found" => stamp[w] > 0

(* Every time that was read, or stored for a running job, has passed.      *)
TimesHavePassed ==
  /\ \A j \in JobId : row[j].status = "running" => row[j].grabbed \in 1..clock
  /\ \A w \in Worker : stamp[w] <= clock

(* A job in the hands of a worker is that worker's alone, and only a slow  *)
(* one is ever taken for stuck.                                            *)
Ownership ==
  /\ HoldsItsJob
  /\ ExclusiveExecution
  /\ \A j \in overdue \cap Held : row[j].key \in SlowKey

(* The history agrees with the table: a run that is about to be recorded   *)
(* is the last one, and what is completed or gone was run.                 *)
HistoryAgrees ==
  /\ \A w \in Worker :
       pc[w] = "finishing" /\ outcome[w] = "done" => ranAt[snap[w].id] = stamp[w]
  /\ \A j \in JobId : row[j].status = "completed" => ranAt[j] > 0
  /\ CompletedAfterLastEnqueue
  /\ MissingParentsSucceeded

(* The inductive invariant: the parts above, and the properties that are   *)
(* inductive beside them.                                                  *)
IInv ==
  /\ Bookkeeping
  /\ TimesHavePassed
  /\ Ownership
  /\ RunningIsAccountedFor
  /\ RetryBounded
  /\ HistoryAgrees
  /\ DependenciesHonoured

-----------------------------------------------------------------------------
(* What the documentation claims and the code does not keep.               *)

(* docs/how-to-use-jobqueue.md: an enqueue overwrites the argument with    *)
(* the latest one, and nothing is lost.  Of the code: FindNextJob reads    *)
(* the row before grabbed_at is stamped.                                   *)
CompletedWithLatestArg ==
  \A j \in JobId : row[j].status = "completed" => ranArg[j] = row[j].created

-----------------------------------------------------------------------------
(* The queue implements the leases of JobLease. *)

leaseState ==
  [j \in JobId |->
     CASE row[j].status = "none" -> IF j < nextId THEN "forgotten" ELSE "new"
       [] row[j].status = "pending" -> "waiting"
       [] row[j].status = "running" -> "leased"
       [] row[j].status = "completed" -> "done"
       [] row[j].status = "failed" -> "failed"]

leaseHolders == [j \in JobId |-> {w \in Worker : Holding(w) /\ snap[w].id = j}]

leaseAgain == {j \in JobId : row[j].status = "running" /\ Reenqueued(row[j])}

Lease == INSTANCE JobLease WITH
           Job <- JobId, Holder <- Worker,
           state <- leaseState, lease <- leaseHolders, again <- leaseAgain

(* Every step of the queue is a step of the leases or leaves them alone.   *)
ImplementsLease == Lease!Spec
=============================================================================
