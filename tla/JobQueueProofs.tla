--------------------------- MODULE JobQueueProofs ---------------------------
(***************************************************************************)
(* What holds of the job queue for every value of its constants: its       *)
(* types, its invariants, and that it implements the leases of JobLease.   *)
(***************************************************************************)
EXTENDS JobQueue, TLAPS

LEMMA NoDependsOnType ==
  ASSUME NEW Id
  PROVE  NoDependsOn \in DependsOn(Id)
BY DEF NoDependsOn, DependsOn, Strategy

LEMMA MergeType ==
  ASSUME NEW Id, NEW old \in DependsOn(Id), NEW new \in DependsOn(Id)
  PROVE  Merge(old, new) \in DependsOn(Id)
<1>1. CASE new = NoDependsOn
  BY <1>1 DEF Merge
<1>2. CASE new # NoDependsOn
  BY <1>2 DEF Merge, DependsOn, Strategy
<1> QED BY <1>1, <1>2

LEMMA MergeParents ==
  ASSUME NEW Id, NEW old \in DependsOn(Id), NEW new \in DependsOn(Id)
  PROVE  ParentIds(Merge(old, new)) \subseteq ParentIds(old) \cup ParentIds(new)
<1>1. Merge(old, new).deps \subseteq old.deps \cup new.deps
  BY DEF Merge
<1> QED BY <1>1 DEF ParentIds

LEMMA NoSnapshotType == NoSnapshot \in Snapshot
BY NoDependsOnType DEF NoSnapshot, Snapshot

LEMMA NoRowType == NoRow \in Row
BY NoDependsOnType DEF NoRow, Row, Status

(* The statements make rows of rows. *)
LEMMA StatementTypes ==
  ASSUME NEW r \in Row, NEW n \in Nat, NEW d \in DependsOn(JobId)
  PROVE  /\ \A k \in Key \cup {NoKey} : EnqueueJob(k, d, n) \in Row
         /\ UpdateJobForEnqueue(r, d, n) \in Row
         /\ GrabJob(r, n) \in Row
         /\ MarkJobCompleted(r) \in Row
         /\ MarkJobFailed(r) \in Row
         /\ MarkJobPermanentlyFailed(r) \in Row
         /\ RecoverStuckJob(r) \in Row
         /\ FailStuckJob(r) \in Row
<1>1. \A k \in Key \cup {NoKey} : EnqueueJob(k, d, n) \in Row
  BY DEF EnqueueJob, Row, Status
<1>2. UpdateJobForEnqueue(r, d, n) \in Row
  <2>1. Merge(r.dependsOn, d) \in DependsOn(JobId)
    BY MergeType DEF Row
  <2> QED BY <2>1 DEF UpdateJobForEnqueue, Row, Status
<1>3. GrabJob(r, n) \in Row
  BY DEF GrabJob, Row, Status
<1>4. MarkJobCompleted(r) \in Row
  BY DEF MarkJobCompleted, Row, Status
<1>0. r.retry + 1 \in Nat
  BY DEF Row
<1>5. MarkJobFailed(r) \in Row
  BY <1>0 DEF MarkJobFailed, Row, Status
<1>6. MarkJobPermanentlyFailed(r) \in Row
  BY DEF MarkJobPermanentlyFailed, Row, Status
<1>7. RecoverStuckJob(r) \in Row
  BY <1>0 DEF RecoverStuckJob, Row, Status
<1>8. FailStuckJob(r) \in Row
  BY DEF FailStuckJob, Row, Status
<1> QED BY <1>1, <1>2, <1>3, <1>4, <1>5, <1>6, <1>7, <1>8

LEMMA EndTickType ==
  ASSUME TypeOK, NEW w \in Worker, EndTick(w)
  PROVE  /\ pc' \in [Worker -> PC]
         /\ snap' \in [Worker -> Snapshot]
         /\ stamp' \in [Worker -> Nat]
         /\ outcome' \in [Worker -> Outcome]
         /\ ticks' \in [Worker -> Nat]
         /\ \A v \in Worker : Serving(v)' => snap'[v].id \in JobId
BY NoSnapshotType DEF TypeOK, EndTick, PC, Outcome, Serving, Holding

LEMMA InitType == Init => TypeOK
BY QueueAssumption, NoRowType, NoSnapshotType
DEF Init, TypeOK, PC, Outcome, Serving, Holding

LEMMA NextType == TypeOK /\ [Next]_vars => TypeOK'
<1> SUFFICES ASSUME TypeOK, [Next]_vars
             PROVE  TypeOK'
  OBVIOUS
<1> USE QueueAssumption DEF Serving, Holding
<1>1. ASSUME NEW k \in Key \cup {NoKey}, NEW d \in GivenDependsOn, Enqueue(k, d)
      PROVE  TypeOK'
  <2>1. d \in DependsOn(JobId)
    BY DEF JobId
  <2>2. clock + 1 \in 0..MaxEnqueue /\ clock + 1 \in Nat
    BY <1>1 DEF Enqueue, TypeOK
  <2> DEFINE Typed == /\ row' \in [JobId -> Row]
                      /\ nextId' \in 1 .. MaxJobId + 1
                      /\ due' \subseteq JobId
  <2>3. Typed
    <3>1. CASE EnqueueNew(k, d)
      <4>1. EnqueueJob(k, d, clock + 1) \in Row
        BY <2>1, <2>2, NoRowType, StatementTypes
      <4>2. nextId \in JobId /\ nextId + 1 \in 1 .. MaxJobId + 1
        BY <3>1 DEF EnqueueNew, TypeOK, JobId
      <4> QED BY <3>1, <4>1, <4>2 DEF EnqueueNew, TypeOK
    <3>2. ASSUME NEW j \in Existing(k), EnqueueExisting(j, d)
          PROVE  Typed
      <4>1. j \in JobId /\ row[j] \in Row
        BY <3>2 DEF Existing, TypeOK
      <4>2. UpdateJobForEnqueue(row[j], d, clock + 1) \in Row
        BY <2>1, <2>2, <4>1, StatementTypes
      <4> QED BY <3>2, <4>1, <4>2 DEF EnqueueExisting, TypeOK
    <3> QED BY <1>1, <3>1, <3>2 DEF Enqueue
  <2> QED BY <1>1, <2>2, <2>3 DEF Enqueue, TypeOK, workerVars, historyVars
<1>2. ASSUME NEW w \in Worker, WorkerStep(w)
      PROVE  TypeOK'
  <2>1. CASE FindJob(w)
    BY <2>1 DEF FindJob, Runnable, TypeOK, Snapshot, Row, PC, dbVars, historyVars
  <2>2. CASE FindNothing(w)
    BY <2>2, EndTickType DEF FindNothing, Disruption, TypeOK, dbVars, historyVars
  <2>3. CASE ReadTime(w)
    BY <2>3 DEF ReadTime, TypeOK, PC, dbVars, historyVars
  <2>4. CASE Grab(w)
    <3>1. GrabJob(row[snap[w].id], stamp[w]) \in Row \/ snap[w].id \notin JobId
      BY NoDependsOnType, StatementTypes DEF TypeOK
    <3>2. row' \in [JobId -> Row]
      BY <2>4, <3>1 DEF Grab, TypeOK
    <3> QED BY <2>4, <3>2 DEF Grab, TypeOK, PC, historyVars
  <2>5. CASE GrabNothing(w)
    BY <2>5, EndTickType DEF GrabNothing, Disruption, TypeOK, dbVars, historyVars
  <2>6. CASE Judge(w)
    BY <2>6 DEF Judge, Decide, TypeOK, PC, Outcome, dbVars, historyVars
  <2>7. CASE ExecuteSucceeds(w)
    <3>1. snap[w].arg \in Nat /\ stamp[w] \in Nat
      BY DEF TypeOK, Snapshot
    <3> QED BY <2>7, <3>1 DEF ExecuteSucceeds, TypeOK, PC, Outcome, dbVars
  <2>8. CASE ExecuteFails(w)
    BY <2>8 DEF ExecuteFails, TypeOK, PC, Outcome, dbVars, historyVars
  <2>9. CASE Mark(w)
    <3>1. ASSUME NEW j \in JobId
          PROVE  /\ MarkJobCompleted(row[j]) \in Row
                 /\ MarkJobFailed(row[j]) \in Row
                 /\ MarkJobPermanentlyFailed(row[j]) \in Row
      BY NoDependsOnType, StatementTypes DEF TypeOK
    <3>2. snap[w].id \in JobId
      BY <2>9 DEF Mark, TypeOK
    <3>3. row' \in [JobId -> Row] /\ due' \subseteq JobId /\ expired' \subseteq JobId
      <4>1. CASE outcome[w] = "done"
        <5>1. /\ row' = [row EXCEPT ![snap[w].id] = MarkJobCompleted(@)]
              /\ due' = due /\ expired' = expired \ {snap[w].id}
          BY <2>9, <4>1 DEF Mark
        <5> QED BY <3>1, <3>2, <5>1 DEF TypeOK
      <4>2. CASE outcome[w] \in {"error", "wait"}
        <5>1. /\ row' = [row EXCEPT ![snap[w].id] = MarkJobFailed(@)]
              /\ due' = due \ {snap[w].id} /\ expired' = expired
          BY <2>9, <4>2 DEF Mark
        <5> QED BY <3>1, <3>2, <5>1 DEF TypeOK
      <4>3. CASE outcome[w] = "impossible"
        <5>1. /\ row' = [row EXCEPT ![snap[w].id] = MarkJobPermanentlyFailed(@)]
              /\ due' = due /\ expired' = expired \ {snap[w].id}
          BY <2>9, <4>3 DEF Mark
        <5> QED BY <3>1, <3>2, <5>1 DEF TypeOK
      <4> QED BY <2>9, <4>1, <4>2, <4>3 DEF Mark
    <3> QED BY <2>9, <3>3, EndTickType DEF Mark, TypeOK, historyVars
  <2>10. CASE Abandon(w)
    <3>1. snap[w].id \in JobId
      BY <2>10 DEF TypeOK, Snapshot, Abandon
    <3>2. orphaned' \subseteq JobId /\ disruptions' \in 0..MaxDisruptions
      BY <2>10, <3>1 DEF Abandon, Disruption, TypeOK
    <3>3. EndTick(w) /\ UNCHANGED <<stopping, ranArg, ranAt, dbVars>>
      BY <2>10 DEF Abandon
    <3> QED BY <3>2, <3>3, EndTickType DEF TypeOK, dbVars
  <2>11. CASE RecoverStuck(w)
    <3>1. row' \in [JobId -> Row]
      BY <2>11, NoDependsOnType, StatementTypes DEF RecoverStuck, TypeOK
    <3> QED BY <2>11, <3>1 DEF RecoverStuck, TypeOK, PC
  <2>12. CASE FailStuck(w)
    <3>1. row' \in [JobId -> Row]
      BY <2>12, NoDependsOnType, StatementTypes DEF FailStuck, TypeOK
    <3> QED BY <2>12, <3>1 DEF FailStuck, TypeOK, PC
  <2>13. CASE Cleanup(w)
    <3>1. row' \in [JobId -> Row]
      BY <2>13, NoRowType DEF Cleanup, TypeOK
    <3> QED BY <2>13, <3>1 DEF Cleanup, TypeOK, PC, historyVars
  <2>14. CASE MaintenanceFails(w)
    BY <2>14 DEF MaintenanceFails, Disruption, TypeOK, PC, dbVars, historyVars
  <2>15. CASE Exit(w)
    BY <2>15 DEF Exit, TypeOK, PC, dbVars, historyVars
  <2> QED
    BY <1>2, <2>1, <2>2, <2>3, <2>4, <2>5, <2>6, <2>7, <2>8, <2>9, <2>10,
       <2>11, <2>12, <2>13, <2>14, <2>15 DEF WorkerStep
<1>3. ASSUME NEW w \in Worker, Stop(w)
      PROVE  TypeOK'
  BY <1>3 DEF Stop, Disruption, TypeOK, dbVars, historyVars
<1>4. ASSUME NEW w \in Worker, Crash(w)
      PROVE  TypeOK'
  BY <1>4, NoSnapshotType
  DEF Crash, Disruption, TypeOK, Snapshot, Holding, PC, Outcome, dbVars
<1>5. ASSUME NEW w \in Worker, Start(w)
      PROVE  TypeOK'
  BY <1>5 DEF Start, TypeOK, PC, dbVars, historyVars
<1>6. ASSUME NEW j \in JobId, TimePasses(j)
      PROVE  TypeOK'
  BY <1>6
  DEF TimePasses, RunAfterReached, CutoffReached, DayPassed, TypeOK,
      workerVars, historyVars
<1>7. CASE UNCHANGED vars
  BY <1>7 DEF vars, TypeOK
<1> QED BY <1>1, <1>2, <1>3, <1>4, <1>5, <1>6, <1>7 DEF Next

(* The queue only ever stores rows, snapshots and counters of their types. *)
THEOREM TypeCorrect == Spec => []TypeOK
BY InitType, NextType, PTL DEF Spec

-----------------------------------------------------------------------------
(* A poll that ends leaves its worker with no job. *)
LEMMA EndTickFrame ==
  ASSUME TypeOK, NEW w \in Worker, EndTick(w)
  PROVE  /\ ~Serving(w)' /\ ~Holding(w)'
         /\ \A v \in Worker \ {w} :
              UNCHANGED <<pc[v], snap[v], stamp[v], outcome[v], ticks[v]>>
BY DEF TypeOK, EndTick, Serving, Holding

(* Only enqueues touch the dependencies, and the clean-up drops them with  *)
(* the row.                                                                *)
LEMMA StatementFrame ==
  ASSUME NEW r \in Row, NEW n \in Nat
  PROVE  \A t \in {GrabJob(r, n), MarkJobCompleted(r), MarkJobFailed(r),
                   MarkJobPermanentlyFailed(r), RecoverStuckJob(r),
                   FailStuckJob(r)} :
           /\ t.key = r.key /\ t.dependsOn = r.dependsOn
           /\ t.created = r.created /\ t.status # "none"
<1> DEFINE Same(t) == /\ t.key = r.key /\ t.dependsOn = r.dependsOn
                      /\ t.created = r.created /\ t.status # "none"
<1>1. Same(GrabJob(r, n))
  BY DEF Row, GrabJob
<1>2. Same(MarkJobCompleted(r))
  BY DEF Row, MarkJobCompleted
<1>3. Same(MarkJobFailed(r))
  BY DEF Row, MarkJobFailed
<1>4. Same(MarkJobPermanentlyFailed(r))
  BY DEF Row, MarkJobPermanentlyFailed
<1>5. Same(RecoverStuckJob(r)) /\ Same(FailStuckJob(r))
  BY DEF Row, RecoverStuckJob, FailStuckJob
<1> HIDE DEF Same
<1>6. \A t \in {GrabJob(r, n), MarkJobCompleted(r), MarkJobFailed(r),
                MarkJobPermanentlyFailed(r), RecoverStuckJob(r),
                FailStuckJob(r)} : Same(t)
  BY <1>1, <1>2, <1>3, <1>4, <1>5
<1> QED BY <1>6 DEF Same

LEMMA InitBookkeeping == Init => Bookkeeping
BY QueueAssumption
DEF Init, Bookkeeping, NoRow, NoDependsOn, ParentIds, Serving, Holding

LEMMA NextBookkeeping == TypeOK /\ Bookkeeping /\ [Next]_vars => Bookkeeping'
<1> SUFFICES ASSUME TypeOK, Bookkeeping, [Next]_vars
             PROVE  Bookkeeping'
  OBVIOUS
<1> USE QueueAssumption DEF Serving, Holding
<1>1. ASSUME NEW k \in Key \cup {NoKey}, NEW d \in GivenDependsOn, Enqueue(k, d)
      PROVE  Bookkeeping'
  <2>1. d \in DependsOn(JobId) /\ ParentIds(d) \subseteq 1 .. nextId - 1
    BY <1>1 DEF JobId, Enqueue
  <2>2. clock \in Nat /\ nextId \in Nat
    BY DEF TypeOK
  <2>3. clock' = clock + 1 /\ UNCHANGED workerVars
    BY <1>1 DEF Enqueue
  <2>4. CASE EnqueueNew(k, d)
    <3>1. \A j \in JobId : row'[j] = IF j = nextId THEN EnqueueJob(k, d, clock + 1)
                                                 ELSE row[j]
      BY <2>4 DEF EnqueueNew, TypeOK
    <3>2. nextId' = nextId + 1
      BY <2>4 DEF EnqueueNew
    <3>3. EnqueueJob(k, d, clock + 1).dependsOn = d
      BY DEF EnqueueJob
    <3> HIDE DEF Serving, Holding
    <3>4. \A w \in Worker : Serving(w)' <=> Serving(w)
      BY <2>3 DEF workerVars, Serving, Holding
    <3>5. \A j \in JobId :
            /\ row'[j].status # "none" => j < nextId'
            /\ ParentIds(row'[j].dependsOn) \subseteq 1 .. nextId' - 1
      <4> SUFFICES ASSUME NEW j \in JobId
                   PROVE  /\ row'[j].status # "none" => j < nextId'
                          /\ ParentIds(row'[j].dependsOn) \subseteq 1 .. nextId' - 1
        OBVIOUS
      <4>1. CASE j = nextId
        BY <2>1, <2>2, <3>1, <3>2, <3>3, <4>1
      <4>2. CASE j # nextId
        <5>1. row'[j] = row[j] /\ j \in Nat
          BY <3>1, <4>2 DEF JobId
        <5>2. /\ row[j].status # "none" => j < nextId
              /\ ParentIds(row[j].dependsOn) \subseteq 1 .. nextId - 1
          BY DEF Bookkeeping
        <5> HIDE QueueAssumption
        <5> QED BY <2>2, <3>2, <5>1, <5>2
      <4> QED BY <4>1, <4>2
    <3>6. \A w \in Worker : Serving(w)' =>
            /\ snap'[w].id < nextId'
            /\ ParentIds(snap'[w].dependsOn) \subseteq 1 .. nextId' - 1
            /\ pc'[w] # "found" => stamp'[w] > 0
      <4> SUFFICES ASSUME NEW w \in Worker, Serving(w)
                   PROVE  /\ snap[w].id < nextId'
                          /\ ParentIds(snap[w].dependsOn) \subseteq 1 .. nextId' - 1
                          /\ pc[w] # "found" => stamp[w] > 0
        BY <2>3, <3>4 DEF workerVars
      <4>1. snap[w].id \in Nat
        BY DEF TypeOK, Snapshot, JobId
      <4>2. /\ snap[w].id < nextId
            /\ ParentIds(snap[w].dependsOn) \subseteq 1 .. nextId - 1
            /\ pc[w] # "found" => stamp[w] > 0
        BY DEF Bookkeeping
      <4> HIDE QueueAssumption
      <4> QED BY <2>2, <3>2, <4>1, <4>2
    <3> QED BY <2>2, <2>3, <3>2, <3>5, <3>6 DEF Bookkeeping
  <2>5. ASSUME NEW j \in Existing(k), EnqueueExisting(j, d)
        PROVE  Bookkeeping'
    <3>1. /\ j \in JobId /\ row[j].status # "none"
          /\ row[j] \in Row /\ row[j].dependsOn \in DependsOn(JobId)
      BY <2>5 DEF Existing, TypeOK, Row
    <3>2. \A i \in JobId :
            row'[i] = IF i = j THEN UpdateJobForEnqueue(row[j], d, clock + 1)
                               ELSE row[i]
      BY <2>5, <3>1 DEF EnqueueExisting, TypeOK
    <3>3. UpdateJobForEnqueue(row[j], d, clock + 1).dependsOn
            = Merge(row[j].dependsOn, d)
      BY <3>1 DEF UpdateJobForEnqueue, Row
    <3>4. ParentIds(Merge(row[j].dependsOn, d)) \subseteq 1 .. nextId - 1
      BY <2>1, <3>1, MergeParents DEF Bookkeeping
    <3>5. UNCHANGED nextId
      BY <2>5 DEF EnqueueExisting
    <3> HIDE DEF Serving, Holding
    <3>6. \A w \in Worker : Serving(w)' <=> Serving(w)
      BY <2>3 DEF workerVars, Serving, Holding
    <3> QED
      BY <2>2, <2>3, <3>1, <3>2, <3>3, <3>4, <3>5, <3>6
      DEF Bookkeeping, workerVars
  <2> QED BY <1>1, <2>4, <2>5 DEF Enqueue
<1> DEFINE RowsKept ==
             \A j \in JobId :
               /\ row'[j].status # "none" => row[j].status # "none" \/ j < nextId
               /\ row'[j].dependsOn \in {row[j].dependsOn, NoDependsOn}
           SnapsKept ==
             \A w \in Worker : Serving(w)' =>
               /\ Serving(w)
               /\ UNCHANGED snap[w]
               /\ pc'[w] # "found" => stamp'[w] > 0
<1>2. ASSUME UNCHANGED <<nextId, clock>>, RowsKept, SnapsKept
      PROVE  Bookkeeping'
  BY <1>2 DEF Bookkeeping, ParentIds, NoDependsOn
<1>3. UNCHANGED row => RowsKept
  OBVIOUS
<1>4. ASSUME NEW w \in Worker, EndTick(w)
      PROVE  SnapsKept
  BY <1>4, EndTickFrame DEF Bookkeeping
<1>5. ASSUME NEW w \in Worker, WorkerStep(w)
      PROVE  Bookkeeping'
  <2>1. CASE FindJob(w)
    <3>1. PICK j \in Runnable : snap' = [snap EXCEPT ![w] =
            [id |-> j, key |-> row[j].key, arg |-> row[j].created,
             dependsOn |-> row[j].dependsOn]]
      BY <2>1 DEF FindJob
    <3>2. j \in JobId /\ row[j].status # "none"
      BY DEF Runnable, TypeOK
    <3>3. /\ \A v \in Worker \ {w} : UNCHANGED <<pc[v], snap[v], stamp[v]>>
          /\ pc'[w] = "found"
          /\ snap'[w].id = j /\ snap'[w].dependsOn = row[j].dependsOn
      BY <2>1, <3>1 DEF FindJob, TypeOK
    <3> QED BY <2>1, <3>2, <3>3 DEF FindJob, dbVars, Bookkeeping
  <2>2. CASE FindNothing(w)
    BY <1>2, <1>3, <1>4, <2>2 DEF FindNothing, dbVars
  <2>3. CASE ReadTime(w)
    <3>1. clock > 0
      BY <2>3 DEF ReadTime, Bookkeeping, TypeOK, Snapshot, JobId
    <3> QED BY <1>2, <1>3, <2>3, <3>1 DEF ReadTime, dbVars, Bookkeeping, TypeOK
  <2>4. CASE Grab(w)
    <3>1. SnapsKept
      BY <2>4 DEF Grab, Bookkeeping, TypeOK
    <3>2. RowsKept
      BY <2>4, StatementFrame DEF Grab, Grabbable, TypeOK
    <3> QED BY <1>2, <2>4, <3>1, <3>2 DEF Grab
  <2>5. CASE GrabNothing(w)
    BY <1>2, <1>3, <1>4, <2>5 DEF GrabNothing, dbVars
  <2>6. CASE Judge(w)
    <3>1. SnapsKept
      BY <2>6 DEF Judge, Decide, Bookkeeping, TypeOK
    <3> QED BY <1>2, <1>3, <2>6, <3>1 DEF Judge, dbVars
  <2>7. CASE ExecuteSucceeds(w)
    <3>1. SnapsKept
      BY <2>7 DEF ExecuteSucceeds, Bookkeeping, TypeOK
    <3> QED BY <1>2, <1>3, <2>7, <3>1 DEF ExecuteSucceeds, dbVars
  <2>8. CASE ExecuteFails(w)
    <3>1. SnapsKept
      BY <2>8 DEF ExecuteFails, Bookkeeping, TypeOK
    <3> QED BY <1>2, <1>3, <2>8, <3>1 DEF ExecuteFails, dbVars
  <2>9. CASE Mark(w)
    <3>1. SnapsKept
      BY <1>4, <2>9 DEF Mark
    <3>2. RowsKept
      <4>1. snap[w].id \in JobId /\ snap[w].id < nextId
        BY <2>9 DEF Mark, TypeOK, Bookkeeping
      <4>2. PICK t \in {MarkJobCompleted(row[snap[w].id]),
                        MarkJobFailed(row[snap[w].id]),
                        MarkJobPermanentlyFailed(row[snap[w].id])} :
              row' = [row EXCEPT ![snap[w].id] = t]
        BY <2>9 DEF Mark
      <4>3. t.dependsOn = row[snap[w].id].dependsOn
        BY <4>1, StatementFrame DEF TypeOK
      <4> QED BY <4>1, <4>2, <4>3 DEF TypeOK
    <3> QED BY <1>2, <2>9, <3>1, <3>2 DEF Mark
  <2>10. CASE Abandon(w)
    BY <1>2, <1>3, <1>4, <2>10 DEF Abandon, dbVars
  <2>11. CASE RecoverStuck(w)
    <3>1. SnapsKept
      BY <2>11 DEF RecoverStuck, Bookkeeping, TypeOK
    <3>2. RowsKept
      BY <2>11, StatementFrame DEF RecoverStuck, Stuck, TypeOK
    <3> QED BY <1>2, <2>11, <3>1, <3>2 DEF RecoverStuck
  <2>12. CASE FailStuck(w)
    <3>1. SnapsKept
      BY <2>12 DEF FailStuck, Bookkeeping, TypeOK
    <3>2. RowsKept
      BY <2>12, StatementFrame DEF FailStuck, Stuck, TypeOK
    <3> QED BY <1>2, <2>12, <3>1, <3>2 DEF FailStuck
  <2>13. CASE Cleanup(w)
    <3>1. SnapsKept
      BY <2>13 DEF Cleanup, Bookkeeping, TypeOK
    <3>2. RowsKept
      BY <2>13 DEF Cleanup, NoRow
    <3> QED BY <1>2, <2>13, <3>1, <3>2 DEF Cleanup
  <2>14. CASE MaintenanceFails(w)
    <3>1. SnapsKept
      BY <2>14 DEF MaintenanceFails, Bookkeeping, TypeOK
    <3> QED BY <1>2, <1>3, <2>14, <3>1 DEF MaintenanceFails, dbVars
  <2>15. CASE Exit(w)
    <3>1. SnapsKept
      BY <2>15 DEF Exit, Bookkeeping, TypeOK
    <3> QED BY <1>2, <1>3, <2>15, <3>1 DEF Exit, dbVars
  <2> QED
    BY <1>5, <2>1, <2>2, <2>3, <2>4, <2>5, <2>6, <2>7, <2>8, <2>9, <2>10,
       <2>11, <2>12, <2>13, <2>14, <2>15 DEF WorkerStep
<1>6. ASSUME NEW w \in Worker, Stop(w) \/ Crash(w) \/ Start(w)
      PROVE  Bookkeeping'
  <2>1. SnapsKept
    BY <1>6 DEF Stop, Crash, Start, Bookkeeping, TypeOK
  <2> QED BY <1>2, <1>3, <1>6, <2>1 DEF Stop, Crash, Start, dbVars
<1>7. ASSUME NEW j \in JobId, TimePasses(j)
      PROVE  Bookkeeping'
  <2>1. SnapsKept
    BY <1>7 DEF TimePasses, RunAfterReached, CutoffReached, DayPassed,
                workerVars, Bookkeeping
  <2> QED
    BY <1>2, <1>3, <1>7, <2>1
    DEF TimePasses, RunAfterReached, CutoffReached, DayPassed
<1>8. CASE UNCHANGED vars
  BY <1>8 DEF vars, Bookkeeping
<1> QED BY <1>1, <1>5, <1>6, <1>7, <1>8 DEF Next

-----------------------------------------------------------------------------
(* Ownership of jobs, for one worker or prompt jobs. *)

LEMMA OverdueHeld ==
  (\A j \in overdue \cap Held : row[j].key \in SlowKey)
    <=> \A w \in Worker : Holding(w) /\ snap[w].id \in overdue
                            => row[snap[w].id].key \in SlowKey
BY DEF Held

LEMMA InitOwnership == Init => Ownership
BY DEF Init, Ownership, HoldsItsJob, ExclusiveExecution, Holding, Held

(* A recovery takes no job from a worker that is at it. *)
LEMMA NoHeldJobIsStuck ==
  ASSUME OneWorkerOrPromptJobs, Ownership,
         NEW w \in Worker, ~Holding(w), NEW v \in Worker, Holding(v)
  PROVE  snap[v].id \notin overdue
BY OverdueHeld DEF OneWorkerOrPromptJobs, Ownership

(* Ownership is kept by the steps in which nobody takes a job, the rows of *)
(* the jobs held stay running and no more jobs become overdue.             *)
LEMMA OwnershipFrame ==
  ASSUME Ownership, overdue' \subseteq overdue,
         \A v \in Worker : Holding(v)' =>
           /\ Holding(v)
           /\ UNCHANGED <<snap[v], stamp[v]>>
           /\ row'[snap[v].id].status = "running"
           /\ row'[snap[v].id].grabbed = row[snap[v].id].grabbed
           /\ row'[snap[v].id].key = row[snap[v].id].key
  PROVE  Ownership'
<1>1. HoldsItsJob' /\ ExclusiveExecution'
  BY DEF Ownership, HoldsItsJob, ExclusiveExecution
<1>2. \A w \in Worker : Holding(w)' /\ snap'[w].id \in overdue'
                           => row'[snap'[w].id].key \in SlowKey
  BY OverdueHeld DEF Ownership
<1>3. (\A j \in overdue \cap Held : row[j].key \in SlowKey)'
  BY <1>2 DEF Held
<1> QED BY <1>1, <1>3 DEF Ownership

LEMMA NextOwnership ==
  ASSUME OneWorkerOrPromptJobs, TypeOK, Bookkeeping, Ownership, [Next]_vars
  PROVE  Ownership'
<1> USE QueueAssumption
<1> DEFINE HoldersKept == \A v \in Worker : Holding(v)' =>
                            Holding(v) /\ UNCHANGED <<snap[v], stamp[v]>>
           HeldRowsKept == \A v \in Worker : Holding(v) =>
             /\ row'[snap[v].id].status = "running"
             /\ row'[snap[v].id].grabbed = row[snap[v].id].grabbed
             /\ row'[snap[v].id].key = row[snap[v].id].key
<1>1. ASSUME overdue' \subseteq overdue, HoldersKept, HeldRowsKept
      PROVE  Ownership'
  BY <1>1, OwnershipFrame
<1>2. UNCHANGED row => HeldRowsKept
  BY DEF Ownership, HoldsItsJob
<1>3. ASSUME NEW w \in Worker, EndTick(w)
      PROVE  HoldersKept
  BY <1>3, EndTickFrame DEF Holding
<1>4. \A v \in Worker : Holding(v) =>
        /\ snap[v].id \in JobId /\ snap[v].id < nextId
        /\ row[snap[v].id].status = "running"
  BY DEF Ownership, HoldsItsJob, TypeOK, Bookkeeping, Serving
<1>5. ASSUME NEW k \in Key \cup {NoKey}, NEW d \in GivenDependsOn, Enqueue(k, d)
      PROVE  Ownership'
  <2>1. HoldersKept
    BY <1>5 DEF Enqueue, workerVars, Holding
  <2>2. CASE EnqueueNew(k, d)
    <3>1. \A i \in JobId \ {nextId} : row'[i] = row[i]
      BY <2>2 DEF EnqueueNew, TypeOK
    <3>2. \A v \in Worker : Holding(v) => snap[v].id # nextId
      BY <1>4 DEF TypeOK, JobId
    <3> QED BY <1>1, <1>4, <1>5, <2>1, <3>1, <3>2 DEF Enqueue
  <2>3. ASSUME NEW j \in Existing(k), EnqueueExisting(j, d)
        PROVE  Ownership'
    <3>1. j \in JobId /\ row[j] \in Row
      BY DEF Existing, TypeOK
    <3>2. /\ row'[j] = UpdateJobForEnqueue(row[j], d, clock + 1)
          /\ \A i \in JobId \ {j} : row'[i] = row[i]
      BY <2>3, <3>1 DEF EnqueueExisting, TypeOK
    <3>3. /\ row'[j].grabbed = row[j].grabbed /\ row'[j].key = row[j].key
          /\ row[j].status = "running" => row'[j].status = "running"
      BY <3>1, <3>2 DEF UpdateJobForEnqueue, Row
    <3> QED BY <1>1, <1>4, <1>5, <2>1, <3>2, <3>3 DEF Enqueue
  <2> QED BY <1>5, <2>2, <2>3 DEF Enqueue
<1>6. ASSUME NEW w \in Worker, WorkerStep(w)
      PROVE  Ownership'
  <2>1. CASE FindJob(w)
    <3>1. HoldersKept
      BY <2>1 DEF FindJob, Holding, TypeOK
    <3> QED BY <1>1, <1>2, <2>1, <3>1 DEF FindJob, dbVars
  <2>2. CASE FindNothing(w)
    BY <1>1, <1>2, <1>3, <2>2 DEF FindNothing, dbVars
  <2>3. CASE ReadTime(w)
    <3>1. HoldersKept
      BY <2>3 DEF ReadTime, Holding, TypeOK
    <3> QED BY <1>1, <1>2, <2>3, <3>1 DEF ReadTime, dbVars
  <2>4. CASE Grab(w)
    <3> DEFINE j == snap[w].id
    <3>1. j \in JobId /\ row[j] \in Row
      BY <2>4 DEF Grab, TypeOK, Serving
    <3>2. /\ row'[j] = GrabJob(row[j], stamp[w])
          /\ \A i \in JobId \ {j} : row'[i] = row[i]
          /\ overdue' = overdue \ {j}
          /\ UNCHANGED <<snap, stamp>>
          /\ \A v \in Worker : Holding(v)' <=> v = w \/ Holding(v)
      BY <2>4, <3>1 DEF Grab, TypeOK, Holding
    <3>3. row'[j].status = "running" /\ row'[j].grabbed = stamp[w]
      BY <3>1, <3>2 DEF GrabJob, Row
    <3>4. \A v \in Worker : Holding(v) => snap[v].id # j
      BY <1>4, <2>4 DEF Grab, Grabbable
    <3>5. HoldsItsJob' /\ ExclusiveExecution'
      BY <1>4, <3>2, <3>3, <3>4 DEF Ownership, HoldsItsJob, ExclusiveExecution
    <3>6. ASSUME NEW v \in Worker, Holding(v)', snap'[v].id \in overdue'
          PROVE  row'[snap'[v].id].key \in SlowKey
      BY <1>4, <3>2, <3>4, <3>6, OverdueHeld DEF Ownership
    <3>7. (\A i \in overdue \cap Held : row[i].key \in SlowKey)'
      BY <3>6 DEF Held
    <3> QED BY <3>5, <3>7 DEF Ownership
  <2>5. CASE GrabNothing(w)
    BY <1>1, <1>2, <1>3, <2>5 DEF GrabNothing, dbVars
  <2>6. CASE Judge(w)
    <3>1. HoldersKept
      BY <2>6 DEF Judge, Decide, Holding, TypeOK
    <3> QED BY <1>1, <1>2, <2>6, <3>1 DEF Judge, dbVars
  <2>7. CASE ExecuteSucceeds(w)
    <3>1. HoldersKept
      BY <2>7 DEF ExecuteSucceeds, Holding, TypeOK
    <3> QED BY <1>1, <1>2, <2>7, <3>1 DEF ExecuteSucceeds, dbVars
  <2>8. CASE ExecuteFails(w)
    <3>1. HoldersKept
      BY <2>8 DEF ExecuteFails, Holding, TypeOK
    <3> QED BY <1>1, <1>2, <2>8, <3>1 DEF ExecuteFails, dbVars
  <2>9. CASE Mark(w)
    <3>1. EndTick(w) /\ overdue' \subseteq overdue
      BY <2>9 DEF Mark
    <3>2. \A i \in JobId \ {snap[w].id} : row'[i] = row[i]
      BY <2>9 DEF Mark, TypeOK
    <3>3. \A v \in Worker \ {w} : Holding(v) => snap[v].id # snap[w].id
      BY <2>9 DEF Mark, Holding, Ownership, ExclusiveExecution
    <3>4. ~Holding(w)'
      BY <3>1, EndTickFrame
    <3> QED BY <1>3, <1>4, <3>1, <3>2, <3>3, <3>4, OwnershipFrame
  <2>10. CASE Abandon(w)
    BY <1>1, <1>2, <1>3, <2>10 DEF Abandon, dbVars
  <2>11. CASE RecoverStuck(w)
    <3>1. HoldersKept /\ ~Holding(w)
      BY <2>11 DEF RecoverStuck, Holding, TypeOK
    <3>2. HeldRowsKept
      BY <1>4, <2>11, <3>1, NoHeldJobIsStuck DEF RecoverStuck, Stuck
    <3> QED BY <1>1, <2>11, <3>1, <3>2 DEF RecoverStuck
  <2>12. CASE FailStuck(w)
    <3>1. HoldersKept /\ ~Holding(w)
      BY <2>12 DEF FailStuck, Holding, TypeOK
    <3>2. HeldRowsKept
      BY <1>4, <2>12, <3>1, NoHeldJobIsStuck DEF FailStuck, Stuck
    <3> QED BY <1>1, <2>12, <3>1, <3>2 DEF FailStuck
  <2>13. CASE Cleanup(w)
    <3>1. HoldersKept
      BY <2>13 DEF Cleanup, Holding, TypeOK
    <3>2. HeldRowsKept
      BY <1>4, <2>13 DEF Cleanup, Cleanable
    <3> QED BY <1>1, <2>13, <3>1, <3>2 DEF Cleanup
  <2>14. CASE MaintenanceFails(w)
    <3>1. HoldersKept
      BY <2>14 DEF MaintenanceFails, Holding, TypeOK
    <3> QED BY <1>1, <1>2, <2>14, <3>1 DEF MaintenanceFails, dbVars
  <2>15. CASE Exit(w)
    <3>1. HoldersKept
      BY <2>15 DEF Exit, Holding, TypeOK
    <3> QED BY <1>1, <1>2, <2>15, <3>1 DEF Exit, dbVars
  <2> QED
    BY <1>6, <2>1, <2>2, <2>3, <2>4, <2>5, <2>6, <2>7, <2>8, <2>9, <2>10,
       <2>11, <2>12, <2>13, <2>14, <2>15 DEF WorkerStep
<1>7. ASSUME NEW w \in Worker, Stop(w) \/ Crash(w) \/ Start(w)
      PROVE  Ownership'
  <2>1. HoldersKept
    BY <1>7 DEF Stop, Crash, Start, Holding, TypeOK
  <2> QED BY <1>1, <1>2, <1>7, <2>1 DEF Stop, Crash, Start, dbVars
<1>8. ASSUME NEW j \in JobId, TimePasses(j)
      PROVE  Ownership'
  <2>1. HoldersKept /\ UNCHANGED <<row, workerVars>>
    BY <1>8 DEF TimePasses, RunAfterReached, CutoffReached, DayPassed,
                workerVars, Holding
  <2>2. CASE RunAfterReached(j) \/ DayPassed(j)
    BY <1>1, <1>2, <2>1, <2>2 DEF RunAfterReached, DayPassed
  <2>3. CASE CutoffReached(j)
    <3>1. HoldsItsJob' /\ ExclusiveExecution' /\ Held' = Held
      BY <2>1 DEF Ownership, HoldsItsJob, ExclusiveExecution, Holding, Held,
                  workerVars
    <3> QED BY <2>1, <2>3, <3>1 DEF CutoffReached, Ownership
  <2> QED BY <1>8, <2>2, <2>3 DEF TimePasses
<1>9. CASE UNCHANGED vars
  <2>1. HoldersKept
    BY <1>9 DEF vars, Holding
  <2> QED BY <1>1, <1>2, <1>9, <2>1 DEF vars
<1> QED BY <1>5, <1>6, <1>7, <1>8, <1>9 DEF Next

-----------------------------------------------------------------------------
(* Running rows, retries, history and dependencies. *)

(* No outcome leaves its row running. *)
LEMMA MarkedIsNotRunning ==
  ASSUME NEW r \in Row
  PROVE  \A t \in {MarkJobCompleted(r), MarkJobFailed(r),
                   MarkJobPermanentlyFailed(r)} : t.status # "running"
BY DEF Row, MarkJobCompleted, MarkJobFailed, MarkJobPermanentlyFailed

(* The steps that write the jobs table. *)
LEMMA RowWriters ==
  ASSUME [Next]_vars
  PROVE  \/ UNCHANGED row
         \/ \E k \in Key \cup {NoKey}, d \in GivenDependsOn : Enqueue(k, d)
         \/ \E w \in Worker : \/ Grab(w) \/ Mark(w) \/ RecoverStuck(w)
                              \/ FailStuck(w) \/ Cleanup(w)
<1>1. ASSUME NEW w \in Worker, WorkerStep(w)
      PROVE  \/ UNCHANGED row
             \/ Grab(w) \/ Mark(w) \/ RecoverStuck(w) \/ FailStuck(w) \/ Cleanup(w)
  BY <1>1 DEF WorkerStep, FindJob, FindNothing, ReadTime, GrabNothing, Judge,
              ExecuteSucceeds, ExecuteFails, Abandon, MaintenanceFails, Exit, dbVars
<1>2. ASSUME NEW w \in Worker, Stop(w) \/ Crash(w) \/ Start(w)
      PROVE  UNCHANGED row
  BY <1>2 DEF Stop, Crash, Start, dbVars
<1>3. ASSUME NEW j \in JobId, TimePasses(j)
      PROVE  UNCHANGED row
  BY <1>3 DEF TimePasses, RunAfterReached, CutoffReached, DayPassed
<1>4. UNCHANGED vars => UNCHANGED row
  BY DEF vars
<1> QED BY <1>1, <1>2, <1>3, <1>4 DEF Next

(* What an enqueue makes of the table. *)
LEMMA EnqueueEffect ==
  ASSUME TypeOK, NEW k \in Key \cup {NoKey}, NEW d \in GivenDependsOn, Enqueue(k, d)
  PROVE  /\ UNCHANGED <<overdue, expired, workerVars, historyVars>>
         /\ clock' = clock + 1
         /\ \E j \in JobId :
              /\ \A i \in JobId \ {j} : row'[i] = row[i]
              /\ row'[j].created = clock + 1 /\ row'[j].retry = 0
              /\ row'[j].status \in {"pending", "running"}
              /\ row'[j].status = "running" =>
                   row[j].status = "running" /\ row'[j].grabbed = row[j].grabbed
              /\ \/ nextId' = nextId + 1 /\ j = nextId
                 \/ nextId' = nextId /\ row[j].status # "none"
<1> USE QueueAssumption
<1>1. CASE EnqueueNew(k, d)
  <2>1. /\ nextId \in JobId
        /\ row'[nextId] = EnqueueJob(k, d, clock + 1)
        /\ \A i \in JobId \ {nextId} : row'[i] = row[i]
    BY <1>1 DEF EnqueueNew, TypeOK, JobId
  <2>2. /\ row'[nextId].created = clock + 1 /\ row'[nextId].retry = 0
        /\ row'[nextId].status = "pending"
    BY <2>1 DEF EnqueueJob
  <2> QED BY <1>1, <2>1, <2>2 DEF Enqueue, EnqueueNew
<1>2. ASSUME NEW j \in Existing(k), EnqueueExisting(j, d)
      PROVE  /\ j \in JobId
             /\ \A i \in JobId \ {j} : row'[i] = row[i]
             /\ row'[j].created = clock + 1 /\ row'[j].retry = 0
             /\ row'[j].status \in {"pending", "running"}
             /\ row'[j].status = "running" =>
                  row[j].status = "running" /\ row'[j].grabbed = row[j].grabbed
             /\ nextId' = nextId /\ row[j].status # "none"
  <2>1. j \in JobId /\ row[j] \in Row /\ row[j].status # "none"
    BY DEF Existing, TypeOK
  <2>2. /\ row'[j] = UpdateJobForEnqueue(row[j], d, clock + 1)
        /\ \A i \in JobId \ {j} : row'[i] = row[i]
    BY <1>2, <2>1 DEF EnqueueExisting, TypeOK
  <2>3. LET u == UpdateJobForEnqueue(row[j], d, clock + 1) IN
        /\ u.created = clock + 1 /\ u.retry = 0
        /\ u.status \in {"pending", "running"}
        /\ u.status = "running" => row[j].status = "running"
        /\ u.grabbed = row[j].grabbed
    BY <2>1 DEF UpdateJobForEnqueue, Row
  <2>4. nextId' = nextId
    BY <1>2 DEF EnqueueExisting
  <2> QED BY <2>1, <2>2, <2>3, <2>4
<1> QED BY <1>1, <1>2 DEF Enqueue

(* What the recording of an outcome makes of the table. *)
LEMMA MarkEffect ==
  ASSUME TypeOK, Bookkeeping, Ownership, NEW w \in Worker, Mark(w)
  PROVE  LET j == snap[w].id IN
         /\ j \in JobId /\ j < nextId
         /\ row[j] \in Row /\ row[j].status = "running"
         /\ row[j].grabbed = stamp[w] /\ stamp[w] > 0
         /\ \A i \in JobId \ {j} : row'[i] = row[i]
         /\ \/ outcome[w] = "done" /\ row'[j] = MarkJobCompleted(row[j])
            \/ row'[j] = MarkJobFailed(row[j])
            \/ row'[j] = MarkJobPermanentlyFailed(row[j])
         /\ row'[j].status \notin {"running", "none"}
         /\ EndTick(w)
         /\ UNCHANGED <<nextId, clock, historyVars>>
<1> DEFINE j == snap[w].id
<1>1. /\ j \in JobId /\ j < nextId /\ row[j] \in Row /\ row[j].status = "running"
      /\ row[j].grabbed = stamp[w] /\ stamp[w] > 0
  BY DEF Mark, TypeOK, Bookkeeping, Ownership, HoldsItsJob, Serving, Holding
<1>2. /\ \A i \in JobId \ {j} : row'[i] = row[i]
      /\ \/ outcome[w] = "done" /\ row'[j] = MarkJobCompleted(row[j])
         \/ row'[j] = MarkJobFailed(row[j])
         \/ row'[j] = MarkJobPermanentlyFailed(row[j])
  BY <1>1 DEF Mark, TypeOK
<1>3. row'[j].status \notin {"running", "none"}
  <2> HIDE DEF j
  <2> QED BY <1>1, <1>2, MarkedIsNotRunning, StatementFrame
<1> QED BY <1>1, <1>2, <1>3 DEF Mark

LEMMA InitAccounted == Init => RunningIsAccountedFor
BY DEF Init, RunningIsAccountedFor, NoRow

LEMMA AccountedFrame ==
  ASSUME RunningIsAccountedFor,
         \A j \in JobId : row'[j].status = "running" =>
           /\ row[j].status = "running"
           /\ j \in orphaned => j \in orphaned',
         \A v \in Worker : Holding(v) =>
           \/ Holding(v)' /\ UNCHANGED snap[v]
           \/ snap[v].id \in orphaned'
           \/ row'[snap[v].id].status # "running"
  PROVE  RunningIsAccountedFor'
<1> SUFFICES ASSUME NEW j \in JobId, row'[j].status = "running"
             PROVE  j \in Held' \cup orphaned'
  BY DEF RunningIsAccountedFor
<1>1. CASE j \in orphaned
  BY <1>1
<1>2. CASE j \in Held
  BY <1>2 DEF Held
<1> QED BY <1>1, <1>2 DEF RunningIsAccountedFor

LEMMA NextAccounted ==
  ASSUME OneWorkerOrPromptJobs, TypeOK, Bookkeeping, Ownership,
         RunningIsAccountedFor, [Next]_vars
  PROVE  RunningIsAccountedFor'
<1> DEFINE HoldersStay == \A v \in Worker : Holding(v) =>
                            Holding(v)' /\ UNCHANGED snap[v]
<1>1. ASSUME UNCHANGED <<row, orphaned>>, HoldersStay
      PROVE  RunningIsAccountedFor'
  BY <1>1, AccountedFrame
<1>2. ASSUME NEW w \in Worker, EndTick(w)
      PROVE  \A v \in Worker \ {w} : Holding(v) =>
               Holding(v)' /\ UNCHANGED snap[v]
  BY <1>2, EndTickFrame DEF Holding
<1>3. ASSUME NEW k \in Key \cup {NoKey}, NEW d \in GivenDependsOn, Enqueue(k, d)
      PROVE  RunningIsAccountedFor'
  <2>1. UNCHANGED orphaned /\ HoldersStay
    BY <1>3, EnqueueEffect DEF workerVars, historyVars, Holding
  <2>2. \A j \in JobId : row'[j].status = "running" => row[j].status = "running"
    BY <1>3, EnqueueEffect
  <2> QED BY <2>1, <2>2, AccountedFrame
<1>4. ASSUME NEW w \in Worker, WorkerStep(w)
      PROVE  RunningIsAccountedFor'
  <2>1. CASE FindJob(w) \/ ReadTime(w) \/ Judge(w) \/ ExecuteSucceeds(w)
             \/ ExecuteFails(w) \/ MaintenanceFails(w) \/ Exit(w)
    <3>1. HoldersStay
      BY <2>1 DEF FindJob, ReadTime, Judge, Decide, ExecuteSucceeds, ExecuteFails,
                  MaintenanceFails, Exit, MayExit, Holding, TypeOK
    <3> QED BY <1>1, <2>1, <3>1
            DEF FindJob, ReadTime, Judge, ExecuteSucceeds, ExecuteFails,
                MaintenanceFails, Exit, dbVars, historyVars
  <2>2. CASE FindNothing(w) \/ GrabNothing(w)
    <3>1. HoldersStay
      BY <1>2, <2>2 DEF FindNothing, GrabNothing, Holding
    <3> QED BY <1>1, <2>2, <3>1 DEF FindNothing, GrabNothing, dbVars, historyVars
  <2>3. CASE Grab(w)
    <3>1. /\ snap[w].id \in Held' /\ Held \subseteq Held' /\ UNCHANGED orphaned
          /\ \A i \in JobId \ {snap[w].id} : row'[i] = row[i]
      BY <2>3 DEF Grab, Held, Holding, TypeOK, historyVars
    <3> QED BY <3>1 DEF RunningIsAccountedFor
  <2>4. CASE Mark(w)
    <3>1. /\ row'[snap[w].id].status # "running" /\ UNCHANGED orphaned
          /\ \A i \in JobId \ {snap[w].id} : row'[i] = row[i]
      BY <2>4, MarkEffect DEF historyVars
    <3>2. \A v \in Worker \ {w} : Holding(v) =>
            Holding(v)' /\ UNCHANGED snap[v]
      BY <1>2, <2>4 DEF Mark
    <3> QED BY <3>1, <3>2, AccountedFrame
  <2>5. CASE Abandon(w)
    <3>1. /\ orphaned' = orphaned \cup {snap[w].id} /\ UNCHANGED row
          /\ \A v \in Worker \ {w} : Holding(v) =>
               Holding(v)' /\ UNCHANGED snap[v]
      BY <1>2, <2>5 DEF Abandon, dbVars
    <3> QED BY <3>1, AccountedFrame
  <2>6. CASE RecoverStuck(w) \/ FailStuck(w)
    <3>1. HoldersStay
      BY <2>6 DEF RecoverStuck, FailStuck, Holding, TypeOK
    <3>2. \A j \in JobId : row'[j].status = "running" =>
            row[j].status = "running" /\ (j \in orphaned => j \in orphaned')
      <4>1. \A j \in JobId : /\ RecoverStuckJob(row[j]).status # "running"
                             /\ FailStuckJob(row[j]).status # "running"
        BY DEF TypeOK, Row, RecoverStuckJob, FailStuckJob
      <4> QED BY <2>6, <4>1 DEF RecoverStuck, FailStuck
    <3> QED BY <3>1, <3>2, AccountedFrame
  <2>7. CASE Cleanup(w)
    <3>1. HoldersStay
      BY <2>7 DEF Cleanup, Holding, TypeOK
    <3>2. \A j \in JobId : row'[j].status = "running" => row[j].status = "running"
      BY <2>7 DEF Cleanup, NoRow
    <3> QED BY <2>7, <3>1, <3>2, AccountedFrame DEF Cleanup, historyVars
  <2> QED BY <1>4, <2>1, <2>2, <2>3, <2>4, <2>5, <2>6, <2>7 DEF WorkerStep
<1>5. ASSUME NEW w \in Worker, Stop(w) \/ Start(w)
      PROVE  RunningIsAccountedFor'
  <2>1. HoldersStay
    BY <1>5 DEF Stop, Start, Holding, TypeOK
  <2> QED BY <1>1, <1>5, <2>1 DEF Stop, Start, dbVars, historyVars
<1>6. ASSUME NEW w \in Worker, Crash(w)
      PROVE  RunningIsAccountedFor'
  <2>1. /\ orphaned \subseteq orphaned' /\ UNCHANGED row
        /\ Holding(w) => snap[w].id \in orphaned'
        /\ \A v \in Worker \ {w} : Holding(v) =>
             Holding(v)' /\ UNCHANGED snap[v]
    BY <1>6 DEF Crash, Holding, TypeOK, dbVars
  <2> QED BY <2>1, AccountedFrame
<1>7. ASSUME NEW j \in JobId, TimePasses(j)
      PROVE  RunningIsAccountedFor'
  BY <1>1, <1>7
  DEF TimePasses, RunAfterReached, CutoffReached, DayPassed, workerVars,
      historyVars, Holding
<1>8. CASE UNCHANGED vars
  BY <1>1, <1>8 DEF vars, Holding
<1> QED BY <1>3, <1>4, <1>5, <1>6, <1>7, <1>8 DEF Next

(* What the maintenance makes of a row. *)
LEMMA MaintenanceEffect ==
  ASSUME TypeOK, NEW w \in Worker, RecoverStuck(w) \/ FailStuck(w) \/ Cleanup(w),
         NEW j \in JobId
  PROVE  /\ \/ row'[j] = row[j]
            \/ /\ row[j].status = "running" /\ row[j].retry < MaxRetries
               /\ row'[j].status = "pending" /\ row'[j].retry = row[j].retry + 1
            \/ /\ row[j].status = "running"
               /\ row'[j].status = "failed" /\ row'[j].retry = row[j].retry
            \/ /\ row[j].status = "completed"
               /\ row'[j].status = "none" /\ row'[j].retry = 0
         /\ UNCHANGED <<nextId, clock, snap, stamp, outcome, ranArg, ranAt>>
         /\ ~Serving(w)'
         /\ \A v \in Worker \ {w} : UNCHANGED pc[v]
<1>1. CASE RecoverStuck(w)
  <2>1. /\ RecoverStuckJob(row[j]).status = "pending"
        /\ RecoverStuckJob(row[j]).retry = row[j].retry + 1
    BY DEF TypeOK, Row, RecoverStuckJob
  <2> QED BY <1>1, <2>1 DEF RecoverStuck, Recoverable, Stuck, Serving, Holding, TypeOK
<1>2. CASE FailStuck(w)
  <2>1. /\ FailStuckJob(row[j]).status = "failed"
        /\ FailStuckJob(row[j]).retry = row[j].retry
    BY DEF TypeOK, Row, FailStuckJob
  <2> QED BY <1>2, <2>1 DEF FailStuck, Stuck, Serving, Holding, TypeOK
<1>3. CASE Cleanup(w)
  BY <1>3 DEF Cleanup, Cleanable, NoRow, Serving, Holding, TypeOK, historyVars
<1> QED BY <1>1, <1>2, <1>3

LEMMA InitTimes == Init => TimesHavePassed
BY DEF Init, TimesHavePassed, NoRow

(* The steps that move a worker's stamp. *)
LEMMA StampWriters ==
  ASSUME TypeOK, TimesHavePassed, [Next]_vars
  PROVE  clock <= clock' /\ \A v \in Worker : stamp'[v] <= clock'
<1>1. clock \in Nat /\ \A v \in Worker : stamp[v] \in Nat /\ stamp[v] <= clock
  BY QueueAssumption DEF TypeOK, TimesHavePassed
<1>2. ASSUME NEW k \in Key \cup {NoKey}, NEW d \in GivenDependsOn, Enqueue(k, d)
      PROVE  UNCHANGED stamp /\ clock' = clock + 1
  BY <1>2 DEF Enqueue, workerVars
<1>3. ASSUME NEW w \in Worker, WorkerStep(w)
      PROVE  clock' = clock /\ \E n \in {0, clock, stamp[w]} :
               stamp' = [stamp EXCEPT ![w] = n]
  <2>1. CASE ReadTime(w) \/ Mark(w)
    BY <2>1 DEF ReadTime, Mark, EndTick, dbVars
  <2>2. CASE FindNothing(w) \/ GrabNothing(w) \/ Abandon(w)
    BY <2>2 DEF FindNothing, GrabNothing, Abandon, EndTick, dbVars
  <2>3. CASE ~(ReadTime(w) \/ Mark(w) \/ FindNothing(w) \/ GrabNothing(w)
               \/ Abandon(w))
    <3>1. UNCHANGED <<clock, stamp>>
      BY <1>3, <2>3 DEF WorkerStep, FindJob, Grab, Judge, ExecuteSucceeds,
           ExecuteFails, RecoverStuck, FailStuck, Cleanup, MaintenanceFails,
           Exit, dbVars
    <3> QED BY <3>1 DEF TypeOK
  <2> QED BY <2>1, <2>2, <2>3
<1>4. ASSUME NEW w \in Worker, Stop(w) \/ Crash(w) \/ Start(w)
      PROVE  clock' = clock /\ \E n \in {0, clock, stamp[w]} :
               stamp' = [stamp EXCEPT ![w] = n]
  BY <1>4 DEF Stop, Crash, Start, dbVars, TypeOK
<1>5. ASSUME NEW j \in JobId, TimePasses(j)
      PROVE  UNCHANGED <<clock, stamp>>
  BY <1>5 DEF TimePasses, RunAfterReached, CutoffReached, DayPassed, workerVars
<1>6. UNCHANGED vars => UNCHANGED <<clock, stamp>>
  BY DEF vars
<1>7. CASE clock' = clock + 1 /\ UNCHANGED stamp
  BY <1>1, <1>7
<1>8. CASE UNCHANGED <<clock, stamp>>
  BY <1>1, <1>8
<1>9. ASSUME NEW w \in Worker, NEW n \in {0, clock, stamp[w]},
             clock' = clock, stamp' = [stamp EXCEPT ![w] = n]
      PROVE  clock <= clock' /\ \A v \in Worker : stamp'[v] <= clock'
  <2>1. n <= clock
    BY <1>1
  <2> QED BY <1>1, <1>9, <2>1 DEF TypeOK
<1> QED BY <1>2, <1>3, <1>4, <1>5, <1>6, <1>7, <1>8, <1>9 DEF Next

LEMMA NextTimes ==
  ASSUME TypeOK, Bookkeeping, Ownership, TimesHavePassed, [Next]_vars
  PROVE  TimesHavePassed'
<1> DEFINE Past == \A j \in JobId : row'[j].status = "running" =>
                     row'[j].grabbed \in 1..clock'
<1> SUFFICES Past
  BY StampWriters DEF TimesHavePassed
<1>1. clock \in Nat /\ clock' \in Nat /\ clock <= clock'
  BY QueueAssumption, NextType, StampWriters DEF TypeOK
<1>2. CASE UNCHANGED row
  BY <1>1, <1>2 DEF TimesHavePassed
<1>3. ASSUME NEW k \in Key \cup {NoKey}, NEW d \in GivenDependsOn, Enqueue(k, d)
      PROVE  Past
  BY <1>1, <1>3, EnqueueEffect DEF TimesHavePassed
<1>4. ASSUME NEW w \in Worker, Grab(w)
      PROVE  Past
  <2> DEFINE j == snap[w].id
  <2>1. j \in JobId /\ row[j] \in Row /\ stamp[w] \in 1..clock
    BY <1>1, <1>4 DEF Grab, TypeOK, Bookkeeping, TimesHavePassed, Serving
  <2>2. /\ row'[j] = GrabJob(row[j], stamp[w])
        /\ \A i \in JobId \ {j} : row'[i] = row[i]
        /\ clock' = clock
    BY <1>4, <2>1 DEF Grab, TypeOK
  <2>3. row'[j].grabbed = stamp[w]
    BY <2>1, <2>2 DEF GrabJob, Row
  <2> HIDE DEF j
  <2> QED BY <2>1, <2>2, <2>3 DEF TimesHavePassed
<1>5. ASSUME NEW w \in Worker, Mark(w)
      PROVE  Past
  BY <1>1, <1>5, MarkEffect DEF TimesHavePassed
<1>6. ASSUME NEW w \in Worker, RecoverStuck(w) \/ FailStuck(w) \/ Cleanup(w)
      PROVE  Past
  BY <1>1, <1>6, MaintenanceEffect DEF TimesHavePassed
<1> QED BY <1>2, <1>3, <1>4, <1>5, <1>6, RowWriters

-----------------------------------------------------------------------------
LEMMA InitRetries == Init => RetryBounded
BY QueueAssumption DEF Init, RetryBounded, NoRow

LEMMA NextRetries ==
  ASSUME TypeOK, Bookkeeping, Ownership, RetryBounded, [Next]_vars
  PROVE  RetryBounded'
<1> USE QueueAssumption
<1> DEFINE Bounded(r) ==
             r.retry <= IF r.status \in {"pending", "running"}
                        THEN MaxRetries ELSE MaxRetries + 1
<1>1. \A j \in JobId : row[j] \in Row /\ row[j].retry \in Nat /\ Bounded(row[j])
  BY DEF TypeOK, RetryBounded, Row
<1>2. ASSUME NEW k \in Key \cup {NoKey}, NEW d \in GivenDependsOn, Enqueue(k, d)
      PROVE  RetryBounded'
  BY <1>1, <1>2, EnqueueEffect DEF RetryBounded
<1>3. ASSUME NEW w \in Worker, Grab(w)
      PROVE  RetryBounded'
  <2> DEFINE j == snap[w].id
  <2>1. j \in JobId /\ row[j].status = "pending"
    BY <1>3 DEF Grab, Grabbable, TypeOK, Serving
  <2>2. /\ row'[j] = GrabJob(row[j], stamp[w])
        /\ \A i \in JobId \ {j} : row'[i] = row[i]
    BY <1>3, <2>1 DEF Grab, TypeOK
  <2>3. GrabJob(row[j], stamp[w]).retry = row[j].retry
    BY <1>1, <2>1 DEF GrabJob, Row
  <2> QED BY <1>1, <2>1, <2>2, <2>3 DEF RetryBounded
<1>4. ASSUME NEW w \in Worker, Mark(w)
      PROVE  RetryBounded'
  <2> DEFINE j == snap[w].id
  <2>1. /\ j \in JobId /\ row[j].retry <= MaxRetries
        /\ \A i \in JobId \ {j} : row'[i] = row[i]
    BY <1>1, <1>4, MarkEffect
  <2>2. /\ Bounded(MarkJobCompleted(row[j])) /\ Bounded(MarkJobFailed(row[j]))
        /\ Bounded(MarkJobPermanentlyFailed(row[j]))
    BY <1>1, <2>1
    DEF MarkJobCompleted, MarkJobFailed, MarkJobPermanentlyFailed, Row
  <2>3. Bounded(row'[j])
    <3> HIDE DEF Bounded
    <3> QED BY <1>4, <2>2, MarkEffect
  <2> QED BY <1>1, <2>1, <2>3 DEF RetryBounded
<1>5. ASSUME NEW w \in Worker, RecoverStuck(w) \/ FailStuck(w) \/ Cleanup(w)
      PROVE  RetryBounded'
  BY <1>1, <1>5, MaintenanceEffect DEF RetryBounded
<1>6. CASE UNCHANGED row
  BY <1>6 DEF RetryBounded
<1> QED BY <1>2, <1>3, <1>4, <1>5, <1>6, RowWriters

-----------------------------------------------------------------------------
LEMMA InitHistory == Init => HistoryAgrees
BY DEF Init, HistoryAgrees, CompletedAfterLastEnqueue, MissingParentsSucceeded,
       NoRow, JobId

(* The history agrees with the table after a step that leaves it alone,    *)
(* completes no other row and removes none that has not succeeded.         *)
LEMMA HistoryFrame ==
  ASSUME HistoryAgrees, UNCHANGED <<nextId, ranAt>>,
         \A w \in Worker : pc'[w] = "finishing" /\ outcome'[w] = "done" =>
           /\ pc[w] = "finishing" /\ outcome[w] = "done"
           /\ UNCHANGED <<snap[w], stamp[w]>>,
         \A j \in JobId :
           \/ row'[j] = row[j]
           \/ row'[j].status \notin {"completed", "none"}
           \/ row'[j].status = "none" /\ row[j].status = "completed"
  PROVE  HistoryAgrees'
BY DEF HistoryAgrees, CompletedAfterLastEnqueue, MissingParentsSucceeded

LEMMA NextHistory ==
  ASSUME TypeOK, Bookkeeping, Ownership, HistoryAgrees, [Next]_vars
  PROVE  HistoryAgrees'
<1> DEFINE DoneKept ==
             \A w \in Worker : pc'[w] = "finishing" /\ outcome'[w] = "done" =>
               /\ pc[w] = "finishing" /\ outcome[w] = "done"
               /\ UNCHANGED <<snap[w], stamp[w]>>
<1>1. ASSUME UNCHANGED <<row, nextId, ranAt>>, DoneKept
      PROVE  HistoryAgrees'
  BY <1>1, HistoryFrame
<1>2. ASSUME NEW w \in Worker, EndTick(w)
      PROVE  DoneKept
  BY <1>2, EndTickFrame DEF Holding
<1>3. ASSUME NEW k \in Key \cup {NoKey}, NEW d \in GivenDependsOn, Enqueue(k, d)
      PROVE  HistoryAgrees'
  <2>1. nextId \in Nat
    BY DEF TypeOK
  <2>2. UNCHANGED <<ranAt, pc, outcome, snap, stamp>>
    BY <1>3, EnqueueEffect DEF workerVars, historyVars
  <2>3. PICK j \in JobId :
          /\ \A i \in JobId \ {j} : row'[i] = row[i]
          /\ row'[j].status \in {"pending", "running"}
          /\ (nextId' = nextId + 1 /\ j = nextId) \/ nextId' = nextId
    BY <1>3, EnqueueEffect
  <2>4. \A i \in JobId \ {j} : i < nextId' => i < nextId
    BY <2>1, <2>3 DEF JobId
  <2> QED
    BY <2>2, <2>3, <2>4
    DEF HistoryAgrees, CompletedAfterLastEnqueue, MissingParentsSucceeded
<1>4. ASSUME NEW w \in Worker, WorkerStep(w)
      PROVE  HistoryAgrees'
  <2>1. CASE FindJob(w) \/ ReadTime(w) \/ Judge(w) \/ ExecuteFails(w)
             \/ MaintenanceFails(w) \/ Exit(w)
    <3>1. DoneKept
      BY <2>1 DEF FindJob, ReadTime, Judge, Decide, ExecuteFails,
                  MaintenanceFails, Exit, MayExit, TypeOK
    <3> QED BY <1>1, <2>1, <3>1
            DEF FindJob, ReadTime, Judge, ExecuteFails, MaintenanceFails, Exit,
                dbVars, historyVars
  <2>2. CASE FindNothing(w) \/ GrabNothing(w) \/ Abandon(w)
    BY <1>1, <1>2, <2>2
    DEF FindNothing, GrabNothing, Abandon, dbVars, historyVars
  <2>3. CASE Grab(w)
    <3>1. DoneKept /\ UNCHANGED <<nextId, ranAt>>
      BY <2>3 DEF Grab, TypeOK, historyVars
    <3>2. snap[w].id \in JobId
      BY <2>3 DEF Grab, TypeOK, Serving
    <3>3. /\ row'[snap[w].id].status = "running"
          /\ \A i \in JobId \ {snap[w].id} : row'[i] = row[i]
      BY <2>3, <3>2 DEF Grab, GrabJob, TypeOK, Row
    <3> QED BY <3>1, <3>3, HistoryFrame
  <2>4. CASE ExecuteSucceeds(w)
    <3> DEFINE j == snap[w].id
    <3>1. /\ j \in JobId /\ row[j].status = "running" /\ stamp[w] > 0
          /\ \A v \in Worker \ {w} : pc[v] = "finishing" => snap[v].id # j
      BY <2>4 DEF ExecuteSucceeds, TypeOK, Bookkeeping, Ownership, HoldsItsJob,
                  ExclusiveExecution, Serving, Holding
    <3>2. /\ UNCHANGED <<row, nextId, snap, stamp>>
          /\ ranAt'[j] = stamp[w] /\ \A i \in JobId \ {j} : ranAt'[i] = ranAt[i]
          /\ \A v \in Worker \ {w} : UNCHANGED <<pc[v], outcome[v]>>
      BY <2>4, <3>1 DEF ExecuteSucceeds, TypeOK, dbVars
    <3>3. \A v \in Worker : pc[v] = "finishing" => snap[v].id \in JobId
      BY DEF TypeOK, Serving, Holding
    <3> QED
      BY <3>1, <3>2, <3>3
      DEF HistoryAgrees, CompletedAfterLastEnqueue, MissingParentsSucceeded
  <2>5. CASE Mark(w)
    <3> DEFINE j == snap[w].id
    <3>1. DoneKept
      BY <1>2, <2>5 DEF Mark
    <3>2. /\ j \in JobId /\ row[j] \in Row
          /\ row[j].grabbed = stamp[w] /\ stamp[w] > 0
          /\ \A i \in JobId \ {j} : row'[i] = row[i]
          /\ UNCHANGED <<nextId, ranAt>>
          /\ row'[j].status # "none"
      BY <2>5, MarkEffect DEF historyVars
    <3>3. CASE outcome[w] = "done" /\ row'[j] = MarkJobCompleted(row[j])
      <4>1. ranAt[j] = stamp[w]
        BY <2>5, <3>3 DEF Mark, HistoryAgrees
      <4>2. row'[j].created = row[j].created
        BY <3>2, <3>3, StatementFrame
      <4>3. row'[j].status = "completed" => row[j].created <= stamp[w]
        BY <3>2, <3>3 DEF MarkJobCompleted, Reenqueued, Row, TypeOK
      <4> QED
        BY <3>1, <3>2, <4>1, <4>2, <4>3
        DEF HistoryAgrees, CompletedAfterLastEnqueue, MissingParentsSucceeded, TypeOK
    <3>4. CASE \/ row'[j] = MarkJobFailed(row[j])
               \/ row'[j] = MarkJobPermanentlyFailed(row[j])
      <4>1. /\ MarkJobFailed(row[j]).status # "completed"
            /\ MarkJobPermanentlyFailed(row[j]).status # "completed"
        BY <3>2 DEF MarkJobFailed, MarkJobPermanentlyFailed, Row
      <4> HIDE DEF j
      <4> QED BY <3>1, <3>2, <3>4, <4>1, HistoryFrame
    <3> QED BY <2>5, <3>3, <3>4, MarkEffect
  <2>6. CASE RecoverStuck(w) \/ FailStuck(w) \/ Cleanup(w)
    <3>1. DoneKept /\ UNCHANGED <<nextId, ranAt>>
      BY <2>6 DEF RecoverStuck, FailStuck, Cleanup, historyVars, TypeOK
    <3>2. \A j \in JobId :
            \/ row'[j] = row[j]
            \/ row'[j].status \notin {"completed", "none"}
            \/ row'[j].status = "none" /\ row[j].status = "completed"
      BY <2>6, MaintenanceEffect
    <3> QED BY <3>1, <3>2, HistoryFrame
  <2> QED BY <1>4, <2>1, <2>2, <2>3, <2>4, <2>5, <2>6 DEF WorkerStep
<1>5. ASSUME NEW w \in Worker, Stop(w) \/ Crash(w) \/ Start(w)
      PROVE  HistoryAgrees'
  <2>1. DoneKept
    BY <1>5 DEF Stop, Crash, Start, TypeOK
  <2> QED BY <1>1, <1>5, <2>1 DEF Stop, Crash, Start, dbVars, historyVars
<1>6. ASSUME NEW j \in JobId, TimePasses(j)
      PROVE  HistoryAgrees'
  BY <1>1, <1>6
  DEF TimePasses, RunAfterReached, CutoffReached, DayPassed, workerVars,
      historyVars
<1>7. CASE UNCHANGED vars
  BY <1>1, <1>7 DEF vars
<1> QED BY <1>3, <1>4, <1>5, <1>6, <1>7 DEF Next

-----------------------------------------------------------------------------
LEMMA InitDependencies == Init => DependenciesHonoured
BY DEF Init, DependenciesHonoured

(* Evaluate finds a job ready only if its dependencies are honoured: a     *)
(* parent that is completed or missing has succeeded.                      *)
LEMMA ReadyIsHonoured ==
  ASSUME TypeOK, HistoryAgrees, NEW d \in DependsOn(JobId),
         ParentIds(d) \subseteq 1 .. nextId - 1, IsReady(d, statusOf)
  PROVE  LET honoured == {e \in d.deps : e.cond = "finished" \/ ranAt[e.id] > 0}
         IN  IF d.strategy = "any" THEN d.deps # {} => honoured # {}
                                   ELSE honoured = d.deps
<1>1. \A e \in d.deps : /\ e.id \in JobId /\ e.id < nextId
                        /\ e.cond \in {"completed", "finished"}
  <2> SUFFICES ASSUME NEW e \in d.deps
               PROVE  /\ e.id \in JobId /\ e.id < nextId
                      /\ e.cond \in {"completed", "finished"}
    OBVIOUS
  <2>1. e \in Dependency(JobId)
    BY DEF DependsOn
  <2>2. e.id \in 1 .. nextId - 1
    BY DEF ParentIds
  <2> QED BY <2>1, <2>2 DEF Dependency, Condition, JobId, TypeOK
<1>2. ASSUME NEW e \in d.deps, Satisfied(e, statusOf)
      PROVE  e.cond = "finished" \/ ranAt[e.id] > 0
  BY <1>1, <1>2 DEF Satisfied, statusOf, HistoryAgrees, MissingParentsSucceeded
<1> QED BY <1>2 DEF IsReady

LEMMA NextDependencies ==
  ASSUME TypeOK, Bookkeeping, HistoryAgrees, DependenciesHonoured, [Next]_vars
  PROVE  DependenciesHonoured'
<1> DEFINE RunsKept ==
             /\ \A v \in Worker : pc'[v] = "executing" =>
                  pc[v] = "executing" /\ UNCHANGED snap[v]
             /\ \A j \in JobId : ranAt[j] > 0 => ranAt'[j] > 0
<1>1. ASSUME RunsKept
      PROVE  DependenciesHonoured'
  <2> SUFFICES ASSUME NEW w \in Worker, pc'[w] = "executing"
               PROVE  LET deps == snap[w].dependsOn.deps
                          honoured == {d \in deps : d.cond = "finished" \/ ranAt'[d.id] > 0}
                      IN  IF snap[w].dependsOn.strategy = "any"
                          THEN deps # {} => honoured # {}
                          ELSE honoured = deps
    BY <1>1 DEF DependenciesHonoured
  <2>1. \A d \in snap[w].dependsOn.deps : d.id \in JobId
    BY DEF TypeOK, Snapshot, DependsOn, Dependency
  <2> QED BY <1>1, <2>1 DEF DependenciesHonoured
<1>2. ASSUME NEW k \in Key \cup {NoKey}, NEW d \in GivenDependsOn, Enqueue(k, d)
      PROVE  DependenciesHonoured'
  BY <1>1, <1>2 DEF Enqueue, workerVars, historyVars
<1>3. ASSUME NEW w \in Worker, WorkerStep(w)
      PROVE  DependenciesHonoured'
  <2>1. CASE FindJob(w) \/ FindNothing(w) \/ ReadTime(w) \/ GrabNothing(w)
             \/ ExecuteFails(w) \/ MaintenanceFails(w) \/ Exit(w) \/ Abandon(w)
    BY <1>1, <2>1
    DEF FindJob, FindNothing, ReadTime, GrabNothing, ExecuteFails,
        MaintenanceFails, Exit, MayExit, Abandon, EndTick, historyVars, TypeOK
  <2>2. CASE Grab(w) \/ Mark(w)
    BY <1>1, <2>2 DEF Grab, Mark, EndTick, historyVars, TypeOK
  <2>3. CASE RecoverStuck(w) \/ FailStuck(w) \/ Cleanup(w)
    BY <1>1, <2>3 DEF RecoverStuck, FailStuck, Cleanup, historyVars, TypeOK
  <2>4. CASE ExecuteSucceeds(w)
    <3>1. stamp[w] > 0 /\ snap[w].id \in JobId
      BY <2>4 DEF ExecuteSucceeds, Bookkeeping, TypeOK, Serving, Holding
    <3> QED BY <1>1, <2>4, <3>1 DEF ExecuteSucceeds, TypeOK
  <2>5. CASE Judge(w)
    <3> DEFINE d == snap[w].dependsOn
    <3>1. d \in DependsOn(JobId) /\ ParentIds(d) \subseteq 1 .. nextId - 1
      BY <2>5 DEF Judge, TypeOK, Snapshot, Bookkeeping, Serving, Holding
    <3>2. /\ UNCHANGED <<snap, ranAt>>
          /\ \A v \in Worker \ {w} : UNCHANGED pc[v]
          /\ pc'[w] = "executing" => IsReady(d, statusOf)
      BY <2>5 DEF Judge, Decide, TypeOK, historyVars
    <3> QED BY <3>1, <3>2, ReadyIsHonoured DEF DependenciesHonoured
  <2> QED BY <1>3, <2>1, <2>2, <2>3, <2>4, <2>5 DEF WorkerStep
<1>4. ASSUME NEW w \in Worker, Stop(w) \/ Crash(w) \/ Start(w)
      PROVE  DependenciesHonoured'
  BY <1>1, <1>4 DEF Stop, Crash, Start, historyVars, TypeOK
<1>5. ASSUME NEW j \in JobId, TimePasses(j)
      PROVE  DependenciesHonoured'
  BY <1>1, <1>5
  DEF TimePasses, RunAfterReached, CutoffReached, DayPassed, workerVars,
      historyVars
<1>6. CASE UNCHANGED vars
  BY <1>1, <1>6 DEF vars
<1> QED BY <1>2, <1>3, <1>4, <1>5, <1>6 DEF Next

-----------------------------------------------------------------------------
(* The parts of IInv are inductive together. *)
THEOREM InductiveInvariant ==
  ASSUME OneWorkerOrPromptJobs
  PROVE  Spec => []IInv
<1>1. Init => IInv
  BY InitBookkeeping, InitTimes, InitOwnership, InitAccounted, InitRetries, InitHistory,
     InitDependencies DEF IInv
<1>2. TypeOK /\ IInv /\ [Next]_vars => IInv'
  BY NextBookkeeping, NextTimes, NextOwnership, NextAccounted, NextRetries, NextHistory,
     NextDependencies DEF IInv
<1> QED BY <1>1, <1>2, TypeCorrect, PTL DEF Spec

(* A worker that has grabbed a job owns its row until it has recorded the  *)
(* outcome.                                                                *)
THEOREM WorkersHoldTheirJobs ==
  ASSUME OneWorkerOrPromptJobs
  PROVE  Spec => []HoldsItsJob
<1>1. IInv => HoldsItsJob
  BY DEF IInv, Ownership
<1> QED BY <1>1, InductiveInvariant, PTL

(* Two workers never execute the same job at a time. *)
THEOREM ExecutionIsExclusive ==
  ASSUME OneWorkerOrPromptJobs
  PROVE  Spec => []ExclusiveExecution
<1>1. IInv => ExclusiveExecution
  BY DEF IInv, Ownership
<1> QED BY <1>1, InductiveInvariant, PTL

(* A running row belongs to a live worker or to one that crashed or could  *)
(* not record the outcome.                                                 *)
THEOREM RunningRowsAreAccountedFor ==
  ASSUME OneWorkerOrPromptJobs
  PROVE  Spec => []RunningIsAccountedFor
<1>1. IInv => RunningIsAccountedFor
  BY DEF IInv
<1> QED BY <1>1, InductiveInvariant, PTL

(* Retries are bounded whatever mix of failures and recoveries a job meets. *)
THEOREM RetriesAreBounded ==
  ASSUME OneWorkerOrPromptJobs
  PROVE  Spec => []RetryBounded
<1>1. IInv => RetryBounded
  BY DEF IInv
<1> QED BY <1>1, InductiveInvariant, PTL

(* A job is completed only after a run grabbed after its last enqueue. *)
THEOREM NoEnqueueIsLost ==
  ASSUME OneWorkerOrPromptJobs
  PROVE  Spec => []CompletedAfterLastEnqueue
<1>1. IInv => CompletedAfterLastEnqueue
  BY DEF IInv, HistoryAgrees
<1> QED BY <1>1, InductiveInvariant, PTL

(* A row that is gone did run to success. *)
THEOREM GoneMeansSucceeded ==
  ASSUME OneWorkerOrPromptJobs
  PROVE  Spec => []MissingParentsSucceeded
<1>1. IInv => MissingParentsSucceeded
  BY DEF IInv, HistoryAgrees
<1> QED BY <1>1, InductiveInvariant, PTL

(* A handler runs only when the dependencies its job was found with have   *)
(* been honoured.                                                          *)
THEOREM HandlersRunAfterTheirParents ==
  ASSUME OneWorkerOrPromptJobs
  PROVE  Spec => []DependenciesHonoured
<1>1. IInv => DependenciesHonoured
  BY DEF IInv
<1> QED BY <1>1, InductiveInvariant, PTL

(* Only an enqueue takes a failed job out of failed.                       *)
THEOREM FailureIsFinal ==
  ASSUME OneWorkerOrPromptJobs
  PROVE  Spec => FailedStaysFailed
<1>1. ASSUME TypeOK, IInv, [Next]_vars,
             NEW j \in JobId, row[j].status = "failed", row'[j].status # "failed"
      PROVE  row'[j].status = "pending" /\ row'[j].created = clock + 1
  <2>1. CASE UNCHANGED row
    BY <1>1, <2>1
  <2>2. ASSUME NEW k \in Key \cup {NoKey}, NEW d \in GivenDependsOn, Enqueue(k, d)
        PROVE  row'[j].status = "pending" /\ row'[j].created = clock + 1
    BY <1>1, <2>2, EnqueueEffect
  <2>3. ASSUME NEW w \in Worker, Grab(w)
        PROVE  FALSE
    BY <1>1, <2>3 DEF Grab, Grabbable, TypeOK, Serving
  <2>4. ASSUME NEW w \in Worker, Mark(w)
        PROVE  FALSE
    BY <1>1, <2>4, MarkEffect DEF IInv
  <2>5. ASSUME NEW w \in Worker, RecoverStuck(w) \/ FailStuck(w) \/ Cleanup(w)
        PROVE  FALSE
    BY <1>1, <2>5, MaintenanceEffect
  <2> QED BY <1>1, <2>1, <2>2, <2>3, <2>4, <2>5, RowWriters
<1>2. TypeOK /\ IInv /\ [Next]_vars =>
        [\A j \in JobId :
           row[j].status = "failed" /\ row'[j].status # "failed"
             => row'[j].status = "pending" /\ row'[j].created = clock + 1]_row
  BY <1>1
<1> QED BY <1>2, TypeCorrect, InductiveInvariant, PTL DEF Spec, FailedStaysFailed

-----------------------------------------------------------------------------
(* The job queue implements the leases of JobLease: the initial states are *)
(* initial states of the leases, and every step is a step of the leases or *)
(* leaves them alone.                                                      *)

LEMMA LeaseStates ==
  ASSUME NEW j \in JobId
  PROVE  /\ row[j].status = "none" /\ ~(j < nextId) => leaseState[j] = "new"
         /\ row[j].status = "none" /\ j < nextId => leaseState[j] = "forgotten"
         /\ row[j].status = "pending" => leaseState[j] = "waiting"
         /\ row[j].status = "running" => leaseState[j] = "leased"
         /\ row[j].status = "completed" => leaseState[j] = "done"
         /\ row[j].status = "failed" => leaseState[j] = "failed"
BY DEF leaseState

LEMMA LeaseStatesNext ==
  ASSUME NEW j \in JobId
  PROVE  /\ row'[j].status = "none" /\ j < nextId' => leaseState'[j] = "forgotten"
         /\ row'[j].status = "pending" => leaseState'[j] = "waiting"
         /\ row'[j].status = "running" => leaseState'[j] = "leased"
         /\ row'[j].status = "completed" => leaseState'[j] = "done"
         /\ row'[j].status = "failed" => leaseState'[j] = "failed"
BY DEF leaseState

LEMMA LeaseStateKept ==
  ASSUME TypeOK, NEW j \in JobId, row'[j] = row[j],
         j < nextId' <=> j < nextId
  PROVE  leaseState'[j] = leaseState[j]
<1>1. row[j].status \in Status
  BY DEF TypeOK, Row
<1> QED BY <1>1 DEF leaseState, Status

LEMMA LeaseStateIsFunction ==
  /\ leaseState = [j \in JobId |-> leaseState[j]]
  /\ leaseState' = [j \in JobId |-> leaseState'[j]]
<1> DEFINE s(j) == CASE row[j].status = "none" -> IF j < nextId THEN "forgotten" ELSE "new"
                    [] row[j].status = "pending" -> "waiting"
                    [] row[j].status = "running" -> "leased"
                    [] row[j].status = "completed" -> "done"
                    [] row[j].status = "failed" -> "failed"
<1>1. leaseState = [j \in JobId |-> s(j)] /\ leaseState' = [j \in JobId |-> s(j)']
  BY DEF leaseState
<1> HIDE DEF s
<1> QED BY <1>1

LEMMA LeaseStatesSet ==
  ASSUME NEW J \in SUBSET JobId, NEW s, \A j \in J : leaseState'[j] = s,
         \A j \in JobId \ J : leaseState'[j] = leaseState[j]
  PROVE  leaseState' = [j \in JobId |-> IF j \in J THEN s ELSE leaseState[j]]
BY LeaseStateIsFunction

LEMMA LeaseStateSet ==
  ASSUME NEW i \in JobId, \A j \in JobId \ {i} : leaseState'[j] = leaseState[j]
  PROVE  leaseState' = [leaseState EXCEPT ![i] = leaseState'[i]]
BY LeaseStateIsFunction

LEMMA InitLease == Init => Lease!Init
<1> SUFFICES ASSUME Init PROVE Lease!Init
  OBVIOUS
<1>1. leaseState = [j \in JobId |-> "new"]
  BY LeaseStates DEF Init, leaseState, NoRow, JobId
<1>2. leaseHolders = [j \in JobId |-> {}]
  BY DEF Init, leaseHolders, Holding
<1>3. leaseAgain = {}
  BY DEF Init, leaseAgain, NoRow
<1> QED BY <1>1, <1>2, <1>3 DEF Lease!Init

(* The leases do not see a step that leaves the table and the holders      *)
(* alone.                                                                  *)
LEMMA LeaseStutter ==
  ASSUME UNCHANGED <<row, nextId>>,
         \A v \in Worker : /\ Holding(v)' <=> Holding(v)
                           /\ Holding(v) => UNCHANGED snap[v]
  PROVE  UNCHANGED Lease!vars
<1>1. UNCHANGED leaseState
  BY DEF leaseState
<1>2. UNCHANGED leaseHolders
  BY DEF leaseHolders
<1>3. UNCHANGED leaseAgain
  BY DEF leaseAgain
<1> QED BY <1>1, <1>2, <1>3 DEF Lease!vars

LEMMA HoldersAre ==
  ASSUME TypeOK, Ownership, NEW w \in Worker, Holding(w)
  PROVE  /\ snap[w].id \in JobId
         /\ row[snap[w].id].status = "running"
         /\ leaseState[snap[w].id] = "leased"
         /\ leaseHolders[snap[w].id] = {w}
<1>1. snap[w].id \in JobId /\ row[snap[w].id].status = "running"
  BY DEF TypeOK, Serving, Ownership, HoldsItsJob
<1>2. leaseState[snap[w].id] = "leased"
  BY <1>1, LeaseStates
<1>3. leaseHolders[snap[w].id] = {w}
  BY <1>1 DEF leaseHolders, Ownership, ExclusiveExecution
<1> QED BY <1>1, <1>2, <1>3

LEMMA EnqueueIsSubmit ==
  ASSUME TypeOK, IInv, NEW k \in Key \cup {NoKey}, NEW d \in GivenDependsOn,
         Enqueue(k, d)
  PROVE  \E j \in JobId : Lease!Submit(j)
<1> USE QueueAssumption
<1>1. /\ nextId \in Nat /\ clock \in Nat /\ clock' = clock + 1
      /\ UNCHANGED workerVars
  BY DEF Enqueue, TypeOK
<1>2. UNCHANGED leaseHolders
  BY <1>1 DEF leaseHolders, Holding, workerVars
<1>3. CASE EnqueueNew(k, d)
  <2>1. /\ nextId \in JobId /\ nextId' = nextId + 1
        /\ row' = [row EXCEPT ![nextId] = EnqueueJob(k, d, clock + 1)]
    BY <1>3 DEF EnqueueNew, TypeOK, JobId
  <2>2. /\ row'[nextId].status = "pending" /\ row[nextId].status = "none"
        /\ \A i \in JobId \ {nextId} : row'[i] = row[i]
    BY <1>1, <2>1 DEF EnqueueJob, TypeOK, IInv, Bookkeeping
  <2>3. \A i \in JobId \ {nextId} : i < nextId' <=> i < nextId
    BY <1>1, <2>1 DEF JobId
  <2>4. leaseState[nextId] = "new"
    BY <1>1, <2>1, <2>2, LeaseStates
  <2>5. leaseState' = [leaseState EXCEPT ![nextId] = "waiting"]
    BY <2>1, <2>2, <2>3, LeaseStatesNext, LeaseStateKept, LeaseStateSet
  <2>6. UNCHANGED leaseAgain
    BY <2>2 DEF leaseAgain
  <2> QED BY <1>2, <2>1, <2>4, <2>5, <2>6 DEF Lease!Submit
<1>4. ASSUME NEW j \in Existing(k), EnqueueExisting(j, d)
      PROVE  Lease!Submit(j)
  <2>1. /\ j \in JobId /\ row[j] \in Row /\ row[j].status # "none"
        /\ nextId' = nextId
    BY <1>4 DEF Existing, EnqueueExisting, TypeOK
  <2>2. /\ row'[j] = UpdateJobForEnqueue(row[j], d, clock + 1)
        /\ \A i \in JobId \ {j} : row'[i] = row[i]
    BY <1>4, <2>1 DEF EnqueueExisting, TypeOK
  <2>3. /\ row'[j].created = clock + 1 /\ row'[j].grabbed = row[j].grabbed
        /\ row'[j].status = IF row[j].status = "running" THEN "running" ELSE "pending"
    BY <2>1, <2>2 DEF UpdateJobForEnqueue, Row
  <2>4. CASE row[j].status = "running"
    <3>1. row[j].grabbed \in 1..clock
      BY <2>1, <2>4 DEF IInv, TimesHavePassed
    <3>2. UNCHANGED leaseState /\ leaseState[j] = "leased"
      <4>1. \A i \in JobId : leaseState'[i] = leaseState[i]
        BY <2>1, <2>2, <2>3, <2>4, LeaseStates, LeaseStatesNext, LeaseStateKept
      <4> QED BY <2>1, <2>4, <4>1, LeaseStates, LeaseStateIsFunction
    <3>3. leaseAgain' = leaseAgain \cup {j}
      BY <1>1, <2>1, <2>2, <2>3, <2>4, <3>1 DEF leaseAgain, Reenqueued
    <3> QED BY <1>2, <3>2, <3>3 DEF Lease!Submit
  <2>5. CASE row[j].status # "running"
    <3>1. /\ leaseState[j] \in {"waiting", "done", "failed"}
          /\ leaseState' = [leaseState EXCEPT ![j] = "waiting"]
      <4>1. leaseState'[j] = "waiting"
        BY <2>1, <2>3, <2>5, LeaseStatesNext
      <4>2. leaseState[j] \in {"waiting", "done", "failed"}
        BY <2>1, <2>5, LeaseStates DEF Row, Status
      <4> QED BY <2>1, <2>2, <4>1, <4>2, LeaseStateKept, LeaseStateSet
    <3>2. UNCHANGED leaseAgain
      BY <2>2, <2>3, <2>5 DEF leaseAgain
    <3> QED BY <1>2, <3>1, <3>2 DEF Lease!Submit
  <2> QED BY <2>4, <2>5
<1>5. \A j \in Existing(k) : j \in JobId
  BY DEF Existing
<1> QED BY <1>3, <1>4, <1>5 DEF Enqueue, EnqueueNew, TypeOK, JobId

LEMMA GrabIsTake ==
  ASSUME TypeOK, IInv, NEW w \in Worker, Grab(w)
  PROVE  \E j \in JobId : Lease!Take(w, j)
<1> DEFINE j == snap[w].id
<1>1. /\ j \in JobId /\ row[j] \in Row /\ row[j].status = "pending"
      /\ stamp[w] \in Nat \ {0}
      /\ UNCHANGED <<nextId, snap>>
  BY DEF Grab, Grabbable, TypeOK, Serving, IInv, Bookkeeping
<1>2. /\ row'[j] = GrabJob(row[j], stamp[w])
      /\ \A i \in JobId \ {j} : row'[i] = row[i]
      /\ \A v \in Worker : Holding(v)' <=> v = w \/ Holding(v)
      /\ ~Holding(w)
  BY <1>1 DEF Grab, TypeOK, Holding
<1>3. row'[j].status = "running"
  BY <1>1, <1>2 DEF GrabJob, Row
<1>4. \A v \in Worker : Holding(v) => snap[v].id # j
  BY <1>1 DEF IInv, Ownership, HoldsItsJob
<1> HIDE DEF j
<1>5. leaseState[j] = "waiting" /\ leaseState' = [leaseState EXCEPT ![j] = "leased"]
  BY <1>1, <1>2, <1>3, LeaseStates, LeaseStatesNext, LeaseStateKept, LeaseStateSet
<1>6. leaseHolders' = [leaseHolders EXCEPT ![j] = {w}]
  <2>1. \A i \in JobId : leaseHolders'[i] = IF i = j THEN {w} ELSE leaseHolders[i]
    BY <1>1, <1>2, <1>4 DEF leaseHolders, j
  <2> QED BY <1>1, <2>1 DEF leaseHolders
<1>7. \A i \in JobId : w \notin leaseHolders[i]
  BY <1>2 DEF leaseHolders
<1>8. leaseAgain' \in {leaseAgain, leaseAgain \cup {j}}
  BY <1>1, <1>2 DEF leaseAgain
<1> QED BY <1>1, <1>5, <1>6, <1>7, <1>8 DEF Lease!Take

LEMMA MarkIsReturn ==
  ASSUME TypeOK, IInv, NEW w \in Worker, Mark(w)
  PROVE  \E j \in JobId, s \in {"done", "failed", "waiting"} : Lease!Return(w, j, s)
<1> DEFINE j == snap[w].id
           s == leaseState'[j]
<1>1. /\ j \in JobId /\ row[j] \in Row /\ row[j].status = "running"
      /\ row[j].grabbed # 0
      /\ \A i \in JobId \ {j} : row'[i] = row[i]
      /\ \/ row'[j] = MarkJobCompleted(row[j])
         \/ row'[j] = MarkJobFailed(row[j])
         \/ row'[j] = MarkJobPermanentlyFailed(row[j])
      /\ UNCHANGED nextId /\ EndTick(w)
  BY MarkEffect DEF IInv
<1>2. /\ Holding(w) /\ ~Holding(w)'
      /\ \A v \in Worker \ {w} :
           (Holding(v)' <=> Holding(v)) /\ UNCHANGED snap[v]
  BY <1>1, EndTickFrame DEF Mark, Holding
<1>3. leaseState[j] = "leased" /\ leaseHolders[j] = {w}
  BY <1>2, HoldersAre DEF IInv
<1>4. /\ row'[j].status \in {"pending", "completed", "failed"}
      /\ row'[j].status = "completed" => ~Reenqueued(row[j])
  <2>1. /\ MarkJobCompleted(row[j]).status
             = IF Reenqueued(row[j]) THEN "pending" ELSE "completed"
        /\ MarkJobFailed(row[j]).status \in {"pending", "failed"}
        /\ MarkJobPermanentlyFailed(row[j]).status = "failed"
    BY <1>1 DEF MarkJobCompleted, MarkJobFailed, MarkJobPermanentlyFailed, Row
  <2> HIDE DEF j
  <2> QED BY <1>1, <2>1
<1>5. /\ s \in {"done", "failed", "waiting"}
      /\ s = "done" => row'[j].status = "completed"
  BY <1>1, <1>4, LeaseStatesNext
<1>6. s = "done" => j \notin leaseAgain
  BY <1>4, <1>5 DEF leaseAgain
<1>7. leaseHolders' = [leaseHolders EXCEPT ![j] = {}]
  <2>1. \A i \in JobId : leaseHolders'[i] = IF i = j THEN {} ELSE leaseHolders[i]
    <3>1. \A v \in Worker \ {w} : Holding(v) => snap[v].id # j
      BY <1>2 DEF IInv, Ownership, ExclusiveExecution
    <3> QED BY <1>1, <1>2, <3>1 DEF leaseHolders
  <2> HIDE DEF j, s
  <2> QED BY <1>1, <2>1 DEF leaseHolders
<1>8. leaseState' = [leaseState EXCEPT ![j] = s]
  BY <1>1, LeaseStateKept, LeaseStateSet
<1>9. leaseAgain' = leaseAgain \ {j}
  BY <1>1, <1>4 DEF leaseAgain
<1> QED BY <1>1, <1>3, <1>5, <1>6, <1>7, <1>8, <1>9 DEF Lease!Return

(* A worker that goes away without recording an outcome loses its lease. *)
LEMMA AwayIsLose ==
  ASSUME TypeOK, IInv, NEW w \in Worker, Holding(w), ~Holding(w)',
         UNCHANGED <<row, nextId>>,
         \A v \in Worker \ {w} : (Holding(v)' <=> Holding(v)) /\ UNCHANGED snap[v]
  PROVE  \E j \in JobId : Lease!Lose(w, j)
<1> DEFINE j == snap[w].id
<1>1. j \in JobId /\ leaseHolders[j] = {w}
  BY HoldersAre DEF IInv
<1>2. leaseHolders' = [leaseHolders EXCEPT ![j] = {}]
  <2>1. \A i \in JobId : leaseHolders'[i] = IF i = j THEN {} ELSE leaseHolders[i]
    <3>1. \A v \in Worker \ {w} : Holding(v) => snap[v].id # j
      BY DEF IInv, Ownership, ExclusiveExecution
    <3>2. ASSUME NEW i \in JobId, NEW v \in Worker
          PROVE  Holding(v)' /\ snap'[v].id = i
                   <=> i # j /\ Holding(v) /\ snap[v].id = i
      <4>1. CASE v = w
        BY <4>1
      <4>2. CASE v # w
        BY <3>1, <4>2
      <4> QED BY <4>1, <4>2
    <3> QED BY <3>2 DEF leaseHolders
  <2>2. /\ leaseHolders = [i \in JobId |-> leaseHolders[i]]
        /\ leaseHolders' = [i \in JobId |-> leaseHolders'[i]]
    BY DEF leaseHolders
  <2> HIDE DEF j
  <2> QED BY <1>1, <2>1, <2>2
<1>3. UNCHANGED <<leaseState, leaseAgain>>
  BY DEF leaseState, leaseAgain
<1> QED BY <1>1, <1>2, <1>3 DEF Lease!Lose

(* The recovery and the clean-up end leases that nobody holds, or forget   *)
(* what is done.                                                           *)
LEMMA MaintenanceIsReclaimOrForget ==
  ASSUME OneWorkerOrPromptJobs, TypeOK, IInv, NEW w \in Worker,
         RecoverStuck(w) \/ FailStuck(w) \/ Cleanup(w)
  PROVE  \E J \in SUBSET JobId :
           (\E s \in {"failed", "waiting"} : Lease!Reclaim(J, s)) \/ Lease!Forget(J)
<1>1. UNCHANGED leaseHolders
  BY DEF RecoverStuck, FailStuck, Cleanup, leaseHolders, Holding, TypeOK
<1>2. \A j \in overdue : row[j].status = "running" /\ ~Holding(w)
        => leaseHolders[j] = {}
  BY NoHeldJobIsStuck DEF leaseHolders, IInv, TypeOK
<1>3. CASE RecoverStuck(w)
  <2> DEFINE J == {j \in Stuck : Recoverable(row[j])}
  <2>1. /\ J \subseteq JobId /\ J \subseteq overdue
        /\ \A j \in J : row[j].status = "running"
        /\ ~Holding(w) /\ nextId' = nextId
        /\ \A j \in JobId : row'[j] = IF j \in J THEN RecoverStuckJob(row[j]) ELSE row[j]
    BY <1>3 DEF RecoverStuck, Stuck, Holding, TypeOK
  <2>2. \A j \in JobId : RecoverStuckJob(row[j]).status = "pending"
    BY DEF TypeOK, Row, RecoverStuckJob
  <2> HIDE DEF J
  <2>3. \A j \in J : leaseState[j] = "leased" /\ leaseHolders[j] = {}
    BY <1>2, <2>1, LeaseStates
  <2>4. leaseState' = [j \in JobId |-> IF j \in J THEN "waiting" ELSE leaseState[j]]
    <3>1. /\ \A j \in J : leaseState'[j] = "waiting"
          /\ \A j \in JobId \ J : leaseState'[j] = leaseState[j]
      BY <2>1, <2>2, LeaseStatesNext, LeaseStateKept
    <3> QED BY <2>1, <3>1, LeaseStatesSet
  <2>5. leaseAgain' = leaseAgain \ J
    BY <2>1, <2>2 DEF leaseAgain
  <2>6. Lease!Reclaim(J, "waiting")
    BY <1>1, <2>3, <2>4, <2>5 DEF Lease!Reclaim
  <2> QED BY <2>1, <2>6
<1>4. CASE FailStuck(w)
  <2> DEFINE J == {j \in Stuck : row[j].retry >= MaxRetries}
  <2>1. /\ J \subseteq JobId /\ J \subseteq overdue
        /\ \A j \in J : row[j].status = "running"
        /\ ~Holding(w) /\ nextId' = nextId
        /\ \A j \in JobId : row'[j] = IF j \in J THEN FailStuckJob(row[j]) ELSE row[j]
    BY <1>4 DEF FailStuck, Stuck, Holding, TypeOK
  <2>2. \A j \in JobId : FailStuckJob(row[j]).status = "failed"
    BY DEF TypeOK, Row, FailStuckJob
  <2> HIDE DEF J
  <2>3. \A j \in J : leaseState[j] = "leased" /\ leaseHolders[j] = {}
    BY <1>2, <2>1, LeaseStates
  <2>4. leaseState' = [j \in JobId |-> IF j \in J THEN "failed" ELSE leaseState[j]]
    <3>1. /\ \A j \in J : leaseState'[j] = "failed"
          /\ \A j \in JobId \ J : leaseState'[j] = leaseState[j]
      BY <2>1, <2>2, LeaseStatesNext, LeaseStateKept
    <3> QED BY <2>1, <3>1, LeaseStatesSet
  <2>5. leaseAgain' = leaseAgain \ J
    BY <2>1, <2>2 DEF leaseAgain
  <2>6. Lease!Reclaim(J, "failed")
    BY <1>1, <2>3, <2>4, <2>5 DEF Lease!Reclaim
  <2> QED BY <2>1, <2>6
<1>5. CASE Cleanup(w)
  <2> DEFINE J == Cleanable
  <2>1. /\ J \subseteq JobId /\ \A j \in J : row[j].status = "completed"
        /\ nextId' = nextId
        /\ \A j \in JobId : row'[j] = IF j \in J THEN NoRow ELSE row[j]
    BY <1>5 DEF Cleanup, Cleanable, TypeOK
  <2>2. \A j \in J : j < nextId
    BY <2>1 DEF IInv, Bookkeeping
  <2>3. NoRow.status = "none"
    BY DEF NoRow
  <2> HIDE DEF J
  <2>4. \A j \in J : leaseState[j] = "done"
    BY <2>1, LeaseStates
  <2>5. leaseState' = [j \in JobId |-> IF j \in J THEN "forgotten" ELSE leaseState[j]]
    <3>1. /\ \A j \in J : leaseState'[j] = "forgotten"
          /\ \A j \in JobId \ J : leaseState'[j] = leaseState[j]
      BY <2>1, <2>2, <2>3, LeaseStatesNext, LeaseStateKept
    <3> QED BY <2>1, <3>1, LeaseStatesSet
  <2>6. UNCHANGED leaseAgain
    BY <2>1, <2>3 DEF leaseAgain
  <2>7. Lease!Forget(J)
    BY <1>1, <2>4, <2>5, <2>6 DEF Lease!Forget
  <2> QED BY <2>1, <2>7
<1> QED BY <1>3, <1>4, <1>5

LEMMA NextLease ==
  ASSUME OneWorkerOrPromptJobs, TypeOK, IInv, [Next]_vars
  PROVE  [Lease!Next]_Lease!vars
<1>1. ASSUME UNCHANGED <<row, nextId>>,
             \A v \in Worker : /\ Holding(v)' <=> Holding(v)
                               /\ Holding(v) => UNCHANGED snap[v]
      PROVE  [Lease!Next]_Lease!vars
  BY <1>1, LeaseStutter
<1>2. ASSUME NEW w \in Worker, EndTick(w)
      PROVE  /\ ~Holding(w)'
             /\ \A v \in Worker \ {w} :
                  (Holding(v)' <=> Holding(v)) /\ UNCHANGED snap[v]
  BY <1>2, EndTickFrame DEF Holding
<1>3. ASSUME NEW k \in Key \cup {NoKey}, NEW d \in GivenDependsOn, Enqueue(k, d)
      PROVE  Lease!Next
  BY <1>3, EnqueueIsSubmit DEF Lease!Next
<1>4. ASSUME NEW w \in Worker, WorkerStep(w)
      PROVE  [Lease!Next]_Lease!vars
  <2>1. CASE FindJob(w) \/ ReadTime(w) \/ Judge(w) \/ ExecuteSucceeds(w)
             \/ ExecuteFails(w) \/ MaintenanceFails(w) \/ Exit(w)
    <3>1. UNCHANGED <<row, nextId>>
      BY <2>1 DEF FindJob, ReadTime, Judge, ExecuteSucceeds, ExecuteFails,
                  MaintenanceFails, Exit, dbVars
    <3>2. \A v \in Worker : /\ Holding(v)' <=> Holding(v)
                            /\ Holding(v) => UNCHANGED snap[v]
      BY <2>1 DEF FindJob, ReadTime, Judge, Decide, ExecuteSucceeds,
                  ExecuteFails, MaintenanceFails, Exit, MayExit, Holding, TypeOK
    <3> QED BY <1>1, <3>1, <3>2
  <2>2. CASE FindNothing(w) \/ GrabNothing(w)
    <3>1. ~Holding(w) /\ EndTick(w) /\ UNCHANGED <<row, nextId>>
      BY <2>2 DEF FindNothing, GrabNothing, Holding, dbVars
    <3> QED BY <1>1, <1>2, <3>1
  <2>3. CASE Grab(w)
    BY <2>3, GrabIsTake DEF Lease!Next
  <2>4. CASE Mark(w)
    BY <2>4, MarkIsReturn DEF Lease!Next
  <2>5. CASE Abandon(w)
    <3>1. Holding(w) /\ EndTick(w) /\ UNCHANGED <<row, nextId>>
      BY <2>5 DEF Abandon, Holding, dbVars
    <3>2. \E j \in JobId : Lease!Lose(w, j)
      BY <1>2, <3>1, AwayIsLose
    <3> QED BY <3>2 DEF Lease!Next
  <2>6. CASE RecoverStuck(w) \/ FailStuck(w) \/ Cleanup(w)
    BY <2>6, MaintenanceIsReclaimOrForget DEF Lease!Next
  <2> QED BY <1>4, <2>1, <2>2, <2>3, <2>4, <2>5, <2>6 DEF WorkerStep
<1>5. ASSUME NEW w \in Worker, Stop(w) \/ Start(w)
      PROVE  [Lease!Next]_Lease!vars
  <2>1. \A v \in Worker : /\ Holding(v)' <=> Holding(v)
                          /\ Holding(v) => UNCHANGED snap[v]
    BY <1>5 DEF Stop, Start, Holding, TypeOK
  <2> QED BY <1>1, <1>5, <2>1 DEF Stop, Start, dbVars
<1>6. ASSUME NEW w \in Worker, Crash(w)
      PROVE  [Lease!Next]_Lease!vars
  <2>1. /\ UNCHANGED <<row, nextId>> /\ ~Holding(w)'
        /\ \A v \in Worker \ {w} :
             (Holding(v)' <=> Holding(v)) /\ UNCHANGED snap[v]
    BY <1>6 DEF Crash, Holding, TypeOK, dbVars
  <2>2. CASE Holding(w)
    <3>1. \E j \in JobId : Lease!Lose(w, j)
      BY <2>1, <2>2, AwayIsLose
    <3> QED BY <3>1 DEF Lease!Next
  <2>3. CASE ~Holding(w)
    BY <1>1, <2>1, <2>3
  <2> QED BY <2>2, <2>3
<1>7. ASSUME NEW j \in JobId, TimePasses(j)
      PROVE  [Lease!Next]_Lease!vars
  <2>1. UNCHANGED <<row, nextId, pc, snap>>
    BY <1>7 DEF TimePasses, RunAfterReached, CutoffReached, DayPassed, workerVars
  <2> QED BY <1>1, <2>1 DEF Holding
<1>8. CASE UNCHANGED vars
  BY <1>1, <1>8 DEF vars, Holding
<1> QED BY <1>3, <1>4, <1>5, <1>6, <1>7, <1>8 DEF Next

(* The queue keeps what JobLease promises: one holder at a time, a         *)
(* submission during a lease keeps the job from being done, only done jobs *)
(* are forgotten and only a submission revives a settled one.              *)
THEOREM QueueImplementsLease ==
  ASSUME OneWorkerOrPromptJobs
  PROVE  Spec => ImplementsLease
<1>1. Init => Lease!Init
  BY InitLease
<1>2. TypeOK /\ IInv /\ [Next]_vars => [Lease!Next]_Lease!vars
  BY NextLease
<1> QED
  BY <1>1, <1>2, TypeCorrect, InductiveInvariant, PTL
  DEF Spec, ImplementsLease, Lease!Spec
=============================================================================
