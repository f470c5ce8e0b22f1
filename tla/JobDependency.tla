--------------------------- MODULE JobDependency ---------------------------
(***************************************************************************)
(* The dependency algebra of the job queue (backend/jobqueue/job.go):      *)
(* when a job may run given the state of the jobs it depends on, and how   *)
(* the dependencies of two enqueues of one job are merged.                 *)
(*                                                                         *)
(* A dependency list is modelled by the set of its (id, condition) pairs:  *)
(* Evaluate only compares counts with the length of the list, and Merge    *)
(* only asks which ids are present.  DependencyList has the lists and the  *)
(* two loops over them, and is checked against these definitions.          *)
(***************************************************************************)
EXTENDS Naturals

Condition == {"completed", "finished"}

Strategy == {"unset", "all", "any"}

(* A row of the jobs table has a status; "none" stands for a missing row,  *)
(* be it never inserted or already cleaned up.                             *)
Status == {"none", "pending", "running", "completed", "failed"}

Dependency(Id) == [id : Id, cond : Condition]

DependsOn(Id) == [deps : SUBSET Dependency(Id), strategy : Strategy]

(* A nil *DependsOn, stored as "null". *)
NoDependsOn == [deps |-> {}, strategy |-> "unset"]

ParentIds(dependsOn) == {d.id : d \in dependsOn.deps}

(* What callers pass: one condition for each parent. *)
NamesParentsOnce(dependsOn) ==
  \A d, e \in dependsOn.deps : d.id = e.id => d = e

(* A missing parent counts as one that completed and was cleaned up. *)
Satisfied(dep, statusOf) ==
  \/ statusOf[dep.id] \in {"none", "completed"}
  \/ dep.cond = "finished" /\ statusOf[dep.id] = "failed"

Impossible(dep, statusOf) ==
  dep.cond # "finished" /\ statusOf[dep.id] = "failed"

(* Variant: one satisfied dependency is enough under every strategy. *)
IsReadyOnAny(dependsOn, statusOf) ==
  \/ dependsOn.deps = {}
  \/ \E d \in dependsOn.deps : Satisfied(d, statusOf)

(* EvaluateReady: an unset strategy means "all". *)
IsReady(dependsOn, statusOf) ==
  LET satisfied == {d \in dependsOn.deps : Satisfied(d, statusOf)}
  IN  \/ dependsOn.deps = {}
      \/ dependsOn.strategy = "any" /\ satisfied # {}
      \/ dependsOn.strategy # "any" /\ satisfied = dependsOn.deps

(* EvaluateFail *)
IsHopeless(dependsOn, statusOf) ==
  LET impossible == {d \in dependsOn.deps : Impossible(d, statusOf)}
  IN  /\ dependsOn.deps # {}
      /\ IF dependsOn.strategy = "any"
         THEN impossible = dependsOn.deps
         ELSE impossible # {}

(* EvaluateWait *)
MustWait(dependsOn, statusOf) ==
  ~IsReady(dependsOn, statusOf) /\ ~IsHopeless(dependsOn, statusOf)

(* Known ids keep their condition; a strategy given later wins. *)
Merge(old, new) ==
  IF new = NoDependsOn THEN old
  ELSE [deps |-> old.deps
                 \cup {d \in new.deps : d.id \notin ParentIds(old)},
        strategy |-> IF new.strategy # "unset" THEN new.strategy
                     ELSE IF old.strategy # "unset" THEN old.strategy
                     ELSE "all"]
=============================================================================
