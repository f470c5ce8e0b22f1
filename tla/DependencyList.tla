--------------------------- MODULE DependencyList ---------------------------
(***************************************************************************)
(* The dependencies of one job as backend/jobqueue/job.go keeps them: a    *)
(* list, stored by the first enqueue as it was given, extended by Merge at *)
(* each later one, and counted through by Evaluate.  The queue is modelled *)
(* with sets instead (JobDependency); the properties here say that it may  *)
(* be.                                                                     *)
(***************************************************************************)
EXTENDS JobDependency, Sequences, SequencesExt, FiniteSets

CONSTANTS
  Parent,    \* ids of the jobs depended on
  MaxGiven   \* bound: length of the lists that callers pass

ASSUME ListAssumption == Parent \subseteq Nat \ {0} /\ MaxGiven \in Nat

VARIABLES
  dependsOn, \* the stored *DependsOn, lists for sets
  asSet      \* what JobDependency makes of the same calls

vars == <<dependsOn, asSet>>

Given == [deps : SeqOf(Dependency(Parent), MaxGiven), strategy : Strategy]

(* A nil *DependsOn, and what ParseDependsOn makes of "null". *)
Nothing == [deps |-> <<>>, strategy |-> "unset"]

HasId(deps, id) == \E i \in DOMAIN deps : deps[i].id = id

IdsAreDistinct(deps) == IsInjective([i \in DOMAIN deps |-> deps[i].id])

AsSet(d) == [deps |-> ToSet(d.deps), strategy |-> d.strategy]

(* Variant: what is known is not looked up. *)
AddDependencyAlways(deps, dep) == Append(deps, dep)

(* Variant: of a parent that is known the later condition replaces the first. *)
AddDependencyReplaces(deps, dep) ==
  IF HasId(deps, dep.id)
  THEN [i \in DOMAIN deps |-> IF deps[i].id = dep.id THEN dep ELSE deps[i]]
  ELSE Append(deps, dep)

(* The body of Merge's loop, `existing` included. *)
AddDependency(deps, dep) ==
  IF HasId(deps, dep.id) THEN deps ELSE Append(deps, dep)

(* The loop of Merge over a list that is not nil. *)
AddDependencies(deps, given) ==
  LET upTo[i \in 0 .. Len(given)] ==
        IF i = 0 THEN deps ELSE AddDependency(upTo[i - 1], given[i])
  IN  upTo[Len(given)]

MergeList(old, new) ==
  [deps |-> AddDependencies(old.deps, new.deps),
   strategy |-> CASE new.strategy # "unset" -> new.strategy
                  [] new.strategy = "unset" /\ old.strategy = "unset" -> "all"
                  [] OTHER -> old.strategy]

(* Variant: a condition that can no longer be met does not count. *)
IsImpossibleNever(dep, statusOf) == FALSE

(* The two flags of Evaluate for a parent that is found. *)
IsImpossible(dep, statusOf) ==
  statusOf[dep.id] = "failed" /\ dep.cond = "completed"

IsSatisfied(dep, statusOf) ==
  IF dep.cond = "finished" THEN statusOf[dep.id] \in {"completed", "failed"}
                           ELSE statusOf[dep.id] = "completed"

Evaluate(d, statusOf) ==
  LET found(dep) == statusOf[dep.id] # "none"
      satisfied == Cardinality({i \in DOMAIN d.deps :
                     ~found(d.deps[i]) \/ IsSatisfied(d.deps[i], statusOf)})
      impossible == Cardinality({i \in DOMAIN d.deps :
                      found(d.deps[i]) /\ IsImpossible(d.deps[i], statusOf)})
  IN  IF d.deps = <<>> THEN "ready"
      ELSE IF d.strategy = "any"
           THEN CASE satisfied > 0 -> "ready"
                  [] satisfied = 0 /\ impossible = Len(d.deps) -> "fail"
                  [] OTHER -> "wait"
           ELSE CASE impossible > 0 -> "fail"
                  [] impossible = 0 /\ satisfied = Len(d.deps) -> "ready"
                  [] OTHER -> "wait"

-----------------------------------------------------------------------------
Init == dependsOn = Nothing /\ asSet = NoDependsOn

(* The first enqueue of the job stores what it is given. *)
Store(given) ==
  /\ dependsOn = Nothing
  /\ dependsOn' = given
  /\ asSet' = AsSet(given)

(* Callers name a parent once; nil leaves everything as it is. *)
MayMerge(given) == IdsAreDistinct(given.deps) /\ given # Nothing

(* A later enqueue. *)
MergeGiven(given) ==
  /\ MayMerge(given)
  /\ dependsOn' = MergeList(dependsOn, given)
  /\ asSet' = Merge(asSet, AsSet(given))

Next == \E given \in Given : Store(given) \/ MergeGiven(given)

Spec == Init /\ [][Next]_vars

-----------------------------------------------------------------------------
(* The loop over the list adds what the definition on sets adds, whatever  *)
(* the sequence of enqueues; an unset strategy and "all" are the same.     *)
MergeAgrees ==
  LET named(s) == IF s = "unset" THEN "all" ELSE s
  IN  /\ ToSet(dependsOn.deps) = asSet.deps
      /\ named(dependsOn.strategy) = named(asSet.strategy)

(* The counting of Evaluate gives the verdict of the definitions on sets,  *)
(* for every state of the parents; the three verdicts exclude one another. *)
EvaluateAgrees ==
  \A statusOf \in [Parent -> Status] :
    LET verdict == Evaluate(dependsOn, statusOf)
    IN  /\ (verdict = "ready") <=> IsReady(asSet, statusOf)
        /\ (verdict = "fail") <=> IsHopeless(asSet, statusOf)
        /\ (verdict = "wait") <=> MustWait(asSet, statusOf)

(* No ghost jobs: once every parent is settled the job runs or fails, it   *)
(* does not wait for ever (docs/how-to-use-jobqueue.md).                   *)
NoGhostJob ==
  \A statusOf \in [Parent -> {"completed", "failed", "none"}] :
    Evaluate(dependsOn, statusOf) # "wait"

(* The enqueue asks nothing of a parent already named but what is stored. *)
ConditionsAgree(given) ==
  \A dep \in ToSet(given.deps) :
    HasId(dependsOn.deps, dep.id) => dep \in ToSet(dependsOn.deps)

(* Who is ready after the merge was so by what is stored, and by what is given. *)
NothingWeakened(given) ==
  \A statusOf \in [Parent -> Status] :
    Evaluate(MergeList(dependsOn, given), statusOf) = "ready" =>
      /\ Evaluate(dependsOn, statusOf) = "ready"
      /\ ConditionsAgree(given) => Evaluate(given, statusOf) = "ready"

(* Whatever is stored, Merge (job.go:121-143) runs the job no earlier than *)
(* the enqueues so far or the new one allow, with two exceptions, which    *)
(* the code makes: under the strategy "any", given now or kept, each       *)
(* dependency added is one more way to be ready, and a later "any"         *)
(* replaces an earlier "all"; and of a parent that is known the first      *)
(* condition stays, so that a later one, be it stronger, is dropped.       *)
(* Otherwise neither is weakened, what is stored stays in front and        *)
(* nothing is doubled.                                                     *)
WeakenedOnlyByAny ==
  \A given \in Given : MayMerge(given) =>
    LET new == MergeList(dependsOn, given)
    IN  /\ IsPrefix(dependsOn.deps, new.deps)
        /\ IdsAreDistinct(dependsOn.deps) => IdsAreDistinct(new.deps)
        /\ new.strategy = "any" \/ NothingWeakened(given)
=============================================================================
