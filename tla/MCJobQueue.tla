----------------------------- MODULE MCJobQueue -----------------------------
(* Finite instances of JobQueue. *)
EXTENDS JobQueue, TLC

CONSTANTS w1, w2, k1, k2

On(i, c, s) == [deps |-> {[id |-> i, cond |-> c]}, strategy |-> s]

(* A dependency on either of the first two jobs: dependencies on itself    *)
(* and cycles of two jobs come about by enqueuing again.                   *)
EitherParent == {NoDependsOn, On(1, "completed", "unset"),
                 On(2, "completed", "unset")}

(* What the publisher passes (all of several jobs), and the any strategy.  *)
BothParents ==
  {NoDependsOn, On(1, "finished", "all"),
   [deps |-> [id : {1, 2}, cond : {"completed"}], strategy |-> "all"],
   [deps |-> [id : {1, 2}, cond : {"completed"}], strategy |-> "any"]}

NoParent == {NoDependsOn}

WorkerAndKeySymmetry == Permutations({k1, k2}) \cup Permutations({w1, w2})

=============================================================================
