------------------------------ MODULE JobLease ------------------------------
(***************************************************************************)
(* What the job queue promises to those who enqueue and to the handlers,   *)
(* without the table, the clocks and the statements: a job is submitted,   *)
(* leased to one worker at a time, and comes back as done, failed or       *)
(* waiting.  A submission that meets a leased job is remembered and keeps  *)
(* the lease from ending in "done".  A lease whose worker went away is     *)
(* reclaimed.  Only done jobs are forgotten; only a submission revives a   *)
(* done or failed job.                                                     *)
(***************************************************************************)
CONSTANTS Job, Holder

VARIABLES
  state,    \* where each job is
  lease,    \* the workers that hold it, at most one
  again     \* leased jobs that were submitted again

vars == <<state, lease, again>>

State == {"new", "waiting", "leased", "done", "failed", "forgotten"}

TypeOK ==
  /\ state \in [Job -> State]
  /\ lease \in [Job -> SUBSET Holder]
  /\ again \subseteq Job

Init ==
  /\ state = [j \in Job |-> "new"]
  /\ lease = [j \in Job |-> {}]
  /\ again = {}

Submit(j) ==
  /\ \/ /\ state[j] \in {"new", "waiting", "done", "failed"}
        /\ state' = [state EXCEPT ![j] = "waiting"]
        /\ UNCHANGED again
     \/ /\ state[j] = "leased"
        /\ again' = again \cup {j}
        /\ UNCHANGED state
  /\ UNCHANGED lease

(* A submission just before the lease may be taken for one after it. *)
Take(w, j) ==
  /\ state[j] = "waiting"
  /\ \A i \in Job : w \notin lease[i]
  /\ state' = [state EXCEPT ![j] = "leased"]
  /\ lease' = [lease EXCEPT ![j] = {w}]
  /\ again' \in {again, again \cup {j}}

(* The lease of w ends in state s. *)
Return(w, j, s) ==
  /\ lease[j] = {w} /\ state[j] = "leased"
  /\ s = "done" => j \notin again
  /\ state' = [state EXCEPT ![j] = s]
  /\ lease' = [lease EXCEPT ![j] = {}]
  /\ again' = again \ {j}

(* The worker goes away, the lease stays. *)
Lose(w, j) ==
  /\ lease[j] = {w}
  /\ lease' = [lease EXCEPT ![j] = {}]
  /\ UNCHANGED <<state, again>>

Reclaim(J, s) ==
  /\ \A j \in J : state[j] = "leased" /\ lease[j] = {}
  /\ state' = [j \in Job |-> IF j \in J THEN s ELSE state[j]]
  /\ again' = again \ J
  /\ UNCHANGED lease

Forget(J) ==
  /\ \A j \in J : state[j] = "done"
  /\ state' = [j \in Job |-> IF j \in J THEN "forgotten" ELSE state[j]]
  /\ UNCHANGED <<lease, again>>

Next ==
  \/ \E j \in Job : Submit(j)
  \/ \E w \in Holder, j \in Job :
       \/ Take(w, j)
       \/ \E s \in {"done", "failed", "waiting"} : Return(w, j, s)
       \/ Lose(w, j)
  \/ \E J \in SUBSET Job :
       (\E s \in {"failed", "waiting"} : Reclaim(J, s)) \/ Forget(J)

Spec == Init /\ [][Next]_vars
=============================================================================
