------------------------------ MODULE MineCall ------------------------------
(***************************************************************************)
(* What run_thread relies on when it calls mine (EngineImpl::mine): as far *)
(* as it can tell the call is one step that returns a nonce that solves,   *)
(* or none, or fails.  MiningThreads!Mine is such a step that may miss a   *)
(* solution; in MiningThreads!Found the solutions are those of the job.    *)
(***************************************************************************)
EXTENDS Integers

CONSTANTS Nonces,      \* the nonces counted
          MayMiss      \* whether a solution may be missed

VARIABLES solutions,   \* among the nonces
          state,       \* of the call
          nonce        \* what it returns, 0 for None

vars == <<solutions, state, nonce>>

Init == /\ solutions \subseteq Nonces
        /\ state = "calling"
        /\ nonce = 0

\* The solution 0 is returned as None, in place of any other.
Returnable ==
  IF MayMiss \/ 0 \in solutions \/ solutions = {} THEN solutions \cup {0} ELSE solutions

Return == /\ state = "calling"
          /\ state' = "returned"
          /\ nonce' \in Returnable
          /\ UNCHANGED solutions

Fail == /\ state = "calling"
        /\ state' \in {"failed", "panicked"}
        /\ UNCHANGED <<solutions, nonce>>

Next == Return \/ Fail

Spec == Init /\ [][Next]_vars
=============================================================================
