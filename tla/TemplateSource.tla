--------------------------- MODULE TemplateSource ---------------------------
(***************************************************************************)
(* What the mining threads rely on: somebody publishes block templates.    *)
(* A template is known here only by the version of the chain it was built  *)
(* on (versions count the moves of the tip).  Once there is a template     *)
(* there always is one, it never goes back to an older tip, and nothing    *)
(* is published after the publisher has ended.                             *)
(***************************************************************************)
EXTENDS Integers

CONSTANT MaxVersion           \* bound on the tip moves explored

VARIABLES version,            \* version of the chain's tip, 1, 2, ...
          published,          \* version mined on, 0 while there is no template
          status              \* of the publisher

vars == <<version, published, status>>

Ended == {"stopped", "failed", "crashed"}

Init == /\ version = 1
        /\ published = 0
        /\ status = "running"

TipMoves == /\ version < MaxVersion
            /\ version' = version + 1
            /\ UNCHANGED <<published, status>>

Publish == /\ status = "running"
           /\ \E v \in 1 .. version : published <= v /\ published' = v
           /\ UNCHANGED <<version, status>>

End == /\ status = "running"
       /\ status' \in Ended
       /\ UNCHANGED <<version, published>>

Next == TipMoves \/ Publish \/ End

Spec == Init /\ [][Next]_vars
=============================================================================
