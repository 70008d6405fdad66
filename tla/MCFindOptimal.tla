---------------------------- MODULE MCFindOptimal ----------------------------
(* Sizes below 32, first 4.  The passing run measures any total below 5, each  *)
(* time anew; the other run has exact rates with one peak, from 9 to 15.       *)
EXTENDS FindOptimal

AnyTotal == {[size \in Sizes |-> 0 .. 4]}

\* Rates that fall off with the distance from the peak.
PeakAt(p) == [size \in Sizes |->
                {100 - 2 * (IF size < p THEN p - size ELSE size - p)}]
OnePeak == {PeakAt(p) : p \in 9 .. 15}
=============================================================================
