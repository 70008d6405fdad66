---------------------------- MODULE MCEngineMine ----------------------------
(* Three work items in two groups, two rounds; nonce 0 is among them.  The   *)
(* hashes 1 and 2 solve, 3 does not.                                         *)
EXTENDS EngineMine

MCGroup == [i \in Items |-> i \div 2]
MCHashes == {h \in [Batch -> 1 .. 3] :
              \A n \in Batch : (n = 5 => h[n] = 3) /\ (n = 4 => h[n] # 1)}
=============================================================================
