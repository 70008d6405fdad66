--------------------------- MODULE MCMiningThreads ---------------------------
(* Two devices with four nonces each; each can solve the first template and   *)
(* one of them the second, whose last batch also holds a solution.            *)
EXTENDS MiningThreads

MCDevices == {0, 1}
MCSolves == {<<1, 3>>, <<1, 4>>, <<2, 1>>, <<2, 2>>}
=============================================================================
