------------------------------ MODULE MCGlytex ------------------------------
(* Two devices; the first template is solved by both, the second by none.    *)
EXTENDS Glytex

MCDevices == {0, 1}
MCSolves == {<<1, 1>>, <<1, 5>>}
=============================================================================
