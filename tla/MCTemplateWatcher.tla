-------------------------- MODULE MCTemplateWatcher --------------------------
(* Small instance of TemplateWatcher: a fork with two blocks of one height.  *)
EXTENDS TemplateWatcher

CONSTANTS h1, h2
Fork == {h1, h2}
ForkHeightOf == [h \in Fork \cup {NoHash} |-> IF h = NoHash THEN 0 ELSE 2]

Cfg(p2pool, valid) == [p2pool_enabled |-> p2pool, address_valid |-> valid]
BaseNodeOnly == {Cfg(FALSE, TRUE)}
AllConfigs == {Cfg(p, v) : p, v \in BOOLEAN}
=============================================================================
