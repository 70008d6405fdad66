------------------------------ MODULE MCStartup ------------------------------
(* The passing run: three devices of which any may be gone, so that those  *)
(* behind it move up, or two of which have changed places, and each of      *)
(* which may fail to be set up.  The other run: two devices, both there, on *)
(* one platform.                                                            *)
EXTENDS Startup

Machine(names, working) ==
  [j \in DOMAIN names |->
    [device_name |-> names[j], platform |-> "p1", works |-> names[j] \in working]]

MCDevices == {"a", "b", "c"}
Orders == {<<"a", "b", "c">>, <<"a", "b">>, <<"a", "c">>, <<"b", "c">>, <<"b", "a">>,
           <<"c">>, <<>>}
MCMachines == {Machine(names, working) : names \in Orders, working \in SUBSET MCDevices}
BothThere == {Machine(<<"a", "b">>, working) : working \in SUBSET MCDevices}
=============================================================================
