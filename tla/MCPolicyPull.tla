---------------------------- MODULE MCPolicyPull ----------------------------
(* PolicyPull for TLC: the loop and an on-demand caller.                   *)
EXTENDS PolicyPull

CONSTANT p1

MCCallers == {p1}
MCModes == {"ticks", "zero", "noSource"}
MCStores == BOOLEAN
=============================================================================
