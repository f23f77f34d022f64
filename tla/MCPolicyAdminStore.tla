------------------------- MODULE MCPolicyAdminStore -------------------------
(* PolicyAdminStore for TLC: two callers, two domains of policies, a null  *)
(* and a one-item body.                                                    *)
EXTENDS PolicyAdminStore, TLC

CONSTANTS x, c1, c2

MCOneKey == {<<"policies", 1>>}
MCTwoDomains == {<<"policies", 1>>, <<"policies", 2>>}
MCRaws == {Null, <<x>>}
MCClients == {c1, c2}
MCSymmetry == Permutations(MCClients)
=============================================================================
