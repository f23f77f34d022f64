--------------------------- MODULE MCOutboundToken ---------------------------
(* Small instances of OutboundToken.  The unit of time is 15 seconds: the   *)
(* pause after a token of three units is two, and minRenewInterval is two.  *)
EXTENDS OutboundToken, TLC

CONSTANTS r1

MCRequests == {r1}
MCLifetimes == {3}
MCExpiries == {1, Never}
=============================================================================
