----------------------------- MODULE MCM2MToken -----------------------------
(* Two tokens are enough to tell a new one from the one before it.         *)
EXTENDS M2MToken

CONSTANTS t1, t2

MCTokens == {t1, t2}
MCLifetimes == {10, 16}
MCSources == {"credentials", "file"}
=============================================================================
