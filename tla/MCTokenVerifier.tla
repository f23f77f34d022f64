--------------------------- MODULE MCTokenVerifier ---------------------------
(* One cluster provider that replaces the key under its kid, and a token    *)
(* of each key that differ in their times, audience and namespace.          *)
EXTENDS TokenVerifier, TLC

CONSTANTS k8s, w1, c1, c2, m1, m2

MCProviders == {k8s}
MCRefreshers == {w1}
MCCallers == {c1, c2}
MCSymmetry == Permutations(MCCallers)

MCDocuments == {{[kid |-> "a", material |-> m1]}, {[kid |-> "a", material |-> m2]}}

MCKeyAlgs == [m \in {m1, m2} |-> {"RS256"}]
MCAlgorithms == {"RS256", "ES256"}
MCAudiences == [p \in MCProviders |-> {"svc"}]
MCKubernetes == {k8s}
MCAllowMissingAud == {k8s}
MCTopologies == {{"ns"}}
MCOwnNamespace == {"own"}

(* With a leeway of 1, the first is accepted at 0 only and the second at 1  *)
(* only: the clock meets each boundary, and iat is at its own from 0 on.    *)
Good == [wellFormed |-> TRUE, alg |-> "RS256", kid |-> "a", signer |-> m1, isObject |-> TRUE,
         aud |-> {"svc"}, exp |-> 0, nbf |-> Absent, iat |-> 1, namespace |-> "ns"]
Later == [Good EXCEPT !.signer = m2, !.exp = 1, !.nbf = 2, !.aud = Absent, !.namespace = "own"]

MCTokens == {Good, Later}
=============================================================================
