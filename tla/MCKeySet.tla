------------------------------ MODULE MCKeySet ------------------------------
(* Two providers that may come to publish the same kid, and documents with *)
(* no key, one key, a rotated key and two keys under one kid.              *)
EXTENDS KeySet, TLC

CONSTANTS p1, p2, w1, w2, m1, m2

MCProviders == {p1, p2}
MCRefreshers == {w1, w2}

Key(kid, material) == [kid |-> kid, material |-> material]
MCDocuments == {{}, {Key("a", m1)}, {Key("b", m1)}, {Key("a", m1), Key("a", m2)},
                {Key("a", m2), Key("b", m1)}}
=============================================================================
