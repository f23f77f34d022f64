-------------------------- MODULE MCAuthnProviders --------------------------
(* Files with no, one or two providers, one of them required, one with an  *)
(* invalid entry and one whose realm is a tenant's display name.           *)
EXTENDS SubjectIdentity

Provider(id, required, form, realm) ==
    [id |-> id, required |-> required, form |-> form, realm |-> realm]

Empty == <<>>
One == <<Provider("a", FALSE, "issuer", "a")>>
Two == <<Provider("a", FALSE, "issuer", "a"), Provider("b", TRUE, "jwksUri", "")>>
Other == <<Provider("b", FALSE, "jwksUri", ""), Provider("a", FALSE, "issuer", "a")>>
Invalid == <<Provider("a", FALSE, "issuer", "a"), Provider("c", FALSE, "invalid", "")>>
Tenant == <<Provider("t", FALSE, "issuer", "acme")>>

MCContents == {Empty, One, Two, Other, Invalid, Tenant}
MCTwoContents == {One, Two}
MCDisplays == {"acme"}
MCModes == {"strict", "permissive"}
MCStoreWorks == {}
MCReloadFails == {"Reload"}

(* The file never comes back to a content that it had.                     *)
MCOrder == <<Missing, Empty, Invalid, One, Malformed, Tenant, Two, Other>>
MCPairs == {p \in (1..Len(MCOrder)) \X (1..Len(MCOrder)) : p[1] < p[2]}
MCForward == {<<MCOrder[p[1]], MCOrder[p[2]]>> : p \in MCPairs}
MCAnyChange == {<<c, d>> \in (MCTwoContents \cup {Malformed, Missing}) \X
                             (MCTwoContents \cup {Malformed, Missing}) : c # d}

(* Providers a and b share the kid "k1"; a also serves an encryption key   *)
(* under "k2", where t signs, and a key without a kid.                     *)
Key(kid, use, alg, kty, material) ==
    [kid |-> kid, use |-> use, alg |-> alg, kty |-> kty, material |-> material]

MCJwks ==
    [a |-> {Key("", "sig", "RS256", "RSA", "a0"), Key("k1", "sig", "RS256", "RSA", "a1"),
             Key("k2", "enc", "", "RSA", "a2")},
     b |-> {Key("k1", "", "", "RSA", "b1"), Key("k3", "sig", "", "EC", "b3")},
     c |-> {Key("k4", "sig", "", "EC", "c4")},
     t |-> {Key("k2", "sig", "ES256", "EC", "t2")}]

MCAudiences == [a |-> {"app"}, b |-> {"App", "app", "net", ""}, c |-> {}, t |-> {}]
MCAllowMissingAud == {"a"}
MCLowerCase == ("APP" :> "app") @@ ("App" :> "app")
MCUpperCase == ("admin" :> "ADMIN")

Token(alg, kid, signer, aud, wrong) ==
    [readable |-> TRUE, alg |-> alg, kid |-> kid, signer |-> signer, aud |-> aud, wrong |-> wrong,
     level |-> "m2m", roles |-> {"admin", ""}, scope |-> {"read", ""}, scp |-> {"write"}]

MCAuds == {NoClaim, {}, {""}, {"app"}, {"APP"}, {"other", "net"}}
MCSigners == {<<"k1", "a1">>, <<"k1", "b1">>, <<"k1", "x">>, <<"k2", "a2">>, <<"k2", "t2">>,
              <<"k3", "b3">>, <<"", "a0">>, <<"k9", "x">>}
MCTokens ==
    {Token(alg, k[1], k[2], aud, wrong) :
        alg \in {"RS256", "ES256", "HS256"}, k \in MCSigners, aud \in MCAuds,
        wrong \in {{}, {"exp"}, {"exp", "nbf"}, {"nbf"}, {"iat"}}}
    \cup {[Token("", "", "x", NoClaim, {}) EXCEPT !.readable = FALSE]}
=============================================================================
