--------------------------- MODULE MCPolicyExport ---------------------------
(***************************************************************************)
(* The exports of the model-checking run, in families: two or three        *)
(* sets of two tenants in every state a set can be in; PIP declarations    *)
(* beside them; one set with nested sets, iterates and texts; and one rule *)
(* with every short text; members written twice or of a wrong type; keys   *)
(* that no field has, at every depth; and documents without their array.   *)
(***************************************************************************)
EXTENDS PolicyExport

Equal(left, right) == <<left, <<"op", "==">>, right>>
ScopeText == Equal(<<"scope", "k">>, <<"string", "v">>)
PathText == Equal(<<"badpath", "p">>, <<"string", "v">>)
Garbled == <<<<"garbled", "">>>>

Rule(tenant, effect, target, condition) ==
  [tenant |-> tenant, id |-> "r", effect |-> effect, target |-> target, condition |-> condition,
   querydsl |-> FALSE, custom |-> FALSE, keys |-> <<>>]
Policy(algorithm, target, rules) ==
  [tenant |-> "", id |-> "p", algorithm |-> algorithm, target |-> target, rules |-> rules, keys |-> <<>>]
Set(tenant, id, policies, sets) ==
  [tenant |-> tenant, id |-> id, status |-> "ACTIVE", type |-> "ORDINARY", algorithm |-> "DENY_OVERRIDES",
   target |-> <<>>, iterate |-> <<>>, policies |-> policies, sets |-> sets, readable |-> TRUE, unknown |-> 0,
   keys |-> <<>>]
Scope == <<[foreach |-> "subject.permissionScope", algorithm |-> "DENY_OVERRIDES"]>>
OtherForeach == <<[foreach |-> "subject.roles", algorithm |-> "DENY_OVERRIDES"]>>
NoAlgorithm == <<[foreach |-> "subject.permissionScope", algorithm |-> ""]>>

\* A set in the shape of simplified policies, and its near misses.
Simplified(tenant, id, rules) ==
  [Set(tenant, id, <<Policy("DENY_UNLESS_PERMIT", <<OperationTarget("ALL")>>, rules),
                     Policy("DENY_UNLESS_PERMIT", <<OperationTarget("op")>>, <<>>)>>, <<>>)
     EXCEPT !.type = "SIMPLIFIED", !.algorithm = "DENY_UNLESS_PERMIT", !.target = <<ResourceTypeTarget("rt")>>]
RoleRule(condition) == Rule("", "ALLOW", <<RolesTarget(<<"r1", "r2">>)>>, condition)
Spelled == <<<<<<"resourceType", "">>, <<"op", "EQUALS">>, <<"string", "rt">>>>>>

\* The states of a set; other is the other tenant.
Kinds(tenant, id, other) ==
  LET plain == Set(tenant, id, <<Policy("", <<>>, <<Rule(tenant, "ALLOW", <<>>, <<ScopeText>>)>>)>>, <<>>)
      failing == Policy("", <<>>, <<Rule("", "PERHAPS", <<>>, <<>>)>>)
  IN {[plain EXCEPT !.unknown = 1], [plain EXCEPT !.readable = FALSE], [plain EXCEPT !.status = "DRAFT"],
      [plain EXCEPT !.status = "INACTIVE", !.readable = FALSE], [plain EXCEPT !.algorithm = "FIRST"],
      [plain EXCEPT !.policies = <<failing>>], [plain EXCEPT !.policies = <<failing>>, !.iterate = OtherForeach],
      [plain EXCEPT !.iterate = Scope],
      [plain EXCEPT !.sets = <<Set(other, "n", <<>>, <<>>)>>, !.algorithm = "FIRST", !.target = <<Garbled>>],
      Simplified(tenant, id, <<RoleRule(<<Garbled>>), RoleRule(<<PathText>>)>>),
      [Simplified(tenant, id, <<RoleRule(<<>>)>>) EXCEPT !.target = Spelled],
      Simplified(tenant, id, <<[RoleRule(<<>>) EXCEPT !.querydsl = TRUE]>>)}

AnySet == UNION {Kinds("t1", id, "t2") \cup Kinds("t2", id, "t1") : id \in {"a", "b"}}
            \cup {Set("", "a", <<>>, <<>>)}
FewSets == {s \in AnySet : s.id = "a" /\ (s.status # "ACTIVE" \/ s.iterate = Scope \/ ~s.readable \/ s.type = "SIMPLIFIED")}

Pip(tenant, name, type, headers, extensions, unknown) ==
  [tenant |-> tenant, id |-> name, readable |-> TRUE, type |-> type, headers |-> headers, extensions |-> extensions,
   unknown |-> unknown]
PipsOf(tenant) ==
  {Pip(tenant, "subject.p", "", "none", {}, 1), Pip(tenant, "subject.p", "TOKEN", "list", {"query"}, 0),
   Pip(tenant, "subject.q", "", "object", {}, 0), Pip(tenant, "q", "", "none", {}, 0),
   Pip(tenant, "subject.p", "MADE_UP", "none", {}, 0), Pip(tenant, "subject.p", "", "other", {}, 0),
   [Pip(tenant, "subject.p", "", "none", {}, 0) EXCEPT !.readable = FALSE]}
AnyPip == PipsOf("t1") \cup PipsOf("t2") \cup {Pip("", "subject.p", "", "none", {}, 0)}

\* The members of an element: a member without a value is not written.
Member(key, text) == IF text = "" THEN <<>> ELSE <<<<key, <<"string", text>>>>>>
RawSet(s) ==
  [body |-> s, members |-> Member("tenantId", s.tenant) \o Member("policySetId", s.id) \o Member("status", s.status)
                             \o (IF s.unknown = 0 THEN <<>> ELSE <<<<"STATUS", <<"string", "DRAFT">>>>>>)]
RawPip(p) ==
  [body |-> p, members |-> Member("tenantId", p.tenant) \o Member("name", p.id)
                             \o (IF p.unknown = 0 THEN <<>> ELSE <<<<"pipTYPE", <<"string", "TOKEN">>>>>>)]
Arrays == [sets |-> <<<<"policySets", <<"array", "">>>>>>, pips |-> <<<<"pips", <<"array", "">>>>>>]
Export(sets, pips) == [documents |-> Arrays, sets |-> [k \in DOMAIN sets |-> RawSet(sets[k])], pips |-> [k \in DOMAIN pips |-> RawPip(pips[k])]]

\* Members written twice, of the wrong type, or in another letter case.
Values == {<<"string", "t1">>, <<"string", "DRAFT">>, <<"null", "">>, <<"number", "1">>}
OddMembers == {<<>>} \cup {<<<<key, value>>>> : key \in SetKeys \cup {"STATUS", "description"}, value \in Values}
OddSets == {[body |-> Set("t1", "a", <<>>, <<>>), members |-> Member("tenantId", "t2") \o Member("policySetId", "a") \o x \o y] :
              x, y \in OddMembers}
OddExports == {[documents |-> Arrays, sets |-> <<s, RawSet(Set("t1", "", <<>>, <<>>)), RawSet(Set("t2", "a", <<>>, <<>>))>>, pips |-> <<>>] : s \in OddSets}
OddPips == {[documents |-> Arrays, sets |-> <<>>, pips |-> <<[body |-> Pip("t1", "subject.p", "", "none", {}, 0), members |-> Member("tenantId", "t1") \o x \o y]>>] :
              x, y \in {<<>>} \cup {<<<<key, value>>>> : key \in PipKeys \cup {"NAME"},
                                     value \in Values \cup {<<"string", "subject.p">>}}}
PlainSet == Set("t1", "a", <<>>, <<>>)

\* Documents with their array, without it, and with the key written twice or in another spelling.
Documents(key, other) ==
  {x \o y : x, y \in {<<>>} \cup {<<<<k, <<type, "">>>>>> : k \in {key, other}, type \in {"array", "null", "object"}}}
OddDocuments == {[Export(<<PlainSet>>, <<>>) EXCEPT !.documents = [sets |-> d, pips |-> e]] :
                   d \in Documents("policySets", "PolicySets"), e \in Documents("pips", "policySets")}

\* Keys that no field has, at every depth; uiCondition is a key of rules only.
NestedKeys == {<<>>, <<"uiCondition">>, <<"uiTarget", "Target">>}
Keyed(rule, policy, nested) ==
  LET body == Policy("", <<>>, <<[Rule("", "ALLOW", <<>>, <<>>) EXCEPT !.keys = rule]>>)
      inner == [Set("", "n", <<[body EXCEPT !.keys = policy]>>, <<>>) EXCEPT !.keys = nested]
  IN Set("t1", "a", <<body>>, <<inner, inner>>)
KeyedExports == {Export(<<[Keyed(r, p, n) EXCEPT !.status = status, !.unknown = u],
                             [PlainSet EXCEPT !.id = id]>>, <<>>) :
                   id \in {"a", "b"}, r, p, n \in NestedKeys, status \in {"ACTIVE", "DRAFT"}, u \in 0..1}

\* A chain of sets with a sibling of the same identifier in the middle.
Iterates == {<<>>, Scope, OtherForeach, NoAlgorithm}
Texts == {<<>>, <<ScopeText>>, <<Garbled>>}
Node(iterate, text, sets) ==
  [Set("t1", "x", <<Policy("", <<>>, <<Rule("", "DENY", <<>>, text), Rule("", "", text, <<>>)>>)>>, sets)
     EXCEPT !.iterate = iterate, !.target = text, !.status = ""]
Leaves == {Node(i, t, <<>>) : i \in {<<>>, Scope}, t \in Texts}
Nested == {<<Node(<<>>, <<>>, <<leaf>>), Node(j, t, <<>>)>> : leaf \in Leaves, j \in Iterates, t \in Texts}
            \cup {<<Node(Scope, t, <<leaf>>), Node(Scope, t, <<>>)>> : leaf \in Leaves, t \in Texts}
            \cup {<<Node(NoAlgorithm, t, <<leaf>>), Node(Scope, t, <<>>)>> : leaf \in Leaves, t \in Texts}
Tops == {Node(i, t, sets) : i \in Iterates, t \in Texts, sets \in Nested}

Operands == {<<"string", "s">>, <<"number", "1">>, <<"bool", "true">>, <<"scope", "k">>, <<"attr", "roles">>,
             <<"attr", "isM2M">>, <<"pip", "subject.p">>, <<"path", "a">>, <<"badpath", "p">>, <<"access", "op">>,
             <<"wildcard", "*">>}
Tokens == Operands \cup {<<"op", w>> : w \in {"==", "IN", "MATCH", "IS NULL"}}
            \cup {<<"word", "AND">>, <<"word", "OR">>, <<"comma", ",">>, <<"filtered", "op">>, <<"garbled", "">>}
ShortTexts == {<<>>} \cup {<<a>> : a \in Tokens} \cup {<<a, b>> : a, b \in Tokens} \cup {<<a, b, c>> : a, b, c \in Tokens}
ListTexts == {<<<<"path", "a">>, <<"op", w>>, x, y>> : w \in {"IN", "=="}, x, y \in Tokens}
               \cup {<<<<"path", "a">>, <<"op", w>>, x, <<"comma", ",">>, y>> : w \in {"CONTAINS ANY", "<"}, x, y \in Tokens}
JoinedTexts == {x \o <<<<"word", w>>>> \o y : w \in {"AND", "OR"},
                  x, y \in {ScopeText, PathText, <<<<"bool", "true">>>>, <<<<"attr", "roles">>, <<"op", "IS NULL">>>>}}
TextExport(text) ==
  Export(<<[Set("t1", "a", <<Policy("", <<>>, <<Rule("", "ALLOW", <<text>>, <<>>)>>)>>, <<>>) EXCEPT !.iterate = Scope]>>, <<>>)

AllExports == [pairs |-> {Export(<<s, u>>, <<>>) : s, u \in AnySet},
               triples |-> {Export(<<s, u, v>>, <<>>) : s, u, v \in FewSets},
               pips |-> {Export(<<PlainSet>>, <<p, q, r>>) : p, q, r \in AnyPip},
               nested |-> {Export(<<s>>, <<>>) : s \in Tops},
               twoTrees |-> {Export(<<s, [s EXCEPT !.id = "y"]>>, <<>>) : s \in {x \in Tops : x.iterate = Scope}},
               members |-> OddExports,
               names |-> OddPips,
               documents |-> OddDocuments,
               keyed |-> KeyedExports,
               short |-> {TextExport(t) : t \in ShortTexts},
               lists |-> {TextExport(t) : t \in ListTexts \cup JoinedTexts}]

MCExports == AllExports
MCSubjectNames == {"subject.p", "subject.q"}
=============================================================================
