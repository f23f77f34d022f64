-------------------------- MODULE MCPolicyPipeline --------------------------
(***************************************************************************)
(* A small instance of the pipeline.  Every source is small and made for   *)
(* one part of it: pairs of uploads for the indexes, single uploads for    *)
(* the conditions, odd names and targets for the wire, short texts for the *)
(* parser, lists of PIPs, and one policy set for the legacy routes.        *)
(***************************************************************************)
EXTENDS PolicyPipeline

LowerCase == [s \in {"x", "X", "y", "allowed", "denied", "", "2", "true"} |-> IF s = "X" THEN "x" ELSE s]
MCNumerals == [s \in {"1"} |-> 1]
MCMatching == {<<"x", "X">>}
MCJsonTexts == "\"x\"" :> Text("x") @@ "\"y\"" :> Text("y") @@ "2" :> Number(2) @@ "null" :> Null
MCSpelling == Number(2) :> "2" @@ Boolean(TRUE) :> "true"
MCSegments ==
    "$.name" :> <<<<"field", "name">>>> @@ "$.ids[*]" :> <<<<"field", "ids">>, <<"wildcard", 0>>>>
    @@ "$.ids[0].name" :> <<<<"field", "ids">>, <<"index", 0>>, <<"field", "name">>>>
SomeValues == {Text("x"), Text("y"), Number(2), Array(<<Text("x")>>), Object([name |-> Text("x")])}

Keys ==
    [name \in {"ALL", "DOC", "ORDER", "READ", "A", "B", "*", "d", "default", ""} |-> name]
    @@ [doc |-> "DOC", order |-> "ORDER", read |-> "READ", all |-> "ALL", a |-> "A"]
    @@ ("doc'" :> "DOC'" @@ " " :> "")
MCUnquotable == {"doc'"}
TypeKeys == {All, "DOC", "ORDER"}
MCOperations == {All, "READ"}
MCRoles == {All, "A", "B"}
KeysOfPredicates == [predicate \in {"p", "q", Trivial} |-> IF predicate = "p" THEN {"pip"} ELSE {}]
MCPredicateType == [p |-> "rsql", q |-> "sql"]

-----------------------------------------------------------------------------
(* Conditions over a PIP, the subject and the resource.                    *)
Subject(path) == Ref("subject", path)
Resource(path) == Ref("resource", path)
Entitled == [ref |-> [scope |-> "entitlements", resourceType |-> "doc", names |-> <<"reader">>]]
Leaf(op, left, right) == Node(op, <<left, right>>)
Not(node) == Node("not", <<node>>)

pip == Subject(<<"pip">>)
dept == Subject(<<"dept">>)
x == Const(Text("x"))
xs == Const(Array(<<Text("x")>>))

PipLeaves ==
    {Leaf("eq", pip, Const(Text("X"))), Leaf("neq", pip, x), Node("is_null", <<pip>>),
     Leaf("is_subset", pip, xs), Leaf("in", pip, xs), Leaf("eq", Subject(<<"pip", "name">>), x),
     Leaf("eq", Resource(<<"owner">>), pip), Leaf("contains_any", Resource(<<"tags">>), pip),
     Leaf("gte", pip, Const(Number(2)))}

OtherLeaves ==
    {Leaf("eq", dept, x), Leaf("contains", Resource(<<"tags">>), x),
     Leaf("lt", Resource(<<"size">>), Const(Number(2))),
     Leaf("match", Resource(<<"owner">>), Const(Text("X"))), Node("is_empty", <<Resource(<<"tags">>)>>),
     Leaf("neq", Resource(<<"attrs", "owner">>), x), Leaf("in", Resource(<<"owner">>), Entitled),
     Node("has_access", <<Const(Text("allowed")), x, Const(Text("resource")), Const(Number(1))>>)}

(* What parseComparison yields: a leaf, or the negation of some.           *)
Negatable == {Operators[i][2] : i \in {j \in DOMAIN Operators : Operators[j][3]}}
Comparisons(leaves) == leaves \cup {Not(leaf) : leaf \in {l \in leaves : l.op \in Negatable}}
Pairs(op, lefts, rights) == {Leaf(op, l, r) : l \in lefts, r \in rights}

Some == Comparisons({Leaf("neq", pip, x), Leaf("in", pip, xs), Leaf("eq", dept, x)})
Nested(inner, outer) == Pairs(outer, Some, Pairs(inner, Some, Some))

Owner == Leaf("eq", Resource(<<"owner">>), x)
Tree == Leaf("or", Owner, Leaf("and", Leaf("eq", dept, x), Not(Leaf("in", pip, xs))))

Trees ==
    Comparisons(PipLeaves \cup OtherLeaves)
    \cup Pairs("and", Comparisons(PipLeaves), Comparisons(OtherLeaves) \cup {Const(Boolean(FALSE))})
    \cup Nested("or", "and") \cup Nested("and", "or") \cup {Owner, Tree}

-----------------------------------------------------------------------------
(* Short texts, of single tokens and of whole comparisons.                 *)
DeptToken == <<"ref", dept.ref>>
AllTokens ==
    {DeptToken, String("x"), Word("EQUALS"), Word("AND"), Word("OR"), Word("NOT"), Word("IN"),
     Word("true"), Comma, Open, Close}
Chunks ==
    {<<DeptToken, Word("=="), String("x")>>, <<DeptToken, Word("IN"), String("x"), Comma, String("y")>>,
     <<Word("AND")>>, <<Word("OR")>>, <<Open>>, <<Close>>}
Texts ==
    [three |-> [1..3 -> AllTokens], four |-> [1..4 -> AllTokens \ {Comma, Word("NOT")}],
     list |-> {<<DeptToken, Word("IN"), String("x"), a, b>> : a \in AllTokens, b \in AllTokens},
     negated |-> {<<DeptToken, Word("NOT"), Word("IN"), a, b>> : a \in AllTokens, b \in AllTokens},
     nested |-> {FlattenSeq(s) : s \in [1..5 -> Chunks]}]

-----------------------------------------------------------------------------
(* Sources                                                                 *)
Source(kind, items, sets, pipItems, earlier, clients) ==
    [kind |-> kind, items |-> items, sets |-> sets, pips |-> pipItems, earlier |-> earlier,
     clients |-> clients]
Uploads(items, clients) == Source("uploads", items, <<>>, <<>>, EmptyPips, clients)

Upload(rt, op, roles, condition, predicates) ==
    [component |-> "d", resourceType |-> rt, operation |-> op, roles |-> roles,
     condition |-> condition, predicates |-> predicates]
NoText == <<"absent", 0>>
TreeOf(node) == <<"tree", node>>

Set(type, target, policyTarget, rules) ==
    [type |-> type, domain |-> "d", tenant |-> "", target |-> target,
     policies |-> <<[target |-> policyTarget, rules |-> rules]>>]
SetRule(effect, target, condition, predicates) ==
    [effect |-> effect, target |-> target, condition |-> condition, predicates |-> predicates]

TypeTarget == <<Word("resourceType"), Word("=="), String("doc")>>
OperationTarget == <<Word("operation"), Word("EQUALS"), String("READ")>>
RoleTarget == <<Word("subject.roles"), Word("CONTAINS"), String("A")>>
AnyTarget == <<Word("true")>>

SomeUploads ==
    {Upload(rt, op, roles, condition, predicates) :
        rt \in {"all", "doc"}, op \in {"*", "READ"},
        roles \in {<<>>, <<<<"ALL">>>>, <<<<"A">>>>, <<<<"A">>, <<"B">>>>},
        condition \in {NoText, TreeOf(Owner)}, predicates \in {{}, {"p"}}}

FewUploads ==
    {Upload("doc", "read", <<<<"A">>>>, TreeOf(Owner), {"p"}),
     Upload("DOC", "READ", <<<<"A">>>>, <<"boolean", TRUE>>, {Trivial}),
     Upload("doc", "READ", <<<<"B">>>>, NoText, {"q"}),
     Upload("doc", "READ", <<<<"B">>>>, <<"boolean", FALSE>>, {}),
     Upload("ALL", "*", <<<<"B">>>>, <<"text", <<Word("AND")>>>>, {}),
     Upload("doc", "READ", <<>>, <<"text", <<Word("AND")>>>>, {}),
     Upload("*", "READ", <<>>, NoText, {"q"}),
     [Upload("doc", "READ", <<<<"A">>>>, NoText, {}) EXCEPT !.component = " "]}

OddUploads ==
    {[Upload(rt, op, roles, NoText, {}) EXCEPT !.component = component] :
        rt \in {"doc", "doc'", "*", " "}, op \in {"read", "doc'", ""},
        roles \in {<<>>, <<<<"">>>>, <<<<"">>, <<"A">>>>, <<<<"a", "B">>>>, <<<<"A">>, <<"A">>>>, <<<<"doc'">>>>},
        component \in {"d", "", " "}}

OddTargets ==
    {<<>>, AnyTarget, TypeTarget, OperationTarget, RoleTarget,
     <<Word("subject.roles"), Word("CONTAINS"), Word("ANY"), String("A"), Comma, String("B")>>,
     RoleTarget \o <<Word("OR"), Word("subject.roles"), Word("CONTAINS"), String("B")>>,
     RoleTarget \o <<Word("AND")>>, <<Word("tenant"), Word("=="), String("d")>>}

OddSets ==
    {Set("SIMPLIFIED", target, policyTarget, <<SetRule("ALLOW", own, <<>>, {})>>) :
        target \in OddTargets, policyTarget \in OddTargets, own \in OddTargets}
    \cup {Set(type, TypeTarget, RoleTarget,
              <<SetRule(effect, OperationTarget, <<>>, {}), SetRule("ALLOW", AnyTarget, <<>>, {"p"})>>) :
            type \in {"SIMPLIFIED", "DEFAULT"}, effect \in {"ALLOW", "DENY"}}

-----------------------------------------------------------------------------
(* PIPs                                                                    *)
Nothing == [key \in {} |-> Null]
Response(extract, coerce, onMissing) ==
    [present |-> TRUE, malformed |-> FALSE, extract |-> extract, coerce |-> coerce,
     onMissing |-> onMissing]
NoResponse == [Response(NoExtract, "", "") EXCEPT !.present = FALSE]
BadResponse == [Response(NoExtract, "", "") EXCEPT !.malformed = TRUE]
Pip(alias, pipType) ==
    [name |-> <<Prefix, alias>>, pipType |-> pipType, type |-> "", claim |-> "", header |-> "",
     beanName |-> "", url |-> "u", httpMethod |-> "", body |-> "", jsonPath |-> "",
     headers |-> <<"absent", {}>>, response |-> NoResponse, timeout |-> Null, default |-> Null,
     wellFormed |-> TRUE]
General == Pip("pip", "GENERAL")

LocalPips ==
    {[Pip("pip", pipType) EXCEPT !.claim = "c", !.default = default] :
        pipType \in {"TOKEN", ""}, default \in {Null, Text("y")}}
    \cup {[Pip("pip", pipType) EXCEPT !.header = "h", !.default = default] :
            pipType \in {"HEADER", ""}, default \in {Null, Text("y")}}

GeneralPips ==
    {[Pip("pip", pipType) EXCEPT !.type = type, !.jsonPath = jsonPath, !.default = default,
                                 !.response = response] :
        pipType \in {"GENERAL", ""}, type \in {"", "JSON"}, jsonPath \in {"", "$.name"},
        default \in {Null, Text("y")},
        response \in {NoResponse, BadResponse, Response(<<"path", "$.name">>, "", "defaultValue")}}

(* Every form of a response: one value, several, and those that Validate   *)
(* refuses.                                                                *)
Entry(path, coerce, onMissing) == [path |-> path, coerce |-> coerce, onMissing |-> onMissing]
Extracts ==
    {NoExtract, <<"path", "$.name">>, <<"path", "$.ids[*]">>, <<"path", "$.ids[0].name">>,
     <<"map", [name |-> [path |-> "$.name"], ids |-> Entry("$.ids[*]", "string[]", "empty"),
               first |-> Entry("$.ids[0].name", "bool", "defaultValue")]>>,
     <<"map", [name |-> [coerce |-> "string"]]>>, <<"map", [name |-> Entry("$.name", "blob", "")]>>,
     <<"map", Nothing>>, <<"other", {}>>}
ResponsePips ==
    {[General EXCEPT !.default = default, !.response = Response(extract, coerce, onMissing)] :
        default \in {Null, Text("y")}, extract \in Extracts, coerce \in Coercions \cup {"blob"},
        onMissing \in Remedies \cup {"blob"}}

OddPips ==
    {[General EXCEPT !.beanName = "bean"], [General EXCEPT !.pipType = "MAPPING"],
     [General EXCEPT !.name = <<"", "pip">>], [General EXCEPT !.url = ""],
     [General EXCEPT !.httpMethod = "GET", !.timeout = Number(40), !.headers = <<"text", {"h"}>>],
     [General EXCEPT !.body = "b", !.timeout = Number(0), !.headers = <<"number", {}>>]}

PipLists ==
    {<<p>> : p \in LocalPips \cup GeneralPips \cup OddPips}
    \cup {<<[Pip("tok", "TOKEN") EXCEPT !.claim = "c"], General>>,
          <<General, [General EXCEPT !.default = Text("y")]>>,
          <<[Pip("entitledResources", "TOKEN") EXCEPT !.claim = "c"], General>>}

PipSet(node, predicates) ==
    <<Set("SIMPLIFIED", TypeTarget, RoleTarget,
          <<SetRule("ALLOW", OperationTarget, Written(node), predicates)>>)>>
PipSets ==
    {PipSet(node, predicates) :
        node \in {Leaf("eq", pip, Const(Text("X"))), Not(Leaf("in", pip, xs)), Owner},
        predicates \in {{}, {"p"}}}
    \cup {<<Set("SIMPLIFIED", TypeTarget, RoleTarget,
                <<SetRule("ALLOW", OperationTarget, <<Word("false")>>, {})>>),
            Set("SIMPLIFIED", AnyTarget, AnyTarget,
                <<SetRule("ALLOW", OperationTarget, Written(Leaf("eq", pip, x)), {"q"})>>)>>}

(* The documents an earlier load may have left: none, one for policies     *)
(* that read no PIP, and one with other PIPs.                              *)
EarlierOf(items) ==
    {EmptyPips,
     [doc |-> ApplyEntitlementsOverride(NormalizeItems(<<[Pip("other", "TOKEN") EXCEPT !.claim = "c"]>>), TRUE),
      activation |-> NoActivation]}
    \cup (IF Sliceable(ConvertPIPs(items))
          THEN {[doc |-> ApplyEntitlementsOverride(NormalizeItems(ConvertPIPs(items)), TRUE),
                 activation |-> NoActivation]}
          ELSE {})

-----------------------------------------------------------------------------
(* Requests                                                                *)
Entitlements == Object([doc |-> Object([reader |-> Array(<<Text("y")>>)])])
Resources ==
    {EmptyObject,
     Object([owner |-> Text("x"), tags |-> Array(<<Text("x"), Text("y")>>), size |-> Number(1),
             attrs |-> Object([owner |-> Text("X")])]),
     Object([owner |-> Text("y"), tags |-> Array(<<>>), size |-> Number(3), attrs |-> Null])}

Context(resource, base, services, entitlements) ==
    [resource |-> resource, base |-> base, claims |-> Nothing, headers |-> Nothing,
     services |-> services, entitlements |-> entitlements, subject |-> EmptyObject, aliases |-> {}]

SomeContexts ==
    UNION {{Context(resource, [dept |-> Text("x")], Nothing, EmptyObject),
            Context(resource, Nothing, Nothing, Entitlements),
            Context(resource, [dept |-> Text("X")], [pip |-> Text("\"x\"")], Entitlements),
            Context(resource, Nothing, [pip |-> Text("\"y\"")], EmptyObject),
            Context(resource, [dept |-> Text("y")], [pip |-> Object([name |-> Text("X")])], EmptyObject)} :
           resource \in Resources}

Request(roles, rt, ignoreRls, context) ==
    [admitted |-> TRUE, authenticated |-> TRUE, roles |-> roles, resourceType |-> rt,
     operation |-> "READ", ignoreRls |-> ignoreRls, context |-> context]

AContext == CHOOSE c \in SomeContexts : Get(c.resource, "owner", Null) = Text("x")
BContext == CHOOSE c \in SomeContexts : Get(c.resource, "owner", Null) = Text("y")

RoleRequests ==
    {Request(roles, rt, ignoreRls, context) :
        roles \in SUBSET {"A", "B"}, rt \in TypeKeys, ignoreRls \in BOOLEAN,
        context \in {AContext, BContext}}
    \cup {[Request({"A"}, "DOC", FALSE, AContext) EXCEPT !.admitted = FALSE],
          [Request({"A"}, "DOC", FALSE, AContext) EXCEPT !.authenticated = FALSE]}

PipRequests ==
    {Request({"A"}, "DOC", FALSE, [AContext EXCEPT !.services = services, !.claims = claims,
                                                   !.headers = headers]) :
        services \in {Nothing, [pip |-> Text("\"x\"")], [pip |-> Object([name |-> Text("x")])]},
        claims \in {Nothing, [c |-> Text("x")]}, headers \in {Nothing, [h |-> Text("x")]}}

(* What a service may answer, and a subject that has an object already.    *)
Known == [pip |-> Object([name |-> Object([x |-> Null]), level |-> Number(2)])]
Answers ==
    {Undefined, Null, Number(2), Boolean(TRUE), Text("x"), Text("\"x\""), Text("2"), Text("null"),
     Array(<<Text("x"), Boolean(TRUE)>>), Array(<<Number(2)>>), Array(<<Null>>),
     Object([name |-> Text("x"), ids |-> Array(<<Text("x"), Number(2)>>)]),
     Object([name |-> Object([y |-> Null]), ids |-> Array(<<Object([name |-> Boolean(TRUE)])>>)]),
     Object([name |-> Null, ids |-> Null])}
ResponseRequests ==
    {Request({"A"}, "DOC", FALSE, [AContext EXCEPT !.services = services, !.base = base]) :
        services \in {Nothing} \cup {[pip |-> body] : body \in Answers}, base \in {Nothing, Known}}

RequestsOf ==
    [none |-> {}, responses |-> ResponseRequests, roles |-> RoleRequests, pips |-> PipRequests, resource |-> {}, filter |-> {},
     bulk |-> {}, operations |-> {}, operationsV2 |-> {},
     contexts |-> {Request({"A"}, "DOC", FALSE, context) : context \in SomeContexts}]
AllRequests == UNION Range(RequestsOf)

-----------------------------------------------------------------------------
(* Legacy calls                                                            *)
Tokens ==
    LET token(valid, roles) == [valid |-> valid, roles |-> roles, base |-> Nothing, claims |-> Nothing]
    IN  [ta |-> token(TRUE, {"A"}), tb |-> token(TRUE, {"A", "B"}), bad |-> token(FALSE, {})]
        @@ ("" :> token(FALSE, {}))

SomeHeaders ==
    {[authorization |-> "tb"], [authorization |-> "bad"],
     "authorization" :> "ta" @@ "incoming-token" :> "tb",
     "authorization" :> "tb" @@ "incoming-token" :> "bad",
     "authorization" :> "ta" @@ "authorization-type" :> "anonymous"}

Call(route, body, headers) == [route |-> route, body |-> body, headers |-> headers, context |-> AContext]

Owned == Object([owner |-> Text("x")])
Item(id, type, operation, resource) ==
    Fields([id |-> id, type |-> type, operation |-> operation, resource |-> resource])
CheckItems ==
    {Item(Text("1"), Text("doc"), Text("read"), Owned), Item(Absent, Text("doc"), Text("read"), Owned),
     Item(Text("2"), Text("doc"), Text("read"), Absent), Item(Literal("1"), Text("order"), Text("READ"), Absent),
     Item(Null, Text("order"), Text("read"), Absent), Item(Text("3"), Literal("5"), Text("read"), Absent),
     Item(Text("4"), Text(""), Text("read"), Owned), Item(Text("4"), Text("doc"), Null, Owned), Malformed}

OperationItem(id, type, operations, resource) ==
    Fields([id |-> id, type |-> type, operations |-> operations, resource |-> resource])
OperationItems ==
    {OperationItem(Text("1"), Text("doc"), Array(<<Text("all"), Text("read")>>), Owned),
     OperationItem(Text("2"), Text("order"), Array(<<Text(""), Null, Text("read"), Text("READ")>>), Absent),
     OperationItem(Absent, Text("doc"), Array(<<Text("read")>>), Owned),
     OperationItem(Text("1"), Text("order"), Array(<<Text("read")>>), Absent),
     OperationItem(Literal("1"), Text("order"), Array(<<Null>>), Absent),
     OperationItem(Text("3"), Literal("5"), Array(<<Text("read")>>), Absent),
     OperationItem(Text("4"), Text("doc"), Array(<<>>), Owned),
     OperationItem(Text("4"), Null, Array(<<Text("read")>>), Owned), Malformed}

Bodies(items) ==
    {Malformed, Array(<<>>)} \cup {Array(<<i>>) : i \in items}
    \cup {Array(<<i, j>>) : i, j \in items} \cup {Array(<<i, j, k>>) : i, j, k \in items}

Calls(route, bodies) == {Call(route, body, [authorization |-> "tb"]) : body \in bodies}

CallsOf ==
    [none |-> {}, responses |-> {}, roles |-> {}, pips |-> {}, contexts |-> {},
     resource |-> {Call("resource", body, headers) : body \in CheckItems, headers \in SomeHeaders},
     filter |-> {Call("filter", body, headers) : body \in CheckItems \ {Malformed}, headers \in SomeHeaders},
     bulk |-> Calls("bulk", Bodies(CheckItems)),
     operations |-> Calls("operations", Bodies(OperationItems)),
     operationsV2 |-> Calls("operationsV2",
         {Fields([type |-> type, entries |-> entries]) :
             type \in {Text("doc"), Text("order"), Absent},
             entries \in Bodies({item \in OperationItems : item = Malformed \/ item[2].type # Null})
                         \cup {Absent, Null}})]

CallSets ==
    <<Set("SIMPLIFIED", TypeTarget, RoleTarget,
          <<SetRule("ALLOW", OperationTarget, Written(Owner), {"p", "q"})>>),
      Set("SIMPLIFIED", <<Word("resourceType"), Word("=="), String("order")>>,
          <<Word("subject.roles"), Word("CONTAINS"), String("B")>>,
          <<SetRule("ALLOW", OperationTarget, <<>>, {})>>)>>

-----------------------------------------------------------------------------
ConditionSource(node) ==
    Source("uploads", <<Upload("doc", "READ", <<<<"A">>>>, TreeOf(node), {})>>, <<>>, <<General>>,
           EmptyPips, "contexts")
TextSource(tokens) ==
    Source("sets", <<>>, <<Set("SIMPLIFIED", TypeTarget, RoleTarget,
                               <<SetRule("ALLOW", OperationTarget, tokens, {})>>)>>, <<>>, EmptyPips, "none")

PipSources(items) ==
    {Source("sets", <<>>, sets, items, earlier, "pips") : sets \in PipSets, earlier \in EarlierOf(items)}

ServedSources ==
    [none |-> {Uploads(<<>>, "roles")},
     pairs |-> {Uploads(<<p, q>>, "roles") : p, q \in SomeUploads},
     triples |-> {Uploads(s, "roles") : s \in [1..3 -> FewUploads]},
     oddUploads |-> {Uploads(<<p>>, "none") : p \in OddUploads},
     oddSets |-> {Source("sets", <<>>, <<set>>, <<>>, EmptyPips, "none") : set \in OddSets},
     conditions |-> {ConditionSource(node) : node \in Trees},
     pips |-> UNION {PipSources(items) : items \in PipLists},
     responses |-> {Source("sets", <<>>, PipSet(Leaf("eq", pip, Const(Text("X"))), {}), <<p>>,
                           EmptyPips, "responses") : p \in ResponsePips},
     calls |-> {Source("sets", <<>>, CallSets, <<>>, EmptyPips, clients) :
                  clients \in {"resource", "filter", "bulk", "operations", "operationsV2"}}]
    @@ [shape \in DOMAIN Texts |-> {TextSource(tokens) : tokens \in Texts[shape]}]

(* The conditions of all sources, those the texts read as included, and    *)
(* what is below them.                                                     *)
Constants ==
    {Text(word) : word \in {"x", "y", "EQUALS", "AND", "OR", "NOT", "IN"}} \cup {Boolean(TRUE)}
Sides == {dept} \cup {Const(value) : value \in Constants}
Lists == {dept} \cup {Const(Array(<<value>>)) : value \in Constants}
              \cup {Const(Array(<<Text("x"), value>>)) : value \in Constants}
Joined(op, nodes) == {Node(op, args) : args \in [1..2 -> nodes] \cup [1..3 -> nodes]}
Joinable ==
    {Leaf("eq", dept, x), Leaf("in", dept, xs), Leaf("in", dept, Const(Array(<<Text("x"), Text("y")>>))),
     Const(Boolean(TRUE))}

AllConditions ==
    Trees \cup {Leaf("eq", pip, x), Const(Boolean(TRUE))}
    \cup Pairs("eq", Sides, Sides) \cup Pairs("in", Sides, Lists)
    \cup {Not(leaf) : leaf \in Pairs("in", {dept}, Lists)}
    \cup Joined("and", Joinable) \cup Joined("or", Joinable)
    \cup Pairs("or", Joinable, Pairs("and", Joinable, Joinable))
    \cup Pairs("or", Pairs("and", Joinable, Joinable), Joinable)
AllNodes == UNION {Below(node) : node \in AllConditions}

(* TLC evaluates a definition once, but the body of one that stands for a  *)
(* constant each time it is used.                                          *)
MCKey == Keys
MCSources == ServedSources
MCAskedBy == RequestsOf
MCCalledBy == CallsOf
MCIdentity == Tokens
MCLower == LowerCase
MCResourceTypes == TypeKeys
MCPlaceholderKeys == KeysOfPredicates
MCPipValues == SomeValues
MCRequests == AllRequests
MCConditions == AllConditions
MCNodes == AllNodes
=============================================================================
