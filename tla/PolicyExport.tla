---------------------------- MODULE PolicyExport ----------------------------
(***************************************************************************)
(* FromRegular (internal/policyir/export.go): the policy sets and the PIP  *)
(* declarations of a configuration export, of all tenants and mixed, are   *)
(* read into one policy tree per tenant.                                   *)
(*                                                                         *)
(* An element of the export is its members, in the order they are written, *)
(* for the keys that name it, and a body with everything else, which is    *)
(* readable or does not decode.  Below it, a policy, a rule or a nested    *)
(* set has in keys the members that fill no field of its own or of its     *)
(* iterate or customPredicate.  A document is its members too, and one     *)
(* that is no JSON object has none.  The texts of targets and conditions   *)
(* are those of PolicyTree.                                                *)
(***************************************************************************)
EXTENDS PolicyTree, FiniteSetsExt, TLC

CONSTANT Exports  \* the exports considered: a function from families to sets of
                  \* [documents, sets, pips]

VARIABLES input,    \* the export read: rigid
          step,     \* "documents", "heads", "sets", "pips", "trees", "done", "refused"
          at,       \* how many elements of the step are read
          tenants,  \* what is gathered per tenant
          order,    \* the tenants in the order of appearance
          orphans,  \* how many elements name no tenant
          trees,    \* the trees built, by tenant
          failed    \* the tenants without a tree

vars == <<input, step, at, tenants, order, orphans, trees, failed>>

Fresh == [simplified |-> <<>>, sets |-> <<>>, pips |-> <<>>, vars |-> 0, err |-> FALSE, dropped |-> <<>>]

TopLevelApplies(status) == status \notin {"INACTIVE", "DRAFT", "ARCHIVED"}

-----------------------------------------------------------------------------
(***************************************************************************)
(* The JSON of an element (decodeExact, decodeReporting, readHead): a key  *)
(* counts only as it is spelled, of a key written twice the last value     *)
(* counts, and a value of the wrong type reads as absent in the head and   *)
(* fails the element itself.  A value is <<type, text>>.                   *)
(***************************************************************************)
SetKeys == {"tenantId", "policySetId", "status"}

PipKeys == {"tenantId", "name"}

SetIgnored == {"description", "deprecated", "uiTarget", "previousStatus"}

PipIgnored == {"description", "deprecated"}

PolicyIgnored == {"description", "deprecated", "uiTarget"}

RuleIgnored == {"description", "deprecated", "uiTarget", "uiCondition"}

\* The value of a key: <<>> where the object does not have it.
ValueOf(members, key) ==
  LET places == {k \in DOMAIN members : members[k][1] = key}
  IN IF places = {} THEN <<>> ELSE <<members[Max(places)][2]>>

Text(members, key) ==
  LET value == ValueOf(members, key) IN IF value # <<>> /\ value[1][1] = "string" THEN value[1][2] ELSE ""

Decodes(members, key) == \A value \in Range(ValueOf(members, key)) : value[1] \in {"string", "null"}

UnknownKeys(members, known) == SelectSeq(members, LAMBDA m : m[1] \notin known)

Reported(keys, ignored) == Len(SelectSeq(keys, LAMBDA key : key \notin ignored))

\* How many keys decodeReporting lists below a set, at any depth.
UnknownInPolicy(p) ==
  Reported(p.keys, PolicyIgnored)
    + FoldFunction(LAMBDA r, n : n + Reported(r.keys, RuleIgnored), 0, p.rules)

RECURSIVE UnknownBelow(_)
UnknownBelow(s) ==
  FoldFunction(LAMBDA p, n : n + UnknownInPolicy(p), 0, s.policies)
    + FoldFunction(LAMBDA u, n : n + Reported(u.keys, SetIgnored) + UnknownBelow(u), 0, s.sets)

SetOf(raw) ==
  [raw.body EXCEPT !.tenant = Text(raw.members, "tenantId"), !.id = Text(raw.members, "policySetId"),
                   !.status = Text(raw.members, "status"),
                   !.readable = @ /\ \A key \in SetKeys : Decodes(raw.members, key),
                   !.unknown = Len(UnknownKeys(raw.members, SetKeys \cup SetIgnored)) + UnknownBelow(raw.body)]

\* A declaration without a name is not read.
PipOf(raw) ==
  [raw.body EXCEPT !.tenant = Text(raw.members, "tenantId"), !.id = Text(raw.members, "name"),
                   !.readable = @ /\ \A key \in PipKeys : Decodes(raw.members, key)
                                  /\ \E value \in Range(ValueOf(raw.members, "name")) : value[1] = "string",
                   !.unknown = Len(UnknownKeys(raw.members, PipKeys \cup PipIgnored))]

\* Whether a document has the array it is for; an array of another spelling is another key.
HasArray(members, key) == \E value \in Range(ValueOf(members, key)) : value[1] = "array"

Sets == [k \in DOMAIN input.sets |-> SetOf(input.sets[k])]

Pips == [k \in DOMAIN input.pips |-> PipOf(input.pips[k])]

-----------------------------------------------------------------------------
(***************************************************************************)
(* One set: foreign elements, the simplified shape, the set builder.       *)
(***************************************************************************)
Foreign(element, tenant) == element.tenant \notin {"", tenant}

RECURSIVE ForeignElement(_, _)
ForeignElement(s, tenant) ==
  \/ \E k \in DOMAIN s.policies :
       \/ Foreign(s.policies[k], tenant)
       \/ \E n \in DOMAIN s.policies[k].rules : Foreign(s.policies[k].rules[n], tenant)
  \/ \E k \in DOMAIN s.sets : Foreign(s.sets[k], tenant) \/ ForeignElement(s.sets[k], tenant)

ResourceTypeTarget(rt) == <<<<"resourceType", "">>, <<"op", "==">>, <<"string", rt>>>>

OperationTarget(op) ==
  IF op = "ALL" THEN <<<<"bool", "true">>>> ELSE <<<<"operation", "">>, <<"op", "==">>, <<"string", op>>>>

RolesTarget(roles) ==
  <<<<"attr", "roles">>, <<"op", "CONTAINS ANY">>>>
    \o [k \in 1..2 * Len(roles) - 1 |-> IF k % 2 = 0 THEN <<"comma", ",">> ELSE <<"string", roles[(k + 1) \div 2]>>]

\* onlyEquality and rolesOf: what a text of exactly this form names, <<>> for any other.
OneAtom(parsed) == parsed # Refused /\ Len(parsed) = 1 /\ Len(parsed[1]) = 1

EqualTo(parsed, left) ==
  IF /\ OneAtom(parsed) /\ parsed[1][1][1] = "compare"
     /\ parsed[1][1][2] = "EQ" /\ parsed[1][1][3] = left /\ parsed[1][1][4][1] = "string"
  THEN <<parsed[1][1][4][2]>> ELSE <<>>

OnlyEquality(text, left) == EqualTo(ParseCondition(text, 0), left)

RolesIn(parsed) ==
  IF /\ OneAtom(parsed) /\ parsed[1][1][1] = "compare"
     /\ parsed[1][1][2] = "CONTAINS_ANY" /\ parsed[1][1][3] = <<"subject", "roles", "">>
     /\ parsed[1][1][4][1] = "list" /\ \A item \in Range(parsed[1][1][4][2]) : item[1] = "string"
  THEN [k \in DOMAIN parsed[1][1][4][2] |-> parsed[1][1][4][2][k][2]] ELSE <<>>

RolesOf(text) == RolesIn(ParseCondition(text, 0))

SimplifiedRule(r) ==
  /\ r.effect = "ALLOW" /\ ~r.querydsl /\ ~r.custom /\ r.target # <<>>
  /\ \E roles \in {RolesOf(r.target[1])} : roles # <<>> /\ r.target[1] = RolesTarget(roles)

OperationOf(p) ==
  IF p.target[1] = <<<<"bool", "true">>>> THEN <<"ALL">> ELSE OnlyEquality(p.target[1], <<"operation", "">>)

SimplifiedPolicy(p) ==
  /\ p.target # <<>> /\ p.algorithm = "DENY_UNLESS_PERMIT"
  /\ \E op \in Range(OperationOf(p)) : p.target[1] = OperationTarget(op)
  /\ \A k \in DOMAIN p.rules : SimplifiedRule(p.rules[k])

\* Whether a set has the shape the administration point writes for simplified policies.
IsSimplified(s) ==
  /\ s.type = "SIMPLIFIED" /\ s.iterate = <<>> /\ s.sets = <<>> /\ s.target # <<>>
  /\ s.algorithm = "DENY_UNLESS_PERMIT"
  /\ \E rt \in Range(OnlyEquality(s.target[1], <<"resourceType", "">>)) : s.target[1] = ResourceTypeTarget(rt)
  /\ \A k \in DOMAIN s.policies : SimplifiedPolicy(s.policies[k])

SimplifiedGroup(s) ==
  [id |-> s.id, resourceType |-> OnlyEquality(s.target[1], <<"resourceType", "">>)[1],
   policies |-> FlattenSeq([k \in DOMAIN s.policies |-> [n \in DOMAIN s.policies[k].rules |->
     LET r == s.policies[k].rules[n]
     IN [id |-> r.id, operation |-> OperationOf(s.policies[k])[1], roles |-> RolesOf(r.target[1]),
         condition |-> Condition(r.condition, "simplified", 0)]]])]

\* setBuilder.policy: an unknown algorithm or effect is an error of the tenant.
PolicyFails(p) == p.algorithm \notin Algorithms \/ \E k \in DOMAIN p.rules : p.rules[k].effect \notin Effects

BuiltPolicy(p, iterVar) ==
  [id |-> p.id, algorithm |-> p.algorithm, target |-> Condition(p.target, "policy_target", iterVar),
   rules |-> [k \in DOMAIN p.rules |->
     [id |-> p.rules[k].id, effect |-> p.rules[k].effect,
      target |-> Condition(p.rules[k].target, "rule_target", iterVar),
      condition |-> Condition(p.rules[k].condition, "rule_condition", iterVar)]]]

IterateFails(s) ==
  s.iterate # <<>> /\ (s.iterate[1].foreach # "subject.permissionScope"
                       \/ s.iterate[1].algorithm \notin Algorithms \ {""})

\* setBuilder.set, as what it returns: whether it fails, the set, the count of variables.
Bare(s, iterVar) ==
  [id |-> s.id, algorithm |-> s.algorithm, target |-> Condition(s.target, "set_target", iterVar), iterate |-> NoIterate,
   alwaysFails |-> FALSE, isolated |-> FALSE, policies |-> <<>>, sets |-> <<>>]

\* The variable an iterate binds, which the children of its set read.
LevelVar(count, iterVar) == iterVar + 1

NextVar(count, iterVar) == count + 1

Joined(first, rest) ==
  [fails |-> first.fails \/ rest.fails, sets |-> <<first.set>> \o rest.sets, count |-> rest.count]

\* The set with its policies and with what its nested sets give; inner is the variable they read.
Filled(s, bare, nested, inner) ==
  [fails |-> nested.fails \/ \E k \in DOMAIN s.policies : PolicyFails(s.policies[k]),
   set |-> [bare EXCEPT !.iterate = IF s.iterate = <<>> THEN NoIterate
                                    ELSE [var |-> inner, algorithm |-> s.iterate[1].algorithm],
                        !.policies = [k \in DOMAIN s.policies |-> BuiltPolicy(s.policies[k], inner)],
                        !.sets = nested.sets],
   count |-> nested.count]

RECURSIVE BuildSet(_, _, _), BuildSets(_, _, _)
BuildSet(s, iterVar, count) ==
  CASE s.algorithm \notin Algorithms -> [fails |-> TRUE, set |-> Bare(s, iterVar), count |-> count]
    [] s.algorithm \in Algorithms /\ IterateFails(s) ->
         [fails |-> FALSE, set |-> [Bare(s, iterVar) EXCEPT !.alwaysFails = TRUE], count |-> count]
    [] OTHER ->
         LET inner == IF s.iterate = <<>> THEN iterVar ELSE NextVar(count, iterVar)
         IN Filled(s, Bare(s, iterVar), BuildSets(s.sets, inner, IF s.iterate = <<>> THEN count ELSE count + 1), inner)

BuildSets(sets, iterVar, count) ==
  IF sets = <<>> THEN [fails |-> FALSE, sets |-> <<>>, count |-> count]
  ELSE LET first == BuildSet(Head(sets), iterVar, count)
       IN Joined(first, BuildSets(Tail(sets), iterVar, first.count))

-----------------------------------------------------------------------------
(***************************************************************************)
(* The element a tenant takes next.  twins is how many top-level sets of   *)
(* the tenant, of any status, carry the identifier of the set.             *)
(***************************************************************************)
Unknown(element) == [k \in 1..element.unknown |-> <<element.id, "unknown key">>]

Added(read, built) ==
  IF built.fails THEN [read EXCEPT !.err = TRUE]
  ELSE [read EXCEPT !.sets = Append(@, built.set), !.vars = built.count]

\* A readable set that applies; its unknown keys are reported.
ReadAs(read, s, twins) ==
  IF twins > 1 \/ ForeignElement(s, s.tenant)
  THEN [read EXCEPT !.dropped = Append(@, <<s.id, "isolated">>),
                    !.sets = Append(@, [Bare(s, 0) EXCEPT !.algorithm = "", !.isolated = TRUE])]
  ELSE IF IsSimplified(s) THEN [read EXCEPT !.simplified = Append(@, SimplifiedGroup(s))]
  ELSE Added(read, BuildSet(s, 0, read.vars))

TakeSet(t, s, twins) ==
  IF t.err THEN t
  ELSE IF ~TopLevelApplies(s.status) THEN [t EXCEPT !.dropped = Append(@, <<s.id, "status">>)]
  ELSE IF ~s.readable THEN [t EXCEPT !.err = TRUE]
  ELSE ReadAs([t EXCEPT !.dropped = @ \o Unknown(s)], s, twins)

\* readPIP: a declaration without a type is GENERAL.
PipType(p) == IF p.type = "" THEN "GENERAL" ELSE p.type

PipFails(p) == ~p.readable \/ PipType(p) \notin PIPTypes \/ p.headers = "other"

BuiltPip(p) ==
  [name |-> p.id, type |-> PipType(p), isolated |-> FALSE,
   unsupported |-> p.extensions \cup (IF p.headers = "object" THEN {"headers"} ELSE {})]

TakePip(t, p) ==
  IF t.err THEN t
  ELSE IF PipFails(p) THEN [t EXCEPT !.err = TRUE]
  ELSE [t EXCEPT !.pips = Append(@, BuiltPip(p)), !.dropped = @ \o Unknown(p)]

\* A name declared several times becomes one isolated declaration, at its first place.
Repeated(pips, k) == \E n \in DOMAIN pips \ {k} : pips[n].name = pips[k].name

First(pips, k) == \A n \in 1..k - 1 : pips[n].name # pips[k].name

UsablePips(pips) ==
  LET kept == SelectSeq([k \in DOMAIN pips |-> k], LAMBDA k : First(pips, k))
  IN [n \in DOMAIN kept |->
        IF Repeated(pips, kept[n]) THEN [name |-> pips[kept[n]].name, type |-> "", isolated |-> TRUE, unsupported |-> {}]
        ELSE pips[kept[n]]]

TreeOf(t) == [simplified |-> t.simplified, sets |-> t.sets, pips |-> UsablePips(t.pips)]

DroppedSets(t) == t.dropped

DroppedOf(t) ==
  t.dropped \o [k \in 1..Len(SelectSeq(UsablePips(t.pips), LAMBDA p : p.isolated)) |->
                  <<SelectSeq(UsablePips(t.pips), LAMBDA p : p.isolated)[k].name, "isolated">>]

-----------------------------------------------------------------------------
(***************************************************************************)
(* FromRegular.                                                            *)
(***************************************************************************)
ExportInit ==
  /\ \E family \in DOMAIN Exports : input \in Exports[family]
  /\ step = "documents" /\ at = 0
  /\ tenants = [id \in {} |-> Fresh]
  /\ order = <<>> /\ orphans = 0
  /\ trees = [id \in {} |-> <<>>]
  /\ failed = {}

Elements == CASE step \in {"heads", "sets"} -> Sets [] step = "pips" -> Pips [] step = "trees" -> order
               [] OTHER -> <<>>

Element == Elements[at + 1]

\* The tenant of an element, made on its first appearance; an element without one is an orphan.
Get(id) == IF id \in {""} \cup DOMAIN tenants THEN tenants ELSE tenants @@ (id :> Fresh)

Order(id) == IF id \in {""} \cup DOMAIN tenants THEN order ELSE Append(order, id)

Orphans(id) == IF id = "" THEN orphans + 1 ELSE orphans

\* FromRegular returns an error and no export when a document is not what it should be.
ReadDocuments ==
  /\ step = "documents"
  /\ step' = IF HasArray(input.documents.sets, "policySets") /\ HasArray(input.documents.pips, "pips")
             THEN "heads" ELSE "refused"
  /\ UNCHANGED <<input, at, tenants, order, orphans, trees, failed>>

ReadHead ==
  /\ step = "heads" /\ at < Len(Elements)
  /\ tenants' = Get(Element.tenant)
  /\ order' = Order(Element.tenant)
  /\ orphans' = Orphans(Element.tenant)
  /\ at' = at + 1
  /\ UNCHANGED <<input, step, trees, failed>>

\* How many top-level sets of the tenant carry the identifier of s.
Twins(s) == Cardinality({k \in DOMAIN Sets : Sets[k].tenant = s.tenant /\ Sets[k].id = s.id})

ReadSet ==
  /\ step = "sets" /\ at < Len(Elements)
  /\ tenants' = IF Element.tenant = "" THEN tenants
                ELSE [tenants EXCEPT ![Element.tenant] = TakeSet(@, Element, Twins(Element))]
  /\ at' = at + 1
  /\ UNCHANGED <<input, step, order, orphans, trees, failed>>

ReadPIP ==
  /\ step = "pips" /\ at < Len(Elements)
  /\ tenants' = IF Element.tenant = "" THEN tenants
                ELSE [Get(Element.tenant) EXCEPT ![Element.tenant] = TakePip(@, Element)]
  /\ order' = Order(Element.tenant)
  /\ orphans' = Orphans(Element.tenant)
  /\ at' = at + 1
  /\ UNCHANGED <<input, step, trees, failed>>

FailsToRead(t) == t.err

Fails(t) == t.err \/ ~Valid(TreeOf(t))

BuildTree ==
  /\ step = "trees" /\ at < Len(Elements)
  /\ LET t == tenants[Element]
     IN \/ Fails(t) /\ failed' = failed \cup {Element} /\ UNCHANGED trees
        \/ ~Fails(t) /\ trees' = trees @@ (Element :> [tree |-> TreeOf(t), dropped |-> DroppedOf(t)]) /\ UNCHANGED failed
  /\ at' = at + 1
  /\ UNCHANGED <<input, step, tenants, order, orphans>>

Following == [heads |-> "sets", sets |-> "pips", pips |-> "trees", trees |-> "done"]

EndOfStep ==
  /\ step \in DOMAIN Following /\ at = Len(Elements)
  /\ step' = Following[step] /\ at' = 0
  /\ UNCHANGED <<input, tenants, order, orphans, trees, failed>>

Returned == step \in {"done", "refused"} /\ UNCHANGED vars

ExportNext == ReadDocuments \/ ReadHead \/ ReadSet \/ ReadPIP \/ BuildTree \/ EndOfStep \/ Returned

ExportSpec == ExportInit /\ [][ExportNext]_vars

-----------------------------------------------------------------------------
(***************************************************************************)
(* What the source says, read without the builder.                         *)
(***************************************************************************)
Own(elements, id) == SelectSeq(elements, LAMBDA e : e.tenant = id)

Damaged(s) ==
  \/ Len(SelectSeq(Own(Sets, s.tenant), LAMBDA u : u.id = s.id)) > 1
  \/ ForeignElement(s, s.tenant)

RECURSIVE Broken(_)
Broken(s) ==
  \/ s.algorithm \notin Algorithms
  \/ /\ ~IterateFails(s)
     /\ \/ \E k \in DOMAIN s.policies : PolicyFails(s.policies[k])
        \/ \E k \in DOMAIN s.sets : Broken(s.sets[k])

BrokenSet(s) ==
  TopLevelApplies(s.status) /\ (~s.readable \/ (~Damaged(s) /\ ~IsSimplified(s) /\ Broken(s)))

\* The objects in a set, at any depth, by the path to them.
RECURSIVE Objects(_, _)
Objects(where, s) ==
  UNION {{<<where \o <<1, k>>, s.policies[k].keys, PolicyIgnored>>}
           \cup {<<where \o <<1, k, n>>, s.policies[k].rules[n].keys, RuleIgnored>> : n \in DOMAIN s.policies[k].rules}
           : k \in DOMAIN s.policies}
    \cup UNION {{<<where \o <<2, k>>, s.sets[k].keys, SetIgnored>>} \cup Objects(where \o <<2, k>>, s.sets[k])
                  : k \in DOMAIN s.sets}

\* The places of the members of a tenant's elements that are neither read nor ignored: of
\* its PIP declarations and of the sets that apply, with everything in them.
UnreadIn(where, keys, known) == {where \o <<0, k>> : k \in {n \in DOMAIN keys : keys[n] \notin known}}

Keys(members) == [k \in DOMAIN members |-> members[k][1]]

UnreadOfSets(id) ==
  UNION {UnreadIn(<<k>>, Keys(input.sets[k].members), SetKeys \cup SetIgnored)
           \cup UNION {UnreadIn(o[1], o[2], o[3]) : o \in Objects(<<k>>, Sets[k])}
         : k \in {n \in DOMAIN Sets : Sets[n].tenant = id /\ TopLevelApplies(Sets[n].status)}}

UnreadOfPips(id) ==
  UNION {UnreadIn(<<k>>, Keys(input.pips[k].members), PipKeys \cup PipIgnored)
         : k \in {n \in DOMAIN Pips : Pips[n].tenant = id}}

\* A built set keeps all of its source, or names why it keeps none of the children.
RECURSIVE Keeps(_, _)
Keeps(built, s) ==
  /\ built.id = s.id
  /\ built.isolated \/ built.alwaysFails = IterateFails(s)
  /\ Childless(built) \/
       /\ Len(built.policies) = Len(s.policies) /\ Len(built.sets) = Len(s.sets)
       /\ (built.iterate # NoIterate) = (s.iterate # <<>>)
       /\ \A k \in DOMAIN s.policies : Len(built.policies[k].rules) = Len(s.policies[k].rules)
       /\ \A k \in DOMAIN s.sets : Keeps(built.sets[k], s.sets[k])
  /\ Childless(built) => built.isolated \/ built.alwaysFails \/ <<s.policies, s.sets, s.iterate>> = <<<<>>, <<>>, <<>>>>

\* The forms of a text that the agent cannot execute.
TextForms(text) ==
  IF text = <<>> THEN {}
  ELSE IF ParseCondition(text[1], 0) = Refused THEN {"syntax"}
  ELSE IF \E k \in DOMAIN text[1] : text[1][k][1] = "badpath" /\ (k > 1 => text[1][k - 1] # <<"op", "MATCH">>)
       THEN {"jsonpath"} ELSE {}

\* The forms of a set, each with the positions that lead to its node.
PolicyForms(where, p) ==
  {<<where \o <<0, 0>>, f>> : f \in TextForms(p.target)}
    \cup UNION {{<<where \o <<k, 0>>, f>> : f \in TextForms(p.rules[k].target)}
                  \cup {<<where \o <<k, 1>>, f>> : f \in TextForms(p.rules[k].condition)} : k \in DOMAIN p.rules}

RECURSIVE SetForms(_, _, _)
SetForms(where, s, iterating) ==
  {<<where \o <<0, 1>>, f>> : f \in TextForms(s.target)}
    \cup IF IterateFails(s) THEN {}
         ELSE (IF iterating /\ s.iterate # <<>> THEN {<<where, "nested-iterate">>} ELSE {})
              \cup UNION {PolicyForms(where \o <<1, k>>, s.policies[k]) : k \in DOMAIN s.policies}
              \cup UNION {SetForms(where \o <<2, k>>, s.sets[k], iterating \/ s.iterate # <<>>) : k \in DOMAIN s.sets}

\* The forms of a top-level set; of an isolated set only the target is read.
TopForms(k) ==
  LET s == Sets[k]
  IN IF Damaged(s) THEN {<<<<k>> \o <<0, 1>>, f>> : f \in TextForms(s.target)}
     ELSE IF IsSimplified(s)
          THEN UNION {UNION {{<<<<k, 3, n, m>>, f>> : f \in TextForms(s.policies[n].rules[m].condition)}
                              : m \in DOMAIN s.policies[n].rules} : n \in DOMAIN s.policies}
     ELSE SetForms(<<k>>, s, FALSE)

Forms(id) ==
  UNION {TopForms(k) : k \in {n \in DOMAIN Sets : Sets[n].tenant = id /\ TopLevelApplies(Sets[n].status)}}
    \cup {<<<<-k>>, "pip-extension">> : k \in {n \in DOMAIN Pips :
            /\ Pips[n].tenant = id
            /\ BuiltPip(Pips[n]).unsupported # {}
            /\ \A m \in DOMAIN Pips \ {n} : Pips[m].tenant # id \/ Pips[m].id # Pips[n].id}}

-----------------------------------------------------------------------------
(***************************************************************************)
(* A tenant fails exactly when one of its own elements cannot be read: an  *)
(* applied set that does not decode or holds an unknown algorithm or       *)
(* effect where the builder looks, a PIP that does not read or lacks the   *)
(* prefix.  No element of another tenant fails it ("an element that cannot *)
(* be read fails its own tenant and no other", export.go:47-48), and every *)
(* tenant the export names has a tree or a failure, never both.            *)
(***************************************************************************)
TenantsFailAlone ==
  step = "done" =>
    /\ DOMAIN trees \cap failed = {}
    /\ DOMAIN trees \cup failed
         = ({Sets[k].tenant : k \in DOMAIN Sets} \cup {Pips[k].tenant : k \in DOMAIN Pips}) \ {""}
    /\ \A id \in DOMAIN tenants :
         id \in failed <=>
           \/ \E k \in DOMAIN Sets : Sets[k].tenant = id /\ BrokenSet(Sets[k])
           \/ \E k \in DOMAIN Pips :
                Pips[k].tenant = id /\ (PipFails(Pips[k]) \/ Pips[k].id \notin SubjectNames)

(***************************************************************************)
(* Nothing of a tenant with a tree is lost without a trace: every set that *)
(* applies is in the tree, in the order of the export and with everything  *)
(* in it, or isolated; every declared PIP name is there once; and what the *)
(* tree leaves out (a set by its status, an isolated set or name, an       *)
(* unknown key at any depth) is listed in Dropped, no more and no less.    *)
(* Every element without a tenant is an orphan, counted once.              *)
(***************************************************************************)
NothingLostSilently ==
  step = "done" =>
    /\ orphans = Len(Own(Sets, "")) + Len(Own(Pips, ""))
    /\ \A id \in DOMAIN trees :
      LET tree == trees[id].tree
          dropped == trees[id].dropped
          applied == SelectSeq(Own(Sets, id), LAMBDA s : TopLevelApplies(s.status))
          pips == Own(Pips, id)
          groups == SelectSeq(applied, LAMBDA s : IsSimplified(s) /\ ~Damaged(s))
          regular == SelectSeq(applied, LAMBDA s : ~IsSimplified(s) \/ Damaged(s))
          names == {pips[k].id : k \in DOMAIN pips}
          repeated == {n \in names : \E k, m \in DOMAIN pips : k # m /\ pips[k].id = n /\ pips[m].id = n}
          count(rule) == Len(SelectSeq(dropped, LAMBDA d : d[2] = rule))
      IN /\ Len(tree.simplified) = Len(groups) /\ \A k \in DOMAIN groups : tree.simplified[k].id = groups[k].id
         /\ Len(tree.sets) = Len(regular)
         /\ \A k \in DOMAIN regular : Keeps(tree.sets[k], regular[k]) /\ tree.sets[k].isolated = Damaged(regular[k])
         /\ Len(tree.pips) = Cardinality(names)
         /\ {tree.pips[k].name : k \in DOMAIN tree.pips} = names
         /\ \A k \in DOMAIN tree.pips : tree.pips[k].isolated = (tree.pips[k].name \in repeated)
         /\ count("status") = Len(Own(Sets, id)) - Len(applied)
         /\ count("isolated") = Len(SelectSeq(regular, Damaged)) + Cardinality(repeated)
         /\ count("unknown key") = Cardinality(UnreadOfSets(id)) + Cardinality(UnreadOfPips(id))

(***************************************************************************)
(* The trees the reader builds are trees NewTree accepts: every iterate    *)
(* binds a variable of its own, every pass value reads the variable of an  *)
(* iterate around it, no condition inside an iterate reads the permission  *)
(* scope of the subject, and every comparison the parser builds has        *)
(* operands its operator admits.  So NewTree refuses a tenant only for a   *)
(* PIP name.                                                               *)
(***************************************************************************)
BuiltTreesValid ==
  step = "done" => \A id \in DOMAIN tenants : ~tenants[id].err => ValidNodes(TreeOf(tenants[id]))

(***************************************************************************)
(* Tree.Unsupported names what the agent cannot execute, all of it and     *)
(* each at a node of its own ("so a path names one node",                  *)
(* unsupported.go:142): as many different findings as the source has       *)
(* places with such a form, of the same forms.  A generator that rejects   *)
(* trees with findings so never takes one it cannot execute in full.       *)
(***************************************************************************)
FindingsNameNodes ==
  step = "done" =>
    \A id \in DOMAIN trees :
      LET findings == Unsupported(trees[id].tree)
      IN \A form \in {"syntax", "jsonpath", "nested-iterate", "pip-extension"} :
           Cardinality({f \in findings : f[2] = form}) = Cardinality({f \in Forms(id) : f[2] = form})
=============================================================================
