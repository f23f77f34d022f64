----------------------------- MODULE PolicyWire -----------------------------
(***************************************************************************)
(* The v3 export on its way from authz-policy-admin to the agent: the      *)
(* policy sets that toV3PolicySets (authz-policy-admin/convert.go) makes   *)
(* of the uploaded policies, and what convertPolicySets                    *)
(* (internal/acconfig/convert.go) reads back.                              *)
(*                                                                         *)
(* A target is a sequence of the tokens of ConditionParser; a literal that *)
(* contains a quote reads as a literal and a stray word.  A role name is   *)
(* the sequence of its parts between commas, because a list of roles is    *)
(* joined and split at commas.  The list of roles is given in the order    *)
(* sort.Strings yields.                                                    *)
(***************************************************************************)
EXTENDS ConditionParser

CONSTANT Unquotable       \* the names that contain a quote

Everything == "ALL"

Blank(name) == Key[name] = ""

(* A literal between quotes.                                               *)
Quoted(name) ==
    IF name \in Unquotable THEN <<String(name), Word("'")>> ELSE <<String(name)>>

-----------------------------------------------------------------------------
(* rolesKey: nothing is left of an empty list, and of one empty name.      *)
RolesKey(roles) == IF FlattenSeq(roles) = <<"">> THEN <<>> ELSE FlattenSeq(roles)

(* rolesTarget                                                             *)
FirstRoleTarget(key) ==
    IF key = <<>>
    THEN <<Word("true")>>
    ELSE <<Word("subject.roles"), Word("CONTAINS")>> \o Quoted(Head(key))

RolesTarget(key) ==
    CASE key = <<>> -> <<Word("true")>>
      [] Len(key) = 1 -> <<Word("subject.roles"), Word("CONTAINS")>> \o Quoted(Head(key))
      [] OTHER -> <<Word("subject.roles"), Word("CONTAINS"), Word("ANY")>>
                  \o Tail(FlattenSeq([i \in DOMAIN key |-> <<Comma>> \o Quoted(key[i])]))

(* resourceTypeTarget and operationTarget                                  *)
NameTarget(attribute, name) ==
    IF Key[name] = Everything \/ name = "*"
    THEN <<Word("true")>>
    ELSE <<Word(attribute), Word("==")>> \o Quoted(name)

(* conditionString, for a condition that is absent, a boolean, a text or   *)
(* the text of a tree.                                                     *)
ConditionString(condition) ==
    CASE condition[1] = "absent" -> <<>>
      [] condition[1] = "boolean" -> <<Word(IF condition[2] THEN "true" ELSE "false")>>
      [] condition[1] = "text" -> condition[2]
      [] condition[1] = "tree" -> Written(condition[2])

ExportedRule(p) ==
    [effect |-> "ALLOW", target |-> NameTarget("operation", p.operation),
     condition |-> ConditionString(p.condition), predicates |-> p.predicates]

(* What the uploads of one policy set have in common.                      *)
SetKey(p) == <<p.component, p.resourceType>>

(* toV3PolicySets: sets in the order of their first upload, a policy for   *)
(* every list of roles, the rules in upload order.  The order of the       *)
(* policies of a set is that of their keys, here any fixed one.            *)
ToV3PolicySets(items) ==
    LET firsts == {i \in DOMAIN items : \A j \in 1..i - 1 : SetKey(items[j]) # SetKey(items[i])}
        members(i) == {j \in DOMAIN items : SetKey(items[j]) = SetKey(items[i])}
        rules(i, key) ==
            LET order == SetToSortSeq({j \in members(i) : RolesKey(items[j].roles) = key}, <)
            IN  [k \in DOMAIN order |-> ExportedRule(items[order[k]])]
        policies(i) ==
            LET keys == SetToSeq({RolesKey(items[j].roles) : j \in members(i)})
            IN  [k \in DOMAIN keys |-> [target |-> RolesTarget(keys[k]), rules |-> rules(i, keys[k])]]
        order == SetToSortSeq(firsts, <)
    IN  [k \in DOMAIN order |->
            LET i == order[k] IN
            [type |-> "SIMPLIFIED", domain |-> items[i].component, tenant |-> items[i].component,
             target |-> NameTarget("resourceType", items[i].resourceType), policies |-> policies(i)]]

-----------------------------------------------------------------------------
(* parseRoleExpression, whose roles are a set; {} is a refusal.            *)
RECURSIVE RoleExpression(_), RoleOperands(_)

RoleExpression(tokens) ==
    IF MatchWords(<<"subject.roles", "CONTAINS", "ANY">>, tokens)
    THEN RoleOperands(SubSeq(tokens, 4, Len(tokens)))
    ELSE IF MatchWords(<<"subject.roles", "CONTAINS">>, tokens)
    THEN RoleOperands(SubSeq(tokens, 3, Len(tokens)))
    ELSE {}

RoleOperands(tokens) ==
    LET after == SubSeq(tokens, 3, Len(tokens))
        others == CASE tokens[2] = Comma -> RoleOperands(after)
                    [] tokens[2] = Word("OR") -> RoleExpression(after)
                    [] OTHER -> {}
    IN  IF Peek(tokens)[1] # "string"
        THEN {}
        ELSE IF Blank(tokens[1][2])
        THEN {}
        ELSE IF Len(tokens) = 1
        THEN {tokens[1][2]}
        ELSE IF others = {} THEN {} ELSE {tokens[1][2]} \cup others

Compares(attribute, tokens) ==
    /\ Len(tokens) = 3
    /\ tokens[1] = Word(attribute)
    /\ tokens[2] \in {Word("=="), Word("EQUALS")}
    /\ tokens[3][1] = "string"
    /\ tokens[3][2] # ""

(* parseTarget                                                             *)
ParseTarget(tokens) ==
    CASE tokens \in {<<>>, <<Word("true")>>} -> [kind |-> "any"]
      [] Compares("resourceType", tokens) -> [kind |-> "resourceType", value |-> tokens[3][2]]
      [] Compares("operation", tokens) -> [kind |-> "operation", value |-> tokens[3][2]]
      [] RoleExpression(tokens) # {} -> [kind |-> "roles", roles |-> RoleExpression(tokens)]
      [] OTHER -> [kind |-> "unknown"]

(* resolveOperationAndRoles                                                *)
Readable(policy, rule) ==
    <<policy.kind, rule.kind>> \in
        {<<"operation", "roles">>, <<"operation", "any">>, <<"roles", "operation">>,
         <<"any", "operation">>, <<"roles", "any">>, <<"any", "roles">>, <<"any", "any">>}

Part(kind, field, policy, rule, default) ==
    CASE policy.kind = kind -> policy[field]
      [] rule.kind = kind -> rule[field]
      [] OTHER -> default

Coalesce(names) ==
    IF \E i \in DOMAIN names : names[i] # ""
    THEN names[Min({i \in DOMAIN names : names[i] # ""})] ELSE ""

(* What becomes of a rule: a policy, or the reason it is left out.         *)
ConvertTargets(set, rule, type, policy, own) ==
    CASE rule.effect = "DENY" -> [kind |-> "deny"]
      [] rule.effect # "DENY" /\ ~Readable(policy, own) -> [kind |-> "skipped"]
      [] OTHER ->
            [kind |-> "policy",
             component |-> Coalesce(<<set.domain, set.tenant, "default">>),
             resourceType |-> IF type.kind = "any" THEN Everything ELSE type.value,
             operation |-> Part("operation", "value", policy, own, Everything),
             roles |-> Part("roles", "roles", policy, own, {}),
             condition |-> rule.condition, predicates |-> rule.predicates]

ConvertRule(set, policyTarget, rule) ==
    ConvertTargets(set, rule, ParseTarget(set.target), ParseTarget(policyTarget), ParseTarget(rule.target))

(* The rules of a set one after the other, with what becomes of each.      *)
Outcomes(set) ==
    FlattenSeq([i \in DOMAIN set.policies |->
        [j \in DOMAIN set.policies[i].rules |->
            ConvertRule(set, set.policies[i].target, set.policies[i].rules[j])]])

Counted(outcomes, kind) == Len(SelectSeq(outcomes, LAMBDA outcome : outcome.kind = kind))

ReadsSet(set) == ParseTarget(set.target).kind \in {"any", "resourceType"}

(* convertPolicySet: the policies of a set, and what it adds to the        *)
(* statistics.                                                             *)
SetPolicies(set) ==
    IF set.type # "SIMPLIFIED" \/ ~ReadsSet(set)
    THEN <<>>
    ELSE SelectSeq(Outcomes(set), LAMBDA outcome : outcome.kind = "policy")

SetStats(stats, set) ==
    CASE set.type # "SIMPLIFIED" -> stats
      [] set.type = "SIMPLIFIED" /\ ~ReadsSet(set) ->
            [stats EXCEPT !.policySets = @ + 1, !.policySetsSkipped = @ + 1]
      [] OTHER ->
            LET outcomes == Outcomes(set) IN
            [stats EXCEPT !.policySets = @ + 1,
                          !.rules = @ + Len(outcomes),
                          !.rulesSkipped = @ + Counted(outcomes, "skipped"),
                          !.rulesDenySkipped = @ + Counted(outcomes, "deny"),
                          !.policies = @ + Counted(outcomes, "policy")]
=============================================================================
