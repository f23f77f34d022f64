--------------------------- MODULE PolicyPipeline ---------------------------
(***************************************************************************)
(* The way of the policies from the uploads of authz-policy-admin, or the  *)
(* policy sets of another source, to the agent that serves them: the       *)
(* export and its conversion (PolicyWire), the parser of its conditions    *)
(* (ConditionParser), and the agent (PolicyServing).                       *)
(***************************************************************************)
EXTENDS PolicyServing, PolicyWire

CONSTANT Segments   \* jp_parse on the paths that occur: fields, indexes and wildcards

(* json_extract: the values that the segments of a path lead to, in the    *)
(* order of the document; all of them if there is a wildcard, and          *)
(* otherwise the only one.                                                 *)
RECURSIVE Matches(_, _)
Matches(value, segments) ==
    CASE segments = <<>> -> <<value>>
      [] segments # <<>> /\ Head(segments)[1] = "field" /\ value[1] = "object"
            /\ Head(segments)[2] \in DOMAIN value[2] ->
            Matches(value[2][Head(segments)[2]], Tail(segments))
      [] segments # <<>> /\ Head(segments)[1] = "index" /\ IsArray(value)
            /\ Head(segments)[2] + 1 \in DOMAIN value[2] ->
            Matches(value[2][Head(segments)[2] + 1], Tail(segments))
      [] segments # <<>> /\ Head(segments)[1] = "wildcard" /\ IsArray(value) ->
            FlattenSeq([i \in DOMAIN value[2] |-> Matches(value[2][i], Tail(segments))])
      [] OTHER -> <<>>

ExtractedAt(doc, path) ==
    LET found == Matches(doc, Segments[path])
    IN  CASE \E segment \in Range(Segments[path]) : segment[1] = "wildcard" -> Array(found)
          [] (\A segment \in Range(Segments[path]) : segment[1] # "wildcard") /\ Len(found) = 1 -> found[1]
          [] OTHER -> Undefined

(* object.union of two objects, which merges the objects below them.       *)
RECURSIVE UnionOfObjects(_, _)
UnionOfObjects(lower, upper) ==
    Object([key \in DOMAIN lower[2] \cup DOMAIN upper[2] |->
        IF key \notin DOMAIN upper[2] THEN lower[2][key]
        ELSE IF key \in DOMAIN lower[2] /\ lower[2][key][1] = "object" /\ upper[2][key][1] = "object"
        THEN UnionOfObjects(lower[2][key], upper[2][key]) ELSE upper[2][key]])

-----------------------------------------------------------------------------
(* normalizeCondition                                                      *)
NodeOf(parsed) == IF parsed.ok THEN parsed.node ELSE Unparsable

NormalizedCondition(tokens) ==
    CASE tokens = <<>> -> NoCondition
      [] tokens = <<Word("true")>> -> True
      [] tokens = <<Word("false")>> -> False
      [] OTHER -> NodeOf(ParseCondition(tokens))

(* What NormalizePolicies reads of a converted policy: its names as keys,  *)
(* blank roles left out.                                                   *)
PolicyOf(converted) ==
    LET type == Key[converted.resourceType]
        operation == Key[converted.operation]
    IN  [complete |-> "" \notin {type, operation, Key[converted.component]},
         resourceType |-> IF type = "" THEN All ELSE type,
         operation |-> IF operation = "" THEN All ELSE operation,
         roles |-> {Key[role] : role \in converted.roles} \ {""},
         condition |-> NormalizedCondition(converted.condition),
         predicates |-> converted.predicates]

(* convertPolicySets                                                       *)
PoliciesOf(converted) == [i \in DOMAIN converted |-> PolicyOf(converted[i])]

ConvertPolicySets(sets) ==
    PoliciesOf(FlattenSeq([i \in DOMAIN sets |-> SetPolicies(sets[i])]))

ConvertStats(sets) == FoldLeft(SetStats, NoStats, sets)

Served(src) == IF src.kind = "uploads" THEN ToV3PolicySets(src.items) ELSE src.sets

ConvertedPolicies(src) == ConvertPolicySets(Served(src))
ConvertedStats(src) == ConvertStats(Served(src))

-----------------------------------------------------------------------------
(* What a target says: it names the type, the operation or a role.  One    *)
(* that names something else may hold.                                     *)
QuotedKeys(tokens) == {Key[t[2]] : t \in {u \in Range(tokens) : u[1] = "string"}}

Permits(tokens, attribute, value) ==
    \/ tokens \in {<<>>, <<Word("true")>>}
    \/ Head(tokens) # Word(attribute)
    \/ QuotedKeys(tokens) \cap {value, IF attribute = "subject.roles" THEN value ELSE Everything} # {}

PermitsAll(tokens, rt, op, role) ==
    /\ Permits(tokens, "resourceType", rt)
    /\ Permits(tokens, "operation", op)
    /\ Permits(tokens, "subject.roles", role)

(* The rules that the source has for a type, an operation and a role: the  *)
(* uploads, or the ALLOW rules whose targets all hold.                     *)
UploadedCondition(condition) ==
    CASE condition[1] = "boolean" -> IF condition[2] THEN True ELSE False
      [] condition[1] = "tree" -> condition[2]
      [] OTHER -> NormalizedCondition(ConditionString(condition))

UploadedRules(rt, op, role) ==
    {<<UploadedCondition(p.condition), p.predicates>> : p \in
        {q \in Range(source.items) :
            /\ q.resourceType = "*" \/ Key[q.resourceType] \in {rt, Everything}
            /\ q.operation = "*" \/ Key[q.operation] \in {op, Everything}
            /\ RolesKey(q.roles) = <<>> \/ \E part \in Range(FlattenSeq(q.roles)) : Key[part] = role}}

ExportedRules(rt, op, role) ==
    UNION {UNION {{<<NormalizedCondition(rule.condition), rule.predicates>> : rule \in
                      {r \in Range(policy.rules) :
                          r.effect # "DENY" /\ PermitsAll(r.target, rt, op, role)}} :
               policy \in {q \in Range(set.policies) : PermitsAll(q.target, rt, op, role)}} :
           set \in {t \in Range(source.sets) :
                      t.type = "SIMPLIFIED" /\ PermitsAll(t.target, rt, op, role)}}

SourceRules(rt, op, role) ==
    IF source.kind = "uploads" THEN UploadedRules(rt, op, role) ELSE ExportedRules(rt, op, role)

LoadedRules(rt, op, role) ==
    {<<p.condition, p.predicates>> : p \in
        {q \in done : /\ q.resourceType \in {rt, All}
                      /\ q.operation \in {op, All}
                      /\ q.roles = {} \/ role \in q.roles}}

(***************************************************************************)
(* What the agent serves is what the source says: for every type,          *)
(* operation and role it has no rule that the uploads or the exported      *)
(* targets do not give, and it has all of them when the statistics report  *)
(* nothing skipped.  The conditions and the role lists of uploads go       *)
(* through text and back (toV3PolicySets, convertPolicySets,               *)
(* ParseCondition).                                                        *)
(***************************************************************************)
PulledMeansSource ==
    phase = "serve" /\ Idle =>
        \A rt \in ResourceTypes, op \in Operations, role \in Roles :
            \A given \in {SourceRules(rt, op, role)} :
                /\ LoadedRules(rt, op, role) \subseteq given
                /\ stats.rulesSkipped + stats.policySetsSkipped = 0 =>
                      LoadedRules(rt, op, role) = given

(* The values that a text mentions, and those of its words that the tree   *)
(* holds as constants.                                                     *)
Mentioned(tokens) == SelectSeq(tokens, LAMBDA t : t[1] \in {"ref", "of", "string", "number"})
BareWords(tokens, node) ==
    {t[2] : t \in {u \in Range(tokens) : u[1] = "word"}}
        \cap {t[2] : t \in {u \in Range(Written(node)) : u[1] = "string"}}

(***************************************************************************)
(* ParseCondition takes a text whole or not at all: the tree mentions the  *)
(* values of the text, each once and in its order, and written again it    *)
(* reads as the same tree.                                                 *)
(***************************************************************************)
ParsedAsWritten ==
    phase = "normalize" /\ done = {} /\ source.kind = "sets" =>
        \A set \in Range(source.sets) : \A policy \in Range(set.policies) :
            \A rule \in Range(policy.rules) : \A node \in {NormalizedCondition(rule.condition)} :
                node \notin {True, False, NoCondition, Unparsable} =>
                    /\ ParseCondition(Written(node)) = Parsed(node, <<>>)
                    /\ BareWords(rule.condition, node) = {} =>
                          Mentioned(Written(node)) = Mentioned(rule.condition)
=============================================================================
