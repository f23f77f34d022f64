--------------------------- MODULE PolicyDecision ---------------------------
(***************************************************************************)
(* From policies to decisions: NormalizePolicies                           *)
(* (internal/simplifiedpolicies/normalize.go) turns a list of simplified   *)
(* policies, one after the other, into the three indexes of data.policies  *)
(* (roles by operation, rules by role, global access by role), and         *)
(* policies/authorize_internals.rego, ols.rego and rls.rego answer each    *)
(* request from the indexes alone.                                         *)
(*                                                                         *)
(* Resource types, operations and roles are the upper-case keys both sides *)
(* use.  A rule list is the set of its rules: the order and the repetition *)
(* of rules reach no answer, whose predicates are sorted sets.  A          *)
(* predicate stands for its type and text; joining the predicates of one   *)
(* type and substituting placeholders are formatting.                      *)
(***************************************************************************)
EXTENDS RlsCondition

CONSTANTS
    ResourceTypes, Operations, Roles,   \* the keys that occur, ALL among them
    All,             \* the key "ALL"
    True, False,     \* the constant conditions
    NoCondition,     \* a policy without a condition
    Unparsable,      \* a condition that ParseCondition refuses
    Conditions,      \* the parsed conditions
    Predicates,      \* the predicates that filter
    Trivial,         \* the rsql predicate "true"
    AuthError,       \* the answer to a request that is not admitted
    NoAnswer,        \* no request has been answered
    Requests         \* the requests that may arrive

VARIABLES
    todo,      \* the policies NormalizePolicies has still to read
    done,      \* the policies it has read
    ols,       \* resource type -> operation -> roles
    rls,       \* resource type -> operation -> role or ALL -> rules
    global,    \* role -> what globalAccessRoles.byRole holds for it
    phase,     \* "pull", "normalize", "refused", "crashed" or "serve"
    request,   \* the request being answered
    answer     \* and its answer

docVars == <<ols, rls, global>>
vars == <<todo, done, docVars, phase, request, answer>>

Policies ==
    [complete : BOOLEAN,      \* resourceType, operation, component and roles are present
     resourceType : ResourceTypes, operation : Operations, roles : SUBSET Roles,
     condition : Conditions \cup {True, False, NoCondition, Unparsable},
     predicates : SUBSET (Predicates \cup {Trivial})]

Rules ==
    [condition : Conditions \cup {True, False}, predicates : SUBSET (Predicates \cup {Trivial})]

RequestFields ==
    {"admitted", "authenticated", "roles", "resourceType", "operation", "ignoreRls", "context"}
ContextFields ==
    {"resource", "base", "claims", "headers", "services", "entitlements", "subject", "aliases"}

(* Keys are those of the constants, and what arrives is well formed.       *)
ASSUME KeyAssumption == All \in ResourceTypes \cap Operations \cap Roles

ASSUME ConditionAssumption == Conditions \subseteq Nodes

ASSUME RequestAssumption ==
    \A req \in Requests :
        /\ RequestFields \subseteq DOMAIN req
        /\ ContextFields \subseteq DOMAIN req.context
        /\ req.resourceType \in ResourceTypes /\ req.operation \in Operations
        /\ req.roles \subseteq Roles
        /\ {req.admitted, req.authenticated, req.ignoreRls} \subseteq BOOLEAN

-----------------------------------------------------------------------------
(* A role that no global policy names.                                     *)
NoAccess == [all |-> FALSE, operations |-> {}, resourceTypes |-> {}]

Init ==
    /\ todo = <<>>
    /\ done = {}
    /\ ols = [rt \in ResourceTypes |-> [op \in Operations |-> {}]]
    /\ rls = [rt \in ResourceTypes |-> [op \in Operations |-> [role \in Roles |-> {}]]]
    /\ global = [role \in Roles |-> NoAccess]
    /\ phase = "pull"
    /\ request = NoAnswer
    /\ answer = NoAnswer

Wildcard(p) == All \in {p.resourceType, p.operation}

(* A policy for every type or every operation that names roles gives them  *)
(* global access and nothing else: its condition is not even parsed.       *)
GivesGlobalAccess(p) == Wildcard(p) /\ p.roles # {}

Refusable(p) == ~p.complete \/ (~GivesGlobalAccess(p) /\ p.condition = Unparsable)

(* One bad policy refuses the whole list.                                  *)
Refuse ==
    /\ phase = "normalize"
    /\ todo # <<>>
    /\ Refusable(Head(todo))
    /\ phase' = "refused"
    /\ UNCHANGED <<todo, done, docVars, request, answer>>

(* mergeGlobalAccessRole                                                   *)
Extended(entry, p) ==
    CASE p.resourceType = All /\ p.operation = All -> [entry EXCEPT !.all = TRUE]
      [] p.resourceType = All /\ p.operation # All ->
            [entry EXCEPT !.operations = @ \cup {p.operation}]
      [] OTHER -> [entry EXCEPT !.resourceTypes = @ \cup {p.resourceType}]

(* The next policy of the list is read.                                    *)
Reads(p) ==
    /\ ~Refusable(p)
    /\ todo' = Tail(todo)
    /\ done' = done \cup {p}
    /\ UNCHANGED <<phase, request, answer>>

MergeGlobalAccess ==
    LET p == Head(todo) IN
    /\ phase = "normalize"
    /\ todo # <<>>
    /\ Reads(p)
    /\ GivesGlobalAccess(p)
    /\ global' = [role \in Roles |->
                    IF role \in p.roles THEN Extended(global[role], p) ELSE global[role]]
    /\ UNCHANGED <<ols, rls>>

(* normalizeRule: without a condition the rule holds, without a condition  *)
(* and a predicate it also filters nothing.                                *)
Rule(p) ==
    [condition |-> IF p.condition = NoCondition THEN True ELSE p.condition,
     predicates |-> IF p.condition = NoCondition /\ p.predicates = {}
                    THEN {Trivial} ELSE p.predicates]

(* The roles a rule is filed under: ALL for a policy without roles.        *)
RoleKeys(p) == IF p.roles = {} THEN {All} ELSE p.roles

(* mergeOLSRule and appendRLSRule                                          *)
MergeRule ==
    LET p == Head(todo) IN
    /\ phase = "normalize"
    /\ todo # <<>>
    /\ Reads(p)
    /\ ~GivesGlobalAccess(p)
    /\ ols' = [ols EXCEPT ![p.resourceType][p.operation] = @ \cup p.roles]
    /\ rls' = [rls EXCEPT ![p.resourceType][p.operation] = [role \in Roles |->
                 IF role \in RoleKeys(p) THEN @[role] \cup {Rule(p)} ELSE @[role]]]
    /\ UNCHANGED global

(* The documents are put into the store as a whole.                        *)
Serve ==
    /\ phase = "normalize"
    /\ todo = <<>>
    /\ phase' = "serve"
    /\ UNCHANGED <<todo, done, docVars, request, answer>>

-----------------------------------------------------------------------------
(* _build_wildcard_summary: a role with access to everything ends the      *)
(* search, otherwise the scopes of all roles are joined.                   *)
Summary(roles) ==
    IF \E role \in roles : global[role].all
    THEN [all |-> TRUE, operations |-> {}, resourceTypes |-> {}]
    ELSE [all |-> FALSE,
          operations |-> UNION {global[role].operations : role \in roles},
          resourceTypes |-> UNION {global[role].resourceTypes : role \in roles}]

(* _wildcard_matches_resource                                              *)
WildcardMatches(req) ==
    LET summary == Summary(req.roles) IN
    \/ summary.all
    \/ req.operation \in summary.operations
    \/ req.resourceType \in summary.resourceTypes

(* ols.evaluate: the roles of the subject that may try the operation.      *)
OlsRoles(req) == ols[req.resourceType][req.operation] \cap req.roles

(* candidate_roles and direct_rule_lists                                   *)
CandidateRules(req) ==
    UNION {rls[rt][op][role] : rt \in {req.resourceType, All}, op \in {req.operation, All},
                               role \in OlsRoles(req) \cup {All}}

(* condition_allows                                                        *)
RuleHolds(condition, context) ==
    condition = True \/ (condition # False /\ ConditionAllows(condition, context))

GrantedRules(req) == {rule \in CandidateRules(req) : RuleHolds(rule.condition, req.context)}

(* rule_is_unrestricted                                                    *)
Unrestricted(rule) == rule.condition = True /\ rule.predicates \subseteq {Trivial}

AnyPredicateStays(rules) == (UNION {rule.predicates : rule \in rules}) \ {Trivial}

(* aggregated_predicate and typed_predicates: a rule without restrictions  *)
(* makes the others' predicates irrelevant.                                *)
Aggregated(rules) ==
    IF \E rule \in rules : Unrestricted(rule)
    THEN {}
    ELSE (UNION {rule.predicates : rule \in rules}) \ {Trivial}

Decision(allow, filter) == [allow |-> allow, filter |-> filter]

(* decision_for_resource, decision_from_ols, rls_result, canonical_result  *)
Decided(req) ==
    IF WildcardMatches(req)
    THEN Decision(TRUE, {})
    ELSE IF OlsRoles(req) = {}
    THEN Decision(FALSE, {})
    ELSE IF req.ignoreRls
    THEN Decision(TRUE, {})
    ELSE IF GrantedRules(req) = {}
    THEN Decision(FALSE, {})
    ELSE Decision(TRUE, Aggregated(GrantedRules(req)))

(* canonical: the admission gate, the subject's authentication, and the    *)
(* decision.                                                               *)
Canonical(req) ==
    IF ~req.admitted
    THEN AuthError
    ELSE IF ~req.authenticated THEN Decision(FALSE, {}) ELSE Decided(req)

Authorize(req) ==
    /\ phase = "serve"
    /\ answer = NoAnswer
    /\ request' = req
    /\ answer' = Canonical(req)
    /\ UNCHANGED <<todo, done, docVars, phase>>

(* The answer is sent; nothing of the request stays behind.                *)
Reply ==
    /\ answer # NoAnswer
    /\ request' = NoAnswer
    /\ answer' = NoAnswer
    /\ UNCHANGED <<todo, done, docVars, phase>>

-----------------------------------------------------------------------------
(* What the policies say, without the indexes.  A policy is in scope when  *)
(* it is for the resource type or for all of them, and for the operation   *)
(* or for all of them.                                                     *)
InScope(p, req) ==
    /\ p.resourceType \in {req.resourceType, All}
    /\ p.operation \in {req.operation, All}

Names(p, req) == p.roles \cap req.roles # {}

(* The policies that give the subject unconditional access, those that let *)
(* it try the operation, and those whose rules then apply: its own and the *)
(* ones for everybody.                                                     *)
GlobalPolicies(req) == {p \in done : GivesGlobalAccess(p) /\ InScope(p, req) /\ Names(p, req)}
OwnPolicies(req) == {p \in done : ~GivesGlobalAccess(p) /\ InScope(p, req) /\ Names(p, req)}
RulePolicies(req) ==
    {p \in done : /\ ~GivesGlobalAccess(p)
                  /\ InScope(p, req)
                  /\ Names(p, req) \/ All \in RoleKeys(p)
                  /\ RuleHolds(Rule(p).condition, req.context)}

Allowed(req) ==
    \/ GlobalPolicies(req) # {}
    \/ OwnPolicies(req) # {} /\ (req.ignoreRls \/ RulePolicies(req) # {})

Filtered(req) ==
    /\ GlobalPolicies(req) = {}
    /\ ~req.ignoreRls
    /\ \A p \in RulePolicies(req) : ~Unrestricted(Rule(p))

Expected(req) ==
    Decision(Allowed(req),
             IF Allowed(req) /\ Filtered(req)
             THEN (UNION {p.predicates : p \in RulePolicies(req)}) \ {Trivial}
             ELSE {})

(***************************************************************************)
(* The indexes lose nothing and add nothing: an admitted, authenticated    *)
(* request is answered as the policies read so far say, in whatever order  *)
(* they came and however many share a role, a type or an operation.  A     *)
(* policy for everybody opens nothing to a subject no other policy names.  *)
(***************************************************************************)
DecisionMeansPolicies ==
    answer # NoAnswer /\ request.admitted /\ request.authenticated => answer = Expected(request)
=============================================================================
