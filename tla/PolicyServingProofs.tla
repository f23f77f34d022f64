------------------------- MODULE PolicyServingProofs -------------------------
(***************************************************************************)
(* PolicyServing, for every source, policy, condition, PIP and request:    *)
(* the indexes of data.policies are after every policy exactly what the    *)
(* policies read so far say; the evaluator of rls.rego is monotone in the  *)
(* values of PIPs that failed; the attributes a rule reads are those of    *)
(* the PIP document; a condition means what its text says, whatever its    *)
(* depth; and the lists of the legacy routes keep the order of what was    *)
(* asked. From these the answers follow.                                   *)
(***************************************************************************)
EXTENDS PolicyServing, WellFoundedInduction, TLAPS

-----------------------------------------------------------------------------
(***************************************************************************)
(* The indexes                                                             *)
(***************************************************************************)

(* The policies that mergeOLSRule and appendRLSRule file under a key, and  *)
(* those that mergeGlobalAccessRole files under a role.                    *)
Filed(rt, op) ==
    {p \in done : ~GivesGlobalAccess(p) /\ p.resourceType = rt /\ p.operation = op}
GlobalFor(role) == {p \in done : GivesGlobalAccess(p) /\ role \in p.roles}

(* The policies to read and those read.                                    *)
PoliciesTyped ==
    /\ todo \in Seq(Policies)
    /\ done \subseteq Policies

(* Each index is what the policies read so far say: the roles of an        *)
(* operation, the rules of a role, and the global access of a role.        *)
OlsInv ==
    /\ ols \in [ResourceTypes -> [Operations -> SUBSET Roles]]
    /\ \A rt \in ResourceTypes, op \in Operations :
          ols[rt][op] = UNION {p.roles : p \in Filed(rt, op)}

RlsInv ==
    /\ rls \in [ResourceTypes -> [Operations -> [Roles -> SUBSET Rules]]]
    /\ \A rt \in ResourceTypes, op \in Operations, role \in Roles :
          rls[rt][op][role] = {Rule(p) : p \in {q \in Filed(rt, op) : role \in RoleKeys(q)}}

GlobalInv ==
    /\ global \in [Roles -> [all : BOOLEAN, operations : SUBSET Operations,
                             resourceTypes : SUBSET ResourceTypes]]
    /\ \A role \in Roles :
          /\ global[role].all <=>
                \E p \in GlobalFor(role) : p.resourceType = All /\ p.operation = All
          /\ global[role].operations =
                {p.operation : p \in {q \in GlobalFor(role) :
                                        q.resourceType = All /\ q.operation # All}}
          /\ global[role].resourceTypes =
                {p.resourceType : p \in {q \in GlobalFor(role) : q.resourceType # All}}

IndexInv == PoliciesTyped /\ OlsInv /\ RlsInv /\ GlobalInv

-----------------------------------------------------------------------------
(* Nothing has been read and nothing is in the indexes.                    *)
LEMMA EmptyIndexes ==
    ASSUME todo \in Seq(Policies), done = {},
           ols = [rt \in ResourceTypes |-> [op \in Operations |-> {}]],
           rls = [rt \in ResourceTypes |-> [op \in Operations |-> [role \in Roles |-> {}]]],
           global = [role \in Roles |-> NoAccess]
    PROVE  IndexInv
<1>1. PoliciesTyped
  BY Zenon DEF PoliciesTyped
<1>2. \A rt, op, role : Filed(rt, op) = {} /\ GlobalFor(role) = {}
  BY Zenon DEF Filed, GlobalFor
<1>3. OlsInv
  BY <1>2, Zenon DEF OlsInv
<1>4. RlsInv
  BY <1>2, Zenon DEF RlsInv
<1>5. GlobalInv
  BY <1>2, Zenon DEF GlobalInv, NoAccess
<1> QED
  BY <1>1, <1>3, <1>4, <1>5, Zenon DEF IndexInv

(* A step that reads no policy and touches no index keeps the indexes.     *)
LEMMA IndexesKept ==
    ASSUME IndexInv, todo' \in Seq(Policies), UNCHANGED <<done, docVars>>
    PROVE  IndexInv'
<1>1. PoliciesTyped'
  BY Zenon DEF IndexInv, PoliciesTyped
<1>2. OlsInv'
  BY Zenon DEF IndexInv, OlsInv, Filed, docVars
<1>3. RlsInv'
  BY Zenon DEF IndexInv, RlsInv, Filed, docVars
<1>4. GlobalInv'
  BY Zenon DEF IndexInv, GlobalInv, GlobalFor, docVars
<1> QED
  BY <1>1, <1>2, <1>3, <1>4, Zenon DEF IndexInv

(* The policy that is read is a policy.                                    *)
LEMMA HeadTyped ==
    ASSUME PoliciesTyped, todo # <<>>
    PROVE  Head(todo) \in Policies /\ Tail(todo) \in Seq(Policies)
  BY DEF PoliciesTyped

(* mergeGlobalAccessRole keeps the indexes in step with the policies.      *)
LEMMA GlobalAccessStep ==
    ASSUME IndexInv, MergeGlobalAccess
    PROVE  IndexInv'
<1> PICK p : p = Head(todo)
  BY Zenon
<1>0. p \in Policies /\ Tail(todo) \in Seq(Policies)
  BY HeadTyped, Zenon DEF IndexInv, MergeGlobalAccess
<1>1. done' = done \cup {p} /\ GivesGlobalAccess(p)
  BY Zenon DEF MergeGlobalAccess, Reads
<1>2. PoliciesTyped'
  BY <1>0, <1>1, Zenon DEF IndexInv, PoliciesTyped, MergeGlobalAccess, Reads
<1>3. \A rt, op : Filed(rt, op)' = Filed(rt, op)
  BY <1>1, Zenon DEF Filed
<1>4. OlsInv'
  BY <1>3, Zenon DEF IndexInv, OlsInv, MergeGlobalAccess
<1>5. RlsInv'
  BY <1>3, Zenon DEF IndexInv, RlsInv, MergeGlobalAccess
<1>6. GlobalInv'
  <2>1. \A role \in Roles :
           GlobalFor(role)' = IF role \in p.roles THEN GlobalFor(role) \cup {p} ELSE GlobalFor(role)
    BY <1>1, Zenon DEF GlobalFor
  <2>2. /\ p.resourceType \in ResourceTypes /\ p.operation \in Operations
        /\ p.resourceType = All \/ p.operation = All
    BY <1>0, <1>1, Zenon DEF GivesGlobalAccess, Wildcard, Policies
  <2>3. global' = [role \in Roles |->
                    IF role \in p.roles THEN Extended(global[role], p) ELSE global[role]]
    BY Zenon DEF MergeGlobalAccess
  <2>4. GlobalInv
    BY Zenon DEF IndexInv
  <2>5. SUFFICES ASSUME NEW role \in Roles
                 PROVE  /\ global'[role] \in [all : BOOLEAN, operations : SUBSET Operations,
                                               resourceTypes : SUBSET ResourceTypes]
                        /\ global'[role].all <=>
                              \E q \in GlobalFor(role)' : q.resourceType = All /\ q.operation = All
                        /\ global'[role].operations =
                              {r.operation : r \in {q \in GlobalFor(role)' :
                                                      q.resourceType = All /\ q.operation # All}}
                        /\ global'[role].resourceTypes =
                              {r.resourceType : r \in {q \in GlobalFor(role)' :
                                                         q.resourceType # All}}
    BY <2>3, Zenon DEF GlobalInv
  <2>6. CASE role \notin p.roles
    BY <2>1, <2>3, <2>4, <2>6, Zenon DEF GlobalInv
  <2>7. CASE role \in p.roles
    <3>1. GlobalFor(role)' = GlobalFor(role) \cup {p} /\ global'[role] = Extended(global[role], p)
      BY <2>1, <2>3, <2>7, Zenon
    <3>2. CASE p.resourceType = All /\ p.operation = All
      <4>1. global'[role] = [global[role] EXCEPT !.all = TRUE]
        BY <3>1, <3>2, Zenon DEF Extended
      <4>2. global[role] \in [all : BOOLEAN, operations : SUBSET Operations,
                              resourceTypes : SUBSET ResourceTypes]
        BY <2>4, Zenon DEF GlobalInv
      <4>3. /\ global'[role] \in [all : BOOLEAN, operations : SUBSET Operations,
                                 resourceTypes : SUBSET ResourceTypes]
            /\ global'[role].all
            /\ global'[role].operations = global[role].operations
            /\ global'[role].resourceTypes = global[role].resourceTypes
        BY <4>1, <4>2, Zenon
      <4>4. \E q \in GlobalFor(role)' : q.resourceType = All /\ q.operation = All
        BY <3>1, <3>2, Zenon
      <4>5. /\ {q \in GlobalFor(role)' : q.resourceType = All /\ q.operation # All}
                 = {q \in GlobalFor(role) : q.resourceType = All /\ q.operation # All}
            /\ {q \in GlobalFor(role)' : q.resourceType # All}
                 = {q \in GlobalFor(role) : q.resourceType # All}
        BY <3>1, <3>2, Zenon
      <4> QED
        BY <2>4, <4>3, <4>4, <4>5, Zenon DEF GlobalInv
    <3>3. CASE p.resourceType = All /\ p.operation # All
      BY <2>2, <2>4, <3>1, <3>3 DEF GlobalInv, Extended
    <3>4. CASE p.resourceType # All
      <4>1. global'[role] = [global[role] EXCEPT !.resourceTypes = @ \cup {p.resourceType}]
        BY <3>1, <3>4, Zenon DEF Extended
      <4> QED
        BY <2>2, <2>4, <3>1, <3>4, <4>1 DEF GlobalInv
    <3> QED
      BY <3>2, <3>3, <3>4, Zenon
  <2> QED
    BY <2>6, <2>7, Zenon
<1> QED
  BY <1>2, <1>4, <1>5, <1>6, Zenon DEF IndexInv

(* mergeOLSRule and appendRLSRule keep the indexes in step with the        *)
(* policies.                                                               *)
LEMMA RuleStep ==
    ASSUME IndexInv, MergeRule
    PROVE  IndexInv'
<1> PICK p : p = Head(todo)
  BY Zenon
<1>0. p \in Policies /\ Tail(todo) \in Seq(Policies)
  BY HeadTyped, Zenon DEF IndexInv, MergeRule
<1>1. done' = done \cup {p} /\ ~GivesGlobalAccess(p) /\ ~Refusable(p)
  BY Zenon DEF MergeRule, Reads
<1>2. PoliciesTyped'
  BY <1>0, <1>1, Zenon DEF IndexInv, PoliciesTyped, MergeRule, Reads
<1>3. \A rt, op : Filed(rt, op)' = IF rt = p.resourceType /\ op = p.operation
                                  THEN Filed(rt, op) \cup {p} ELSE Filed(rt, op)
  BY <1>1, Zenon DEF Filed
<1>4. p.resourceType \in ResourceTypes /\ p.operation \in Operations /\ p.roles \subseteq Roles
  BY <1>0, Zenon DEF Policies
<1>5. OlsInv'
  <2>1. ols' = [ols EXCEPT ![p.resourceType][p.operation] = @ \cup p.roles]
    BY Zenon DEF MergeRule
  <2> QED
    BY <1>3, <1>4, <2>1 DEF IndexInv, OlsInv
<1>6. RlsInv'
  <2> DEFINE old == rls[p.resourceType][p.operation]
             row == [role \in Roles |->
                       IF role \in RoleKeys(p) THEN old[role] \cup {Rule(p)} ELSE old[role]]
  <2>0. rls \in [ResourceTypes -> [Operations -> [Roles -> SUBSET Rules]]]
    BY Zenon DEF IndexInv, RlsInv
  <2>1. rls' = [rls EXCEPT ![p.resourceType][p.operation] = row]
    BY Zenon DEF MergeRule
  <2>2. Rule(p) \in Rules
    BY <1>0, <1>1, Zenon DEF Rule, Rules, Policies, Refusable
  <2>r. row \in [Roles -> SUBSET Rules]
    <3>1. old \in [Roles -> SUBSET Rules]
      BY <1>4, <2>0, Zenon
    <3> QED
      BY <2>2, <3>1, Zenon
  <2> HIDE DEF row
  <2>3. rls' \in [ResourceTypes -> [Operations -> [Roles -> SUBSET Rules]]]
    BY <1>4, <2>0, <2>1, <2>r, Zenon
  <2>4. ASSUME NEW rt \in ResourceTypes, NEW op \in Operations, NEW role \in Roles
        PROVE  rls'[rt][op][role] =
                 {Rule(q) : q \in {r \in Filed(rt, op)' : role \in RoleKeys(r)}}
    <3>1. CASE rt = p.resourceType /\ op = p.operation /\ role \in RoleKeys(p)
      <4>1. rls'[rt][op][role] = rls[rt][op][role] \cup {Rule(p)}
        BY <2>0, <2>1, <3>1, Zenon DEF row
      <4>2. {r \in Filed(rt, op)' : role \in RoleKeys(r)}
              = {r \in Filed(rt, op) : role \in RoleKeys(r)} \cup {p}
        BY <1>3, <3>1, Zenon
      <4>3. rls[rt][op][role] = {Rule(q) : q \in {r \in Filed(rt, op) : role \in RoleKeys(r)}}
        BY Zenon DEF IndexInv, RlsInv
      <4> QED
        BY <4>1, <4>2, <4>3, Zenon
    <3>2. CASE ~(rt = p.resourceType /\ op = p.operation /\ role \in RoleKeys(p))
      <4>1. rls'[rt][op][role] = rls[rt][op][role]
        BY <1>4, <2>0, <2>1, <3>2, Zenon DEF row
      <4>2. {r \in Filed(rt, op)' : role \in RoleKeys(r)}
              = {r \in Filed(rt, op) : role \in RoleKeys(r)}
        BY <1>3, <3>2, Zenon
      <4> QED
        BY <4>1, <4>2 DEF IndexInv, RlsInv
    <3> QED
      BY <3>1, <3>2, Zenon
  <2> QED
    BY <2>3, <2>4, Zenon DEF RlsInv
<1>7. GlobalInv'
  <2>1. \A role : GlobalFor(role)' = GlobalFor(role)
    BY <1>1, Zenon DEF GlobalFor
  <2> QED
    BY <2>1, Zenon DEF IndexInv, GlobalInv, MergeRule
<1> QED
  BY <1>2, <1>5, <1>6, <1>7, Zenon DEF IndexInv

(* An answer depends on nothing but the request and the indexes.           *)
LEMMA CanonicalKept ==
    ASSUME NEW req, UNCHANGED docVars
    PROVE  Canonical(req)' = Canonical(req)
  BY DEF docVars, Canonical, Decided, WildcardMatches, Summary, OlsRoles, GrantedRules,
         CandidateRules

-----------------------------------------------------------------------------
(* A policy that names roles and gives no global access is filed under one *)
(* type and one operation.                                                 *)
LEMMA NotWildcard ==
    ASSUME NEW p, ~GivesGlobalAccess(p), p.roles # {}
    PROVE  p.resourceType # All /\ p.operation # All
  BY Zenon DEF GivesGlobalAccess, Wildcard

(* A request with keys that occur.                                         *)
Keyed(req) ==
    /\ req.resourceType \in ResourceTypes /\ req.operation \in Operations
    /\ req.roles \subseteq Roles
    /\ req.ignoreRls \in BOOLEAN

(* The summary of the global access finds a scope exactly if some policy   *)
(* of the subject's roles gives it.                                        *)
LEMMA WildcardMeansGlobal ==
    ASSUME IndexInv, NEW req, Keyed(req)
    PROVE  WildcardMatches(req) <=> GlobalPolicies(req) # {}
<1>0. req.roles \subseteq Roles
  BY Zenon DEF Keyed
<1>1. WildcardMatches(req) <=>
         \E role \in req.roles : \/ global[role].all
                                \/ req.operation \in global[role].operations
                                \/ req.resourceType \in global[role].resourceTypes
  BY Zenon DEF WildcardMatches, Summary
<1>2. ASSUME NEW role \in req.roles, NEW p \in GlobalFor(role),
             p.resourceType \in {req.resourceType, All}, p.operation \in {req.operation, All}
      PROVE  GlobalPolicies(req) # {}
  BY <1>2, Zenon DEF GlobalFor, GlobalPolicies, InScope, Names
<1>3. ASSUME NEW role \in req.roles, NEW p \in GlobalFor(role)
      PROVE  p.resourceType = All \/ p.operation = All
  BY <1>3, Zenon DEF GlobalFor, GivesGlobalAccess, Wildcard
<1>4. ASSUME NEW role \in req.roles,
             \/ global[role].all
             \/ req.operation \in global[role].operations
             \/ req.resourceType \in global[role].resourceTypes
      PROVE  GlobalPolicies(req) # {}
  <2>1. CASE global[role].all
    <3>1. PICK p \in GlobalFor(role) : p.resourceType = All /\ p.operation = All
      BY <1>0, <2>1, Zenon DEF IndexInv, GlobalInv
    <3> QED
      BY <1>2, <3>1, Zenon
  <2>2. CASE req.operation \in global[role].operations
    <3>1. PICK p \in GlobalFor(role) : p.resourceType = All /\ p.operation = req.operation
      BY <1>0, <2>2 DEF IndexInv, GlobalInv
    <3> QED
      BY <1>2, <3>1, Zenon
  <2>3. CASE req.resourceType \in global[role].resourceTypes
    <3>1. PICK p \in GlobalFor(role) : p.resourceType # All /\ p.resourceType = req.resourceType
      BY <1>0, <2>3 DEF IndexInv, GlobalInv
    <3> QED
      BY <1>2, <1>3, <3>1, Zenon
  <2> QED
    BY <1>4, <2>1, <2>2, <2>3, Zenon
<1>5. ASSUME NEW p \in GlobalPolicies(req)
      PROVE  \E role \in req.roles : \/ global[role].all
                                    \/ req.operation \in global[role].operations
                                    \/ req.resourceType \in global[role].resourceTypes
  <2>1. PICK role \in req.roles : p \in GlobalFor(role)
    BY Zenon DEF GlobalPolicies, GlobalFor, Names
  <2>2. /\ p.resourceType \in {req.resourceType, All}
        /\ p.operation \in {req.operation, All}
    BY Zenon DEF GlobalPolicies, InScope
  <2>3. CASE p.resourceType = All /\ p.operation = All
    BY <1>0, <2>1, <2>3, Zenon DEF IndexInv, GlobalInv
  <2>4. CASE p.resourceType = All /\ p.operation # All
    BY <1>0, <2>1, <2>2, <2>4 DEF IndexInv, GlobalInv
  <2>5. CASE p.resourceType # All
    BY <1>0, <2>1, <2>2, <2>5 DEF IndexInv, GlobalInv
  <2> QED
    BY <2>3, <2>4, <2>5, Zenon
<1> QED
  BY <1>1, <1>4, <1>5, Zenon

(* A subject passes OLS exactly if some policy of its own is in scope.     *)
LEMMA OlsMeansOwn ==
    ASSUME IndexInv, NEW req, Keyed(req)
    PROVE  OlsRoles(req) # {} <=> OwnPolicies(req) # {}
<1>0. /\ req.resourceType \in ResourceTypes /\ req.operation \in Operations
  BY Zenon DEF Keyed
<1>1. OlsRoles(req) =
         (UNION {p.roles : p \in Filed(req.resourceType, req.operation)}) \cap req.roles
  BY <1>0, Zenon DEF IndexInv, OlsInv, OlsRoles
<1>2. ASSUME NEW p \in OwnPolicies(req)
      PROVE  OlsRoles(req) # {}
  <2>1. p.roles \cap req.roles # {} /\ ~GivesGlobalAccess(p) /\ InScope(p, req) /\ p \in done
    BY Zenon DEF OwnPolicies, Names
  <2>2. p \in Filed(req.resourceType, req.operation)
    BY <2>1, NotWildcard, Zenon DEF InScope, Filed
  <2> QED
    BY <1>1, <2>1, <2>2, Zenon
<1>3. ASSUME NEW role \in OlsRoles(req)
      PROVE  OwnPolicies(req) # {}
  <2>1. PICK p \in Filed(req.resourceType, req.operation) : role \in p.roles /\ role \in req.roles
    BY <1>1, Zenon
  <2> QED
    BY <2>1, Zenon DEF OwnPolicies, Filed, InScope, Names
<1> QED
  BY <1>2, <1>3, Zenon

(* The rules that grant are those of the policies that apply and hold.     *)
LEMMA GrantedMeansRules ==
    ASSUME IndexInv, NEW req, Keyed(req)
    PROVE  GrantedRules(req) = {Rule(p) : p \in RulePolicies(req)}
<1>0. /\ req.resourceType \in ResourceTypes /\ req.operation \in Operations
      /\ req.roles \subseteq Roles
      /\ All \in ResourceTypes /\ All \in Operations /\ All \in Roles
  BY KeyAssumption, Zenon DEF Keyed
<1>1. ASSUME NEW rule \in GrantedRules(req)
      PROVE  \E p \in RulePolicies(req) : rule = Rule(p)
  <2>1. RuleHolds(rule.condition, req.context) /\ rule \in CandidateRules(req)
    BY Zenon DEF GrantedRules
  <2>2. PICK rt \in {req.resourceType, All}, op \in {req.operation, All},
             role \in OlsRoles(req) \cup {All} : rule \in rls[rt][op][role]
    BY <2>1 DEF CandidateRules
  <2>3. rt \in ResourceTypes /\ op \in Operations /\ role \in Roles /\ role \in req.roles \cup {All}
    BY <1>0, Zenon DEF OlsRoles
  <2>4. PICK p \in Filed(rt, op) : role \in RoleKeys(p) /\ rule = Rule(p)
    BY <2>2, <2>3 DEF IndexInv, RlsInv
  <2>5. Names(p, req) \/ All \in RoleKeys(p)
    BY <2>3, <2>4, Zenon DEF Names, RoleKeys
  <2> QED
    BY <2>1, <2>4, <2>5, Zenon DEF RulePolicies, Filed, InScope
<1>2. ASSUME NEW p \in RulePolicies(req)
      PROVE  Rule(p) \in GrantedRules(req)
  <2>1. /\ p \in done /\ ~GivesGlobalAccess(p) /\ InScope(p, req)
        /\ RuleHolds(Rule(p).condition, req.context)
        /\ Names(p, req) \/ All \in RoleKeys(p)
    BY Zenon DEF RulePolicies
  <2>2. p \in Filed(p.resourceType, p.operation)
    BY <2>1, Zenon DEF Filed
  <2>3. PICK role \in OlsRoles(req) \cup {All} : role \in RoleKeys(p)
    <3>1. CASE All \in RoleKeys(p)
      BY <3>1, Zenon
    <3>2. CASE Names(p, req)
      <4>1. PICK r \in p.roles : r \in req.roles
        BY <3>2, Zenon DEF Names
      <4>2. p.resourceType = req.resourceType /\ p.operation = req.operation
        BY <2>1, <4>1, NotWildcard, Zenon DEF InScope
      <4>3. r \in OlsRoles(req)
        BY <1>0, <2>2, <4>1, <4>2 DEF IndexInv, OlsInv, OlsRoles
      <4> QED
        BY <4>1, <4>3, Zenon DEF RoleKeys
    <3> QED
      BY <2>1, <3>1, <3>2, Zenon
  <2>4. role \in Roles /\ p.resourceType \in {req.resourceType, All}
        /\ p.operation \in {req.operation, All}
    BY <1>0, <2>1, Zenon DEF OlsRoles, InScope
  <2>5. Rule(p) \in rls[p.resourceType][p.operation][role]
    BY <1>0, <2>2, <2>3, <2>4 DEF IndexInv, RlsInv
  <2>6. Rule(p) \in CandidateRules(req)
    BY <2>3, <2>4, <2>5 DEF CandidateRules
  <2> QED
    BY <2>1, <2>6, Zenon DEF GrantedRules
<1> QED
  BY <1>1, <1>2, Zenon

(* The predicates that remain are those of the policies.                   *)
LEMMA AggregatedMeansPredicates ==
    ASSUME NEW policies
    PROVE  Aggregated({Rule(p) : p \in policies}) =
             IF \E p \in policies : Unrestricted(Rule(p))
             THEN {} ELSE (UNION {p.predicates : p \in policies}) \ {Trivial}
<1>1. \A p \in policies : Rule(p).predicates \ {Trivial} = p.predicates \ {Trivial}
  BY Zenon DEF Rule
<1>2. (UNION {rule.predicates : rule \in {Rule(p) : p \in policies}}) \ {Trivial}
         = (UNION {p.predicates : p \in policies}) \ {Trivial}
  <2>1. ASSUME NEW x \in (UNION {rule.predicates : rule \in {Rule(p) : p \in policies}}) \ {Trivial}
        PROVE  x \in (UNION {p.predicates : p \in policies}) \ {Trivial}
    <3>1. PICK p \in policies : x \in Rule(p).predicates
      BY Zenon
    <3> QED
      BY <1>1, <3>1
  <2>2. ASSUME NEW x \in (UNION {p.predicates : p \in policies}) \ {Trivial}
        PROVE  x \in (UNION {rule.predicates : rule \in {Rule(p) : p \in policies}}) \ {Trivial}
    <3>1. PICK p \in policies : x \in p.predicates
      BY Zenon
    <3> QED
      BY <1>1, <3>1
  <2> QED
    BY <2>1, <2>2, Zenon
<1> QED
  BY <1>2, Zenon DEF Aggregated

(* Every request, asked at any time, is decided as the policies say.       *)
LEMMA DecidedIsExpected ==
    ASSUME IndexInv, NEW req, Keyed(req)
    PROVE  Decided(req) = Expected(req)
<1>1. WildcardMatches(req) <=> GlobalPolicies(req) # {}
  BY WildcardMeansGlobal, Zenon
<1>2. OlsRoles(req) # {} <=> OwnPolicies(req) # {}
  BY OlsMeansOwn, Zenon
<1>3. GrantedRules(req) = {Rule(p) : p \in RulePolicies(req)}
  BY GrantedMeansRules, Zenon
<1>4. GrantedRules(req) # {} <=> RulePolicies(req) # {}
  BY <1>3, Zenon
<1>5. Aggregated(GrantedRules(req)) =
         IF \E p \in RulePolicies(req) : Unrestricted(Rule(p))
         THEN {} ELSE (UNION {p.predicates : p \in RulePolicies(req)}) \ {Trivial}
  BY <1>3, AggregatedMeansPredicates, Zenon
<1>6. req.ignoreRls \in BOOLEAN
  BY Zenon DEF Keyed
<1> QED
  BY <1>1, <1>2, <1>4, <1>5, <1>6, Zenon DEF Decided, Expected, Allowed, Filtered, Decision

-----------------------------------------------------------------------------
(* What is being answered is a request of a client with the values of its  *)
(* PIPs, and its answer is what the indexes give.                          *)
AnswerInv ==
    answer # NoAnswer =>
        /\ phase = "serve"
        /\ \E req \in Requests : request = Enrich(pips, req)
        /\ answer = Canonical(request)

(* The inductive invariant: the indexes say what the policies say, the     *)
(* answer is the indexes' answer to a client's request, and what the       *)
(* second Put will store was built from the indexes in the store.          *)
ServingInv ==
    /\ IndexInv
    /\ \E family \in DOMAIN Sources : source \in Sources[family]
    /\ AnswerInv
    /\ phase = "serve" => nextPips = BuiltPips

(* The empty store has it.                                                 *)
LEMMA InitInv == PipelineInit => ServingInv
<1> SUFFICES ASSUME PipelineInit PROVE ServingInv
  BY Zenon
<1>1. <<>> \in Seq(Policies)
  OBVIOUS
<1>2. IndexInv
  BY <1>1, EmptyIndexes, Zenon DEF PipelineInit, Init
<1>3. AnswerInv
  BY Zenon DEF PipelineInit, Init, AnswerInv
<1>4. phase # "serve"
  BY Zenon DEF PipelineInit, Init
<1> QED
  BY <1>2, <1>3, <1>4, Zenon DEF PipelineInit, ServingInv

(* Every step keeps the indexes right.                                     *)
LEMMA IndexStep ==
    ASSUME ServingInv, [PipelineNext]_pipelineVars
    PROVE  IndexInv'
<1>0. IndexInv /\ todo \in Seq(Policies)
  BY Zenon DEF ServingInv, IndexInv, PoliciesTyped
<1>1. CASE Pull
  <2>1. Converted(source) \in Seq(Policies)
    BY SourceAssumption, Zenon DEF ServingInv
  <2> QED
    BY <1>0, <1>1, <2>1, IndexesKept, Zenon DEF Pull
<1>2. CASE Refuse \/ Serve \/ Reply \/ UNCHANGED vars
  BY <1>0, <1>2, IndexesKept, Zenon DEF Refuse, Serve, Reply, vars
<1>3. CASE MergeGlobalAccess
  BY <1>0, <1>3, GlobalAccessStep, Zenon
<1>4. CASE MergeRule
  BY <1>0, <1>4, RuleStep, Zenon
<1>5. CASE Crash
  BY <1>0, <1>5, IndexesKept, Zenon DEF Crash
<1>6. CASE \E req \in AskedBy[source.clients] : Ask(req)
  BY <1>0, <1>6, IndexesKept, Zenon DEF Ask, Authorize
<1>7. CASE StorePips \/ (\E c \in CalledBy[source.clients] : Check(c)) \/ UNCHANGED pipelineVars
  <2>1. UNCHANGED vars
    BY <1>7, Zenon DEF StorePips, Check, pipelineVars
  <2> QED
    BY <1>2, <2>1, Zenon
<1> QED
  BY <1>1, <1>2, <1>3, <1>4, <1>5, <1>6, <1>7, Zenon DEF PipelineNext, Normalize,
     StorePolicies, Done

(* What the indexes give depends on nothing else.                          *)
LEMMA BuiltKept ==
    ASSUME UNCHANGED <<docVars, source>>
    PROVE  BuiltPips' = BuiltPips
  BY DEF BuiltPips, PipItems, Activation, RefIndex, docVars

(* Every step keeps the answer that of the indexes and the PIP document in *)
(* the store.                                                              *)
LEMMA AnswerStep ==
    ASSUME ServingInv, [PipelineNext]_pipelineVars
    PROVE  AnswerInv'
<1>0. phase # "serve" => answer = NoAnswer
  BY Zenon DEF ServingInv, AnswerInv
<1>1. CASE Pull \/ Refuse \/ MergeGlobalAccess \/ MergeRule \/ Serve \/ Crash
  <2>1. answer' = NoAnswer
    BY <1>0, <1>1, Zenon DEF Pull, Refuse, MergeGlobalAccess, MergeRule, Reads, Serve, Crash
  <2> QED
    BY <2>1, Zenon DEF AnswerInv
<1>2. CASE StorePips
  BY <1>2, Zenon DEF StorePips, Idle, vars, AnswerInv
<1>3. ASSUME NEW req \in AskedBy[source.clients], Ask(req)
      PROVE  AnswerInv'
  <2>1. req \in Requests
    BY SourceAssumption, Zenon DEF ServingInv
  <2>2. Authorize(Enrich(pips, req)) /\ pips' = pips
    BY <1>3, Zenon DEF Ask, newVars
  <2>3. /\ request' = Enrich(pips', req) /\ phase' = "serve" /\ UNCHANGED docVars
        /\ answer' = Canonical(Enrich(pips, req))
    BY <2>2, Zenon DEF Authorize
  <2>4. Canonical(Enrich(pips, req))' = Canonical(Enrich(pips, req))
    BY <2>2, <2>3, CanonicalKept, Zenon
  <2> QED
    BY <2>1, <2>3, <2>4, Zenon DEF AnswerInv
<1>4. CASE Reply
  BY <1>4, Zenon DEF Reply, AnswerInv
<1>5. CASE UNCHANGED <<vars, pips>>
  <2>1. Canonical(request)' = Canonical(request)
    BY <1>5, CanonicalKept, Zenon DEF vars
  <2> QED
    BY <1>5, <2>1, Zenon DEF ServingInv, AnswerInv, vars
<1> QED
  BY <1>1, <1>2, <1>3, <1>4, <1>5, Zenon
     DEF PipelineNext, Normalize, StorePolicies, Done, Check, pipelineVars, newVars

(* Every step keeps the invariant.                                         *)
LEMMA StepInv == ServingInv /\ [PipelineNext]_pipelineVars => ServingInv'
<1> SUFFICES ASSUME ServingInv, [PipelineNext]_pipelineVars PROVE ServingInv'
  BY Zenon
<1>1. UNCHANGED source
  BY Zenon DEF PipelineNext, pipelineVars, newVars, Pull, Normalize, StorePolicies, Crash,
         StorePips, Ask, Check, Done
<1>2. (phase = "serve" => nextPips = BuiltPips)'
  <2>1. CASE StorePolicies
    <3>1. UNCHANGED docVars
      BY <2>1, Zenon DEF StorePolicies, Serve
    <3> QED
      BY <1>1, <2>1, <3>1, BuiltKept, Zenon DEF StorePolicies
  <2>2. CASE Pull \/ Normalize \/ Crash
    <3>1. phase' # "serve"
      BY <2>2, Zenon DEF Pull, Normalize, Refuse, MergeGlobalAccess, MergeRule, Reads, Crash
    <3> QED
      BY <3>1, Zenon
  <2>3. CASE UNCHANGED <<docVars, phase, nextPips>>
    BY <1>1, <2>3, BuiltKept, Zenon DEF ServingInv
  <2> QED
    BY <2>1, <2>2, <2>3, Zenon DEF PipelineNext, pipelineVars, newVars, vars, StorePips, Ask,
                            Authorize, Check, Done, Reply
<1> QED
  BY <1>1, <1>2, IndexStep, AnswerStep, Zenon DEF ServingInv

(* It holds always.                                                        *)
LEMMA Invariance == PipelineSpec => []ServingInv
  BY InitInv, StepInv, PTL DEF PipelineSpec

-----------------------------------------------------------------------------
(***************************************************************************)
(* The evaluator: what a condition allows it allows in every context that  *)
(* keeps what it reads, where failed PIPs may be anything.                 *)
(***************************************************************************)

(* What a condition reads through a reference in one context it reads in   *)
(* the other one too, unless the reference is to a PIP that failed.        *)
Kept(ref, c1, c2) ==
    \/ IsFailedPipRef(ref, c1)
    \/ ~IsFailedPipRef(ref, c2) /\ RefValue(ref, c2) = RefValue(ref, c1)

(* All that a condition reads is kept.                                     *)
AllKept(node, c1, c2) == \A ref \in Refs(node) : Kept(ref, c1, c2)

(* An argument of a node is a node, and its references are the node's.     *)
LEMMA ArgRefs ==
    ASSUME NEW node \in Nodes, "op" \in DOMAIN node, NEW i \in 1..Len(node.args)
    PROVE  node.args[i] \in Nodes /\ Refs(node.args[i]) \subseteq Refs(node)
<1>1. node.args \in Seq(Nodes)
  BY NodesAssumption, Zenon
<1>2. node.args[i] \in Nodes /\ node.args[i] \in Range(node.args)
  BY <1>1 DEF Range
<1>3. Refs(node) = UNION {Refs(arg) : arg \in Range(node.args)}
  BY NodesAssumption
<1> QED
  BY <1>2, <1>3, Zenon

(* An operand keeps its value, unless it had none.                         *)
LEMMA ArgKept ==
    ASSUME NEW arg \in Nodes, NEW c1, NEW c2, AllKept(arg, c1, c2)
    PROVE  ArgValue(arg, c1) = Undefined \/ ArgValue(arg, c2) = ArgValue(arg, c1)
<1>1. CASE "ref" \in DOMAIN arg
  <2>1. Kept(arg.ref, c1, c2)
    <3>1. Refs(arg) = {arg.ref}
      BY <1>1, NodesAssumption
    <3> QED
      BY <3>1, Zenon DEF AllKept
  <2> QED
    BY <1>1, <2>1, Zenon DEF Kept, ArgValue
<1>2. CASE "ref" \notin DOMAIN arg
  BY <1>2, Zenon DEF ArgValue
<1> QED
  BY <1>1, <1>2, Zenon

(* An operator holds of no undefined operand, so it keeps holding.         *)
LEMMA OperatorKept ==
    ASSUME NEW op \in LeafOps, NEW l1, NEW r1, NEW d1, NEW l2, NEW r2, NEW d2,
           l1 = Undefined \/ l2 = l1,
           op \in Binary => r1 = Undefined \/ r2 = r1,
           op = "has_access" => d1 = Undefined \/ d2 = d1,
           OperatorHolds(op, l1, r1, d1)
    PROVE  OperatorHolds(op, l2, r2, d2)
<1>1. l2 = l1 /\ l1 # Undefined
  BY Zenon DEF OperatorHolds
<1>2. CASE op \in Binary
  <2>1. r2 = r1
    BY <1>2, Zenon DEF OperatorHolds
  <2>2. op # "has_access"
    BY <1>2, Zenon DEF Binary, Ordered
  <2> QED
    BY <1>1, <1>2, <2>1, <2>2, Zenon DEF OperatorHolds
<1>3. CASE op = "has_access"
  <2>1. d1 # Undefined
    BY <1>3 DEF OperatorHolds, Binary, Ordered, HasAccess, IsNumeric, IsText, Undefined
  <2>2. d2 = d1
    BY <1>3, <2>1, Zenon
  <2> QED
    BY <1>1, <1>3, <2>2, Zenon DEF OperatorHolds, Binary, Ordered
<1>4. CASE op \in Unary
  BY <1>1, <1>4, Zenon DEF OperatorHolds, Unary, Binary, Ordered
<1> QED
  BY <1>2, <1>3, <1>4, Zenon DEF LeafOps

(* A leaf that allows keeps allowing.                                      *)
LEMMA LeafKept ==
    ASSUME NEW node \in Nodes, NEW c1, NEW c2, AllKept(node, c1, c2), LeafAllows(node, c1)
    PROVE  LeafAllows(node, c2)
<1>1. CASE "const" \in DOMAIN node /\ node.const = Boolean(TRUE)
  BY <1>1, Zenon DEF LeafAllows
<1>2. CASE /\ "op" \in DOMAIN node /\ node.op \in LeafOps
           /\ OperatorHolds(node.op, ArgValue(node.args[1], c1), ArgValue(node.args[2], c1),
                            ArgValue(node.args[4], c1))
  <2>1. node.args \in Seq(Nodes) /\ Len(node.args) >= Arity(node.op)
    BY <1>2, NodesAssumption, Zenon
  <2>2. ASSUME NEW i \in 1..Len(node.args)
        PROVE  \/ ArgValue(node.args[i], c1) = Undefined
               \/ ArgValue(node.args[i], c2) = ArgValue(node.args[i], c1)
    <3>1. node.args[i] \in Nodes /\ AllKept(node.args[i], c1, c2)
      BY <1>2, ArgRefs, Zenon DEF AllKept
    <3> QED
      BY <3>1, ArgKept, Zenon
  <2>3. /\ 1 \in 1..Len(node.args)
        /\ node.op \in Binary => 2 \in 1..Len(node.args)
        /\ node.op = "has_access" => 4 \in 1..Len(node.args)
    BY <1>2, <2>1 DEF Arity, LeafOps, Unary, Binary, Ordered
  <2>4. OperatorHolds(node.op, ArgValue(node.args[1], c2), ArgValue(node.args[2], c2),
                      ArgValue(node.args[4], c2))
    BY <1>2, <2>2, <2>3, OperatorKept, SMTT(30)
  <2> QED
    BY <1>2, <2>4, Zenon DEF LeafAllows
<1> QED
  BY <1>1, <1>2, Zenon DEF LeafAllows

(* Without a failed PIP among the references of a node, what it reads is   *)
(* kept the other way round too: this is what the guard of "not" is for.   *)
LEMMA KeptBack ==
    ASSUME NEW node, NEW c1, NEW c2, AllKept(node, c1, c2), ~ArgHasFailedPipRef(node, c1)
    PROVE  AllKept(node, c2, c1) /\ ~ArgHasFailedPipRef(node, c2)
  BY Zenon DEF AllKept, Kept, ArgHasFailedPipRef

(* The arguments of an operator.                                           *)
LEMMA ArgsKept ==
    ASSUME NEW node \in Nodes, "op" \in DOMAIN node, NEW c1, NEW c2, AllKept(node, c1, c2)
    PROVE  /\ \A arg \in Range(node.args) : arg \in Nodes /\ AllKept(arg, c1, c2)
           /\ node.args[1] \in Range(node.args)
<1>1. node.args \in Seq(Nodes) /\ Len(node.args) >= Arity(node.op)
  BY NodesAssumption, Zenon
<1>2. 1 \in 1..Len(node.args)
  BY <1>1 DEF Arity
<1>3. Range(node.args) = {node.args[i] : i \in 1..Len(node.args)}
  BY <1>1 DEF Range
<1> QED
  BY <1>1, <1>2, <1>3, ArgRefs, Zenon DEF AllKept

(* The inner level of the evaluator, whose arguments are leaves.           *)
LEMMA ArgAllowsKept ==
    ASSUME NEW node \in Nodes, NEW c1, NEW c2, AllKept(node, c1, c2), ArgAllows(node, c1)
    PROVE  ArgAllows(node, c2)
<1>1. CASE LeafAllows(node, c1)
  BY <1>1, LeafKept, Zenon DEF ArgAllows
<1>2. CASE "op" \in DOMAIN node /\ ~LeafAllows(node, c1)
  <2>1. \A arg \in Range(node.args) : LeafAllows(arg, c1) => LeafAllows(arg, c2)
    BY <1>2, ArgsKept, LeafKept, Zenon
  <2>2. ~ArgHasFailedPipRef(node.args[1], c1) =>
           /\ ~ArgHasFailedPipRef(node.args[1], c2)
           /\ LeafAllows(node.args[1], c2) => LeafAllows(node.args[1], c1)
    BY <1>2, ArgsKept, KeptBack, LeafKept
  <2> QED
    BY <1>2, <2>1, <2>2, Zenon DEF ArgAllows, Combined
<1> QED
  BY <1>1, <1>2, Zenon DEF ArgAllows, Combined

(* The outer level.                                                        *)
LEMMA AstAllowsKept ==
    ASSUME NEW node \in Nodes, NEW c1, NEW c2, AllKept(node, c1, c2), AstAllows(node, c1)
    PROVE  AstAllows(node, c2)
<1>1. CASE LeafAllows(node, c1)
  BY <1>1, LeafKept, Zenon DEF AstAllows
<1>2. CASE "op" \in DOMAIN node /\ ~LeafAllows(node, c1)
  <2>1. \A arg \in Range(node.args) : ArgAllows(arg, c1) => ArgAllows(arg, c2)
    BY <1>2, ArgsKept, ArgAllowsKept, Zenon
  <2>2. ~ArgHasFailedPipRef(node.args[1], c1) =>
           /\ ~ArgHasFailedPipRef(node.args[1], c2)
           /\ ArgAllows(node.args[1], c2) => ArgAllows(node.args[1], c1)
    BY <1>2, ArgsKept, KeptBack, ArgAllowsKept
  <2> QED
    BY <1>2, <2>1, <2>2, Zenon DEF AstAllows, Combined
<1> QED
  BY <1>1, <1>2, Zenon DEF AstAllows, Combined

(* A path of one segment is looked up the same way on the fast path.       *)
LEMMA SimpleValue ==
    ASSUME NEW arg \in Nodes, SimpleArg(arg), NEW context
    PROVE  SimpleArgValue(arg, context) = ArgValue(arg, context)
<1>1. CASE "const" \in DOMAIN arg
  BY <1>1, NodesAssumption DEF SimpleArgValue, ArgValue
<1>2. CASE "const" \notin DOMAIN arg
  <2>1. /\ "ref" \in DOMAIN arg /\ arg.ref.scope \in {"resource", "subject"}
        /\ Len(arg.ref.path) = 1
    BY <1>2, Zenon DEF SimpleArg
  <2>2. \A base : PathLookup(base, arg.ref.path) = Get(base, arg.ref.path[1], Null)
    BY <2>1 DEF PathLookup, Inner
  <2>3. arg.ref.scope = "resource" =>
          RefValue(arg.ref, context) = Get(context.resource, arg.ref.path[1], Null)
    BY <2>2, Zenon DEF RefValue
  <2>4. arg.ref.scope = "subject" =>
          RefValue(arg.ref, context) = Get(context.subject, arg.ref.path[1], Null)
    BY <2>2, Zenon DEF RefValue
  <2> QED
    BY <1>2, <2>1, <2>3, <2>4, Zenon DEF SimpleArgValue, ArgValue
<1> QED
  BY <1>1, <1>2, Zenon

(* The fast path.                                                          *)
LEMMA SimpleKept ==
    ASSUME NEW node \in Nodes, NEW c1, NEW c2, AllKept(node, c1, c2), SimpleAllows(node, c1)
    PROVE  SimpleAllows(node, c2)
<1>1. "op" \in DOMAIN node /\ node.op \in {"eq", "neq"}
  BY Zenon DEF SimpleAllows
<1>2. node.args \in Seq(Nodes) /\ Len(node.args) >= 2
  BY <1>1, NodesAssumption, Zenon DEF Arity, Binary
<1>3. ASSUME NEW i \in {1, 2}, SimpleArg(node.args[i])
      PROVE  \/ SimpleArgValue(node.args[i], c1) = Undefined
             \/ SimpleArgValue(node.args[i], c2) = SimpleArgValue(node.args[i], c1)
  <2>1. node.args[i] \in Nodes /\ AllKept(node.args[i], c1, c2)
    BY <1>1, <1>2, ArgRefs DEF AllKept
  <2> QED
    BY <1>3, <2>1, ArgKept, SimpleValue
<1>4. /\ SimpleArgValue(node.args[1], c2) = SimpleArgValue(node.args[1], c1)
      /\ SimpleArgValue(node.args[2], c2) = SimpleArgValue(node.args[2], c1)
  BY <1>3, Zenon DEF SimpleAllows
<1> QED
  BY <1>4, Zenon DEF SimpleAllows

(* A condition that allows keeps allowing.                                 *)
LEMMA ConditionKept ==
    ASSUME NEW node \in Nodes, NEW c1, NEW c2, AllKept(node, c1, c2), ConditionAllows(node, c1)
    PROVE  ConditionAllows(node, c2)
  BY SimpleKept, AstAllowsKept, Zenon DEF ConditionAllows

-----------------------------------------------------------------------------
(* What a rule reads of the subject is kept, or its condition is none.     *)
RuleKept(rule, c1, c2) == rule.condition \notin {True, False} => AllKept(rule.condition, c1, c2)

(* Requests that differ in their contexts only.                            *)
SameKeys(r1, r2) ==
    /\ r2.resourceType = r1.resourceType /\ r2.operation = r1.operation
    /\ r2.roles = r1.roles /\ r2.ignoreRls = r1.ignoreRls

(* Up to its conditions, the decision depends on the keys alone.           *)
LEMMA SameCandidates ==
    ASSUME NEW r1, NEW r2, SameKeys(r1, r2)
    PROVE  /\ WildcardMatches(r2) = WildcardMatches(r1)
           /\ OlsRoles(r2) = OlsRoles(r1)
           /\ CandidateRules(r2) = CandidateRules(r1)
  BY DEF SameKeys, WildcardMatches, OlsRoles, CandidateRules

(* A rule that holds keeps holding.                                        *)
LEMMA RuleHoldsKept ==
    ASSUME NEW rule \in Rules, NEW c1, NEW c2, RuleKept(rule, c1, c2), RuleHolds(rule.condition, c1)
    PROVE  RuleHolds(rule.condition, c2)
<1>1. rule.condition \in Conditions \cup {True, False}
  BY Zenon DEF Rules
<1>2. rule.condition \notin {True, False} => rule.condition \in Nodes
  BY <1>1, ConditionAssumption, Zenon
<1> QED
  BY <1>2, ConditionKept, Zenon DEF RuleHolds, RuleKept

(* A request that is allowed stays allowed when what its rules read is     *)
(* kept,                                                                   *)
LEMMA AllowedKept ==
    ASSUME NEW r1, NEW r2, SameKeys(r1, r2), CandidateRules(r1) \subseteq Rules,
           \A rule \in CandidateRules(r1) : RuleKept(rule, r1.context, r2.context),
           Decided(r1).allow
    PROVE  Decided(r2).allow
<1>1. GrantedRules(r1) \subseteq GrantedRules(r2)
  BY SameCandidates, RuleHoldsKept, Zenon DEF GrantedRules
<1> QED
  BY <1>1, SameCandidates, Zenon DEF Decided, Decision, SameKeys

(* and is decided alike when what they read is kept both ways.             *)
LEMMA DecidedAlike ==
    ASSUME NEW r1, NEW r2, SameKeys(r1, r2), CandidateRules(r1) \subseteq Rules,
           \A rule \in CandidateRules(r1) : /\ RuleKept(rule, r1.context, r2.context)
                                           /\ RuleKept(rule, r2.context, r1.context)
    PROVE  Decided(r2) = Decided(r1) /\ GrantedRules(r2) = GrantedRules(r1)
<1>1. GrantedRules(r2) = GrantedRules(r1)
  BY SameCandidates, RuleHoldsKept, Zenon DEF GrantedRules
<1> QED
  BY <1>1, SameCandidates, Zenon DEF Decided, SameKeys

-----------------------------------------------------------------------------
(***************************************************************************)
(* Values: the attributes of the enriched subject.                         *)
(***************************************************************************)

(* Two objects have the same at a key.                                     *)
Agree(f, g, key) ==
    /\ key \in DOMAIN f <=> key \in DOMAIN g
    /\ key \in DOMAIN f => f[key] = g[key]

(* Lookups at a key and along a path depend on the key and on the first    *)
(* segment.                                                                *)
LEMMA GetAgrees ==
    ASSUME NEW f, NEW g, NEW key, Agree(f, g, key), NEW default
    PROVE  Get(Object(f), key, default) = Get(Object(g), key, default)
  BY Zenon DEF Agree, Get, Object

LEMMA PathAgrees ==
    ASSUME NEW f, NEW g, NEW path \in Seq(STRING), path # <<>>, Agree(f, g, path[1])
    PROVE  PathLookup(Object(f), path) = PathLookup(Object(g), path)
<1>1. \A default : Get(Object(f), path[1], default) = Get(Object(g), path[1], default)
  BY GetAgrees
<1>2. CASE Len(path) = 1
  BY <1>1, <1>2 DEF PathLookup, Inner
<1>3. CASE Len(path) # 1
  <2>0. 1 < Len(path)
    BY <1>3
  <2>1. Inner(Object(f), path, 1) = Inner(Object(g), path, 1)
    BY <1>1, <2>0, Zenon DEF Inner
  <2> QED
    BY <2>1 DEF PathLookup
<1> QED
  BY <1>2, <1>3, Zenon

(* Contexts that differ in the subject only.                               *)
SameButSubject(c1, c2) ==
    /\ c2.resource = c1.resource
    /\ c2.aliases = c1.aliases
    /\ c1.subject = Object(c1.subject[2])
    /\ c2.subject = Object(c2.subject[2])
    /\ Agree(c1.subject[2], c2.subject[2], "entitledResources")

(* A reference reads the same when the attribute it names is the same.     *)
LEMMA RefAgrees ==
    ASSUME NEW node \in Nodes, NEW ref \in Refs(node), NEW c1, NEW c2, SameButSubject(c1, c2),
           ref.scope = "subject" => Agree(c1.subject[2], c2.subject[2], ref.path[1])
    PROVE  Kept(ref, c1, c2) /\ Kept(ref, c2, c1)
<1>0. /\ ref.scope \in {"entitlements", "resource", "subject"}
      /\ ref.scope = "subject" => ref.path \in Seq(STRING) /\ ref.path # <<>>
  BY NodesAssumption, Zenon
<1>1. IsFailedPipRef(ref, c1) <=> IsFailedPipRef(ref, c2)
  BY Zenon DEF IsFailedPipRef, SameButSubject, Agree
<1>2. CASE ref.scope = "subject"
  <2>1. PathLookup(c1.subject, ref.path) = PathLookup(c2.subject, ref.path)
    BY <1>0, <1>2, PathAgrees DEF SameButSubject
  <2> QED
    BY <1>1, <1>2, <2>1, Zenon DEF Kept, RefValue
<1>3. CASE ref.scope = "resource"
  BY <1>1, <1>3, Zenon DEF Kept, RefValue, SameButSubject
<1>4. CASE ref.scope = "entitlements"
  <2>1. Get(c1.subject, "entitledResources", EmptyObject)
          = Get(c2.subject, "entitledResources", EmptyObject)
    BY GetAgrees DEF SameButSubject
  <2>2. EntitledIds(ref, c1.subject) = EntitledIds(ref, c2.subject)
    BY <2>1, Zenon DEF EntitledIds
  <2> QED
    BY <1>1, <1>4, <2>2, Zenon DEF Kept, RefValue
<1> QED
  BY <1>0, <1>2, <1>3, <1>4, Zenon

-----------------------------------------------------------------------------
(* The subject, had failed PIPs answered.                                  *)
LEMMA ResolvedAgrees ==
    ASSUME NEW subject, NEW answers, NEW key, key \notin DOMAIN answers
    PROVE  /\ Resolved(subject, answers) = Object(Resolved(subject, answers)[2])
           /\ Agree(subject[2], Resolved(subject, answers)[2], key)
           /\ DOMAIN subject[2] \subseteq DOMAIN Resolved(subject, answers)[2]
  BY Zenon DEF Resolved, Object, Agree

(* What a context becomes: the attributes of the subject, and the rest.    *)
Entitled(doc, context) == IF doc.entitlements THEN context.entitlements ELSE EmptyObject

(* The attributes that enriched_subject makes.                             *)
Attributes(context, doc, names) ==
    Overlay(Overlay(context.base,
                    Overlay(RequestLevel(doc, context), GeneralValues(doc, names, context.services))),
            [key \in {"entitledResources"} |-> Entitled(doc, context)])

(* Contexts with the same resource and the same sources of attributes.     *)
SameSources(c1, c2) ==
    /\ c2.resource = c1.resource /\ c2.base = c1.base /\ c2.claims = c1.claims
    /\ c2.headers = c1.headers /\ c2.services = c1.services /\ c2.entitlements = c1.entitlements

(* Enriched changes the subject and the known aliases, nothing else.       *)
LEMMA EnrichedIs ==
    ASSUME NEW context, ContextFields \subseteq DOMAIN context, NEW doc, NEW names
    PROVE  LET c == Enriched(context, doc, names) IN
           /\ c.subject = Object(Attributes(context, doc, names))
           /\ c.subject[2] = Attributes(context, doc, names)
           /\ c.aliases = doc.aliasSet
           /\ SameSources(context, c)
           /\ DOMAIN c = DOMAIN context
  BY Zenon DEF Enriched, ContextFields, Attributes, Entitled, SameSources, KnownAliases, Object

(* The attributes depend on the sources alone, so enriching again changes  *)
(* nothing.                                                                *)
LEMMA AttributesSame ==
    ASSUME NEW c1, NEW c2, SameSources(c1, c2), NEW doc, NEW names
    PROVE  Attributes(c2, doc, names) = Attributes(c1, doc, names)
  BY Zenon DEF SameSources, Attributes, RequestLevel, Entitled

(* object.union: the upper object counts, and a value on both sides is     *)
(* merged.                                                                 *)
LEMMA OverlayIs ==
    ASSUME NEW lower, NEW upper, NEW key
    PROVE  /\ key \in DOMAIN Overlay(lower, upper) <=> key \in DOMAIN lower \/ key \in DOMAIN upper
           /\ key \in DOMAIN upper /\ key \notin DOMAIN lower => Overlay(lower, upper)[key] = upper[key]
           /\ key \in DOMAIN upper /\ key \in DOMAIN lower =>
                 Overlay(lower, upper)[key] = Merged(lower[key], upper[key])
           /\ key \in DOMAIN lower /\ key \notin DOMAIN upper =>
                 Overlay(lower, upper)[key] = lower[key]
  BY Zenon DEF Overlay

LEMMA OverlayLacks ==
    ASSUME NEW lower, NEW upper, NEW key, key \notin DOMAIN lower, key \notin DOMAIN upper
    PROVE  key \notin DOMAIN Overlay(lower, upper)
  BY Zenon DEF Overlay

LEMMA OverlayAgrees ==
    ASSUME NEW l1, NEW l2, NEW u1, NEW u2, NEW key, Agree(l1, l2, key), Agree(u1, u2, key)
    PROVE  Agree(Overlay(l1, u1), Overlay(l2, u2), key)
<1>1. /\ key \in DOMAIN Overlay(l1, u1) <=> key \in DOMAIN l1 \/ key \in DOMAIN u1
      /\ key \in DOMAIN u1 /\ key \notin DOMAIN l1 => Overlay(l1, u1)[key] = u1[key]
      /\ key \in DOMAIN u1 /\ key \in DOMAIN l1 => Overlay(l1, u1)[key] = Merged(l1[key], u1[key])
      /\ key \in DOMAIN l1 /\ key \notin DOMAIN u1 => Overlay(l1, u1)[key] = l1[key]
  BY OverlayIs, Zenon
<1>2. /\ key \in DOMAIN Overlay(l2, u2) <=> key \in DOMAIN l2 \/ key \in DOMAIN u2
      /\ key \in DOMAIN u2 /\ key \notin DOMAIN l2 => Overlay(l2, u2)[key] = u2[key]
      /\ key \in DOMAIN u2 /\ key \in DOMAIN l2 => Overlay(l2, u2)[key] = Merged(l2[key], u2[key])
      /\ key \in DOMAIN l2 /\ key \notin DOMAIN u2 => Overlay(l2, u2)[key] = l2[key]
  BY OverlayIs, Zenon
<1> QED
  BY <1>1, <1>2, Zenon DEF Agree

(* Where the GENERAL PIPs' values agree, the attributes do.                *)
LEMMA AttributesAgree ==
    ASSUME NEW context, NEW doc, NEW n1, NEW n2, NEW key,
           Agree(GeneralValues(doc, n1, context.services), GeneralValues(doc, n2, context.services), key)
    PROVE  Agree(Attributes(context, doc, n1), Attributes(context, doc, n2), key)
<1>1. \A f : Agree(f, f, key)
  BY Zenon DEF Agree
<1> QED
  BY <1>1, OverlayAgrees, Zenon DEF Attributes

(* The subject always has entitledResources.                               *)
LEMMA EntitledAttribute ==
    ASSUME NEW context, NEW doc, NEW names
    PROVE  "entitledResources" \in DOMAIN Attributes(context, doc, names)
  BY OverlayIs DEF Attributes

(* The GENERAL PIPs that answer for an alias.                              *)
Answering(doc, names, services, alias) ==
    {name \in names \cap DOMAIN doc.general :
        /\ doc.general[name].alias # "" /\ doc.general[name].alias = alias
        /\ GeneralPipValue(doc.general[name], services) # Undefined}

(* The value that one of several answering PIPs gives.                     *)
ChosenValue(doc, services, names) ==
    GeneralPipValue(doc.general[CHOOSE name \in names : TRUE], services)

(* An alias has a value if some PIP answers for it, and then its answer.   *)
LEMMA GeneralValueIs ==
    ASSUME NEW doc, NEW names, NEW services, NEW alias
    PROVE  /\ alias \in DOMAIN GeneralValues(doc, names, services) <=>
                 Answering(doc, names, services, alias) # {}
           /\ alias \in DOMAIN GeneralValues(doc, names, services) =>
                 GeneralValues(doc, names, services)[alias] =
                   ChosenValue(doc, services, Answering(doc, names, services, alias))
  BY Zenon DEF GeneralValues, Answering, ChosenValue

LEMMA NobodyAnswers ==
    ASSUME NEW doc, NEW names, NEW services, NEW alias,
           Answering(doc, names, services, alias) = {}
    PROVE  alias \notin DOMAIN GeneralValues(doc, names, services)
  BY Zenon DEF GeneralValues, Answering

(* The value depends on the answering PIPs alone.                          *)
LEMMA GeneralAgree ==
    ASSUME NEW doc, NEW n1, NEW n2, NEW services, NEW alias,
           Answering(doc, n1, services, alias) = Answering(doc, n2, services, alias)
    PROVE  Agree(GeneralValues(doc, n1, services), GeneralValues(doc, n2, services), alias)
  BY GeneralValueIs DEF Agree

(* Which GENERAL PIPs are called makes no difference to the entitlements,  *)
(* if none has their alias.                                                *)
LEMMA EntitlementsAgree ==
    ASSUME NEW context, NEW doc, EntitlementsApart(doc), NEW n1, NEW n2
    PROVE  Agree(Attributes(context, doc, n1), Attributes(context, doc, n2), "entitledResources")
<1>1. Answering(doc, n1, context.services, "entitledResources") =
        Answering(doc, n2, context.services, "entitledResources")
  BY Zenon DEF Answering, EntitlementsApart
<1> QED
  BY <1>1, GeneralAgree, AttributesAgree, Zenon

-----------------------------------------------------------------------------
(***************************************************************************)
(* Requests: what their rules read, and the answer.                        *)
(***************************************************************************)

(* A request of a client, with the values of its PIPs.                     *)
LEMMA EnrichIs ==
    ASSUME NEW req, RequestFields \subseteq DOMAIN req, Keyed(req),
           NEW document, NEW names, NEW r, r = WithPips(document, names, req)
    PROVE  /\ r.context = Enriched(req.context, document.doc, names)
           /\ SameKeys(req, r)
           /\ r.admitted = req.admitted /\ r.authenticated = req.authenticated
           /\ DOMAIN r = DOMAIN req
           /\ Keyed(r)
<1>2. /\ r.context = Enriched(req.context, document.doc, names)
      /\ DOMAIN r = DOMAIN req
      /\ \A field \in RequestFields \ {"context"} : r[field] = req[field]
  BY Zenon DEF WithPips, RequestFields
<1>3. SameKeys(req, r) /\ r.admitted = req.admitted /\ r.authenticated = req.authenticated
  BY <1>2, Zenon DEF SameKeys, RequestFields
<1>4. Keyed(r)
  BY <1>3, Zenon DEF Keyed, SameKeys
<1> QED
  BY <1>2, <1>3, <1>4, Zenon

(* The rules that a request meets are rules of the index, and what their   *)
(* conditions read of the subject is in the reference index.               *)
LEMMA CandidatesTyped ==
    ASSUME IndexInv, NEW req, Keyed(req)
    PROVE  /\ CandidateRules(req) \subseteq Rules
           /\ \A rule \in CandidateRules(req) : SubjectRefs(rule) \subseteq ScopedRefs(req)
<1>0. /\ req.resourceType \in ResourceTypes /\ req.operation \in Operations
      /\ req.roles \subseteq Roles
      /\ All \in ResourceTypes /\ All \in Operations /\ All \in Roles
  BY KeyAssumption, Zenon DEF Keyed
<1>1. SUFFICES ASSUME NEW rule \in CandidateRules(req)
               PROVE  rule \in Rules /\ SubjectRefs(rule) \subseteq ScopedRefs(req)
  BY Zenon
<1>2. PICK rt \in {req.resourceType, All}, op \in {req.operation, All},
           role \in OlsRoles(req) \cup {All} : rule \in rls[rt][op][role]
  BY DEF CandidateRules
<1>3. rt \in ResourceTypes /\ op \in Operations /\ role \in Roles
  BY <1>0, Zenon DEF OlsRoles
<1>4. rule \in Rules
  BY <1>2, <1>3 DEF IndexInv, RlsInv
<1>5. SubjectRefs(rule) \subseteq RefIndex(rt, op)
  BY <1>2, <1>3, Zenon DEF RefIndex
<1> QED
  BY <1>4, <1>5 DEF ScopedRefs

(* A rule keeps what it says when the attributes it reads are kept.        *)
LEMMA RuleAgrees ==
    ASSUME NEW rule \in Rules, NEW c1, NEW c2, SameButSubject(c1, c2),
           \A key \in SubjectRefs(rule) \cup {""} : Agree(c1.subject[2], c2.subject[2], key)
    PROVE  RuleKept(rule, c1, c2) /\ RuleKept(rule, c2, c1)
<1> SUFFICES ASSUME rule.condition \notin {True, False}
             PROVE  AllKept(rule.condition, c1, c2) /\ AllKept(rule.condition, c2, c1)
  BY Zenon DEF RuleKept
<1>1. rule.condition \in Nodes
  BY ConditionAssumption, Zenon DEF Rules
<1>2. ASSUME NEW ref \in Refs(rule.condition)
      PROVE  Kept(ref, c1, c2) /\ Kept(ref, c2, c1)
  <2>1. ref.scope = "subject" => ref.path[1] \in SubjectRefs(rule) \cup {""}
    BY Zenon DEF SubjectRefs, ConditionRefs
  <2> QED
    BY <1>1, <2>1, RefAgrees, Zenon
<1> QED
  BY <1>2, Zenon DEF AllKept

(* A path that is not empty has a first segment.                           *)
LEMMA NonEmptyLen ==
    ASSUME NEW path \in Seq(STRING), path # <<>>
    PROVE  Len(path) >= 1
  OBVIOUS

(* A rule that holds keeps holding when the attributes it reads are kept   *)
(* or were those of failed PIPs.                                           *)
LEMMA RuleKeptIf ==
    ASSUME NEW rule \in Rules, NEW c1, NEW c2, SameButSubject(c1, c2),
           \A key \in SubjectRefs(rule) \cup {""} : \/ Agree(c1.subject[2], c2.subject[2], key)
                                                   \/ key \in FailedPips(c1)
    PROVE  RuleKept(rule, c1, c2)
<1> SUFFICES ASSUME rule.condition \notin {True, False}, NEW ref \in Refs(rule.condition)
             PROVE  Kept(ref, c1, c2)
  BY Zenon DEF RuleKept, AllKept
<1>1. rule.condition \in Nodes
  BY ConditionAssumption, Zenon DEF Rules
<1>2. ref.scope = "subject" => ref.path[1] \in SubjectRefs(rule) \cup {""}
  BY Zenon DEF SubjectRefs, ConditionRefs
<1>3. CASE ref.scope = "subject" /\ ref.path[1] \in FailedPips(c1)
  <2>1. ref.path \in Seq(STRING) /\ ref.path # <<>>
    BY <1>1, <1>3, NodesAssumption, Zenon
  <2>2. Len(ref.path) >= 1
    BY <2>1, NonEmptyLen, Zenon
  <2> QED
    BY <1>3, <2>2, Zenon DEF Kept, IsFailedPipRef, FailedPips
<1>4. CASE ~(ref.scope = "subject" /\ ref.path[1] \in FailedPips(c1))
  BY <1>1, <1>2, <1>4, RefAgrees, Zenon
<1> QED
  BY <1>3, <1>4, Zenon

-----------------------------------------------------------------------------
(* The request being answered.                                             *)
LEMMA RequestIs ==
    ASSUME ServingInv, answer # NoAnswer
    PROVE  /\ Keyed(request)
           /\ answer = Canonical(request)
           /\ RequestFields \subseteq DOMAIN request
           /\ ContextFields \subseteq DOMAIN request.context
           /\ request.context.subject = Object(request.context.subject[2])
           /\ "entitledResources" \in DOMAIN request.context.subject[2]
           /\ request.context.subject[2] =
                Attributes(request.context, pips.doc, ActiveGeneral(pips, request))
           /\ request.context.aliases = pips.doc.aliasSet
<1>1. PICK req \in Requests : request = Enrich(pips, req)
  BY Zenon DEF ServingInv, AnswerInv
<1> DEFINE names == ActiveGeneral(pips, req)
<1>2. request = WithPips(pips, names, req)
  BY <1>1, Zenon DEF Enrich
<1> HIDE DEF names
<1>3. RequestFields \subseteq DOMAIN req /\ ContextFields \subseteq DOMAIN req.context /\ Keyed(req)
  BY RequestAssumption, Zenon DEF Keyed
<1>4. /\ request.context = Enriched(req.context, pips.doc, names)
      /\ SameKeys(req, request) /\ DOMAIN request = DOMAIN req /\ Keyed(request)
  BY <1>2, <1>3, EnrichIs
<1>6. /\ request.context.subject = Object(Attributes(req.context, pips.doc, names))
      /\ request.context.subject[2] = Attributes(req.context, pips.doc, names)
      /\ request.context.aliases = pips.doc.aliasSet
      /\ SameSources(req.context, request.context)
      /\ DOMAIN request.context = DOMAIN req.context
  BY <1>3, <1>4, EnrichedIs, SMTT(30)
<1>7. names = ActiveGeneral(pips, request)
  BY <1>4 DEF names, ActiveGeneral, SameKeys
<1>8. Attributes(req.context, pips.doc, names) = Attributes(request.context, pips.doc, names)
  BY <1>6, AttributesSame
<1>9. "entitledResources" \in DOMAIN request.context.subject[2]
  BY <1>6, EntitledAttribute, Zenon
<1> QED
  BY <1>3, <1>4, <1>6, <1>7, <1>8, <1>9, Zenon DEF ServingInv, AnswerInv

(* An allowed request was decided, and so was a denied one that is         *)
(* authenticated.                                                          *)
LEMMA AnswerDecided ==
    ASSUME ServingInv, Decides, answer.allow \/ request.authenticated
    PROVE  answer = Decided(request)
  BY RequestIs DEF Decides, Canonical, Decision

(* The same request, had failed PIPs answered.                             *)
LEMMA ResolvedIs ==
    ASSUME ServingInv, answer # NoAnswer, NEW failed \in SUBSET FailedPips(request.context),
           NEW answers \in [failed -> PipValues],
           NEW r, r = [request EXCEPT !.context.subject = Resolved(@, answers)]
    PROVE  /\ SameKeys(request, r)
           /\ SameButSubject(request.context, r.context)
           /\ \A key : key \notin failed =>
                 Agree(request.context.subject[2], r.context.subject[2], key)
           /\ DOMAIN request.context.subject[2] \subseteq DOMAIN r.context.subject[2]
<1>1. /\ RequestFields \subseteq DOMAIN request /\ ContextFields \subseteq DOMAIN request.context
      /\ request.context.subject = Object(request.context.subject[2])
      /\ "entitledResources" \in DOMAIN request.context.subject[2]
  BY RequestIs, Zenon
<1>2. r.context = [request.context EXCEPT !.subject = Resolved(@, answers)] /\ SameKeys(request, r)
  BY <1>1, Zenon DEF SameKeys, RequestFields
<1>3. /\ r.context.subject = Resolved(request.context.subject, answers)
      /\ r.context.resource = request.context.resource
      /\ r.context.aliases = request.context.aliases
  BY <1>1, <1>2, Zenon DEF ContextFields
<1>4. DOMAIN answers = failed /\ "entitledResources" \notin failed
  BY <1>1, Zenon DEF FailedPips
<1>5. \A key : key \notin failed => Agree(request.context.subject[2], r.context.subject[2], key)
  BY <1>3, <1>4, ResolvedAgrees, Zenon
<1>6. /\ r.context.subject = Object(r.context.subject[2])
      /\ DOMAIN request.context.subject[2] \subseteq DOMAIN r.context.subject[2]
  BY <1>3, <1>4, ResolvedAgrees
<1> QED
  BY <1>1, <1>2, <1>3, <1>4, <1>5, <1>6, Zenon DEF SameButSubject

-----------------------------------------------------------------------------
(***************************************************************************)
(* Decisions, failures and reasons.                                        *)
(***************************************************************************)

(***************************************************************************)
(* For every source, list of policies, PIP document and request: the       *)
(* indexes that normalize.go builds and the Rego that reads them answer as *)
(* the policies themselves say.                                            *)
(***************************************************************************)
THEOREM DecisionCorrect == PipelineSpec => []DecisionMeansPolicies
<1>1. ServingInv => DecisionMeansPolicies
  <2> SUFFICES ASSUME ServingInv, answer # NoAnswer, request.admitted, request.authenticated
               PROVE  answer = Expected(request)
    BY Zenon DEF DecisionMeansPolicies
  <2>1. Keyed(request) /\ answer = Canonical(request)
    BY RequestIs, Zenon
  <2>2. answer = Decided(request)
    BY <2>1, Zenon DEF Canonical
  <2> QED
    BY <2>1, <2>2, DecidedIsExpected, Zenon DEF ServingInv
<1> QED
  BY <1>1, Invariance, PTL

(* What is allowed without the values of failed PIPs is allowed with any.  *)
LEMMA FailedKept ==
    ASSUME ServingInv, Decides, answer.allow, NEW failed \in SUBSET FailedPips(request.context),
           NEW answers \in [failed -> PipValues]
    PROVE  Decided([request EXCEPT !.context.subject = Resolved(@, answers)]).allow
<1> DEFINE r == [request EXCEPT !.context.subject = Resolved(@, answers)]
           c1 == request.context
           c2 == r.context
<1>0. answer # NoAnswer
  BY Zenon DEF Decides
<1>1. /\ SameKeys(request, r) /\ SameButSubject(c1, c2)
      /\ \A key : key \notin failed => Agree(c1.subject[2], c2.subject[2], key)
      /\ DOMAIN c1.subject[2] \subseteq DOMAIN c2.subject[2]
  BY <1>0, ResolvedIs, Zenon
<1>2. Decided(request).allow
  BY AnswerDecided, Zenon
<1>3. Keyed(request) /\ CandidateRules(request) \subseteq Rules
  BY <1>0, RequestIs, CandidatesTyped, Zenon DEF ServingInv
<1> HIDE DEF r
<1>4. \A rule \in CandidateRules(request) : RuleKept(rule, c1, c2)
  <2>1. \A key : Agree(c1.subject[2], c2.subject[2], key) \/ key \in FailedPips(c1)
    BY <1>1, Zenon
  <2> QED
    BY <1>1, <1>3, <2>1, RuleKeptIf, Zenon
<1>5. Decided(r).allow
  BY <1>1, <1>2, <1>3, <1>4, AllowedKept, Zenon
<1> QED
  BY <1>5, Zenon DEF r

(***************************************************************************)
(* A failed PIP opens nothing: for every condition the parser can build    *)
(* and every value the PIP might have had, what rls.rego allows without    *)
(* the value it allows with it.                                            *)
(***************************************************************************)
THEOREM FailuresGrantNothing == PipelineSpec => []FailedPipNeverGrants
<1>1. ServingInv => FailedPipNeverGrants
  BY FailedKept, Zenon DEF FailedPipNeverGrants, Decides
<1> QED
  BY <1>1, Invariance, PTL

(* Values of PIPs that no rule in scope reads by name change no denial.    *)
LEMMA CauseNamed ==
    ASSUME ServingInv, Decides, request.authenticated, ~answer.allow,
           NEW failed \in SUBSET (FailedPips(request.context) \ {""}),
           NEW answers \in [failed -> PipValues],
           failed \cap ReasonNames(request) = {}
    PROVE  ~Decided([request EXCEPT !.context.subject = Resolved(@, answers)]).allow
<1> DEFINE r == [request EXCEPT !.context.subject = Resolved(@, answers)]
           c1 == request.context
           c2 == r.context
<1>0. answer # NoAnswer /\ failed \in SUBSET FailedPips(request.context)
  BY Zenon DEF Decides
<1>1. /\ SameKeys(request, r) /\ SameButSubject(c1, c2)
      /\ \A key : key \notin failed => Agree(c1.subject[2], c2.subject[2], key)
  BY <1>0, ResolvedIs, Zenon
<1>2. answer = Decided(request)
  BY AnswerDecided, Zenon
<1>3. /\ CandidateRules(request) \subseteq Rules
      /\ \A rule \in CandidateRules(request) : SubjectRefs(rule) \subseteq ScopedRefs(request)
  BY <1>0, RequestIs, CandidatesTyped, Zenon DEF ServingInv
<1> HIDE DEF r
<1>4. failed \cap ScopedRefs(request) = {} /\ "" \notin failed
  BY Zenon DEF ReasonNames, FailedPips
<1>5. \A rule \in CandidateRules(request) : RuleKept(rule, c1, c2) /\ RuleKept(rule, c2, c1)
  BY <1>1, <1>3, <1>4, RuleAgrees, Zenon
<1>6. Decided(r) = Decided(request)
  BY <1>1, <1>3, <1>5, DecidedAlike, Zenon
<1> QED
  BY <1>2, <1>6, Zenon DEF r

(***************************************************************************)
(* If the answer of failed PIPs would have turned a denial, the reason     *)
(* that indexed_rls_subject_refs gives names one of them, for whatever     *)
(* subset of them and whatever answers.                                    *)
(***************************************************************************)
THEOREM ReasonsNameCauses == PipelineSpec => []DenialNamesCause
<1>1. ServingInv => DenialNamesCause
  BY CauseNamed, Zenon DEF DenialNamesCause
<1> QED
  BY <1>1, Invariance, PTL

-----------------------------------------------------------------------------
(***************************************************************************)
(* The activation index.                                                   *)
(***************************************************************************)

(* The request being answered, with other PIPs of the same document called.*)
LEMMA ReEnriched ==
    ASSUME ServingInv, answer # NoAnswer, EntitlementsApart(pips.doc),
           NEW document, document.doc = pips.doc, NEW names,
           NEW r, r = WithPips(document, names, request)
    PROVE  /\ SameKeys(request, r)
           /\ r.admitted = request.admitted /\ r.authenticated = request.authenticated
           /\ r.context.subject[2] = Attributes(request.context, pips.doc, names)
           /\ SameButSubject(request.context, r.context)
<1>1. /\ Keyed(request)
      /\ RequestFields \subseteq DOMAIN request
      /\ ContextFields \subseteq DOMAIN request.context
      /\ request.context.subject = Object(request.context.subject[2])
      /\ request.context.subject[2] =
           Attributes(request.context, pips.doc, ActiveGeneral(pips, request))
      /\ request.context.aliases = pips.doc.aliasSet
  BY RequestIs, Zenon
<1>2. /\ r.context = Enriched(request.context, pips.doc, names)
      /\ SameKeys(request, r)
      /\ r.admitted = request.admitted /\ r.authenticated = request.authenticated
  BY <1>1, EnrichIs, SMTT(30)
<1>3. /\ r.context.subject = Object(Attributes(request.context, pips.doc, names))
      /\ r.context.subject[2] = Attributes(request.context, pips.doc, names)
      /\ r.context.aliases = pips.doc.aliasSet
      /\ SameSources(request.context, r.context)
  BY <1>1, <1>2, EnrichedIs, SMTT(30)
<1>4. Agree(request.context.subject[2], r.context.subject[2], "entitledResources")
  BY <1>1, <1>3, EntitlementsAgree, Zenon
<1> QED
  BY <1>1, <1>2, <1>3, <1>4, Zenon DEF SameButSubject, SameSources

(* The GENERAL PIPs that this load's document calls for a request are      *)
(* those whose alias a rule in scope reads.                                *)
LEMMA ActiveIs ==
    ASSUME ServingInv, phase = "serve", NEW req, Keyed(req)
    PROVE  ActiveGeneral(nextPips, req) =
             {name \in DOMAIN nextPips.doc.general : nextPips.doc.general[name].alias \in ScopedRefs(req)}
<1>0. /\ req.resourceType \in ResourceTypes /\ req.operation \in Operations
      /\ All \in ResourceTypes /\ All \in Operations
  BY KeyAssumption, Zenon DEF Keyed
<1>1. nextPips.activation = Activation(nextPips.doc.general)
  BY DEF ServingInv, BuiltPips
<1>2. \A rt \in ResourceTypes, op \in Operations :
         nextPips.activation[rt][op] =
           {name \in DOMAIN nextPips.doc.general : nextPips.doc.general[name].alias \in RefIndex(rt, op)}
  BY <1>1 DEF Activation
<1> QED
  BY <1>0, <1>2 DEF ActiveGeneral, ScopedRefs

(* A GENERAL PIP's alias is known, unless it is that of the entitlements.  *)
LEMMA AliasKnown ==
    ASSUME ServingInv, phase = "serve", NEW name \in DOMAIN nextPips.doc.general
    PROVE  nextPips.doc.general[name].alias \in nextPips.doc.aliasSet \cup {"entitledResources"}
<1> DEFINE doc == NormalizeItems(PipItems)
<1>1. nextPips.doc = ApplyEntitlementsOverride(doc, Pinned)
  BY DEF ServingInv, BuiltPips
<1>2. /\ DOMAIN doc.general =
            {PipItems[i].name : i \in {j \in DOMAIN PipItems : ResolvePipType(PipItems[j]) = "GENERAL"}}
      /\ \A n \in DOMAIN doc.general : doc.general[n].alias = n[2]
      /\ doc.aliasSet = {Alias(PipItems[i]) : i \in DOMAIN PipItems}
      /\ {"aliasSet", "general", "entitlements"} \subseteq DOMAIN doc
  <2>1. /\ DOMAIN doc.general =
             {PipItems[i].name : i \in {j \in DOMAIN PipItems : ResolvePipType(PipItems[j]) = "GENERAL"}}
        /\ doc.aliasSet = {Alias(PipItems[i]) : i \in DOMAIN PipItems}
        /\ {"aliasSet", "general", "entitlements"} \subseteq DOMAIN doc
    BY Zenon DEF NormalizeItems
  <2>2. \A n \in DOMAIN doc.general : doc.general[n].alias = n[2]
    BY Zenon DEF NormalizeItems, GeneralConfig
  <2> QED
    BY <2>1, <2>2, Zenon
<1> HIDE DEF doc
<1>3. /\ nextPips.doc.general = doc.general
      /\ doc.aliasSet \ {"entitledResources"} \subseteq nextPips.doc.aliasSet
  BY <1>1, <1>2, Zenon DEF ApplyEntitlementsOverride
<1> QED
  BY <1>2, <1>3 DEF Alias

(* No GENERAL PIP answers for an attribute without a name.                 *)
LEMMA NamelessAgree ==
    ASSUME NEW context, NEW doc, NEW n1, NEW n2
    PROVE  Agree(Attributes(context, doc, n1), Attributes(context, doc, n2), "")
<1>1. Answering(doc, n1, context.services, "") = Answering(doc, n2, context.services, "")
  BY Zenon DEF Answering
<1> QED
  BY <1>1, GeneralAgree, AttributesAgree, Zenon

-----------------------------------------------------------------------------
(* What the rules in scope read of the subject is the same with every      *)
(* GENERAL PIP called.                                                     *)
LEMMA ActivatedAgree ==
    ASSUME ServingInv, answer # NoAnswer, Loaded, EntitlementsApart(pips.doc), NEW r,
           r = WithPips(pips, DOMAIN pips.doc.general, request),
           NEW key \in ScopedRefs(request) \cup {""}
    PROVE  Agree(request.context.subject[2], r.context.subject[2], key)
<1> DEFINE names == ActiveGeneral(pips, request)
           every == DOMAIN pips.doc.general
           services == request.context.services
<1>1. /\ request.context.subject[2] = Attributes(request.context, pips.doc, names)
      /\ Keyed(request)
  BY RequestIs, Zenon
<1>2. r.context.subject[2] = Attributes(request.context, pips.doc, every)
  BY ReEnriched, Zenon
<1>3. names = {name \in every : pips.doc.general[name].alias \in ScopedRefs(request)}
  BY <1>1, ActiveIs, Zenon DEF Loaded, ServingInv, AnswerInv
<1> HIDE DEF names
<1>4. CASE key = ""
  BY <1>1, <1>2, <1>4, NamelessAgree, Zenon
<1>5. CASE key # ""
  <2>1. Answering(pips.doc, names, services, key) = Answering(pips.doc, every, services, key)
    BY <1>3, <1>5, Zenon DEF Answering
  <2> QED
    BY <1>1, <1>2, <2>1, GeneralAgree, AttributesAgree, Zenon
<1> QED
  BY <1>4, <1>5, Zenon

(* The predicates of an answer are those of candidate rules.               *)
LEMMA FilterRead ==
    ASSUME NEW req, NEW predicate \in Decided(req).filter, NEW key \in PlaceholderKeys[predicate],
           \A rule \in CandidateRules(req) : SubjectRefs(rule) \subseteq ScopedRefs(req)
    PROVE  key \in ScopedRefs(req) \cup {""}
<1>1. PICK rule \in CandidateRules(req) : predicate \in rule.predicates
  BY Zenon DEF Decided, Decision, Aggregated, GrantedRules
<1>2. key \in SubjectRefs(rule) \cup {""}
  BY <1>1, Zenon DEF SubjectRefs
<1> QED
  BY <1>2, Zenon

(***************************************************************************)
(* The activation index that BuildActivationIndexFromPolicies builds calls *)
(* every GENERAL PIP that an answer depends on: calling all of them gives  *)
(* the same decision and the same placeholder values.                      *)
(***************************************************************************)
THEOREM ActivationSuffices == PipelineSpec => []ActivationIsEnough
<1>1. ASSUME ServingInv, Decides, Loaded, EntitlementsApart(pips.doc), NEW all,
             all = WithPips(pips, DOMAIN pips.doc.general, request)
      PROVE  /\ answer = Canonical(all)
             /\ \A predicate \in answer.filter : \A key \in PlaceholderKeys[predicate] :
                   Get(request.context.subject, key, Undefined) = Get(all.context.subject, key, Undefined)
  <2>0. answer # NoAnswer
    BY <1>1, Zenon DEF Decides
  <2>1. /\ SameKeys(request, all) /\ SameButSubject(request.context, all.context)
        /\ all.admitted = request.admitted /\ all.authenticated = request.authenticated
    BY <1>1, <2>0, ReEnriched, Zenon
  <2>2. /\ CandidateRules(request) \subseteq Rules
        /\ \A rule \in CandidateRules(request) : SubjectRefs(rule) \subseteq ScopedRefs(request)
    BY <1>1, <2>0, RequestIs, CandidatesTyped, Zenon DEF ServingInv
  <2>3. \A key \in ScopedRefs(request) \cup {""} :
           Agree(request.context.subject[2], all.context.subject[2], key)
    BY <1>1, <2>0, ActivatedAgree, Zenon
  <2>4. \A rule \in CandidateRules(request) : /\ RuleKept(rule, request.context, all.context)
                                             /\ RuleKept(rule, all.context, request.context)
    BY <2>1, <2>2, <2>3, RuleAgrees, Zenon
  <2>5. Decided(all) = Decided(request)
    BY <2>1, <2>2, <2>4, DecidedAlike, Zenon
  <2>6. answer = Canonical(request)
    BY <1>1, <2>0, RequestIs, Zenon
  <2>7. answer = Canonical(all)
    BY <2>1, <2>5, <2>6, Zenon DEF Canonical
  <2>8. ASSUME NEW predicate \in answer.filter, NEW key \in PlaceholderKeys[predicate]
        PROVE  Get(request.context.subject, key, Undefined) = Get(all.context.subject, key, Undefined)
    <3>1. predicate \in Decided(request).filter
      BY <1>1, <2>6, <2>8, Zenon DEF Canonical, Decides, Decision
    <3>2. key \in ScopedRefs(request) \cup {""}
      BY <2>2, <2>8, <3>1, FilterRead, Zenon
    <3>3. Get(Object(request.context.subject[2]), key, Undefined) =
            Get(Object(all.context.subject[2]), key, Undefined)
      <4>1. Agree(request.context.subject[2], all.context.subject[2], key)
        BY <2>3, <3>2, Zenon
      <4> QED
        BY <4>1, GetAgrees, SMTT(30)
    <3>4. /\ request.context.subject = Object(request.context.subject[2])
          /\ all.context.subject = Object(all.context.subject[2])
      BY <2>1, Zenon DEF SameButSubject
    <3> QED
      BY <3>3, <3>4, Zenon
  <2> QED
    BY <2>7, <2>8, Zenon
<1>2. ServingInv => ActivationIsEnough
  BY <1>1, Zenon DEF ActivationIsEnough
<1> QED
  BY <1>2, Invariance, PTL

-----------------------------------------------------------------------------
(* What the rules in scope read under the old activation index is what     *)
(* they read under the new one, or it was the alias of a failed PIP: a PIP *)
(* that the old index does not call leaves its alias absent.               *)
LEMMA WindowKept ==
    ASSUME ServingInv, answer # NoAnswer, pips.doc = nextPips.doc,
           HidesNothing(pips.doc, request.context), EntitlementsApart(pips.doc),
           NEW r, r = WithPips(nextPips, ActiveGeneral(nextPips, request), request),
           NEW key \in ScopedRefs(request) \cup {""}
    PROVE  \/ Agree(request.context.subject[2], r.context.subject[2], key)
           \/ key \in FailedPips(request.context)
<1> DEFINE doc == pips.doc
           context == request.context
           old == ActiveGeneral(pips, request)
           new == ActiveGeneral(nextPips, request)
<1>1. /\ context.subject[2] = Attributes(context, doc, old)
      /\ context.aliases = doc.aliasSet
      /\ Keyed(request)
  BY RequestIs, Zenon
<1>2. r.context.subject[2] = Attributes(context, doc, new)
  BY ReEnriched, Zenon
<1>3. phase = "serve"
  BY Zenon DEF ServingInv, AnswerInv
<1>4. new = {name \in DOMAIN doc.general : doc.general[name].alias \in ScopedRefs(request)}
  BY <1>1, <1>3, ActiveIs, Zenon
<1> HIDE DEF old, new, context
<1>5. CASE key = ""
  BY <1>1, <1>2, <1>5, NamelessAgree, Zenon DEF context
<1>6. CASE Answering(doc, old, context.services, key) = Answering(doc, new, context.services, key)
  BY <1>1, <1>2, <1>6, GeneralAgree, AttributesAgree, Zenon DEF context
<1>7. CASE key = "entitledResources"
  BY <1>1, <1>2, <1>7, EntitlementsAgree, Zenon DEF context
<1>8. CASE /\ key # "" /\ key # "entitledResources"
           /\ Answering(doc, old, context.services, key) # Answering(doc, new, context.services, key)
  <2>1. PICK name \in Answering(doc, new, context.services, key) :
           name \notin Answering(doc, old, context.services, key)
    BY <1>4, <1>8, Zenon DEF Answering
  <2>2. name \in DOMAIN doc.general /\ doc.general[name].alias = key
    BY <2>1, Zenon DEF Answering
  <2>3. /\ key \notin DOMAIN context.base /\ key \notin DOMAIN RequestLevel(doc, context)
        /\ \A other \in DOMAIN doc.general : doc.general[other].alias = key => other = name
    BY <2>2, Zenon DEF HidesNothing, context
  <2>4. Answering(doc, old, context.services, key) = {}
    BY <2>1, <2>3, Zenon DEF Answering
  <2>5. key \notin DOMAIN GeneralValues(doc, old, context.services)
    BY <2>4, NobodyAnswers, Zenon
  <2>6. key \notin DOMAIN Overlay(RequestLevel(doc, context), GeneralValues(doc, old, context.services))
    BY <2>3, <2>5, OverlayLacks, Zenon
  <2>7. key \notin DOMAIN Attributes(context, doc, old)
    <3> DEFINE values == Overlay(RequestLevel(doc, context), GeneralValues(doc, old, context.services))
    <3> HIDE DEF values
    <3>1. key \notin DOMAIN Overlay(context.base, values)
      <4>1. key \notin DOMAIN values /\ key \notin DOMAIN context.base
        BY <2>3, <2>6, Zenon DEF values
      <4> QED
        BY <4>1, OverlayLacks, Zenon
    <3>2. key \notin DOMAIN [k \in {"entitledResources"} |-> Entitled(doc, context)]
      BY <1>8, Zenon
    <3>3. Attributes(context, doc, old) =
            Overlay(Overlay(context.base, values),
                    [k \in {"entitledResources"} |-> Entitled(doc, context)])
      BY Zenon DEF Attributes, values
    <3> QED
      BY <3>1, <3>2, <3>3, OverlayLacks, Zenon
  <2>8. key \in doc.aliasSet
    BY <1>3, <1>8, <2>2, AliasKnown, Zenon
  <2> QED
    BY <1>1, <2>7, <2>8, Zenon DEF FailedPips, context
<1> QED
  BY <1>5, <1>6, <1>7, <1>8, Zenon

(***************************************************************************)
(* Between the two Puts of load the old activation index meets the new     *)
(* policies; with the same PIPs, what is allowed then is allowed once the  *)
(* second Put is done.                                                     *)
(***************************************************************************)
THEOREM WindowOnlyDenies == PipelineSpec => []WindowNeverOpens
<1>1. ASSUME ServingInv, Decides, pips.doc = nextPips.doc,
             HidesNothing(pips.doc, request.context), EntitlementsApart(pips.doc), answer.allow,
             NEW r, r = WithPips(nextPips, ActiveGeneral(nextPips, request), request)
      PROVE  Canonical(r).allow
  <2>0. answer # NoAnswer
    BY <1>1, Zenon DEF Decides
  <2>1. /\ SameKeys(request, r) /\ SameButSubject(request.context, r.context)
        /\ r.admitted = request.admitted /\ r.authenticated = request.authenticated
    BY <1>1, <2>0, ReEnriched, Zenon
  <2>2. /\ CandidateRules(request) \subseteq Rules
        /\ \A rule \in CandidateRules(request) : SubjectRefs(rule) \subseteq ScopedRefs(request)
    BY <1>1, <2>0, RequestIs, CandidatesTyped, Zenon DEF ServingInv
  <2>3. \A key \in ScopedRefs(request) \cup {""} :
           \/ Agree(request.context.subject[2], r.context.subject[2], key)
           \/ key \in FailedPips(request.context)
    BY <1>1, <2>0, WindowKept, Zenon
  <2>4. \A rule \in CandidateRules(request) : RuleKept(rule, request.context, r.context)
    BY <2>1, <2>2, <2>3, RuleKeptIf, Zenon
  <2>5. answer = Canonical(request) /\ Decided(request).allow
    BY <1>1, <2>0, RequestIs, AnswerDecided, Zenon
  <2>6. Decided(r).allow
    BY <2>1, <2>2, <2>4, <2>5, AllowedKept, Zenon
  <2>7. request.admitted /\ request.authenticated
    BY <1>1, <2>5, Zenon DEF Canonical, Decides, Decision
  <2> QED
    BY <2>1, <2>6, <2>7, Zenon DEF Canonical
<1>2. ServingInv => WindowNeverOpens
  BY <1>1, Zenon DEF WindowNeverOpens, Enrich
<1> QED
  BY <1>2, Invariance, PTL

-----------------------------------------------------------------------------
(***************************************************************************)
(* Declared PIPs.                                                          *)
(***************************************************************************)

(* An index of the PIPs.                                                   *)
LEMMA ItemsTyped ==
    ASSUME ServingInv, NEW i \in DOMAIN PipItems
    PROVE  i \in Nat /\ PipItems[i].name \in STRING \X STRING /\ PipItems[i].default # Undefined
<1>1. PICK family \in DOMAIN Sources : source \in Sources[family]
  BY Zenon DEF ServingInv
<1> QED
  BY <1>1, PipAssumption, Zenon DEF PipItems

(* With a single entry of its name, that entry is the last one.            *)
LEMMA OnlyIsLast ==
    ASSUME NEW k \in Nat, NEW S, S = {k}
    PROVE  Max(S) = k
  BY DEF Max

(* PIPs that Validate accepts are told apart by their aliases.             *)
LEMMA AliasesUnique ==
    ASSUME ServingInv, Validate(PipItems), NEW i \in DOMAIN PipItems, NEW j \in DOMAIN PipItems,
           Alias(PipItems[i]) = Alias(PipItems[j])
    PROVE  i = j
<1>1. PipItems[i].name[1] = Prefix /\ PipItems[j].name[1] = Prefix
  BY Zenon DEF Validate, ValidateSingle
<1>2. PipItems[i].name \in STRING \X STRING /\ PipItems[j].name \in STRING \X STRING
  BY ItemsTyped, Zenon
<1>3. PipItems[i].name = PipItems[j].name
  BY <1>1, <1>2 DEF Alias
<1> QED
  BY <1>3, Zenon DEF Validate

(* What a document has for a PIP: its configuration under its name, and    *)
(* nothing else with its alias.                                            *)
Configured(doc, p) ==
    /\ \A name \in DOMAIN doc.token :
          doc.token[name].alias = Alias(p) => name = p.name /\ ResolvePipType(p) = "TOKEN"
    /\ \A name \in DOMAIN doc.header :
          doc.header[name].alias = Alias(p) => name = p.name /\ ResolvePipType(p) = "HEADER"
    /\ \A name \in DOMAIN doc.general :
          doc.general[name].alias = Alias(p) => name = p.name /\ ResolvePipType(p) = "GENERAL"
    /\ ResolvePipType(p) = "TOKEN" =>
          /\ p.name \in DOMAIN doc.token
          /\ doc.token[p.name] = [alias |-> Alias(p), claim |-> p.claim, default |-> p.default]
    /\ ResolvePipType(p) = "HEADER" =>
          /\ p.name \in DOMAIN doc.header
          /\ doc.header[p.name] = [alias |-> Alias(p), header |-> p.header, default |-> p.default]
    /\ ResolvePipType(p) = "GENERAL" =>
          /\ p.name \in DOMAIN doc.general
          /\ doc.general[p.name] = GeneralConfig(p.name, p)

(* NormalizeItems configures every PIP of such a list.                     *)
LEMMA ConfigsAre ==
    ASSUME ServingInv, Validate(PipItems), NEW k \in DOMAIN PipItems, NEW p, p = PipItems[k],
           NEW doc, doc = NormalizeItems(PipItems)
    PROVE  Configured(doc, p)
<1> DEFINE typed(type) == {i \in DOMAIN PipItems : ResolvePipType(PipItems[i]) = type}
<1>1. k \in Nat
  BY ItemsTyped, Zenon
<1>2. \A type : k \in typed(type) => {i \in typed(type) : PipItems[i].name = p.name} = {k}
  BY Zenon DEF Validate
<1>3. \A type : k \in typed(type) => Max({i \in typed(type) : PipItems[i].name = p.name}) = k
  BY <1>1, <1>2, OnlyIsLast, Zenon
<1>4. ASSUME NEW type, NEW name \in {PipItems[i].name : i \in typed(type)}, name[2] = Alias(p)
      PROVE  name = p.name /\ ResolvePipType(p) = type
  <2>1. PICK i \in typed(type) : name = PipItems[i].name
    BY <1>4, Zenon
  <2>2. i = k
    BY <1>4, <2>1, AliasesUnique, Zenon DEF Alias
  <2> QED
    BY <2>1, <2>2, Zenon
<1>5. /\ DOMAIN doc.token = {PipItems[i].name : i \in typed("TOKEN")}
      /\ DOMAIN doc.header = {PipItems[i].name : i \in typed("HEADER")}
      /\ DOMAIN doc.general = {PipItems[i].name : i \in typed("GENERAL")}
  BY Zenon DEF NormalizeItems
<1>6. /\ \A name \in DOMAIN doc.token : doc.token[name].alias = name[2]
      /\ \A name \in DOMAIN doc.header : doc.header[name].alias = name[2]
      /\ \A name \in DOMAIN doc.general : doc.general[name].alias = name[2]
  BY Zenon DEF NormalizeItems, GeneralConfig
<1>7. ASSUME k \in typed("TOKEN")
      PROVE  doc.token[p.name] = [alias |-> Alias(p), claim |-> p.claim, default |-> p.default]
  BY <1>3, <1>7, Zenon DEF NormalizeItems, Alias
<1>8. ASSUME k \in typed("HEADER")
      PROVE  doc.header[p.name] = [alias |-> Alias(p), header |-> p.header, default |-> p.default]
  BY <1>3, <1>8, Zenon DEF NormalizeItems, Alias
<1>9. ASSUME k \in typed("GENERAL")
      PROVE  doc.general[p.name] = GeneralConfig(p.name, p)
  BY <1>3, <1>9, Zenon DEF NormalizeItems
<1>10. \A name \in DOMAIN doc.token :
          doc.token[name].alias = Alias(p) => name = p.name /\ ResolvePipType(p) = "TOKEN"
  <2>1. \A name \in {PipItems[i].name : i \in typed("TOKEN")} :
           name[2] = Alias(p) => name = p.name /\ ResolvePipType(p) = "TOKEN"
    BY <1>4, Zenon
  <2> QED
    BY <1>5, <1>6, <2>1, Zenon
<1>11. \A name \in DOMAIN doc.header :
          doc.header[name].alias = Alias(p) => name = p.name /\ ResolvePipType(p) = "HEADER"
  <2>1. \A name \in {PipItems[i].name : i \in typed("HEADER")} :
           name[2] = Alias(p) => name = p.name /\ ResolvePipType(p) = "HEADER"
    BY <1>4, Zenon
  <2> QED
    BY <1>5, <1>6, <2>1, Zenon
<1>12. \A name \in DOMAIN doc.general :
          doc.general[name].alias = Alias(p) => name = p.name /\ ResolvePipType(p) = "GENERAL"
  <2>1. \A name \in {PipItems[i].name : i \in typed("GENERAL")} :
           name[2] = Alias(p) => name = p.name /\ ResolvePipType(p) = "GENERAL"
    BY <1>4, Zenon
  <2> QED
    BY <1>5, <1>6, <2>1, Zenon
<1>13. ResolvePipType(p) = "TOKEN" => k \in typed("TOKEN") /\ p.name \in DOMAIN doc.token
  BY <1>5, Zenon
<1>14. ResolvePipType(p) = "HEADER" => k \in typed("HEADER") /\ p.name \in DOMAIN doc.header
  BY <1>5, Zenon
<1>15. ResolvePipType(p) = "GENERAL" => k \in typed("GENERAL") /\ p.name \in DOMAIN doc.general
  BY <1>5, Zenon
<1> QED
  BY <1>7, <1>8, <1>9, <1>10, <1>11, <1>12, <1>13, <1>14, <1>15, Zenon
     DEF Configured

-----------------------------------------------------------------------------
(* A text that is not empty.                                               *)
Named(text) == text # ""

(* No other PIP of a kind has the alias.                                   *)
OnlyOne(configs, alias, name) ==
    \A other \in DOMAIN configs : configs[other].alias = alias => other = name

NoneHas(configs, alias) == \A other \in DOMAIN configs : configs[other].alias # alias

(* What the PIPs of one name contribute to the subject, by their kind.     *)
LocalOf(config, field, given) ==
    LocalValue(IF config[field] \in DOMAIN given THEN given[config[field]] ELSE Null, config.default)

(* The value of the only claim or header with an alias.                    *)
LEMMA LocalIs ==
    ASSUME NEW configs, NEW field, NEW given, NEW name \in DOMAIN configs, NEW alias,
           configs[name].alias = alias, OnlyOne(configs, alias, name)
    PROVE  Named(alias) /\ Named(configs[name][field]) =>
           /\ alias \in DOMAIN LocalValues(configs, field, given) <=>
                 LocalOf(configs[name], field, given) # Null
           /\ alias \in DOMAIN LocalValues(configs, field, given) =>
                 LocalValues(configs, field, given)[alias] = LocalOf(configs[name], field, given)
<1> DEFINE named == {n \in DOMAIN configs : /\ configs[n].alias # "" /\ configs[n][field] # ""
                                            /\ LocalOf(configs[n], field, given) # Null}
<1>1. LocalValues(configs, field, given) =
         [a \in {configs[n].alias : n \in named} |->
            LocalOf(configs[CHOOSE n \in named : configs[n].alias = a], field, given)]
  BY Zenon DEF LocalValues, LocalOf
<1> HAVE Named(alias) /\ Named(configs[name][field])
<1>2. /\ name \in named <=> LocalOf(configs[name], field, given) # Null
      /\ \A n \in named : configs[n].alias = alias => n = name
  BY Zenon DEF OnlyOne, Named
<1> HIDE DEF named
<1>3. name \in named => (CHOOSE n \in named : configs[n].alias = alias) = name
  BY <1>2, Zenon
<1>4. alias \in {configs[n].alias : n \in named} <=> name \in named
  BY <1>2, Zenon
<1> QED
  BY <1>1, <1>2, <1>3, <1>4, Zenon

(* No claim or header has the alias.                                       *)
LEMMA LocalAbsent ==
    ASSUME NEW configs, NEW field, NEW given, NEW alias,
           NoneHas(configs, alias)
    PROVE  alias \notin DOMAIN LocalValues(configs, field, given)
  BY Zenon DEF LocalValues, NoneHas

(* Its value is the one that is declared.                                  *)
LEMMA GivenIs ==
    ASSUME NEW config, NEW field, NEW given
    PROVE  Given(given, config[field], config.default) = {LocalOf(config, field, given)} \ {Null}
  BY Zenon DEF LocalOf, LocalValue, Given

(* No GENERAL PIP has the alias.                                           *)
LEMMA GeneralAbsent ==
    ASSUME NEW doc, NEW names, NEW services, NEW alias,
           NoneHas(doc.general, alias)
    PROVE  alias \notin DOMAIN GeneralValues(doc, names, services)
  BY Zenon DEF GeneralValues, NoneHas

(* The value of the only GENERAL PIP with an alias.                        *)
LEMMA GeneralIs ==
    ASSUME NEW doc, NEW names, NEW services, NEW name \in names \cap DOMAIN doc.general, NEW alias,
           doc.general[name].alias = alias, OnlyOne(doc.general, alias, name)
    PROVE  Named(alias) =>
           /\ alias \in DOMAIN GeneralValues(doc, names, services) <=>
                 GeneralPipValue(doc.general[name], services) # Undefined
           /\ alias \in DOMAIN GeneralValues(doc, names, services) =>
                 GeneralValues(doc, names, services)[alias] = GeneralPipValue(doc.general[name], services)
<1>0. /\ alias \in DOMAIN GeneralValues(doc, names, services) <=>
            Answering(doc, names, services, alias) # {}
      /\ alias \in DOMAIN GeneralValues(doc, names, services) =>
            GeneralValues(doc, names, services)[alias] =
              ChosenValue(doc, services, Answering(doc, names, services, alias))
  BY GeneralValueIs, SMTT(30)
<1> HAVE Named(alias)
<1>1. CASE GeneralPipValue(doc.general[name], services) = Undefined
  <2>1. Answering(doc, names, services, alias) = {}
    BY <1>1, Zenon DEF Answering, OnlyOne
  <2> QED
    BY <1>0, <1>1, <2>1, Zenon
<1>2. CASE GeneralPipValue(doc.general[name], services) # Undefined
  <2>1. Answering(doc, names, services, alias) = {name}
    <3>1. name \in Answering(doc, names, services, alias)
      BY <1>2, Zenon DEF Answering, Named
    <3>2. \A n \in Answering(doc, names, services, alias) : n = name
      BY Zenon DEF Answering, OnlyOne
    <3> QED
      BY <3>1, <3>2, Zenon
  <2>2. ChosenValue(doc, services, {name}) = GeneralPipValue(doc.general[name], services)
    BY Zenon DEF ChosenValue
  <2> QED
    BY <1>0, <1>2, <2>1, <2>2, Zenon
<1> QED
  BY <1>1, <1>2, Zenon

(* What an attribute of the subject is, by what the PIPs have of it.       *)
LEMMA AttributeIs ==
    ASSUME NEW context, NEW doc, NEW names, NEW key, key # "entitledResources",
           NEW values,
           values = Overlay(RequestLevel(doc, context), GeneralValues(doc, names, context.services))
    PROVE  Get(Object(Attributes(context, doc, names)), key, Undefined) =
             IF key \in DOMAIN values THEN Merged(Get(Object(context.base), key, Undefined), values[key])
             ELSE Get(Object(context.base), key, Undefined)
<1> DEFINE f == Overlay(context.base, values)
           g == [k \in {"entitledResources"} |-> Entitled(doc, context)]
<1>1. key \notin DOMAIN g
  BY Zenon
<1> HIDE DEF f, g
<1>2. Attributes(context, doc, names) = Overlay(f, g)
  BY Zenon DEF Attributes, f, g
<1>3. /\ key \in DOMAIN Overlay(f, g) <=> key \in DOMAIN f
      /\ key \in DOMAIN f => Overlay(f, g)[key] = f[key]
  BY <1>1, OverlayIs, Zenon
<1>4. /\ key \in DOMAIN f <=> key \in DOMAIN context.base \/ key \in DOMAIN values
      /\ key \in DOMAIN values /\ key \notin DOMAIN context.base => f[key] = values[key]
      /\ key \in DOMAIN values /\ key \in DOMAIN context.base => f[key] = Merged(context.base[key], values[key])
      /\ key \in DOMAIN context.base /\ key \notin DOMAIN values => f[key] = context.base[key]
  BY OverlayIs DEF f
<1>5. \A value : Merged(Undefined, value) = value
  BY DEF Merged, Undefined
<1> QED
  BY <1>2, <1>3, <1>4, <1>5, Zenon DEF Get, Object

(* apply_coerce_or_default gives the value that is asked for.              *)
LEMMA AppliedIsAsked ==
    ASSUME NEW raw, NEW coerce, NEW onMissing, NEW default
    PROVE  ApplyCoerceOrDefault(raw, coerce, onMissing, default) = AskedValue(raw, coerce, onMissing, default)
<1> DEFINE out == IF raw \in {Undefined, Null} THEN Undefined ELSE CoerceValue(raw, coerce)
<1>1. ApplyCoerceOrDefault(raw, coerce, onMissing, default) =
        IF out # Undefined THEN out ELSE Substitute(coerce, onMissing, default)
  BY Zenon DEF ApplyCoerceOrDefault, Substitute
<1>2. AskedValue(raw, coerce, onMissing, default) =
        IF out # Undefined THEN out ELSE Substitute(coerce, onMissing, default)
  BY Zenon DEF AskedValue
<1> HIDE DEF out
<1>3. CASE out # Undefined
  BY <1>1, <1>2, <1>3, Zenon
<1>4. CASE out = Undefined
  BY <1>1, <1>2, <1>4, Zenon
<1> QED
  BY <1>3, <1>4, Zenon

(* What is asked of an answer.                                             *)
Asked(p) ==
    CASE p.response.present -> p.response.extract
      [] ~p.response.present /\ p.jsonPath # "" -> <<"path", p.jsonPath>>
      [] OTHER -> NoExtract
CoerceOf(p) == IF p.response.present THEN p.response.coerce ELSE ""
OnMissingOf(p) == IF p.response.present THEN p.response.onMissing ELSE ""
EntryOf(p, said, entry) ==
    AskedValue(JsonExtract(said, entry.path), OwnOr(entry, "coerce", CoerceOf(p)),
           OwnOr(entry, "onMissing", OnMissingOf(p)), p.default)

LEMMA PromisedIs ==
    ASSUME NEW p, NEW said
    PROVE  Promised(p, said) =
             CASE said = Undefined -> Substitute(CoerceOf(p), OnMissingOf(p), p.default)
               [] said # Undefined /\ Asked(p) = NoExtract /\ CoerceOf(p) = "" /\ OnMissingOf(p) = "" -> said
               [] said # Undefined /\ Asked(p)[1] = "map" ->
                     Object([name \in {n \in DOMAIN Asked(p)[2] : EntryOf(p, said, Asked(p)[2][n]) # Undefined} |->
                               EntryOf(p, said, Asked(p)[2][name])])
               [] said # Undefined /\ Asked(p)[1] = "path" ->
                     AskedValue(JsonExtract(said, Asked(p)[2]), CoerceOf(p), OnMissingOf(p), p.default)
               [] OTHER -> AskedValue(said, CoerceOf(p), OnMissingOf(p), p.default)
  BY Zenon DEF Promised, Asked, CoerceOf, OnMissingOf, EntryOf

(* What Validate leaves of it, and what the configuration has.             *)
LEMMA ConfigIs ==
    ASSUME NEW p, ValidGeneral(p), ResolvePipType(p) = "GENERAL", p.default # Undefined, NEW name
    PROVE  LET config == GeneralConfig(name, p) IN
           /\ config.response = Config(Asked(p), CoerceOf(p), OnMissingOf(p))
           /\ config.default = p.default /\ config.alias = name[2]
           /\ CoerceOf(p) \in Coercions
           /\ OnMissingOf(p) = "defaultValue" => p.default # Null
           /\ Asked(p)[1] \in {"absent", "path", "map"}
           /\ Asked(p)[1] = "map" => \A n \in DOMAIN Asked(p)[2] : "path" \in DOMAIN Asked(p)[2][n]
<1>1. CASE p.response.present
  <2>1. ValidResponse(p.response, p.default)
    BY <1>1, Zenon DEF ValidGeneral
  <2>2. Asked(p) = p.response.extract /\ CoerceOf(p) = p.response.coerce /\ OnMissingOf(p) = p.response.onMissing
    BY <1>1, Zenon DEF Asked, CoerceOf, OnMissingOf
  <2>3. BuildResponseConfig(p) = Config(Asked(p), CoerceOf(p), OnMissingOf(p))
    BY <1>1, <2>2, Zenon DEF BuildResponseConfig
  <2>4. Asked(p)[1] = "map" => \A n \in DOMAIN Asked(p)[2] : "path" \in DOMAIN Asked(p)[2][n]
    BY <2>1, <2>2, Zenon DEF ValidResponse, ValidEntry, Range
  <2> QED
    BY <2>1, <2>2, <2>3, <2>4, Zenon DEF ValidResponse, GeneralConfig
<1>2. CASE ~p.response.present
  <2>1. BuildResponseConfig(p) = Config(Asked(p), CoerceOf(p), OnMissingOf(p))
    BY <1>2, Zenon DEF BuildResponseConfig, Asked, CoerceOf, OnMissingOf, ValidGeneral
  <2>2. CoerceOf(p) = "" /\ OnMissingOf(p) = "" /\ "" \in Coercions
    BY <1>2, Zenon DEF CoerceOf, OnMissingOf, Coercions
  <2>3. Asked(p)[1] \in {"absent", "path"}
    BY <1>2 DEF Asked, NoExtract
  <2>4. LET config == GeneralConfig(name, p) IN
        /\ config.response = BuildResponseConfig(p)
        /\ config.default = p.default /\ config.alias = name[2]
    BY Zenon DEF GeneralConfig
  <2>5. Asked(p)[1] \in {"absent", "path", "map"} /\ Asked(p)[1] # "map"
    BY <2>3
  <2> QED
    BY <2>1, <2>2, <2>4, <2>5, Zenon
<1> QED
  BY <1>1, <1>2, Zenon

(* Something stands for a missing value, unless onMissing says otherwise.  *)
LEMMA SubstituteIs ==
    ASSUME NEW coerce \in Coercions, NEW onMissing, NEW default, default # Undefined
    PROVE  /\ onMissing \in {"defaultValue", "empty"} => Substitute(coerce, onMissing, default) # Undefined
           /\ onMissing \notin {"defaultValue", "empty"} => Substitute(coerce, onMissing, default) = Undefined
<1>1. EmptyFor(coerce) # Undefined
  <2>1. /\ coerce \in {"string[]", "number[]", ""} => EmptyFor(coerce) = Array(<<>>)
        /\ coerce = "string" => EmptyFor(coerce) = Text("")
        /\ coerce = "number" => EmptyFor(coerce) = Number(0)
        /\ coerce = "bool" => EmptyFor(coerce) = Boolean(FALSE)
    BY Zenon DEF EmptyFor
  <2>2. /\ Array(<<>>)[1] = "array" /\ Text("")[1] = "string" /\ Number(0)[1] = "number"
        /\ Boolean(FALSE)[1] = "boolean" /\ Undefined[1] = "undefined"
    BY DEF Array, Text, Number, Boolean, Undefined
  <2> QED
    BY <2>1, <2>2, Zenon DEF Coercions
<1> QED
  BY <1>1 DEF Substitute

(* What extract_response makes of an answer is what is promised.           *)
LEMMA ExtractedAsPromised ==
    ASSUME NEW p, ValidGeneral(p), ResolvePipType(p) = "GENERAL", p.default # Undefined, NEW name,
           NEW body, body # Undefined
    PROVE  /\ ExtractResponse(GeneralConfig(name, p), body) = Promised(p, body)
           /\ Promised(p, body) = Undefined => OnMissingOf(p) \notin {"defaultValue", "empty"}
<1> DEFINE config == GeneralConfig(name, p)
<1>1. /\ config.response = Config(Asked(p), CoerceOf(p), OnMissingOf(p))
      /\ config.default = p.default
      /\ CoerceOf(p) \in Coercions
      /\ Asked(p)[1] \in {"absent", "path", "map"}
      /\ Asked(p)[1] = "map" => \A n \in DOMAIN Asked(p)[2] : "path" \in DOMAIN Asked(p)[2][n]
  BY ConfigIs, Zenon
<1> HIDE DEF config
<1>2. /\ config.response.extract = Asked(p) /\ config.response.coerce = CoerceOf(p)
      /\ config.response.onMissing = OnMissingOf(p)
      /\ config.response = NoConfig <=> Asked(p) = NoExtract /\ CoerceOf(p) = "" /\ OnMissingOf(p) = ""
      /\ NoExtract[1] = "absent"
  <2>1. NoExtract[1] = "absent"
    BY DEF NoExtract
  <2>2. /\ config.response.extract = Asked(p) /\ config.response.coerce = CoerceOf(p)
        /\ config.response.onMissing = OnMissingOf(p)
    BY <1>1 DEF Config
  <2>3. ASSUME config.response = NoConfig
        PROVE  Asked(p) = NoExtract /\ CoerceOf(p) = "" /\ OnMissingOf(p) = ""
    <3>1. NoConfig.extract = NoExtract /\ NoConfig.coerce = "" /\ NoConfig.onMissing = ""
      BY DEF NoConfig, Config
    <3> QED
      BY <2>2, <2>3, <3>1, Zenon
  <2>4. ASSUME Asked(p) = NoExtract, CoerceOf(p) = "", OnMissingOf(p) = ""
        PROVE  config.response = NoConfig
    BY <1>1, <2>4, Zenon DEF NoConfig
  <2> QED
    BY <2>1, <2>2, <2>3, <2>4, Zenon
<1>3. \A raw : ApplyCoerceOrDefault(raw, CoerceOf(p), OnMissingOf(p), p.default) =
               AskedValue(raw, CoerceOf(p), OnMissingOf(p), p.default)
  BY AppliedIsAsked, Zenon
<1>4. \A raw : AskedValue(raw, CoerceOf(p), OnMissingOf(p), p.default) = Undefined =>
                 OnMissingOf(p) \notin {"defaultValue", "empty"}
  BY <1>1, SubstituteIs, Zenon DEF AskedValue
<1>5. CASE config.response = NoConfig
  <2>1. ExtractResponse(config, body) = body
    BY <1>2, <1>5, Zenon DEF ExtractResponse
  <2>2. Promised(p, body) = body
    <3>1. Asked(p) = NoExtract /\ CoerceOf(p) = "" /\ OnMissingOf(p) = ""
      BY <1>2, <1>5, Zenon
    <3>2. Asked(p)[1] # "map" /\ Asked(p)[1] # "path"
      BY <1>2, <3>1, Zenon
    <3> QED
      BY <3>1, <3>2, PromisedIs, ZenonT(30)
  <2> QED
    BY <2>1, <2>2, Zenon DEF config
<1>6. CASE config.response # NoConfig /\ Asked(p)[1] = "absent"
  <2>1. ExtractResponse(config, body) = AskedValue(body, CoerceOf(p), OnMissingOf(p), p.default)
    BY <1>1, <1>2, <1>3, <1>6, Zenon DEF ExtractResponse
  <2>2. Promised(p, body) = AskedValue(body, CoerceOf(p), OnMissingOf(p), p.default)
    BY <1>2, <1>6, PromisedIs, Zenon
  <2> QED
    BY <1>4, <2>1, <2>2, Zenon DEF config
<1>7. CASE config.response # NoConfig /\ Asked(p)[1] = "path"
  <2> DEFINE found == JsonExtract(body, Asked(p)[2])
  <2>1. ExtractResponse(config, body) = AskedValue(found, CoerceOf(p), OnMissingOf(p), p.default)
    BY <1>1, <1>2, <1>3, <1>7, Zenon DEF ExtractResponse
  <2>2. Promised(p, body) = AskedValue(found, CoerceOf(p), OnMissingOf(p), p.default)
    BY <1>2, <1>7, PromisedIs, Zenon
  <2> QED
    BY <1>4, <2>1, <2>2, Zenon DEF config
<1>8. CASE config.response # NoConfig /\ Asked(p)[1] = "map"
  <2>1. \A n \in DOMAIN Asked(p)[2] :
           ExtractMapEntry(config, body, Asked(p)[2][n]) = EntryOf(p, body, Asked(p)[2][n])
    BY <1>1, <1>2, <1>8, AppliedIsAsked, Zenon DEF ExtractMapEntry, EntryOf
  <2> DEFINE object == Object([n \in {m \in DOMAIN Asked(p)[2] : EntryOf(p, body, Asked(p)[2][m]) # Undefined} |->
                                 EntryOf(p, body, Asked(p)[2][n])])
  <2>2. ExtractResponse(config, body) =
          Object([n \in {m \in DOMAIN Asked(p)[2] : ExtractMapEntry(config, body, Asked(p)[2][m]) # Undefined} |->
                    ExtractMapEntry(config, body, Asked(p)[2][n])])
    BY <1>2, <1>8, Zenon DEF ExtractResponse
  <2>3. ExtractResponse(config, body) = object
    BY <2>1, <2>2, Zenon
  <2>4. Promised(p, body) = object
    BY <1>2, <1>8, PromisedIs, Zenon
  <2>5. object # Undefined
    BY DEF Object, Undefined
  <2> QED
    BY <2>3, <2>4, <2>5, Zenon DEF config
<1> QED
  BY <1>1, <1>5, <1>6, <1>7, <1>8, Zenon

(* What a GENERAL PIP answers is what it declares.                         *)
LEMMA ResponseIs ==
    ASSUME NEW p, ValidGeneral(p), ResolvePipType(p) = "GENERAL", p.default # Undefined, NEW context,
           NEW name, name[2] = Alias(p)
    PROVE  Declared(p, context) =
             {GeneralPipValue(GeneralConfig(name, p), context.services)} \ {Undefined}
<1> DEFINE services == context.services
           config == GeneralConfig(name, p)
           said == IF Alias(p) \in DOMAIN services THEN ParsedBody(services[Alias(p)]) ELSE Undefined
<1>1. /\ config.response = Config(Asked(p), CoerceOf(p), OnMissingOf(p))
      /\ config.default = p.default /\ config.alias = Alias(p)
      /\ CoerceOf(p) \in Coercions
      /\ OnMissingOf(p) = "defaultValue" => p.default # Null
  BY ConfigIs, Zenon
<1>2. Declared(p, context) =
        IF Unbuilt(Alias(p), services) THEN {} ELSE {Promised(p, said)} \ {Undefined}
  <2> DEFINE bodies == {services[alias] : alias \in {Alias(p)} \cap DOMAIN services}
  <2>1. Declared(p, context) =
          IF bodies = {} THEN {Promised(p, Undefined)} \ {Undefined}
          ELSE {Promised(p, ParsedBody(body)) : body \in bodies \ {Undefined}} \ {Undefined}
    BY Zenon DEF Declared
  <2>2. CASE Alias(p) \notin DOMAIN services
    <3>1. bodies = {}
      BY <2>2, Zenon
    <3> QED
      BY <2>1, <2>2, <3>1, Zenon DEF Unbuilt
  <2>3. CASE Alias(p) \in DOMAIN services
    <3>1. bodies = {services[Alias(p)]}
      BY <2>3, Zenon
    <3> HIDE DEF bodies
    <3> QED
      BY <2>1, <2>3, <3>1, Zenon DEF Unbuilt
  <2> QED
    BY <2>2, <2>3, Zenon
<1>3. GeneralPipValue(config, services) =
        IF Unbuilt(Alias(p), services) THEN Undefined ELSE ResponseValue(config, services)
  BY <1>1, Zenon DEF GeneralPipValue
<1>4. Extracted(config, services) = IF said = Undefined THEN Undefined ELSE Promised(p, said)
  <2>1. Extracted(config, services) = IF said = Undefined THEN Undefined ELSE ExtractResponse(config, said)
    BY <1>1, Zenon DEF Extracted
  <2>2. said # Undefined => ExtractResponse(config, said) = Promised(p, said)
    <3> HIDE DEF said
    <3> QED
      BY ExtractedAsPromised, Zenon
  <2> QED
    BY <2>1, <2>2, Zenon
<1>5. said # Undefined /\ Promised(p, said) = Undefined => OnMissingOf(p) \notin {"defaultValue", "empty"}
  <2> HIDE DEF said
  <2> QED
    BY ExtractedAsPromised, Zenon
<1>6. said = Undefined => Promised(p, said) = Substitute(CoerceOf(p), OnMissingOf(p), p.default)
  BY PromisedIs, Zenon
<1> HIDE DEF said, config
<1>7. config.response.onMissing = OnMissingOf(p) /\ config.response.coerce = CoerceOf(p)
  BY <1>1 DEF Config
<1>8. ResponseValue(config, services) =
        IF Extracted(config, services) # Undefined THEN Extracted(config, services)
        ELSE Substitute(CoerceOf(p), OnMissingOf(p), p.default)
  BY <1>1, <1>7, Zenon DEF ResponseValue, Substitute
<1>9. ResponseValue(config, services) = Promised(p, said)
  <2>1. OnMissingOf(p) \notin {"defaultValue", "empty"} =>
          Substitute(CoerceOf(p), OnMissingOf(p), p.default) = Undefined
    BY <1>1, SubstituteIs, Zenon
  <2>2. CASE said = Undefined
    BY <1>4, <1>6, <1>8, <2>2, Zenon
  <2>3. CASE said # Undefined /\ Promised(p, said) = Undefined
    BY <1>4, <1>5, <1>8, <2>1, <2>3, Zenon
  <2>4. CASE said # Undefined /\ Promised(p, said) # Undefined
    BY <1>4, <1>8, <2>4, Zenon
  <2> QED
    BY <2>2, <2>3, <2>4, Zenon
<1> QED
  BY <1>2, <1>3, <1>9, Zenon DEF config

(* The document in the store, once it is loaded.                           *)
LEMMA LoadedDocument ==
    ASSUME ServingInv, answer # NoAnswer, Loaded
    PROVE  /\ pips.doc.token = NormalizeItems(PipItems).token
           /\ pips.doc.header = NormalizeItems(PipItems).header
           /\ pips.doc.general = NormalizeItems(PipItems).general
<1>1. pips.doc = ApplyEntitlementsOverride(NormalizeItems(PipItems), Pinned)
  BY DEF Loaded, ServingInv, AnswerInv, BuiltPips
<1>2. DOMAIN NormalizeItems(PipItems) = {"aliasSet", "token", "header", "general", "entitlements"}
  BY Zenon DEF NormalizeItems
<1> QED
  BY <1>1, <1>2, Zenon DEF ApplyEntitlementsOverride

-----------------------------------------------------------------------------
(* The values have the declared one for an alias, or nothing.              *)
Means(values, alias, declared) ==
    /\ alias \in DOMAIN values <=> declared # {}
    /\ \A value \in declared : values[alias] = value

(* A layer above or below that does not have the alias changes nothing.    *)
LEMMA LowerMeans ==
    ASSUME NEW lower, NEW upper, NEW alias, NEW declared, Means(lower, alias, declared),
           alias \notin DOMAIN upper
    PROVE  Means(Overlay(lower, upper), alias, declared)
  BY Zenon DEF Means, Overlay

LEMMA UpperMeans ==
    ASSUME NEW lower, NEW upper, NEW alias, NEW declared, Means(upper, alias, declared),
           alias \notin DOMAIN lower
    PROVE  Means(Overlay(lower, upper), alias, declared)
  BY Zenon DEF Means, Overlay

(* A claim or a header that is the only one with its alias.                *)
LEMMA LocalMeans ==
    ASSUME NEW configs, NEW field, NEW given, NEW name \in DOMAIN configs, NEW alias,
           configs[name].alias = alias, OnlyOne(configs, alias, name),
           Named(alias), Named(configs[name][field])
    PROVE  Means(LocalValues(configs, field, given), alias,
                 Given(given, configs[name][field], configs[name].default))
<1>1. Named(alias) /\ Named(configs[name][field]) =>
        /\ alias \in DOMAIN LocalValues(configs, field, given) <=>
              LocalOf(configs[name], field, given) # Null
        /\ alias \in DOMAIN LocalValues(configs, field, given) =>
              LocalValues(configs, field, given)[alias] = LocalOf(configs[name], field, given)
  BY LocalIs
<1>2. Given(given, configs[name][field], configs[name].default) =
        {LocalOf(configs[name], field, given)} \ {Null}
  BY GivenIs, Zenon
<1> QED
  BY <1>1, <1>2, Zenon DEF Means

(* A TOKEN PIP.                                                            *)
LEMMA TokenMeans ==
    ASSUME NEW doc, NEW p, Configured(doc, p), ValidateSingle(p), ResolvePipType(p) = "TOKEN",
           NEW context, NEW names
    PROVE  Means(Overlay(RequestLevel(doc, context), GeneralValues(doc, names, context.services)),
                 Alias(p), Declared(p, context))
<1> DEFINE tokens == LocalValues(doc.token, "claim", context.claims)
           headers == LocalValues(doc.header, "header", context.headers)
<1>1. /\ p.name \in DOMAIN doc.token
      /\ doc.token[p.name] = [alias |-> Alias(p), claim |-> p.claim, default |-> p.default]
      /\ OnlyOne(doc.token, Alias(p), p.name)
      /\ NoneHas(doc.header, Alias(p)) /\ NoneHas(doc.general, Alias(p))
  BY Zenon DEF Configured, OnlyOne, NoneHas
<1>2. /\ doc.token[p.name].alias = Alias(p) /\ doc.token[p.name]["claim"] = p.claim
      /\ doc.token[p.name].default = p.default
  BY <1>1
<1>3. /\ Named(Alias(p)) /\ Named(p.claim)
      /\ Declared(p, context) = Given(context.claims, p.claim, p.default)
  BY Zenon DEF ValidateSingle, Declared, Named
<1>4. Means(tokens, Alias(p), Declared(p, context))
  <2>1. Named(doc.token[p.name]["claim"])
    BY <1>2, <1>3, Zenon
  <2>2. Means(tokens, Alias(p),
              Given(context.claims, doc.token[p.name]["claim"], doc.token[p.name].default))
    BY <1>1, <1>2, <1>3, <2>1, LocalMeans, Zenon
  <2> QED
    BY <1>2, <1>3, <2>2, Zenon
<1>5. /\ Alias(p) \notin DOMAIN headers
      /\ Alias(p) \notin DOMAIN GeneralValues(doc, names, context.services)
  BY <1>1, LocalAbsent, GeneralAbsent, Zenon
<1>6. RequestLevel(doc, context) = Overlay(tokens, headers)
  BY Zenon DEF RequestLevel
<1> HIDE DEF tokens, headers
<1> QED
  BY <1>4, <1>5, <1>6, LowerMeans, Zenon

(* A HEADER PIP.                                                           *)
LEMMA HeaderMeans ==
    ASSUME NEW doc, NEW p, Configured(doc, p), ValidateSingle(p), ResolvePipType(p) = "HEADER",
           NEW context, NEW names
    PROVE  Means(Overlay(RequestLevel(doc, context), GeneralValues(doc, names, context.services)),
                 Alias(p), Declared(p, context))
<1> DEFINE tokens == LocalValues(doc.token, "claim", context.claims)
           headers == LocalValues(doc.header, "header", context.headers)
<1>1. /\ p.name \in DOMAIN doc.header
      /\ doc.header[p.name] = [alias |-> Alias(p), header |-> p.header, default |-> p.default]
      /\ OnlyOne(doc.header, Alias(p), p.name)
      /\ NoneHas(doc.token, Alias(p)) /\ NoneHas(doc.general, Alias(p))
  BY Zenon DEF Configured, OnlyOne, NoneHas
<1>2. /\ doc.header[p.name].alias = Alias(p) /\ doc.header[p.name]["header"] = p.header
      /\ doc.header[p.name].default = p.default
  BY <1>1
<1>3. /\ Named(Alias(p)) /\ Named(p.header)
      /\ Declared(p, context) = Given(context.headers, p.header, p.default)
  BY Zenon DEF ValidateSingle, Declared, Named
<1>4. Means(headers, Alias(p), Declared(p, context))
  <2>1. Named(doc.header[p.name]["header"])
    BY <1>2, <1>3, Zenon
  <2>2. Means(headers, Alias(p),
              Given(context.headers, doc.header[p.name]["header"], doc.header[p.name].default))
    BY <1>1, <1>2, <1>3, <2>1, LocalMeans, Zenon
  <2> QED
    BY <1>2, <1>3, <2>2, Zenon
<1>5. /\ Alias(p) \notin DOMAIN tokens
      /\ Alias(p) \notin DOMAIN GeneralValues(doc, names, context.services)
  BY <1>1, LocalAbsent, GeneralAbsent, Zenon
<1>6. RequestLevel(doc, context) = Overlay(tokens, headers)
  BY Zenon DEF RequestLevel
<1> HIDE DEF tokens, headers
<1> QED
  BY <1>4, <1>5, <1>6, LowerMeans, UpperMeans, Zenon

(* The alias of a GENERAL PIP's configuration.                             *)
LEMMA ConfigAlias ==
    ASSUME NEW p
    PROVE  GeneralConfig(p.name, p).alias = Alias(p)
  BY DEF GeneralConfig, Alias

(* A GENERAL PIP that is called.                                           *)
LEMMA ServiceMeans ==
    ASSUME NEW doc, NEW p, Configured(doc, p), ValidateSingle(p), ResolvePipType(p) = "GENERAL",
           p.default # Undefined, NEW context, NEW names, p.name \in names
    PROVE  Means(Overlay(RequestLevel(doc, context), GeneralValues(doc, names, context.services)),
                 Alias(p), Declared(p, context))
<1> DEFINE tokens == LocalValues(doc.token, "claim", context.claims)
           headers == LocalValues(doc.header, "header", context.headers)
           config == doc.general[p.name]
           general == GeneralValues(doc, names, context.services)
<1>1. /\ p.name \in names \cap DOMAIN doc.general
      /\ config = GeneralConfig(p.name, p)
      /\ OnlyOne(doc.general, Alias(p), p.name)
      /\ NoneHas(doc.token, Alias(p)) /\ NoneHas(doc.header, Alias(p))
  BY Zenon DEF Configured, OnlyOne, NoneHas
<1>2. config.alias = Alias(p)
  BY <1>1, ConfigAlias, Zenon
<1>3. Named(Alias(p)) /\ ValidGeneral(p) /\ p.name[2] = Alias(p)
  BY Zenon DEF ValidateSingle, Named, Alias
<1>4. Declared(p, context) = {GeneralPipValue(config, context.services)} \ {Undefined}
  BY <1>1, <1>3, ResponseIs, ZenonT(40)
<1>5. Named(Alias(p)) =>
        /\ Alias(p) \in DOMAIN general <=> GeneralPipValue(config, context.services) # Undefined
        /\ Alias(p) \in DOMAIN general =>
              general[Alias(p)] = GeneralPipValue(config, context.services)
  BY <1>1, <1>2, GeneralIs
<1> HIDE DEF general, config
<1>6. Means(general, Alias(p), Declared(p, context))
  BY <1>3, <1>4, <1>5, Zenon DEF Means
<1>7. Alias(p) \notin DOMAIN tokens /\ Alias(p) \notin DOMAIN headers
  BY <1>1, LocalAbsent, Zenon
<1>8. Alias(p) \notin DOMAIN RequestLevel(doc, context)
  BY <1>7, OverlayIs, Zenon DEF RequestLevel
<1> QED
  BY <1>6, <1>8, UpperMeans, Zenon DEF general

(* The values of the PIPs have the declared value, or nothing.             *)
LEMMA DeclaredValue ==
    ASSUME ServingInv, Decides, Loaded, Validate(PipItems), NEW k \in DOMAIN PipItems,
           NEW p, p = PipItems[k], Alias(p) \in ScopedRefs(request), NEW names,
           names = ActiveGeneral(pips, request)
    PROVE  Means(Overlay(RequestLevel(pips.doc, request.context),
                         GeneralValues(pips.doc, names, request.context.services)),
                 Alias(p), Declared(p, request.context))
<1>0. answer # NoAnswer
  BY Zenon DEF Decides
<1>1. Configured(pips.doc, p)
  <2>1. Configured(NormalizeItems(PipItems), p)
    BY ConfigsAre, Zenon
  <2> QED
    BY <1>0, <2>1, LoadedDocument, Zenon DEF Configured
<1>2. ValidateSingle(p) /\ p.default # Undefined
  BY ItemsTyped, Zenon DEF Validate
<1>3. CASE ResolvePipType(p) = "GENERAL"
  <2>1. p.name \in DOMAIN pips.doc.general /\ pips.doc.general[p.name].alias = Alias(p)
    BY <1>1, <1>3, ConfigAlias, Zenon DEF Configured
  <2>2. Keyed(request) /\ phase = "serve"
    BY <1>0, RequestIs, Zenon DEF ServingInv, AnswerInv
  <2>3. ActiveGeneral(pips, request) =
          {name \in DOMAIN pips.doc.general : pips.doc.general[name].alias \in ScopedRefs(request)}
    BY <2>2, ActiveIs, Zenon DEF Loaded
  <2>4. p.name \in names
    BY <2>1, <2>3, Zenon
  <2> QED
    BY <1>1, <1>2, <1>3, <2>4, ServiceMeans, Zenon
<1> QED
  BY <1>1, <1>2, <1>3, TokenMeans, HeaderMeans, Zenon DEF ValidateSingle

(***************************************************************************)
(* A list of PIPs that Validate accepts means what it declares, through    *)
(* NormalizeItems, the entitlements override, the activation index and     *)
(* pip.rego's three layers of values.                                      *)
(***************************************************************************)
THEOREM PipsAsDeclared == PipelineSpec => []PipsMeanDeclared
<1>1. ASSUME ServingInv, Decides, Loaded, Validate(PipItems), NEW p \in Range(PipItems),
             Alias(p) # "entitledResources", Alias(p) \in ScopedRefs(request)
      PROVE  LET read == Get(request.context.subject, Alias(p), Undefined)
                 known == Get(Object(request.context.base), Alias(p), Undefined)
             IN  /\ Declared(p, request.context) = {} => read = known
                 /\ \A value \in Declared(p, request.context) : read = Merged(known, value)
  <2> DEFINE names == ActiveGeneral(pips, request)
             local == RequestLevel(pips.doc, request.context)
             general == GeneralValues(pips.doc, names, request.context.services)
             values == Overlay(local, general)
  <2>1. PICK k \in DOMAIN PipItems : p = PipItems[k]
    BY Zenon DEF Range
  <2>2. /\ Alias(p) \in DOMAIN values <=> Declared(p, request.context) # {}
        /\ \A value \in Declared(p, request.context) : values[Alias(p)] = value
    BY <1>1, <2>1, DeclaredValue, Zenon DEF Means
  <2>3. request.context.subject = Object(Attributes(request.context, pips.doc, names))
    BY <1>1, RequestIs, Zenon DEF Decides
  <2>4. Get(Object(Attributes(request.context, pips.doc, names)), Alias(p), Undefined) =
          IF Alias(p) \in DOMAIN values
          THEN Merged(Get(Object(request.context.base), Alias(p), Undefined), values[Alias(p)])
          ELSE Get(Object(request.context.base), Alias(p), Undefined)
    BY <1>1, AttributeIs, SMTT(30)
  <2> HIDE DEF names, values
  <2> QED
    BY <2>2, <2>3, <2>4, Zenon
<1>2. ServingInv => PipsMeanDeclared
  BY <1>1, Zenon DEF PipsMeanDeclared
<1> QED
  BY <1>2, Invariance, PTL

-----------------------------------------------------------------------------
(***************************************************************************)
(* What a condition says. Trees are finite, so the equation that reads     *)
(* them has one solution, by induction over their heights; the two levels  *)
(* of the evaluator are then compared with it.                             *)
(***************************************************************************)

(* A non-empty set of natural numbers has a least one.                     *)
LEMMA Least ==
    ASSUME NEW S \in SUBSET Nat, S # {}
    PROVE  \E m \in S : \A n \in S : m <= n
<1> DEFINE R == OpToRel(<, Nat)
<1>1. IsWellFoundedOn(R, Nat)
  BY NatLessThanWellFounded, Zenon
<1>2. \A m, n \in S : n < m => <<n, m>> \in R
  BY DEF OpToRel
<1> HIDE DEF R
<1>3. \E m \in S : \A n \in S : ~(<<n, m>> \in R)
  BY <1>1, WFMin, Zenon
<1>4. PICK m \in S : \A n \in S : ~(n < m)
  BY <1>2, <1>3, Zenon
<1>5. \A n \in S : m <= n
  BY <1>4
<1> QED
  BY <1>5, Zenon

(* The nodes below a height, and the equation on them.                     *)
Low(n) == {node \in Nodes : Height(node) < n}
Solves(f, n, context) == f = [node \in Low(n) |-> Reading(f, node, context)]

(* The arguments of a node are nodes, and lower than it.                   *)
LEMMA ArgsLower ==
    ASSUME NEW node \in Nodes, "op" \in DOMAIN node
    PROVE  /\ \A arg \in Range(node.args) : arg \in Nodes /\ Height(arg) < Height(node)
           /\ node.args[1] \in Range(node.args)
           /\ node.args # <<>>
<1>1. node.args \in Seq(Nodes) /\ Len(node.args) >= Arity(node.op)
  BY NodesAssumption, Zenon
<1>2. 1 \in 1..Len(node.args)
  BY <1>1 DEF Arity
<1>3. Range(node.args) = {node.args[i] : i \in 1..Len(node.args)}
  BY <1>1 DEF Range
<1>4. \A i \in 1..Len(node.args) : node.args[i] \in Nodes
  BY <1>1
<1>5. node.args # <<>>
  BY <1>1, <1>2
<1> QED
  BY <1>2, <1>3, <1>4, <1>5, NodesAssumption, ZenonT(40)

(* Two readings agree on the arguments of a node.                          *)
SameBelow(f, g, node) == "op" \in DOMAIN node => \A arg \in Range(node.args) : f[arg] = g[arg]

(* The reading of a node is that of its arguments.                         *)
LEMMA ReadingLocal ==
    ASSUME NEW node \in Nodes, NEW f, NEW g, NEW context, SameBelow(f, g, node)
    PROVE  Reading(f, node, context) = Reading(g, node, context)
<1>1. CASE ~Combines(node)
  BY <1>1, Zenon DEF Reading
<1>2. CASE Combines(node)
  <2>1. "op" \in DOMAIN node /\ node.op \in {"and", "or", "not"}
    BY <1>2, Zenon DEF Combines
  <2>2. /\ \A arg \in Range(node.args) : f[arg] = g[arg]
        /\ f[node.args[1]] = g[node.args[1]]
    BY <2>1, ArgsLower, Zenon DEF SameBelow
  <2>3. CASE node.op = "and"
    BY <1>2, <2>2, <2>3 DEF Reading
  <2>4. CASE node.op = "or"
    BY <1>2, <2>2, <2>4 DEF Reading
  <2>5. CASE node.op = "not"
    BY <1>2, <2>2, <2>5 DEF Reading
  <2> QED
    BY <2>1, <2>3, <2>4, <2>5, Zenon
<1> QED
  BY <1>1, <1>2, Zenon

(* Two solutions agree where both are defined.                             *)
LEMMA SolutionsAgree ==
    ASSUME NEW context, NEW m \in Nat, NEW n \in Nat, NEW f, NEW g,
           Solves(f, m, context), Solves(g, n, context)
    PROVE  \A node \in Low(m) \cap Low(n) : f[node] = g[node]
<1> DEFINE Bad == {node \in Low(m) \cap Low(n) : f[node] # g[node]}
           S == {Height(node) : node \in Bad}
<1>0. \A node \in Nodes : Height(node) \in Nat
  BY NodesAssumption, Zenon
<1>1. S \in SUBSET Nat
  BY <1>0, Zenon DEF Low
<1>2. SUFFICES ASSUME S # {} PROVE FALSE
  BY Zenon
<1> HIDE DEF S
<1>3. PICK h \in S : \A k \in S : h <= k
  BY <1>1, <1>2, Least, Zenon
<1> USE DEF S
<1>4. PICK node \in Bad : Height(node) = h
  BY <1>3, Zenon
<1>5. node \in Nodes /\ Height(node) < m /\ Height(node) < n /\ Height(node) \in Nat
  BY <1>4, NodesAssumption, Zenon DEF Low
<1>6. ASSUME "op" \in DOMAIN node, NEW arg \in Range(node.args)
      PROVE  f[arg] = g[arg]
  <2>1. arg \in Nodes /\ Height(arg) < Height(node) /\ Height(arg) \in Nat
    BY <1>5, <1>6, ArgsLower, NodesAssumption, Zenon
  <2>2. Height(arg) < m /\ Height(arg) < n /\ ~(h <= Height(arg))
    BY <1>4, <1>5, <2>1
  <2>3. arg \in Low(m) \cap Low(n)
    BY <2>1, <2>2, Zenon DEF Low
  <2>4. arg \notin Bad
    BY <1>3, <2>2, Zenon
  <2> QED
    BY <2>3, <2>4, Zenon
<1>7. SameBelow(f, g, node)
  BY <1>6, Zenon DEF SameBelow
<1>8. Reading(f, node, context) = Reading(g, node, context)
  BY <1>5, <1>7, ReadingLocal, SMTT(20)
<1>9. f[node] = Reading(f, node, context) /\ g[node] = Reading(g, node, context)
  BY <1>4, Zenon DEF Solves
<1> QED
  BY <1>4, <1>8, <1>9, Zenon

(* There is a solution below every height.                                 *)
LEMMA SolutionsExist ==
    ASSUME NEW context, NEW n \in Nat
    PROVE  \E f : Solves(f, n, context)
<1> DEFINE S == {k \in Nat : ~ \E f : Solves(f, k, context)}
<1>1. SUFFICES ASSUME S # {} PROVE FALSE
  BY Zenon
<1>2. S \in SUBSET Nat
  BY Zenon
<1> HIDE DEF S
<1>3. PICK k \in S : \A l \in S : k <= l
  BY <1>1, <1>2, Least, Zenon
<1> USE DEF S
<1>4. k \in Nat /\ ~ \E f : Solves(f, k, context)
  BY <1>3, Zenon
<1>5. CASE k = 0
  <2>1. Low(0) = {}
    BY NodesAssumption DEF Low
  <2> DEFINE e == [node \in Low(0) |-> TRUE]
  <2>2. e = [node \in Low(0) |-> Reading(e, node, context)]
    BY <2>1, Zenon
  <2> QED
    BY <1>4, <1>5, <2>2, Zenon DEF Solves
<1>6. CASE k # 0
  <2>1. k - 1 \in Nat /\ ~(k <= k - 1)
    BY <1>4, <1>6
  <2>2. PICK f : Solves(f, k - 1, context)
    BY <1>3, <2>1, Zenon
  <2> DEFINE g == [node \in Low(k) |-> Reading(f, node, context)]
  <2>3. ASSUME NEW node \in Low(k)
        PROVE  Reading(g, node, context) = Reading(f, node, context)
    <3>1. node \in Nodes /\ Height(node) < k /\ Height(node) \in Nat
      BY NodesAssumption, Zenon DEF Low
    <3>2. ASSUME "op" \in DOMAIN node, NEW arg \in Range(node.args)
          PROVE  g[arg] = f[arg]
      <4>1. arg \in Nodes /\ Height(arg) < Height(node) /\ Height(arg) \in Nat
        BY <3>1, <3>2, ArgsLower, NodesAssumption, Zenon
      <4>2. Height(arg) < k /\ Height(arg) < k - 1
        BY <1>4, <3>1, <4>1
      <4>3. arg \in Low(k) /\ arg \in Low(k - 1)
        BY <4>1, <4>2, Zenon DEF Low
      <4>4. g[arg] = Reading(f, arg, context)
        BY <4>3, Zenon
      <4>5. f[arg] = Reading(f, arg, context)
        BY <2>2, <4>3, Zenon DEF Solves
      <4> QED
        BY <4>4, <4>5, Zenon
    <3> HIDE DEF g
    <3>3. SameBelow(g, f, node)
      BY <3>2, Zenon DEF SameBelow
    <3> QED
      BY <3>1, <3>3, ReadingLocal, SMTT(20)
  <2>4. g = [node \in Low(k) |-> Reading(g, node, context)]
    BY <2>3, Zenon
  <2> QED
    BY <1>4, <2>4, Zenon DEF Solves
<1> QED
  BY <1>5, <1>6, Zenon

(* So the meaning of a tree is its reading.                                *)
LEMMA MeaningIs ==
    ASSUME NEW context
    PROVE  \A node \in Nodes : Meaning(context)[node] = Reading(Meaning(context), node, context)
<1> DEFINE Sol(n) == CHOOSE f : Solves(f, n, context)
           g == [node \in Nodes |-> Sol(Height(node) + 1)[node]]
<1>1. \A n \in Nat : Solves(Sol(n), n, context)
  BY SolutionsExist, Zenon
<1>2. ASSUME NEW node \in Nodes
      PROVE  g[node] = Reading(g, node, context)
  <2>1. Height(node) \in Nat /\ Height(node) + 1 \in Nat /\ Height(node) < Height(node) + 1
    BY NodesAssumption
  <2>2. node \in Low(Height(node) + 1)
    BY <2>1, Zenon DEF Low
  <2> DEFINE f == Sol(Height(node) + 1)
  <2>3. Solves(f, Height(node) + 1, context)
    BY <1>1, <2>1, Zenon
  <2>4. f[node] = Reading(f, node, context)
    <3> HIDE DEF f
    <3> QED
      BY <2>2, <2>3, Zenon DEF Solves
  <2>5. ASSUME "op" \in DOMAIN node, NEW arg \in Range(node.args)
        PROVE  f[arg] = g[arg]
    <3>1. arg \in Nodes /\ Height(arg) < Height(node) /\ Height(arg) \in Nat
      BY <2>5, ArgsLower, NodesAssumption, Zenon
    <3>2. Height(arg) + 1 \in Nat /\ Height(arg) < Height(arg) + 1 /\ Height(arg) < Height(node) + 1
      BY <2>1, <3>1
    <3>3. arg \in Low(Height(arg) + 1) \cap Low(Height(node) + 1)
      BY <3>1, <3>2, Zenon DEF Low
    <3>4. Solves(Sol(Height(arg) + 1), Height(arg) + 1, context)
      BY <1>1, <3>2, Zenon
    <3>5. Sol(Height(arg) + 1)[arg] = f[arg]
      <4> HIDE DEF Sol, f
      <4> QED
        BY <2>1, <2>3, <3>2, <3>3, <3>4, SolutionsAgree
    <3> QED
      BY <3>1, <3>5, Zenon
  <2>6. g[node] = f[node]
    BY Zenon
  <2> HIDE DEF f, g
  <2>7. SameBelow(f, g, node)
    BY <2>5, Zenon DEF SameBelow
  <2>8. Reading(f, node, context) = Reading(g, node, context)
    BY <2>7, ReadingLocal, SMTT(20)
  <2> QED
    BY <2>4, <2>6, <2>8, Zenon
<1>3. g = [node \in Nodes |-> Reading(g, node, context)]
  BY <1>2, Zenon
<1> DEFINE M == Meaning(context)
<1> HIDE DEF g
<1>4. M = [node \in Nodes |-> Reading(M, node, context)]
  BY <1>3, Zenon DEF Meaning
<1> HIDE DEF M
<1>5. \A node \in Nodes : M[node] = Reading(M, node, context)
  BY <1>4, Zenon
<1> QED
  BY <1>5, Zenon DEF M

(* With no failed PIP, no reference of the condition is to one.            *)
LEMMA NoneFailed ==
    ASSUME NEW context, FailedPips(context) = {}, NEW node
    PROVE  ~ArgHasFailedPipRef(node, context)
  BY Zenon DEF FailedPips, ArgHasFailedPipRef, IsFailedPipRef

(* A leaf that allows combines nothing, and a leaf means what it allows.   *)
LEMMA LeafMeans ==
    ASSUME NEW node \in Nodes, NEW context
    PROVE  /\ LeafAllows(node, context) => ~Combines(node)
           /\ ~Combines(node) => Meaning(context)[node] = LeafAllows(node, context)
<1>1. "const" \in DOMAIN node => "op" \notin DOMAIN node
  BY NodesAssumption
<1>2. LeafOps \cap {"and", "or", "not"} = {}
  BY DEF LeafOps, Unary, Binary, Ordered
<1>3. LeafAllows(node, context) => ~Combines(node)
  BY <1>1, <1>2, Zenon DEF LeafAllows, Combines
<1>4. ~Combines(node) => Reading(Meaning(context), node, context) = LeafAllows(node, context)
  BY Zenon DEF Reading
<1> QED
  BY <1>3, <1>4, MeaningIs, Zenon

(* Inner nodes mean what their arguments mean.                             *)
LEMMA InnerMeans ==
    ASSUME NEW node \in Nodes, NEW context, "op" \in DOMAIN node
    PROVE  /\ node.op = "and" =>
                (Meaning(context)[node] <=> \A arg \in Range(node.args) : Meaning(context)[arg])
           /\ node.op = "or" =>
                (Meaning(context)[node] <=> \E arg \in Range(node.args) : Meaning(context)[arg])
           /\ node.op = "not" => (Meaning(context)[node] <=> ~Meaning(context)[node.args[1]])
<1> DEFINE M == Meaning(context)
<1>1. M[node] = Reading(M, node, context)
  BY MeaningIs, Zenon
<1> HIDE DEF M
<1>2. node.op = "and" => (M[node] <=> \A arg \in Range(node.args) : M[arg])
  BY <1>1 DEF Reading, Combines
<1>3. node.op = "or" => (M[node] <=> \E arg \in Range(node.args) : M[arg])
  BY <1>1 DEF Reading, Combines
<1>4. node.op = "not" => (M[node] <=> ~M[node.args[1]])
  BY <1>1, Zenon DEF Reading, Combines
<1> QED
  BY <1>2, <1>3, <1>4, Zenon DEF M

(* What is negated is a comparison.                                        *)
LEMMA NegatedCombinesNothing ==
    ASSUME NEW node \in Nodes, "op" \in DOMAIN node, node.op = "not"
    PROVE  node.args[1] \in Nodes /\ ~Combines(node.args[1])
<1>1. node.args[1] \in Nodes
  BY ArgsLower, Zenon
<1>2. node.args[1].op \in LeafOps
  BY NodesAssumption, Zenon
<1> QED
  BY <1>1, <1>2 DEF Combines, LeafOps, Unary, Binary, Ordered

(* The inner level holds only of what is so, and exactly of that where the *)
(* arguments are leaves.                                                   *)
LEMMA ArgMeans ==
    ASSUME NEW node \in Nodes, NEW context, FailedPips(context) = {}
    PROVE  /\ ArgAllows(node, context) => Meaning(context)[node]
           /\ /\ Meaning(context)[node]
              /\ Combines(node) => \A arg \in Range(node.args) : ~Combines(arg)
              => ArgAllows(node, context)
           /\ ~Combines(node) => (ArgAllows(node, context) <=> LeafAllows(node, context))
<1>1. CASE ~Combines(node)
  <2>1. ArgAllows(node, context) <=> LeafAllows(node, context)
    BY <1>1, Zenon DEF ArgAllows, Combined, Combines
  <2> QED
    BY <1>1, <2>1, LeafMeans, Zenon
<1>2. CASE Combines(node)
  <2>1. "op" \in DOMAIN node /\ node.op \in {"and", "or", "not"}
    BY <1>2, Zenon DEF Combines
  <2>2. ~LeafAllows(node, context)
    BY <1>2, LeafMeans, Zenon
  <2>3. /\ \A arg \in Range(node.args) :
             /\ LeafAllows(arg, context) => Meaning(context)[arg]
             /\ ~Combines(arg) => Meaning(context)[arg] = LeafAllows(arg, context)
        /\ node.args # <<>>
        /\ node.args[1] \in Range(node.args)
    BY <2>1, ArgsLower, LeafMeans, Zenon
  <2>4. CASE node.op = "and"
    BY <1>2, <2>1, <2>2, <2>3, <2>4, InnerMeans, SMTT(30) DEF ArgAllows, Combined
  <2>5. CASE node.op = "or"
    BY <1>2, <2>1, <2>2, <2>3, <2>5, InnerMeans, SMTT(30) DEF ArgAllows, Combined
  <2>6. CASE node.op = "not"
    <3>1. ~Combines(node.args[1]) /\ ~ArgHasFailedPipRef(node.args[1], context)
      BY <2>1, <2>6, NegatedCombinesNothing, NoneFailed, Zenon
    <3> QED
      BY <1>2, <2>1, <2>2, <2>3, <2>6, <3>1, InnerMeans, SMTT(30) DEF ArgAllows, Combined
  <2> QED
    BY <2>1, <2>4, <2>5, <2>6, Zenon
<1> QED
  BY <1>1, <1>2, Zenon

(* The outer level, where the arguments of arguments are leaves.           *)
LEMMA AstMeans ==
    ASSUME NEW node \in Nodes, NEW context, FailedPips(context) = {}
    PROVE  /\ AstAllows(node, context) => Meaning(context)[node]
           /\ Meaning(context)[node] /\ TwoLevels(node) => AstAllows(node, context)
<1>1. CASE ~Combines(node)
  <2>1. AstAllows(node, context) <=> LeafAllows(node, context)
    BY <1>1, Zenon DEF AstAllows, Combined, Combines
  <2> QED
    BY <1>1, <2>1, LeafMeans, Zenon
<1>2. CASE Combines(node)
  <2>1. "op" \in DOMAIN node /\ node.op \in {"and", "or", "not"}
    BY <1>2, Zenon DEF Combines
  <2>2. ~LeafAllows(node, context)
    BY <1>2, LeafMeans, Zenon
  <2>3. /\ \A arg \in Range(node.args) :
             /\ ArgAllows(arg, context) => Meaning(context)[arg]
             /\ TwoLevels(node) /\ Meaning(context)[arg] => ArgAllows(arg, context)
        /\ node.args # <<>>
        /\ node.args[1] \in Range(node.args)
    BY <1>2, <2>1, ArgsLower, ArgMeans, ZenonT(40) DEF TwoLevels
  <2>4. CASE node.op = "and"
    BY <1>2, <2>1, <2>2, <2>3, <2>4, InnerMeans, SMTT(30) DEF AstAllows, Combined
  <2>5. CASE node.op = "or"
    BY <1>2, <2>1, <2>2, <2>3, <2>5, InnerMeans, SMTT(30) DEF AstAllows, Combined
  <2>6. CASE node.op = "not"
    <3>1. node.args[1] \in Nodes /\ ~Combines(node.args[1]) /\ ~ArgHasFailedPipRef(node.args[1], context)
      BY <2>1, <2>6, NegatedCombinesNothing, NoneFailed, Zenon
    <3>2. ArgAllows(node.args[1], context) <=> Meaning(context)[node.args[1]]
      BY <3>1, ArgMeans, LeafMeans, Zenon
    <3> QED
      BY <1>2, <2>1, <2>2, <2>6, <3>1, <3>2, InnerMeans, SMTT(30) DEF AstAllows, Combined
  <2> QED
    BY <2>1, <2>4, <2>5, <2>6, Zenon
<1> QED
  BY <1>1, <1>2, Zenon

(* The fast path holds of leaves only, and of those that the evaluator     *)
(* allows.                                                                 *)
LEMMA SimpleMeans ==
    ASSUME NEW node \in Nodes, NEW context, SimpleAllows(node, context)
    PROVE  LeafAllows(node, context)
<1>1. /\ "op" \in DOMAIN node /\ node.op \in {"eq", "neq"}
      /\ SimpleArg(node.args[1]) /\ SimpleArg(node.args[2])
  BY Zenon DEF SimpleAllows
<1>2. node.args \in Seq(Nodes) /\ Len(node.args) >= 2
  BY <1>1, NodesAssumption, Zenon DEF Arity, Binary
<1>3. node.args[1] \in Nodes /\ node.args[2] \in Nodes
  BY <1>2
<1>4. /\ SimpleArgValue(node.args[1], context) = ArgValue(node.args[1], context)
      /\ SimpleArgValue(node.args[2], context) = ArgValue(node.args[2], context)
  BY <1>1, <1>3, SimpleValue, Zenon
<1>5. /\ ArgValue(node.args[1], context) # Undefined /\ ArgValue(node.args[2], context) # Undefined
      /\ ValuesEqual(ArgValue(node.args[1], context), ArgValue(node.args[2], context)) <=> node.op = "eq"
  BY <1>4, Zenon DEF SimpleAllows
<1>6. node.op \in LeafOps
  BY <1>1, Zenon DEF LeafOps, Binary
<1> QED
  BY <1>1, <1>5, <1>6, Zenon DEF LeafAllows, OperatorHolds

(***************************************************************************)
(* For every condition the parser accepts, of any depth, and every request *)
(* whose PIPs all resolved: rls.rego, whose evaluator unfolds two levels   *)
(* and reads eq and neq on a fast path, allows only what the condition     *)
(* says, and all of it when nothing is nested deeper.                      *)
(***************************************************************************)
THEOREM ConditionsReadAsWritten == PipelineSpec => []ConditionMeansText
<1>1. ServingInv => ConditionMeansText
  <2> SUFFICES ASSUME ServingInv, FailedPips(request.context) = {}, NEW p \in done,
                      p.condition \notin {True, False, NoCondition, Unparsable}
               PROVE  /\ ConditionAllows(p.condition, request.context) =>
                           Meaning(request.context)[p.condition]
                      /\ Meaning(request.context)[p.condition] /\ TwoLevels(p.condition) =>
                           ConditionAllows(p.condition, request.context)
    BY Zenon DEF ConditionMeansText
  <2>1. p.condition \in Nodes
    BY ConditionAssumption DEF ServingInv, IndexInv, PoliciesTyped, Policies
  <2>2. SimpleAllows(p.condition, request.context) => AstAllows(p.condition, request.context)
    BY <2>1, SimpleMeans, Zenon DEF AstAllows
  <2> QED
    BY <2>1, <2>2, AstMeans, Zenon DEF ConditionAllows
<1> QED
  BY <1>1, Invariance, PTL

-----------------------------------------------------------------------------
(***************************************************************************)
(* The bulk routes of the legacy API. Lists are joined by an equation over *)
(* their positions, which has a solution by induction; what is picked,     *)
(* asked and answered is then a matter of sets.                            *)
(***************************************************************************)

(* The equation of Concatenation, on the first n lists.                    *)
Step(f, lists, i) == IF i = 0 THEN <<>> ELSE f[i - 1] \o lists[i]
Joins(f, lists, n) == f = [i \in 0..n |-> Step(f, lists, i)]

(* It has a solution, by induction over n.                                 *)
LEMMA JoinsExist ==
    ASSUME NEW lists, NEW n \in Nat
    PROVE  \E f : Joins(f, lists, n)
<1> DEFINE S == {k \in Nat : ~ \E f : Joins(f, lists, k)}
<1>1. SUFFICES ASSUME S # {} PROVE FALSE
  BY Zenon
<1>2. S \in SUBSET Nat
  BY Zenon
<1> HIDE DEF S
<1>3. PICK k \in S : \A l \in S : k <= l
  BY <1>1, <1>2, Least, Zenon
<1> USE DEF S
<1>4. k \in Nat /\ ~ \E f : Joins(f, lists, k)
  BY <1>3, Zenon
<1>5. CASE k = 0
  <2> DEFINE e == [i \in 0..0 |-> <<>>]
  <2>1. \A i \in 0..0 : i = 0
    OBVIOUS
  <2>2. e = [i \in 0..0 |-> Step(e, lists, i)]
    BY <2>1, Zenon DEF Step
  <2> QED
    BY <1>4, <1>5, <2>2, Zenon DEF Joins
<1>6. CASE k # 0
  <2>1. k - 1 \in Nat /\ ~(k <= k - 1)
    BY <1>4, <1>6
  <2>2. PICK f : Joins(f, lists, k - 1)
    BY <1>3, <2>1, Zenon
  <2> DEFINE g == [i \in 0..k |-> Step(f, lists, i)]
  <2>3. ASSUME NEW i \in 0..k
        PROVE  Step(g, lists, i) = Step(f, lists, i)
    <3>1. CASE i = 0
      BY <3>1, Zenon DEF Step
    <3>2. CASE i # 0
      <4>1. i - 1 \in 0..k /\ i - 1 \in 0..(k - 1)
        BY <1>4, <3>2
      <4>2. g[i - 1] = Step(f, lists, i - 1)
        BY <4>1, Zenon
      <4>3. f[i - 1] = Step(f, lists, i - 1)
        BY <2>2, <4>1, Zenon DEF Joins
      <4> HIDE DEF g
      <4> QED
        BY <3>2, <4>2, <4>3, Zenon DEF Step
    <3> QED
      BY <3>1, <3>2, Zenon
  <2>4. g = [i \in 0..k |-> Step(g, lists, i)]
    BY <2>3, Zenon
  <2> QED
    BY <1>4, <2>4, Zenon DEF Joins
<1> QED
  BY <1>5, <1>6, Zenon

(* Concatenation takes the last value of one.                              *)
LEMMA ConcatenationIs ==
    ASSUME NEW lists, Len(lists) \in Nat
    PROVE  \E f : /\ f[0] = <<>>
                  /\ \A i \in 1..Len(lists) : f[i] = f[i - 1] \o lists[i]
                  /\ Concatenation(lists) = f[Len(lists)]
<1> DEFINE n == Len(lists)
           F == CHOOSE f : f = [i \in 0..n |-> IF i = 0 THEN <<>> ELSE f[i - 1] \o lists[i]]
<1>1. Concatenation(lists) = F[n]
  BY Zenon DEF Concatenation
<1>2. \E f : f = [i \in 0..n |-> IF i = 0 THEN <<>> ELSE f[i - 1] \o lists[i]]
  BY JoinsExist, Zenon DEF Joins, Step
<1>3. F = [i \in 0..n |-> IF i = 0 THEN <<>> ELSE F[i - 1] \o lists[i]]
  BY <1>2, Zenon
<1> HIDE DEF F
<1>4. 0 \in 0..n /\ \A i \in 1..n : i \in 0..n /\ i # 0
  OBVIOUS
<1>5. F[0] = <<>> /\ \A i \in 1..n : F[i] = F[i - 1] \o lists[i]
  BY <1>3, <1>4, Zenon
<1> QED
  BY <1>1, <1>5, Zenon

(* The elements of two lists.                                              *)
LEMMA RangeConcat ==
    ASSUME NEW S, NEW s \in Seq(S), NEW t \in Seq(S)
    PROVE  s \o t \in Seq(S) /\ Range(s \o t) = Range(s) \cup Range(t)
<1>1. s \o t \in Seq(S) /\ Len(s \o t) = Len(s) + Len(t)
  OBVIOUS
<1>2. \A i \in 1..Len(s) : (s \o t)[i] = s[i]
  OBVIOUS
<1>3. \A i \in 1..Len(t) : Len(s) + i \in 1..Len(s \o t) /\ (s \o t)[Len(s) + i] = t[i]
  OBVIOUS
<1>4. \A i \in 1..Len(s \o t) : i \in 1..Len(s) \/ \E j \in 1..Len(t) : i = Len(s) + j
  <2> SUFFICES ASSUME NEW i \in 1..Len(s \o t), i \notin 1..Len(s)
               PROVE  \E j \in 1..Len(t) : i = Len(s) + j
    BY Zenon
  <2>1. i - Len(s) \in 1..Len(t) /\ i = Len(s) + (i - Len(s))
    BY <1>1
  <2> QED
    BY <2>1, Zenon
<1>5. \A i \in 1..Len(s) : i \in 1..Len(s \o t)
  BY <1>1
<1>6. /\ Range(s) = {s[i] : i \in 1..Len(s)} /\ Range(t) = {t[i] : i \in 1..Len(t)}
      /\ Range(s \o t) = {(s \o t)[i] : i \in 1..Len(s \o t)}
  BY <1>1 DEF Range
<1> HIDE DEF Range
<1>7. Range(s \o t) \subseteq Range(s) \cup Range(t)
  <2> SUFFICES ASSUME NEW i \in 1..Len(s \o t)
               PROVE  (s \o t)[i] \in Range(s) \cup Range(t)
    BY <1>6, Zenon
  <2>1. CASE i \in 1..Len(s)
    BY <1>2, <1>6, <2>1, Zenon
  <2>2. CASE \E j \in 1..Len(t) : i = Len(s) + j
    BY <1>3, <1>6, <2>2, Zenon
  <2> QED
    BY <1>4, <2>1, <2>2, Zenon
<1>8. Range(s) \subseteq Range(s \o t)
  BY <1>2, <1>5, <1>6, Zenon
<1>9. Range(t) \subseteq Range(s \o t)
  BY <1>3, <1>6, Zenon
<1> QED
  BY <1>1, <1>7, <1>8, <1>9, Zenon

(* A concatenation has the elements of all its lists.                      *)
LEMMA ConcatenationRange ==
    ASSUME NEW S, NEW lists \in Seq(Seq(S))
    PROVE  /\ Concatenation(lists) \in Seq(S)
           /\ Range(Concatenation(lists)) = UNION {Range(lists[i]) : i \in 1..Len(lists)}
<1>1. Len(lists) \in Nat /\ Len(lists) \in 0..Len(lists) /\ \A i \in 1..Len(lists) : lists[i] \in Seq(S)
  OBVIOUS
<1>2. PICK f : /\ f[0] = <<>>
               /\ \A i \in 1..Len(lists) : f[i] = f[i - 1] \o lists[i]
               /\ Concatenation(lists) = f[Len(lists)]
  BY <1>1, ConcatenationIs, Zenon
<1> DEFINE Good(n) == f[n] \in Seq(S) /\ Range(f[n]) = UNION {Range(lists[i]) : i \in 1..n}
           Bad == {n \in 0..Len(lists) : ~Good(n)}
<1>3. Bad = {}
  <2>1. SUFFICES ASSUME Bad # {} PROVE FALSE
    BY Zenon
  <2>2. Bad \in SUBSET Nat
    BY <1>1
  <2> HIDE DEF Bad
  <2>3. PICK n \in Bad : \A m \in Bad : n <= m
    BY <2>1, <2>2, Least, Zenon
  <2> USE DEF Bad
  <2>4. n \in 0..Len(lists) /\ ~Good(n)
    BY <2>3, Zenon
  <2>5. CASE n = 0
    <3>1. <<>> \in Seq(S) /\ Range(<<>>) = {} /\ 1..n = {}
      BY <2>5 DEF Range
    <3> QED
      BY <1>2, <2>4, <2>5, <3>1, Zenon
  <2>6. CASE n # 0
    <3>1. n \in 1..Len(lists) /\ n - 1 \in 0..Len(lists) /\ ~(n <= n - 1) /\ 1..n = 1..(n - 1) \cup {n}
      BY <2>4, <2>6, SMTT(30)
    <3>2. Good(n - 1) /\ lists[n] \in Seq(S)
      BY <1>1, <2>3, <3>1, Zenon
    <3>3. f[n] = f[n - 1] \o lists[n]
      BY <1>2, <3>1, Zenon
    <3>4. f[n] \in Seq(S) /\ Range(f[n]) = Range(f[n - 1]) \cup Range(lists[n])
      BY <3>2, <3>3, RangeConcat
    <3>5. UNION {Range(lists[i]) : i \in 1..n} =
             (UNION {Range(lists[i]) : i \in 1..(n - 1)}) \cup Range(lists[n])
      BY <3>1, Zenon
    <3> QED
      BY <2>4, <3>2, <3>4, <3>5, Zenon
  <2> QED
    BY <2>5, <2>6, Zenon
<1>4. Good(Len(lists))
  BY <1>1, <1>3, Zenon
<1> QED
  BY <1>2, <1>4, Zenon

(* What a list is made of.                                                 *)
LEMMA ListIs ==
    ASSUME NEW list, list \in Seq(Range(list))
    PROVE  /\ Len(list) \in Nat /\ DOMAIN list = 1..Len(list)
           /\ Range(list) = {list[i] : i \in 1..Len(list)}
           /\ \A i \in 1..Len(list) : list[i] \in Range(list)
<1>1. Len(list) \in Nat /\ DOMAIN list = 1..Len(list)
  OBVIOUS
<1> QED
  BY <1>1, Zenon DEF Range

(* A function on the positions of a list is a list.                        *)
LEMMA MappedIs ==
    ASSUME NEW n \in Nat, NEW f, f = [i \in 1..n |-> f[i]]
    PROVE  /\ f \in Seq(Range(f)) /\ Len(f) = n
           /\ \A S : (\A i \in 1..n : f[i] \in S) => f \in Seq(S)
<1>1. ASSUME NEW S, \A i \in 1..n : f[i] \in S
      PROVE  f \in Seq(S) /\ Len(f) = n
  <2>1. f \in [1..n -> S]
    BY <1>1, Zenon
  <2> QED
    BY <2>1
<1>2. \A i \in 1..n : f[i] \in Range(f)
  BY Zenon DEF Range
<1> QED
  BY <1>1, <1>2, Zenon

(* The elements that are picked.                                           *)
LEMMA PickedRange ==
    ASSUME NEW S, NEW list \in Seq(S), NEW places \in SUBSET (1..Len(list))
    PROVE  Picked(list, places) \in Seq(S) /\ Range(Picked(list, places)) = {list[i] : i \in places}
<1> DEFINE parts == [i \in DOMAIN list |-> IF i \in places THEN <<list[i]>> ELSE <<>>]
<1>1. DOMAIN list = 1..Len(list) /\ Len(list) \in Nat /\ \A i \in 1..Len(list) : list[i] \in S
  OBVIOUS
<1>2. \A x \in S : <<x>> \in Seq(S) /\ Range(<<x>>) = {x}
  BY DEF Range
<1>3. <<>> \in Seq(S) /\ Range(<<>>) = {}
  BY DEF Range
<1>4. \A i \in 1..Len(list) : /\ parts[i] \in Seq(S)
                              /\ Range(parts[i]) = IF i \in places THEN {list[i]} ELSE {}
  BY <1>1, <1>2, <1>3, Zenon
<1>5. parts = [i \in 1..Len(list) |-> parts[i]]
  BY <1>1, Zenon
<1>6. Picked(list, places) = Concatenation(parts)
  BY Zenon DEF Picked
<1> HIDE DEF parts
<1>7. parts \in Seq(Seq(S)) /\ Len(parts) = Len(list)
  BY <1>1, <1>4, <1>5, MappedIs, Zenon
<1>8. /\ Concatenation(parts) \in Seq(S)
      /\ Range(Concatenation(parts)) = UNION {Range(parts[i]) : i \in 1..Len(list)}
  BY <1>7, ConcatenationRange
<1>9. UNION {Range(parts[i]) : i \in 1..Len(list)} = {list[i] : i \in places}
  BY <1>4, ZenonT(40)
<1> QED
  BY <1>6, <1>8, <1>9, Zenon

(* Positions are natural numbers.                                          *)
LEMMA PositionsNatural ==
    ASSUME NEW n \in Nat, NEW places \in SUBSET (1..n)
    PROVE  places \in SUBSET Nat
  OBVIOUS

(* Picking everything changes nothing.                                     *)
LEMMA PickedAll ==
    ASSUME NEW S, NEW list \in Seq(S)
    PROVE  Picked(list, DOMAIN list) = list
<1> DEFINE parts == [i \in DOMAIN list |-> IF i \in DOMAIN list THEN <<list[i]>> ELSE <<>>]
<1>1. DOMAIN list = 1..Len(list) /\ Len(list) \in Nat /\ \A i \in 1..Len(list) : list[i] \in S
  OBVIOUS
<1>2. parts = [i \in 1..Len(list) |-> <<list[i]>>]
  BY <1>1, Zenon
<1>3. Picked(list, DOMAIN list) = Concatenation(parts)
  BY Zenon DEF Picked
<1>4. Len(parts) = Len(list) /\ \A i \in 1..Len(list) : parts[i] = <<list[i]>>
  BY <1>1, <1>2
<1> HIDE DEF parts
<1>5. PICK f : /\ f[0] = <<>>
               /\ \A i \in 1..Len(list) : f[i] = f[i - 1] \o parts[i]
               /\ Concatenation(parts) = f[Len(list)]
  <2>1. Len(parts) \in Nat
    BY <1>1, <1>4, Zenon
  <2> QED
    BY <1>4, <2>1, ConcatenationIs, Zenon
<1> DEFINE Bad == {n \in 0..Len(list) : f[n] # SubSeq(list, 1, n)}
<1>6. Bad = {}
  <2>1. SUFFICES ASSUME Bad # {} PROVE FALSE
    BY Zenon
  <2>2. Bad \in SUBSET Nat
    BY <1>1
  <2> HIDE DEF Bad
  <2>3. PICK n \in Bad : \A m \in Bad : n <= m
    BY <2>1, <2>2, Least, Zenon
  <2> USE DEF Bad
  <2>4. n \in 0..Len(list) /\ f[n] # SubSeq(list, 1, n)
    BY <2>3, Zenon
  <2>5. CASE n = 0
    <3>1. SubSeq(list, 1, 0) = <<>>
      OBVIOUS
    <3> QED
      BY <1>5, <2>4, <2>5, <3>1, Zenon
  <2>6. CASE n # 0
    <3>1. n \in 1..Len(list) /\ n - 1 \in 0..Len(list) /\ ~(n <= n - 1)
      BY <1>1, <2>4, <2>6
    <3>2. f[n - 1] = SubSeq(list, 1, n - 1)
      BY <2>3, <3>1, Zenon
    <3>3. f[n] = SubSeq(list, 1, n - 1) \o <<list[n]>>
      BY <1>4, <1>5, <3>1, <3>2, Zenon
    <3>4. SubSeq(list, 1, n - 1) \o <<list[n]>> = SubSeq(list, 1, n)
      BY <1>1, <3>1
    <3> QED
      BY <2>4, <3>3, <3>4, Zenon
  <2> QED
    BY <2>5, <2>6, Zenon
<1>7. Len(list) \in 0..Len(list) /\ SubSeq(list, 1, Len(list)) = list
  BY <1>1
<1> QED
  BY <1>3, <1>5, <1>6, <1>7, Zenon

(* The first error is none if there is none.                               *)
LEMMA FirstErrorIs ==
    ASSUME NEW errors, NEW n \in Nat, DOMAIN errors = 1..n, FirstError(errors) = ""
    PROVE  \A i \in 1..n : errors[i] = ""
<1> DEFINE found == {i \in DOMAIN errors : errors[i] # ""}
<1>1. SUFFICES ASSUME found # {} PROVE FALSE
  BY Zenon
<1>2. found \in SUBSET (1..n)
  BY Zenon
<1>3. FirstError(errors) = errors[Min(found)]
  BY <1>1, Zenon DEF FirstError
<1> HIDE DEF found
<1>4. \E m \in found : \A k \in found : m <= k
  <2>1. found \in SUBSET Nat
    BY <1>2, PositionsNatural, Zenon
  <2> QED
    BY <1>1, <2>1, Least, Zenon
<1>5. Min(found) \in found
  BY <1>4, Zenon DEF Min
<1> USE DEF found
<1> QED
  BY <1>3, <1>5, Zenon

-----------------------------------------------------------------------------
(***************************************************************************)
(* The legacy routes                                                       *)
(***************************************************************************)

(* The answer to a call is that of the documents in the store, or the      *)
(* evaluation failed.                                                      *)
CallInv ==
    call # NoAnswer =>
        /\ phase = "serve"
        /\ \E clients \in DOMAIN CalledBy : call \in CalledBy[clients]
        /\ reply \in {Answer(call), Status(500, "internal_error")}

(* The results depend on nothing but the call and the documents.           *)
LEMMA ResultsKept ==
    ASSUME UNCHANGED <<docVars, pips>>, NEW c, NEW asked
    PROVE  Results(c, asked)' = Results(c, asked)
<1>1. ASSUME NEW resource
      PROVE  Canonical(Enrich(pips, Input(c, resource)))' = Canonical(Enrich(pips, Input(c, resource)))
  BY CanonicalKept, Zenon
<1> QED
  BY <1>1, Zenon DEF Results

(* Documents that stay give the answer that was given.                     *)
LEMMA AnswerKept ==
    ASSUME UNCHANGED <<docVars, pips>>
    PROVE  /\ \A c : Answer(c)' = Answer(c)
           /\ UNCHANGED call => Answer(call)' = Answer(call)
<1>1. \A c : Answer(c)' = Answer(c)
  BY ResultsKept, ZenonT(60) DEF Answer
<1>2. UNCHANGED call => Answer(call)' = Answer(call)
  BY ResultsKept, ZenonT(60) DEF Answer
<1> QED
  BY <1>1, <1>2, ZenonT(40)

(* What the single check says of a resource.                               *)
Granted(resource) == Canonical(Enrich(pips, Input(call, resource))).allow

(* The input is that of the headers, the context and the resource.         *)
LEMMA SameInput ==
    ASSUME NEW c, NEW d, d.headers = c.headers, d.context = c.context,
           NEW r, NEW t, t.resourceType = r.resourceType, t.operation = r.operation,
           t.resource = r.resource
    PROVE  Input(d, t) = Input(c, r)
  BY Zenon DEF Input, SubjectToken, IsAnonymous, RequestHeaders, Header

(* With a result for every resource, results and resources correspond.     *)
LEMMA ResultsAll ==
    ASSUME NEW c, NEW asked, asked \in Seq(Range(asked)),
           \A r \in Range(asked) : HasResult(r)
    PROVE  Results(c, asked) = [i \in 1..Len(asked) |-> Canonical(Enrich(pips, Input(c, asked[i])))]
<1>1. DOMAIN asked = 1..Len(asked) /\ \A i \in 1..Len(asked) : asked[i] \in Range(asked)
  BY ListIs, Zenon
<1>2. {i \in DOMAIN asked : HasResult(asked[i])} = DOMAIN asked
  BY <1>1, Zenon
<1>3. Picked(asked, {i \in DOMAIN asked : HasResult(asked[i])}) = asked
  BY <1>2, PickedAll, Zenon
<1> QED
  BY <1>1, <1>3, Zenon DEF Results

(* So those allowed are those granted.                                     *)
LEMMA AllowedAtIs ==
    ASSUME NEW asked, asked \in Seq(Range(asked)), \A r \in Range(asked) : HasResult(r)
    PROVE  AllowedAt(Results(call, asked), asked) = {i \in 1..Len(asked) : Granted(asked[i])}
<1> DEFINE results == Results(call, asked)
<1>1. Len(asked) \in Nat
  BY ListIs, Zenon
<1>2. results = [i \in 1..Len(asked) |-> Canonical(Enrich(pips, Input(call, asked[i])))]
  BY ResultsAll, Zenon
<1>3. \A i \in 1..Len(asked) : results[i] = Canonical(Enrich(pips, Input(call, asked[i])))
  BY <1>2, Zenon
<1>4. results = [i \in 1..Len(asked) |-> results[i]]
  BY <1>2, <1>3, Zenon
<1> HIDE DEF results
<1>5. Len(results) = Len(asked)
  BY <1>1, <1>4, MappedIs, Zenon
<1>6. Min({Len(results), Len(asked)}) = Len(asked)
  BY <1>1, <1>5 DEF Min
<1>7. AllowedAt(results, asked) = {i \in 1..Len(asked) : Granted(asked[i])}
  BY <1>3, <1>6, Zenon DEF AllowedAt, Granted
<1> QED
  BY <1>7, Zenon DEF results

(* The ids at some positions.                                              *)
LEMMA IdsAtIs ==
    ASSUME NEW asked, asked \in Seq(Range(asked)), NEW places \in SUBSET (1..Len(asked))
    PROVE  Range(IdsAt(asked, places)) = {asked[i].id : i \in places} \ {""}
<1> DEFINE ids == [i \in DOMAIN asked |-> asked[i].id]
           named == {i \in places : asked[i].id # ""}
<1>1. DOMAIN asked = 1..Len(asked) /\ Len(asked) \in Nat
  BY ListIs, Zenon
<1>2. IdsAt(asked, places) = Picked(ids, named)
  BY Zenon DEF IdsAt
<1>3. \A i \in 1..Len(asked) : ids[i] = asked[i].id
  BY <1>1, Zenon
<1>4. ids = [i \in 1..Len(asked) |-> ids[i]]
  BY <1>1, Zenon
<1>5. named \in SUBSET (1..Len(asked)) /\ \A i \in places : i \in named <=> asked[i].id # ""
  BY Zenon
<1>6. {asked[i].id : i \in named} = {asked[i].id : i \in places} \ {""}
  BY Zenon
<1> HIDE DEF ids, named
<1>7. ids \in Seq(Range(ids)) /\ Len(ids) = Len(asked)
  BY <1>1, <1>4, MappedIs, Zenon
<1>8. Range(Picked(ids, named)) = {ids[i] : i \in named}
  BY <1>5, <1>7, PickedRange, ZenonT(40)
<1>9. {ids[i] : i \in named} = {asked[i].id : i \in named}
  BY <1>3, <1>5, ZenonT(40)
<1> QED
  BY <1>2, <1>6, <1>8, <1>9, Zenon

(* A body that is answered was parsed and admitted, or asks nothing.       *)
LEMMA AnswerOk ==
    ASSUME NEW c
    PROVE  Answer(c).status = 200 =>
             /\ ParseBody(c).error = ""
             /\ \/ /\ c.route \in {"operations", "operationsV2"} /\ ParseBody(c).resources = <<>>
                   /\ Answer(c).body = Shape(c.route, <<>>, <<>>)
                \/ /\ Identity[Header(c, "authorization")].valid
                   /\ Answer(c).body = Shape(c.route, Results(c, ParseBody(c).resources),
                                             ParseBody(c).resources)
<1> DEFINE error == ParseBody(c).error
           nothing == c.route \in {"operations", "operationsV2"} /\ ParseBody(c).resources = <<>>
           admitted == Identity[Header(c, "authorization")].valid
           empty == Shape(c.route, <<>>, <<>>)
           full == Shape(c.route, Results(c, ParseBody(c).resources), ParseBody(c).resources)
           a == Answer(c)
<1>1. a = IF error # ""
          THEN Status(400, error)
          ELSE IF nothing
          THEN Status(200, empty)
          ELSE IF ~admitted THEN Status(401, "unauthorized") ELSE Status(200, full)
  BY Zenon DEF Answer
<1>2. /\ Status(400, error).status = 400 /\ Status(401, "unauthorized").status = 401
      /\ Status(200, empty).body = empty /\ Status(200, full).body = full
  BY Zenon DEF Status
<1> HIDE DEF error, nothing, admitted, empty, full, a
<1>3. /\ error # "" => a = Status(400, error)
      /\ error = "" /\ nothing => a = Status(200, empty)
      /\ error = "" /\ ~nothing /\ ~admitted => a = Status(401, "unauthorized")
      /\ error = "" /\ ~nothing /\ admitted => a = Status(200, full)
  BY <1>1, Zenon
<1>4. error # "" => a.status = 400
  <2>1. Status(400, error).status = 400 /\ (error # "" => a = Status(400, error))
    BY <1>2, <1>3, Zenon
  <2> QED
    BY <2>1, Zenon
<1>5. error = "" /\ ~nothing /\ ~admitted => a.status = 401
  <2>1. /\ Status(401, "unauthorized").status = 401
        /\ error = "" /\ ~nothing /\ ~admitted => a = Status(401, "unauthorized")
    BY <1>2, <1>3, Zenon
  <2> QED
    BY <2>1, Zenon
<1>6. error = "" /\ nothing => a.body = empty
  BY <1>2, <1>3, Zenon
<1>7. error = "" /\ ~nothing /\ admitted => a.body = full
  BY <1>2, <1>3, Zenon
<1>8. a.status = 200 => error = "" /\ ((nothing /\ a.body = empty) \/ (admitted /\ a.body = full))
  <2> DEFINE code == a.status
             parsed == error = ""
             first == a.body = empty
             second == a.body = full
  <2>1. /\ ~parsed => code = 400
        /\ parsed /\ ~nothing /\ ~admitted => code = 401
        /\ parsed /\ nothing => first
        /\ parsed /\ ~nothing /\ admitted => second
    BY <1>4, <1>5, <1>6, <1>7, Zenon
  <2> HIDE DEF code, parsed, first, second
  <2>2. code = 200 => parsed /\ ((nothing /\ first) \/ (admitted /\ second))
    BY <2>1, SMT
  <2> QED
    BY <2>2, Zenon DEF code, parsed, first, second
<1> QED
  BY <1>8, Zenon DEF error, nothing, admitted, empty, full, a

(* What is asked for.                                                      *)
LEMMA AsksIs == \A resources : Asks(resources).error = "" /\ Asks(resources).resources = resources
  BY Zenon DEF Asks

(* Asking of a resource alone.                                             *)
LEMMA AloneIs ==
    ASSUME {"route", "body", "headers", "context"} \subseteq DOMAIN call,
           Identity[Header(call, "authorization")].valid,
           NEW type, NEW operation, NEW resource, NEW id,
           Present(type), Present(operation), IsText(type), IsText(operation)
    PROVE  AllowedAlone(type, operation, resource) <=>
             Granted(NewResource(type, operation, resource, id))
<1> DEFINE item == [type |-> type, operation |-> operation, resource |-> resource, id |-> Absent]
           body == Fields(item)
           c == [call EXCEPT !.route = "resource", !.body = body]
           one == NewResource(type, operation, resource, Absent)
           asked == NewResource(type, operation, resource, id)
           answered == Canonical(Enrich(pips, Input(c, one)))
           list == <<one>>
<1>1. c.route = "resource" /\ c.body = body /\ c.headers = call.headers /\ c.context = call.context
  BY Zenon
<1>2. body[1] = "fields" /\ body[2] = item /\ body # Malformed
  BY DEF Fields, Malformed
<1>3. item.type = type /\ item.operation = operation /\ item.resource = resource /\ item.id = Absent
  BY Zenon
<1>4. /\ one.resourceType = type /\ one.operation = operation
      /\ asked.resourceType = type /\ asked.operation = operation /\ asked.resource = one.resource
  BY Zenon DEF NewResource
<1>5. AllowedAlone(type, operation, resource) = Answer(c).body
  BY Zenon DEF AllowedAlone
<1> HIDE DEF item
<1>6. ItemError(body) = "" /\ ItemResource(body) = one
  BY <1>2, <1>3, Zenon DEF ItemError, ItemResource
<1> HIDE DEF body
<1>7. CheckResource(body) = Asks(<<one>>)
  BY <1>2, <1>6, Zenon DEF CheckResource
<1> HIDE DEF c
<1>8. ParseBody(c) = Asks(<<one>>)
  BY <1>1, <1>7, Zenon DEF ParseBody
<1>9. ParseBody(c).error = "" /\ ParseBody(c).resources = <<one>>
  BY <1>8, AsksIs, Zenon
<1>10. Identity[Header(c, "authorization")].valid
  BY <1>1, Zenon DEF Header
<1>11. Answer(c).body = FirstAllowed(Results(c, list))
  BY <1>1, <1>9, <1>10, Zenon DEF Answer, Status, Shape
<1>12. HasResult(one)
  BY <1>4, Zenon DEF HasResult
<1> HIDE DEF one, asked
<1>13. list \in Seq({one}) /\ Len(list) = 1 /\ list[1] = one
  OBVIOUS
<1> HIDE DEF list
<1>14. Range(list) = {one}
  BY <1>13 DEF Range
<1>15. Results(c, list) = [i \in 1..Len(list) |-> Canonical(Enrich(pips, Input(c, list[i])))]
  <2>1. list \in Seq(Range(list))
    BY <1>13, <1>14, Zenon
  <2>2. \A r \in Range(list) : HasResult(r)
    BY <1>12, <1>14, Zenon
  <2> QED
    BY <2>1, <2>2, ResultsAll
<1>16. Results(c, list) # <<>> /\ Head(Results(c, list)) = answered
  <2> DEFINE f(i) == Canonical(Enrich(pips, Input(c, list[i])))
  <2>1. f(1) = answered
    BY <1>13, Zenon
  <2>2. Results(c, list) = [i \in 1..1 |-> f(i)]
    BY <1>13, <1>15, Zenon
  <2> HIDE DEF f
  <2>3. [i \in 1..1 |-> f(i)] = <<f(1)>>
    OBVIOUS
  <2> QED
    BY <2>1, <2>2, <2>3
<1>17. FirstAllowed(Results(c, list)) <=> answered.allow
  BY <1>16, ZenonT(40) DEF FirstAllowed
<1>18. Input(c, one) = Input(call, asked)
  BY <1>1, <1>4, SameInput, SMTT(30)
<1>19. AllowedAlone(type, operation, resource) <=> Granted(asked)
  BY <1>5, <1>11, <1>17, <1>18, ZenonT(40) DEF Granted
<1> QED
  BY <1>19, Zenon DEF asked

(* A call of a client that was answered, about strings only.               *)
Answered(route) ==
    /\ call.route = route
    /\ \E clients \in DOMAIN CalledBy : call \in CalledBy[clients]
    /\ Answer(call).status = 200
    /\ \A r \in Range(ParseBody(call).resources) : HasResult(r)

(* Its arrays are lists.                                                   *)
LEMMA CallTyped ==
    ASSUME NEW clients \in DOMAIN CalledBy, NEW c \in CalledBy[clients]
    PROVE  /\ {"route", "body", "headers", "context"} \subseteq DOMAIN c
           /\ c.route = "bulk" => IsList(c.body)
           /\ c.route = "operations" => IsList(c.body) /\ ListsOperations(c.body)
           /\ c.route = "operationsV2" /\ c.body[1] = "fields" =>
                 IsList(c.body[2].entries) /\ ListsOperations(c.body[2].entries)
  BY CallAssumption, Zenon

(* A bulk of resources.                                                    *)
LEMMA BulkMeans ==
    ASSUME Answered("bulk")
    PROVE  Range(Answer(call).body) =
             {TextOf(item[2].id) : item \in
                 {i \in BulkItems : AllowedAlone(i[2].type, i[2].operation, i[2].resource)}} \ {""}
<1> DEFINE items == call.body[2]
           errors == [i \in DOMAIN items |-> ItemError(items[i])]
           asked == [i \in DOMAIN items |-> ItemResource(items[i])]
           Alone(item) == AllowedAlone(item[2].type, item[2].operation, item[2].resource)
<1>0. {"route", "body", "headers", "context"} \subseteq DOMAIN call /\ IsList(call.body)
  <2>1. PICK clients \in DOMAIN CalledBy : call \in CalledBy[clients]
    BY Zenon DEF Answered
  <2>2. call.route = "bulk"
    BY Zenon DEF Answered
  <2> QED
    BY <2>1, <2>2, CallTyped, Zenon
<1>1. ParseBody(call) = Listed(call.body, errors, asked)
  BY Zenon DEF ParseBody, CheckResourceBulk, Answered
<1>2. /\ ParseBody(call).error = ""
      /\ Identity[Header(call, "authorization")].valid
      /\ Answer(call).body = CheckResourceBulkResponse(Results(call, ParseBody(call).resources),
                                   ParseBody(call).resources)
  <2>1. call.route \notin {"operations", "operationsV2"}
    BY Zenon DEF Answered
  <2>2. Shape(call.route, Results(call, ParseBody(call).resources), ParseBody(call).resources) =
          CheckResourceBulkResponse(Results(call, ParseBody(call).resources), ParseBody(call).resources)
    BY Zenon DEF Shape, Answered
  <2>3. Answer(call).status = 200
    BY Zenon DEF Answered
  <2>4. /\ ParseBody(call).error = ""
        /\ Identity[Header(call, "authorization")].valid
        /\ Answer(call).body = Shape(call.route, Results(call, ParseBody(call).resources),
                                     ParseBody(call).resources)
    BY <2>1, <2>3, AnswerOk, Zenon
  <2> QED
    BY <2>2, <2>4, Zenon
<1> HIDE DEF errors, asked
<1>3. call.body[1] = "array" /\ FirstError(errors) = "" /\ ParseBody(call).resources = asked
  <2>1. Listed(call.body, errors, asked).error = ""
    BY <1>1, <1>2, Zenon
  <2>2. /\ call.body[1] = "array" /\ FirstError(errors) = ""
        /\ Listed(call.body, errors, asked).resources = asked
    BY <2>1, Zenon DEF Listed, Error, BadRequest, Asks
  <2> QED
    BY <1>1, <2>2, Zenon
<1>4. Answer(call).body = IdsAt(asked, AllowedAt(Results(call, asked), asked))
  BY <1>2, <1>3, Zenon DEF CheckResourceBulkResponse
<1>5. items \in Seq(Range(items))
  BY <1>0, <1>3, Zenon DEF IsList, IsArray
<1> HIDE DEF items
<1>6. DOMAIN items = 1..Len(items) /\ Len(items) \in Nat /\ Range(items) = {items[i] : i \in 1..Len(items)}
  BY <1>5, ListIs, Zenon
<1>7. DOMAIN errors = 1..Len(items) /\ \A i \in 1..Len(items) : errors[i] = ItemError(items[i])
  BY <1>6, Zenon DEF errors
<1>8. asked = [i \in 1..Len(items) |-> asked[i]] /\ \A i \in 1..Len(items) : asked[i] = ItemResource(items[i])
  BY <1>6, Zenon DEF asked
<1>9. asked \in Seq(Range(asked)) /\ Len(asked) = Len(items)
  BY <1>6, <1>8, MappedIs, Zenon
<1>10. \A i \in 1..Len(items) : asked[i] \in Range(asked)
  BY <1>9, ListIs, Zenon
<1>11. AllowedAt(Results(call, asked), asked) = {i \in 1..Len(items) : Granted(asked[i])}
  BY <1>3, <1>9, AllowedAtIs, Zenon DEF Answered
<1>12. Range(Answer(call).body) = {asked[i].id : i \in {j \in 1..Len(items) : Granted(asked[j])}} \ {""}
  <2> DEFINE places == {i \in 1..Len(items) : Granted(asked[i])}
  <2>1. places \in SUBSET (1..Len(asked))
    BY <1>9, Zenon
  <2>2. Answer(call).body = IdsAt(asked, places)
    BY <1>4, <1>11, Zenon
  <2> HIDE DEF places
  <2>3. Range(Answer(call).body) = {asked[i].id : i \in places} \ {""}
    BY <1>9, <2>1, <2>2, IdsAtIs, Zenon
  <2> QED
    BY <2>3, Zenon DEF places
<1>13. ASSUME NEW i \in 1..Len(items)
       PROVE  asked[i].id = TextOf(items[i][2].id) /\ (Granted(asked[i]) <=> Alone(items[i]))
  <2>1. ItemError(items[i]) = ""
    BY <1>3, <1>6, <1>7, FirstErrorIs, Zenon
  <2>2. Present(items[i][2].type) /\ Present(items[i][2].operation)
    BY <2>1, Zenon DEF ItemError
  <2>3. asked[i] = NewResource(items[i][2].type, items[i][2].operation, items[i][2].resource, items[i][2].id)
    BY <1>8, Zenon DEF ItemResource
  <2>4. /\ asked[i].resourceType = items[i][2].type /\ asked[i].operation = items[i][2].operation
        /\ asked[i].id = TextOf(items[i][2].id)
    BY <2>3 DEF NewResource
  <2>5. IsText(items[i][2].type) /\ IsText(items[i][2].operation)
    BY <1>3, <1>10, <2>4, Zenon DEF HasResult, Answered
  <2>6. Alone(items[i]) <=>
          Granted(NewResource(items[i][2].type, items[i][2].operation, items[i][2].resource, items[i][2].id))
    BY <1>0, <1>2, <2>2, <2>5, AloneIs, ZenonT(40)
  <2> QED
    BY <2>3, <2>4, <2>6, Zenon
<1>14. BulkItems = {items[i] : i \in 1..Len(items)}
  BY <1>6, Zenon DEF BulkItems, items, Answered
<1> HIDE DEF Alone
<1>15. {asked[i].id : i \in {j \in 1..Len(items) : Granted(asked[j])}} =
         {TextOf(item[2].id) : item \in {i \in BulkItems : Alone(i)}}
  <2> DEFINE left == {asked[i].id : i \in {j \in 1..Len(items) : Granted(asked[j])}}
             right == {TextOf(item[2].id) : item \in {i \in BulkItems : Alone(i)}}
  <2>1. ASSUME NEW id \in left PROVE id \in right
    <3>1. PICK i \in 1..Len(items) : Granted(asked[i]) /\ id = asked[i].id
      BY <2>1, Zenon
    <3>2. items[i] \in BulkItems /\ Alone(items[i]) /\ id = TextOf(items[i][2].id)
      BY <1>13, <1>14, <3>1, Zenon
    <3> QED
      BY <3>2, Zenon
  <2>2. ASSUME NEW id \in right PROVE id \in left
    <3>1. PICK item \in BulkItems : Alone(item) /\ id = TextOf(item[2].id)
      BY <2>2, Zenon
    <3>2. PICK i \in 1..Len(items) : item = items[i]
      BY <1>14, <3>1, Zenon
    <3>3. Granted(asked[i]) /\ id = asked[i].id
      BY <1>13, <3>1, <3>2, Zenon
    <3> QED
      BY <3>3, Zenon
  <2> QED
    BY <2>1, <2>2, Zenon
<1> QED
  BY <1>12, <1>15, Zenon DEF Alone

(* An entry of a bulk of operations that is accepted, and what it asks.    *)
Accepted(item) == OperationsError(item) = "" /\ IsList(item[2].operations)
OneOf(item, op) == NewResource(item[2].type, Text(op), item[2].resource, item[2].id)
Wanted(item) == {OneOf(item, op) : op \in OperationNames(item)}

(* An entry asks for its operations, but for the empty ones.               *)
LEMMA ExpandIs ==
    ASSUME NEW item, Accepted(item)
    PROVE  Expand(item) \in Seq(Wanted(item)) /\ Range(Expand(item)) = Wanted(item)
<1> DEFINE operations == item[2].operations[2]
           New(op) == OneOf(item, op)
           asked == [k \in DOMAIN operations |-> New(TextOf(operations[k]))]
           places == {k \in DOMAIN operations : TextOf(operations[k]) # ""}
           picked == Picked(asked, places)
<1>1. Expand(item) = picked
  BY Zenon DEF Expand, OneOf
<1>2. IsArray(item[2].operations)
  BY Zenon DEF Accepted, OperationsError
<1>3. operations \in Seq(Range(operations))
  BY <1>2, Zenon DEF Accepted, IsList
<1>4. OperationNames(item) = {TextOf(op) : op \in Range(operations)} \ {""}
  BY Zenon DEF OperationNames
<1>5. Wanted(item) = {New(op) : op \in OperationNames(item)}
  BY Zenon DEF Wanted
<1> HIDE DEF operations, New
<1>6. /\ DOMAIN operations = 1..Len(operations) /\ Len(operations) \in Nat
      /\ Range(operations) = {operations[k] : k \in 1..Len(operations)}
  BY <1>3, ListIs, Zenon
<1>7. /\ asked = [k \in 1..Len(operations) |-> asked[k]]
      /\ \A k \in 1..Len(operations) : asked[k] = New(TextOf(operations[k]))
  BY <1>6, Zenon
<1>8. /\ places \in SUBSET (1..Len(operations))
      /\ \A k \in 1..Len(operations) : k \in places <=> TextOf(operations[k]) # ""
  BY <1>6, Zenon
<1> HIDE DEF asked, places
<1>9. asked \in Seq(Range(asked)) /\ Len(asked) = Len(operations)
  BY <1>6, <1>7, MappedIs, Zenon
<1>10. picked \in Seq(Range(asked)) /\ Range(picked) = {asked[k] : k \in places}
  BY <1>8, <1>9, PickedRange, ZenonT(40)
<1>11. {asked[k] : k \in places} = Wanted(item)
  <2>1. \A k \in places : asked[k] \in Wanted(item)
    BY <1>4, <1>5, <1>6, <1>7, <1>8, Zenon
  <2>2. ASSUME NEW op \in OperationNames(item)
        PROVE  \E k \in places : asked[k] = New(op)
    <3>1. PICK k \in 1..Len(operations) : op = TextOf(operations[k]) /\ op # ""
      BY <1>4, <1>6, <2>2, Zenon
    <3> QED
      BY <1>7, <1>8, <3>1, Zenon
  <2> QED
    BY <1>5, <2>1, <2>2, Zenon
<1> HIDE DEF picked
<1>12. picked \in Seq(Wanted(item))
  <2>1. Range(picked) = Wanted(item)
    BY <1>10, <1>11, Zenon
  <2>2. picked = [k \in 1..Len(picked) |-> picked[k]] /\ Len(picked) \in Nat
        /\ \A k \in 1..Len(picked) : picked[k] \in Range(picked)
    BY <1>10 DEF Range
  <2> QED
    BY <2>1, <2>2, MappedIs, Zenon
<1> QED
  BY <1>1, <1>10, <1>11, <1>12, Zenon

(* The entries of a bulk of operations, and what it asks.                  *)
Entries(items) ==
    /\ items \in Seq(Range(items))
    /\ \A item \in Range(items) : Accepted(item)
    /\ BulkItems = Range(items)
    /\ ParseBody(call).resources = Concatenation([i \in DOMAIN items |-> Expand(items[i])])

(* A bulk asks for what its entries ask.                                   *)
LEMMA AskedIs ==
    ASSUME NEW items, Entries(items), NEW asked, asked = ParseBody(call).resources
    PROVE  /\ asked \in Seq(Range(asked))
           /\ Range(asked) = UNION {Wanted(item) : item \in BulkItems}
<1> DEFINE lists == [i \in DOMAIN items |-> Expand(items[i])]
           every == UNION {Wanted(item) : item \in BulkItems}
           joined == Concatenation(lists)
<1>1. /\ DOMAIN items = 1..Len(items) /\ Len(items) \in Nat
      /\ Range(items) = {items[i] : i \in 1..Len(items)}
      /\ BulkItems = Range(items)
  BY ListIs, Zenon DEF Entries
<1>2. asked = joined
  BY Zenon DEF Entries
<1>3. lists = [i \in 1..Len(items) |-> lists[i]] /\ \A i \in 1..Len(items) : lists[i] = Expand(items[i])
  BY <1>1, Zenon
<1>4. ASSUME NEW i \in 1..Len(items)
      PROVE  Expand(items[i]) \in Seq(Wanted(items[i])) /\ Range(Expand(items[i])) = Wanted(items[i])
  BY <1>1, ExpandIs, Zenon DEF Entries
<1>5. ASSUME NEW i \in 1..Len(items)
      PROVE  lists[i] \in Seq(every) /\ Range(lists[i]) = Wanted(items[i])
  <2>1. Wanted(items[i]) \subseteq every
    BY <1>1, Zenon
  <2> HIDE DEF every, lists
  <2>2. lists[i] \in Seq(Wanted(items[i]))
    BY <1>3, <1>4, Zenon
  <2>3. lists[i] \in Seq(every)
    BY <2>1, <2>2
  <2> QED
    BY <1>3, <1>4, <2>3, Zenon
<1>6. every = UNION {Wanted(items[i]) : i \in 1..Len(items)}
  BY <1>1, ZenonT(40)
<1> HIDE DEF lists, every
<1>7. lists \in Seq(Seq(every)) /\ Len(lists) = Len(items)
  BY <1>1, <1>3, <1>5, MappedIs, Zenon
<1>8. joined \in Seq(every) /\ Range(joined) = UNION {Range(lists[i]) : i \in 1..Len(items)}
  BY <1>7, ConcatenationRange, Zenon
<1>9. {Range(lists[i]) : i \in 1..Len(items)} = {Wanted(items[i]) : i \in 1..Len(items)}
  BY <1>5, Zenon
<1>10. Range(joined) = every
  BY <1>6, <1>8, <1>9, Zenon
<1> HIDE DEF joined
<1> QED
  BY <1>2, <1>8, <1>10, Zenon DEF every

(* A resource that is asked for is one of an entry and an operation.       *)
LEMMA WantedIs ==
    ASSUME NEW item, Accepted(item), NEW op \in OperationNames(item)
    PROVE  /\ OneOf(item, op).operation[2] = op
           /\ OneOf(item, op).id = TextOf(item[2].id)
           /\ OneOf(item, op).resourceType = item[2].type
           /\ Present(item[2].type) /\ Present(Text(op)) /\ IsText(Text(op))
<1>1. /\ OneOf(item, op).operation = Text(op) /\ OneOf(item, op).id = TextOf(item[2].id)
      /\ OneOf(item, op).resourceType = item[2].type
  BY Zenon DEF OneOf, NewResource
<1>2. Text(op)[2] = op /\ IsText(Text(op))
  BY DEF Text, IsText
<1>3. Present(item[2].type)
  BY Zenon DEF Accepted, OperationsError
<1>4. op # ""
  BY Zenon DEF OperationNames
<1>5. Present(Text(op))
  BY <1>4, Zenon DEF Present, Text, Absent, Null
<1> QED
  BY <1>1, <1>2, <1>3, <1>5, Zenon

(* A bulk of operations.                                                   *)
LEMMA OperationsMean ==
    ASSUME NEW route \in {"operations", "operationsV2"}, Answered(route), NEW items, Entries(items)
    PROVE  /\ DOMAIN Answer(call).body = UNION {OperationNames(item) : item \in BulkItems}
           /\ \A op \in DOMAIN Answer(call).body :
                 Range(Answer(call).body[op]) =
                   {TextOf(item[2].id) : item \in
                       {i \in BulkItems : /\ op \in OperationNames(i)
                                          /\ AllowedAlone(i[2].type, Text(op), i[2].resource)}} \ {""}
<1> DEFINE asked == ParseBody(call).resources
           body == Answer(call).body
<1>1. /\ asked \in Seq(Range(asked))
      /\ Range(asked) = UNION {Wanted(item) : item \in BulkItems}
  BY AskedIs, Zenon
<1>2. \A r \in Range(asked) : HasResult(r)
  BY Zenon DEF Answered
<1>3. {"route", "body", "headers", "context"} \subseteq DOMAIN call
  <2>1. PICK clients \in DOMAIN CalledBy : call \in CalledBy[clients]
    BY Zenon DEF Answered
  <2> QED
    BY <2>1, CallTyped, Zenon
<1>4. \/ asked = <<>> /\ body = CheckResourceBulkOperationsResponse(<<>>, <<>>)
      \/ /\ Identity[Header(call, "authorization")].valid
         /\ body = CheckResourceBulkOperationsResponse(Results(call, asked), asked)
  <2>1. call.route = route /\ Answer(call).status = 200
    BY Zenon DEF Answered
  <2>2. \A results, list :
          Shape(call.route, results, list) = CheckResourceBulkOperationsResponse(results, list)
    BY <2>1, Zenon DEF Shape
  <2>3. \/ asked = <<>> /\ body = Shape(call.route, <<>>, <<>>)
        \/ /\ Identity[Header(call, "authorization")].valid
           /\ body = Shape(call.route, Results(call, asked), asked)
    BY <2>1, AnswerOk, Zenon
  <2>4. Shape(call.route, <<>>, <<>>) = CheckResourceBulkOperationsResponse(<<>>, <<>>)
    BY <2>2, Zenon
  <2>5. Shape(call.route, Results(call, asked), asked) =
          CheckResourceBulkOperationsResponse(Results(call, asked), asked)
    BY <2>2, Zenon
  <2> HIDE DEF asked, body
  <2> QED
    BY <2>3, <2>4, <2>5, Zenon
<1>5. \A item \in BulkItems : Accepted(item)
  BY Zenon DEF Entries
<1>6. \A item : Wanted(item) = {OneOf(item, op) : op \in OperationNames(item)}
  BY Zenon DEF Wanted
<1>7. ASSUME NEW item \in BulkItems, NEW op \in OperationNames(item) PROVE OneOf(item, op).operation[2] = op
  <2>1. Accepted(item)
    BY <1>5, Zenon
  <2> QED
    BY <2>1, WantedIs, Zenon
<1> HIDE DEF asked, body
<1>8. /\ DOMAIN asked = 1..Len(asked) /\ Range(asked) = {asked[i] : i \in 1..Len(asked)}
      /\ \A i \in 1..Len(asked) :
            \E item \in BulkItems : \E op \in OperationNames(item) : asked[i] = OneOf(item, op)
      /\ \A item \in BulkItems : \A op \in OperationNames(item) :
            \E i \in 1..Len(asked) : asked[i] = OneOf(item, op)
  <2>1. DOMAIN asked = 1..Len(asked) /\ Range(asked) = {asked[i] : i \in 1..Len(asked)}
    BY <1>1, ListIs, Zenon
  <2>2. ASSUME NEW i \in 1..Len(asked)
        PROVE  \E item \in BulkItems : \E op \in OperationNames(item) : asked[i] = OneOf(item, op)
    <3>1. PICK item \in BulkItems : asked[i] \in Wanted(item)
      BY <1>1, <2>1, Zenon
    <3> QED
      BY <1>6, <3>1, Zenon
  <2>3. ASSUME NEW item \in BulkItems, NEW op \in OperationNames(item)
        PROVE  \E i \in 1..Len(asked) : asked[i] = OneOf(item, op)
    <3>1. OneOf(item, op) \in Wanted(item)
      BY <1>6, Zenon
    <3>2. OneOf(item, op) \in Range(asked)
      BY <1>1, <3>1, Zenon
    <3> QED
      BY <2>1, <3>2, Zenon
  <2> QED
    BY <2>1, <2>2, <2>3, Zenon
<1>9. DOMAIN body = {asked[i].operation[2] : i \in DOMAIN asked}
  <2>1. \A results, list :
          DOMAIN CheckResourceBulkOperationsResponse(results, list) = {list[i].operation[2] : i \in DOMAIN list}
    BY Zenon DEF CheckResourceBulkOperationsResponse
  <2>2. CASE asked = <<>> /\ body = CheckResourceBulkOperationsResponse(<<>>, <<>>)
    <3>1. body = CheckResourceBulkOperationsResponse(<<>>, asked)
      BY <2>2, Zenon
    <3> QED
      BY <2>1, <3>1, Zenon
  <2>3. CASE body = CheckResourceBulkOperationsResponse(Results(call, asked), asked)
    BY <2>1, <2>3, Zenon
  <2> QED
    BY <1>4, <2>2, <2>3, Zenon
<1>10. DOMAIN body = UNION {OperationNames(item) : item \in BulkItems}
  <2>1. ASSUME NEW op \in DOMAIN body PROVE \E item \in BulkItems : op \in OperationNames(item)
    <3>1. PICK i \in 1..Len(asked) : op = asked[i].operation[2]
      BY <1>8, <1>9, <2>1, Zenon
    <3>2. PICK item \in BulkItems : \E o \in OperationNames(item) : asked[i] = OneOf(item, o)
      BY <1>8, Zenon
    <3> QED
      BY <1>7, <3>1, <3>2, Zenon
  <2>2. ASSUME NEW item \in BulkItems, NEW op \in OperationNames(item) PROVE op \in DOMAIN body
    <3>1. PICK i \in 1..Len(asked) : asked[i] = OneOf(item, op)
      BY <1>8, Zenon
    <3> QED
      <4>1. op = asked[i].operation[2] /\ i \in DOMAIN asked
        BY <1>7, <1>8, <3>1, Zenon
      <4> QED
        BY <1>9, <4>1, Zenon
  <2> QED
    BY <2>1, <2>2, Zenon
<1>11. ASSUME NEW op \in DOMAIN body
       PROVE  Range(body[op]) =
                {TextOf(item[2].id) : item \in
                    {i \in BulkItems : /\ op \in OperationNames(i)
                                       /\ AllowedAlone(i[2].type, Text(op), i[2].resource)}} \ {""}
  <2> DEFINE places == {i \in 1..Len(asked) : Granted(asked[i]) /\ asked[i].operation[2] = op}
             Alone(item) == AllowedAlone(item[2].type, Text(op), item[2].resource)
             left == {asked[i].id : i \in places}
             right == {TextOf(item[2].id) : item \in {i \in BulkItems : op \in OperationNames(i) /\ Alone(i)}}
  <2>1. asked # <<>>
    <3>1. PICK i \in 1..Len(asked) : op = asked[i].operation[2]
      BY <1>8, <1>9, Zenon
    <3> QED
      BY <3>1
  <2>2. /\ Identity[Header(call, "authorization")].valid
        /\ body = CheckResourceBulkOperationsResponse(Results(call, asked), asked)
    BY <1>4, <2>1, Zenon
  <2>3. body[op] = IdsAt(asked, {i \in AllowedAt(Results(call, asked), asked) : asked[i].operation[2] = op})
    BY <1>9, <2>2, Zenon DEF CheckResourceBulkOperationsResponse
  <2>4. AllowedAt(Results(call, asked), asked) = {i \in 1..Len(asked) : Granted(asked[i])}
    BY <1>1, <1>2, AllowedAtIs, Zenon
  <2>5. {i \in AllowedAt(Results(call, asked), asked) : asked[i].operation[2] = op} = places
    BY <2>4, Zenon
  <2>6. places \in SUBSET (1..Len(asked))
    BY Zenon
  <2>7. \A i : i \in places <=> i \in 1..Len(asked) /\ Granted(asked[i]) /\ asked[i].operation[2] = op
    BY Zenon
  <2> HIDE DEF places
  <2>8. Range(body[op]) = left \ {""}
    BY <1>1, <2>3, <2>5, <2>6, IdsAtIs, Zenon
  <2>9. ASSUME NEW item \in BulkItems, op \in OperationNames(item),
               NEW i \in 1..Len(asked), asked[i] = OneOf(item, op)
        PROVE  asked[i].id = TextOf(item[2].id) /\ (Granted(asked[i]) <=> Alone(item))
    <3>1. /\ asked[i].id = TextOf(item[2].id) /\ asked[i].resourceType = item[2].type
          /\ Present(item[2].type) /\ Present(Text(op)) /\ IsText(Text(op))
      <4>1. Accepted(item)
        BY <1>5, Zenon
      <4> QED
        <5>1. /\ OneOf(item, op).id = TextOf(item[2].id) /\ OneOf(item, op).resourceType = item[2].type
              /\ Present(item[2].type) /\ Present(Text(op)) /\ IsText(Text(op))
          BY <2>9, <4>1, WantedIs, Zenon
        <5> QED
          BY <2>9, <5>1, Zenon
    <3>2. IsText(item[2].type)
      BY <1>2, <1>8, <3>1, Zenon DEF HasResult
    <3>3. Alone(item) <=> Granted(OneOf(item, op))
      BY <1>3, <2>2, <3>1, <3>2, AloneIs, Zenon DEF OneOf
    <3> QED
      BY <2>9, <3>1, <3>3, Zenon
  <2> HIDE DEF Alone
  <2>10. ASSUME NEW id \in left PROVE id \in right
    <3>1. PICK i \in 1..Len(asked) : Granted(asked[i]) /\ asked[i].operation[2] = op /\ id = asked[i].id
      BY <2>7, <2>10, Zenon
    <3>2. PICK item \in BulkItems : \E o \in OperationNames(item) : asked[i] = OneOf(item, o)
      BY <1>8, Zenon
    <3>3. op \in OperationNames(item) /\ asked[i] = OneOf(item, op)
      BY <1>7, <3>1, <3>2, Zenon
    <3>4. id = TextOf(item[2].id) /\ Alone(item)
      BY <2>9, <3>1, <3>3, Zenon
    <3> QED
      BY <3>3, <3>4, Zenon
  <2>11. ASSUME NEW id \in right PROVE id \in left
    <3>1. PICK item \in BulkItems : op \in OperationNames(item) /\ Alone(item) /\ id = TextOf(item[2].id)
      BY <2>11, Zenon
    <3>2. PICK i \in 1..Len(asked) : asked[i] = OneOf(item, op)
      BY <1>8, <3>1, Zenon
    <3>3. Granted(asked[i]) /\ asked[i].operation[2] = op /\ id = asked[i].id
      BY <1>7, <2>9, <3>1, <3>2, Zenon
    <3> QED
      BY <2>7, <3>3, Zenon
  <2>12. left = right
    BY <2>10, <2>11, Zenon
  <2> QED
    BY <2>8, <2>12, Zenon DEF Alone
<1> QED
  BY <1>10, <1>11, Zenon DEF body

(* What the two routes of operations ask.                                  *)
LEMMA ListedOperations ==
    ASSUME NEW body, IsList(body), ListsOperations(body), CheckResourceBulkOperations(body).error = ""
    PROVE  /\ body[2] \in Seq(Range(body[2]))
           /\ \A item \in Range(body[2]) : Accepted(item)
           /\ CheckResourceBulkOperations(body).resources =
                Concatenation([i \in DOMAIN body[2] |-> Expand(body[2][i])])
<1> DEFINE items == body[2]
           errors == [i \in DOMAIN items |-> OperationsError(items[i])]
           asked == Concatenation([i \in DOMAIN items |-> Expand(items[i])])
<1>1. CheckResourceBulkOperations(body) = Listed(body, errors, asked)
  BY Zenon DEF CheckResourceBulkOperations
<1> HIDE DEF errors, asked
<1>2. body[1] = "array" /\ FirstError(errors) = "" /\ CheckResourceBulkOperations(body).resources = asked
  <2>1. Listed(body, errors, asked).error = ""
    BY <1>1, Zenon
  <2>2. /\ body[1] = "array" /\ FirstError(errors) = ""
        /\ Listed(body, errors, asked).resources = asked
    BY <2>1, Zenon DEF Listed, Error, BadRequest, Asks
  <2> QED
    BY <1>1, <2>2, Zenon
<1>3. IsArray(body)
  BY <1>2, Zenon DEF IsArray
<1>4. items \in Seq(Range(items))
  BY <1>3, Zenon DEF IsList
<1> HIDE DEF items
<1>5. DOMAIN items = 1..Len(items) /\ Len(items) \in Nat /\ Range(items) = {items[i] : i \in 1..Len(items)}
  BY <1>4, ListIs, Zenon
<1>6. DOMAIN errors = 1..Len(items) /\ \A i \in 1..Len(items) : errors[i] = OperationsError(items[i])
  BY <1>5, Zenon DEF errors
<1>7. ASSUME NEW item \in Range(items) PROVE Accepted(item)
  <2>1. OperationsError(item) = ""
    <3>1. PICK i \in 1..Len(items) : item = items[i]
      BY <1>5, Zenon
    <3> QED
      BY <1>2, <1>5, <1>6, <3>1, FirstErrorIs, ZenonT(40)
  <2>2. item # Malformed
    BY <2>1, Zenon DEF OperationsError
  <2>3. IsList(item[2].operations)
    BY <1>3, <2>2, Zenon DEF ListsOperations, items
  <2> QED
    BY <2>1, <2>3, Zenon DEF Accepted
<1> QED
  BY <1>2, <1>4, <1>7, Zenon DEF items, asked

(* The entries of /checkResourceBulkOperations.                            *)
LEMMA PlainEntries ==
    ASSUME Answered("operations")
    PROVE  \E items : Entries(items)
<1>1. PICK clients \in DOMAIN CalledBy : call \in CalledBy[clients]
  BY Zenon DEF Answered
<1>2. call.route = "operations" /\ Answer(call).status = 200
  BY Zenon DEF Answered
<1>3. IsList(call.body) /\ ListsOperations(call.body)
  BY <1>1, <1>2, CallTyped, ZenonT(40)
<1>4. ParseBody(call) = CheckResourceBulkOperations(call.body) /\ BulkItems = Range(call.body[2])
  BY <1>2, Zenon DEF ParseBody, BulkItems
<1>5. CheckResourceBulkOperations(call.body).error = ""
  <2>1. ParseBody(call).error = ""
    BY <1>2, AnswerOk, Zenon
  <2> QED
    BY <1>4, <2>1, Zenon
<1>6. /\ call.body[2] \in Seq(Range(call.body[2]))
      /\ \A item \in Range(call.body[2]) : Accepted(item)
      /\ ParseBody(call).resources =
           Concatenation([i \in DOMAIN call.body[2] |-> Expand(call.body[2][i])])
  BY <1>3, <1>4, <1>5, ListedOperations, Zenon
<1> QED
  BY <1>4, <1>6, Zenon DEF Entries

(* The entries of its second version, each with the type of the body.      *)
LEMMA TypedEntries ==
    ASSUME Answered("operationsV2")
    PROVE  \E items : Entries(items)
<1> DEFINE type == call.body[2].type
           given == call.body[2].entries
           entries == given[2]
           items == [i \in DOMAIN entries |-> Typed(entries[i], type)]
           body == Array(items)
<1>1. PICK clients \in DOMAIN CalledBy : call \in CalledBy[clients]
  BY Zenon DEF Answered
<1>2. call.route = "operationsV2" /\ Answer(call).status = 200
  BY Zenon DEF Answered
<1>3. ParseBody(call) = CheckResourceBulkOperationsV2(call.body)
  BY <1>2, Zenon DEF ParseBody
<1>4. CheckResourceBulkOperationsV2(call.body).error = ""
  <2>1. ParseBody(call).error = ""
    BY <1>2, AnswerOk, Zenon
  <2> QED
    BY <1>3, <2>1, Zenon
<1>5. /\ call.body[1] = "fields" /\ IsArray(given)
      /\ CheckResourceBulkOperationsV2(call.body) = CheckResourceBulkOperations(body)
  BY <1>4, Zenon DEF CheckResourceBulkOperationsV2, BadRequest, Error
<1>6. IsList(given) /\ ListsOperations(given)
  BY <1>1, <1>2, <1>5, CallTyped, Zenon
<1>7. BulkItems = {Typed(entry, type) : entry \in Range(entries)}
  BY <1>2, Zenon DEF BulkItems
<1>8. entries \in Seq(Range(entries)) /\ \A e \in Range(entries) : e = Malformed \/ IsList(e[2].operations)
  BY <1>5, <1>6, Zenon DEF IsList, ListsOperations
<1> HIDE DEF type, given, entries
<1>9. /\ DOMAIN entries = 1..Len(entries) /\ Len(entries) \in Nat
      /\ Range(entries) = {entries[i] : i \in 1..Len(entries)}
  BY <1>8, ListIs, Zenon
<1>10. /\ items = [i \in 1..Len(entries) |-> items[i]]
       /\ \A i \in 1..Len(entries) : items[i] = Typed(entries[i], type)
  BY <1>9, Zenon
<1>11. body[1] = "array" /\ body[2] = items
  BY Zenon DEF Array
<1> HIDE DEF items, body
<1>12. items \in Seq(Range(items)) /\ Len(items) = Len(entries)
  BY <1>9, <1>10, MappedIs, Zenon
<1>13. Range(items) = {items[i] : i \in 1..Len(items)}
  BY <1>12, ListIs, Zenon
<1>14. Range(items) = BulkItems
  <2>1. BulkItems = {Typed(entries[i], type) : i \in 1..Len(entries)}
    BY <1>7, <1>9, Zenon
  <2> QED
    BY <1>10, <1>12, <1>13, <2>1, Zenon
<1>15. ASSUME NEW entry \in Range(entries) PROVE IsList(Typed(entry, type)[2].operations)
  <2>1. Typed(entry, type)[2].operations = IF entry = Malformed THEN Absent ELSE entry[2].operations
    BY Zenon DEF Typed, Fields
  <2>2. IsList(Absent)
    BY Zenon DEF IsList, IsArray, Absent
  <2> QED
    BY <1>8, <2>1, <2>2, Zenon
<1>16. IsList(body)
  BY <1>11, <1>12, Zenon DEF IsList
<1>17. ListsOperations(body)
  <2>1. ASSUME NEW item \in Range(items) PROVE IsList(item[2].operations)
    <3>1. PICK entry \in Range(entries) : item = Typed(entry, type)
      BY <1>7, <1>14, Zenon
    <3> QED
      BY <1>15, <3>1, Zenon
  <2> QED
    BY <1>11, <2>1, Zenon DEF ListsOperations
<1>18. ParseBody(call) = CheckResourceBulkOperations(body) /\ CheckResourceBulkOperations(body).error = ""
  BY <1>3, <1>4, <1>5, Zenon
<1>19. /\ \A item \in Range(items) : Accepted(item)
       /\ ParseBody(call).resources = Concatenation([i \in DOMAIN items |-> Expand(items[i])])
  <2>1. /\ \A item \in Range(body[2]) : Accepted(item)
        /\ CheckResourceBulkOperations(body).resources =
             Concatenation([i \in DOMAIN body[2] |-> Expand(body[2][i])])
    BY <1>16, <1>17, <1>18, ListedOperations, Zenon
  <2> QED
    BY <1>11, <1>18, <2>1, Zenon
<1> QED
  BY <1>12, <1>14, <1>19, Zenon DEF Entries

(* A step that answers no call leaves the documents it was answered from   *)
(* alone, or there is no call.                                             *)
LEMMA CallStep == ServingInv /\ CallInv /\ [PipelineNext]_pipelineVars => CallInv'
<1> SUFFICES ASSUME ServingInv, CallInv, [PipelineNext]_pipelineVars PROVE CallInv'
  BY Zenon
<1>1. ASSUME UNCHANGED <<docVars, pips, call, reply, phase>> PROVE CallInv'
  <2>1. Answer(call)' = Answer(call)
    BY <1>1, AnswerKept, Zenon
  <2>2. call' = call /\ reply' = reply /\ phase' = phase
    BY <1>1, Zenon
  <2> QED
    BY <2>1, <2>2, ZenonT(40) DEF CallInv
<1>2. ASSUME call' = NoAnswer PROVE CallInv'
  BY <1>2, Zenon DEF CallInv
<1>3. CASE Pull \/ Normalize \/ StorePolicies \/ Crash
  <2>1. call' = call
    BY <1>3, Zenon DEF Pull, Normalize, StorePolicies, Crash, newVars
  <2>2. phase \in {"pull", "normalize"}
    BY <1>3, Zenon DEF Pull, Normalize, Refuse, MergeGlobalAccess, MergeRule, StorePolicies, Serve, Crash
  <2>3. phase # "serve"
    BY <2>2, Zenon
  <2>4. call = NoAnswer
    BY <2>3, Zenon DEF CallInv
  <2> QED
    BY <1>2, <2>1, <2>4, Zenon
<1>4. CASE StorePips
  <2>1. call' = NoAnswer
    BY <1>4, Zenon DEF StorePips, Idle
  <2> QED
    BY <1>2, <2>1, Zenon
<1>5. CASE \E req \in AskedBy[source.clients] : Ask(req)
  <2>1. UNCHANGED <<docVars, pips, call, reply, phase>>
    BY <1>5, Zenon DEF Ask, Authorize, newVars
  <2> QED
    BY <1>1, <2>1, Zenon
<1>6. CASE \E c \in CalledBy[source.clients] : Check(c)
  <2>1. PICK c \in CalledBy[source.clients] : Check(c)
    BY <1>6, Zenon
  <2>2. source.clients \in DOMAIN CalledBy
    BY CallAssumption, Zenon DEF ServingInv
  <2>3. /\ call' = c /\ phase' = "serve"
        /\ reply' = Answer(c) \/ reply' = Status(500, "internal_error")
        /\ UNCHANGED <<docVars, pips>>
    BY <2>1, Zenon DEF Check, vars
  <2>4. Answer(c)' = Answer(c)
    BY <2>3, AnswerKept, Zenon
  <2>5. Status(500, "internal_error")' = Status(500, "internal_error")
    BY Zenon DEF Status
  <2> QED
    BY <2>1, <2>2, <2>3, <2>4, <2>5, Zenon DEF CallInv
<1>7. CASE Done
  <2>1. CASE Reply /\ UNCHANGED <<call, reply>>
    <3>1. UNCHANGED <<docVars, pips, call, reply, phase>>
      BY <1>7, <2>1, Zenon DEF Done, Reply
    <3> QED
      BY <1>1, <3>1, Zenon
  <2>2. CASE call' = NoAnswer
    BY <1>2, <2>2, Zenon
  <2> QED
    BY <1>7, <2>1, <2>2, Zenon DEF Done
<1>8. CASE UNCHANGED pipelineVars
  <2>1. UNCHANGED <<docVars, pips, call, reply, phase>>
    BY <1>8, Zenon DEF pipelineVars, vars, newVars
  <2> QED
    BY <1>1, <2>1, Zenon
<1> QED
  BY <1>3, <1>4, <1>5, <1>6, <1>7, <1>8, ZenonT(40) DEF PipelineNext

(* It holds of every reply.                                                *)
LEMMA CallInvariance == PipelineSpec => []CallInv
<1>1. PipelineInit => CallInv
  BY Zenon DEF PipelineInit, CallInv
<1> QED
  BY <1>1, CallStep, Invariance, PTL DEF PipelineSpec

(***************************************************************************)
(* Asking in bulk is asking one by one, however long the list and whatever *)
(* the policies, the PIPs and the documents in the store: the bulk routes  *)
(* of the legacy API, which find the answer to an entry by its position,   *)
(* give exactly the ids that the single check allows.                      *)
(***************************************************************************)
THEOREM BulkAsSingles == PipelineSpec => []BulkMeansSingles
<1>1. CallInv => BulkMeansSingles
  <2> SUFFICES ASSUME CallInv, call # NoAnswer, call.route \in {"bulk", "operations", "operationsV2"},
                      reply.status = 200, \A asked \in Range(ParseBody(call).resources) : HasResult(asked)
               PROVE  BulkMeansSingles
    BY Zenon DEF BulkMeansSingles
  <2>1. reply = Answer(call)
    <3>1. reply \in {Answer(call), Status(500, "internal_error")}
      BY Zenon DEF CallInv
    <3>2. Status(500, "internal_error").status = 500
      BY Zenon DEF Status
    <3>3. reply # Status(500, "internal_error")
      <4> SUFFICES ASSUME reply = Status(500, "internal_error") PROVE FALSE
        BY Zenon
      <4>1. reply.status = 500 /\ reply.status = 200
        BY <3>2, Zenon
      <4> QED
        BY <4>1
    <3> QED
      BY <3>1, <3>3, Zenon
  <2>2. Answered(call.route)
    BY <2>1, Zenon DEF CallInv, Answered
  <2>3. CASE call.route = "bulk"
    <3>1. Answered("bulk")
      BY <2>2, <2>3, Zenon
    <3> QED
      BY <2>1, <2>3, <3>1, BulkMeans, ZenonT(40) DEF BulkMeansSingles
  <2>4. CASE call.route \in {"operations", "operationsV2"}
    <3>1. PICK items : Entries(items)
      <4>1. CASE call.route = "operations"
        <5>1. Answered("operations")
          BY <2>2, <4>1, Zenon
        <5> QED
          BY <5>1, PlainEntries, Zenon
      <4>2. CASE call.route = "operationsV2"
        <5>1. Answered("operationsV2")
          BY <2>2, <4>2, Zenon
        <5> QED
          BY <5>1, TypedEntries, Zenon
      <4> QED
        BY <2>4, <4>1, <4>2, Zenon
    <3>2. call.route # "bulk"
      BY <2>4, Zenon
    <3>3. /\ DOMAIN Answer(call).body = UNION {OperationNames(item) : item \in BulkItems}
          /\ \A op \in DOMAIN Answer(call).body :
                Range(Answer(call).body[op]) =
                  {TextOf(item[2].id) : item \in
                      {i \in BulkItems : /\ op \in OperationNames(i)
                                         /\ AllowedAlone(i[2].type, Text(op), i[2].resource)}} \ {""}
      BY <2>2, <2>4, <3>1, OperationsMean, ZenonT(40)
    <3> QED
      BY <2>1, <3>2, <3>3, ZenonT(40) DEF BulkMeansSingles
  <2> QED
    BY <2>3, <2>4, Zenon
<1> QED
  BY <1>1, CallInvariance, PTL

-----------------------------------------------------------------------------
(***************************************************************************)
(* Growing lists of policies.                                              *)
(***************************************************************************)

(* The indexes decide every request as the policies say.                   *)
Faithful == \A req \in Requests : Decided(req) = Expected(req)

LEMMA IndexesFaithful == IndexInv => Faithful
  BY DecidedIsExpected, RequestAssumption, Zenon DEF Faithful, Keyed

GrantsGrow == \A req \in Requests : Decided(req).allow => Decided(req).allow'

(***************************************************************************)
(* A policy more never takes access away: no step of NormalizePolicies     *)
(* turns a request that the indexes allow into one that they deny.         *)
(***************************************************************************)
THEOREM PoliciesOnlyGrant == PipelineSpec => [][GrantsGrow]_pipelineVars
<1>0. IndexInv' => Faithful'
  BY IndexesFaithful, PTL
<1>1. ASSUME IndexInv, IndexInv', [PipelineNext]_pipelineVars, NEW req \in Requests, Decided(req).allow
      PROVE  Decided(req).allow'
  <2>1. done \subseteq done'
    <3>1. CASE UNCHANGED done
      BY <3>1, Zenon
    <3>2. CASE \E p : Reads(p)
      BY <3>2, ZenonT(40) DEF Reads
    <3> QED
      BY <1>1, <3>1, <3>2, ZenonT(40) DEF PipelineNext, pipelineVars, newVars, vars, Pull,
         Normalize, Refuse, MergeGlobalAccess, MergeRule, StorePolicies, Serve, Crash,
         StorePips, Ask, Authorize, Check, Done, Reply
  <2>2. Allowed(req)
    BY <1>1, IndexesFaithful, SMTT(30) DEF Faithful, Expected, Decision
  <2>3. Allowed(req)'
    <3>1. GlobalPolicies(req) \subseteq GlobalPolicies(req)'
      BY <2>1, Zenon DEF GlobalPolicies
    <3>2. OwnPolicies(req) \subseteq OwnPolicies(req)'
      BY <2>1, Zenon DEF OwnPolicies
    <3>3. RulePolicies(req) \subseteq RulePolicies(req)'
      BY <2>1, Zenon DEF RulePolicies
    <3> QED
      BY <2>2, <3>1, <3>2, <3>3, ZenonT(40) DEF Allowed
  <2>4. Decided(req)' = Expected(req)'
    BY <1>0, <1>1, Zenon DEF Faithful
  <2> QED
    BY <2>3, <2>4 DEF Expected, Decision
<1>2. ServingInv /\ ServingInv' /\ [PipelineNext]_pipelineVars => [GrantsGrow]_pipelineVars
  <2>1. ServingInv' => IndexInv'
    BY Zenon DEF ServingInv
  <2> QED
    BY <1>1, <2>1, Zenon DEF GrantsGrow, ServingInv
<1> QED
  BY <1>2, Invariance, PTL DEF PipelineSpec
=============================================================================
