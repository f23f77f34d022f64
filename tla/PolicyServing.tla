--------------------------- MODULE PolicyServing ----------------------------
(***************************************************************************)
(* One load of the agent and the answers it gives meanwhile: the policies  *)
(* of the source are normalized into the indexes (PolicyDecision), the PIP *)
(* document is built (PipDocument), the two Puts of Puller.load store      *)
(* them, and the canonical and legacy routes answer.                       *)
(*                                                                         *)
(* An evaluation reads one snapshot of the store, so a request is answered *)
(* in one step, from the documents that are in the store at that moment;   *)
(* between the two Puts these are the new policies and the PIP document of *)
(* the load before.  One client at a time: an answer leaves nothing        *)
(* behind.                                                                 *)
(*                                                                         *)
(* What a source's policies are converted to is a constant here;           *)
(* PolicyPipeline gives it.                                                *)
(***************************************************************************)
EXTENDS ConditionMeaning, PipDocument, LegacyRoutes

CONSTANTS
    Sources,           \* families of what may be served, and to which clients
    AskedBy, CalledBy, \* the requests and the legacy calls of the clients
    Pinned,            \* whether the deployment configures entitlements
    PlaceholderKeys,   \* the subject.* placeholders of each predicate
    Identity,          \* what the token check makes of a token
    Converted(_),      \* the policies convertPolicySets makes of a source
    Statistics(_)      \* and what it counts

VARIABLES
    source,      \* what the source serves, its clients, and the PIP document
                 \* that the load before left in the store
    stats,       \* the statistics of the conversion
    pips,        \* data.pips
    nextPips,    \* the PIP document of this load
    call,        \* the legacy request being answered
    reply        \* and its answer

(* A source's policies are converted to policies, and its clients send     *)
(* well-formed requests.                                                   *)
ASSUME SourceAssumption ==
    /\ \A clients \in DOMAIN AskedBy : AskedBy[clients] \subseteq Requests
    /\ \A family \in DOMAIN Sources : \A src \in Sources[family] :
          src.clients \in DOMAIN AskedBy /\ Converted(src) \in Seq(Policies)

(* Its PIPs are a list, their names have two parts, and their defaults are *)
(* values.  Names that differ in their first eight bytes only are left     *)
(* out: aliasIndex keeps one of them, whichever the map yields last, and   *)
(* Rego has no value for an alias that two claims or headers dispute.      *)
ASSUME PipAssumption ==
    \A family \in DOMAIN Sources : \A src \in Sources[family] : \A items \in {ConvertPIPs(src.pips)} :
        /\ \A i \in DOMAIN items :
              i \in Nat /\ items[i].name \in STRING \X STRING /\ items[i].default # Undefined
        /\ \A i, j \in DOMAIN items : Alias(items[i]) = Alias(items[j]) => items[i].name = items[j].name

(* The clients of the legacy API send JSON, whose arrays are lists.        *)
IsList(raw) == IsArray(raw) => raw[2] \in Seq(Range(raw[2]))
ListsOperations(items) ==
    IsArray(items) => \A item \in Range(items[2]) : item = Malformed \/ IsList(item[2].operations)

ASSUME CallAssumption ==
    /\ \A family \in DOMAIN Sources : \A src \in Sources[family] : src.clients \in DOMAIN CalledBy
    /\ \A clients \in DOMAIN CalledBy : \A c \in CalledBy[clients] :
          /\ {"route", "body", "headers", "context"} \subseteq DOMAIN c
          /\ c.route \in {"bulk", "operations"} => IsList(c.body)
          /\ c.route = "operations" => ListsOperations(c.body)
          /\ c.route = "operationsV2" /\ c.body[1] = "fields" =>
                IsList(c.body[2].entries) /\ ListsOperations(c.body[2].entries)

newVars == <<source, stats, pips, nextPips, call, reply>>
pipelineVars == <<vars, newVars>>

Idle == answer = NoAnswer /\ call = NoAnswer

(* Stats                                                                   *)
NoStats == [policySets |-> 0, policySetsSkipped |-> 0, rules |-> 0, rulesSkipped |-> 0,
            rulesDenySkipped |-> 0, policies |-> 0]

NoActivation == [rt \in ResourceTypes |-> [op \in Operations |-> {}]]
EmptyPips == [doc |-> NormalizeItems(<<>>), activation |-> NoActivation]

PipelineInit ==
    /\ Init
    /\ \E family \in DOMAIN Sources : source \in Sources[family]
    /\ pips = source.earlier
    /\ nextPips = pips
    /\ stats = NoStats
    /\ call = NoAnswer /\ reply = NoAnswer

-----------------------------------------------------------------------------
(* PullOnce, as far as the conversion.                                     *)
Pull ==
    /\ phase = "pull"
    /\ todo' = Converted(source)
    /\ stats' = Statistics(source)
    /\ phase' = "normalize"
    /\ UNCHANGED <<done, docVars, request, answer, source, pips, nextPips, call, reply>>

(* NormalizePolicies                                                       *)
Normalize ==
    /\ Refuse \/ MergeGlobalAccess \/ MergeRule
    /\ UNCHANGED newVars

-----------------------------------------------------------------------------
(* scanRuleForSubjectRefs: the attributes of the subject a rule reads, if  *)
(* they have a name.                                                       *)
ConditionRefs(rule) ==
    IF rule.condition \in {True, False}
    THEN {}
    ELSE {ref.path[1] : ref \in {r \in Refs(rule.condition) : r.scope = "subject"}}

ConditionRefsOnly(rule) == ConditionRefs(rule) \ {""}

SubjectRefs(rule) ==
    (ConditionRefs(rule) \cup UNION {PlaceholderKeys[predicate] : predicate \in rule.predicates}) \ {""}

(* buildRefIndex and collectSubjectRefs                                    *)
RefIndex(rt, op) == UNION {SubjectRefs(rule) : rule \in UNION {rls[rt][op][role] : role \in Roles}}

(* BuildActivationIndexFromPolicies: the GENERAL PIPs the rules read, by   *)
(* alias.  A name without the prefix is an entry of aliasIndex as well,    *)
(* which is left out: no value is ever kept under such a name.             *)
Activation(general) ==
    [rt \in ResourceTypes |-> [op \in Operations |->
        {name \in DOMAIN general : general[name].alias \in RefIndex(rt, op)}]]

PipItems == ConvertPIPs(source.pips)

BuiltPips ==
    LET doc == ApplyEntitlementsOverride(NormalizeItems(PipItems), Pinned)
    IN  [doc |-> doc, activation |-> Activation(doc.general)]

(* The rest of PullOnce and load: the PIP document is built, and the       *)
(* policies are put into the store.                                        *)
StorePolicies ==
    /\ Sliceable(PipItems)
    /\ Serve
    /\ nextPips' = BuiltPips
    /\ UNCHANGED <<source, stats, pips, call, reply>>

(* A name too short to slice ends the process.                             *)
Crash ==
    /\ phase = "normalize"
    /\ todo = <<>>
    /\ ~Sliceable(PipItems)
    /\ phase' = "crashed"
    /\ UNCHANGED <<todo, done, docVars, request, answer, newVars>>

(* The second Put of load.                                                 *)
StorePips ==
    /\ phase = "serve"
    /\ Idle
    /\ pips' = nextPips
    /\ UNCHANGED <<vars, source, stats, nextPips, call, reply>>

-----------------------------------------------------------------------------
(* active_general_pips and rls_decision_context                            *)
ActiveGeneral(document, req) ==
    UNION {document.activation[rt][op] : rt \in {req.resourceType, All}, op \in {req.operation, All}}

WithPips(document, names, req) ==
    [req EXCEPT !.context = Enriched(@, document.doc, names)]

Enrich(document, req) == WithPips(document, ActiveGeneral(document, req), req)

(* POST /v1/data/authorize                                                 *)
Ask(req) ==
    /\ Idle
    /\ Authorize(Enrich(pips, req))
    /\ UNCHANGED newVars

(* The subject attributes that the rules in scope read                     *)
(* (indexed_rls_subject_refs), and those of them that the reason of a      *)
(* denial names: the subject lacks them.                                   *)
ScopedRefs(req) ==
    UNION {RefIndex(rt, op) : rt \in {req.resourceType, All}, op \in {req.operation, All}}

ExactKeyNames(req) == RefIndex(req.resourceType, req.operation) \ DOMAIN req.context.subject[2]

ReasonNames(req) == ScopedRefs(req) \ DOMAIN req.context.subject[2]

-----------------------------------------------------------------------------
(* legacy.Input: the admission token, the subject's, and the headers that  *)
(* HEADER PIPs may read.                                                   *)
Header(c, name) == IF name \in DOMAIN c.headers THEN c.headers[name] ELSE ""

IsAnonymous(c) == Header(c, "authorization-type") = "anonymous"

SubjectToken(c) ==
    IF IsAnonymous(c)
    THEN ""
    ELSE IF Header(c, "incoming-token") # ""
    THEN Header(c, "incoming-token") ELSE Header(c, "authorization")

RequestHeaders(c) ==
    [name \in DOMAIN c.headers \ {"authorization", "incoming-token"} |-> Text(c.headers[name])]

Input(c, asked) ==
    LET identity == Identity[SubjectToken(c)] IN
    [admitted |-> Identity[Header(c, "authorization")].valid,
     authenticated |-> IsAnonymous(c) \/ identity.valid,
     roles |-> identity.roles, ignoreRls |-> FALSE,
     resourceType |-> Key[asked.resourceType[2]], operation |-> Key[asked.operation[2]],
     context |-> [c.context EXCEPT !.resource = asked.resource, !.base = identity.base,
                                   !.claims = identity.claims, !.headers = RequestHeaders(c)]]

(* A type or an operation that is not a string has no upper case, and the  *)
(* policy returns no result for its resource: the later ones move up.      *)
HasResult(asked) == IsText(asked.resourceType) /\ IsText(asked.operation)

Results(c, asked) ==
    LET known == Picked(asked, {i \in DOMAIN asked : HasResult(asked[i])})
    IN  [i \in DOMAIN known |-> Canonical(Enrich(pips, Input(c, known[i])))]

ParseBody(c) ==
    CASE c.route = "resource" -> CheckResource(c.body)
      [] c.route = "bulk" -> CheckResourceBulk(c.body)
      [] c.route = "operations" -> CheckResourceBulkOperations(c.body)
      [] c.route = "operationsV2" -> CheckResourceBulkOperationsV2(c.body)
      [] c.route = "filter" -> CheckFilter(c.body)

Shape(route, results, asked) ==
    CASE route = "resource" -> FirstAllowed(results)
      [] route = "bulk" -> CheckResourceBulkResponse(results, asked)
      [] route \in {"operations", "operationsV2"} ->
            CheckResourceBulkOperationsResponse(results, asked)
      [] route = "filter" -> FilterResponse(results)

Status(code, body) == [status |-> code, body |-> body]

(* The handlers of RegisterPublic and check.  A bulk of operations that    *)
(* asks nothing is answered without the policy.                            *)
Answer(c) ==
    LET parsed == ParseBody(c)
        asked == parsed.resources
    IN  IF parsed.error # ""
        THEN Status(400, parsed.error)
        ELSE IF c.route \in {"operations", "operationsV2"} /\ asked = <<>>
        THEN Status(200, Shape(c.route, <<>>, <<>>))
        ELSE IF ~Identity[Header(c, "authorization")].valid
        THEN Status(401, "unauthorized")
        ELSE Status(200, Shape(c.route, Results(c, asked), asked))

Evaluated(c) ==
    ParseBody(c).error = "" /\ (c.route \in {"operations", "operationsV2"} => ParseBody(c).resources # <<>>)

(* An evaluation may fail, for one because the client is gone.             *)
Check(c) ==
    /\ phase = "serve"
    /\ Idle
    /\ call' = c
    /\ \/ reply' = Answer(c)
       \/ Evaluated(c) /\ reply' = Status(500, "internal_error")
    /\ UNCHANGED <<vars, source, stats, pips, nextPips>>

(* The answer of either kind is sent.                                      *)
Done ==
    /\ \/ Reply /\ UNCHANGED <<call, reply>>
       \/ call # NoAnswer /\ call' = NoAnswer /\ reply' = NoAnswer /\ UNCHANGED vars
    /\ UNCHANGED <<source, stats, pips, nextPips>>

PipelineNext ==
    \/ Pull
    \/ Normalize
    \/ StorePolicies
    \/ Crash
    \/ StorePips
    \/ \E req \in AskedBy[source.clients] : Ask(req)
    \/ \E c \in CalledBy[source.clients] : Check(c)
    \/ Done

PipelineSpec == PipelineInit /\ [][PipelineNext]_pipelineVars

-----------------------------------------------------------------------------
Decides == answer \notin {NoAnswer, AuthError}
Loaded == pips = nextPips

(* An alias of a GENERAL PIP is that of no other PIP, and no attribute of  *)
(* the subject.                                                            *)
HidesNothing(doc, context) ==
    \A name \in DOMAIN doc.general : \A alias \in {doc.general[name].alias} :
        /\ alias \notin DOMAIN context.base \cup DOMAIN RequestLevel(doc, context)
        /\ \A other \in DOMAIN doc.general : doc.general[other].alias = alias => other = name

(* No GENERAL PIP has the alias of the entitlements, into which            *)
(* object.union would merge its answer.                                    *)
EntitlementsApart(doc) ==
    \A name \in DOMAIN doc.general : doc.general[name].alias # "entitledResources"

(***************************************************************************)
(* Calling only the GENERAL PIPs of the activation index changes no        *)
(* answer: with all of them called, the decision and the values of its     *)
(* predicates' placeholders would be the same.  The index does not look    *)
(* for references to entitlements, so this is without a GENERAL PIP that   *)
(* answers under their alias.                                              *)
(***************************************************************************)
ActivationIsEnough ==
    Decides /\ Loaded /\ EntitlementsApart(pips.doc) =>
        LET all == WithPips(pips, DOMAIN pips.doc.general, request) IN
        /\ answer = Canonical(all)
        /\ \A predicate \in answer.filter : \A key \in PlaceholderKeys[predicate] :
              Get(request.context.subject, key, Undefined) = Get(all.context.subject, key, Undefined)

(***************************************************************************)
(* Between the two Puts of load, or for good if the second one fails, the  *)
(* new policies meet the activation index of the old ones.  As long as the *)
(* PIPs themselves are the same, and no GENERAL PIP hides another value of *)
(* its alias or adds to the entitlements, that only denies: what is        *)
(* allowed then is allowed once the load is complete.                      *)
(***************************************************************************)
WindowNeverOpens ==
    Decides /\ answer.allow /\ pips.doc = nextPips.doc
    /\ HidesNothing(pips.doc, request.context) /\ EntitlementsApart(pips.doc) =>
        Canonical(Enrich(nextPips, request)).allow

-----------------------------------------------------------------------------
(* What a PIP is declared to be: no value or one.  A claim or a header, or *)
(* its default, is one unless it is null.                                  *)
Given(values, key, default) ==
    (IF key \in DOMAIN values /\ values[key] # Null THEN {values[key]} ELSE {default}) \ {Null}

(* What stands for a value that is not there, and the value that is asked  *)
(* for: the one found, of the type it must have, or what stands for it.    *)
Substitute(coerce, onMissing, default) ==
    CASE onMissing = "defaultValue" -> default
      [] onMissing = "empty" -> EmptyFor(coerce)
      [] OTHER -> Undefined

AskedValue(found, coerce, onMissing, default) ==
    IF found \notin {Undefined, Null} /\ CoerceValue(found, coerce) # Undefined
    THEN CoerceValue(found, coerce) ELSE Substitute(coerce, onMissing, default)

(* A service's PIP: whether the call failed, its answer is not JSON, lacks *)
(* the path or has another type there makes no difference.  Of several     *)
(* paths each has a value of its own, once there is an answer.  Without    *)
(* anything asked for, it is the answer as a whole.                        *)
Promised(p, said) ==
    LET r == p.response
        asked == CASE r.present -> r.extract
                   [] ~r.present /\ p.jsonPath # "" -> <<"path", p.jsonPath>>
                   [] OTHER -> NoExtract
        coerce == IF r.present THEN r.coerce ELSE ""
        onMissing == IF r.present THEN r.onMissing ELSE ""
        entry(name) == AskedValue(JsonExtract(said, asked[2][name].path),
                              OwnOr(asked[2][name], "coerce", coerce),
                              OwnOr(asked[2][name], "onMissing", onMissing), p.default)
    IN  CASE said = Undefined -> Substitute(coerce, onMissing, p.default)
          [] said # Undefined /\ asked = NoExtract /\ coerce = "" /\ onMissing = "" -> said
          [] said # Undefined /\ asked[1] = "map" ->
                Object([name \in {n \in DOMAIN asked[2] : entry(n) # Undefined} |-> entry(name)])
          [] said # Undefined /\ asked[1] = "path" ->
                AskedValue(JsonExtract(said, asked[2]), coerce, onMissing, p.default)
          [] OTHER -> AskedValue(said, coerce, onMissing, p.default)

Declared(p, context) ==
    CASE ResolvePipType(p) = "TOKEN" -> Given(context.claims, p.claim, p.default)
      [] ResolvePipType(p) = "HEADER" -> Given(context.headers, p.header, p.default)
      [] ResolvePipType(p) = "GENERAL" ->
            LET bodies == {context.services[alias] : alias \in {Alias(p)} \cap DOMAIN context.services}
            IN  IF bodies = {}
                THEN {Promised(p, Undefined)} \ {Undefined}
                ELSE {Promised(p, ParsedBody(body)) : body \in bodies \ {Undefined}} \ {Undefined}

(***************************************************************************)
(* A list of PIPs that Validate accepts means what it declares: a rule in  *)
(* scope that reads an alias reads the declared value, whichever way its   *)
(* service failed, merged into an object that the subject has under the    *)
(* alias.  An alias without a value is absent, so that the failure         *)
(* handling of rls.rego applies: that of a request that cannot be built,   *)
(* and where onMissing says error or nothing.  entitledResources is the    *)
(* deployment's and not among them.                                        *)
(***************************************************************************)
PipsMeanDeclared ==
    Decides /\ Loaded /\ Validate(PipItems) =>
        \A p \in {q \in Range(PipItems) : Alias(q) # "entitledResources"} :
            LET values == Declared(p, request.context)
                read == Get(request.context.subject, Alias(p), Undefined)
                known == Get(Object(request.context.base), Alias(p), Undefined)
            IN  Alias(p) \in ScopedRefs(request) =>
                    /\ values = {} => read = known
                    /\ \A value \in values : read = Merged(known, value)

(***************************************************************************)
(* A denial names its cause: when some value of a PIP that failed would    *)
(* have allowed the request, the reason names one of the failed PIPs, as   *)
(* far as they have names.                                                 *)
(***************************************************************************)
DenialNamesCause ==
    Decides /\ request.authenticated /\ ~answer.allow =>
        \A failed \in SUBSET (FailedPips(request.context) \ {""}) :
            \A answers \in [failed -> PipValues] :
                Decided([request EXCEPT !.context.subject = Resolved(@, answers)]).allow =>
                    failed \cap ReasonNames(request) # {}

-----------------------------------------------------------------------------
(* What the single check says of a resource of a bulk.                     *)
AllowedAlone(type, operation, resource) ==
    LET body == Fields([type |-> type, operation |-> operation, resource |-> resource, id |-> Absent])
    IN  Answer([call EXCEPT !.route = "resource", !.body = body]).body

BulkItems ==
    CASE call.route \in {"bulk", "operations"} -> Range(call.body[2])
      [] call.route = "operationsV2" ->
            {Typed(entry, call.body[2].type) : entry \in Range(call.body[2].entries[2])}

OperationNames(item) == {TextOf(op) : op \in Range(item[2].operations[2])} \ {""}

(***************************************************************************)
(* Asking in bulk is asking one by one: whatever operations are empty and  *)
(* whichever entries have no id, the ids of the answer are those that the  *)
(* single check allows, as long as every type and operation is a string.   *)
(***************************************************************************)
BulkMeansSingles ==
    /\ call # NoAnswer
    /\ call.route \in {"bulk", "operations", "operationsV2"}
    /\ reply.status = 200
    /\ \A asked \in Range(ParseBody(call).resources) : HasResult(asked)
    => IF call.route = "bulk"
       THEN Range(reply.body) =
              {TextOf(item[2].id) : item \in
                  {i \in BulkItems : AllowedAlone(i[2].type, i[2].operation, i[2].resource)}} \ {""}
       ELSE /\ DOMAIN reply.body = UNION {OperationNames(item) : item \in BulkItems}
            /\ \A op \in DOMAIN reply.body :
                  Range(reply.body[op]) =
                    {TextOf(item[2].id) : item \in
                        {i \in BulkItems : /\ op \in OperationNames(i)
                                           /\ AllowedAlone(i[2].type, Text(op), i[2].resource)}} \ {""}
=============================================================================
