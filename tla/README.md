# A TLA+ verification of qubership-authz-agent

This directory holds TLA+ models of the two services of the repository, the TLC
configurations that check them on small instances, and proofs, checked by TLAPS,
of what matters most for every instance. The models are translated from the Go
and Rego sources; `PROJECT.json` maps every definition to the lines it stands
for.

## The system and its parts

**authz-agent** answers authorization requests. It evaluates embedded Rego
policies in process, over documents that background loops keep up to date:

| Part | Source | Module |
| --- | --- | --- |
| pull loop: policies and PIPs from the policy source | `components/authz-agent/internal/pull`, `engine` | `PolicyPull`, promise `PolicyReplica` |
| m2m token: credentials or a mounted file | `components/authz-agent/internal/m2m` | `M2MToken` |
| trusted providers: keys for the Rego verifier, health rules, realm lookup | `components/authz-agent/internal/authn` | `AuthnProviders` |
| authentication of a request's subject | `policies/identity.rego` | `SubjectIdentity` (extends `AuthnProviders`) |
| start and shutdown of the two HTTP surfaces | `components/authz-agent/main.go` | `AgentServe` |
| conversion of an export into policies | `internal/acconfig` | `PolicyWire` |
| parser of conditions | `internal/simplifiedpolicies/parser.go` | `ConditionParser` |
| normalization of policies into indexes | `internal/simplifiedpolicies/normalize.go` | `PolicyDecision` |
| the PIP document, and what a request makes of it | `internal/pips`, `policies/pip.rego` | `PipDocument` |
| the decision: admission, wildcard access, OLS (may the role try the operation), RLS (for which rows) | `policies/authorize_internals.rego`, `ols.rego`, `rls.rego` | `PolicyDecision`, `RlsCondition`, `RlsDecision`, `ConditionMeaning` |
| legacy check routes | `components/authz-agent/internal/legacy`, `internal/server/public.go` | `LegacyRoutes` |
| one load and the answers meanwhile | the above, `internal/pull`, `internal/server` | `PolicyServing` |
| from the uploads to the answer | | `PolicyPipeline` (extends `PolicyServing`, `PolicyWire`) |

A PIP (policy information point) is a value that conditions may read: a claim of
the token, a header, or the answer of another service.

**Libraries** that neither service imports yet; they are modelled as the packages
they are:

| Part | Source | Module |
| --- | --- | --- |
| signing keys of the trusted providers | `internal/token/keys` | `KeySet` |
| verifier, its cache, and the namespace allowlist | `internal/token/verify`, `namespaces` | `TokenVerifier` (extends `KeySet`) |
| outbound token: writer, file source and transport | `internal/token/outbound` | `OutboundToken` |
| legacy policy tree: its conditions, validation and unsupported forms | `internal/policyir` (`cond.go`, `operand.go`, `parse.go`, `tree.go`, `unsupported.go`) | `PolicyTree` |
| reading a configuration export into trees | `internal/policyir/export.go` | `PolicyExport` (extends `PolicyTree`) |

**authz-policy-admin** is the policy source in development and test: an HTTP API
over a store on disk (`components/authz-policy-admin`). The store is
`PolicyAdminStore`, with the promise `DurableRegistry`; the export it serves
(`convert.go`) is the first half of `PolicyWire`.

How the parts interact: policy-admin serves exports from its store; the pull loop
fetches them with the m2m token, converts them and puts `data.policies` and
`data.pips`; the trusted providers manager puts `data.authn`; each request is
authenticated, enriched with PIPs and decided over those documents. In the token
libraries the outbound writer (or the kubelet) keeps a token in a file, the file
source follows the file, and the transport puts its token on the service's own
requests; the verifier checks the tokens of incoming requests against the key set
and the namespace allowlist.

## The modules

### PolicyAdminStore

State: `mem`, `hash`, `revision` and `writer` are the fields and the write lock
of `store`; `disk`, `state` and `temps` are the data directory, which survives a
`Crash`; `req` and `undo` are an upload's locals. An upload is the chain of
`SetDomainPolicies`/`SetDomainPIPs`: take the lock, replace the collection,
write the domain file through a temp file and a rename, then `state.json` the
same way, roll the memory back when a write fails, and answer. Every one of these
steps may be the last one before a crash; `Start` reloads what the disk holds,
with unreadable files left out. The removal of a temp file may fail, at the start
and after a failed write: the code does not look, and the file stays. A body is the
sequence of its items or the JSON `null`.

Some variables only record history: the acknowledged and the unacknowledged bodies of
each domain, the revision of the last acknowledged upload (`ackedRevision`), whether
the start found a `state.json` it could not read (`lost`), and how many temp files
could not be removed (`kept`).

`DurableRegistry` is what readers rely on: nothing is served that was not durable
first. `PolicyAdminStore` implements it under the mapping at the end of the
module, in which an upload in progress is not served before it is acknowledged.

### PolicyPull

The loop goroutine and on-demand callers of `PullNow` share `load` under
`loadMu`. Each load fetches policies, fetches PIPs, converts, puts policies, puts
PIPs and records the status, each as a step, with the source changing, the token
arriving and the context ending in between. A document is its version. Whether
`Put` may fail (`storeFails`) is chosen at the start and kept.
`PolicyReplica` promises documents the source has served, never an older one, and
an activation index built from the policies in force when it is stored.

### OutboundToken

Writer (`Run`, `renew`, backoff, the `Renew` channel), file source (`reload`,
its timer) and transport (take the token, send, on 401 report it and retry once)
run concurrently over the token file and a clock. One-element channels are
Booleans.

### KeySet and TokenVerifier

`KeySet` has `Load`, `Refresh` under the `reloading` mutex with one fetch per
provider in any order, and the atomically replaced snapshot. `TokenVerifier`
extends it with callers of `Verify` (parse, cache, lookup, signature, claims,
namespace, store in the cache), the LRU cache and the reload of the namespace
allowlist, so that a key is replaced or a namespace withdrawn between any two
steps of a verification. A call checks the signature, then that the payload is an
object, then audience and times, as `check` does. `AcceptedAsIfChecked` says what an
accepted token must be without using the model's checks (`Addressed`, `InTime`).

### AuthnProviders and SubjectIdentity

`AuthnProviders` is the manager's `Bootstrap` and `Reload` (hash the file, read it
again, resolve and fetch provider by provider, publish, record), the realm cache,
and `Evaluate` for `/health`, against a file edited at any point. Either read of the
file may fail for a reason of its own. `Bootstrap` records the hash of the first read
even when the second one fails, and `Run` does not try that content again until the
file changes; `DocumentFollowsFile` is about contents that are not given up in this
way (`GivenUp`).

`SubjectIdentity` adds what `identity.rego` answers over the document `authn` that
the manager publishes: the candidates of a kid over all providers, the algorithm
that fits a key, the four audience cases, the reason of a rejection by priority,
and anonymous requests. A Rego rule of several bodies is the set of the values of
the bodies that hold, so that two values (an evaluation error in OPA) and none are
outcomes of the model. The rules read nothing but the document and the request;
its properties therefore quantify over every request for each document and
hold in a state when its document has the property.

### M2MToken

The two sources of the token with their timers. Time is counted down: `sleep` is
what is left of the wait, `left` what is left of the token's life, `spent` how
long the request takes. `publish` is three steps, since its readers run beside it.
Reading the token file may fail (`ReadFails`), which leaves everything for the next
tick.

### AgentServe

`serve` and `serveUntilShutdown`: bind both sockets, start a listener each, wait
for the end of the context, shut down, drain with a timeout, close, join.

### RlsCondition, PolicyDecision, RlsDecision, ConditionMeaning

`RlsCondition` is the evaluator of `rls.rego`: values, operators, the two unfolded
levels, the fast path for comparisons of attributes, and the guard for PIPs that
failed. `PolicyDecision` reads a list of policies one by one, as
`NormalizePolicies` does, into `ols` (type, operation, roles), `rls` (type,
operation, role, rules) and `global` (what a role may do everywhere); one bad policy
refuses the list. `Authorize` answers a request from the indexes alone. Its actions
are steps of `PolicyServing`. `RlsDecision` states what a PIP that fails may do.

Conditions are trees of any depth. What `rls.rego` finds below a node with `walk()`
is the constant operator `Refs`, and the height of a tree is `Height`;
`NodesAssumption` says what the two are at a node, and that the parser negates
comparisons only (`negate` in `parser.go`). The walk itself (`WalkedRefs`) and
`TreeHeight`, which the run gives for them, are `RECURSIVE` operators and stand in
`ConditionParser`, so that these modules can be proved about. `ConditionMeaning` is
the Boolean reading of a tree: a function on the nodes that solves the equation
`Reading`.

### PipDocument, LegacyRoutes, PolicyServing

- `PipDocument` converts and validates PIPs, builds the document, and enriches the
  subject of a request as `pip.rego` does. The request of a GENERAL PIP is not built,
  its call fails, or it is answered with a body, which may be no JSON; what the
  response block extracts (the whole body, a path, or a map of entries with settings
  of their own), coerces and falls back to (`onMissing`: the default, an empty value,
  or nothing) is modelled for each. Two recursive functions are constant operators:
  the value at a path (`JsonExtract`) and the merging of nested objects by
  `object.union` (`UnionBelow`).
- `LegacyRoutes` reads the bodies of the legacy routes and shapes their answers. What
  the Go code appends in a loop is `Picked`, the elements of a list at some positions,
  and `Concatenation`.
- `PolicyServing` composes them with `RlsDecision`. Its steps are those of a load
  (`Pull`, `Normalize` one policy, `StorePolicies`, which also builds the activation
  index that says which PIPs a type and operation need, `StorePips`) and of requests
  (`Ask`, `Check`, `Done`), so that requests meet the new policies with the old PIP
  document between the two `Put`s. `Crash` is a panic in `NormalizeItems`. What a
  source's policies are converted to is the constant operator `Converted`.

`PipAssumption` leaves out one kind of list: PIPs whose names differ in their first
eight bytes only, and so have one alias. `aliasIndex` (`activation.go:67`) is a Go
map that keeps one of them, whichever comes last, and Rego has no value for an alias
that two claims or headers dispute. `CallAssumption` says that the arrays of a legacy
body are lists.

### ConditionParser, PolicyWire, PolicyPipeline

- `ConditionParser` is the recursive descent of `ParseCondition` over tokens, and the
  walks over the trees it builds.
- `PolicyWire` groups uploads into the policy sets of an export, with targets and
  conditions as text (`toV3PolicySets`), and reads sets back into policies
  (`convertPolicySets`), skipping and counting what it cannot read.
- `PolicyPipeline` puts them before `PolicyServing`: `ConvertedPolicies` is what the
  run gives for `Converted`, `ExtractedAt` (the `json_extract` of `pip.rego` over
  parsed paths) for `JsonExtract`, and `UnionOfObjects` for `UnionBelow`.

Left out as formatting: joining predicates of one type, substituting `${subject...}`
in them, and the words of deny reasons apart from the names of PIPs.

### PolicyTree and PolicyExport

`PolicyExport` is `FromRegular`: a document without its array, or one that is no JSON
object, is refused as a whole; otherwise a first pass over the heads of all elements finds
the tenants, a second reads the sets, a third the PIPs, each into the tenant it
names, and then each tenant's tree is built or the tenant fails. An element is one
step. The keys that no field has are counted at every depth of a set, each kind of
object with its own list of keys to ignore; those of an `iterate` or a
`customPredicate` count with the set or rule that holds it. `PolicyTree` holds what a tree is made of: the parser of its conditions, the
validation of `NewTree`, and the findings of `Unsupported` with the path of each.

## The runs

| Run | What it asks | Instance |
| --- | --- | --- |
| `store` | two clients, two domains, failing writes and crashes: what was acknowledged survives, what is served was acknowledged, with the revision of the last acknowledged upload unless `state.json` was lost; an answer is no older than its upload; the registry is implemented | two committed uploads, one temp file left behind, symmetric clients; 2,049,412 states |
| `store_rejected` | finding: a rejected upload may be on disk | expected violation |
| `pull` | loop and a caller, failing fetches, and puts that may or may not fail: a `PullNow` that succeeds returns with documents at least as new as the source at the call; the replica is implemented; and over a store that accepts every put, the activation index belongs to the policies in force except between the two puts of a load, and what the source serves reaches the decisions | two versions per document, one of them not convertible; 114,657 states |
| `outbound` | a source that waits with no `Reload` pending holds the token of the file, a written token reaches the requests, and `Renew` wakes the writer | one request at a time, two tokens |
| `keys` | a kid names one key, the snapshot never goes back, it converges | two providers that may publish one kid, two refreshers |
| `verifier` | an accepted token, cached or not, passes a full check with a key that was current during the call, and is accepted only while its namespace is allowed | two callers, key replaced under its kid, cache of one entry, a leeway of 1 |
| `authn` | `/health` vouches for the published document, no edit takes required keys away, the document follows a file that moves forward; over every published document each request has one answer, and exactly the tokens of fetched providers are accepted | six contents, two edits, both modes, 1,450 requests; 70,463 states |
| `authn_return` | finding: a file that comes back to an earlier content is not applied | expected violation |
| `m2m` | renewal is due before expiry, tokens stay alive while requests succeed, the file's last content is adopted | two tokens, three edits |
| `serve` | a failure is reported only when a surface failed, and a shutdown ends | two surfaces, two handlers each |
| `decision` | from the source to the answer: see below | 23,785 sources, 607,798 states |
| `export` | the trees that are built are valid, a tenant fails on its own elements only, nothing is lost without a trace, each finding names a node of its own | 228,923 states |

The ten properties of `decision`, along the way of a policy: a condition is parsed
as it is written (`ParsedAsWritten`); the rules in the indexes are those of the
source, and all of them unless the statistics report something skipped
(`PulledMeansSource`); an answer is the one the policies say
(`DecisionMeansPolicies`), and a condition means its text down to the depth
`rls.rego` unfolds (`ConditionMeansText`); a validated PIP has its declared value
or the fallback it declares (`PipsMeanDeclared`), leaving out the PIPs that the
activation index leaves out changes no answer (`ActivationIsEnough`), a PIP that fails opens nothing
(`FailedPipNeverGrants`), and a denial that such a PIP caused names it
(`DenialNamesCause`); between the two `Put`s of a load nothing is allowed that is
denied after it, as long as the PIPs are the same and no GENERAL PIP hides another
value of its alias (`WindowNeverOpens`); and a bulk request on the legacy routes is answered as its items would be one by one
(`BulkMeansSingles`). `ActivationIsEnough` and `WindowNeverOpens` leave out a GENERAL
PIP with the alias `entitledResources`, whose answer `object.union` would merge into
the entitlements.

### Bounds and why they are enough

- `store`: `MaxRevision` = 2 and `MaxTemps` = 1. A second upload meets what the
  first one, or its crash, left behind, and a temp file that nothing removes; the
  proofs cover any number.
- `pull`: `MaxVersion` = 2 lets a document change before, during and after a
  load; versions start at 0 and `Broken` = {1} makes the one in between not
  convertible. One caller beside the loop is enough for two loads to compete; the
  proofs cover any number of callers.
- `outbound`: `MaxTime` = 2 and `MaxTokens` = 2: a token expires, is replaced and
  is refused by the other side. The unit is 15 s.
- `keys`, `verifier`: `MaxChanges` changes per provider, `Stamps` object
  identities, `CacheSize` = 1 so that eviction happens at once. With `Leeway` = 1 the
  tokens of `verifier` meet the bounds of `exp` and `nbf` from both sides; that of
  `iat` is only reached by the proof.
- `authn`: `MaxEdits` = 2 edits, which may both fall into one reload. The 721
  tokens combine three algorithms, eight pairs of kid and signer (a kid that two
  providers share, an encryption key, no kid, an unknown one), six audience claims
  and five states of the times.
- `m2m`: lifetimes at and above twice `RenewBefore`; `MaxDelay` is how long a
  request may take, `MaxEdits` how often the file changes.
- `serve`: `MaxHandlers` = 2 requests per surface.
- `decision`: each family of sources is made for one part. All pairs of 64 uploads
  (wildcards, roleless, the role ALL, with and without condition and predicate) and
  all triples of eight chosen ones, for the indexes; conditions of all operators,
  their negations, pairs and three-level nestings against 15 contexts, for the
  evaluator; every text of three tokens, and longer ones of chosen shapes, for the
  parser; names and targets that are blank, quoted or of another shape, for the
  wire; PIPs of each type, with and without default and path, and with every
  combination of extraction, coercion and `onMissing`, valid or not, against services
  that answer, fail or answer something else, under three documents that an earlier
  load may have left; and legacy bodies of up to
  three items, with ids, types and operations that are absent, null or not strings.
- `export`: pairs of sets in every state a set can be in, triples of chosen ones, three
  PIPs, sets nested three deep with and without iterate, every text of up to three
  tokens, members written twice or of a wrong type, keys that no field has at every
  depth, and documents without their array. Two tenants.

### Fairness

Weak fairness is given to goroutines that can go on (the Go scheduler runs them)
and to timers; a fetch of `KeySet` ends because its client has a timeout. Strong
fairness is used in three places: for the mutexes (`loadMu`, `reloading`), since Go's
mutex hands itself to a waiter that has starved; for fetches in `PolicyPull`,
which assumes that the source is not down for good; and for `ReadFile` in
`OutboundToken`, that a file read again and again is readable some time. `KeySet`,
`AuthnProviders` and `M2MToken` state such hypotheses in the property instead:
from some point on no fetch, read or put fails and the file or the providers settle.
`decision` and `export` check no liveness and state no fairness.
`CHECK_DEADLOCK FALSE` is used where the system really stops: a loop whose context ended, a disabled loop, a
process that returned, a refused policy list, or bounds that are used up.

### Findings

- `store_rejected`: an upload whose `state.json` write fails is answered with an
  error and rolled back in memory, but its domain file is already in place and
  is served after a restart, although `handlers.go` says a rejected upload did
  not reach disk.
- `authn_return`: `Reload` hashes the file and reads it again to load it, and
  keeps the first read's hash for the second read's content. A file that changes
  in between and then returns is not applied again.

### Observed, without a run

- The parser nests conditions without limit, `rls.rego` unfolds two levels; below
  them an expression counts as not met. `ConditionMeansText` states this.
- `acconfig/convert.go:245` says the OPA model reads a policy with no roles as
  "open to everyone". In the indexes it applies only to subjects that some other
  policy lets try the operation; see `DecisionMeansPolicies`.
- `rls.rego:607` says an alias is never present with null, because "soft-defaults
  are non-null". In `pip.rego`, `apply_coerce_or_default` yields null for
  `onMissing: defaultValue` without a default when the service answers and the path
  is not in its answer, and `resolve_general_values` binds it. `pips.Validate`
  refuses such a PIP, but the pull loop calls `NormalizeItems` without it.
  `ApplyCoerceOrDefault` models the null; `FailedPipNeverGrants` counts it as a value, and
  `PipsMeanDeclared` is about lists that `Validate` accepts.
- The pull loop also calls `NormalizeItems` with names that `Validate` would
  refuse: `normalize.go:56` slices the first eight bytes off, and a shorter name
  panics (the action `Crash`).
- `pip.rego:133-135` says that a PIP whose substitution fails is omitted "unless a
  defaultValue rescues it". In the code nothing stands in for a request that is not
  built (`general_pip_value`); `GeneralPipValue` and `PipsMeanDeclared` follow the code.
- A `Load` that fails in `Bootstrap` after the content was hashed is recorded under
  that hash, and the content is not tried again until the file changes (`GivenUp`).
- A list of roles is joined and split at commas (`rolesKey`), so a role with a
  comma becomes several roles, and of the roles `["", "A"]` the agent reads
  a target it skips. `PulledMeansSource` states what holds with the parts as roles.
- On the legacy routes a resource whose type or operation is not a string has no
  result, and the results after it move up one place. `BulkMeansSingles` therefore
  speaks of requests whose types and operations are strings.
- In `identity.rego` an audience that is empty, or right but for its case, is
  reported as TOKEN_SIGNATURE_INVALID; `ReasonIsReal` leaves it out.
- The keys of `data.authn` are fetched when the providers file changes, and not
  again otherwise.
- `m2m.go:147` says "no later than half the lifetime"; the code takes the later
  of two times. `RenewsInTime` states what holds.
- `realm.go:93` remembers a lookup that failed as a negative answer for good.

## What is proved

TLAPS proves the following for all values of the constants, from the `ASSUME`s
of the modules (kinds of constants, distinct markers, well-formed inputs).

| Module | Theorems | Along which argument |
| --- | --- | --- |
| `PolicyAdminStoreProofs` | type correctness, `AcknowledgedOnDisk`, `ServedIsAcknowledged`, `AnswerNotStale`, `HashMatchesServed`, `RevisionPersisted`, `TempsBounded`, and that a persistent store implements `DurableRegistry` | `LockInv`: the lock is held exactly by the upload that writes, and how far its body has got. `DataInv`: what readers see (`View`, in which the upload in progress has not happened) is, key by key, what loading the acknowledged file or one of the unacknowledged ones gives. `TempInv`: apart from those that could not be removed (`kept`), a running process has a temp file only between its creation and its rename. `AckedInv`: `state.json` holds the acknowledged revision, and what readers see (`SeenRevision`, in which the upload in progress has not happened) is that revision unless the file was lost. `RevisionInv`: what a committed caller will answer is no newer than what readers see, and is the same at the same revision. The properties alone are not inductive: they say nothing of the middle of an upload. |
| `PolicyPullProofs` | type correctness, `PullNowFresh`, `ReadyForGood`, the refinement of `PolicyReplica`; over a store that accepts every put also `DocumentsCorrespond` and `ConversionReported` | `LockInv` makes loads exclusive, `FetchInv` bounds the versions in a load's hands between what is stored and what the source has, so that a put never goes back. |
| `M2MTokenProofs` | type correctness, `HeldIsStored`, `ReadyMeansToken`, `RenewsInTime` | `AnswerInv` bounds how much of an answer's life its request has used up; `MarginInv` turns that into a wait no longer than the life that is left. `RenewsInTime` carries its own hypothesis `MarginsCoverDelay`: `RenewBefore` and half of each lifetime cover the longest request. |
| `PolicyServingProofs` | `DecisionMeansPolicies`, `FailedPipNeverGrants`, `DenialNamesCause`, `ActivationIsEnough`, `WindowNeverOpens`, `PipsMeanDeclared`, `ConditionMeansText`, `BulkMeansSingles`, and the action property `GrantsGrow`: one policy more never takes access away | see below |
| `AgentServeProofs` | type correctness, `FailureIsReal`, `NothingServesAfterReturn` | `MainInv`: where the main goroutine is says whether listeners were started, the context has ended and the sockets are closed. `FailureInv`: a listener that has an error has one of its own, or the context had ended before, since a socket is closed only then or before any listener is started. |
| `OutboundTokenProofs` | type correctness, `NoLostReload`, `ReadyWithToken`, `RenewBurstBounded` | `ReadInv`: what the file source has read is the file, unless a reload is pending or about to be. `ReadyInv`: the ready channel is behind the token only between storing and announcing it. `BurstInv`: within `MinRenew` of a renewal nobody joins the callers that are about to signal, so what they have caused and can still cause is bounded by their number. |
| `TokenVerifierProofs` | of the keys `KidNamesOneKey`, `KeysMoveForward`; `VerifierTypeOK` with the cache within its size, `AcceptedAsIfChecked`, `SignatureDecidesFirst`, `AcceptedIsAdmitted` | Keys: `MutexInv`: `Load` fetches alone, then one refresh at a time. `FetchInv`: what a reload has fetched is a document that parses, published at that time or before, and is no older than the snapshot. A reload with two keys for one kid is not stored, so `~Conflict(current)` is kept. Verifier: `CacheOK`: each token has one entry, and passed a full check with the key of its entry at some time until now. `CallOK`: how far each call has got and what it has established, against the keys that were current since it began. That a cached verdict carries over to a later time is a lemma about the times of a token. |
| `SubjectIdentityProofs` | `HealthyMeansKeys`, `ReloadKeepsRequired`, `OneAnswer`, `AcceptedMeansTrusted`, `ReasonIsReal` | `AuthnInv`: between the put and the record the document is the one just fetched, which a reload judged before; and a status that `/health` approves of was recorded after its document or beside one that a reload judged. What is published is always one of `Documents`. Over any of these the bodies of each rule are shown to have one value at most, whatever the tokens, and the candidates that verify to be keys of fetched providers. |

`PolicyServingProofs` rests on five things.

- The indexes. `IndexInv` says each index is the comprehension over the policies read
  so far; one lemma per stage (wildcard access, OLS, the rules that grant, the
  predicates that remain) leads from it to `DecisionMeansPolicies`. `GrantsGrow`
  follows, since all of these stages grow with the policies.
- The evaluator. Two contexts are compared that differ in attributes of the subject.
  Where the attributes a condition reads are equal, so is its value. Where they
  differ only in PIPs that failed, a condition that holds still holds once these
  have a value: each level is shown to keep this, with negation as the case that
  needs the guard. So a failed PIP opens nothing, a denial that its value would lift
  comes from a rule that reads it, and this rule's attributes are in the index that
  the reason is read from.
- The PIP document. An attribute of the enriched subject is followed through the
  layers of `pip.rego` (the token's attributes, claims and headers, services,
  entitlements). What is called is exactly the GENERAL PIPs whose alias a rule in scope
  reads, so leaving the others out changes no attribute that is read; what is read is
  the declared value.
- The reading of a condition. `Meaning` is a recursive function on the nodes, and it
  means something only if its equation has a solution. Two solutions up to a height
  agree (`SolutionsAgree`), one up to each height exists (`SolutionsExist`), and the
  values at each node's own height are one for all nodes (`MeaningIs`). The levels of
  `rls.rego` are then compared with it from the inside out: `LeafMeans`, `InnerMeans`,
  `ArgMeans`, `AstMeans`, and `SimpleMeans` for the fast path. What the second level
  leaves out it takes as not met, and since a negation is of a comparison no negation
  turns that into a grant.
- The lists of the legacy routes. `Concatenation` has a solution for every length
  (`JoinsExist`), its elements are those of the lists, and picking every position
  gives the list back. When every type and operation is a string no result moves up,
  so position i of the results is the decision about entry i (`AllowedAtIs`); that
  decision does not depend on the id or on the route, so the single check decides the
  same (`AloneIs`). `CallInv` says that a reply is `Answer` of its call over the
  documents now in the store, or a failed evaluation: the documents change only while
  no reply stands. `BulkMeansSingles` alone is not inductive, for it says
  nothing of where a reply comes from.

Heights and lengths are natural numbers, and both inductions go by the least
counterexample (`Least`, from the well-foundedness of `<`): the library's induction
rules take a predicate as a parameter, which the provers cannot instantiate.

`ServingInv` joins the first three: `IndexInv`, the answer is that of the indexes to a client's
enriched request (`AnswerInv`), and what the second `Put` will store was built from
the indexes in the store. The last part is what the properties alone lack: they
speak of a document after it is stored. The assumptions are those of the modules:
nodes are what the parser builds (`NodesAssumption`), keys include ALL
(`KeyAssumption`), conditions are such nodes (`ConditionAssumption`), requests and
sources are well formed (`RequestAssumption`, `SourceAssumption`, `PipAssumption`,
`CallAssumption`). TLC evaluates all of them on the run.

The definitions named here that no run lists (`HashMatchesServed`, `ReadyForGood`,
`ReasonIsReal` and others) stand in their modules, and the proofs cover them.

### Only model-checked

- Liveness under fairness, which the prover does not do: `CatchesUp`,
  `TokenReachesRequests`, `RenewWakesWriter`, `KeysConverge`, `DocumentFollowsFile`,
  `TokenStaysAlive`, `FileFollowed`, `ShutdownEnds`.
- `ParsedAsWritten`, `PulledMeansSource` and the properties of `PolicyExport`
  (`BuiltTreesValid`, `TenantsFailAlone`, `NothingLostSilently`, `FindingsNameNodes`).
  The parsers, the grouping of an export and the walk over nested sets are mutually
  recursive over tokens and trees; they are `RECURSIVE` operators, which the prover
  does not take.
- That `WalkedRefs` and `TreeHeight` have what `NodesAssumption` says of `Refs` and
  `Height`, for the same reason; the run checks it for its nodes.

## Not modelled

- HTTP, JSON, JWT and base64 as text, and cryptography: a body decodes or does not,
  a signature verifies or does not.
- The lexers of both condition languages (`internal/simplifiedpolicies` and
  `policyir/token.go`) and the printing of `policyir/dump.go`: scanning characters,
  without state. The parsers start from tokens, one of which is "cannot be cut".
- `jsonpath`, `jsonvalue`, `legacyvalue`, `regobuiltins`: pure functions on texts,
  decimals and documents. What they promise is the answers of the Java libraries
  they replace, character by character; a small instance would not reach the cases
  that matter, and no part of the two services calls them yet.
- In `pip.rego`, what an outbound request is made of (placeholders, headers, query,
  body): it is built or not, and answered or not. The call for the entitlements is the
  value it yields. The checks of `pips/contract.go` on
  headers, queries and URLs are one verdict, `wellFormed`.
- Routing, `server.go` and the environment variables of `config.go`, the start of
  policy-admin (`main.go`) and the copying of fields in its `toV3PIPs`: no state
  beyond what the modules above hold.
- Charts, images and build scripts.
