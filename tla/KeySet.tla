------------------------------- MODULE KeySet -------------------------------
(***************************************************************************)
(* The signing keys of the trusted providers (internal/token/keys): Load   *)
(* fetches every provider's JWKS before the service starts, Refresh, which *)
(* Run calls on an interval and anyone else may call, replaces the whole   *)
(* snapshot, and Lookup reads it without waiting.                          *)
(*                                                                         *)
(* A JWKS document is the set of its usable signing keys, each a kid and   *)
(* its key material; unusable entries are skipped by parseJWKS and leave   *)
(* no trace.  A key in the snapshot also has its provider and a stamp,     *)
(* which stands for the identity of the jwk.Key object: every parse makes  *)
(* new objects.                                                            *)
(***************************************************************************)
EXTENDS Integers, FiniteSets

CONSTANTS
    Providers,     \* the configured providers
    Documents,     \* the JWKS documents a provider may publish
    Down,          \* a provider that does not answer, or not with a JWKS
    Loader,        \* the goroutine that calls Load
    Refreshers,    \* the goroutines that call Refresh, Run's among them
    NoOne,         \* the reloading mutex is free
    Unfetched,     \* a fetch that has not ended
    Failed,        \* a fetch that ended in an error
    MaxChanges,    \* bound on the changes a provider makes
    Stamps         \* bound on object identities, reused after that many

ASSUME StampsAssumption == MaxChanges \in Nat /\ Stamps \in Nat \ {0}

VARIABLES
    published,   \* what each provider publishes, and how often it changed
    current,     \* Set.current: the keys by provider
    reloading,   \* Set.reloading: who holds the mutex
    reload,      \* the phase of each goroutine
    results,     \* what the goroutine's fetches returned, by provider
    stamp,       \* the last object identity given
    (***********************************************************************)
    (* Observations only: which of a provider's documents a result and the *)
    (* snapshot come from.                                                 *)
    (***********************************************************************)
    fetchedAt,
    currentAt

keyVars == <<published, current, reloading, reload, results, stamp, fetchedAt, currentAt>>

Workers == Refreshers \cup {Loader}
Nothing == [p \in Providers |-> Unfetched]

Init ==
    /\ published \in [Providers -> [keys : Documents \cup {Down}, changes : {0}]]
    /\ current = [p \in Providers |-> {}]
    /\ reloading = NoOne
    /\ reload = [w \in Workers |-> IF w = Loader THEN "fetch" ELSE "idle"]
    /\ results = [w \in Workers |-> Nothing]
    /\ stamp = 0
    /\ fetchedAt = [w \in Workers |-> [p \in Providers |-> 0]]
    /\ currentAt = [p \in Providers |-> 0]

Serving == reload[Loader] = "done"

-----------------------------------------------------------------------------
(* The environment: a provider rotates its keys, goes away or comes back.  *)
Publish(p) ==
    /\ published[p].changes < MaxChanges
    /\ \E keys \in (Documents \cup {Down}) \ {published[p].keys} :
          published' = [published EXCEPT ![p] = [keys |-> keys, changes |-> @.changes + 1]]
    /\ UNCHANGED <<current, reloading, reload, results, stamp, fetchedAt, currentAt>>

-----------------------------------------------------------------------------
(* parseJWKS refuses a document with two different keys under one kid.     *)
Ambiguous(keys) == \E k1, k2 \in keys : k1 # k2 /\ k1.kid = k2.kid

Readable(p) == published[p].keys # Down /\ ~Ambiguous(published[p].keys)

(* The keys of a document as new objects; a document without a usable key  *)
(* is errNoUsableKey, which is the empty set here.                         *)
NewStamp == (stamp % Stamps) + 1
Parsed(p) == {[provider |-> p, kid |-> k.kid, material |-> k.material, stamp |-> NewStamp] :
                 k \in published[p].keys}

(* fetch, the discovery request included.  Load goes on trying a provider  *)
(* that has no usable key.                                                 *)
Fetch(w, p) ==
    /\ reload[w] = "fetch"
    /\ results[w][p] = Unfetched
    /\ Readable(p)
    /\ w = Loader => published[p].keys # {}
    /\ results' = [results EXCEPT ![w][p] = Parsed(p)]
    /\ fetchedAt' = [fetchedAt EXCEPT ![w][p] = published[p].changes]
    /\ stamp' = NewStamp
    /\ UNCHANGED <<published, current, reloading, reload, currentAt>>

(* Refresh tries a provider once; any request may fail.                    *)
FetchFails(w, p) ==
    /\ w # Loader
    /\ reload[w] = "fetch"
    /\ results[w][p] = Unfetched
    /\ results' = [results EXCEPT ![w][p] = Failed]
    /\ UNCHANGED <<published, current, reloading, reload, stamp, fetchedAt, currentAt>>

AllFetched(w) == \A p \in Providers : results[w][p] # Unfetched

(* newSnapshot refuses a kid that two providers publish.                   *)
ConflictOfNew(byProvider) ==
    \E p, q \in Providers :
        /\ p # q
        /\ \E j \in byProvider[p] \ current[p], k \in byProvider[q] \ current[q] : j.kid = k.kid
Conflict(byProvider) ==
    \E p, q \in Providers :
        /\ p # q
        /\ \E j \in byProvider[p], k \in byProvider[q] : j.kid = k.kid

(* Load succeeds with every provider's keys, or gives up: the startup      *)
(* timeout passed, or a kid has two providers.                             *)
LoadDone ==
    /\ reload[Loader] = "fetch"
    /\ AllFetched(Loader)
    /\ ~Conflict(results[Loader])
    /\ current' = results[Loader]
    /\ currentAt' = fetchedAt[Loader]
    /\ reload' = [reload EXCEPT ![Loader] = "done"]
    /\ results' = [results EXCEPT ![Loader] = Nothing]
    /\ UNCHANGED <<published, reloading, stamp, fetchedAt>>

LoadFails ==
    /\ reload[Loader] = "fetch"
    /\ AllFetched(Loader) => Conflict(results[Loader])
    /\ reload' = [reload EXCEPT ![Loader] = "failed"]
    /\ UNCHANGED <<published, current, reloading, results, stamp, fetchedAt, currentAt>>

(* Refresh begins when it has the mutex.                                   *)
RefreshUnlocked(w) ==
    /\ Serving
    /\ reload[w] = "idle"
    /\ reload' = [reload EXCEPT ![w] = "fetch"]
    /\ UNCHANGED <<published, current, reloading, results, stamp, fetchedAt, currentAt>>

Refresh(w) ==
    /\ Serving
    /\ reload[w] = "idle"
    /\ reloading = NoOne
    /\ reloading' = w
    /\ reload' = [reload EXCEPT ![w] = "fetch"]
    /\ UNCHANGED <<published, current, results, stamp, fetchedAt, currentAt>>

(* A provider whose fetch failed keeps its keys; one without a usable key  *)
(* loses them.                                                             *)
EmptyKeepsKeys(w) == [p \in Providers |->
    IF results[w][p] \in {Failed, {}} THEN current[p] ELSE results[w][p]]
Merged(w) == [p \in Providers |->
    IF results[w][p] = Failed THEN current[p] ELSE results[w][p]]

(* Refresh stores the new snapshot, unless two providers share a kid.      *)
RefreshEnds(w) ==
    /\ w # Loader
    /\ reload[w] = "fetch"
    /\ AllFetched(w)
    /\ LET replaced == ~Conflict(Merged(w)) IN
       /\ current' = IF replaced THEN Merged(w) ELSE current
       /\ currentAt' = IF replaced
                       THEN [p \in Providers |-> IF results[w][p] = Failed THEN currentAt[p]
                                                 ELSE fetchedAt[w][p]]
                       ELSE currentAt
    /\ reloading' = NoOne
    /\ reload' = [reload EXCEPT ![w] = "idle"]
    /\ results' = [results EXCEPT ![w] = Nothing]
    /\ fetchedAt' = [fetchedAt EXCEPT ![w] = [p \in Providers |-> 0]]
    /\ UNCHANGED <<published, stamp>>

RefreshStep(w) ==
    \/ Refresh(w)
    \/ RefreshEnds(w)
    \/ \E p \in Providers : Fetch(w, p) \/ FetchFails(w, p)

KeyNext ==
    \/ \E p \in Providers : Publish(p)
    \/ LoadDone
    \/ LoadFails
    \/ \E w \in Workers : RefreshStep(w)

Spec == Init /\ [][KeyNext]_keyVars

(* Run's ticker goes on, a fetch ends because the client has a timeout,    *)
(* and a waiter gets the mutex.                                            *)
FairSpec ==
    /\ Spec
    /\ \A w \in Refreshers :
          /\ SF_keyVars(Refresh(w))
          /\ WF_keyVars(RefreshStep(w))

-----------------------------------------------------------------------------
(* Lookup: the key that a kid names in the snapshot, as a set of at most   *)
(* one.                                                                    *)
AllKeys == UNION {current[p] : p \in Providers}
Lookup(kid) == {k \in AllKeys : k.kid = kid}

Kids == {k.kid : k \in UNION Documents}
Materials == {k.material : k \in UNION Documents}
Keys == [provider : Providers, kid : Kids, material : Materials, stamp : 1..Stamps]

ASSUME WorkersAssumption == Loader \notin Refreshers /\ NoOne \notin Refreshers

TypeOK ==
    /\ published \in [Providers -> [keys : Documents \cup {Down}, changes : 0..MaxChanges]]
    /\ current \in [Providers -> SUBSET Keys]
    /\ reloading \in Refreshers \cup {NoOne}
    /\ reload \in [Workers -> {"idle", "fetch", "done", "failed"}]
    /\ results \in [Workers -> [Providers -> (SUBSET Keys) \cup {Unfetched, Failed}]]
    /\ stamp \in 0..Stamps
    /\ fetchedAt \in [Workers -> [Providers -> 0..MaxChanges]]
    /\ currentAt \in [Providers -> 0..MaxChanges]

(***************************************************************************)
(* A kid names one key of one provider in every snapshot, whichever        *)
(* providers kept their keys and whichever got new ones: the audiences     *)
(* that apply to a token are never in doubt.                               *)
(***************************************************************************)
KidNamesOneKey ==
    \A p, q \in Providers : \A j \in current[p], k \in current[q] :
        j.kid = k.kid => p = q /\ j = k

(***************************************************************************)
(* The snapshot moves forward: no reload replaces a provider's keys by     *)
(* those of an earlier document, however many Refresh calls overlap, so a  *)
(* key that a provider has withdrawn does not come back.                   *)
(***************************************************************************)
KeysMoveForward ==
    [][\A p \in Providers : currentAt'[p] >= currentAt[p]]_keyVars

(***************************************************************************)
(* Once the providers stop changing, all of them answer, no kid is shared  *)
(* and requests no longer fail, the service comes to trust exactly the     *)
(* keys they publish: new keys are found and withdrawn ones are gone.      *)
(***************************************************************************)
Bare(keys) == {[kid |-> k.kid, material |-> k.material] : k \in keys}
Agreeable ==
    /\ \A p \in Providers : Readable(p)
    /\ ~Conflict([p \in Providers |-> published[p].keys])
SomeFetchFails == \E w \in Refreshers, p \in Providers : FetchFails(w, p)
UpToDate == \A p \in Providers : Bare(current[p]) = published[p].keys

KeysConverge ==
    <>[](Serving /\ Agreeable) /\ <>[][~SomeFetchFails]_keyVars => <>[]UpToDate
=============================================================================
