------------------------- MODULE TokenVerifierProofs -------------------------
(***************************************************************************)
(* The verification of a caller's token for any tokens, providers, callers *)
(* and cache size.  First the key set: a kid names one key in every        *)
(* snapshot, and the snapshot never goes back to an earlier document of a  *)
(* provider.  Then Verify: the cache keeps its bound and its order of      *)
(* distinct tokens, and a token that is accepted, cached or not, is one    *)
(* that a full check would accept.                                         *)
(***************************************************************************)
EXTENDS TokenVerifier, SequenceTheorems, TLAPS

(* Only a refresh gives up on a provider.                                  *)
Fetched(w, p) == results[w][p] # Unfetched /\ (w = Loader \/ results[w][p] # Failed)

(* The keys of one provider, no two of them with the same kid.             *)
OneProvider(keys, p) ==
    /\ keys \subseteq Keys
    /\ \A k \in keys : k.provider = p
    /\ \A j, k \in keys : j.kid = k.kid => j = k

(* Load fetches alone, and then Refresh one at a time.                     *)
MutexInv ==
    /\ reload[Loader] # "idle"
    /\ \A w \in Refreshers :
          /\ reload[w] = "fetch" => reloading = w /\ Serving
          /\ reload[w] # "fetch" => \A p \in Providers : results[w][p] = Unfetched

(* What a fetch returned and what the snapshot holds are documents that    *)
(* parseJWKS accepts, and the documents of the providers of now or before. *)
FetchInv ==
    /\ \A p \in Providers : OneProvider(current[p], p) /\ currentAt[p] <= published[p].changes
    /\ \A w \in Workers, p \in Providers : Fetched(w, p) =>
          /\ OneProvider(results[w][p], p)
          /\ fetchedAt[w][p] <= published[p].changes
          /\ reload[w] = "fetch" => currentAt[p] <= fetchedAt[w][p]

(* newSnapshot has found no kid of two providers in the snapshot.          *)
KeyInv == TypeOK /\ MutexInv /\ FetchInv /\ ~Conflict(current)
-----------------------------------------------------------------------------
(* parseJWKS returns the keys of one provider.                             *)
LEMMA ParsedKeys ==
  ASSUME TypeOK, NEW p \in Providers, Readable(p)
  PROVE  OneProvider(Parsed(p), p) /\ NewStamp \in 1..Stamps
<1>1. NewStamp \in 1..Stamps
  BY StampsAssumption DEF TypeOK, NewStamp
<1>2. published[p].keys \in Documents
  BY Zenon DEF TypeOK, Readable
<1>3. Parsed(p) \subseteq Keys
  BY <1>1, <1>2 DEF Parsed, Keys, Kids, Materials
<1>4. \A k \in Parsed(p) : k.provider = p
  BY DEF Parsed
<1>5. ASSUME NEW j \in Parsed(p), NEW k \in Parsed(p), j.kid = k.kid
      PROVE  j = k
  <2>1. PICK a \in published[p].keys :
            j = [provider |-> p, kid |-> a.kid, material |-> a.material, stamp |-> NewStamp]
    BY Zenon DEF Parsed
  <2>2. PICK b \in published[p].keys :
            k = [provider |-> p, kid |-> b.kid, material |-> b.material, stamp |-> NewStamp]
    BY Zenon DEF Parsed
  <2>3. a = b
    BY <1>5, <2>1, <2>2, Zenon DEF Readable, Ambiguous
  <2> QED BY <2>1, <2>2, <2>3, Zenon
<1> QED BY <1>1, <1>3, <1>4, <1>5, Zenon DEF OneProvider

LEMMA KeyInitially == Init => KeyInv
<1> SUFFICES ASSUME Init PROVE KeyInv BY Zenon
<1>1. TypeOK
  BY StampsAssumption, WorkersAssumption DEF Init, TypeOK, Workers, Nothing
<1>2. MutexInv
  BY WorkersAssumption, Zenon DEF Init, MutexInv, Workers, Nothing, Serving
<1>3. FetchInv
  BY DEF Init, FetchInv, Fetched, OneProvider, Workers, Nothing
<1>4. ~Conflict(current)
  BY Zenon DEF Init, Conflict
<1> QED BY <1>1, <1>2, <1>3, <1>4, Zenon DEF KeyInv

LEMMA PublishStep ==
  ASSUME KeyInv, NEW p \in Providers, Publish(p)
  PROVE  KeyInv'
<1> USE DEF KeyInv
<1>1. \A q \in Providers : published'[q].changes \in 0..MaxChanges
                           /\ published[q].changes <= published'[q].changes
  BY StampsAssumption DEF Publish, TypeOK
<1>2. TypeOK'
  BY <1>1, StampsAssumption DEF Publish, TypeOK
<1>3. MutexInv' /\ ~Conflict(current)'
  BY Zenon DEF Publish, MutexInv, Serving, Conflict
<1>4. FetchInv'
  BY <1>1, StampsAssumption DEF Publish, FetchInv, Fetched, OneProvider, TypeOK
<1> QED BY <1>2, <1>3, <1>4, Zenon

(* The end of a fetch, by Load or by Refresh.                              *)
LEMMA FetchStep ==
  ASSUME KeyInv, NEW w \in Workers, NEW p \in Providers, Fetch(w, p)
  PROVE  KeyInv'
<1> USE DEF KeyInv
<1>0. OneProvider(Parsed(p), p) /\ NewStamp \in 1..Stamps
  BY ParsedKeys, Zenon DEF Fetch
<1>1. published[p].changes \in 0..MaxChanges
  BY Zenon DEF TypeOK
<1>2. TypeOK'
  <2>1. results' \in [Workers -> [Providers -> (SUBSET Keys) \cup {Unfetched, Failed}]]
    BY <1>0, Zenon DEF Fetch, TypeOK, OneProvider
  <2>2. fetchedAt' \in [Workers -> [Providers -> 0..MaxChanges]]
    BY <1>1, Zenon DEF Fetch, TypeOK
  <2> QED BY <1>0, <2>1, <2>2, StampsAssumption DEF Fetch, TypeOK
<1>3. MutexInv' /\ ~Conflict(current)'
  BY ZenonT(40) DEF Fetch, TypeOK, MutexInv, Serving, Conflict, Workers
<1>4. ASSUME NEW v \in Workers, NEW q \in Providers, v # w \/ q # p
      PROVE  results'[v][q] = results[v][q] /\ fetchedAt'[v][q] = fetchedAt[v][q]
  BY <1>4, Zenon DEF Fetch, TypeOK
<1>5. results'[w][p] = Parsed(p) /\ fetchedAt'[w][p] = published[p].changes
  BY Zenon DEF Fetch, TypeOK
<1>6. UNCHANGED <<published, current, reload, currentAt>>
  BY Zenon DEF Fetch
<1>7. FetchInv'
  <2>1. ASSUME NEW v \in Workers, NEW q \in Providers, Fetched(v, q)'
        PROVE  /\ OneProvider(results[v][q], q)'
               /\ fetchedAt'[v][q] <= published'[q].changes
               /\ reload'[v] = "fetch" => currentAt'[q] <= fetchedAt'[v][q]
    <3>1. CASE v = w /\ q = p
      BY <1>0, <1>1, <1>5, <1>6, <3>1 DEF FetchInv, OneProvider
    <3>2. CASE v # w \/ q # p
      BY <1>4, <1>6, <2>1, <3>2, Zenon DEF FetchInv, OneProvider, Fetched
    <3> QED BY <3>1, <3>2, Zenon
  <2> QED BY <1>6, <2>1, Zenon DEF FetchInv, OneProvider
<1> QED BY <1>2, <1>3, <1>7, Zenon

LEMMA FetchFailsStep ==
  ASSUME KeyInv, NEW w \in Workers, NEW p \in Providers, FetchFails(w, p)
  PROVE  KeyInv'
<1> USE DEF KeyInv
<1>1. TypeOK'
  BY Zenon DEF FetchFails, TypeOK
<1>2. MutexInv' /\ ~Conflict(current)'
  BY Zenon DEF FetchFails, TypeOK, MutexInv, Serving, Conflict, Workers
<1>3. ASSUME NEW v \in Workers, NEW q \in Providers, Fetched(v, q)'
      PROVE  Fetched(v, q) /\ results'[v][q] = results[v][q]
  BY <1>3, Zenon DEF FetchFails, TypeOK, Fetched
<1>4. FetchInv'
  BY <1>3, ZenonT(40) DEF FetchFails, FetchInv, OneProvider
<1> QED BY <1>1, <1>2, <1>4, Zenon

(* Load ends: its results are the first snapshot.                          *)
LEMMA LoadStep == KeyInv /\ (LoadDone \/ LoadFails) => KeyInv'
<1> SUFFICES ASSUME KeyInv, LoadDone \/ LoadFails PROVE KeyInv' BY Zenon
<1> USE DEF KeyInv
<1>0. Loader \in Workers /\ \A w \in Refreshers : w # Loader /\ reload[w] # "fetch"
  BY WorkersAssumption, Zenon DEF Workers, LoadDone, LoadFails, MutexInv, Serving
<1>1. CASE LoadDone
  <2>1. \A p \in Providers : /\ OneProvider(results[Loader][p], p)
                             /\ fetchedAt[Loader][p] <= published[p].changes
    BY <1>0, <1>1, Zenon DEF LoadDone, AllFetched, FetchInv, Fetched
  <2>2. TypeOK'
    <3>1. current' \in [Providers -> SUBSET Keys]
      BY <1>0, <1>1, <2>1, Zenon DEF LoadDone, TypeOK, OneProvider
    <3> QED BY <1>0, <1>1, <3>1, Zenon DEF LoadDone, TypeOK, Nothing
  <2>3. MutexInv'
    BY <1>0, <1>1, Zenon DEF LoadDone, TypeOK, MutexInv, Serving, Workers
  <2>4. \A w \in Workers, p \in Providers : Fetched(w, p)' => w # Loader /\ reload'[w] # "fetch"
    BY <1>0, <1>1, Zenon DEF LoadDone, TypeOK, Fetched, Nothing, Workers
  <2>5. \A w \in Workers : w # Loader => results'[w] = results[w]
    BY <1>1, Zenon DEF LoadDone, TypeOK
  <2>6. FetchInv'
    BY <1>1, <2>1, <2>4, <2>5, ZenonT(40) DEF LoadDone, FetchInv, Fetched, OneProvider
  <2>7. ~Conflict(current)'
    BY <1>1, ZenonT(40) DEF LoadDone, Conflict
  <2> QED BY <2>2, <2>3, <2>6, <2>7, Zenon
<1>2. CASE LoadFails
  <2>1. TypeOK' /\ \A w \in Workers : reload'[w] = "fetch" => reload[w] = "fetch"
    BY <1>2, Zenon DEF LoadFails, TypeOK
  <2>2. MutexInv'
    BY <1>0, <1>2, <2>1, Zenon DEF LoadFails, TypeOK, MutexInv, Serving, Workers
  <2>3. FetchInv' /\ ~Conflict(current)'
    BY <1>2, <2>1 DEF LoadFails, FetchInv, Fetched, OneProvider, Conflict
  <2> QED BY <2>1, <2>2, <2>3, Zenon
<1> QED BY <1>1, <1>2, Zenon

LEMMA RefreshBegins ==
  ASSUME KeyInv, NEW w \in Workers, Refresh(w)
  PROVE  KeyInv'
<1> USE DEF KeyInv
<1>0. w \in Refreshers /\ w # Loader /\ \A v \in Refreshers : reload[v] # "fetch"
  BY WorkersAssumption, Zenon DEF Workers, Refresh, MutexInv
<1>1. TypeOK'
  BY <1>0, Zenon DEF Refresh, TypeOK
<1>2. MutexInv'
  BY <1>0, Zenon DEF Refresh, TypeOK, MutexInv, Serving, Workers
<1>3. \A p \in Providers : ~Fetched(w, p)
  BY <1>0, Zenon DEF Fetched, MutexInv
<1>4. FetchInv' /\ ~Conflict(current)'
  BY <1>3 DEF Refresh, TypeOK, FetchInv, Fetched, OneProvider, Conflict
<1> QED BY <1>1, <1>2, <1>4, Zenon

(* A refresh ends with the new snapshot, or with the old one.              *)
LEMMA RefreshStepEnds ==
  ASSUME KeyInv, NEW w \in Workers, RefreshEnds(w)
  PROVE  KeyInv' /\ \A p \in Providers : currentAt'[p] >= currentAt[p]
<1> USE DEF KeyInv
<1>0. /\ w \in Refreshers /\ w # Loader /\ Serving
      /\ \A v \in Workers : v # w => reload[v] # "fetch"
  BY WorkersAssumption, Zenon DEF Workers, RefreshEnds, MutexInv, Serving
<1>1. \A p \in Providers : \/ results[w][p] = Failed
                           \/ Fetched(w, p) /\ currentAt[p] <= fetchedAt[w][p]
  BY <1>0, Zenon DEF RefreshEnds, AllFetched, Fetched, FetchInv
<1>2. \A p \in Providers : OneProvider(Merged(w)[p], p)
  BY <1>1, Zenon DEF Merged, FetchInv
<1>3. \A p \in Providers :
         /\ OneProvider(current'[p], p)
         /\ currentAt'[p] \in 0..MaxChanges
         /\ currentAt'[p] >= currentAt[p]
         /\ currentAt'[p] <= published[p].changes
  <2>1. CASE Conflict(Merged(w))
    BY <2>1 DEF RefreshEnds, FetchInv, TypeOK
  <2>2. CASE ~Conflict(Merged(w))
    <3>1. current' = Merged(w)
      BY <2>2, Zenon DEF RefreshEnds
    <3>2. \A p \in Providers : currentAt'[p] = (IF results[w][p] = Failed THEN currentAt[p]
                                                ELSE fetchedAt[w][p])
      BY <2>2, Zenon DEF RefreshEnds
    <3> QED BY <1>1, <1>2, <3>1, <3>2 DEF FetchInv, TypeOK
  <2> QED BY <2>1, <2>2, Zenon
<1>4. /\ current' \in [Providers -> SUBSET Keys]
      /\ currentAt' \in [Providers -> 0..MaxChanges]
      /\ ~Conflict(current)'
  <2>1. CASE Conflict(Merged(w))
    BY <2>1, ZenonT(40) DEF RefreshEnds, TypeOK, Conflict
  <2>2. CASE ~Conflict(Merged(w))
    <3>1. current' = Merged(w) /\ \A p \in Providers : Merged(w)[p] \subseteq Keys
      BY <1>2, <2>2, Zenon DEF RefreshEnds, OneProvider
    <3>2. current' \in [Providers -> SUBSET Keys]
      BY <3>1, Zenon DEF Merged
    <3>3. currentAt' \in [Providers -> 0..MaxChanges]
      BY <2>2, Zenon DEF RefreshEnds, TypeOK
    <3>4. ~Conflict(current)'
      BY <2>2, <3>1, ZenonT(40) DEF Conflict
    <3> QED BY <3>2, <3>3, <3>4, Zenon
  <2> QED BY <2>1, <2>2, Zenon
<1>5. TypeOK'
  <2>1. fetchedAt' \in [Workers -> [Providers -> 0..MaxChanges]]
    BY StampsAssumption DEF RefreshEnds, TypeOK
  <2>2. results' \in [Workers -> [Providers -> (SUBSET Keys) \cup {Unfetched, Failed}]]
    BY Zenon DEF RefreshEnds, TypeOK, Nothing
  <2> QED BY <1>4, <2>1, <2>2, Zenon DEF RefreshEnds, TypeOK
<1>6. MutexInv'
  BY <1>0, Zenon DEF RefreshEnds, TypeOK, MutexInv, Serving, Workers, Nothing
<1>7. \A v \in Workers, p \in Providers : Fetched(v, p)' =>
         /\ v # w /\ reload'[v] # "fetch" /\ Fetched(v, p)
         /\ results'[v][p] = results[v][p] /\ fetchedAt'[v][p] = fetchedAt[v][p]
  BY <1>0, Zenon DEF RefreshEnds, TypeOK, Fetched, Nothing
<1>8. FetchInv'
  BY <1>3, <1>7 DEF RefreshEnds, FetchInv, OneProvider
<1> QED BY <1>3, <1>4, <1>5, <1>6, <1>8, Zenon

LEMMA KeyStutters == KeyInv /\ UNCHANGED keyVars => KeyInv'
BY DEF keyVars, KeyInv, TypeOK, MutexInv, Serving, FetchInv, Fetched, OneProvider, Conflict

LEMMA KeyInductive == KeyInv /\ [KeyNext]_keyVars => KeyInv'
<1> SUFFICES ASSUME KeyInv, [KeyNext]_keyVars PROVE KeyInv' BY Zenon
<1>1. ASSUME NEW p \in Providers, Publish(p) PROVE KeyInv'
  BY <1>1, PublishStep, Zenon
<1>2. CASE LoadDone \/ LoadFails
  BY <1>2, LoadStep, Zenon
<1>3. ASSUME NEW w \in Workers, RefreshStep(w) PROVE KeyInv'
  BY <1>3, RefreshBegins, RefreshStepEnds, FetchStep, FetchFailsStep, Zenon DEF RefreshStep
<1>4. CASE UNCHANGED keyVars
  BY <1>4, KeyStutters, Zenon
<1> QED BY <1>1, <1>2, <1>3, <1>4, Zenon DEF KeyNext

LEMMA KeyInvariance == Spec => []KeyInv
BY KeyInitially, KeyInductive, PTL DEF Spec

LEMMA OneKeyPerKid == KeyInv => KidNamesOneKey
<1> SUFFICES ASSUME KeyInv, NEW p \in Providers, NEW q \in Providers,
                    NEW j \in current[p], NEW k \in current[q], j.kid = k.kid
             PROVE  p = q /\ j = k
  BY Zenon DEF KidNamesOneKey
<1>1. p = q
  BY Zenon DEF KeyInv, Conflict
<1> QED BY <1>1, Zenon DEF KeyInv, FetchInv, OneProvider

(* A kid names one key of one provider in every snapshot that Lookup can   *)
(* see, whatever the providers publish and whichever fetches fail.         *)
THEOREM KidsUnambiguous == Spec => []KidNamesOneKey
BY KeyInvariance, OneKeyPerKid, PTL

(* No Refresh puts back an earlier document of a provider: the mutex is    *)
(* held from before the fetches to after the snapshot is stored.           *)
THEOREM SnapshotsMoveForward == Spec => KeysMoveForward
<1>1. KeyInv /\ [KeyNext]_keyVars => [\A p \in Providers : currentAt'[p] >= currentAt[p]]_keyVars
  <2> SUFFICES ASSUME KeyInv, KeyNext PROVE \A p \in Providers : currentAt'[p] >= currentAt[p]
    BY Zenon
  <2>0. \A p \in Providers : currentAt[p] \in Nat
    BY StampsAssumption DEF KeyInv, TypeOK
  <2>1. ASSUME NEW w \in Workers, RefreshStep(w), ~RefreshEnds(w) PROVE UNCHANGED currentAt
    BY <2>1, Zenon DEF RefreshStep, Refresh, Fetch, FetchFails
  <2>2. CASE LoadDone
    BY <2>2, WorkersAssumption, Zenon DEF LoadDone, AllFetched, KeyInv, FetchInv, Fetched,
       Workers
  <2>3. CASE LoadFails \/ \E p \in Providers : Publish(p)
    BY <2>0, <2>3 DEF LoadFails, Publish
  <2> QED BY <2>0, <2>1, <2>2, <2>3, RefreshStepEnds DEF KeyNext
<1> QED BY KeyInvariance, <1>1, PTL DEF Spec, KeysMoveForward
-----------------------------------------------------------------------------

Entries == [token : Tokens, key : Keys]

(* What check found out about a token and its key at some time until now.  *)
Vouched(t, key) ==
    /\ key.kid = t.kid
    /\ HeaderFault(t) = ""
    /\ \E time \in 0..now : Fault(t, key, time) = ""

(* What AcceptedAsIfChecked promises of a call that began at start and has *)
(* seen these keys.                                                        *)
Checked(t, key, start, keys) ==
    /\ key \in keys
    /\ key.kid = t.kid
    /\ HeaderFault(t) = ""
    /\ \E time \in start..now : Fault(t, key, time) = ""
    /\ start < t.exp + Leeway

(* A call's state says what has been checked: nothing but the cache's word *)
(* before Compare, and everything from put on.                             *)
CallOK(r, keys) ==
    /\ r.now <= now
    /\ r.phase # "idle" => r.token \in Tokens /\ AllKeys \subseteq keys
    /\ r.phase \in {"compare", "put"} => r.key \in Keys /\ Vouched(r.token, r.key)
    /\ r.phase = "compare" => r.now < r.token.exp + Leeway
    /\ r.phase \in {"put", "admit", "accepted"} => Checked(r.token, r.key, r.now, keys)
    /\ r.phase # "refused" => r.code = ""
    /\ r.code \in ClaimCodes => r.token.signer = r.key.material

CacheOK(entries) ==
    /\ entries \in Seq(Entries)
    /\ Len(entries) <= CacheSize
    /\ \A i, j \in DOMAIN entries : entries[i].token = entries[j].token => i = j
    /\ \A i \in DOMAIN entries : Vouched(entries[i].token, entries[i].key)

VInv ==
    /\ KeyInv
    /\ VerifierTypeOK
    /\ CacheOK(cache)
    /\ \A c \in Callers : CallOK(call[c], seen[c])
-----------------------------------------------------------------------------
(* A sequence without one of its elements.                                 *)
LEMMA Removal ==
  ASSUME NEW E, NEW s \in Seq(E), NEW i \in 1..Len(s)
  PROVE  /\ RemoveAt(s, i) \in Seq(E)
         /\ Len(RemoveAt(s, i)) = Len(s) - 1
         /\ \A k \in 1..(Len(s) - 1) : RemoveAt(s, i)[k] = (IF k < i THEN s[k] ELSE s[k + 1])
<1>1. SubSeq(s, 1, i - 1) \in Seq(E) /\ SubSeq(s, i + 1, Len(s)) \in Seq(E)
  BY SubSeqProperties
<1>2. /\ Len(SubSeq(s, 1, i - 1)) = i - 1
      /\ Len(SubSeq(s, i + 1, Len(s))) = Len(s) - i
      /\ \A k \in 1..(i - 1) : SubSeq(s, 1, i - 1)[k] = s[k]
      /\ \A k \in 1..(Len(s) - i) : SubSeq(s, i + 1, Len(s))[k] = s[i + k]
  BY SubSeqProperties
<1> DEFINE a == SubSeq(s, 1, i - 1)
           b == SubSeq(s, i + 1, Len(s))
           r == RemoveAt(s, i)
<1>3. /\ r \in Seq(E)
      /\ Len(r) = Len(a) + Len(b)
      /\ \A k \in 1..(Len(a) + Len(b)) : r[k] = IF k <= Len(a) THEN a[k] ELSE b[k - Len(a)]
  BY <1>1, ConcatProperties, Zenon DEF RemoveAt
<1>4. Len(a) = i - 1 /\ Len(b) = Len(s) - i /\ Len(s) \in Nat
  BY <1>2
<1> HIDE DEF a, b, r
<1>5. Len(r) = Len(s) - 1
  BY <1>3, <1>4
<1>6. ASSUME NEW k \in 1..(Len(s) - 1)
      PROVE  r[k] = (IF k < i THEN s[k] ELSE s[k + 1])
  <2>1. r[k] = IF k <= i - 1 THEN a[k] ELSE b[k - (i - 1)]
    BY <1>3, <1>4
  <2>2. CASE k < i
    BY <1>2, <2>1, <2>2 DEF a
  <2>3. CASE ~(k < i)
    <3>1. k - (i - 1) \in 1..(Len(s) - i) /\ i + (k - (i - 1)) = k + 1 /\ ~(k <= i - 1)
      BY <1>4, <2>3
    <3>2. b[k - (i - 1)] = s[i + (k - (i - 1))]
      BY <1>2, <3>1, Zenon DEF b
    <3> QED BY <2>1, <2>3, <3>1, <3>2, Zenon
  <2> QED BY <2>2, <2>3, Zenon
<1> QED BY <1>3, <1>5, <1>6, Zenon DEF r

(* What get, put and remove leave of the cache: every other entry, once.   *)
LEMMA WithoutEntries ==
  ASSUME cache \in Seq(Entries),
         \A i, j \in DOMAIN cache : cache[i].token = cache[j].token => i = j,
         NEW t
  PROVE  /\ Without(t) \in Seq(Entries)
         /\ Len(Without(t)) <= Len(cache)
         /\ Cached(t) # {} => Len(Without(t)) = Len(cache) - 1
         /\ \A k \in DOMAIN Without(t) : Without(t)[k].token # t
         /\ \A k \in DOMAIN Without(t) : \E i \in DOMAIN cache : Without(t)[k] = cache[i]
         /\ \A k, l \in DOMAIN Without(t) : Without(t)[k].token = Without(t)[l].token => k = l
<1>0. DOMAIN cache = 1..Len(cache) /\ Len(cache) \in Nat
  OBVIOUS
<1>1. CASE Cached(t) = {}
  <2>1. Without(t) = cache /\ \A k \in DOMAIN cache : cache[k].token # t
    BY <1>1, Zenon DEF Without, Cached
  <2> QED BY <1>0, <1>1, <2>1
<1>2. CASE Cached(t) # {}
  <2>1. PICK i \in 1..Len(cache) : cache[i].token = t /\ Without(t) = RemoveAt(cache, i)
    BY <1>0, <1>2, Zenon DEF Without, Cached
  <2>2. /\ Without(t) \in Seq(Entries)
        /\ Len(Without(t)) = Len(cache) - 1
        /\ \A k \in 1..(Len(cache) - 1) :
              Without(t)[k] = (IF k < i THEN cache[k] ELSE cache[k + 1])
    <3>1. /\ RemoveAt(cache, i) \in Seq(Entries)
          /\ Len(RemoveAt(cache, i)) = Len(cache) - 1
          /\ \A k \in 1..(Len(cache) - 1) :
                RemoveAt(cache, i)[k] = (IF k < i THEN cache[k] ELSE cache[k + 1])
      BY Removal, Zenon
    <3> QED BY <2>1, <3>1, Zenon
  <2>3. DOMAIN Without(t) = 1..(Len(cache) - 1)
    BY <2>2
  <2>4. \A k \in 1..(Len(cache) - 1) :
           \E j \in 1..Len(cache) : /\ Without(t)[k] = cache[j]
                                    /\ j = (IF k < i THEN k ELSE k + 1)
    BY <1>0, <2>2
  <2>5. \A k \in DOMAIN Without(t) : Without(t)[k].token # t
    BY <1>0, <2>1, <2>3, <2>4
  <2>6. ASSUME NEW k \in DOMAIN Without(t), NEW l \in DOMAIN Without(t),
               Without(t)[k].token = Without(t)[l].token
        PROVE  k = l
    <3>1. PICK x \in 1..Len(cache) : Without(t)[k] = cache[x] /\ x = (IF k < i THEN k ELSE k + 1)
      BY <2>3, <2>4, Zenon
    <3>2. PICK y \in 1..Len(cache) : Without(t)[l] = cache[y] /\ y = (IF l < i THEN l ELSE l + 1)
      BY <2>3, <2>4, Zenon
    <3>3. x = y
      BY <1>0, <2>6, <3>1, <3>2, Zenon
    <3> QED BY <1>0, <2>3, <3>1, <3>2, <3>3
  <2> QED BY <1>0, <2>2, <2>3, <2>4, <2>5, <2>6
<1> QED BY <1>1, <1>2, Zenon

(* A fault is one of the codes, and none means that no check finds one.    *)
LEMMA Faults ==
  ASSUME NEW t, NEW key, NEW time
  PROVE  /\ Fault(t, key, time) \in Codes
         /\ HeaderFault(t) \in Codes
         /\ Fault(t, key, time) = "" <=> /\ SignatureFault(t, key) = ""
                                         /\ PayloadFault(t) = ""
                                         /\ AudienceFault(t, key.provider) = ""
                                         /\ TimesFault(t, time) = ""
         /\ Fault(t, key, time) \in ClaimCodes => t.signer = key.material
         /\ HeaderFault(t) \notin ClaimCodes
<1>1. SignatureFault(t, key) \in {"", "TOKEN_ALG_NOT_ALLOWED", "TOKEN_SIGNATURE_INVALID"}
  BY Zenon DEF SignatureFault
<1>6. PayloadFault(t) \in {"", "TOKEN_FORMAT_INVALID"}
  BY Zenon DEF PayloadFault
<1>2. AudienceFault(t, key.provider) \in {"", "TOKEN_AUDIENCE_MISSING", "TOKEN_AUDIENCE_INVALID"}
  BY Zenon DEF AudienceFault
<1>3. TimesFault(t, time) \in {"", "TOKEN_FORMAT_INVALID", "TOKEN_EXP_MISSING", "TOKEN_EXPIRED",
                               "TOKEN_NOT_YET_VALID", "TOKEN_IAT_MISSING", "TOKEN_IAT_INVALID"}
  BY Zenon DEF TimesFault
<1>4. SignatureFault(t, key) = "" => t.signer = key.material
  BY Zenon DEF SignatureFault
<1>5. HeaderFault(t) \in {"", "TOKEN_FORMAT_INVALID", "TOKEN_ALG_NOT_ALLOWED", "TOKEN_KID_MISSING"}
  BY Zenon DEF HeaderFault
<1> QED BY <1>1, <1>2, <1>3, <1>4, <1>5, <1>6, Zenon DEF Fault, First, Codes, ClaimCodes

(* The comparisons of checkTimes, at two times.                            *)
LEMMA Later ==
  ASSUME NEW early \in Nat, NEW late \in Nat, early <= late, NEW x \in Int
  PROVE  /\ ~(early >= x + Leeway) <=> early < x + Leeway
         /\ ~(late >= x + Leeway) <=> late < x + Leeway
         /\ ~(early < x - Leeway) => ~(late < x - Leeway)
         /\ ~(x > early + Leeway) => ~(x > late + Leeway)
BY VerifierAssumption

(* The comparisons of checkTimes in the form InTime has them.              *)
LEMMA Boundaries ==
  ASSUME NEW time \in Nat, NEW x \in Int
  PROVE  /\ ~(time >= x + Leeway) => time - Leeway < x
         /\ ~(time < x - Leeway) => x <= time + Leeway
         /\ ~(x > time + Leeway) => x <= time + Leeway
BY VerifierAssumption

(* What the checks pass is what AcceptedAsIfChecked asks for.              *)
LEMMA PassedMeans ==
  ASSUME NEW t \in Tokens, NEW key, NEW time \in Nat,
         HeaderFault(t) = "", Fault(t, key, time) = ""
  PROVE  /\ key.material = t.signer
         /\ t.alg \in Algorithms \cap KeyAlgs[key.material]
         /\ t.wellFormed /\ t.isObject
         /\ Addressed(t, key.provider)
         /\ InTime(t, time)
<1>1. /\ SignatureFault(t, key) = "" /\ PayloadFault(t) = ""
      /\ AudienceFault(t, key.provider) = "" /\ TimesFault(t, time) = ""
  BY Faults, Zenon
<1>2. t.wellFormed /\ t.alg \in Algorithms
  BY Zenon DEF HeaderFault
<1>3. t.alg \in KeyAlgs[key.material] /\ key.material = t.signer /\ t.isObject
  BY <1>1, Zenon DEF SignatureFault, PayloadFault
<1>4. Addressed(t, key.provider)
  BY <1>1, Zenon DEF AudienceFault, Addressed
<1>5. /\ t.exp # Bad /\ t.exp # Absent /\ t.nbf # Bad /\ t.iat # Bad /\ t.iat # Absent
      /\ ~(time >= t.exp + Leeway)
      /\ ~(t.nbf # Absent /\ time < t.nbf - Leeway)
      /\ ~(t.iat > time + Leeway)
  BY <1>1, Zenon DEF TimesFault
<1>6. t.exp \in Int /\ t.iat \in Int /\ (t.nbf # Absent => t.nbf \in Int)
  BY <1>5, TimesAssumption, Zenon
<1>8. InTime(t, time)
  BY <1>5, <1>6, Boundaries, Zenon DEF InTime
<1> QED BY <1>2, <1>3, <1>4, <1>8, Zenon

(* What passes the checks at one time passes them later, until it expires. *)
LEMMA StillValid ==
  ASSUME NEW t \in Tokens, NEW key, NEW early \in Nat, NEW late \in Nat, early <= late,
         Fault(t, key, early) = ""
  PROVE  /\ t.exp \in Int
         /\ early < t.exp + Leeway
         /\ late < t.exp + Leeway => Fault(t, key, late) = ""
<1>1. TimesFault(t, early) = ""
  BY Faults, Zenon
<1>2. {t.exp, t.nbf, t.iat} \subseteq Int \cup {Absent, Bad} /\ Leeway \in Nat
  BY TimesAssumption, VerifierAssumption, Zenon
<1>3. /\ t.exp # Bad /\ t.exp # Absent /\ t.nbf # Bad /\ t.iat # Bad /\ t.iat # Absent
      /\ ~(early >= t.exp + Leeway)
      /\ ~(t.nbf # Absent /\ early < t.nbf - Leeway)
      /\ ~(t.iat > early + Leeway)
  BY <1>1, Zenon DEF TimesFault
<1>4. t.exp \in Int /\ t.iat \in Int /\ (t.nbf # Absent => t.nbf \in Int)
  BY <1>2, <1>3, Zenon
<1>5. ASSUME late < t.exp + Leeway PROVE TimesFault(t, late) = ""
  <2>1. /\ ~(late >= t.exp + Leeway)
        /\ ~(t.nbf # Absent /\ late < t.nbf - Leeway)
        /\ ~(t.iat > late + Leeway)
    BY <1>3, <1>4, <1>5, Later, Zenon
  <2> QED BY <1>3, <2>1, Zenon DEF TimesFault
<1>6. early < t.exp + Leeway
  BY <1>3, <1>4, Later, Zenon
<1> QED BY <1>4, <1>5, <1>6, Faults, Zenon
-----------------------------------------------------------------------------
CallRecords ==
    [phase : {"idle", "get", "remove", "compare", "check", "put", "admit", "accepted", "refused"},
     token : Tokens \cup {NoToken}, key : Keys \cup {NoKey}, now : 0..MaxTime, code : Codes]

(* The keys of the snapshot are keys.                                      *)
LEMMA SnapshotKeys == TypeOK => AllKeys \subseteq Keys
BY DEF TypeOK, AllKeys

LEMMA IdleCall == Idle \in CallRecords /\ \A keys : now \in Nat => CallOK(Idle, keys)
<1>1. "" \in Codes /\ "" \notin ClaimCodes
  BY Zenon DEF Codes, ClaimCodes
<1>2. 0 \in 0..MaxTime
  BY VerifierAssumption
<1>3. Idle \in CallRecords
  BY <1>1, <1>2, Zenon DEF Idle, CallRecords
<1>4. ASSUME NEW keys, now \in Nat PROVE CallOK(Idle, keys)
  <2>1. Idle.phase = "idle" /\ Idle.now = 0 /\ Idle.code = ""
    BY Zenon DEF Idle
  <2>2. 0 <= now
    BY <1>4
  <2> QED BY <1>1, <2>1, <2>2, Zenon DEF CallOK
<1> QED BY <1>3, <1>4, Zenon

(* A step of Verify changes its call and perhaps the cache.                *)
LEMMA CallChanges ==
  ASSUME VInv, NEW c \in Callers,
         UNCHANGED <<keyVars, now, topology, allowed>>,
         call' \in [Callers -> CallRecords],
         seen' \in [Callers -> SUBSET Keys],
         \A d \in Callers \ {c} : call'[d] = call[d] /\ seen'[d] = seen[d],
         CallOK(call'[c], seen'[c]),
         CacheOK(cache')
  PROVE  VInv'
<1>1. KeyInv'
  BY KeyStutters, Zenon DEF VInv
<1>2. UNCHANGED <<now, current>> /\ AllKeys' = AllKeys
  BY Zenon DEF keyVars, AllKeys
<1>3. ASSUME NEW d \in Callers PROVE CallOK(call[d], seen[d])'
  <2>1. CallOK(call'[d], seen'[d])
    BY Zenon DEF VInv
  <2> QED BY <1>2, <2>1, Zenon DEF CallOK, Vouched, Checked
<1>4. CacheOK(cache)'
  BY <1>2, Zenon DEF CacheOK, Vouched
<1>5. VerifierTypeOK'
  BY <1>1, <1>2, Zenon DEF VInv, KeyInv, VerifierTypeOK, CacheOK, Entries, CallRecords
<1> QED BY <1>1, <1>3, <1>4, <1>5, Zenon DEF VInv

LEMMA VerifierInitially == Init /\ VerifierInit => VInv
<1> SUFFICES ASSUME Init, VerifierInit PROVE VInv BY Zenon
<1>1. KeyInv
  BY KeyInitially, Zenon
<1>2. CacheOK(cache)
  BY VerifierAssumption DEF VerifierInit, CacheOK
<1>3. call \in [Callers -> CallRecords] /\ \A c \in Callers : CallOK(call[c], seen[c])
  BY IdleCall, Zenon DEF VerifierInit
<1>4. VerifierTypeOK
  BY <1>1, <1>2, <1>3, VerifierAssumption
     DEF KeyInv, VerifierInit, VerifierTypeOK, CacheOK, Entries, CallRecords
<1> QED BY <1>1, <1>2, <1>3, <1>4, Zenon DEF VInv

(* The clock, the topology and the keys move under the calls.              *)
LEMMA Environment ==
  VInv /\ (TimePasses \/ ChangeTopology \/ ReloadTopology \/ KeyStep \/ UNCHANGED vars) => VInv'
<1> SUFFICES ASSUME VInv, TimePasses \/ ChangeTopology \/ ReloadTopology \/ KeyStep \/ UNCHANGED vars
             PROVE  VInv'
  BY Zenon
<1>0. UNCHANGED <<cache, call>> /\ now' \in 0..MaxTime /\ now' >= now /\ now \in Nat
  BY VerifierAssumption DEF VInv, VerifierTypeOK, TimePasses, ChangeTopology, ReloadTopology,
     KeyStep, vars, verifyVars
<1>1. KeyInv'
  BY KeyInductive, KeyStutters, Zenon DEF VInv, TimePasses, ChangeTopology, ReloadTopology,
     KeyStep, vars
<1>2. ASSUME NEW t, NEW key, Vouched(t, key) PROVE Vouched(t, key)'
  <2>1. PICK time \in 0..now : Fault(t, key, time) = ""
    BY <1>2, Zenon DEF Vouched
  <2>2. time \in 0..now'
    BY <1>0, VerifierAssumption
  <2> QED BY <1>2, <2>1, <2>2, Zenon DEF Vouched
<1>3. /\ seen' \in [Callers -> SUBSET Keys]
      /\ \A c \in Callers : call[c].phase # "idle" =>
            seen[c] \subseteq seen'[c] /\ (AllKeys \subseteq seen[c] => AllKeys' \subseteq seen'[c])
  <2>1. CASE KeyStep
    <3>1. AllKeys' \subseteq Keys
      BY <1>1, SnapshotKeys, ZenonT(40) DEF KeyInv, TypeOK, AllKeys
    <3> QED BY <2>1, <3>1, Zenon DEF KeyStep, At, VInv, VerifierTypeOK
  <2>2. CASE TimePasses \/ ChangeTopology \/ ReloadTopology \/ UNCHANGED vars
    BY <2>2 DEF TimePasses, ChangeTopology, ReloadTopology, vars, verifyVars, keyVars, AllKeys,
                VInv, VerifierTypeOK
  <2> QED BY <2>1, <2>2, Zenon
<1>4. CacheOK(cache)'
  BY <1>0, <1>2, Zenon DEF VInv, CacheOK
<1>5. ASSUME NEW c \in Callers PROVE CallOK(call[c], seen[c])'
  <2>1. call[c].now \in Nat /\ CallOK(call[c], seen[c])
    BY VerifierAssumption DEF VInv, VerifierTypeOK
  <2>2. ASSUME call[c].phase # "idle", Checked(call[c].token, call[c].key, call[c].now, seen[c])
        PROVE  Checked(call[c].token, call[c].key, call[c].now, seen[c])'
    <3>1. PICK time \in call[c].now..now : Fault(call[c].token, call[c].key, time) = ""
      BY <2>2, Zenon DEF Checked
    <3>2. time \in call[c].now..now'
      BY <1>0, <2>1, VerifierAssumption
    <3> QED BY <1>0, <1>3, <2>2, <3>1, <3>2, Zenon DEF Checked
  <2>a. call[c].now <= now
    BY <2>1, Zenon DEF CallOK
  <2>3. call'[c].now <= now'
    BY <1>0, <2>1, <2>a, VerifierAssumption
  <2> QED BY <1>0, <1>2, <1>3, <2>1, <2>2, <2>3, Zenon DEF CallOK
<1>6. VerifierTypeOK'
  BY <1>0, <1>1, <1>3, Zenon DEF VInv, KeyInv, VerifierTypeOK, TimePasses, ChangeTopology,
     ReloadTopology, KeyStep, vars, verifyVars
<1> QED BY <1>1, <1>4, <1>5, <1>6, Zenon DEF VInv

(* The types of a call's state, as facts about each field.                 *)
LEMMA CallTypes ==
  ASSUME VInv, NEW c \in Callers
  PROVE  /\ call \in [Callers -> CallRecords] /\ seen \in [Callers -> SUBSET Keys]
         /\ call[c] \in CallRecords /\ CallOK(call[c], seen[c]) /\ CacheOK(cache)
         /\ call[c].now \in Nat /\ now \in Nat /\ Leeway \in Nat /\ CacheSize \in Nat
         /\ AllKeys \subseteq Keys
<1>1. call[c] \in CallRecords /\ now \in 0..MaxTime
  BY Zenon DEF VInv, VerifierTypeOK, CallRecords
<1>2. call[c].now \in 0..MaxTime
  BY <1>1, Zenon DEF CallRecords
<1>3. call[c].now \in Nat /\ now \in Nat
  BY <1>1, <1>2, VerifierAssumption
<1> QED BY <1>1, <1>3, SnapshotKeys, VerifierAssumption, Zenon
        DEF VInv, KeyInv, VerifierTypeOK, CallRecords

LEMMA VerifyBegins ==
  ASSUME VInv, NEW c \in Callers, NEW t \in Tokens, Verify(c, t)
  PROVE  VInv'
<1> DEFINE r == [phase |-> IF CacheSize > 0 THEN "get" ELSE "check", token |-> t, key |-> NoKey,
                 now |-> now, code |-> ""]
<1>1. call' = [call EXCEPT ![c] = r]
  BY Zenon DEF Verify
<1>2. "" \in Codes /\ "" \notin ClaimCodes /\ now \in 0..MaxTime
  BY Zenon DEF Codes, ClaimCodes, VInv, VerifierTypeOK
<1>3. r \in CallRecords
  BY <1>2, Zenon DEF CallRecords
<1>4. call' \in [Callers -> CallRecords] /\ \A d \in Callers \ {c} : call'[d] = call[d]
  BY <1>1, <1>3, CallTypes, Zenon
<1>5. seen' \in [Callers -> SUBSET Keys] /\ \A d \in Callers \ {c} : seen'[d] = seen[d]
  BY CallTypes, Zenon DEF Verify
<1>6. call'[c] = r /\ seen'[c] = AllKeys
  BY <1>1, CallTypes, Zenon DEF Verify
<1>7. CallOK(r, AllKeys)
  <2>1. r.phase \in {"get", "check"} /\ r.token = t /\ r.now = now /\ r.code = ""
    BY Zenon
  <2>2. now <= now
    BY CallTypes
  <2> HIDE DEF r
  <2> QED BY <1>2, <2>1, <2>2, Zenon DEF CallOK
<1>8. CacheOK(cache') /\ UNCHANGED <<keyVars, now, topology, allowed>>
  BY Zenon DEF Verify, VInv
<1> HIDE DEF r
<1> QED BY <1>4, <1>5, <1>6, <1>7, <1>8, CallChanges, Zenon

LEMMA ReturnStep ==
  ASSUME VInv, NEW c \in Callers, Return(c)
  PROVE  VInv'
<1>1. call' \in [Callers -> CallRecords] /\ \A d \in Callers \ {c} : call'[d] = call[d]
  BY CallTypes, IdleCall, Zenon DEF Return
<1>2. seen' \in [Callers -> SUBSET Keys] /\ \A d \in Callers \ {c} : seen'[d] = seen[d]
  BY CallTypes, Zenon DEF Return
<1>3. CallOK(call'[c], seen'[c])
  BY CallTypes, IdleCall, Zenon DEF Return
<1>4. CacheOK(cache') /\ UNCHANGED <<keyVars, now, topology, allowed>>
  BY Zenon DEF Return, VInv
<1> QED BY <1>1, <1>2, <1>3, <1>4, CallChanges, Zenon

(* The rest of Verify leaves everything but the call and the cache alone.  *)
LEMMA OwnStep ==
  ASSUME VInv, NEW c \in Callers, Others, NEW r \in CallRecords, call' = [call EXCEPT ![c] = r],
         CallOK(r, seen[c]), CacheOK(cache')
  PROVE  VInv'
<1>1. call' \in [Callers -> CallRecords] /\ \A d \in Callers \ {c} : call'[d] = call[d]
  BY CallTypes, Zenon
<1>2. seen' \in [Callers -> SUBSET Keys] /\ seen' = seen
  BY CallTypes, Zenon DEF Others
<1>3. CallOK(call'[c], seen'[c])
  BY <1>2, CallTypes, Zenon
<1> QED BY <1>1, <1>2, <1>3, CallChanges, Zenon DEF Others

(* The most recent entry moves to the end, or joins there.                 *)
LEMMA MoveToEnd ==
  ASSUME VInv, NEW t \in Tokens, NEW key \in Keys, Vouched(t, key)
  PROVE  LET s == Append(Without(t), [token |-> t, key |-> key]) IN
         /\ s \in Seq(Entries)
         /\ Len(s) = Len(Without(t)) + 1
         /\ \A i, j \in DOMAIN s : s[i].token = s[j].token => i = j
         /\ \A i \in DOMAIN s : Vouched(s[i].token, s[i].key)
<1> DEFINE e == [token |-> t, key |-> key]
           w == Without(t)
           s == Append(w, e)
<1>0. CacheOK(cache)
  BY Zenon DEF VInv
<1>1. /\ w \in Seq(Entries)
      /\ \A k \in DOMAIN w : w[k].token # t
      /\ \A k \in DOMAIN w : \E i \in DOMAIN cache : w[k] = cache[i]
      /\ \A k, l \in DOMAIN w : w[k].token = w[l].token => k = l
  BY <1>0, WithoutEntries, Zenon DEF CacheOK
<1>2. e \in Entries /\ e.token = t /\ Vouched(e.token, e.key)
  BY Zenon DEF Entries
<1> HIDE DEF e, w
<1>3. /\ s \in Seq(Entries) /\ Len(s) = Len(w) + 1 /\ Len(w) \in Nat
      /\ DOMAIN w = 1..Len(w) /\ DOMAIN s = 1..(Len(w) + 1)
      /\ \A k \in 1..Len(w) : s[k] = w[k]
      /\ s[Len(w) + 1] = e
  BY <1>1, <1>2, AppendProperties
<1> HIDE DEF s
<1>4. \A k \in DOMAIN w : Vouched(w[k].token, w[k].key)
  BY <1>0, <1>1, Zenon DEF CacheOK
<1>5. ASSUME NEW k \in DOMAIN s
      PROVE  (k \in DOMAIN w /\ s[k] = w[k]) \/ (k = Len(w) + 1 /\ s[k] = e)
  <2>1. k \in 1..(Len(w) + 1) /\ Len(w) \in Nat
    BY <1>3, Zenon
  <2>2. k \in 1..Len(w) \/ k = Len(w) + 1
    BY <2>1
  <2> QED BY <1>3, <2>2, Zenon
<1>6. \A i, j \in DOMAIN s : s[i].token = s[j].token => i = j
  BY <1>1, <1>2, <1>5, Zenon
<1>7. \A i \in DOMAIN s : Vouched(s[i].token, s[i].key)
  BY <1>2, <1>4, <1>5, Zenon
<1> QED BY <1>3, <1>6, <1>7, Zenon DEF s, w, e

(* A call that goes on to a phase which promises nothing.                  *)
LEMMA GoOn ==
  ASSUME VInv, NEW c \in Callers, call[c].phase \in {"get", "remove"},
         NEW phase \in {"remove", "check"}
  PROVE  /\ [call[c] EXCEPT !.phase = phase] \in CallRecords
         /\ CallOK([call[c] EXCEPT !.phase = phase], seen[c])
<1> DEFINE r == [call[c] EXCEPT !.phase = phase]
<1>1. r \in CallRecords
  BY CallTypes, Zenon DEF CallRecords
<1>2. /\ r.phase = phase /\ r.token = call[c].token /\ r.key = call[c].key
      /\ r.now = call[c].now /\ r.code = call[c].code
  BY CallTypes, Zenon DEF CallRecords
<1>3. CallOK(call[c], seen[c])
  BY CallTypes, Zenon
<1> HIDE DEF r
<1>4. CallOK(r, seen[c])
  BY <1>2, <1>3, Zenon DEF CallOK
<1> QED BY <1>1, <1>4, Zenon DEF r

LEMMA CacheGetStep ==
  ASSUME VInv, NEW c \in Callers, CacheGet(c)
  PROVE  VInv'
<1> DEFINE t == call[c].token
<1>0. /\ call[c].phase = "get" /\ t \in Tokens /\ CallOK(call[c], seen[c])
      /\ CacheOK(cache) /\ Others
  BY CallTypes, Zenon DEF CacheGet, At, CallOK
<1>1. CASE Cached(t) = {} /\ call' = [call EXCEPT ![c].phase = "check"] /\ UNCHANGED cache
  BY <1>0, <1>1, GoOn, OwnStep, Zenon
<1>2. ASSUME NEW i \in Cached(t), cache' = Append(Without(t), cache[i]),
             IF call[c].now >= t.exp + Leeway
             THEN CallGoto(c, "remove")
             ELSE call' = [call EXCEPT ![c].phase = "compare", ![c].key = cache[i].key]
      PROVE  VInv'
  <2>1. /\ cache[i] \in Entries /\ cache[i].token = t /\ cache[i].key \in Keys
        /\ Vouched(t, cache[i].key) /\ cache[i] = [token |-> t, key |-> cache[i].key]
    <3>1. i \in DOMAIN cache /\ cache[i].token = t
      BY Zenon DEF Cached
    <3>2. cache[i] \in Entries /\ Vouched(cache[i].token, cache[i].key)
      BY <1>0, <3>1, ElementOfSeq DEF CacheOK
    <3> QED BY <3>1, <3>2, Zenon DEF Entries
  <2>2. Len(Without(t)) = Len(cache) - 1 /\ Len(cache) \in Nat
    BY <1>0, WithoutEntries, SMTT(30) DEF CacheOK
  <2>3. CacheOK(cache')
    <3>1. cache' = Append(Without(t), [token |-> t, key |-> cache[i].key])
      BY <1>2, <2>1, Zenon
    <3>2. /\ cache' \in Seq(Entries)
          /\ Len(cache') = Len(Without(t)) + 1
          /\ \A k, l \in DOMAIN cache' : cache'[k].token = cache'[l].token => k = l
          /\ \A k \in DOMAIN cache' : Vouched(cache'[k].token, cache'[k].key)
      BY <1>0, <2>1, <3>1, MoveToEnd, SMTT(30)
    <3>3. Len(cache') <= CacheSize
      BY <1>0, <2>2, <3>2 DEF CacheOK
    <3> QED BY <3>2, <3>3, Zenon DEF CacheOK
  <2>4. CASE call[c].now >= t.exp + Leeway
    BY <1>0, <1>2, <2>3, <2>4, GoOn, OwnStep, Zenon DEF CallGoto
  <2>5. CASE ~(call[c].now >= t.exp + Leeway)
    <3> DEFINE r == [call[c] EXCEPT !.phase = "compare", !.key = cache[i].key]
    <3>1. r \in CallRecords
      BY <2>1, CallTypes, Zenon DEF CallRecords
    <3>2. /\ r.phase = "compare" /\ r.token = t /\ r.key = cache[i].key
          /\ r.now = call[c].now /\ r.code = call[c].code
      BY CallTypes, Zenon DEF CallRecords
    <3>3. call[c].now < t.exp + Leeway
      <4>1. PICK time \in 0..now : Fault(t, cache[i].key, time) = ""
        BY <2>1, Zenon DEF Vouched
      <4>2. time \in Nat
        BY CallTypes
      <4>3. t.exp \in Int
        <5>1. time <= time
          BY <4>2
        <5> QED BY <1>0, <4>1, <4>2, <5>1, StillValid, Zenon
      <4> QED BY <2>5, <4>3, CallTypes, Later
    <3>4. call' = [call EXCEPT ![c] = r]
      BY <1>2, <2>5, Zenon
    <3>5. call[c].code = "" /\ "" \notin ClaimCodes
      BY <1>0, Zenon DEF CallOK, CacheGet, At, ClaimCodes
    <3> HIDE DEF r
    <3>6. CallOK(r, seen[c])
      BY <1>0, <2>1, <3>2, <3>3, <3>5, Zenon DEF CallOK, At
    <3> QED BY <1>0, <2>3, <3>1, <3>4, <3>6, OwnStep, Zenon
  <2> QED BY <2>4, <2>5, Zenon
<1> QED BY <1>1, <1>2, Zenon DEF CacheGet, CallGoto

LEMMA CacheRemoveStep ==
  ASSUME VInv, NEW c \in Callers, CacheRemove(c)
  PROVE  VInv'
<1> DEFINE w == Without(call[c].token)
<1>0. call[c].phase = "remove" /\ CacheOK(cache) /\ Others /\ cache' = w
  BY CallTypes, Zenon DEF CacheRemove, At
<1>1. /\ w \in Seq(Entries) /\ Len(w) <= Len(cache)
      /\ \A k \in DOMAIN w : \E i \in DOMAIN cache : w[k] = cache[i]
      /\ \A k, l \in DOMAIN w : w[k].token = w[l].token => k = l
  BY <1>0, WithoutEntries, Zenon DEF CacheOK
<1> HIDE DEF w
<1>2. Len(w) <= CacheSize
  <2>1. Len(w) \in Nat /\ Len(cache) \in Nat /\ Len(cache) <= CacheSize /\ CacheSize \in Nat
    BY <1>0, <1>1, VerifierAssumption DEF CacheOK
  <2> QED BY <1>1, <2>1
<1>3. CacheOK(w)
  BY <1>0, <1>1, <1>2, Zenon DEF CacheOK
<1>4. call' = [call EXCEPT ![c] = [call[c] EXCEPT !.phase = "check"]]
  BY Zenon DEF CacheRemove, CallGoto
<1> QED BY <1>0, <1>3, <1>4, GoOn, OwnStep, Zenon

(* Of a check at some time until now and a call's start, the later counts. *)
LEMMA LaterOf ==
  ASSUME NEW n \in Nat, NEW start \in Nat, start <= n, NEW time \in 0..n
  PROVE  /\ time \in Nat /\ start \in start..n
         /\ time \in start..n \/ time <= start
OBVIOUS

(* A key that the snapshot still names is one the call has seen, and the   *)
(* cached check still stands.                                              *)
LEMMA CompareStep ==
  ASSUME VInv, NEW c \in Callers, Compare(c)
  PROVE  VInv'
<1> DEFINE t == call[c].token
           key == call[c].key
<1>0. /\ call[c].phase = "compare" /\ CallOK(call[c], seen[c]) /\ CacheOK(cache') /\ Others
      /\ call[c] \in CallRecords /\ t \in Tokens /\ key \in Keys /\ Vouched(t, key)
      /\ call[c].now < t.exp + Leeway /\ AllKeys \subseteq seen[c] /\ call[c].code = ""
  BY CallTypes, Zenon DEF Compare, At, CallOK
<1>1. CASE key \in Lookup(t.kid)
  <2> DEFINE r == [call[c] EXCEPT !.phase = "admit"]
  <2>1. r \in CallRecords
    BY <1>0, Zenon DEF CallRecords
  <2>2. /\ r.phase = "admit" /\ r.token = t /\ r.key = key /\ r.now = call[c].now
        /\ r.code = ""
    BY <1>0, Zenon DEF CallRecords
  <2>3. call' = [call EXCEPT ![c] = r]
    BY <1>1, Zenon DEF Compare, CallGoto
  <2>4. key \in seen[c]
    BY <1>0, <1>1, Zenon DEF Lookup
  <2>5. \E time \in call[c].now..now : Fault(t, key, time) = ""
    <3>1. PICK early \in 0..now : Fault(t, key, early) = ""
      BY <1>0, Zenon DEF Vouched
    <3>2. call[c].now \in Nat /\ now \in Nat /\ call[c].now <= now
      BY <1>0, CallTypes, Zenon DEF CallOK
    <3>3. /\ early \in Nat /\ call[c].now \in call[c].now..now
          /\ early \in call[c].now..now \/ early <= call[c].now
      BY <3>2, LaterOf, Zenon
    <3>4. CASE early \in call[c].now..now
      BY <3>1, <3>4, Zenon
    <3>5. CASE early <= call[c].now
      <4>1. Fault(t, key, call[c].now) = ""
        BY <1>0, <3>1, <3>2, <3>3, <3>5, StillValid, Zenon
      <4> QED BY <3>3, <4>1, Zenon
    <3> QED BY <3>3, <3>4, <3>5, Zenon
  <2>6. Checked(t, key, call[c].now, seen[c])
    BY <1>0, <2>4, <2>5, Zenon DEF Checked, Vouched
  <2> HIDE DEF r
  <2>7. CallOK(r, seen[c])
    BY <1>0, <2>2, <2>6, Zenon DEF CallOK, ClaimCodes
  <2> QED BY <1>0, <2>1, <2>3, <2>7, OwnStep, Zenon
<1>2. CASE key \notin Lookup(t.kid)
  <2> DEFINE r == [call[c] EXCEPT !.phase = "check", !.key = NoKey]
  <2>1. r \in CallRecords
    BY <1>0, Zenon DEF CallRecords
  <2>2. r.phase = "check" /\ r.token = t /\ r.now = call[c].now /\ r.code = ""
    BY <1>0, Zenon DEF CallRecords
  <2>3. call' = [call EXCEPT ![c] = r]
    BY <1>2, Zenon DEF Compare
  <2> HIDE DEF r
  <2>4. CallOK(r, seen[c])
    BY <1>0, <2>2, Zenon DEF CallOK, ClaimCodes
  <2> QED BY <1>0, <2>1, <2>3, <2>4, OwnStep, Zenon
<1> QED BY <1>1, <1>2, Zenon

(* A refusal keeps the call's token and gives a code.                      *)
LEMMA Refusal ==
  ASSUME VInv, NEW c \in Callers, ~At(c, "idle"), Others, UNCHANGED cache,
         NEW key \in Keys \cup {NoKey}, NEW code \in Codes, Refuse(c, key, code),
         code \in ClaimCodes => call[c].token.signer = key.material
  PROVE  VInv'
<1> DEFINE r == [call[c] EXCEPT !.phase = "refused", !.key = key, !.code = code]
<1>0. /\ CallOK(call[c], seen[c]) /\ CacheOK(cache') /\ call[c] \in CallRecords
      /\ call[c].phase # "idle"
  BY CallTypes, Zenon DEF At
<1>1. r \in CallRecords
  BY <1>0, Zenon DEF CallRecords
<1>2. /\ r.phase = "refused" /\ r.token = call[c].token /\ r.now = call[c].now
      /\ r.key = key /\ r.code = code
  BY <1>0, Zenon DEF CallRecords
<1>3. call' = [call EXCEPT ![c] = r]
  BY Zenon DEF Refuse
<1> HIDE DEF r
<1>4. CallOK(r, seen[c])
  BY <1>0, <1>2, Zenon DEF CallOK
<1> QED BY <1>0, <1>1, <1>3, <1>4, OwnStep, Zenon

(* check succeeds with the key that Lookup gives now.                      *)
LEMMA CheckStep ==
  ASSUME VInv, NEW c \in Callers, Check(c)
  PROVE  VInv'
<1> DEFINE t == call[c].token
           header == HeaderFault(t)
<1>0. /\ call[c].phase = "check" /\ CallOK(call[c], seen[c]) /\ CacheOK(cache') /\ Others
      /\ call[c] \in CallRecords /\ t \in Tokens /\ AllKeys \subseteq seen[c] /\ call[c].code = ""
      /\ AllKeys \subseteq Keys /\ ~At(c, "idle") /\ UNCHANGED cache
      /\ call[c].now \in Nat /\ now \in Nat /\ call[c].now <= now
  BY CallTypes, Zenon DEF Check, At, CallOK
<1>1. CASE header # ""
  <2>1. Refuse(c, NoKey, header)
    BY <1>1, Zenon DEF Check
  <2>2. header \in Codes /\ header \notin ClaimCodes
    BY Faults, Zenon
  <2> QED BY <1>0, <2>1, <2>2, Refusal, Zenon
<1>2. CASE header = "" /\ Lookup(t.kid) = {}
  <2>1. Refuse(c, NoKey, "TOKEN_KID_UNKNOWN")
    BY <1>2, Zenon DEF Check
  <2>2. "TOKEN_KID_UNKNOWN" \in Codes /\ "TOKEN_KID_UNKNOWN" \notin ClaimCodes
    BY Zenon DEF Codes, ClaimCodes
  <2> QED BY <1>0, <2>1, <2>2, Refusal, Zenon
<1>3. CASE header = "" /\ Lookup(t.kid) # {}
  <2>1. PICK key \in Lookup(t.kid) :
           LET fault == Fault(t, key, call[c].now) IN
           IF fault # "" THEN Refuse(c, key, fault)
           ELSE call' = [call EXCEPT ![c].phase = IF CacheSize > 0 THEN "put" ELSE "admit",
                                     ![c].key = key]
    BY <1>3, Zenon DEF Check
  <2>2. key \in Keys /\ key \in seen[c] /\ key.kid = t.kid
    BY <1>0, Zenon DEF Lookup
  <2>3. CASE Fault(t, key, call[c].now) # ""
    <3>1. Refuse(c, key, Fault(t, key, call[c].now))
      BY <2>1, <2>3, Zenon
    <3>2. /\ Fault(t, key, call[c].now) \in Codes
          /\ Fault(t, key, call[c].now) \in ClaimCodes => t.signer = key.material
      BY Faults, Zenon
    <3> QED BY <1>0, <2>2, <3>1, <3>2, Refusal, Zenon
  <2>4. CASE Fault(t, key, call[c].now) = ""
    <3> DEFINE r == [call[c] EXCEPT !.phase = IF CacheSize > 0 THEN "put" ELSE "admit", !.key = key]
    <3>0. /\ call[c].now <= call[c].now
          /\ call[c].now \in call[c].now..now /\ call[c].now \in 0..now
      <4>1. \A n, start \in Nat : start <= n => start <= start /\ start \in start..n /\ start \in 0..n
        OBVIOUS
      <4> QED BY <1>0, <4>1, Zenon
    <3>1. r \in CallRecords
      BY <1>0, <2>2, Zenon DEF CallRecords
    <3>2. /\ r.phase \in {"put", "admit"} /\ r.token = t /\ r.now = call[c].now
          /\ r.key = key /\ r.code = ""
      BY <1>0, Zenon DEF CallRecords
    <3>3. call' = [call EXCEPT ![c] = r]
      BY <2>1, <2>4, Zenon
    <3>4. call[c].now < t.exp + Leeway
      BY <1>0, <2>4, <3>0, StillValid, Zenon
    <3>5. call[c].now \in call[c].now..now /\ call[c].now \in 0..now
      BY <3>0, Zenon
    <3>6. Checked(t, key, call[c].now, seen[c]) /\ Vouched(t, key)
      BY <1>3, <2>2, <2>4, <3>4, <3>5, Zenon DEF Checked, Vouched
    <3> HIDE DEF r
    <3>7. CallOK(r, seen[c])
      BY <1>0, <2>2, <3>2, <3>6, Zenon DEF CallOK, ClaimCodes
    <3> QED BY <1>0, <3>1, <3>3, <3>7, OwnStep, Zenon
  <2> QED BY <2>3, <2>4, Zenon
<1> QED BY <1>1, <1>2, <1>3, Zenon

(* put keeps the bound by dropping the least recent entry.                 *)
LEMMA CachePutStep ==
  ASSUME VInv, NEW c \in Callers, CachePut(c)
  PROVE  VInv'
<1> DEFINE t == call[c].token
           key == call[c].key
           s == Append(Without(t), [token |-> t, key |-> key])
           r == [call[c] EXCEPT !.phase = "admit"]
<1>0. /\ call[c].phase = "put" /\ CallOK(call[c], seen[c]) /\ CacheOK(cache) /\ Others
      /\ call[c] \in CallRecords /\ t \in Tokens /\ key \in Keys /\ Vouched(t, key)
      /\ Checked(t, key, call[c].now, seen[c]) /\ call[c].code = ""
  BY CallTypes, Zenon DEF CachePut, At, CallOK
<1>1. /\ s \in Seq(Entries) /\ Len(s) = Len(Without(t)) + 1
      /\ \A i, j \in DOMAIN s : s[i].token = s[j].token => i = j
      /\ \A i \in DOMAIN s : Vouched(s[i].token, s[i].key)
  BY <1>0, MoveToEnd, Zenon
<1>2. Len(Without(t)) <= Len(cache) /\ Without(t) \in Seq(Entries)
  BY <1>0, WithoutEntries, Zenon DEF CacheOK
<1>3. cache' = Trimmed(s)
  BY Zenon DEF CachePut
<1> HIDE DEF s
<1>4. Len(s) \in Nat /\ Len(s) <= CacheSize + 1 /\ CacheSize \in Nat
  <2>1. /\ Len(Without(t)) \in Nat /\ Len(cache) \in Nat /\ Len(cache) <= CacheSize
        /\ CacheSize \in Nat
    <3>1. cache \in Seq(Entries) /\ Len(cache) <= CacheSize
      BY <1>0, Zenon DEF CacheOK
    <3> QED BY <1>2, <3>1, LenProperties, VerifierAssumption, Zenon
  <2> QED BY <1>1, <1>2, <2>1
<1>5. CacheOK(cache')
  <2>1. CASE Len(s) > CacheSize
    <3>1. cache' = Tail(s) /\ s # <<>>
      BY <1>3, <1>4, <2>1 DEF Trimmed
    <3>2. /\ Tail(s) \in Seq(Entries) /\ Len(Tail(s)) = Len(s) - 1
          /\ \A i \in 1..(Len(s) - 1) : Tail(s)[i] = s[i + 1]
      BY <1>1, <3>1, HeadTailProperties, Zenon
    <3>3. /\ DOMAIN Tail(s) = 1..(Len(s) - 1) /\ DOMAIN s = 1..Len(s)
          /\ \A i \in 1..(Len(s) - 1) : i + 1 \in 1..Len(s)
      BY <1>1, <1>4, <3>2
    <3>4. \A i, j \in DOMAIN Tail(s) : Tail(s)[i].token = Tail(s)[j].token => i = j
      <4> SUFFICES ASSUME NEW i \in 1..(Len(s) - 1), NEW j \in 1..(Len(s) - 1),
                          Tail(s)[i].token = Tail(s)[j].token
                   PROVE  i = j
        BY <3>3, Zenon
      <4>1. i + 1 = j + 1
        BY <1>1, <3>2, <3>3
      <4> QED BY <4>1
    <3>5. \A i \in DOMAIN Tail(s) : Vouched(Tail(s)[i].token, Tail(s)[i].key)
      BY <1>1, <3>2, <3>3, Zenon
    <3>6. Len(Tail(s)) <= CacheSize
      BY <1>4, <3>2
    <3> QED BY <3>1, <3>2, <3>4, <3>5, <3>6, Zenon DEF CacheOK
  <2>2. CASE ~(Len(s) > CacheSize)
    <3>1. cache' = s /\ Len(s) <= CacheSize
      BY <1>3, <1>4, <2>2 DEF Trimmed
    <3> QED BY <1>1, <3>1, Zenon DEF CacheOK
  <2> QED BY <2>1, <2>2, Zenon
<1>6. r \in CallRecords
  BY <1>0, Zenon DEF CallRecords
<1>7. /\ r.phase = "admit" /\ r.token = t /\ r.key = key /\ r.now = call[c].now /\ r.code = ""
  BY <1>0, Zenon DEF CallRecords
<1>8. call' = [call EXCEPT ![c] = r]
  BY Zenon DEF CachePut, CallGoto
<1> HIDE DEF r
<1>9. CallOK(r, seen[c])
  BY <1>0, <1>7, Zenon DEF CallOK, ClaimCodes
<1> QED BY <1>0, <1>5, <1>6, <1>8, <1>9, OwnStep, Zenon

LEMMA AdmitStep ==
  ASSUME VInv, NEW c \in Callers, Admit(c)
  PROVE  VInv'
<1>0. /\ call[c].phase = "admit" /\ CallOK(call[c], seen[c]) /\ CacheOK(cache') /\ Others
      /\ call[c] \in CallRecords /\ ~At(c, "idle") /\ UNCHANGED cache /\ call[c].code = ""
      /\ call[c].key \in Keys \cup {NoKey}
  BY CallTypes, Zenon DEF Admit, At, CallOK, CallRecords
<1>1. CASE Admits(call[c].token, call[c].key.provider)
  <2> DEFINE r == [call[c] EXCEPT !.phase = "accepted"]
  <2>1. r \in CallRecords
    BY <1>0, Zenon DEF CallRecords
  <2>2. /\ r.phase = "accepted" /\ r.token = call[c].token /\ r.key = call[c].key
        /\ r.now = call[c].now /\ r.code = ""
    BY <1>0, Zenon DEF CallRecords
  <2>3. call' = [call EXCEPT ![c] = r]
    BY <1>1, Zenon DEF Admit, CallGoto
  <2> HIDE DEF r
  <2>4. CallOK(r, seen[c])
    BY <1>0, <2>2, Zenon DEF CallOK, ClaimCodes
  <2> QED BY <1>0, <2>1, <2>3, <2>4, OwnStep, Zenon
<1>2. CASE ~Admits(call[c].token, call[c].key.provider)
  <2>1. Refuse(c, call[c].key, "TOKEN_NAMESPACE_NOT_ALLOWED")
    BY <1>2, Zenon DEF Admit
  <2>2. /\ "TOKEN_NAMESPACE_NOT_ALLOWED" \in Codes
        /\ "TOKEN_NAMESPACE_NOT_ALLOWED" \notin ClaimCodes
    BY Zenon DEF Codes, ClaimCodes
  <2> QED BY <1>0, <2>1, <2>2, Refusal, Zenon
<1> QED BY <1>1, <1>2, Zenon
-----------------------------------------------------------------------------
LEMMA VerifierInductive == VInv /\ [VerifierNext]_vars => VInv'
<1> SUFFICES ASSUME VInv, [VerifierNext]_vars PROVE VInv' BY Zenon
<1>1. CASE TimePasses \/ ChangeTopology \/ ReloadTopology \/ KeyStep \/ UNCHANGED vars
  BY <1>1, Environment, Zenon
<1>2. ASSUME NEW c \in Callers, VerifyStep(c) PROVE VInv'
  BY <1>2, CacheGetStep, CacheRemoveStep, CompareStep, CheckStep, CachePutStep, AdmitStep,
     ReturnStep, Zenon DEF VerifyStep
<1>3. ASSUME NEW c \in Callers, NEW t \in Tokens, Verify(c, t) PROVE VInv'
  BY <1>3, VerifyBegins, Zenon
<1> QED BY <1>1, <1>2, <1>3, Zenon DEF VerifierNext

LEMMA VerifierInvariance == VerifierSpec => []VInv
BY VerifierInitially, VerifierInductive, PTL DEF VerifierSpec

(* VerifierTypeOK holds for any tokens and sizes: the cache never has more *)
(* entries than CacheSize, nor two for one token.                          *)
THEOREM CacheBounded == VerifierSpec => []VerifierTypeOK
BY VerifierInvariance, PTL DEF VInv

(* A token that Verify accepts is one that a full check accepts during the *)
(* call, with a key that the snapshot named during the call.               *)
THEOREM CacheChangesNoVerdict == VerifierSpec => []AcceptedAsIfChecked
<1>1. VInv => AcceptedAsIfChecked
  <2> SUFFICES ASSUME VInv, NEW c \in Callers, At(c, "accepted")
               PROVE  LET t == call[c].token
                          key == call[c].key
                      IN /\ key \in seen[c]
                         /\ key.kid = t.kid /\ key.material = t.signer
                         /\ t.alg \in Algorithms \cap KeyAlgs[key.material]
                         /\ t.wellFormed /\ t.isObject
                         /\ Addressed(t, key.provider)
                         /\ \E time \in call[c].now..now : InTime(t, time)
                         /\ call[c].now < t.exp + Leeway
    BY Zenon DEF AcceptedAsIfChecked
  <2>1. call[c].token \in Tokens /\ Checked(call[c].token, call[c].key, call[c].now, seen[c])
    BY Zenon DEF VInv, CallOK, At
  <2>2. PICK time \in call[c].now..now : Fault(call[c].token, call[c].key, time) = ""
    BY <2>1, Zenon DEF Checked
  <2>3. call[c].now \in Nat /\ now \in Nat
    BY CallTypes, Zenon
  <2>4. time \in Nat
    BY <2>3
  <2> QED BY <2>1, <2>2, <2>4, PassedMeans, Zenon DEF Checked
<1> QED BY VerifierInvariance, <1>1, PTL

(* A refusal that names a claim is given only for a token that its key has *)
(* signed.                                                                 *)
THEOREM ClaimsAfterSignature == VerifierSpec => []SignatureDecidesFirst
<1>1. VInv => SignatureDecidesFirst
  BY Zenon DEF VInv, CallOK, SignatureDecidesFirst
<1> QED BY VerifierInvariance, <1>1, PTL

(* A token is accepted only by the step that asks the allowlist, and only  *)
(* when it admits the token.                                               *)
THEOREM AllowlistAlwaysAsked == VerifierSpec => AcceptedIsAdmitted
<1> DEFINE A == \A c \in Callers : ~At(c, "accepted") /\ At(c, "accepted")' =>
                    Admits(call[c].token, call'[c].key.provider)
<1>1. VInv /\ [VerifierNext]_vars => [A]_vars
  <2> SUFFICES ASSUME VInv, VerifierNext, NEW c \in Callers,
                      ~At(c, "accepted"), At(c, "accepted")'
               PROVE  Admits(call[c].token, call'[c].key.provider)
    BY Zenon
  <2>0. call \in [Callers -> CallRecords] /\ call[c] \in CallRecords
    BY CallTypes, Zenon
  <2>1. call'[c].phase = "accepted" /\ call[c].phase # "accepted"
    BY Zenon DEF At
  <2>2. \E d \in Callers : VerifyStep(d) \/ \E t \in Tokens : Verify(d, t)
    BY <2>1, Zenon DEF VerifierNext, TimePasses, ChangeTopology, ReloadTopology, KeyStep
  <2>3. ASSUME NEW d \in Callers, NEW t \in Tokens, Verify(d, t) PROVE FALSE
    BY <2>0, <2>1, <2>3, Zenon DEF Verify
  <2>4. ASSUME NEW d \in Callers, VerifyStep(d), ~Admit(d) PROVE FALSE
    <3>1. CASE CacheGet(d)
      BY <2>0, <2>1, <3>1, SMTT(30) DEF CacheGet, CallGoto, CallRecords
    <3>2. CASE CacheRemove(d) \/ Compare(d) \/ CachePut(d)
      BY <2>0, <2>1, <3>2, SMTT(30) DEF CacheRemove, Compare, CachePut, CallGoto, CallRecords
    <3>3. CASE Check(d)
      <4>1. \E phase \in {"refused", "put", "admit"} : \E key, code :
               \/ call' = [call EXCEPT ![d].phase = phase, ![d].key = key, ![d].code = code]
               \/ call' = [call EXCEPT ![d].phase = phase, ![d].key = key]
        <5>1. \/ \E key, code : Refuse(d, key, code)
              \/ \E key : call' = [call EXCEPT ![d].phase = IF CacheSize > 0 THEN "put" ELSE "admit",
                                               ![d].key = key]
          BY <3>3, Zenon DEF Check
        <5> QED BY <5>1, Zenon DEF Refuse
      <4> QED BY <2>0, <2>1, <4>1 DEF CallRecords
    <3>4. CASE Return(d)
      BY <2>0, <2>1, <3>4, Zenon DEF Return, Idle
    <3> QED BY <2>4, <3>1, <3>2, <3>3, <3>4, Zenon DEF VerifyStep
  <2>5. PICK d \in Callers : Admit(d)
    BY <2>2, <2>3, <2>4, Zenon
  <2>6. d = c
    BY <2>0, <2>1, <2>5, Zenon DEF Admit, CallGoto, Refuse
  <2>7. Admits(call[c].token, call[c].key.provider) /\ call'[c].key = call[c].key
    BY <2>0, <2>1, <2>5, <2>6 DEF Admit, CallGoto, Refuse, CallRecords
  <2> QED BY <2>7, Zenon
<1> QED BY VerifierInvariance, <1>1, PTL DEF VerifierSpec, AcceptedIsAdmitted
=============================================================================
