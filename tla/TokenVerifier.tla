---------------------------- MODULE TokenVerifier ----------------------------
(***************************************************************************)
(* Verifier.Verify (internal/token/verify) over the key set, with its LRU  *)
(* cache of verified tokens, and the namespace allowlist that Admit        *)
(* applies (internal/token/namespaces).  Callers verify tokens while the   *)
(* providers rotate keys, Refresh replaces the snapshot, the topology file *)
(* changes and time passes.                                                *)
(*                                                                         *)
(* A token is a record of what the checks tell apart: whether its header   *)
(* parses (wellFormed), alg, kid ("" when absent), the key material that   *)
(* signed it, whether its payload is one JSON object (isObject), the       *)
(* claims aud, exp, nbf and iat (Absent when missing, Bad when of another  *)
(* type), and the namespace, Absent when there is none.                    *)
(***************************************************************************)
EXTENDS KeySet, Sequences

CONSTANTS
    Tokens,          \* the tokens callers present
    Callers,         \* the goroutines that call Verify
    KeyAlgs,         \* the algorithms that each key material accepts
    Algorithms,      \* algorithmKeyType: the accepted algorithms
    Audiences,       \* Provider.Audiences
    AllowMissingAud, \* the providers that set it
    Kubernetes,      \* the providers whose tokens Admit checks
    Topologies,      \* the sets of namespaces a topology file may name
    OwnNamespace,    \* the namespaces allowed without a readable file
    Unreadable,      \* a topology file that cannot be read or parsed
    Absent, Bad,     \* a claim that is missing, or of the wrong type
    Leeway,          \* Options.Leeway
    CacheSize,       \* Options.CacheSize
    NoToken, NoKey,  \* the call has none yet
    MaxTime          \* bound on the clock

ASSUME VerifierAssumption ==
    Leeway \in Nat /\ CacheSize \in Nat /\ MaxTime \in Nat

ASSUME TimesAssumption ==
    \A t \in Tokens : {t.exp, t.nbf, t.iat} \subseteq Int \cup {Absent, Bad}

VARIABLES
    now,        \* the clock
    topology,   \* the topology file
    allowed,    \* Allowlist.allowed
    cache,      \* the cached tokens with their keys, the least recent first
    call,       \* the state of each Verify call
    (***********************************************************************)
    (* Observation only: the keys that were current during the call.       *)
    (***********************************************************************)
    seen

verifyVars == <<now, topology, allowed, cache, call, seen>>
vars == <<keyVars, verifyVars>>

Idle == [phase |-> "idle", token |-> NoToken, key |-> NoKey, now |-> 0, code |-> ""]

(* load: what a topology file allows.                                      *)
Namespaces(file) == IF file = Unreadable THEN OwnNamespace ELSE file

VerifierInit ==
    /\ now = 0
    /\ topology \in Topologies \cup {Unreadable}
    /\ allowed = Namespaces(topology)
    /\ cache = <<>>
    /\ call = [c \in Callers |-> Idle]
    /\ seen = [c \in Callers |-> {}]

-----------------------------------------------------------------------------
TimePasses ==
    /\ now < MaxTime
    /\ now' = now + 1
    /\ UNCHANGED <<keyVars, topology, allowed, cache, call, seen>>

ChangeTopology ==
    /\ \E file \in (Topologies \cup {Unreadable}) \ {topology} : topology' = file
    /\ UNCHANGED <<keyVars, now, allowed, cache, call, seen>>

(* Allowlist.reload                                                        *)
ReloadTopology ==
    /\ allowed' = Namespaces(topology)
    /\ UNCHANGED <<keyVars, now, topology, cache, call, seen>>

-----------------------------------------------------------------------------
(* The checks of Verify.  Each returns the code of the first that fails,   *)
(* or "" when all pass.                                                    *)

HeaderFault(t) ==
    IF ~t.wellFormed THEN "TOKEN_FORMAT_INVALID"
    ELSE IF t.alg \notin Algorithms THEN "TOKEN_ALG_NOT_ALLOWED"
    ELSE IF t.kid = "" THEN "TOKEN_KID_MISSING"
    ELSE ""

SignatureFault(t, key) ==
    IF t.alg \notin KeyAlgs[key.material] THEN "TOKEN_ALG_NOT_ALLOWED"
    ELSE IF t.signer # key.material THEN "TOKEN_SIGNATURE_INVALID"
    ELSE ""

(* decodeClaims                                                            *)
PayloadFault(t) == IF t.isObject THEN "" ELSE "TOKEN_FORMAT_INVALID"

(* checkAudience                                                           *)
AudienceFault(t, p) ==
    IF Audiences[p] = {} THEN ""
    ELSE IF t.aud = Absent
         THEN IF p \in AllowMissingAud THEN "" ELSE "TOKEN_AUDIENCE_MISSING"
    ELSE IF t.aud = Bad \/ t.aud \cap Audiences[p] = {} THEN "TOKEN_AUDIENCE_INVALID"
    ELSE ""

(* checkTimes                                                              *)
TimesFault(t, time) ==
    IF t.exp = Bad THEN "TOKEN_FORMAT_INVALID"
    ELSE IF t.exp = Absent THEN "TOKEN_EXP_MISSING"
    ELSE IF time >= t.exp + Leeway THEN "TOKEN_EXPIRED"
    ELSE IF t.nbf = Bad THEN "TOKEN_FORMAT_INVALID"
    ELSE IF t.nbf # Absent /\ time < t.nbf - Leeway THEN "TOKEN_NOT_YET_VALID"
    ELSE IF t.iat = Bad THEN "TOKEN_FORMAT_INVALID"
    ELSE IF t.iat = Absent THEN "TOKEN_IAT_MISSING"
    ELSE IF t.iat > time + Leeway THEN "TOKEN_IAT_INVALID"
    ELSE ""

First(a, b) == IF a # "" THEN a ELSE b

(* check, once the key is found: signature, payload, audience, times.      *)
Fault(t, key, time) ==
    First(SignatureFault(t, key),
          First(PayloadFault(t), First(AudienceFault(t, key.provider), TimesFault(t, time))))

ClaimCodes == {"TOKEN_AUDIENCE_MISSING", "TOKEN_AUDIENCE_INVALID", "TOKEN_EXP_MISSING",
               "TOKEN_EXPIRED", "TOKEN_NOT_YET_VALID", "TOKEN_IAT_MISSING", "TOKEN_IAT_INVALID"}

-----------------------------------------------------------------------------
(* Verify, step by step.  Every step reads or writes one shared object.    *)

At(c, phase) == call[c].phase = phase
CallGoto(c, phase) == call' = [call EXCEPT ![c].phase = phase]
Refuse(c, key, code) ==
    call' = [call EXCEPT ![c].phase = "refused", ![c].key = key, ![c].code = code]
Others == UNCHANGED <<keyVars, now, topology, allowed, seen>>

Verify(c, t) ==
    /\ Serving
    /\ At(c, "idle")
    /\ call' = [call EXCEPT ![c] = [phase |-> IF CacheSize > 0 THEN "get" ELSE "check",
                                    token |-> t, key |-> NoKey, now |-> now, code |-> ""]]
    /\ seen' = [seen EXCEPT ![c] = AllKeys]
    /\ UNCHANGED <<keyVars, now, topology, allowed, cache>>

Cached(t) == {i \in DOMAIN cache : cache[i].token = t}
RemoveAt(s, i) == SubSeq(s, 1, i - 1) \o SubSeq(s, i + 1, Len(s))
Without(t) == IF Cached(t) = {} THEN cache ELSE RemoveAt(cache, CHOOSE i \in Cached(t) : TRUE)

(* cache.get: a hit becomes the most recent, an expired one is to leave.   *)
CacheGet(c) ==
    LET t == call[c].token IN
    /\ At(c, "get")
    /\ \/ /\ Cached(t) = {}
          /\ CallGoto(c, "check")
          /\ UNCHANGED cache
       \/ \E i \in Cached(t) :
          /\ cache' = Append(Without(t), cache[i])
          /\ IF call[c].now >= t.exp + Leeway
             THEN CallGoto(c, "remove")
             ELSE call' = [call EXCEPT ![c].phase = "compare", ![c].key = cache[i].key]
    /\ Others

CacheRemove(c) ==
    /\ At(c, "remove")
    /\ cache' = Without(call[c].token)
    /\ CallGoto(c, "check")
    /\ Others

TrustCache(c) ==
    /\ At(c, "compare")
    /\ CallGoto(c, "admit")
    /\ UNCHANGED cache
    /\ Others

CachedNotAdmitted(c) ==
    /\ At(c, "compare")
    /\ IF call[c].key \in Lookup(call[c].token.kid)
       THEN CallGoto(c, "accepted")
       ELSE call' = [call EXCEPT ![c].phase = "check", ![c].key = NoKey]
    /\ UNCHANGED cache
    /\ Others

(* cached: the key must still be the one its kid names.                    *)
Compare(c) ==
    /\ At(c, "compare")
    /\ IF call[c].key \in Lookup(call[c].token.kid)
       THEN CallGoto(c, "admit")
       ELSE call' = [call EXCEPT ![c].phase = "check", ![c].key = NoKey]
    /\ UNCHANGED cache
    /\ Others

(* check: the header, the key lookup, and everything the key decides.      *)
Check(c) ==
    LET t == call[c].token
        header == HeaderFault(t)
    IN
    /\ At(c, "check")
    /\ IF header # "" THEN Refuse(c, NoKey, header)
       ELSE IF Lookup(t.kid) = {} THEN Refuse(c, NoKey, "TOKEN_KID_UNKNOWN")
       ELSE \E key \in Lookup(t.kid) :
            LET fault == Fault(t, key, call[c].now) IN
            IF fault # "" THEN Refuse(c, key, fault)
            ELSE call' = [call EXCEPT ![c].phase = IF CacheSize > 0 THEN "put" ELSE "admit",
                                      ![c].key = key]
    /\ UNCHANGED cache
    /\ Others

(* cache.put: a full cache drops the least recent token.                   *)
Trimmed(entries) == IF Len(entries) > CacheSize THEN Tail(entries) ELSE entries

CachePut(c) ==
    /\ At(c, "put")
    /\ cache' = Trimmed(Append(Without(call[c].token), [token |-> call[c].token, key |-> call[c].key]))
    /\ CallGoto(c, "admit")
    /\ Others

(* Allowlist.Admit, on every token Verify is about to return.              *)
Admits(t, provider) == provider \in Kubernetes => t.namespace \in allowed

Admit(c) ==
    LET t == call[c].token IN
    /\ At(c, "admit")
    /\ IF Admits(t, call[c].key.provider)
       THEN CallGoto(c, "accepted")
       ELSE Refuse(c, call[c].key, "TOKEN_NAMESPACE_NOT_ALLOWED")
    /\ UNCHANGED cache
    /\ Others

Return(c) ==
    /\ At(c, "accepted") \/ At(c, "refused")
    /\ call' = [call EXCEPT ![c] = Idle]
    /\ seen' = [seen EXCEPT ![c] = {}]
    /\ UNCHANGED <<keyVars, now, topology, allowed, cache>>

-----------------------------------------------------------------------------
(* A step of the key set, which callers notice only through Lookup.        *)
KeyStep ==
    /\ KeyNext
    /\ seen' = [c \in Callers |-> IF At(c, "idle") THEN {} ELSE seen[c] \cup AllKeys']
    /\ UNCHANGED <<now, topology, allowed, cache, call>>

VerifyStep(c) ==
    \/ CacheGet(c) \/ CacheRemove(c) \/ Compare(c) \/ Check(c) \/ CachePut(c)
    \/ Admit(c) \/ Return(c)

VerifierNext ==
    \/ TimePasses
    \/ ChangeTopology
    \/ ReloadTopology
    \/ KeyStep
    \/ \E c \in Callers : VerifyStep(c) \/ \E t \in Tokens : Verify(c, t)

VerifierSpec == Init /\ VerifierInit /\ [][VerifierNext]_vars

-----------------------------------------------------------------------------
Codes == ClaimCodes \cup {"", "TOKEN_FORMAT_INVALID", "TOKEN_ALG_NOT_ALLOWED",
    "TOKEN_KID_MISSING", "TOKEN_KID_UNKNOWN", "TOKEN_SIGNATURE_INVALID",
    "TOKEN_NAMESPACE_NOT_ALLOWED"}

VerifierTypeOK ==
    /\ TypeOK
    /\ now \in 0..MaxTime
    /\ topology \in Topologies \cup {Unreadable}
    /\ allowed \in {Namespaces(file) : file \in Topologies \cup {Unreadable}}
    /\ cache \in Seq([token : Tokens, key : Keys])
    /\ Len(cache) <= CacheSize
    /\ \A i, j \in DOMAIN cache : cache[i].token = cache[j].token => i = j
    /\ call \in [Callers ->
          [phase : {"idle", "get", "remove", "compare", "check", "put", "admit", "accepted",
                    "refused"},
           token : Tokens \cup {NoToken}, key : Keys \cup {NoKey}, now : 0..MaxTime,
           code : Codes]]
    /\ seen \in [Callers -> SUBSET Keys]

(* Time is within a token's validity, give or take the leeway: before exp  *)
(* and not at it, at or after nbf and iat.                                 *)
InTime(t, time) ==
    /\ t.exp \in Int /\ time - Leeway < t.exp
    /\ t.iat \in Int /\ t.iat <= time + Leeway
    /\ t.nbf = Absent \/ (t.nbf \in Int /\ t.nbf <= time + Leeway)

(* The token is for one of the provider's audiences, where it has any.     *)
Addressed(t, p) ==
    \/ Audiences[p] = {}
    \/ t.aud = Absent /\ p \in AllowMissingAud
    \/ t.aud \notin {Absent, Bad} /\ t.aud \cap Audiences[p] # {}

(***************************************************************************)
(* The cache changes no verdict: a token Verify accepts, cached or not,    *)
(* was signed, with an algorithm of its key, by a key that some snapshot   *)
(* named by its kid during the call, is addressed to that key's provider,  *)
(* had not expired when the call began and is valid at some time of it.    *)
(* A key that was withdrawn before the call therefore accepts nothing.     *)
(***************************************************************************)
AcceptedAsIfChecked ==
    \A c \in Callers : At(c, "accepted") =>
        LET t == call[c].token
            key == call[c].key
        IN /\ key \in seen[c]
           /\ key.kid = t.kid /\ key.material = t.signer
           /\ t.alg \in Algorithms \cap KeyAlgs[key.material]
           /\ t.wellFormed /\ t.isObject
           /\ Addressed(t, key.provider)
           /\ \E time \in call[c].now..now : InTime(t, time)
           /\ call[c].now < t.exp + Leeway

(***************************************************************************)
(* Nothing in the payload matters before the signature: a refusal that     *)
(* names a claim is only given for a token its key really signed.          *)
(***************************************************************************)
SignatureDecidesFirst ==
    \A c \in Callers : call[c].code \in ClaimCodes =>
        call[c].token.signer = call[c].key.material

(***************************************************************************)
(* A Kubernetes token is accepted only while its namespace is allowed,     *)
(* however it was verified: the allowlist is asked on every call, because  *)
(* its answer can change while the token is cached.                        *)
(***************************************************************************)
AcceptedIsAdmitted ==
    [][\A c \in Callers :
          ~At(c, "accepted") /\ At(c, "accepted")' =>
              Admits(call[c].token, call'[c].key.provider)]_vars
=============================================================================
