-------------------------- MODULE SubjectIdentity ---------------------------
(***************************************************************************)
(* The authentication of a request's subject (policies/identity.rego) over *)
(* the document data.authn that the manager of the trusted providers       *)
(* publishes.  A rule of several bodies is the set of the values of the    *)
(* bodies that hold: none is the default, and two values are Conflict, the *)
(* evaluation error that OPA answers with.                                 *)
(*                                                                         *)
(* A subject is text without any credential ("empty"), a value that is not *)
(* text ("other"), text of another scheme ("scheme"), "Bearer " alone      *)
(* ("bare") or a token after it ("bearer").  A token is a record: readable *)
(* (it decodes to a header with a field), its algorithm in upper case, its *)
(* kid, the claim aud (NoClaim or a set, with one member for text),        *)
(* the key that signed it, which of its times are wrong, and its level,    *)
(* roles and scopes.  The body that looks in data.authn.verifiedTokens     *)
(* never holds, because nothing publishes them.                            *)
(*                                                                         *)
(* Where the rules take the first of several keys or audiences that will   *)
(* do, the answer is the same with any of them, so they are sets here.     *)
(***************************************************************************)
EXTENDS AuthnProviders

CONSTANTS
    Jwks,              \* for a provider's id, the keys that it serves
    Audiences,         \* for a provider's id, its audiences
    AllowMissingAud,   \* the ids of the providers with that option
    Tokens,            \* the tokens that callers send
    NoClaim,           \* the claim is absent
    LowerCase,         \* for an audience not in lower case, its lower case
    UpperCase          \* for a role not in upper case, its upper case

Requests ==
    [anonymous : BOOLEAN,
     subject : [scheme : {"empty", "other", "scheme", "bare"}]
               \cup [scheme : {"bearer"}, token : Tokens]]

(* The documents that publish can put: the keys of some entries are        *)
(* fetched.  Before the first one there is nothing, like in an empty one.  *)
Documents ==
    UNION {[entries : {c}, keys : SUBSET {e.id : e \in Range(c)}] : c \in Contents \cup {<<>>}}

Conflict == "eval_conflict_error"
OneOf(bodies, default, conflict) ==
    IF bodies = {} THEN default
    ELSE IF Cardinality(bodies) = 1 THEN CHOOSE b \in bodies : TRUE ELSE conflict

When(holds, value) == IF holds THEN {value} ELSE {}
In(mapping, text) == IF text \in DOMAIN mapping THEN mapping[text] ELSE text

-----------------------------------------------------------------------------
(* indexKeys: a signing key with a kid.                                    *)
Indexed(key) == key.kid # "" /\ key.use \in {"", "sig"}

(* The fetch of a provider that serves none of these fails.                *)
ASSUME JwksAssumption == \A id \in DOMAIN Jwks : \E key \in Jwks[id] : Indexed(key)

ASSUME TokensAssumption ==
    /\ \A e \in Entries : NoClaim \notin Audiences[e.id]
    /\ \A t \in Tokens :
          /\ t.readable \in BOOLEAN
          /\ t.wrong \subseteq {"exp", "nbf", "iat"}
          /\ t.aud # NoClaim => NoClaim \notin t.aud

(* fetch: the keys of a kid, with the ids of the providers they are of.    *)
JwksByKid(d, kid) ==
    UNION {{[providerId |-> entry.id, key |-> key] :
               key \in {k \in Jwks[entry.id] : Indexed(k) /\ k.kid = kid}} :
           entry \in {e \in Range(d.entries) : e.id \in d.keys}}

KidCandidates(d, kid) == IF kid = "" THEN {} ELSE JwksByKid(d, kid)

AlgKeyType ==
    [RS256 |-> "RSA", RS384 |-> "RSA", RS512 |-> "RSA", PS256 |-> "RSA", PS384 |-> "RSA",
     PS512 |-> "RSA", ES256 |-> "EC", ES384 |-> "EC", ES512 |-> "EC", EDDSA |-> "OKP"]
AsymmetricAlg(alg) == alg \in DOMAIN AlgKeyType
CandidateAlgMatches(key, alg) ==
    IF key.alg # "" THEN key.alg = alg ELSE AsymmetricAlg(alg) /\ AlgKeyType[alg] = key.kty

Matching(d, t) == {c \in KidCandidates(d, t.kid) : CandidateAlgMatches(c.key, t.alg)}
CandidateProviders(d, t) == {c.providerId : c \in KidCandidates(d, t.kid)}

ProviderAudiences(id) == Audiences[id] \ {""}
HasAud(t) == t.aud # NoClaim
AudList(t) == IF HasAud(t) THEN t.aud \ {""} ELSE {}

-----------------------------------------------------------------------------
(* The builtin io.jwt.decode_verify with one key and, where given is not   *)
(* NoClaim, an audience: it wants one exactly when the token has the claim *)
(* and leaves iat alone.                                                   *)
DecodeVerify(t, key, given) ==
    /\ t.signer = key.material
    /\ t.wrong \cap {"exp", "nbf"} = {}
    /\ HasAud(t) <=> given # NoClaim
    /\ HasAud(t) => given \in t.aud

(* The four bodies of verify_with_provider_constraints, whose values are   *)
(* the header and the claims of the token.                                 *)
VerifyWithProviderConstraints(t, c) ==
    LET audiences == ProviderAudiences(c.providerId) IN
    \/ audiences # {} /\ HasAud(t) /\ \E a \in audiences : DecodeVerify(t, c.key, a)
    \/ audiences # {} /\ ~HasAud(t) /\ c.providerId \in AllowMissingAud /\ DecodeVerify(t, c.key, NoClaim)
    \/ audiences = {} /\ \E a \in AudList(t) : DecodeVerify(t, c.key, a)
    \/ audiences = {} /\ ~HasAud(t) /\ DecodeVerify(t, c.key, NoClaim)

SuccessfulVerifications(d, t) ==
    {c \in Matching(d, t) : VerifyWithProviderConstraints(t, c)}

OneCandidateOnly(d, t) ==
    /\ t.readable /\ AsymmetricAlg(t.alg)
    /\ KidCandidates(d, t.kid) # {}
    /\ (CHOOSE c \in KidCandidates(d, t.kid) : TRUE) \in SuccessfulVerifications(d, t)

(* verify_token, for a token that is not empty.                            *)
VerifyToken(d, t) == t.readable /\ AsymmetricAlg(t.alg) /\ SuccessfulVerifications(d, t) # {}

-----------------------------------------------------------------------------
IsEmptyTokenInput(subject) == subject.scheme = "empty"
IsNonBearerScheme(subject) == subject.scheme = "scheme"
ExpInPast(t) == "exp" \in t.wrong
NbfInFuture(t) == "nbf" \in t.wrong
IatInFuture(t) == "iat" \in t.wrong
AudMatch(t, id) ==
    \E a \in AudList(t), b \in ProviderAudiences(id) : In(LowerCase, a) = In(LowerCase, b)

(* _collect_token_errors, for a token that decodes: what is wrong with it, *)
(* with the priority of each.                                              *)
AudienceMissing(d, t) ==
    ~HasAud(t) /\ \E id \in CandidateProviders(d, t) : ProviderAudiences(id) # {} /\ id \notin AllowMissingAud

AudienceInvalid(d, t) ==
    /\ AudList(t) # {}
    /\ \E id \in CandidateProviders(d, t) : ProviderAudiences(id) # {} /\ ~AudMatch(t, id)

ErrorCodes ==
    {<<40, "TOKEN_ALG_NOT_ALLOWED">>, <<50, "TOKEN_KID_MISSING">>, <<60, "TOKEN_KID_UNKNOWN">>,
     <<70, "TOKEN_ALG_NOT_ALLOWED">>, <<90, "TOKEN_AUDIENCE_MISSING">>,
     <<100, "TOKEN_AUDIENCE_INVALID">>, <<110, "TOKEN_EXPIRED">>, <<120, "TOKEN_NOT_YET_VALID">>,
     <<130, "TOKEN_IAT_INVALID">>, <<140, "TOKEN_SIGNATURE_INVALID">>}

HasError(d, t, priority) ==
    LET candidates == KidCandidates(d, t.kid) # {}
        expired == ExpInPast(t)
        early == NbfInFuture(t)
    IN \/ priority = 40 /\ ~AsymmetricAlg(t.alg)
       \/ priority = 50 /\ t.kid = ""
       \/ priority = 60 /\ t.kid # "" /\ ~candidates
       \/ priority = 70 /\ candidates /\ Matching(d, t) = {}
       \/ priority = 90 /\ AudienceMissing(d, t)
       \/ priority = 100 /\ AudienceInvalid(d, t)
       \/ priority = 110 /\ expired
       \/ priority = 120 /\ ~expired /\ early
       \/ priority = 130 /\ ~expired /\ ~early /\ IatInFuture(t)
       \/ priority = 140 /\ Matching(d, t) # {} /\ ~expired /\ ~early /\ ~VerifyToken(d, t)

TokenErrors(d, t) == {e \in ErrorCodes : HasError(d, t, e[1])}

(* _primary_token_error.                                                   *)
PrimaryTokenError(d, subject) ==
    LET bearer == subject.scheme = "bearer"
        errors == IF bearer /\ subject.token.readable THEN TokenErrors(d, subject.token) ELSE {}
    IN OneOf(UNION {
        When(IsEmptyTokenInput(subject), "TOKEN_MISSING"),
        When(IsNonBearerScheme(subject), "TOKEN_SCHEME_INVALID"),
        When(bearer /\ ~subject.token.readable, "TOKEN_FORMAT_INVALID"),
        {e[2] : e \in {f \in errors : \A g \in errors : f[1] <= g[1]}}},
        "TOKEN_READ_FAILED", Conflict)

(* validate_token_with_reason, apart from the reason.                      *)
Valid(d, subject) == subject.scheme = "bearer" /\ VerifyToken(d, subject.token)

(* subject_from_payload; the id and the name are left out.                 *)
Payload(t) ==
    [type |-> IF t.level \in {"m2m", "external"} THEN "SERVICE" ELSE "USER",
     roles |-> {In(UpperCase, r) : r \in t.roles \ {""}},
     scopes |-> (t.scope \cup t.scp) \ {""}]

AnonymousSubject == [type |-> "ANONYMOUS", roles |-> {}, scopes |-> {}]

Accept(subject) == [authenticated |-> TRUE, subject |-> subject]
Reject(reason) == [authenticated |-> FALSE, reasonCode |-> reason]

(* The guard that the comment at identity.rego:62 warns of: any subject    *)
(* that is not a Bearer token, not only an empty one.                      *)
AnyNonBearer(d, request) ==
    LET subject == request.subject
        rejected == Reject(PrimaryTokenError(d, subject))
    IN OneOf(UNION {
        When(~request.anonymous /\ ~Valid(d, subject), rejected),
        When(request.anonymous /\ ~IsEmptyTokenInput(subject) /\ ~Valid(d, subject), rejected),
        When(request.anonymous /\ subject.scheme # "bearer", Accept(AnonymousSubject)),
        IF Valid(d, subject) THEN {Accept(Payload(subject.token))} ELSE {}},
        Reject(""), Reject(Conflict))

(* The four bodies of authenticate.                                        *)
Authenticate(d, request) ==
    LET subject == request.subject
        rejected == Reject(PrimaryTokenError(d, subject))
    IN OneOf(UNION {
        When(~request.anonymous /\ ~Valid(d, subject), rejected),
        When(request.anonymous /\ ~IsEmptyTokenInput(subject) /\ ~Valid(d, subject), rejected),
        When(request.anonymous /\ IsEmptyTokenInput(subject), Accept(AnonymousSubject)),
        IF Valid(d, subject) THEN {Accept(Payload(subject.token))} ELSE {}},
        Reject(""), Reject(Conflict))

-----------------------------------------------------------------------------
(***************************************************************************)
(* Every request has one answer, over every document that is published:    *)
(* the bodies of authenticate, and of the rule that names the reason, are  *)
(* never true together with different values, which OPA would answer with  *)
(* an error and the agent with a 5xx; nor are they false together, which   *)
(* would leave a rejection without a reason.                               *)
(***************************************************************************)
Answered(d, request) ==
    /\ Authenticate(d, request) \notin {Reject(Conflict), Reject("")}
    /\ PrimaryTokenError(d, request.subject) # Conflict

Answering == UNION {When(\A r \in Requests : Answered(d, r), d) : d \in Documents}
OneAnswer == authn \in Answering

(***************************************************************************)
(* What fetch, publish and the rules do together: a token is accepted if   *)
(* and only if some listed provider, whose keys were fetched, serves a     *)
(* signing key under the token's kid that signed it with an algorithm of   *)
(* that key, and this provider takes the token's audience, whichever other *)
(* providers serve the same kid and in whatever order they are listed.     *)
(* Without such a token no subject has roles or scopes.                    *)
(***************************************************************************)
TakesAudience(id, t) ==
    LET wanted == Audiences[id] \ {""} IN
    IF t.aud = NoClaim THEN wanted = {} \/ id \in AllowMissingAud
    ELSE IF wanted = {} THEN t.aud \ {""} # {} ELSE t.aud \cap wanted # {}

Trusted(d, t) ==
    /\ t.readable /\ t.wrong \subseteq {"iat"}
    /\ \E entry \in Range(d.entries) :
          /\ entry.id \in d.keys
          /\ TakesAudience(entry.id, t)
          /\ \E key \in Jwks[entry.id] :
                /\ key.kid = t.kid /\ t.kid # "" /\ key.use \in {"", "sig"}
                /\ key.material = t.signer
                /\ t.alg \in DOMAIN AlgKeyType
                /\ key.alg \in {"", t.alg}
                /\ key.alg = "" => key.kty = AlgKeyType[t.alg]

AcceptedRightly(d, request) ==
    LET answer == Authenticate(d, request)
        trusted == request.subject.scheme = "bearer" /\ Trusted(d, request.subject.token)
    IN /\ answer.authenticated <=> trusted \/ (request.anonymous /\ request.subject.scheme = "empty")
       /\ answer.authenticated /\ ~trusted => answer.subject.roles \cup answer.subject.scopes = {}

Accepting == UNION {When(\A r \in Requests : AcceptedRightly(d, r), d) : d \in Documents}
AcceptedMeansTrusted == authn \in Accepting

(***************************************************************************)
(* The reason of a rejection does not mislead: a signature is blamed only  *)
(* when no key of the kid and the algorithm signed the token, also where   *)
(* two providers share the kid, and a token is never called unreadable     *)
(* that can be decoded.  (An audience that is empty, or right but for its  *)
(* case, is reported as a wrong signature.)                                *)
(***************************************************************************)
OddAudience(id, t) ==
    /\ HasAud(t)
    /\ AudList(t) = {} \/ (AudMatch(t, id) /\ t.aud \cap ProviderAudiences(id) = {})

BlamedRightly(d, request) ==
    LET reason == PrimaryTokenError(d, request.subject)
        t == request.subject.token
    IN request.subject.scheme = "bearer" /\ ~Authenticate(d, request).authenticated =>
        /\ reason = "TOKEN_SIGNATURE_INVALID" =>
              \A c \in Matching(d, t) : c.key.material = t.signer => OddAudience(c.providerId, t)
        /\ reason # "TOKEN_READ_FAILED"

Blaming == UNION {When(\A r \in Requests : BlamedRightly(d, r), d) : d \in Documents}
ReasonIsReal == authn \in Blaming
=============================================================================
