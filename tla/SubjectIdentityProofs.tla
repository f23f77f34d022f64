----------------------- MODULE SubjectIdentityProofs ------------------------
(***************************************************************************)
(* The trusted providers and the authentication of a subject for any       *)
(* providers files, keys and tokens.  First the manager: what /health and  *)
(* a reload promise of data.authn.  Then the rules over any document that  *)
(* it publishes: there is one answer, the right one, with a true reason.   *)
(***************************************************************************)
EXTENDS SubjectIdentity, FiniteSetTheorems, TLAPS

EntryRecords == [id : STRING, required : BOOLEAN, realm : STRING,
                 form : {"jwksUri", "issuer", "invalid"}]

(* For each entry that a document was made from, whether it has keys.      *)
HasKeys(d) == [i \in DOMAIN d.entries |-> d.entries[i].id \in d.keys]

StatusOK ==
    \E error \in BOOLEAN, entries \in Contents \cup {<<>>}, oks \in Seq(BOOLEAN) :
        status = Outcome(error, entries, oks) /\ Len(oks) = Len(entries)

AuthnTyped ==
    /\ TypeOK
    /\ authn \in Documents
    /\ StatusOK
    /\ pc = "record" => Len(results) = Len(doc)

(* The manager's own steps say what stands in the document: between the    *)
(* put and the record it is the one just fetched, which a reload judged    *)
(* before; and a status that Evaluate approves of was recorded after it or *)
(* stands beside one that a reload judged.                                 *)
RulesInv ==
    /\ booted /\ pc = "record" => Acceptable(doc, results)
    /\ "Bootstrap" \notin StoreFails =>
          /\ pc = "record" => authn = Document
          /\ Healthy => Acceptable(authn.entries, HasKeys(authn))

AuthnInv == AuthnTyped /\ RulesInv
-----------------------------------------------------------------------------
LEMMA ContentsTyped ==
  ASSUME NEW c \in Contents \cup {<<>>}
  PROVE  c \in Seq(EntryRecords)
<1>1. CASE c \in Contents
  BY <1>1, AuthnAssumption, Zenon DEF EntryRecords
<1>2. CASE c = <<>>
  BY <1>2
<1> QED BY <1>1, <1>2, Zenon

(* How many of the fetches succeeded, as a number of entries.              *)
LEMMA CountBounds ==
  ASSUME NEW n \in Nat, NEW oks, DOMAIN oks = 1..n
  PROVE  /\ IsFiniteSet({i \in DOMAIN oks : oks[i]})
         /\ Count(oks) \in Nat
         /\ Count(oks) <= n
         /\ Count(oks) = n => \A i \in 1..n : oks[i]
<1> DEFINE T == {i \in DOMAIN oks : oks[i]}
<1>1. IsFiniteSet(1..n) /\ Cardinality(1..n) = n
  BY FS_Interval
<1>2. T \in SUBSET (1..n)
  BY Zenon
<1>3. /\ IsFiniteSet(T)
      /\ Cardinality(T) <= Cardinality(1..n)
      /\ Cardinality(1..n) = Cardinality(T) => 1..n = T
  BY <1>1, <1>2, FS_Subset, Zenon
<1>4. Cardinality(T) \in Nat
  BY <1>3, FS_CardinalityType, Zenon
<1> QED BY <1>1, <1>3, <1>4, Zenon DEF Count

(* More successes never break the rules.                                   *)
LEMMA AcceptableGrows ==
  ASSUME NEW entries \in Seq(EntryRecords), NEW oks, NEW more,
         DOMAIN oks = DOMAIN entries, DOMAIN more = DOMAIN entries,
         \A i \in DOMAIN entries : oks[i] => more[i],
         Acceptable(entries, oks)
  PROVE  Acceptable(entries, more)
<1> DEFINE T == {i \in DOMAIN oks : oks[i]}
           U == {i \in DOMAIN more : more[i]}
<1>1. DOMAIN entries = 1..Len(entries) /\ Len(entries) \in Nat
  OBVIOUS
<1>2. IsFiniteSet(U) /\ Cardinality(U) \in Nat /\ Cardinality(T) \in Nat
  BY <1>1, CountBounds, Zenon DEF Count
<1>3. Cardinality(T) <= Cardinality(U)
  <2>1. T \in SUBSET U
    BY Zenon
  <2> QED BY <1>2, <2>1, FS_Subset, Zenon
<1>4. Count(more) >= Threshold(Len(entries))
  BY <1>1, <1>2, <1>3 DEF Acceptable, Count, Threshold
<1>5. ~MissingRequired(entries, more)
  BY Zenon DEF Acceptable, MissingRequired
<1> QED BY <1>4, <1>5, Zenon DEF Acceptable

(* What is published has keys for every fetch that succeeded.              *)
LEMMA DocumentKeeps ==
  ASSUME AuthnTyped, Len(results) = Len(doc)
  PROVE  /\ Document \in Documents
         /\ Document.entries = doc
         /\ DOMAIN results = DOMAIN doc
         /\ \A i \in DOMAIN doc : results[i] => HasKeys(Document)[i]
         /\ Acceptable(doc, results) => Acceptable(doc, HasKeys(Document))
<1>1. doc \in Contents \cup {<<>>} /\ doc \in Seq(EntryRecords) /\ results \in Seq(BOOLEAN)
  BY ContentsTyped, Zenon DEF AuthnTyped, TypeOK
<1>2. DOMAIN results = DOMAIN doc
  BY <1>1
<1>3. Document.entries = doc /\ DOMAIN HasKeys(Document) = DOMAIN doc
  BY Zenon DEF Document, HasKeys
<1>4. \A i \in DOMAIN doc : results[i] => HasKeys(Document)[i]
  BY Zenon DEF Document, HasKeys
<1>5. Document \in Documents
  <2>1. Document.keys \in SUBSET {e.id : e \in Range(doc)}
    BY Zenon DEF Document, Range
  <2>2. Document \in [entries : {doc}, keys : SUBSET {e.id : e \in Range(doc)}]
    BY <2>1, Zenon DEF Document
  <2> QED BY <1>1, <2>2, Zenon DEF Documents
<1>6. Acceptable(doc, results) => Acceptable(doc, HasKeys(Document))
  BY <1>1, <1>2, <1>3, <1>4, AcceptableGrows, Zenon
<1> QED BY <1>2, <1>3, <1>4, <1>5, <1>6, Zenon
-----------------------------------------------------------------------------
LEMMA AuthnInitially == Init => AuthnInv
<1> SUFFICES ASSUME Init PROVE AuthnInv
  BY Zenon
<1>0. <<>> \in Seq(BOOLEAN) /\ Len(<<>>) = 0
  OBVIOUS
<1>1. TypeOK
  <2>1. /\ edits \in 0..MaxEdits
        /\ cache \in [Realms -> {"unasked", "known", "unknown"}]
        /\ file \in Contents \cup {Malformed, Missing}
    BY AuthnAssumption DEF Init
  <2>2. /\ authn.entries = <<>> /\ authn.keys = {}
        /\ status.entries = <<>> /\ status.success = <<>>
    BY Zenon DEF Init, Outcome
  <2>3. authn.keys \subseteq {e.id : e \in Range(authn.entries)}
    BY <2>2, Zenon
  <2>4. results \in Seq(BOOLEAN) /\ Len(results) <= Len(doc)
    BY <1>0 DEF Init
  <2>5. Len(status.success) = Len(status.entries)
    BY <2>2, Zenon
  <2> QED BY <2>1, <2>2, <2>3, <2>4, <2>5, Zenon DEF Init, TypeOK
<1>2. authn \in Documents
  <2>1. authn \in [entries : {<<>>}, keys : SUBSET {e.id : e \in Range(<<>>)}]
    BY Zenon DEF Init
  <2> QED BY <2>1, Zenon DEF Documents
<1>3. StatusOK
  BY <1>0, Zenon DEF Init, StatusOK
<1>4. RulesInv
  BY Zenon DEF Init, RulesInv, Healthy
<1> QED BY <1>1, <1>2, <1>3, <1>4, Zenon DEF Init, AuthnInv, AuthnTyped

(* The steps that leave the document and the status alone.                 *)
LEMMA StatusKept ==
  ASSUME RulesInv, UNCHANGED <<booted, authn, status, mode>>, pc' # "record"
  PROVE  RulesInv'
BY Zenon DEF RulesInv, Healthy, HasKeys, Acceptable, Threshold, MissingRequired, Count

(* The steps before anything is fetched, and the ones that fetch.          *)
LEMMA ReadingStep ==
  ASSUME AuthnInv, Edit \/ BootstrapHash \/ ReloadHash \/ Load \/ ReloadLoadFails
  PROVE  AuthnInv'
<1>1. CASE Edit
  <2>1. AuthnTyped'
    BY <1>1, AuthnAssumption DEF AuthnInv, AuthnTyped, TypeOK, StatusOK, Edit
  <2>2. RulesInv'
    BY <1>1, Zenon DEF AuthnInv, RulesInv, Edit, Healthy, HasKeys, Acceptable, Threshold,
       MissingRequired, Count, Document
  <2> QED BY <2>1, <2>2, Zenon DEF AuthnInv
<1>2. CASE BootstrapHash \/ ReloadHash \/ ReloadLoadFails
  <2>1. AuthnTyped'
    BY <1>2, Zenon DEF AuthnInv, AuthnTyped, TypeOK, StatusOK, BootstrapHash, ReloadHash,
       ReloadLoadFails
  <2>2. RulesInv'
    BY <1>2, StatusKept, Zenon DEF AuthnInv, BootstrapHash, ReloadHash, ReloadLoadFails
  <2> QED BY <2>1, <2>2, Zenon DEF AuthnInv
<1>3. CASE Load
  <2>1. doc' \in Seq(EntryRecords) /\ Len(<<>>) <= Len(doc')
    BY <1>3, ContentsTyped DEF Load
  <2>2. AuthnTyped'
    BY <1>3, <2>1 DEF AuthnInv, AuthnTyped, TypeOK, StatusOK, Load
  <2>3. RulesInv'
    BY <1>3, StatusKept, Zenon DEF AuthnInv, Load
  <2> QED BY <2>2, <2>3, Zenon DEF AuthnInv
<1> QED BY <1>1, <1>2, <1>3, Zenon

LEMMA FetchStep ==
  ASSUME AuthnInv, FetchWritten \/ FetchResolved \/ FetchRefused \/ FetchFails
  PROVE  AuthnInv'
<1>1. PICK ok \in BOOLEAN : Fetching /\ Fetched(ok)
  BY Zenon DEF FetchWritten, FetchResolved, FetchRefused, FetchFails
<1>2. cache' \in [Realms -> {"unasked", "known", "unknown"}]
  BY Zenon DEF AuthnInv, AuthnTyped, TypeOK, FetchWritten, FetchResolved, FetchRefused,
     FetchFails, Answers
<1>3. results' \in Seq(BOOLEAN) /\ Len(results') <= Len(doc)
  <2>1. doc \in Seq(EntryRecords) /\ results \in Seq(BOOLEAN)
    BY ContentsTyped, Zenon DEF AuthnInv, AuthnTyped, TypeOK
  <2> QED BY <1>1, <2>1 DEF Fetching, Fetched
<1>4. AuthnTyped'
  BY <1>1, <1>2, <1>3, ZenonT(40) DEF AuthnInv, AuthnTyped, TypeOK, StatusOK, Fetching, Fetched
<1>5. RulesInv'
  BY <1>1, StatusKept, Zenon DEF AuthnInv, Fetching, Fetched
<1> QED BY <1>4, <1>5, Zenon DEF AuthnInv

(* A put replaces the document by one whose keys are at least what the     *)
(* fetch got, and Reload puts only what meets the rules.                   *)
LEMMA PublishStep ==
  ASSUME AuthnInv, Publish
  PROVE  /\ AuthnInv'
         /\ booted => Acceptable(authn'.entries, HasKeys(authn'))
<1>1. /\ Document \in Documents
      /\ Document.entries = doc
      /\ Acceptable(doc, results) => Acceptable(doc, HasKeys(Document))
  BY DocumentKeeps, Zenon DEF AuthnInv, Publish
<1>2. booted => Acceptable(authn'.entries, HasKeys(authn'))
  BY <1>1, Zenon DEF Publish, HasKeys
<1>3. AuthnTyped'
  <2>1. /\ authn'.entries \in Contents \cup {<<>>}
        /\ authn'.keys \subseteq {e.id : e \in Range(authn'.entries)}
    BY <1>1 DEF Publish, Documents
  <2> QED BY <1>1, <2>1, ZenonT(40) DEF AuthnInv, AuthnTyped, TypeOK, StatusOK, Publish
<1>4. RulesInv'
  <2>1. (booted /\ pc = "record" => Acceptable(doc, results))'
    BY Zenon DEF Publish, Acceptable, Threshold, MissingRequired, Count
  <2>2. (authn = Document)'
    BY Zenon DEF Publish, Document
  <2>3. Healthy' => booted
    BY Zenon DEF Publish, Healthy
  <2>4. booted => Acceptable(authn.entries, HasKeys(authn))'
    BY <1>2, Zenon DEF Publish, HasKeys, Acceptable, Threshold, MissingRequired, Count
  <2> QED BY <2>1, <2>2, <2>3, <2>4, Zenon DEF RulesInv
<1> QED BY <1>2, <1>3, <1>4, Zenon DEF AuthnInv

LEMMA PublishFailsStep ==
  ASSUME AuthnInv, PublishFails \/ ReloadRejected
  PROVE  AuthnInv'
<1>1. AuthnTyped'
  BY Zenon DEF AuthnInv, AuthnTyped, TypeOK, StatusOK, PublishFails, ReloadRejected
<1>2. CASE booted
  BY <1>1, <1>2, StatusKept, Zenon DEF AuthnInv, AuthnTyped, TypeOK, PublishFails,
     ReloadRejected
<1>3. CASE ~booted
  <2>1. "Bootstrap" \in StoreFails /\ ~booted'
    BY <1>3 DEF PublishFails, ReloadRejected
  <2> QED BY <1>1, <2>1, Zenon DEF AuthnInv, RulesInv
<1> QED BY <1>2, <1>3, Zenon

(* The status that Bootstrap records speaks of the document it has put,    *)
(* and the one that Reload records of a document that meets the rules.     *)
LEMMA RecordStep ==
  ASSUME AuthnInv, BootstrapLoadFails \/ Record
  PROVE  AuthnInv'
<1>1. CASE BootstrapLoadFails
  <2>1. /\ status'.configError
        /\ status' = Outcome(TRUE, <<>>, <<>>)
        /\ status'.entries = <<>> /\ status'.success = <<>>
    BY <1>1, Zenon DEF BootstrapLoadFails, Recorded, Outcome
  <2>2. <<>> \in Seq(BOOLEAN) /\ Len(<<>>) = 0
    OBVIOUS
  <2>3. StatusOK'
    BY <2>1, <2>2, Zenon DEF StatusOK
  <2>4. AuthnTyped'
    BY <1>1, <2>1, <2>3, Zenon DEF AuthnInv, AuthnTyped, TypeOK, BootstrapLoadFails, Recorded
  <2>5. RulesInv'
    BY <1>1, <2>1, Zenon DEF RulesInv, Healthy, BootstrapLoadFails, Recorded
  <2> QED BY <2>4, <2>5, Zenon DEF AuthnInv
<1>2. CASE Record
  <2>1. /\ status' = Outcome(FALSE, doc, results)
        /\ status'.entries = doc /\ status'.success = results
    BY <1>2, Zenon DEF Record, Recorded, Outcome
  <2>2. Len(results) = Len(doc) /\ doc \in Contents \cup {<<>>} /\ results \in Seq(BOOLEAN)
    BY <1>2, Zenon DEF AuthnInv, AuthnTyped, TypeOK, Record
  <2>3. StatusOK'
    BY <2>1, <2>2, Zenon DEF StatusOK
  <2>4. AuthnTyped'
    BY <1>2, <2>1, <2>2, <2>3, Zenon DEF AuthnInv, AuthnTyped, TypeOK, Record, Recorded
  <2>5. Healthy' => Acceptable(doc, results)
    BY <1>2, <2>1, Zenon DEF Record, Healthy, Acceptable, Threshold, MissingRequired, Count
  <2>6. ASSUME "Bootstrap" \notin StoreFails, Healthy'
        PROVE  Acceptable(authn.entries, HasKeys(authn))
    <3>1. authn = Document
      BY <1>2, <2>6, Zenon DEF AuthnInv, RulesInv, Record
    <3> QED BY <2>2, <2>5, <2>6, <3>1, DocumentKeeps, Zenon DEF AuthnInv
  <2>7. (Acceptable(authn.entries, HasKeys(authn)))' <=> Acceptable(authn.entries, HasKeys(authn))
    BY <1>2, Zenon DEF Record, HasKeys, Acceptable, Threshold, MissingRequired, Count
  <2>8. pc' # "record"
    BY <1>2, Zenon DEF Record, Recorded
  <2> QED BY <2>4, <2>6, <2>7, <2>8, Zenon DEF AuthnInv, RulesInv
<1> QED BY <1>1, <1>2, Zenon

LEMMA AuthnInductive == AuthnInv /\ [Next]_vars => AuthnInv'
<1> SUFFICES ASSUME AuthnInv, [Next]_vars PROVE AuthnInv'
  BY Zenon
<1>1. CASE Next
  BY <1>1, ReadingStep, FetchStep, PublishStep, PublishFailsStep, RecordStep, Zenon DEF Next,
     Manage
<1>2. CASE UNCHANGED vars
  <2>1. AuthnTyped'
    BY <1>2 DEF AuthnInv, AuthnTyped, TypeOK, StatusOK, vars
  <2>2. RulesInv'
    BY <1>2, Zenon DEF AuthnInv, RulesInv, vars, Healthy, HasKeys, Acceptable, Threshold,
       MissingRequired, Count, Document
  <2> QED BY <2>1, <2>2, Zenon DEF AuthnInv
<1> QED BY <1>1, <1>2, Zenon

LEMMA AuthnInvariance == Spec => []AuthnInv
BY AuthnInitially, AuthnInductive, PTL DEF Spec

(* While /health answers 200, the document itself meets the rules for the  *)
(* list it was made from, at every step of a reload.                       *)
THEOREM HealthVouchesForKeys == Spec => []HealthyMeansKeys
<1>1. AuthnInv => HealthyMeansKeys
  BY Zenon DEF AuthnInv, RulesInv, HealthyMeansKeys, HasKeys
<1> QED BY <1>1, AuthnInvariance, PTL

(* A document that Run publishes has keys for every required provider,     *)
(* and for every provider in strict mode.                                  *)
THEOREM ReloadsKeepRequired == Spec => ReloadKeepsRequired
<1> DEFINE Kept ==
        booted /\ authn' # authn =>
            \A i \in DOMAIN authn'.entries :
                mode = "strict" \/ authn'.entries[i].required => authn'.entries[i].id \in authn'.keys
<1>1. ASSUME AuthnInv, Next PROVE Kept
  <2>1. CASE Publish
    <3> SUFFICES ASSUME booted, NEW i \in DOMAIN authn'.entries,
                        mode = "strict" \/ authn'.entries[i].required
                 PROVE  authn'.entries[i].id \in authn'.keys
      BY Zenon
    <3>1. /\ authn'.entries \in Seq(EntryRecords)
          /\ authn'.entries = doc
          /\ Acceptable(authn'.entries, HasKeys(authn'))
      BY <1>1, <2>1, PublishStep, ContentsTyped, Zenon DEF AuthnInv, AuthnTyped, TypeOK,
         Publish, Document
    <3>2. DOMAIN authn'.entries = 1..Len(authn'.entries) /\ Len(authn'.entries) \in Nat
      BY <3>1
    <3>3. DOMAIN HasKeys(authn') = 1..Len(authn'.entries)
      BY <3>2, Zenon DEF HasKeys
    <3>4. CASE mode = "strict"
      <4>1. Count(HasKeys(authn')) \in Nat /\ Count(HasKeys(authn')) <= Len(authn'.entries)
        BY <3>2, <3>3, CountBounds, Zenon
      <4>2. Count(HasKeys(authn')) = Len(authn'.entries)
        BY <3>1, <3>2, <3>4, <4>1 DEF Acceptable, Threshold
      <4>3. HasKeys(authn')[i]
        BY <3>2, <3>3, <4>2, CountBounds, Zenon
      <4> QED BY <4>3, Zenon DEF HasKeys
    <3>5. CASE authn'.entries[i].required
      BY <3>1, <3>5, Zenon DEF Acceptable, MissingRequired, HasKeys
    <3> QED BY <3>4, <3>5, Zenon
  <2>2. CASE ~Publish
    <3>1. authn' = authn
      BY <1>1, <2>2, Zenon DEF Next, Manage, Edit, BootstrapHash, ReloadHash, Load,
                        BootstrapLoadFails, ReloadLoadFails, FetchWritten, FetchResolved,
                        FetchRefused, FetchFails, Fetched, PublishFails, ReloadRejected, Record
    <3> QED BY <3>1, Zenon
  <2> QED BY <2>1, <2>2, Zenon
<1>2. AuthnInv /\ [Next]_vars => [Kept]_vars
  BY <1>1, Zenon
<1> QED BY <1>2, AuthnInvariance, PTL DEF Spec, ReloadKeepsRequired

-----------------------------------------------------------------------------
(* A rule with no body that holds, and one whose bodies agree.             *)
LEMMA RuleValue ==
  /\ \A default, conflict : OneOf({}, default, conflict) = default
  /\ \A b, default, conflict : OneOf({b}, default, conflict) = b
<1>1. \A default, conflict : OneOf({}, default, conflict) = default
  BY Zenon DEF OneOf
<1>2. ASSUME NEW b, NEW default, NEW conflict PROVE OneOf({b}, default, conflict) = b
  <2>1. Cardinality({b}) = 1
    BY FS_Singleton, Zenon
  <2> QED BY <2>1, Zenon DEF OneOf
<1> QED BY <1>1, <1>2, Zenon

Least(errors) == {f \in errors : \A g \in errors : f[1] <= g[1]}

(* No two errors have the same priority, so one of them comes first.       *)
LEMMA LeastError ==
  ASSUME NEW errors \in SUBSET ErrorCodes, errors # {}
  PROVE  \E e \in errors : Least(errors) = {e}
<1>1. \A e \in ErrorCodes : e[1] \in Nat
  BY DEF ErrorCodes
<1>2. \A e, f \in ErrorCodes : e[1] <= f[1] /\ f[1] <= e[1] => e = f
  BY DEF ErrorCodes
<1>3. \E e \in errors : \A f \in errors : e[1] <= f[1]
  BY SMTT(30) DEF ErrorCodes
<1> QED BY <1>1, <1>2, <1>3 DEF Least

(* A bearer token that decodes and is not valid has an error.              *)
LEMMA SomeError ==
  ASSUME NEW d, NEW t, t.readable, ~VerifyToken(d, t)
  PROVE  TokenErrors(d, t) # {}
<1>1. \A e \in ErrorCodes : HasError(d, t, e[1]) => TokenErrors(d, t) # {}
  BY Zenon DEF TokenErrors
<1>2. \E p \in {40, 50, 60, 70, 110, 120, 140} : HasError(d, t, p)
  BY ZenonT(40) DEF HasError, Matching, KidCandidates
<1>3. \A p \in {40, 50, 60, 70, 110, 120, 140} : \E e \in ErrorCodes : e[1] = p
  BY ZenonT(40) DEF ErrorCodes
<1> QED BY <1>1, <1>2, <1>3

Decodes(s) == s.scheme = "bearer" /\ s.token.readable

LEMMA SubjectTypes ==
  ASSUME NEW r \in Requests
  PROVE  /\ r.anonymous \in BOOLEAN
         /\ r.subject.scheme \in {"empty", "other", "scheme", "bare", "bearer"}
         /\ r.subject.scheme = "bearer" =>
               r.subject.token \in Tokens /\ r.subject.token.readable \in BOOLEAN
BY TokensAssumption, Zenon DEF Requests

(* The reason that _primary_token_error names: that of the first error of  *)
(* a token that decodes, and one of its own for every other subject.       *)
LEMMA PrimaryReason ==
  ASSUME NEW d, NEW r \in Requests, NEW s, s = r.subject
  PROVE  /\ s.scheme = "empty" => PrimaryTokenError(d, s) = "TOKEN_MISSING"
         /\ s.scheme = "scheme" => PrimaryTokenError(d, s) = "TOKEN_SCHEME_INVALID"
         /\ s.scheme = "bearer" /\ ~s.token.readable => PrimaryTokenError(d, s) = "TOKEN_FORMAT_INVALID"
         /\ Decodes(s) /\ TokenErrors(d, s.token) # {} =>
               \E e \in TokenErrors(d, s.token) :
                   PrimaryTokenError(d, s) = e[2] /\ \A f \in TokenErrors(d, s.token) : e[1] <= f[1]
         /\ s.scheme \in {"other", "bare"} \/ (Decodes(s) /\ TokenErrors(d, s.token) = {}) =>
               PrimaryTokenError(d, s) = "TOKEN_READ_FAILED"
<1> DEFINE errors == IF s.scheme = "bearer" /\ s.token.readable THEN TokenErrors(d, s.token) ELSE {}
           named == {e[2] : e \in Least(errors)}
           own == UNION {When(s.scheme = "empty", "TOKEN_MISSING"),
                         When(s.scheme = "scheme", "TOKEN_SCHEME_INVALID"),
                         When(s.scheme = "bearer" /\ ~s.token.readable, "TOKEN_FORMAT_INVALID"),
                         named}
<1>1. PrimaryTokenError(d, s) = OneOf(own, "TOKEN_READ_FAILED", Conflict)
  BY Zenon DEF PrimaryTokenError, IsEmptyTokenInput, IsNonBearerScheme, Least
<1>2. ~Decodes(s) => named = {}
  BY Zenon DEF Decodes, Least
<1>3. s.scheme = "empty" => own = {"TOKEN_MISSING"}
  BY <1>2, Zenon DEF When, Decodes
<1>4. s.scheme = "scheme" => own = {"TOKEN_SCHEME_INVALID"}
  BY <1>2, Zenon DEF When, Decodes
<1>5. s.scheme = "bearer" /\ ~s.token.readable => own = {"TOKEN_FORMAT_INVALID"}
  BY <1>2, Zenon DEF When, Decodes
<1>6. s.scheme \in {"other", "bare"} => own = {}
  BY <1>2, Zenon DEF When, Decodes
<1>7. Decodes(s) => own = named /\ errors = TokenErrors(d, s.token)
  BY Zenon DEF When, Decodes
<1>8. Decodes(s) /\ TokenErrors(d, s.token) = {} => own = {}
  BY <1>7, Zenon DEF Least
<1>9. ASSUME Decodes(s), TokenErrors(d, s.token) # {}
      PROVE  \E e \in TokenErrors(d, s.token) :
                 own = {e[2]} /\ \A f \in TokenErrors(d, s.token) : e[1] <= f[1]
  <2>1. TokenErrors(d, s.token) \in SUBSET ErrorCodes
    BY Zenon DEF TokenErrors
  <2>2. PICK e \in TokenErrors(d, s.token) : Least(TokenErrors(d, s.token)) = {e}
    BY <1>9, <2>1, LeastError, Zenon
  <2>3. named = {e[2]}
    BY <1>7, <1>9, <2>2, ZenonT(40)
  <2>4. \A f \in TokenErrors(d, s.token) : e[1] <= f[1]
    BY <2>2, Zenon DEF Least
  <2> QED BY <1>7, <1>9, <2>3, <2>4, Zenon
<1> HIDE DEF own, named, errors
<1>10. /\ own = {} => PrimaryTokenError(d, s) = "TOKEN_READ_FAILED"
       /\ \A b : own = {b} => PrimaryTokenError(d, s) = b
  BY <1>1, RuleValue, Zenon
<1> QED BY <1>3, <1>4, <1>5, <1>6, <1>8, <1>9, <1>10, ZenonT(40)

Reasons ==
    {"TOKEN_MISSING", "TOKEN_SCHEME_INVALID", "TOKEN_FORMAT_INVALID", "TOKEN_READ_FAILED",
     "TOKEN_ALG_NOT_ALLOWED", "TOKEN_KID_MISSING", "TOKEN_KID_UNKNOWN", "TOKEN_AUDIENCE_MISSING",
     "TOKEN_AUDIENCE_INVALID", "TOKEN_EXPIRED", "TOKEN_NOT_YET_VALID", "TOKEN_IAT_INVALID",
     "TOKEN_SIGNATURE_INVALID"}

LEMMA ReasonNamed ==
  ASSUME NEW d, NEW r \in Requests
  PROVE  PrimaryTokenError(d, r.subject) \in Reasons
<1> DEFINE s == r.subject
<1>1. \A e \in ErrorCodes : e[2] \in Reasons
  BY DEF ErrorCodes, Reasons
<1>2. \A e \in TokenErrors(d, s.token) : e[2] \in Reasons
  BY <1>1, Zenon DEF TokenErrors
<1>3. CASE Decodes(s) /\ TokenErrors(d, s.token) # {}
  BY <1>2, <1>3, PrimaryReason, Zenon
<1>4. CASE ~(Decodes(s) /\ TokenErrors(d, s.token) # {})
  BY <1>4, PrimaryReason, SubjectTypes, Zenon DEF Decodes, Reasons
<1> QED BY <1>3, <1>4, Zenon

LEMMA ReasonsReal == Conflict \notin Reasons /\ "" \notin Reasons
BY Zenon DEF Conflict, Reasons

(* The value of authenticate, for every request.                           *)
LEMMA AuthenticateValue ==
  ASSUME NEW d, NEW r \in Requests, NEW s, s = r.subject
  PROVE  /\ Valid(d, s) => Authenticate(d, r) = Accept(Payload(s.token))
         /\ r.anonymous /\ s.scheme = "empty" => Authenticate(d, r) = Accept(AnonymousSubject)
         /\ ~Valid(d, s) /\ ~(r.anonymous /\ s.scheme = "empty") =>
               Authenticate(d, r) = Reject(PrimaryTokenError(d, s))
<1> DEFINE rejected == Reject(PrimaryTokenError(d, s))
           bodies == UNION {
                When(~r.anonymous /\ ~Valid(d, s), rejected),
                When(r.anonymous /\ ~IsEmptyTokenInput(s) /\ ~Valid(d, s), rejected),
                When(r.anonymous /\ IsEmptyTokenInput(s), Accept(AnonymousSubject)),
                IF Valid(d, s) THEN {Accept(Payload(s.token))} ELSE {}}
<1>1. Authenticate(d, r) = OneOf(bodies, Reject(""), Reject(Conflict))
  BY Zenon DEF Authenticate
<1>2. Valid(d, s) => ~IsEmptyTokenInput(s)
  BY Zenon DEF Valid, IsEmptyTokenInput
<1>3. Valid(d, s) => bodies = {Accept(Payload(s.token))}
  BY <1>2, Zenon DEF When
<1>4. r.anonymous /\ IsEmptyTokenInput(s) => bodies = {Accept(AnonymousSubject)}
  BY <1>2, Zenon DEF When
<1>5. ~Valid(d, s) /\ ~(r.anonymous /\ IsEmptyTokenInput(s)) => bodies = {rejected}
  BY SubjectTypes, Zenon DEF When
<1> HIDE DEF bodies
<1>6. \A b : bodies = {b} => Authenticate(d, r) = b
  BY <1>1, RuleValue, Zenon
<1> QED BY <1>3, <1>4, <1>5, <1>6, Zenon DEF IsEmptyTokenInput
-----------------------------------------------------------------------------
(* Who may vouch for a token: the keys of its kid and algorithm.           *)
LEMMA MatchingMeans ==
  ASSUME NEW d, NEW t, NEW c
  PROVE  c \in Matching(d, t) <=>
            \E entry \in Range(d.entries) : \E key \in Jwks[entry.id] :
                /\ entry.id \in d.keys
                /\ c = [providerId |-> entry.id, key |-> key]
                /\ key.kid = t.kid /\ t.kid # "" /\ key.use \in {"", "sig"}
                /\ CandidateAlgMatches(key, t.alg)
<1>1. ASSUME c \in Matching(d, t)
      PROVE  \E entry \in Range(d.entries) : \E key \in Jwks[entry.id] :
                 /\ entry.id \in d.keys
                 /\ c = [providerId |-> entry.id, key |-> key]
                 /\ key.kid = t.kid /\ t.kid # "" /\ key.use \in {"", "sig"}
                 /\ CandidateAlgMatches(key, t.alg)
  <2>1. t.kid # "" /\ c \in JwksByKid(d, t.kid) /\ CandidateAlgMatches(c.key, t.alg)
    BY <1>1, Zenon DEF Matching, KidCandidates
  <2>2. PICK entry \in {e \in Range(d.entries) : e.id \in d.keys} :
            c \in {[providerId |-> entry.id, key |-> key] :
                      key \in {k \in Jwks[entry.id] : Indexed(k) /\ k.kid = t.kid}}
    BY <2>1, Zenon DEF JwksByKid
  <2>3. PICK key \in {k \in Jwks[entry.id] : Indexed(k) /\ k.kid = t.kid} :
            c = [providerId |-> entry.id, key |-> key]
    BY <2>2, Zenon
  <2>4. c.key = key /\ key.use \in {"", "sig"}
    BY <2>3, Zenon DEF Indexed
  <2> QED BY <2>1, <2>3, <2>4, Zenon
<1>2. ASSUME NEW entry \in Range(d.entries), NEW key \in Jwks[entry.id],
             entry.id \in d.keys,
             c = [providerId |-> entry.id, key |-> key],
             key.kid = t.kid, t.kid # "", key.use \in {"", "sig"},
             CandidateAlgMatches(key, t.alg)
      PROVE  c \in Matching(d, t)
  <2>1. key \in {k \in Jwks[entry.id] : Indexed(k) /\ k.kid = t.kid}
    BY <1>2, Zenon DEF Indexed
  <2>2. c \in JwksByKid(d, t.kid)
    <3>1. entry \in {e \in Range(d.entries) : e.id \in d.keys}
      BY <1>2, Zenon
    <3>2. c \in {[providerId |-> entry.id, key |-> k] :
                    k \in {j \in Jwks[entry.id] : Indexed(j) /\ j.kid = t.kid}}
      BY <1>2, <2>1, Zenon
    <3> QED BY <3>1, <3>2, Zenon DEF JwksByKid
  <2>3. c.key = key
    BY <1>2, Zenon
  <2> QED BY <1>2, <2>2, <2>3, Zenon DEF Matching, KidCandidates
<1> QED BY <1>1, <1>2, Zenon

LEMMA ProvidersListed ==
  ASSUME NEW d \in Documents, NEW entry \in Range(d.entries)
  PROVE  NoClaim \notin Audiences[entry.id]
<1>1. PICK c \in Contents \cup {<<>>} : d.entries = c
  BY DEF Documents
<1>2. c # <<>>
  BY <1>1 DEF Range
<1>3. entry \in Entries
  BY <1>1, <1>2, Zenon DEF Entries
<1> QED BY <1>3, TokensAssumption, Zenon

LEMMA CandidateListed ==
  ASSUME NEW d \in Documents, NEW t, NEW c \in Matching(d, t)
  PROVE  NoClaim \notin Audiences[c.providerId]
<1>1. PICK entry \in Range(d.entries) : \E key \in Jwks[entry.id] :
          /\ entry.id \in d.keys
          /\ c = [providerId |-> entry.id, key |-> key]
          /\ key.kid = t.kid /\ t.kid # "" /\ key.use \in {"", "sig"}
          /\ CandidateAlgMatches(key, t.alg)
  BY MatchingMeans, Zenon
<1>2. PICK key \in Jwks[entry.id] : c = [providerId |-> entry.id, key |-> key]
  BY <1>1, Zenon
<1>3. c.providerId = entry.id
  BY <1>2, Zenon
<1> QED BY <1>3, ProvidersListed, Zenon

(* The four bodies of verify_with_provider_constraints together: the key   *)
(* signed the token, it is in time, and its audience is the provider's.    *)
LEMMA ConstraintsMean ==
  ASSUME NEW t \in Tokens, NEW c, NoClaim \notin Audiences[c.providerId]
  PROVE  VerifyWithProviderConstraints(t, c) <=>
            /\ t.signer = c.key.material
            /\ t.wrong \cap {"exp", "nbf"} = {}
            /\ TakesAudience(c.providerId, t)
<1>1. t.aud # NoClaim => NoClaim \notin t.aud
  BY TokensAssumption, Zenon
<1>2. \A given : DecodeVerify(t, c.key, given) <=>
          /\ t.signer = c.key.material
          /\ t.wrong \cap {"exp", "nbf"} = {}
          /\ (t.aud # NoClaim <=> given # NoClaim)
          /\ t.aud # NoClaim => given \in t.aud
  BY Zenon DEF DecodeVerify, HasAud
<1>3. CASE t.aud = NoClaim
  BY <1>2, <1>3, Zenon DEF VerifyWithProviderConstraints, TakesAudience, HasAud, AudList,
     ProviderAudiences
<1>4. CASE t.aud # NoClaim /\ ProviderAudiences(c.providerId) = {}
  BY <1>1, <1>2, <1>4, Zenon DEF VerifyWithProviderConstraints, TakesAudience, HasAud, AudList,
     ProviderAudiences
<1>5. CASE t.aud # NoClaim /\ ProviderAudiences(c.providerId) # {}
  BY <1>1, <1>2, <1>5, Zenon DEF VerifyWithProviderConstraints, TakesAudience, HasAud, AudList,
     ProviderAudiences
<1> QED BY <1>3, <1>4, <1>5, Zenon

(* verify_token accepts exactly the tokens that are to be trusted.         *)
LEMMA VerifiedMeansTrusted ==
  ASSUME NEW d \in Documents, NEW t \in Tokens
  PROVE  VerifyToken(d, t) <=> Trusted(d, t)
<1>0. t.readable \in BOOLEAN /\ t.wrong \subseteq {"exp", "nbf", "iat"}
  BY TokensAssumption, Zenon
<1>1. t.wrong \cap {"exp", "nbf"} = {} <=> t.wrong \subseteq {"iat"}
  BY <1>0, Zenon
<1>2. \A key : CandidateAlgMatches(key, t.alg) /\ AsymmetricAlg(t.alg) <=>
          /\ t.alg \in DOMAIN AlgKeyType
          /\ key.alg \in {"", t.alg}
          /\ key.alg = "" => key.kty = AlgKeyType[t.alg]
  BY Zenon DEF CandidateAlgMatches, AsymmetricAlg
<1>3. ASSUME VerifyToken(d, t) PROVE Trusted(d, t)
  <2>1. PICK c \in Matching(d, t) : VerifyWithProviderConstraints(t, c)
    BY <1>3, Zenon DEF VerifyToken, SuccessfulVerifications
  <2>0. PICK entry \in Range(d.entries) : \E key \in Jwks[entry.id] :
            /\ entry.id \in d.keys
            /\ c = [providerId |-> entry.id, key |-> key]
            /\ key.kid = t.kid /\ t.kid # "" /\ key.use \in {"", "sig"}
            /\ CandidateAlgMatches(key, t.alg)
    BY <2>1, MatchingMeans, Zenon
  <2>2. PICK key \in Jwks[entry.id] :
            /\ entry.id \in d.keys
            /\ c = [providerId |-> entry.id, key |-> key]
            /\ key.kid = t.kid /\ t.kid # "" /\ key.use \in {"", "sig"}
            /\ CandidateAlgMatches(key, t.alg)
    BY <2>0, Zenon
  <2>3. /\ t.signer = key.material
        /\ t.wrong \cap {"exp", "nbf"} = {}
        /\ TakesAudience(entry.id, t)
    <3>1. NoClaim \notin Audiences[entry.id] /\ c.providerId = entry.id /\ c.key = key
      BY <2>2, ProvidersListed, Zenon
    <3> QED BY <2>1, <3>1, ConstraintsMean, Zenon
  <2>4. t.readable /\ AsymmetricAlg(t.alg)
    BY <1>3, Zenon DEF VerifyToken
  <2> QED BY <1>1, <1>2, <2>2, <2>3, <2>4, Zenon DEF Trusted
<1>4. ASSUME Trusted(d, t) PROVE VerifyToken(d, t)
  <2>1. PICK entry \in Range(d.entries) : \E key \in Jwks[entry.id] :
            /\ entry.id \in d.keys
            /\ TakesAudience(entry.id, t)
            /\ key.kid = t.kid /\ t.kid # "" /\ key.use \in {"", "sig"}
            /\ key.material = t.signer
            /\ t.alg \in DOMAIN AlgKeyType
            /\ key.alg \in {"", t.alg}
            /\ key.alg = "" => key.kty = AlgKeyType[t.alg]
    BY <1>4, Zenon DEF Trusted
  <2>2. PICK key \in Jwks[entry.id] :
            /\ key.kid = t.kid /\ t.kid # "" /\ key.use \in {"", "sig"}
            /\ key.material = t.signer
            /\ CandidateAlgMatches(key, t.alg) /\ AsymmetricAlg(t.alg)
    BY <1>2, <2>1, Zenon
  <2> DEFINE c == [providerId |-> entry.id, key |-> key]
  <2>3. c \in Matching(d, t)
    BY <2>1, <2>2, MatchingMeans, Zenon
  <2>4. t.readable /\ t.wrong \cap {"exp", "nbf"} = {}
    BY <1>1, <1>4, Zenon DEF Trusted
  <2>5. VerifyWithProviderConstraints(t, c)
    BY <2>1, <2>2, <2>4, ConstraintsMean, ProvidersListed, ZenonT(40)
  <2> QED BY <2>2, <2>3, <2>4, <2>5, Zenon DEF VerifyToken, SuccessfulVerifications
<1> QED BY <1>3, <1>4, Zenon DEF VerifyToken, Trusted

LEMMA AnsweredOnce ==
  ASSUME NEW d, NEW r \in Requests
  PROVE  Answered(d, r)
<1>1. PrimaryTokenError(d, r.subject) \notin {Conflict, ""}
  BY ReasonNamed, ReasonsReal, Zenon
<1>2. \A s, reason : Accept(s) # Reject(reason)
  BY Zenon DEF Accept, Reject
<1>3. \A a, b : Reject(a) = Reject(b) => a = b
  BY Zenon DEF Reject
<1>4. \/ \E s : Authenticate(d, r) = Accept(s)
      \/ Authenticate(d, r) = Reject(PrimaryTokenError(d, r.subject))
  BY AuthenticateValue, Zenon
<1> QED BY <1>1, <1>2, <1>3, <1>4, Zenon DEF Answered

LEMMA AcceptedRight ==
  ASSUME NEW d \in Documents, NEW r \in Requests
  PROVE  AcceptedRightly(d, r)
<1> DEFINE s == r.subject
           trusted == s.scheme = "bearer" /\ Trusted(d, s.token)
<1>1. Valid(d, s) <=> trusted
  BY SubjectTypes, VerifiedMeansTrusted, Zenon DEF Valid
<1>2. \A x, reason : Accept(x).authenticated /\ Accept(x).subject = x /\ ~Reject(reason).authenticated
  BY Zenon DEF Accept, Reject
<1>3. Authenticate(d, r).authenticated <=> trusted \/ (r.anonymous /\ s.scheme = "empty")
  BY <1>1, <1>2, AuthenticateValue
<1>4. ASSUME Authenticate(d, r).authenticated, ~trusted
      PROVE  Authenticate(d, r).subject.roles \cup Authenticate(d, r).subject.scopes = {}
  <2>1. Authenticate(d, r) = Accept(AnonymousSubject)
    BY <1>3, <1>4, AuthenticateValue, Zenon
  <2> QED BY <1>2, <2>1 DEF AnonymousSubject
<1> QED BY <1>3, <1>4, Zenon DEF AcceptedRightly

(* A signing key whose token is still refused, with nothing else wrong.    *)
LEMMA SignedYetRefused ==
  ASSUME NEW d \in Documents, NEW t \in Tokens, NEW c \in Matching(d, t),
         t.readable, ~VerifyToken(d, t), c.key.material = t.signer,
         ~HasError(d, t, 40), ~HasError(d, t, 90), ~HasError(d, t, 100),
         HasError(d, t, 140)
  PROVE  OddAudience(c.providerId, t)
<1> SUFFICES ASSUME ~OddAudience(c.providerId, t) PROVE FALSE
  BY Zenon
<1> DEFINE id == c.providerId
<1>1. /\ AsymmetricAlg(t.alg) /\ ~AudienceMissing(d, t) /\ ~AudienceInvalid(d, t)
      /\ ~ExpInPast(t) /\ ~NbfInFuture(t)
  BY DEF HasError
<1>2. id \in CandidateProviders(d, t)
  BY ZenonT(40) DEF CandidateProviders, Matching
<1>3. TakesAudience(id, t)
  <2>1. CASE t.aud = NoClaim
    BY <1>1, <1>2, <2>1, ZenonT(40) DEF TakesAudience, AudienceMissing, HasAud, ProviderAudiences
  <2>2. CASE t.aud # NoClaim
    BY <1>1, <1>2, <2>2, ZenonT(40) DEF TakesAudience, AudienceInvalid, OddAudience, HasAud,
       AudList, ProviderAudiences
  <2> QED BY <2>1, <2>2, Zenon
<1>4. t.wrong \cap {"exp", "nbf"} = {}
  BY <1>1, ZenonT(40) DEF ExpInPast, NbfInFuture
<1>5. NoClaim \notin Audiences[id]
  BY CandidateListed, ZenonT(40)
<1>6. VerifyWithProviderConstraints(t, c)
  BY <1>3, <1>4, <1>5, ConstraintsMean, ZenonT(40)
<1> QED BY <1>1, <1>6, ZenonT(40) DEF VerifyToken, SuccessfulVerifications

LEMMA BlamedRight ==
  ASSUME NEW d \in Documents, NEW r \in Requests
  PROVE  BlamedRightly(d, r)
<1> DEFINE s == r.subject
           t == s.token
           reason == PrimaryTokenError(d, s)
<1> SUFFICES ASSUME s.scheme = "bearer", ~Authenticate(d, r).authenticated
             PROVE  /\ reason = "TOKEN_SIGNATURE_INVALID" =>
                          \A c \in Matching(d, t) :
                              c.key.material = t.signer => OddAudience(c.providerId, t)
                    /\ reason # "TOKEN_READ_FAILED"
  BY Zenon DEF BlamedRightly
<1>1. t \in Tokens /\ t.readable \in BOOLEAN
  BY SubjectTypes, Zenon
<1>2. ~VerifyToken(d, t)
  <2>1. \A x : Accept(x).authenticated
    BY Zenon DEF Accept
  <2> QED BY <2>1, AuthenticateValue, Zenon DEF Valid
<1>3. CASE ~t.readable
  <2>1. reason = "TOKEN_FORMAT_INVALID"
    BY <1>3, PrimaryReason, Zenon
  <2> QED BY <2>1, Zenon
<1>4. CASE t.readable
  <2>1. PICK e \in TokenErrors(d, t) : reason = e[2] /\ \A f \in TokenErrors(d, t) : e[1] <= f[1]
    BY <1>2, <1>4, SomeError, PrimaryReason, Zenon DEF Decodes
  <2>2. e \in ErrorCodes /\ HasError(d, t, e[1])
    BY Zenon DEF TokenErrors
  <2>3. \A f \in ErrorCodes : f[2] # "TOKEN_READ_FAILED" /\ (f[2] = "TOKEN_SIGNATURE_INVALID" => f[1] = 140)
    BY DEF ErrorCodes
  <2>4. ASSUME e[1] = 140, NEW p \in {40, 90, 100} PROVE ~HasError(d, t, p)
    <3>1. PICK f \in ErrorCodes : f[1] = p
      BY Zenon DEF ErrorCodes
    <3>2. f \notin TokenErrors(d, t)
      BY <2>1, <2>4, <3>1
    <3> QED BY <3>1, <3>2, Zenon DEF TokenErrors
  <2>5. ASSUME reason = "TOKEN_SIGNATURE_INVALID", NEW c \in Matching(d, t), c.key.material = t.signer
        PROVE  OddAudience(c.providerId, t)
    <3>1. e[1] = 140
      BY <2>1, <2>2, <2>3, <2>5, ZenonT(40)
    <3> QED BY <1>1, <1>2, <1>4, <2>2, <2>4, <2>5, <3>1, SignedYetRefused, ZenonT(40)
  <2> QED BY <2>1, <2>2, <2>3, <2>5, Zenon
<1> QED BY <1>1, <1>3, <1>4, Zenon

(* Every request has one answer with a reason, over every document that    *)
(* the manager publishes: no two bodies of authenticate, or of the rule    *)
(* that names the reason, disagree.                                        *)
THEOREM RequestsAnswered == Spec => []OneAnswer
<1>1. ASSUME authn \in Documents PROVE OneAnswer
  BY <1>1, AnsweredOnce, Zenon DEF OneAnswer, Answering, When
<1> QED BY <1>1, AuthnInvariance, PTL DEF AuthnInv, AuthnTyped

(* A token is accepted if and only if a listed provider whose keys were    *)
(* fetched serves a key that signed it and takes its audience; no subject  *)
(* has roles or scopes without one.                                        *)
THEOREM TrustIsRight == Spec => []AcceptedMeansTrusted
<1>1. ASSUME authn \in Documents PROVE AcceptedMeansTrusted
  BY <1>1, AcceptedRight, Zenon DEF AcceptedMeansTrusted, Accepting, When
<1> QED BY <1>1, AuthnInvariance, PTL DEF AuthnInv, AuthnTyped

(* The reason of a rejection does not mislead.                             *)
THEOREM ReasonsTrue == Spec => []ReasonIsReal
<1>1. ASSUME authn \in Documents PROVE ReasonIsReal
  BY <1>1, BlamedRight, Zenon DEF ReasonIsReal, Blaming, When
<1> QED BY <1>1, AuthnInvariance, PTL DEF AuthnInv, AuthnTyped
=============================================================================
