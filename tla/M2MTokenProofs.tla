--------------------------- MODULE M2MTokenProofs ---------------------------
(***************************************************************************)
(* The m2m token source for any tokens, lifetimes, margins and delays: the *)
(* holder and the store agree, readiness means a token, and the renewal    *)
(* begins while the token lives.                                           *)
(***************************************************************************)
EXTENDS M2MToken, TLAPS

(* The token on its way.  It is absent outside a turn and in a file's      *)
(* look; a request's is one that the provider issued, and has lost no more *)
(* of its life than the request has taken.                                 *)
AnswerInv ==
    /\ pc = "sleep" => answer = NoAnswer /\ spent = 0
    /\ FromFile => spent = 0
    /\ pc = "fetch" /\ FromFile => answer = NoAnswer
    /\ pc = "fetch" /\ answer # NoAnswer =>
          /\ answer.token \in Tokens
          /\ answer.life \in Lifetimes
          /\ answer.left + spent >= answer.life
    /\ pc \in {"put", "hold", "ready"} => answer.token \in Tokens

(* publish: the store, then the holder, have the token on its way.         *)
PublishInv ==
    /\ pc = "hold" => store = answer.token
    /\ pc = "ready" => token = answer.token /\ store = answer.token /\ left = answer.left

(* The wait that is to follow is no longer than the token's life.          *)
MarginInv ==
    ~FromFile /\ MarginsCoverDelay /\ pc \in {"put", "hold", "ready"} =>
        Renewal(answer.life) <= answer.left

IInv == TypeOK /\ AnswerInv /\ PublishInv /\ MarginInv /\ HeldIsStored /\ ReadyMeansToken
        /\ RenewsInTime
-----------------------------------------------------------------------------
(* The wait of renewal: a natural number that leaves any margin which      *)
(* RenewBefore and half of the lifetime both cover.                        *)
LEMMA RenewalMargin ==
  ASSUME NEW life \in Nat
  PROVE  /\ Renewal(life) \in Nat
         /\ \A margin \in Nat :
               margin <= RenewBefore /\ 2 * margin <= life /\ margin + Second <= life
                  => Renewal(life) + margin <= life
<1> DEFINE S == {life - RenewBefore, life \div 2, Second}
<1> USE M2MAssumption
<1>1. RenewBefore \in Nat /\ Second \in Nat \ {0} /\ life \div 2 \in Nat /\ 2 * (life \div 2) <= life
  OBVIOUS
<1>2. \E x \in S : \A y \in S : x >= y
  <2>1. \A a, b, c \in Int : \E x \in {a, b, c} : \A y \in {a, b, c} : x >= y
    OBVIOUS
  <2> QED BY <1>1, <2>1
<1>3. Renewal(life) \in S /\ \A y \in S : Renewal(life) >= y
  BY <1>2, Zenon DEF Renewal, Max
<1>4. Renewal(life) \in Nat
  BY <1>1, <1>3
<1>5. ASSUME NEW margin \in Nat, margin <= RenewBefore, 2 * margin <= life, margin + Second <= life
      PROVE  Renewal(life) + margin <= life
  BY <1>1, <1>3, <1>4, <1>5
<1> QED BY <1>4, <1>5, Zenon

(* The backoff stays within its bounds, and grows while it can.            *)
LEMMA BackoffBound ==
  ASSUME backoff \in InitialBackoff..MaxBackoff
  PROVE  /\ NextBackoff \in InitialBackoff..MaxBackoff
         /\ InitialBackoff < MaxBackoff => NextBackoff # InitialBackoff
<1> DEFINE S == {2 * backoff, MaxBackoff}
<1> USE M2MAssumption
<1>1. InitialBackoff \in Nat \ {0} /\ MaxBackoff \in Nat /\ backoff \in Nat
  OBVIOUS
<1>2. \E x \in S : \A y \in S : x <= y
  <2>1. \A a, b \in Int : \E x \in {a, b} : \A y \in {a, b} : x <= y
    OBVIOUS
  <2> QED BY <1>1, <2>1
<1>3. NextBackoff \in S /\ \A y \in S : NextBackoff <= y
  BY <1>2, Zenon DEF NextBackoff, Min
<1> QED BY <1>1, <1>3
-----------------------------------------------------------------------------
(* Init establishes the inductive invariant.                               *)
LEMMA InitInv == Init => IInv
<1> SUFFICES ASSUME Init PROVE IInv
  BY Zenon
<1> USE M2MAssumption DEF Init, NoAnswer, Answer
<1>1. TypeOK
  <2>1. file \in Tokens \cup {None}
    BY Zenon
  <2>2. answer \in [token : Tokens \cup {None}, life : Nat, left : Nat]
    BY Zenon
  <2>3. backoff \in InitialBackoff..MaxBackoff /\ spent \in 0..MaxDelay /\ edits \in 0..MaxEdits
    OBVIOUS
  <2>4. ready \in BOOLEAN /\ source \in Sources
    BY Zenon
  <2> HIDE DEF NoAnswer, Answer
  <2> QED BY <2>1, <2>2, <2>3, <2>4, SMT DEF TypeOK
<1>2. AnswerInv /\ PublishInv /\ HeldIsStored /\ ReadyMeansToken
  BY Zenon DEF AnswerInv, PublishInv, HeldIsStored, ReadyMeansToken
<1>3. MarginInv /\ RenewsInTime
  BY Zenon DEF MarginInv, RenewsInTime, AfterSuccess
<1> QED BY <1>1, <1>2, <1>3, Zenon DEF IInv

(* A retry, in the middle of a turn that did not end in publish, keeps the *)
(* inductive invariant: it changes no token, and the grown backoff says    *)
(* that the wait is not one that follows a success.                        *)
LEMMA RetryInv ==
  ASSUME IInv, ~FromFile, pc \in {"fetch", "put"}, Retry
  PROVE  IInv'
<1> USE M2MAssumption DEF Retry, NoAnswer, Answer, FromFile
<1>0. TypeOK
  BY Zenon DEF IInv
<1>1. NextBackoff \in InitialBackoff..MaxBackoff /\ (InitialBackoff < MaxBackoff => NextBackoff # InitialBackoff)
  BY <1>0, BackoffBound, Zenon DEF TypeOK
<1>2. TypeOK'
  <2>1. answer' \in [token : Tokens \cup {None}, life : Nat, left : Nat] /\ sleep' \in Nat
    BY <1>0 DEF TypeOK
  <2> QED BY <1>0, <1>1, <2>1 DEF TypeOK
<1>3. AnswerInv' /\ PublishInv' /\ MarginInv'
  BY Zenon DEF AnswerInv, PublishInv, MarginInv
<1>4. HeldIsStored' /\ ReadyMeansToken'
  BY Zenon DEF IInv, HeldIsStored, ReadyMeansToken
<1>5. RenewsInTime'
  BY <1>1, Zenon DEF RenewsInTime, AfterSuccess
<1> QED BY <1>2, <1>3, <1>4, <1>5, Zenon DEF IInv

(* Every step keeps the inductive invariant.                               *)
LEMMA StepInv == IInv /\ [Next]_vars => IInv'
<1> SUFFICES ASSUME IInv, [Next]_vars PROVE IInv'
  BY Zenon
<1> USE M2MAssumption DEF FromFile
<1>0. TypeOK /\ AnswerInv /\ PublishInv /\ MarginInv /\ HeldIsStored /\ ReadyMeansToken /\ RenewsInTime
  BY Zenon DEF IInv
<1>1. CASE Tick
  <2>1. answer' = [answer EXCEPT !.left = Less(@)] /\ answer'.token = answer.token
        /\ answer'.life = answer.life /\ answer'.left = Less(answer.left) /\ Less(answer.left) \in Nat
        /\ Less(left) \in Nat /\ Less(sleep) \in Nat
    BY <1>0, <1>1 DEF Tick, TypeOK, Less
  <2>2. TypeOK'
    BY <1>0, <1>1, <2>1 DEF Tick, TypeOK
  <2>3. answer = NoAnswer => answer' = NoAnswer
    BY <1>0, <1>1, <2>1 DEF NoAnswer, Answer, Less, TypeOK, Tick
  <2>4. AnswerInv'
    <3>1. CASE pc = "sleep"
      BY <1>0, <1>1, <2>3, <3>1, Zenon DEF AnswerInv, Tick
    <3>2. CASE pc = "fetch"
      <4>1. answer' # NoAnswer =>
               answer'.token \in Tokens /\ answer'.life \in Lifetimes /\ answer'.left + spent' >= answer'.life
        BY <1>0, <1>1, <2>1, <2>3, <3>2 DEF AnswerInv, Tick, Less, TypeOK
      <4> QED BY <1>1, <3>2, <4>1, Zenon DEF AnswerInv, Tick
    <3> QED BY <1>1, <3>1, <3>2, Zenon DEF Tick
  <2>5. PublishInv' /\ MarginInv' /\ HeldIsStored' /\ ReadyMeansToken'
    BY <1>0, <1>1, Zenon DEF Tick, PublishInv, MarginInv, HeldIsStored, ReadyMeansToken
  <2>6. RenewsInTime'
    BY <1>0, <1>1, <2>1 DEF Tick, RenewsInTime, AfterSuccess, Less, TypeOK
  <2> QED BY <2>2, <2>4, <2>5, <2>6, Zenon DEF IInv
<1>2. CASE Rewrite
  <2>1. TypeOK'
    BY <1>0, <1>2 DEF Rewrite, TypeOK
  <2>2. AnswerInv' /\ PublishInv' /\ MarginInv' /\ HeldIsStored' /\ ReadyMeansToken' /\ RenewsInTime'
    BY <1>0, <1>2, Zenon DEF Rewrite, AnswerInv, PublishInv, MarginInv, HeldIsStored,
                      ReadyMeansToken, RenewsInTime, AfterSuccess
  <2> QED BY <2>1, <2>2, Zenon DEF IInv
<1>3. CASE Issue
  <2>1. PICK t \in Tokens \ {token}, life \in Lifetimes : answer' = Answer(t, life)
    BY <1>3, Zenon DEF Issue
  <2>2. answer' \in [token : Tokens \cup {None}, life : Nat, left : Nat]
        /\ answer'.token = t /\ answer'.life = life /\ answer'.left = life
    BY <2>1, Zenon DEF Answer
  <2>3. TypeOK'
    BY <1>0, <1>3, <2>2, Zenon DEF Issue, TypeOK
  <2>4. AnswerInv'
    BY <1>0, <1>3, <2>2 DEF Issue, AnswerInv, TypeOK
  <2>5. PublishInv' /\ MarginInv' /\ HeldIsStored' /\ ReadyMeansToken' /\ RenewsInTime'
    BY <1>0, <1>3, Zenon DEF Issue, PublishInv, MarginInv, HeldIsStored, ReadyMeansToken,
       RenewsInTime
  <2> QED BY <2>3, <2>4, <2>5, Zenon DEF IInv
<1>4. CASE Arrive
  <2>0. answer.token \in Tokens /\ answer.life \in Lifetimes /\ answer.left + spent >= answer.life
    BY <1>0, <1>4, Zenon DEF AnswerInv, Arrive
  <2>1. PICK life \in {answer.life, answer.left} : answer' = [answer EXCEPT !.life = life]
    BY <1>4, Zenon DEF Arrive
  <2>2. answer' \in [token : Tokens \cup {None}, life : Nat, left : Nat]
        /\ answer'.token = answer.token /\ answer'.life = life /\ answer'.left = answer.left
    BY <1>0, <2>1, Zenon DEF TypeOK
  <2>3. TypeOK'
    BY <1>0, <1>4, <2>2, Zenon DEF Arrive, TypeOK
  <2>4. AnswerInv'
    BY <1>4, <2>0, <2>2, Zenon DEF Arrive, AnswerInv
  <2>5. ASSUME MarginsCoverDelay
        PROVE  Renewal(life) <= answer.left
    <3>1. spent \in Nat /\ spent <= MaxDelay /\ MaxDelay \in Nat /\ answer.life \in Nat /\ answer.left \in Nat
          /\ RenewBefore \in Nat /\ Second \in Nat /\ life \in Nat
      BY <1>0, <2>0 DEF TypeOK
    <3>2. RenewBefore >= MaxDelay /\ answer.life >= 2 * MaxDelay /\ answer.life >= MaxDelay + Second
      BY <2>0, <2>5, Zenon DEF MarginsCoverDelay
    <3>3. CASE life = answer.life
      <4>1. spent <= RenewBefore /\ 2 * spent <= life /\ spent + Second <= life
        BY <3>1, <3>2, <3>3
      <4>2. Renewal(life) \in Nat /\ Renewal(life) + spent <= life
        BY <3>1, <4>1, RenewalMargin, Zenon
      <4> QED BY <2>0, <3>1, <3>3, <4>2
    <3>4. CASE life = answer.left
      <4>1. 0 <= RenewBefore /\ 2 * 0 <= life /\ 0 + Second <= life /\ 0 \in Nat
        BY <2>0, <3>1, <3>2, <3>4
      <4>2. Renewal(life) \in Nat /\ Renewal(life) + 0 <= life
        BY <3>1, <4>1, RenewalMargin, Zenon
      <4> QED BY <3>1, <3>4, <4>2
    <3> QED BY <3>3, <3>4, Zenon
  <2>6. MarginInv'
    BY <1>4, <2>2, <2>5, Zenon DEF MarginInv, MarginsCoverDelay, Renewal
  <2>7. PublishInv' /\ HeldIsStored' /\ ReadyMeansToken' /\ RenewsInTime'
    BY <1>0, <1>4, Zenon DEF Arrive, PublishInv, HeldIsStored, ReadyMeansToken, RenewsInTime
  <2> QED BY <2>3, <2>4, <2>6, <2>7, Zenon DEF IInv
<1>5. CASE FetchFails
  BY <1>5, RetryInv, Zenon DEF FetchFails
<1>6. CASE CheckFile
  <2>1. CASE file \in {None, hash}
    BY <1>0, <1>6, <2>1, Zenon DEF CheckFile, IInv, TypeOK, AnswerInv, PublishInv, MarginInv,
       HeldIsStored, ReadyMeansToken, RenewsInTime, AfterSuccess
  <2>2. CASE file \notin {None, hash}
    <3>1. answer' \in [token : Tokens \cup {None}, life : Nat, left : Nat] /\ answer'.token = file
          /\ file \in Tokens
      BY <1>0, <1>6, <2>2 DEF CheckFile, Answer, TypeOK
    <3>2. TypeOK'
      BY <1>0, <1>6, <2>2, <3>1, Zenon DEF CheckFile, TypeOK
    <3>3. AnswerInv' /\ PublishInv' /\ MarginInv' /\ HeldIsStored' /\ ReadyMeansToken' /\ RenewsInTime'
      BY <1>0, <1>6, <2>2, <3>1, Zenon DEF CheckFile, AnswerInv, PublishInv, MarginInv,
         HeldIsStored, ReadyMeansToken, RenewsInTime
    <3> QED BY <3>2, <3>3, Zenon DEF IInv
  <2> QED BY <2>1, <2>2, Zenon
<1>6a. CASE ReadFails
  BY <1>0, <1>6a, Zenon DEF ReadFails, IInv, TypeOK, AnswerInv, PublishInv, MarginInv,
     HeldIsStored, ReadyMeansToken, RenewsInTime, AfterSuccess
<1>7. CASE Put
  <2>1. TypeOK'
    BY <1>0, <1>7, Zenon DEF Put, TypeOK
  <2>2. AnswerInv' /\ PublishInv' /\ HeldIsStored' /\ ReadyMeansToken' /\ RenewsInTime'
    BY <1>0, <1>7, Zenon DEF Put, AnswerInv, PublishInv, HeldIsStored, ReadyMeansToken,
       RenewsInTime
  <2>3. MarginInv'
    BY <1>0, <1>7, Zenon DEF Put, MarginInv, MarginsCoverDelay, Renewal
  <2> QED BY <2>1, <2>2, <2>3, Zenon DEF IInv
<1>8. CASE PutFails
  <2>1. CASE ~FromFile
    BY <1>8, <2>1, RetryInv, Zenon DEF PutFails
  <2>2. CASE FromFile
    <3>1. TypeOK'
      BY <1>0, <1>8, <2>2 DEF PutFails, TypeOK, NoAnswer, Answer
    <3>2. AnswerInv' /\ PublishInv' /\ MarginInv' /\ HeldIsStored' /\ ReadyMeansToken' /\ RenewsInTime'
      BY <1>0, <1>8, <2>2 DEF PutFails, AnswerInv, PublishInv, MarginInv, HeldIsStored,
         ReadyMeansToken, RenewsInTime
    <3> QED BY <3>1, <3>2, Zenon DEF IInv
  <2> QED BY <2>1, <2>2, Zenon
<1>9. CASE Hold
  <2>1. TypeOK'
    BY <1>0, <1>9, Zenon DEF Hold, TypeOK
  <2>2. AnswerInv' /\ PublishInv' /\ HeldIsStored' /\ ReadyMeansToken' /\ RenewsInTime'
    BY <1>0, <1>9, Zenon DEF Hold, AnswerInv, PublishInv, HeldIsStored, ReadyMeansToken,
       RenewsInTime
  <2>3. MarginInv'
    BY <1>0, <1>9, Zenon DEF Hold, MarginInv, MarginsCoverDelay, Renewal
  <2> QED BY <2>1, <2>2, <2>3, Zenon DEF IInv
<1>10. CASE Published
  <2>0. answer.token \in Tokens /\ token = answer.token /\ store = answer.token /\ left = answer.left
        /\ answer.life \in Nat
    BY <1>0, <1>10, Zenon DEF Published, AnswerInv, PublishInv, TypeOK
  <2>1. Renewal(answer.life) \in Nat
    BY <2>0, RenewalMargin, Zenon
  <2>2. TypeOK'
    <3>1. answer' \in [token : Tokens \cup {None}, life : Nat, left : Nat]
      BY <1>10, Zenon DEF Published, NoAnswer, Answer
    <3>2. sleep' \in Nat /\ backoff' \in InitialBackoff..MaxBackoff /\ hash' \in Tokens \cup {None}
      BY <1>0, <1>10, <2>0, <2>1 DEF Published, TypeOK
    <3> QED BY <1>0, <1>10, <3>1, <3>2 DEF Published, TypeOK
  <2>3. AnswerInv' /\ PublishInv' /\ MarginInv' /\ HeldIsStored' /\ ReadyMeansToken'
    BY <1>10, <2>0, Zenon DEF Published, AnswerInv, PublishInv, MarginInv, HeldIsStored,
       ReadyMeansToken
  <2>4. RenewsInTime'
    BY <1>0, <1>10, <2>0, Zenon DEF Published, MarginInv, RenewsInTime, MarginsCoverDelay
  <2> QED BY <2>2, <2>3, <2>4, Zenon DEF IInv
<1>11. CASE Wake \/ Stop \/ UNCHANGED vars
  <2>1. TypeOK'
    BY <1>0, <1>11, Zenon DEF Wake, Stop, vars, TypeOK
  <2>2. AnswerInv' /\ PublishInv' /\ HeldIsStored' /\ ReadyMeansToken'
    BY <1>0, <1>11 DEF Wake, Stop, vars, AnswerInv, PublishInv, HeldIsStored, ReadyMeansToken
  <2>3. MarginInv' /\ RenewsInTime'
    BY <1>0, <1>11, Zenon DEF Wake, Stop, vars, MarginInv, RenewsInTime, MarginsCoverDelay,
       AfterSuccess, Renewal
  <2> QED BY <2>1, <2>2, <2>3, Zenon DEF IInv
<1> QED BY <1>1, <1>2, <1>3, <1>4, <1>5, <1>6, <1>6a, <1>7, <1>8, <1>9, <1>10, <1>11, Zenon DEF Next,
   Run
-----------------------------------------------------------------------------
(* The inductive invariant holds in every behaviour of the source.         *)
THEOREM Inductive == Spec => []IInv
  BY InitInv, StepInv, PTL DEF Spec

(* The state keeps its type, whatever fails and however long it takes; the *)
(* backoff stays between InitialBackoff and MaxBackoff.                    *)
THEOREM TypeCorrect == Spec => []TypeOK
<1>1. IInv => TypeOK
  BY Zenon DEF IInv
<1> QED BY <1>1, Inductive, PTL

(* Token() and data.m2m agree but between the two writes of publish.       *)
THEOREM HolderAgrees == Spec => []HeldIsStored
<1>1. IInv => HeldIsStored
  BY Zenon DEF IInv
<1> QED BY <1>1, Inductive, PTL

(* Whoever waited for Ready() finds a token.                               *)
THEOREM ReadyHasToken == Spec => []ReadyMeansToken
<1>1. IInv => ReadyMeansToken
  BY Zenon DEF IInv
<1> QED BY <1>1, Inductive, PTL

(* The wait of renewal ends while the token lives, for every lifetime,     *)
(* RenewBefore and delay for which the margins cover the delay.            *)
THEOREM RenewalInTime == Spec => []RenewsInTime
<1>1. IInv => RenewsInTime
  BY Zenon DEF IInv
<1> QED BY <1>1, Inductive, PTL
=============================================================================
