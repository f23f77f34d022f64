------------------------------ MODULE M2MToken ------------------------------
(***************************************************************************)
(* The token that the agent presents to other services (internal/m2m): one *)
(* goroutine fetches it with client credentials, or reads it from a file,  *)
(* puts it into the store as data.m2m and then holds it for Token(); it    *)
(* sleeps until the renewal, a retry or the next look at the file.         *)
(*                                                                         *)
(* Time is counted down: `sleep` is what is left of the wait and `left`    *)
(* what is left of the held token's life.  Local steps and timers take no  *)
(* time; a request may take up to MaxDelay, the client's timeout.          *)
(***************************************************************************)
EXTENDS Integers, FiniteSetsExt

CONSTANTS
    Sources,          \* the sources to choose from: "credentials", "file"
    Tokens,           \* the tokens
    None,             \* no token, no answer, an absent file or an empty one
    Lifetimes,        \* the lifetimes that the provider gives
    RenewBefore,
    InitialBackoff,
    MaxBackoff,
    Second,           \* the least wait
    MaxDelay,         \* bound on the duration of a request
    MaxEdits          \* bound on the changes of the file

ASSUME M2MAssumption ==
    /\ Sources \subseteq {"credentials", "file"}
    /\ None \notin Tokens
    /\ Lifetimes \subseteq Nat
    /\ {RenewBefore, MaxDelay, MaxEdits} \subseteq Nat
    /\ {InitialBackoff, MaxBackoff, Second} \subseteq Nat \ {0}
    /\ InitialBackoff <= MaxBackoff

VARIABLES
    pc,        \* the step of Run's goroutine
    spent,     \* the time that the request under way has taken
    answer,    \* the token on its way: the request's answer or the file's content
    sleep,     \* what is left of the wait
    backoff,
    store,     \* data.m2m.bearerToken
    token,     \* Source.token
    left,      \* what is left of the held token's life
    ready,     \* Source.ready is closed
    file,      \* the content of the token file
    hash,      \* Source.hash
    edits,     \* the number of changes of the file
    source     \* which source Config selects

vars == <<pc, spent, answer, sleep, backoff, store, token, left, ready, file, hash, edits,
          source>>

FromFile == source = "file"

Answer(t, life) == [token |-> t, life |-> life, left |-> life]
NoAnswer == Answer(None, 0)

Init ==
    /\ pc = "fetch"
    /\ spent = 0
    /\ answer = NoAnswer
    /\ sleep = 0
    /\ backoff = InitialBackoff
    /\ store = None
    /\ token = None
    /\ left = 0
    /\ ready = FALSE
    /\ source \in Sources
    /\ file \in IF FromFile THEN Tokens \cup {None} ELSE {None}
    /\ hash = None
    /\ edits = 0

-----------------------------------------------------------------------------
(* The environment: the clock, and the file's owner.                       *)
Less(n) == IF n = 0 THEN 0 ELSE n - 1

Tick ==
    /\ ~FromFile
    /\ \/ pc = "sleep" /\ sleep > 0 /\ UNCHANGED spent
       \/ pc = "fetch" /\ spent < MaxDelay /\ spent' = spent + 1
    /\ sleep' = Less(sleep)
    /\ left' = Less(left)
    /\ answer' = [answer EXCEPT !.left = Less(@)]
    /\ UNCHANGED <<pc, backoff, store, token, ready, file, hash, edits, source>>

Rewrite ==
    /\ FromFile
    /\ edits < MaxEdits
    /\ file' \in (Tokens \cup {None}) \ {file}
    /\ edits' = edits + 1
    /\ UNCHANGED <<pc, spent, answer, sleep, backoff, store, token, left, ready, hash, source>>

-----------------------------------------------------------------------------
(* Client credentials.  The provider issues a token, and its answer        *)
(* arrives later.                                                          *)
Issue ==
    /\ ~FromFile
    /\ pc = "fetch"
    /\ answer = NoAnswer
    /\ \E t \in Tokens \ {token}, life \in Lifetimes : answer' = Answer(t, life)
    /\ UNCHANGED <<pc, spent, sleep, backoff, store, token, left, ready, file, hash, edits, source>>

(* fetchToken takes the lifetime from expires_in, which is what the        *)
(* provider gave, or from the exp claim, which is what is left of it.      *)
Arrive ==
    /\ ~FromFile
    /\ pc = "fetch"
    /\ answer # NoAnswer
    /\ \E life \in {answer.life, answer.left} : answer' = [answer EXCEPT !.life = life]
    /\ pc' = "put"
    /\ UNCHANGED <<spent, sleep, backoff, store, token, left, ready, file, hash, edits, source>>

NextBackoff == Min({2 * backoff, MaxBackoff})

(* A fetch that failed, at whichever of its steps, is retried after the    *)
(* backoff.                                                                *)
Retry ==
    /\ pc' = "sleep"
    /\ sleep' = backoff
    /\ backoff' = NextBackoff
    /\ spent' = 0
    /\ answer' = NoAnswer
    /\ UNCHANGED <<store, token, left, ready, file, hash, edits, source>>

FetchFails == ~FromFile /\ pc = "fetch" /\ Retry

(* renewal                                                                 *)
AtExpiry(life) == Max({life, Second})
FixedMargin(life) == life - 2 * Second
Renewal(life) == Max({life - RenewBefore, life \div 2, Second})

-----------------------------------------------------------------------------
(* checkFile reads the file once; an absent or empty file and an unchanged *)
(* token end it.                                                           *)
CheckFile ==
    /\ FromFile
    /\ pc = "fetch"
    /\ IF file \in {None, hash}
       THEN pc' = "sleep" /\ UNCHANGED answer
       ELSE pc' = "put" /\ answer' = Answer(file, 0)
    /\ UNCHANGED <<spent, sleep, backoff, store, token, left, ready, file, hash, edits, source>>

(* The read fails, though the file is there: the next turn tries again.    *)
(* Where there is no new token to read this is what CheckFile does anyway. *)
ReadFails ==
    /\ FromFile
    /\ pc = "fetch"
    /\ file \notin {None, hash}
    /\ pc' = "sleep"
    /\ UNCHANGED <<spent, answer, sleep, backoff, store, token, left, ready, file, hash, edits, source>>

-----------------------------------------------------------------------------
(* publish: the store first, then the token, then the readiness.           *)
Put ==
    /\ pc = "put"
    /\ store' = answer.token
    /\ pc' = "hold"
    /\ UNCHANGED <<spent, answer, sleep, backoff, token, left, ready, file, hash, edits, source>>

HashAnyway ==
    /\ pc = "put"
    /\ FromFile
    /\ pc' = "sleep" /\ answer' = NoAnswer
    /\ hash' = answer.token
    /\ UNCHANGED <<spent, sleep, backoff, store, token, left, ready, file, edits, source>>
PutFails ==
    /\ pc = "put"
    /\ \/ ~FromFile /\ Retry
       \/ /\ FromFile
          /\ pc' = "sleep" /\ answer' = NoAnswer
          /\ UNCHANGED <<spent, sleep, backoff, store, token, left, ready, file, hash, edits, source>>

Hold ==
    /\ pc = "hold"
    /\ token' = answer.token
    /\ left' = answer.left
    /\ pc' = "ready"
    /\ UNCHANGED <<spent, answer, sleep, backoff, store, ready, file, hash, edits, source>>

(* The end of publish, and of runClientCredentials' or checkFile's turn.   *)
Published ==
    /\ pc = "ready"
    /\ ready' = TRUE
    /\ pc' = "sleep"
    /\ answer' = NoAnswer
    /\ spent' = 0
    /\ IF FromFile
       THEN hash' = answer.token /\ UNCHANGED <<sleep, backoff>>
       ELSE sleep' = Renewal(answer.life) /\ backoff' = InitialBackoff /\ UNCHANGED hash
    /\ UNCHANGED <<store, token, left, file, edits, source>>

(* The wait is over, or the file's ticker fires.                           *)
Wake ==
    /\ pc = "sleep"
    /\ sleep = 0
    /\ pc' = "fetch"
    /\ UNCHANGED <<spent, answer, sleep, backoff, store, token, left, ready, file, hash, edits, source>>

(* ctx ends: between two turns, or under a request.                        *)
Stop ==
    /\ pc \in {"sleep", "fetch"}
    /\ pc' = "done"
    /\ UNCHANGED <<spent, answer, sleep, backoff, store, token, left, ready, file, hash, edits, source>>

Run == \/ Issue \/ Arrive \/ FetchFails \/ CheckFile \/ ReadFails
       \/ Put \/ PutFails \/ Hold \/ Published \/ Wake

Next == Tick \/ Rewrite \/ Run \/ Stop

Spec == Init /\ [][Next]_vars

(* Time passes, timers fire, and the client's timeout ends a request.      *)
FairSpec == Spec /\ WF_vars(Run) /\ WF_vars(Tick)

-----------------------------------------------------------------------------
TypeOK ==
    /\ pc \in {"fetch", "put", "hold", "ready", "sleep", "done"}
    /\ spent \in 0..MaxDelay
    /\ answer \in [token : Tokens \cup {None}, life : Nat, left : Nat]
    /\ sleep \in Nat
    /\ backoff \in InitialBackoff..MaxBackoff
    /\ store \in Tokens \cup {None}
    /\ token \in Tokens \cup {None}
    /\ left \in Nat
    /\ ready \in BOOLEAN
    /\ file \in Tokens \cup {None}
    /\ hash \in Tokens \cup {None}
    /\ edits \in 0..MaxEdits
    /\ source \in Sources

(***************************************************************************)
(* The token that Token() hands out is the one that policies read in       *)
(* data.m2m, but for the moment between the two writes of publish, in      *)
(* which the store is ahead; a put that fails changes neither.             *)
(***************************************************************************)
HeldIsStored == token # store => pc = "hold" /\ store = answer.token

(***************************************************************************)
(* Whoever waited for Ready() finds a token, then and ever after: neither  *)
(* failed requests nor an emptied file take it away.                       *)
(***************************************************************************)
ReadyMeansToken == ready => token # None

(***************************************************************************)
(* The renewal begins while the held token lives, although the wait counts *)
(* from the arrival of the answer and the token's life from its issue: the *)
(* wait that follows a success is over before the token is, if RenewBefore *)
(* and half of every lifetime cover the duration of a request.             *)
(***************************************************************************)
MarginsCoverDelay ==
    /\ RenewBefore >= MaxDelay
    /\ \A life \in Lifetimes : life >= 2 * MaxDelay /\ life >= MaxDelay + Second
AfterSuccess == token # None /\ backoff = InitialBackoff /\ InitialBackoff < MaxBackoff

RenewsInTime ==
    ~FromFile /\ MarginsCoverDelay /\ pc = "sleep" /\ AfterSuccess => sleep <= left

(***************************************************************************)
(* Once requests no longer fail, the held token is never out of date: the  *)
(* renewal begins early enough that the next token arrives while this one  *)
(* lives, however the delays of the two requests fall.  It takes a         *)
(* RenewBefore, and a half of every lifetime, of more than two delays.     *)
(***************************************************************************)
TokenStaysAlive ==
    <>[][~FetchFails /\ ~PutFails]_vars => <>[](left > 0 \/ FromFile) \/ <>(pc = "done")

(***************************************************************************)
(* A token that stays in the file comes to be both stored and held, even   *)
(* if a read or a put failed when it was new.                              *)
(***************************************************************************)
FileFollowed ==
    \A t \in Tokens :
        <>[](file = t) /\ <>[][~PutFails /\ ~ReadFails]_vars =>
            <>[](token = t /\ store = t) \/ <>(pc = "done")
=============================================================================
