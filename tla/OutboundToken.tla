---------------------------- MODULE OutboundToken ----------------------------
(***************************************************************************)
(* The outbound token (internal/token/outbound): Writer.Run obtains a      *)
(* token and keeps it in a file, FileSource.Run reads the file, and the    *)
(* requests of the transport use the token and ask Writer.Renew for a new  *)
(* one when a service refuses it.  The three talk through the file and     *)
(* through two channels of capacity one, renew and reload.                 *)
(*                                                                         *)
(* A token is its number in the order of issue and the time of its exp     *)
(* claim, or Never when it has none.  Time is a counter that may advance   *)
(* between any two steps: a goroutine can be late by any amount.           *)
(***************************************************************************)
EXTENDS Integers, FiniteSets

CONSTANTS
    Requests,      \* the goroutines that send requests that need the token
    Lifetimes,     \* what the provider may say of a token's lifetime
    Expiries,      \* how long after its issue a token's exp may be, or Never
    Never,         \* a token without an exp claim
    MinRenew,      \* minRenewInterval
    FirstBackoff,  \* Writer.firstBackoff
    MaxBackoff,    \* maxBackoff
    MinPause,      \* the second that renewal never goes below
    MaxTime,       \* bound on the clock
    MaxTokens      \* bound on the tokens issued

ASSUME TimesAssumption ==
    /\ Lifetimes \subseteq Nat
    /\ Expiries \subseteq Nat \cup {Never}
    /\ {MinRenew, FirstBackoff, MaxBackoff, MinPause, MaxTime, MaxTokens} \subseteq Nat
    /\ FirstBackoff <= MaxBackoff

ASSUME NeverAssumption == Never \notin Int

ASSUME RequestsAssumption == IsFiniteSet(Requests)

VARIABLES
    now,        \* the clock
    ended,      \* the context of the loops has ended
    file,       \* the token file
    renew,      \* Writer.renew holds a signal
    reload,     \* FileSource.reload holds a signal
    requested,  \* Writer.requested
    writer,     \* Writer.Run: its phase, backoff, pause, and the pause's end
    obtained,   \* the token of the request in progress
    issued,     \* tokens issued so far
    source,     \* FileSource.Run: its phase and what it has read
    token,      \* FileSource.token and expires
    ready,      \* FileSource.ready is closed
    request,    \* the phase of each request
    (***********************************************************************)
    (* Observations only: no step of the code reads these.                 *)
    (***********************************************************************)
    asked,      \* the request about to start was caused by Renew
    burst       \* requests Renew caused since the last gap of MinRenew

writerVars == <<requested, writer, obtained, issued, asked, burst>>
sourceVars == <<source, token, ready>>
vars == <<now, ended, file, renew, reload, request, writerVars, sourceVars>>

NoToken == [id |-> 0, expires |-> Never]
Unreadable == [id |-> -1, expires |-> Never]

(* FileSource.expired: the instant of the expiry is included, and the zero *)
(* time never expires.                                                     *)
Expired(t) == t.expires # Never /\ now >= t.expires

(* FileSource.Token returns a token to send.                               *)
HasToken == token # NoToken /\ ~Expired(token)

MaxOf(a, b) == IF a >= b THEN a ELSE b
MinOf(a, b) == IF a <= b THEN a ELSE b

(* renewal: 70% of the lifetime, and at least a second.                    *)
Renewal(lifetime) == MaxOf((lifetime * 7) \div 10, MinPause)

(* nextBackoff                                                             *)
NextBackoff(backoff) == MinOf(backoff * 2, MaxBackoff)

Init ==
    /\ now = 0
    /\ ended = FALSE
    /\ file = NoToken
    /\ renew = FALSE
    /\ reload = FALSE
    /\ requested = -MinRenew
    /\ writer = [phase |-> "start", backoff |-> FirstBackoff, pause |-> 0, until |-> 0]
    /\ obtained = NoToken
    /\ issued = 0
    /\ asked = FALSE
    /\ burst = 0
    /\ source = [phase |-> "read", content |-> NoToken]
    /\ token = NoToken
    /\ ready = FALSE
    /\ request = [r \in Requests |-> "idle"]

TimePasses ==
    /\ now < MaxTime
    /\ now' = now + 1
    /\ UNCHANGED <<ended, file, renew, reload, request, writerVars, sourceVars>>

(* The context of both loops ends, at shutdown.                            *)
End ==
    /\ ~ended
    /\ ended' = TRUE
    /\ UNCHANGED <<now, file, renew, reload, request, writerVars, sourceVars>>

-----------------------------------------------------------------------------
(* Writer.Run                                                              *)

WriterAt(phase) == writer.phase = phase
WriterGoto(phase) == writer' = [writer EXCEPT !.phase = phase]

CountBurst ==
    burst' = IF now - requested >= MinRenew THEN 0 ELSE IF asked THEN burst + 1 ELSE burst

(* Refresh begins by storing the time.                                     *)
Refresh ==
    /\ WriterAt("start")
    /\ requested' = now
    /\ CountBurst
    /\ WriterGoto("request")
    /\ UNCHANGED <<now, ended, file, renew, reload, request, obtained, issued, asked, sourceVars>>

(* The credentials are read and the provider answers with a token.  Its    *)
(* lifetime is what expires_in says; the exp claim is another matter.      *)
Obtain(lifetime, expiry) ==
    /\ WriterAt("request")
    /\ issued < MaxTokens
    /\ issued' = issued + 1
    /\ obtained' = [id |-> issued',
                    expires |-> IF expiry = Never THEN Never ELSE now + expiry]
    /\ writer' = [writer EXCEPT !.phase = "write", !.pause = Renewal(lifetime)]
    /\ UNCHANGED <<now, ended, file, renew, reload, request, requested, asked, burst, sourceVars>>

(* writeAtomically: the rename.                                            *)
WriteFile ==
    /\ WriterAt("write")
    /\ file' = obtained
    /\ WriterGoto("written")
    /\ UNCHANGED <<now, ended, renew, reload, request, requested, obtained, issued, asked, burst,
                   sourceVars>>

(* cfg.Written, which is FileSource.Reload: a send that never blocks.      *)
Written ==
    /\ WriterAt("written")
    /\ reload' = TRUE
    /\ writer' = [writer EXCEPT !.phase = "drain", !.backoff = FirstBackoff]
    /\ obtained' = NoToken
    /\ UNCHANGED <<now, ended, file, renew, request, requested, issued, asked, burst, sourceVars>>

(* Refresh fails: unreadable credentials, no usable answer, or no write.   *)
(* Run returns when the context has ended.                                 *)
RefreshFails ==
    /\ WriterAt("request") \/ WriterAt("write")
    /\ obtained' = NoToken
    /\ writer' = IF ended THEN [writer EXCEPT !.phase = "done"]
                 ELSE [writer EXCEPT !.phase = "drain", !.pause = writer.backoff,
                                     !.backoff = NextBackoff(writer.backoff)]
    /\ UNCHANGED <<now, ended, file, renew, reload, request, requested, issued, asked, burst,
                   sourceVars>>

(* "The request that just ended answers a Renew that came during it."      *)
(* The pause begins here.                                                  *)
Drain ==
    /\ WriterAt("drain")
    /\ renew' = FALSE
    /\ writer' = [writer EXCEPT !.phase = "wait", !.pause = 0, !.until = now + writer.pause]
    /\ UNCHANGED <<now, ended, file, reload, request, requested, obtained, issued, asked, burst,
                   sourceVars>>

(* sleep ends: the pause is over, or Renew has asked, or the context ends. *)
WakeUp == writer' = [writer EXCEPT !.phase = "start", !.until = 0]

PauseOver ==
    /\ WriterAt("wait")
    /\ now >= writer.until
    /\ asked' = FALSE
    /\ WakeUp
    /\ UNCHANGED <<now, ended, file, renew, reload, request, requested, obtained, issued, burst,
                   sourceVars>>

RenewIgnored ==
    /\ WriterAt("wait")
    /\ renew
    /\ now >= writer.until
    /\ renew' = FALSE
    /\ asked' = TRUE
    /\ WakeUp
    /\ UNCHANGED <<now, ended, file, reload, request, requested, obtained, issued, burst,
                   sourceVars>>

RenewAsked ==
    /\ WriterAt("wait")
    /\ renew
    /\ renew' = FALSE
    /\ asked' = TRUE
    /\ WakeUp
    /\ UNCHANGED <<now, ended, file, reload, request, requested, obtained, issued, burst,
                   sourceVars>>

WriterStops ==
    /\ WriterAt("wait")
    /\ ended
    /\ writer' = [writer EXCEPT !.phase = "done", !.until = 0]
    /\ UNCHANGED <<now, ended, file, renew, reload, request, requested, obtained, issued, asked,
                   burst, sourceVars>>

-----------------------------------------------------------------------------
(* FileSource.Run                                                          *)

SourceAt(phase) == source.phase = phase
SourceGoto(phase) == source' = [source EXCEPT !.phase = phase]
others == <<now, ended, file, renew, request, writerVars>>

(* A missing or empty file leaves the previous token in place.             *)
ReadFile ==
    /\ SourceAt("read")
    /\ source' = [phase |-> IF file = NoToken THEN "wait" ELSE "install", content |-> file]
    /\ UNCHANGED <<others, reload, token, ready>>

ReadErrorStops ==
    /\ SourceAt("read")
    /\ file # NoToken
    /\ source' = [phase |-> "done", content |-> Unreadable]
    /\ UNCHANGED <<others, reload, token, ready>>

(* The file exists and cannot be read.                                     *)
ReadFails ==
    /\ SourceAt("read")
    /\ file # NoToken
    /\ source' = [phase |-> "wait", content |-> Unreadable]
    /\ UNCHANGED <<others, reload, token, ready>>

ReadAnswersReload ==
    /\ SourceAt("install")
    /\ token' = source.content
    /\ reload' = FALSE
    /\ SourceGoto(IF source.content = token THEN "wait" ELSE "announce")
    /\ UNCHANGED <<others, ready>>

(* The token and its expiry are replaced under the lock.                   *)
Install ==
    /\ SourceAt("install")
    /\ token' = source.content
    /\ SourceGoto(IF source.content = token THEN "wait" ELSE "announce")
    /\ UNCHANGED <<others, reload, ready>>

(* A changed token that has not expired closes ready, once.                *)
Announce ==
    /\ SourceAt("announce")
    /\ ready' = (ready \/ ~Expired(source.content))
    /\ SourceGoto("wait")
    /\ UNCHANGED <<others, reload, token>>

(* select: the interval has passed, Reload has asked, or the context ends. *)
IntervalTick ==
    /\ SourceAt("wait")
    /\ SourceGoto("read")
    /\ UNCHANGED <<others, reload, token, ready>>

ReloadAsked ==
    /\ SourceAt("wait")
    /\ reload
    /\ reload' = FALSE
    /\ SourceGoto("read")
    /\ UNCHANGED <<others, token, ready>>

SourceStops ==
    /\ SourceAt("wait")
    /\ ended
    /\ SourceGoto("done")
    /\ UNCHANGED <<others, reload, token, ready>>

-----------------------------------------------------------------------------
(* transport.RoundTrip, for a request that Authorize accepts, and          *)
(* Writer.Renew, which runs on the goroutine of the request.               *)

RequestGoto(r, phase) == request' = [request EXCEPT ![r] = phase]
rest == <<now, ended, file, reload, writerVars, sourceVars>>

(* The request is sent with the token, or NoToken runs.                    *)
RoundTrip(r) ==
    /\ request[r] = "idle"
    /\ RequestGoto(r, IF HasToken THEN "sent" ELSE "renew")
    /\ UNCHANGED <<rest, renew>>

(* The service's answer, or an error; Unauthorized runs on a 401.          *)
Respond(r) ==
    /\ request[r] = "sent"
    /\ \E phase \in {"idle", "renew"} : RequestGoto(r, phase)
    /\ UNCHANGED <<rest, renew>>

(* Renew reads the time of the previous request ...                        *)
Renew(r) ==
    /\ request[r] = "renew"
    /\ RequestGoto(r, IF now - requested < MinRenew THEN "idle" ELSE "signal")
    /\ UNCHANGED <<rest, renew>>

(* ... and then sends, or finds a signal waiting.                          *)
RenewSignal(r) ==
    /\ request[r] = "signal"
    /\ renew' = TRUE
    /\ RequestGoto(r, "idle")
    /\ UNCHANGED rest

-----------------------------------------------------------------------------
WriterStep ==
    \/ Refresh
    \/ \E lifetime \in Lifetimes, expiry \in Expiries : Obtain(lifetime, expiry)
    \/ WriteFile
    \/ Written
    \/ RefreshFails
    \/ Drain
    \/ PauseOver
    \/ RenewAsked
    \/ WriterStops

SourceStep ==
    \/ ReadFile
    \/ ReadFails
    \/ Install
    \/ Announce
    \/ IntervalTick
    \/ ReloadAsked
    \/ SourceStops

RequestStep(r) == RoundTrip(r) \/ Respond(r) \/ Renew(r) \/ RenewSignal(r)

Next ==
    \/ TimePasses
    \/ End
    \/ WriterStep
    \/ SourceStep
    \/ \E r \in Requests : RequestStep(r)

Spec == Init /\ [][Next]_vars

(* Both loops are goroutines that run until the context ends.  A read that *)
(* is tried again and again succeeds some time.                            *)
FairSpec ==
    /\ Spec
    /\ WF_vars(WriterStep)
    /\ WF_vars(SourceStep)
    /\ SF_vars(ReadFile)

-----------------------------------------------------------------------------
Tokens == [id : Nat, expires : Nat \cup {Never}]

TypeOK ==
    /\ now \in Nat
    /\ ended \in BOOLEAN
    /\ file \in Tokens
    /\ renew \in BOOLEAN
    /\ reload \in BOOLEAN
    /\ requested \in Int
    /\ writer \in [phase : {"start", "request", "write", "written", "drain", "wait", "done"},
                   backoff : 0..MaxBackoff, pause : Nat, until : Nat]
    /\ obtained \in Tokens
    /\ issued \in 0..MaxTokens
    /\ source \in [phase : {"read", "install", "announce", "wait", "done"},
                   content : Tokens \cup {Unreadable}]
    /\ token \in Tokens
    /\ ready \in BOOLEAN
    /\ request \in [Requests -> {"idle", "sent", "renew", "signal"}]
    /\ asked \in BOOLEAN
    /\ burst \in Nat

(***************************************************************************)
(* No written token is missed: when FileSource.Run waits in its select     *)
(* with no Reload pending, it holds the token of the file, whatever the    *)
(* writer did while it was reading.  The exceptions are the instant before *)
(* Written runs and a file that could not be read.                         *)
(***************************************************************************)
NoLostReload ==
    SourceAt("wait") /\ ~reload /\ ~WriterAt("written") /\ source.content # Unreadable
        => token = file

(***************************************************************************)
(* A source that has a token to give, and is not in the middle of a read,  *)
(* has closed Ready: whoever waits for Ready is not left waiting by a      *)
(* first token that had already expired, or by one that expires early.     *)
(***************************************************************************)
ReadyWithToken ==
    SourceAt("wait") /\ HasToken => ready

(***************************************************************************)
(* The token requests that Renew causes within MinRenew of the previous    *)
(* request are never more than the goroutines that call it: the limit can  *)
(* be overrun once by each caller that checked it before that request.     *)
(***************************************************************************)
RenewBurstBounded == burst <= Cardinality(Requests)

(***************************************************************************)
(* A token the writer has put in the file is the token requests use, or is *)
(* replaced by a newer one, unless the context ends.                       *)
(***************************************************************************)
TokenReachesRequests ==
    \A id \in 1..MaxTokens : file.id = id ~> token.id = id \/ file.id > id \/ ended

(***************************************************************************)
(* A signal that Renew leaves while Writer.Run sleeps wakes it, however    *)
(* long its pause still is: the next request starts, unless the context    *)
(* ends.                                                                   *)
(***************************************************************************)
RenewWakesWriter ==
    renew /\ WriterAt("wait") ~> WriterAt("start") \/ ended
=============================================================================
