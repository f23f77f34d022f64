------------------------- MODULE OutboundTokenProofs -------------------------
(***************************************************************************)
(* The outbound token for any requests, lifetimes, backoffs and bounds: no *)
(* written token is missed, a source with a token to give has closed       *)
(* Ready, and Renew overruns its limit once per caller at most.            *)
(***************************************************************************)
EXTENDS OutboundToken, FiniteSetTheorems, TLAPS

(* What the source has read is the file, unless a Reload is pending or     *)
(* about to be, and once there is a file it stays.                         *)
ReadInv ==
    /\ WriterAt("write") => obtained # NoToken
    /\ token # NoToken => file # NoToken
    /\ SourceAt("install") \/ SourceAt("announce") =>
          source.content \in Tokens /\ file # NoToken
    /\ SourceAt("announce") => token = source.content
    /\ SourceAt("install") /\ ~reload /\ ~WriterAt("written") => source.content = file
    /\ SourceAt("announce") /\ ~reload /\ ~WriterAt("written") => token = file

(* Ready is behind only between Install and Announce.                      *)
ReadyInv == SourceAt("read") \/ SourceAt("install") \/ SourceAt("wait") => (HasToken => ready)

(* The callers that have found the limit passed and have not signalled.    *)
Signallers == {r \in Requests : request[r] = "signal"}

(* The signal, or the request, that counts as soon as it is served.        *)
Pending == IF (renew /\ WriterAt("wait")) \/ (asked /\ WriterAt("start")) THEN 1 ELSE 0

(* Within MinRenew of a request nobody joins the signallers, so what they  *)
(* have caused and can still cause is bounded by their number.             *)
BurstInv ==
    now - requested < MinRenew =>
        burst + Cardinality(Signallers) + Pending <= Cardinality(Requests)

IInv == TypeOK /\ ReadInv /\ ReadyInv /\ BurstInv /\ NoLostReload /\ RenewBurstBounded
-----------------------------------------------------------------------------
(* The numbers of renewal and nextBackoff.                                 *)
LEMMA PauseTypes ==
  /\ \A lifetime \in Lifetimes : Renewal(lifetime) \in Nat
  /\ \A backoff \in 0..MaxBackoff : NextBackoff(backoff) \in 0..MaxBackoff
BY TimesAssumption DEF Renewal, NextBackoff, MaxOf, MinOf

LEMMA Constants ==
  /\ MinRenew \in Nat /\ FirstBackoff \in Nat /\ MaxBackoff \in Nat
  /\ MinPause \in Nat /\ MaxTime \in Nat /\ MaxTokens \in Nat
  /\ FirstBackoff \in 0..MaxBackoff
BY TimesAssumption

(* The callers are finitely many, and so are the signallers among them.    *)
LEMMA Counts ==
  ASSUME NEW S \in SUBSET Requests
  PROVE  /\ IsFiniteSet(S) /\ Cardinality(S) \in Nat /\ Cardinality(Requests) \in Nat
         /\ Cardinality(S) <= Cardinality(Requests)
         /\ \A r \in S : Cardinality(S \ {r}) = Cardinality(S) - 1
BY RequestsAssumption, FS_Subset, FS_CardinalityType, FS_RemoveElement, Zenon

LEMMA NoTokens == NoToken \in Tokens /\ Unreadable \notin Tokens
BY DEF NoToken, Tokens, Unreadable

LEMMA TypeInit == Init => TypeOK
<1> SUFFICES ASSUME Init PROVE TypeOK BY Zenon
<1>1. -MinRenew \in Int /\ 0 \in 0..MaxTokens
  BY Constants
<1> QED BY <1>1, Constants, NoTokens, Zenon DEF Init, TypeOK

(* The types, one step per part of the system.  That an installed token is *)
(* one needs ReadInv.                                                      *)
LEMMA TypeStep == TypeOK /\ ReadInv /\ [Next]_vars => TypeOK'
<1> SUFFICES ASSUME TypeOK, ReadInv, [Next]_vars PROVE TypeOK' BY Zenon
<1> DEFINE W == [phase : {"start", "request", "write", "written", "drain", "wait", "done"},
                 backoff : 0..MaxBackoff, pause : Nat, until : Nat]
<1> DEFINE R == [phase : {"read", "install", "announce", "wait", "done"},
                 content : Tokens \cup {Unreadable}]
<1>w. writer \in W /\ source \in R /\ file \in Tokens /\ now \in Nat
  BY Zenon DEF TypeOK
<1> USE DEF writerVars, sourceVars
<1>1. CASE TimePasses
  BY <1>1 DEF TypeOK, TimePasses
<1>2. CASE End
  BY <1>2, ZenonT(40) DEF TypeOK, End
<1>3. CASE WriterStep
  <2> USE Constants, NoTokens DEF WriterAt, WriterGoto
  <2>1. CASE Refresh
    BY <2>1 DEF TypeOK, Refresh, CountBurst
  <2>2. ASSUME NEW lifetime \in Lifetimes, NEW expiry \in Expiries, Obtain(lifetime, expiry)
        PROVE  TypeOK'
    <3>1. obtained' \in Tokens
      BY <1>w, <2>2, TimesAssumption, NeverAssumption DEF TypeOK, Obtain, Tokens
    <3>2. writer' \in W
      BY <1>w, <2>2, PauseTypes, Zenon DEF Obtain
    <3> QED BY <2>2, <3>1, <3>2 DEF TypeOK, Obtain
  <2>3. CASE WriteFile
    BY <2>3, Zenon DEF TypeOK, WriteFile
  <2>4. CASE Written
    <3>1. writer' \in W
      BY <1>w, <2>4, Zenon DEF Written
    <3> QED BY <2>4, <3>1, Zenon DEF TypeOK, Written
  <2>5. CASE RefreshFails
    <3>1. writer' \in W
      <4>1. writer.backoff \in Nat /\ NextBackoff(writer.backoff) \in 0..MaxBackoff
        BY <1>w, PauseTypes
      <4>2. CASE ended
        BY <1>w, <2>5, <4>2, Zenon DEF RefreshFails
      <4>3. CASE ~ended
        <5>1. writer' = [writer EXCEPT !.phase = "drain", !.pause = writer.backoff,
                                       !.backoff = NextBackoff(writer.backoff)]
          BY <2>5, <4>3, Zenon DEF RefreshFails
        <5> QED BY <1>w, <4>1, <5>1, Zenon
      <4> QED BY <4>2, <4>3, Zenon
    <3> QED BY <2>5, <3>1, Zenon DEF TypeOK, RefreshFails
  <2>6. CASE Drain
    <3>a. now + writer.pause \in Nat
      BY <1>w
    <3>b. writer' = [writer EXCEPT !.phase = "wait", !.pause = 0, !.until = now + writer.pause]
      BY <2>6, Zenon DEF Drain
    <3>1. writer' \in W
      BY <1>w, <3>a, <3>b, Zenon
    <3> QED BY <2>6, <3>1, Zenon DEF TypeOK, Drain
  <2>7. CASE PauseOver \/ RenewAsked \/ WriterStops
    <3>1. writer' \in W
      <4>1. PICK phase \in {"start", "done"} :
                writer' = [writer EXCEPT !.phase = phase, !.until = 0]
        BY <2>7, Zenon DEF PauseOver, RenewAsked, WriterStops, WakeUp
      <4> QED BY <1>w, <4>1, Zenon
    <3> QED BY <2>7, <3>1, Zenon DEF TypeOK, PauseOver, RenewAsked, WriterStops
  <2> QED BY <1>3, <2>1, <2>2, <2>3, <2>4, <2>5, <2>6, <2>7, Zenon DEF WriterStep
<1>4. CASE SourceStep
  <2> USE DEF SourceAt, SourceGoto, others
  <2>1. CASE ReadFile \/ ReadFails
    <3>1. source' \in R
      BY <2>1 DEF TypeOK, ReadFile, ReadFails
    <3> QED BY <2>1, <3>1, Zenon DEF TypeOK, ReadFile, ReadFails
  <2>2. CASE Install
    <3>1. source.content \in Tokens
      BY <2>2, Zenon DEF ReadInv, Install
    <3>2. source' \in R
      BY <1>w, <2>2, Zenon DEF Install
    <3> QED BY <2>2, <3>1, <3>2, Zenon DEF TypeOK, Install
  <2>3. CASE Announce
    BY <2>3, Zenon DEF TypeOK, Announce
  <2>4. CASE IntervalTick \/ ReloadAsked \/ SourceStops
    BY <2>4, Zenon DEF TypeOK, IntervalTick, ReloadAsked, SourceStops
  <2> QED BY <1>4, <2>1, <2>2, <2>3, <2>4, Zenon DEF SourceStep
<1>5. ASSUME NEW r \in Requests, RequestStep(r)
      PROVE  TypeOK'
  BY <1>5, Zenon DEF TypeOK, RequestStep, RoundTrip, Respond, Renew, RenewSignal, RequestGoto,
     rest
<1>6. CASE UNCHANGED vars
  BY <1>6 DEF TypeOK, vars
<1> QED BY <1>1, <1>2, <1>3, <1>4, <1>5, <1>6, Zenon DEF Next

-----------------------------------------------------------------------------
(* The phase that each step of the writer leaves it in.                    *)
LEMMA WriterPhase ==
  ASSUME TypeOK
  PROVE  /\ Refresh => writer'.phase = "request"
         /\ \A lifetime \in Lifetimes, expiry \in Expiries :
               Obtain(lifetime, expiry) => writer'.phase = "write"
         /\ WriteFile => writer'.phase = "written"
         /\ Written => writer'.phase = "drain"
         /\ RefreshFails => writer'.phase \in {"done", "drain"}
         /\ Drain => writer'.phase = "wait"
         /\ PauseOver \/ RenewAsked => writer'.phase = "start"
         /\ WriterStops => writer'.phase = "done"
<1> USE DEF TypeOK, WriterGoto, WakeUp
<1>1. Refresh => writer'.phase = "request"
  BY Zenon DEF Refresh
<1>2. ASSUME NEW lifetime \in Lifetimes, NEW expiry \in Expiries, Obtain(lifetime, expiry)
      PROVE  writer'.phase = "write"
  BY <1>2, Zenon DEF Obtain
<1>3. WriteFile => writer'.phase = "written"
  BY Zenon DEF WriteFile
<1>4. Written => writer'.phase = "drain"
  BY Zenon DEF Written
<1>5. RefreshFails => writer'.phase \in {"done", "drain"}
  BY Zenon DEF RefreshFails
<1>6. Drain => writer'.phase = "wait"
  BY Zenon DEF Drain
<1>7. PauseOver \/ RenewAsked => writer'.phase = "start"
  BY Zenon DEF PauseOver, RenewAsked
<1>8. WriterStops => writer'.phase = "done"
  BY Zenon DEF WriterStops
<1> QED BY <1>1, <1>2, <1>3, <1>4, <1>5, <1>6, <1>7, <1>8, Zenon

(* A step that leaves the file, the source and the channel alone.          *)
LEMMA ReadUntouched ==
  ASSUME ReadInv, NoLostReload, UNCHANGED <<file, token, source, reload>>,
         WriterAt("written") => WriterAt("written")',
         WriterAt("write")' => obtained' # NoToken
  PROVE  ReadInv' /\ NoLostReload'
BY Zenon DEF ReadInv, NoLostReload, SourceAt

LEMMA ReadWriter ==
  ASSUME TypeOK, ReadInv, NoLostReload, WriterStep
  PROVE  ReadInv' /\ NoLostReload'
<1> USE WriterPhase DEF WriterAt, writerVars, sourceVars
<1>1. CASE Refresh \/ RefreshFails \/ Drain \/ PauseOver \/ RenewAsked \/ WriterStops
  <2>1. UNCHANGED <<file, token, source, reload>>
    BY <1>1, Zenon DEF Refresh, RefreshFails, Drain, PauseOver, RenewAsked, WriterStops
  <2>2. ~WriterAt("written") /\ ~WriterAt("write")'
    BY <1>1, ZenonT(40) DEF Refresh, RefreshFails, Drain, PauseOver, RenewAsked, WriterStops
  <2> QED BY <2>1, <2>2, ReadUntouched, Zenon
<1>2. ASSUME NEW lifetime \in Lifetimes, NEW expiry \in Expiries, Obtain(lifetime, expiry)
      PROVE  ReadInv' /\ NoLostReload'
  <2>1. UNCHANGED <<file, token, source, reload>> /\ ~WriterAt("written")
    BY <1>2, Zenon DEF Obtain
  <2>2. obtained' # NoToken
    <3>1. obtained'.id = issued + 1
      BY <1>2, Zenon DEF Obtain
    <3>2. issued + 1 # 0
      BY Constants DEF TypeOK
    <3> QED BY <3>1, <3>2 DEF NoToken
  <2> QED BY <2>1, <2>2, ReadUntouched, Zenon
<1>3. CASE WriteFile
  <2>1. file' = obtained /\ obtained # NoToken /\ UNCHANGED <<token, source, reload>>
    BY <1>3, Zenon DEF WriteFile, ReadInv
  <2> QED BY <1>3, <2>1, Zenon DEF ReadInv, NoLostReload, SourceAt
<1>4. CASE Written
  <2>1. reload' = TRUE /\ UNCHANGED <<file, token, source>>
    BY <1>4, Zenon DEF Written
  <2> QED BY <1>4, <2>1, Zenon DEF ReadInv, NoLostReload, SourceAt
<1> QED BY <1>1, <1>2, <1>3, <1>4, Zenon DEF WriterStep

LEMMA ReadSource ==
  ASSUME TypeOK, ReadInv, NoLostReload, SourceStep
  PROVE  ReadInv' /\ NoLostReload'
<1>0. UNCHANGED <<file, obtained, writer>> /\ source.phase # "done" /\ file \in Tokens
  BY Zenon DEF TypeOK, SourceStep, ReadFile, ReadFails, Install, Announce, IntervalTick,
         ReloadAsked, SourceStops, SourceAt, others, writerVars
<1> USE <1>0 DEF ReadInv, NoLostReload, SourceAt, WriterAt, SourceGoto
<1>1. CASE ReadFile
  BY <1>1, NoTokens, Zenon DEF ReadFile
<1>2. CASE ReadFails
  BY <1>2, Zenon DEF ReadFails
<1>3. CASE Install
  <2>1. /\ token' = source.content
        /\ source'.phase = (IF source.content = token THEN "wait" ELSE "announce")
        /\ source'.content = source.content
        /\ reload' = reload
    BY <1>3, Zenon DEF Install, TypeOK
  <2> QED BY <1>3, <2>1 DEF Install
<1>4. CASE Announce
  <2>1. source'.phase = "wait" /\ UNCHANGED <<token, reload>>
    BY <1>4, Zenon DEF Announce, TypeOK
  <2> QED BY <1>4, <2>1 DEF Announce
<1>5. CASE IntervalTick \/ ReloadAsked \/ SourceStops
  <2>1. source'.phase \in {"read", "done"} /\ UNCHANGED token
    BY <1>5, Zenon DEF IntervalTick, ReloadAsked, SourceStops, TypeOK
  <2> QED BY <1>5, <2>1, Zenon
<1> QED BY <1>1, <1>2, <1>3, <1>4, <1>5, Zenon DEF SourceStep

LEMMA ReadStep == TypeOK /\ ReadInv /\ NoLostReload /\ [Next]_vars => ReadInv' /\ NoLostReload'
<1> SUFFICES ASSUME TypeOK, ReadInv, NoLostReload, [Next]_vars
             PROVE  ReadInv' /\ NoLostReload'
  BY Zenon
<1>1. CASE WriterStep
  BY <1>1, ReadWriter, Zenon
<1>2. CASE SourceStep
  BY <1>2, ReadSource, Zenon
<1>3. CASE TimePasses \/ End \/ (\E r \in Requests : RequestStep(r)) \/ UNCHANGED vars
  <2>1. UNCHANGED <<file, token, source, reload, writer, obtained>>
    BY <1>3, Zenon DEF TimePasses, End, RequestStep, RoundTrip, Respond, Renew, RenewSignal,
                rest, vars, writerVars, sourceVars
  <2> QED BY <2>1, ReadUntouched, Zenon DEF WriterAt, ReadInv
<1> QED BY <1>1, <1>2, <1>3, Zenon DEF Next

-----------------------------------------------------------------------------
(* A token that is not replaced only comes nearer to its expiry.           *)
LEMMA TokenAges ==
  ASSUME TypeOK, UNCHANGED token, now' \in Nat, now' >= now, HasToken'
  PROVE  HasToken
BY NeverAssumption DEF TypeOK, HasToken, Expired, Tokens

LEMMA ReadyStep == TypeOK /\ ReadInv /\ ReadyInv /\ [Next]_vars => ReadyInv'
<1> SUFFICES ASSUME TypeOK, ReadInv, ReadyInv, [Next]_vars PROVE ReadyInv' BY Zenon
<1> USE DEF ReadyInv, SourceAt, SourceGoto
<1>1. CASE TimePasses \/ End \/ WriterStep \/ (\E r \in Requests : RequestStep(r)) \/ UNCHANGED vars
  <2>1. UNCHANGED <<source, token, ready>>
    BY <1>1, Zenon DEF TimePasses, End, RequestStep, RoundTrip, Respond, Renew, RenewSignal,
                rest, vars, writerVars, sourceVars, WriterStep, Refresh, Obtain, WriteFile,
                Written, RefreshFails, Drain, PauseOver, RenewAsked, WriterStops
  <2>2. now' = now \/ now' = now + 1
    BY <1>1, Zenon DEF TimePasses, End, RequestStep, RoundTrip, Respond, Renew, RenewSignal,
                rest, vars, WriterStep, Refresh, Obtain, WriteFile, Written, RefreshFails,
                Drain, PauseOver, RenewAsked, WriterStops
  <2>3. now' \in Nat /\ now' >= now
    BY <2>2 DEF TypeOK
  <2> QED BY <2>1, <2>3, TokenAges, Zenon
<1>2. CASE SourceStep
  <2>0. UNCHANGED now /\ now \in Nat
    BY <1>2, Zenon DEF SourceStep, ReadFile, ReadFails, Install, Announce, IntervalTick,
                ReloadAsked, SourceStops, others, TypeOK
  <2>1. CASE ReadFile \/ ReadFails \/ IntervalTick \/ ReloadAsked \/ SourceStops
    <3>1. UNCHANGED <<token, ready>> /\ source.phase \in {"read", "wait"}
      BY <2>1, Zenon DEF ReadFile, ReadFails, IntervalTick, ReloadAsked, SourceStops
    <3> QED BY <2>0, <3>1, TokenAges
  <2>2. CASE Install
    <3>1. /\ token' = source.content
          /\ source'.phase = (IF source.content = token THEN "wait" ELSE "announce")
          /\ UNCHANGED ready
      BY <2>2, Zenon DEF Install, TypeOK
    <3>2. CASE source.content = token
      BY <2>0, <2>2, <3>1, <3>2, TokenAges DEF Install
    <3>3. CASE source.content # token
      BY <3>1, <3>3, Zenon
    <3> QED BY <3>2, <3>3, Zenon
  <2>3. CASE Announce
    <3>1. token' = source.content /\ ready' = (ready \/ ~Expired(source.content))
      BY <2>3, Zenon DEF Announce, ReadInv
    <3> QED BY <2>0, <3>1, Zenon DEF HasToken, Expired
  <2> QED BY <1>2, <2>1, <2>2, <2>3, Zenon DEF SourceStep
<1> QED BY <1>1, <1>2, Zenon DEF Next
-----------------------------------------------------------------------------
(* Counts, for the signallers of the present state.                        *)
LEMMA SignallerCounts ==
  ASSUME TypeOK
  PROVE  /\ Cardinality(Signallers) \in Nat /\ Cardinality(Requests) \in Nat
         /\ Cardinality(Signallers) <= Cardinality(Requests)
         /\ \A r \in Signallers : Cardinality(Signallers \ {r}) = Cardinality(Signallers) - 1
         /\ Pending \in {0, 1}
<1>1. Signallers \in SUBSET Requests
  BY Zenon DEF Signallers
<1>2. Pending \in {0, 1}
  BY Zenon DEF Pending
<1> QED BY <1>1, <1>2, Counts, Zenon

LEMMA BurstWriter ==
  ASSUME TypeOK, BurstInv, RenewBurstBounded, WriterStep
  PROVE  BurstInv' /\ RenewBurstBounded'
<1>0. UNCHANGED <<now, request>> /\ Signallers' = Signallers
  BY Zenon DEF WriterStep, Refresh, Obtain, WriteFile, Written, RefreshFails, Drain, PauseOver,
         RenewAsked, WriterStops, Signallers
<1>1. now \in Nat /\ requested \in Int /\ burst \in Nat /\ MinRenew \in Nat
  BY Constants, Zenon DEF TypeOK
<1> USE <1>0, <1>1, SignallerCounts, WriterPhase DEF BurstInv, RenewBurstBounded, WriterAt
<1>2. CASE Refresh
  <2>1. Pending' = 0 /\ requested' = now
    BY <1>2, Zenon DEF Pending, Refresh
  <2>2. CASE now - requested >= MinRenew
    <3>1. burst' = 0
      BY <1>2, <2>2, Zenon DEF Refresh, CountBurst
    <3> QED BY <2>1, <3>1
  <2>3. CASE ~(now - requested >= MinRenew)
    <3>1. burst' = burst + Pending
      BY <1>2, <2>3 DEF Refresh, CountBurst, Pending
    <3> QED BY <2>1, <2>3, <3>1
  <2> QED BY <2>2, <2>3, Zenon
<1>3. CASE RenewAsked
  <2>1. Pending' = 1 /\ Pending = 1 /\ UNCHANGED <<requested, burst>>
    BY <1>3, Zenon DEF Pending, RenewAsked
  <2> QED BY <2>1, Zenon
<1>4. ASSUME NEW lifetime \in Lifetimes, NEW expiry \in Expiries, Obtain(lifetime, expiry)
      PROVE  BurstInv' /\ RenewBurstBounded'
  <2>1. Pending' = 0 /\ UNCHANGED <<requested, burst>>
    BY <1>4, Zenon DEF Pending, Obtain
  <2> QED BY <2>1
<1>5. CASE WriteFile \/ Written \/ RefreshFails \/ Drain \/ PauseOver \/ WriterStops
  <2>1. UNCHANGED <<requested, burst>>
    BY <1>5, Zenon DEF WriteFile, Written, RefreshFails, Drain, PauseOver, WriterStops
  <2>2. Pending' = 0
    BY <1>5, ZenonT(40) DEF Pending, WriteFile, Written, RefreshFails, Drain, PauseOver, WriterStops
  <2> QED BY <2>1, <2>2
<1> QED BY <1>2, <1>3, <1>4, <1>5, ZenonT(40) DEF WriterStep

LEMMA BurstRequest ==
  ASSUME TypeOK, BurstInv, RenewBurstBounded, NEW r \in Requests, RequestStep(r)
  PROVE  BurstInv' /\ RenewBurstBounded'
<1>0. UNCHANGED <<now, requested, burst, writer, asked>>
  BY Zenon DEF RequestStep, RoundTrip, Respond, Renew, RenewSignal, rest, writerVars
<1>1. now \in Nat /\ requested \in Int /\ burst \in Nat /\ MinRenew \in Nat
  BY Constants, Zenon DEF TypeOK
<1> USE <1>0, <1>1, SignallerCounts DEF BurstInv, RenewBurstBounded
<1>2. CASE RoundTrip(r) \/ Respond(r) \/ (Renew(r) /\ now - requested < MinRenew)
  <2>1. Signallers' = Signallers
    BY <1>2, Zenon DEF Signallers, RoundTrip, Respond, Renew, RequestGoto, TypeOK
  <2>2. Pending' = Pending
    BY <1>2 DEF Pending, WriterAt, RoundTrip, Respond, Renew
  <2> QED BY <2>1, <2>2, Zenon
<1>3. CASE ~(now - requested < MinRenew)
  BY <1>3, Zenon
<1>4. CASE RenewSignal(r)
  <2>1. Signallers' = Signallers \ {r} /\ r \in Signallers
    BY <1>4, Zenon DEF Signallers, RenewSignal, RequestGoto, TypeOK
  <2>2. Pending' \in {0, 1}
    BY Zenon DEF Pending
  <2> QED BY <2>1, <2>2
<1> QED BY <1>2, <1>3, <1>4, Zenon DEF RequestStep

LEMMA BurstStep ==
  TypeOK /\ BurstInv /\ RenewBurstBounded /\ [Next]_vars => BurstInv' /\ RenewBurstBounded'
<1> SUFFICES ASSUME TypeOK, BurstInv, RenewBurstBounded, [Next]_vars
             PROVE  BurstInv' /\ RenewBurstBounded'
  BY Zenon
<1>1. CASE WriterStep
  BY <1>1, BurstWriter, Zenon
<1>2. CASE \E r \in Requests : RequestStep(r)
  BY <1>2, BurstRequest, Zenon
<1>3. CASE TimePasses \/ End \/ SourceStep \/ UNCHANGED vars
  <2>1. /\ UNCHANGED <<requested, burst, writer, asked, renew, request>>
        /\ now' = now \/ now' = now + 1
    BY <1>3, Zenon DEF TimePasses, End, SourceStep, ReadFile, ReadFails, Install, Announce,
                IntervalTick, ReloadAsked, SourceStops, others, writerVars, vars
  <2>2. Signallers' = Signallers /\ Pending' = Pending
    BY <2>1, Zenon DEF Signallers, Pending, WriterAt
  <2>3. now \in Nat /\ requested \in Int /\ MinRenew \in Nat
    BY Constants, Zenon DEF TypeOK
  <2> QED BY <2>1, <2>2, <2>3 DEF BurstInv, RenewBurstBounded
<1> QED BY <1>1, <1>2, <1>3, Zenon DEF Next
-----------------------------------------------------------------------------
LEMMA Initially == Init => IInv
<1> SUFFICES ASSUME Init PROVE IInv BY Zenon
<1>1. TypeOK
  BY TypeInit, Zenon
<1>2. ReadInv /\ ReadyInv /\ NoLostReload
  BY Zenon DEF Init, ReadInv, ReadyInv, NoLostReload, WriterAt, SourceAt, HasToken
<1>3. now - requested >= MinRenew /\ burst = 0
  BY Constants DEF Init
<1>4. BurstInv /\ RenewBurstBounded
  BY <1>1, <1>3, Constants, SignallerCounts DEF BurstInv, RenewBurstBounded, TypeOK
<1> QED BY <1>1, <1>2, <1>4, Zenon DEF IInv

LEMMA Invariance == Spec => []IInv
<1>1. IInv /\ [Next]_vars => IInv'
  BY TypeStep, ReadStep, ReadyStep, BurstStep, Zenon DEF IInv
<1> QED BY Initially, <1>1, PTL DEF Spec

(* TypeOK holds for any constants, the arithmetic of the pauses and of the *)
(* backoff included.                                                       *)
THEOREM TypeCorrect == Spec => []TypeOK
BY Invariance, PTL DEF IInv

(* FileSource.Run never waits for a Reload with another token than the     *)
(* file's, whatever the writer wrote while it read.                        *)
THEOREM NoWriteMissed == Spec => []NoLostReload
BY Invariance, PTL DEF IInv

(* FileSource.Run has closed Ready whenever it waits with a token to give. *)
THEOREM ReadyIsClosed == Spec => []ReadyWithToken
<1>1. IInv => ReadyWithToken
  BY Zenon DEF IInv, ReadyInv, ReadyWithToken
<1> QED BY Invariance, <1>1, PTL

(* Renew's check-then-send overruns the limit at most once per caller.     *)
THEOREM RenewLimited == Spec => []RenewBurstBounded
BY Invariance, PTL DEF IInv
=============================================================================
