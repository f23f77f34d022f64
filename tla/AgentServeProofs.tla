-------------------------- MODULE AgentServeProofs --------------------------
(***************************************************************************)
(* The agent's surfaces, for any sequence of them and any number of        *)
(* requests in their handlers: an exit code that reports a failure tells   *)
(* the truth, and nothing serves after serve has returned.                 *)
(***************************************************************************)
EXTENDS AgentServe, TLAPS

NoneStarted == \A s \in Names : listener[s] = "none"

(* Where main is says what has happened before it got there.               *)
MainInv ==
    /\ main = "bind" => NoneStarted /\ ~failed /\ \A s \in Names : socket[s] # "closed"
    /\ main \in {"shutdown", "drain", "join"} => ctxDone
    /\ main = "drain" => next <= Len(Surfaces)
    /\ main = "join" => \A s \in Names : socket[s] = "closed"

(* A goroutine that has an error, or deals with it as a failure, has one   *)
(* of its own unless the context has ended: a socket is closed only then,  *)
(* or before any goroutine was started.                                    *)
FailureInv ==
    /\ (\E s \in Names : socket[s] = "closed") => ctxDone \/ NoneStarted
    /\ \A s \in Names : listener[s] = "error" => ctxDone \/ crashed # {}
    /\ \A s \in Names : listener[s] \in {"fail", "stop"} => crashed # {}
    /\ failed => crashed # {} \/ NoneStarted

IInv == TypeOK /\ MainInv /\ FailureInv /\ NothingServesAfterReturn
-----------------------------------------------------------------------------
(* The name of the surface that main deals with next.                      *)
LEMMA NextName ==
  ASSUME next \in 1..(Len(Surfaces) + 1), next <= Len(Surfaces)
  PROVE  Surfaces[next] \in Names
BY ServeAssumption DEF Names, Range

LEMMA Initially == Init => IInv
<1> SUFFICES ASSUME Init PROVE IInv BY Zenon
<1>1. 1 \in 1..(Len(Surfaces) + 1) /\ 0 \in 0..MaxHandlers
  BY ServeAssumption
<1>2. TypeOK
  BY <1>1, Zenon DEF Init, TypeOK
<1>3. MainInv /\ FailureInv /\ NothingServesAfterReturn
  BY Zenon DEF Init, MainInv, FailureInv, NoneStarted, NothingServesAfterReturn
<1> QED BY <1>2, <1>3, Zenon DEF IInv

(* The steps of main before the surfaces serve.                            *)
LEMMA BindSteps == IInv /\ (Bind \/ BindFails \/ Start) => IInv'
<1> SUFFICES ASSUME IInv, Bind \/ BindFails \/ Start PROVE IInv' BY Zenon
<1>0. Len(Surfaces) \in Nat
  BY ServeAssumption
<1> USE DEF IInv, TypeOK, MainInv, FailureInv, NoneStarted, NothingServesAfterReturn
<1>1. CASE Bind
  <2>1. Surfaces[next] \in Names
    BY <1>1, NextName, Zenon DEF Bind
  <2> QED BY <1>0, <1>1, <2>1 DEF Bind
<1>2. CASE BindFails
  BY <1>0, <1>2, Zenon DEF BindFails
<1>3. CASE Start
  BY <1>0, <1>3 DEF Start
<1> QED BY <1>1, <1>2, <1>3, Zenon

(* The steps of main after the context has ended.                          *)
LEMMA ShutdownSteps ==
  IInv /\ (ContextEnds \/ Shutdown \/ Drained \/ CloseSockets \/ Return) => IInv'
<1> SUFFICES ASSUME IInv, ContextEnds \/ Shutdown \/ Drained \/ CloseSockets \/ Return
             PROVE  IInv'
  BY Zenon
<1>0. Len(Surfaces) \in Nat
  BY ServeAssumption
<1> USE DEF IInv, TypeOK, MainInv, FailureInv, NoneStarted, NothingServesAfterReturn
<1>1. CASE ContextEnds
  BY <1>0, <1>1, Zenon DEF ContextEnds
<1>2. CASE Shutdown
  <2>1. Surfaces[next] \in Names
    BY <1>2, NextName, Zenon DEF Shutdown
  <2> QED BY <1>0, <1>2, <2>1, Zenon DEF Shutdown
<1>3. CASE Drained
  BY <1>0, <1>3 DEF Drained
<1>4. CASE CloseSockets
  BY <1>0, <1>4, Zenon DEF CloseSockets
<1>5. CASE Return
  BY <1>0, <1>5, Zenon DEF Return
<1> QED BY <1>1, <1>2, <1>3, <1>4, <1>5, Zenon

(* The steps of a surface's goroutine, and of its requests.                *)
LEMMA SurfaceSteps ==
  ASSUME IInv, NEW s \in Names, Listen(s) \/ ListenerBreaks(s) \/ Enter(s) \/ Leave(s)
  PROVE  IInv'
<1> USE DEF IInv, TypeOK, MainInv, FailureInv, NoneStarted, NothingServesAfterReturn
<1>1. CASE Serve(s)
  BY <1>1, Zenon DEF Serve
<1>2. CASE ListenerReturns(s)
  BY <1>2, Zenon DEF ListenerReturns
<1>3. CASE CheckError(s)
  BY <1>3, Zenon DEF CheckError
<1>4. CASE Fail(s)
  BY <1>4, Zenon DEF Fail
<1>5. CASE StopRest(s)
  BY <1>5, Zenon DEF StopRest
<1>6. CASE ListenerBreaks(s)
  BY <1>6, Zenon DEF ListenerBreaks
<1>7. CASE Enter(s)
  BY <1>7, ServeAssumption DEF Enter
<1>8. CASE Leave(s)
  BY <1>8, ServeAssumption DEF Leave
<1> QED BY <1>1, <1>2, <1>3, <1>4, <1>5, <1>6, <1>7, <1>8, Zenon DEF Listen

LEMMA Inductive == IInv /\ [Next]_vars => IInv'
<1> SUFFICES ASSUME IInv, [Next]_vars PROVE IInv' BY Zenon
<1>1. CASE Main \/ BindFails
  BY <1>1, BindSteps, ShutdownSteps, Zenon DEF Main
<1>2. CASE Signal
  BY <1>2, Zenon DEF Signal, IInv, TypeOK, MainInv, FailureInv, NoneStarted,
     NothingServesAfterReturn
<1>3. CASE \E s \in Names : Listen(s) \/ ListenerBreaks(s) \/ Enter(s) \/ Leave(s)
  BY <1>3, SurfaceSteps, Zenon
<1>4. CASE UNCHANGED vars
  BY <1>4, Zenon DEF vars, IInv, TypeOK, MainInv, FailureInv, NoneStarted,
     NothingServesAfterReturn
<1> QED BY <1>1, <1>2, <1>3, <1>4, Zenon DEF Next

LEMMA Invariance == Spec => []IInv
BY Initially, Inductive, PTL DEF Spec

(* TypeOK holds for any surfaces: every flag, socket and step has one of   *)
(* its values, and main never deals with a surface beyond the last.        *)
THEOREM TypeCorrect == Spec => []TypeOK
BY Invariance, PTL DEF IInv

(* serve returns failed only when a surface ended on its own before the    *)
(* context did, or when a socket could not be bound.                       *)
THEOREM ExitCodeTrue == Spec => []FailureIsReal
<1>1. IInv => FailureIsReal
  BY Zenon DEF IInv, FailureInv, NoneStarted, FailureIsReal
<1> QED BY Invariance, <1>1, PTL

(* serve returns when every socket is closed and every goroutine has       *)
(* ended.                                                                  *)
THEOREM ReturnLeavesNothing == Spec => []NothingServesAfterReturn
BY Invariance, PTL DEF IInv
=============================================================================
