----------------------------- MODULE AgentServe -----------------------------
(***************************************************************************)
(* The agent's two HTTP surfaces from their start to the end of the        *)
(* process (serve and serveUntilShutdown in main.go).  Every surface has a *)
(* goroutine that serves its socket; the main goroutine waits for the      *)
(* context, which a signal or a surface that ended on its own ends, shuts  *)
(* the surfaces down one after the other, closes their sockets and waits   *)
(* for the goroutines.                                                     *)
(***************************************************************************)
EXTENDS Integers, Sequences, SequencesExt

CONSTANTS
    Surfaces,       \* the surfaces in their order: a sequence of names
    MaxHandlers     \* bound on the requests in a surface's handlers

ASSUME ServeAssumption == Surfaces \in Seq(STRING) /\ MaxHandlers \in Nat

VARIABLES
    ctxDone,     \* the signal context has ended
    socket,      \* "unbound", "open" or "closed"
    listener,    \* the step of a surface's goroutine
    handlers,    \* the requests in a surface's handlers
    main,        \* the main goroutine's step
    next,        \* the surface that main deals with next
    failed,      \* the failed flag
    crashed      \* observation: the surfaces that ended while ctx had not

vars == <<ctxDone, socket, listener, handlers, main, next, failed, crashed>>

Names == Range(Surfaces)

Init ==
    /\ ctxDone = FALSE
    /\ socket = [s \in Names |-> "unbound"]
    /\ listener = [s \in Names |-> "none"]
    /\ handlers = [s \in Names |-> 0]
    /\ main = "bind"
    /\ next = 1
    /\ failed = FALSE
    /\ crashed = {}

-----------------------------------------------------------------------------
(* serve binds every socket before a surface serves, and on an error       *)
(* closes those it bound.                                                  *)
Bind ==
    /\ main = "bind"
    /\ next <= Len(Surfaces)
    /\ socket' = [socket EXCEPT ![Surfaces[next]] = "open"]
    /\ next' = next + 1
    /\ UNCHANGED <<ctxDone, listener, handlers, main, failed, crashed>>

BindFails ==
    /\ main = "bind"
    /\ next <= Len(Surfaces)
    /\ socket' = [s \in Names |-> IF socket[s] = "open" THEN "closed" ELSE socket[s]]
    /\ failed' = TRUE
    /\ main' = "returned"
    /\ UNCHANGED <<ctxDone, listener, handlers, next, crashed>>

Start ==
    /\ main = "bind"
    /\ next > Len(Surfaces)
    /\ listener' = [s \in Names |-> "starting"]
    /\ main' = "wait"
    /\ next' = 1
    /\ UNCHANGED <<ctxDone, socket, handlers, failed, crashed>>

Signal ==
    /\ ~ctxDone
    /\ ctxDone' = TRUE
    /\ UNCHANGED <<socket, listener, handlers, main, next, failed, crashed>>

-----------------------------------------------------------------------------
(* A surface's goroutine: app.Listener serves an open socket and returns   *)
(* when it is closed, or on an error of its own.                           *)
Serve(s) ==
    /\ listener[s] = "starting"
    /\ socket[s] = "open"
    /\ listener' = [listener EXCEPT ![s] = "serving"]
    /\ UNCHANGED <<ctxDone, socket, handlers, main, next, failed, crashed>>

ListenerReturns(s) ==
    /\ listener[s] \in {"starting", "serving"}
    /\ socket[s] = "closed"
    /\ listener' = [listener EXCEPT ![s] = "error"]
    /\ UNCHANGED <<ctxDone, socket, handlers, main, next, failed, crashed>>

ListenerBreaks(s) ==
    /\ listener[s] \in {"starting", "serving"}
    /\ socket[s] = "open"
    /\ listener' = [listener EXCEPT ![s] = "error"]
    /\ crashed' = IF ctxDone THEN crashed ELSE crashed \cup {s}
    /\ UNCHANGED <<ctxDone, socket, handlers, main, next, failed>>

(* The error counts as a failure unless the context has ended.             *)
AnyErrorFails(s) ==
    /\ listener[s] = "error"
    /\ listener' = [listener EXCEPT ![s] = "fail"]
    /\ UNCHANGED <<ctxDone, socket, handlers, main, next, failed, crashed>>
CheckError(s) ==
    /\ listener[s] = "error"
    /\ listener' = [listener EXCEPT ![s] = IF ctxDone THEN "done" ELSE "fail"]
    /\ UNCHANGED <<ctxDone, socket, handlers, main, next, failed, crashed>>

Fail(s) ==
    /\ listener[s] = "fail"
    /\ failed' = TRUE
    /\ listener' = [listener EXCEPT ![s] = "stop"]
    /\ UNCHANGED <<ctxDone, socket, handlers, main, next, crashed>>

StopNothing(s) ==
    /\ listener[s] = "stop"
    /\ listener' = [listener EXCEPT ![s] = "done"]
    /\ UNCHANGED <<ctxDone, socket, handlers, main, next, failed, crashed>>
StopRest(s) ==
    /\ listener[s] = "stop"
    /\ ctxDone' = TRUE
    /\ listener' = [listener EXCEPT ![s] = "done"]
    /\ UNCHANGED <<socket, handlers, main, next, failed, crashed>>

(* Requests enter a serving surface's handlers and leave them.             *)
Enter(s) ==
    /\ listener[s] = "serving"
    /\ socket[s] = "open"
    /\ handlers[s] < MaxHandlers
    /\ handlers' = [handlers EXCEPT ![s] = @ + 1]
    /\ UNCHANGED <<ctxDone, socket, listener, main, next, failed, crashed>>

Leave(s) ==
    /\ handlers[s] > 0
    /\ handlers' = [handlers EXCEPT ![s] = @ - 1]
    /\ UNCHANGED <<ctxDone, socket, listener, main, next, failed, crashed>>

-----------------------------------------------------------------------------
(* The main goroutine after the context has ended.  ShutdownWithTimeout    *)
(* does nothing for a server that does not serve yet; otherwise it closes  *)
(* the socket, then waits for the handlers, five seconds at most.          *)
ContextEnds ==
    /\ main = "wait"
    /\ ctxDone
    /\ main' = "shutdown"
    /\ UNCHANGED <<ctxDone, socket, listener, handlers, next, failed, crashed>>

Shutdown ==
    /\ main = "shutdown"
    /\ next <= Len(Surfaces)
    /\ LET s == Surfaces[next] IN
          socket' = [socket EXCEPT ![s] = IF listener[s] = "starting" THEN @ ELSE "closed"]
    /\ main' = "drain"
    /\ UNCHANGED <<ctxDone, listener, handlers, next, failed, crashed>>

(* The handlers have ended, or the five seconds have.                      *)
Drained ==
    /\ main = "drain"
    /\ next' = next + 1
    /\ main' = "shutdown"
    /\ UNCHANGED <<ctxDone, socket, listener, handlers, failed, crashed>>

CloseSockets ==
    /\ main = "shutdown"
    /\ next > Len(Surfaces)
    /\ socket' = [s \in Names |-> "closed"]
    /\ main' = "join"
    /\ UNCHANGED <<ctxDone, listener, handlers, next, failed, crashed>>

Return ==
    /\ main = "join"
    /\ \A s \in Names : listener[s] = "done"
    /\ main' = "returned"
    /\ UNCHANGED <<ctxDone, socket, listener, handlers, next, failed, crashed>>

Listen(s) == Serve(s) \/ ListenerReturns(s) \/ CheckError(s) \/ Fail(s) \/ StopRest(s)

Main == Bind \/ Start \/ ContextEnds \/ Shutdown \/ Drained \/ CloseSockets \/ Return

Next ==
    \/ Main \/ BindFails \/ Signal
    \/ \E s \in Names : Listen(s) \/ ListenerBreaks(s) \/ Enter(s) \/ Leave(s)

Spec == Init /\ [][Next]_vars

(* Goroutines that can go on do, and a shutdown's wait has a timeout.      *)
FairSpec == Spec /\ WF_vars(Main) /\ \A s \in Names : WF_vars(Listen(s))

-----------------------------------------------------------------------------
TypeOK ==
    /\ ctxDone \in BOOLEAN
    /\ socket \in [Names -> {"unbound", "open", "closed"}]
    /\ listener \in [Names -> {"none", "starting", "serving", "error", "fail", "stop", "done"}]
    /\ handlers \in [Names -> 0..MaxHandlers]
    /\ main \in {"bind", "wait", "shutdown", "drain", "join", "returned"}
    /\ next \in 1..(Len(Surfaces) + 1)
    /\ failed \in BOOLEAN
    /\ crashed \subseteq Names

(***************************************************************************)
(* The exit code tells a failure from a shutdown: when both sockets were   *)
(* bound, serve reports a failure only if a surface ended on its own       *)
(* before the context did, and never because the shutdown closed a socket. *)
(***************************************************************************)
FailureIsReal ==
    main = "returned" /\ failed => crashed # {} \/ \A s \in Names : listener[s] = "none"

(***************************************************************************)
(* When serve returns, no socket is open and no surface's goroutine is     *)
(* left, so the process leaves nothing half served.                        *)
(***************************************************************************)
NothingServesAfterReturn ==
    main = "returned" =>
        \A s \in Names : socket[s] # "open" /\ listener[s] \in {"none", "done"}

(***************************************************************************)
(* A signal, or a surface that ended on its own, always ends the process,  *)
(* also when the other surface is still on its way to serving or requests  *)
(* stay in their handlers.                                                 *)
(***************************************************************************)
ShutdownEnds == (ctxDone \/ crashed # {}) ~> (main = "returned")
=============================================================================
