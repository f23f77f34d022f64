------------------------------ MODULE PolicyPull ------------------------------
(***************************************************************************)
(* The agent's puller (components/authz-agent/internal/pull/pull.go): the  *)
(* loop Run and any number of on-demand callers of PullNow load the policy *)
(* sets and the PIPs from the source into the engine's document store      *)
(* (internal/engine/engine.go), one load at a time.                        *)
(*                                                                         *)
(* A document is abstracted to its version, the number of times the source *)
(* has changed it.  The two documents are fetched by two requests and      *)
(* stored by two transactions, so the source may change, and a decision    *)
(* may be taken, between them.                                             *)
(***************************************************************************)
EXTENDS Integers, FiniteSets

CONSTANTS
    Callers,       \* on-demand callers of PullNow
    RunLoop,       \* the goroutine of Run
    NoOne,         \* nobody holds loadMu
    Modes,         \* configurations: "ticks", "zero" (interval 0), "noSource"
    NeedsToken,    \* the source answers 401 to a fetch without a token
    StoreFaults,   \* whether Put may return an error: the stores considered
    Broken,        \* versions that fail to convert or to normalize
    MaxVersion     \* bound on the changes at the source

Loaders == Callers \cup {RunLoop}
NoDocument == -1
Kinds == {"policies", "pips"}

ASSUME LoadersAssumption == RunLoop \notin Callers /\ NoOne \notin Loaders
ASSUME ModesAssumption == Modes \subseteq {"ticks", "zero", "noSource"}
ASSUME FlagsAssumption == NeedsToken \in BOOLEAN /\ StoreFaults \subseteq BOOLEAN
ASSUME VersionsAssumption == MaxVersion \in Nat /\ Broken \subseteq Nat

VARIABLES
    mode,        \* Config.SourceURL and Config.Interval
    storeFails,  \* Put may return an error
    source,      \* version of each document at the source
    token,       \* the m2m source holds a token
    stopping,    \* ctx of Run has ended
    loadMu,      \* holder of Puller.loadMu
    pc,          \* where each loader is
    bearer,      \* each loader's token, read at the start of its load
    got,         \* versions each load in progress has fetched
    policies,    \* data.policies
    pips,        \* data.pips, with the policies its activation index is built from
    conversion,  \* Puller.lastConversion, as the version it counts
    status,      \* Puller.status
    (***********************************************************************)
    (* Observation only: no step of the code reads this.                   *)
    (***********************************************************************)
    called       \* what the source served when each loader called PullNow

envVars == <<mode, storeFails, source, token, stopping>>
loadVars == <<loadMu, bearer, got>>
docs == <<policies, pips>>
reports == <<conversion, status>>
vars == <<envVars, loadVars, docs, reports, pc, called>>

Nothing == [kind \in Kinds |-> NoDocument]
Unchanged == [kind \in Kinds |-> 0]

Init ==
    /\ mode \in Modes
    /\ storeFails \in StoreFaults
    /\ source = Unchanged
    /\ token = FALSE
    /\ stopping = FALSE
    /\ loadMu = NoOne
    /\ pc = [l \in Loaders |-> IF l = RunLoop THEN "start" ELSE "idle"]
    /\ bearer = [l \in Loaders |-> FALSE]
    /\ got = [l \in Loaders |-> Nothing]
    /\ policies = NoDocument
    /\ pips = [version |-> NoDocument, index |-> NoDocument]
    /\ conversion = NoDocument
    /\ status = [loaded |-> FALSE, reason |-> FALSE, conversion |-> NoDocument]
    /\ called = [l \in Loaders |-> source]

Goto(l, phase) == pc' = [pc EXCEPT ![l] = phase]

-----------------------------------------------------------------------------
(* The environment: an administrator changes a document at the source, the *)
(* m2m loop publishes a first token, the process is told to stop.          *)
ChangeSource(kind) ==
    /\ source[kind] < MaxVersion
    /\ source' = [source EXCEPT ![kind] = @ + 1]
    /\ UNCHANGED <<mode, storeFails, token, stopping, loadVars, docs, reports, pc, called>>

TokenArrives ==
    /\ ~token
    /\ token' = TRUE
    /\ UNCHANGED <<mode, storeFails, source, stopping, loadVars, docs, reports, pc, called>>

Stop ==
    /\ ~stopping
    /\ stopping' = TRUE
    /\ UNCHANGED <<mode, storeFails, source, token, loadVars, docs, reports, pc, called>>

(* Run without a source URL, or with interval 0: disabled() and return.    *)
Disabled ==
    /\ pc[RunLoop] = "start"
    /\ mode # "ticks"
    /\ status' = [loaded |-> TRUE, reason |-> TRUE, conversion |-> NoDocument]
    /\ Goto(RunLoop, "done")
    /\ UNCHANGED <<envVars, loadVars, docs, conversion, called>>

(* waitForToken, then the first pull: the wait ends with the token, with   *)
(* ctx, or after 15 seconds without either.                                *)
WaitForToken ==
    /\ pc[RunLoop] = "start"
    /\ mode = "ticks"
    /\ Goto(RunLoop, "queued")
    /\ called' = [called EXCEPT ![RunLoop] = source]
    /\ UNCHANGED <<envVars, loadVars, docs, reports>>

(* The ticker fires; a select that finds ctx ended as well may take either.*)
Tick ==
    /\ pc[RunLoop] = "sleep"
    /\ Goto(RunLoop, "queued")
    /\ called' = [called EXCEPT ![RunLoop] = source]
    /\ UNCHANGED <<envVars, loadVars, docs, reports>>

RunEnds ==
    /\ pc[RunLoop] = "sleep"
    /\ stopping
    /\ Goto(RunLoop, "done")
    /\ UNCHANGED <<envVars, loadVars, docs, reports, called>>

(* PullNow is called; without a source URL it only returns an error.       *)
Call(l) ==
    /\ mode # "noSource"
    /\ pc[l] = "idle"
    /\ Goto(l, "queued")
    /\ called' = [called EXCEPT ![l] = source]
    /\ UNCHANGED <<envVars, loadVars, docs, reports>>

LockNotTaken(l) ==
    /\ pc[l] = "queued"
    /\ loadMu' = l
    /\ bearer' = [bearer EXCEPT ![l] = token]
    /\ Goto(l, "fetchPolicies")
    /\ UNCHANGED <<envVars, got, docs, reports, called>>

JoinsLoadInProgress(l) ==
    /\ pc[l] = "queued"
    /\ IF loadMu = NoOne
       THEN loadMu' = l /\ Goto(l, "fetchPolicies")
       ELSE loadMu' = loadMu /\ Goto(l, "report")
    /\ bearer' = [bearer EXCEPT ![l] = token]
    /\ UNCHANGED <<envVars, got, docs, reports, called>>

(* PullOnce takes loadMu and reads the token.                              *)
Lock(l) ==
    /\ pc[l] = "queued"
    /\ loadMu = NoOne
    /\ loadMu' = l
    /\ bearer' = [bearer EXCEPT ![l] = token]
    /\ Goto(l, "fetchPolicies")
    /\ UNCHANGED <<envVars, got, docs, reports, called>>

(* A fetch can succeed: the source accepts it and its context is alive.    *)
Answered(l) == (NeedsToken => bearer[l]) /\ ~(l = RunLoop /\ stopping)

FetchPolicySets(l) ==
    /\ pc[l] = "fetchPolicies"
    /\ Answered(l)
    /\ got' = [got EXCEPT ![l].policies = source.policies]
    /\ Goto(l, "fetchPIPs")
    /\ UNCHANGED <<envVars, loadMu, bearer, docs, reports, called>>

FetchPIPs(l) ==
    /\ pc[l] = "fetchPIPs"
    /\ Answered(l)
    /\ got' = [got EXCEPT ![l].pips = source.pips]
    /\ Goto(l, "convert")
    /\ UNCHANGED <<envVars, loadMu, bearer, docs, reports, called>>

(* ConvertPolicySets, ConvertPIPs and both normalizations succeed.         *)
Convert(l) ==
    /\ pc[l] = "convert"
    /\ got[l].policies \notin Broken
    /\ got[l].pips \notin Broken
    /\ Goto(l, "putPolicies")
    /\ UNCHANGED <<envVars, loadVars, docs, reports, called>>

(* load: the first transaction.                                            *)
PutPolicies(l) ==
    /\ pc[l] = "putPolicies"
    /\ policies' = got[l].policies
    /\ Goto(l, "putPIPs")
    /\ UNCHANGED <<envVars, loadVars, pips, reports, called>>

IndexKept(l) == IF got[l].pips = pips.version THEN pips.index ELSE got[l].policies

(* BuildActivationIndexFromPolicies: the index comes from the policies of  *)
(* the same load.                                                          *)
ActivationIndex(l) == got[l].policies

(* load: the second transaction.                                           *)
PutPIPs(l) ==
    /\ pc[l] = "putPIPs"
    /\ pips' = [version |-> got[l].pips, index |-> ActivationIndex(l)]
    /\ Goto(l, "record")
    /\ UNCHANGED <<envVars, loadVars, policies, reports, called>>

Unlocked(l) ==
    /\ loadMu' = NoOne
    /\ bearer' = [bearer EXCEPT ![l] = FALSE]
    /\ got' = [got EXCEPT ![l] = Nothing]

(* The conversion that the end of a load records.                          *)
Recorded(l) == got[l].policies

(* PullOnce records the conversion and releases loadMu.                    *)
Record(l) ==
    /\ pc[l] = "record"
    /\ conversion' = Recorded(l)
    /\ Unlocked(l)
    /\ Goto(l, "report")
    /\ UNCHANGED <<envVars, docs, status, called>>

(* Run waits for its ticker again, a caller has its answer.                *)
AfterLoad(l) == IF l = RunLoop THEN "sleep" ELSE "idle"

(* loaded(), after loadMu is released.                                     *)
Loaded(l) ==
    /\ pc[l] = "report"
    /\ status' = [loaded |-> TRUE, reason |-> FALSE, conversion |-> conversion]
    /\ Goto(l, "returned")
    /\ UNCHANGED <<envVars, loadVars, docs, conversion, called>>

Return(l) ==
    /\ pc[l] = "returned"
    /\ Goto(l, AfterLoad(l))
    /\ called' = [called EXCEPT ![l] = Unchanged]
    /\ UNCHANGED <<envVars, loadVars, docs, reports>>

FailureKeepsLock(l) ==
    /\ Goto(l, AfterLoad(l))
    /\ called' = [called EXCEPT ![l] = Unchanged]
    /\ UNCHANGED <<envVars, loadVars, docs, reports>>

(* A step of PullOnce returns an error: loadMu is released, nothing else   *)
(* is undone; Run logs it, a caller gets it.                               *)
Failed(l) ==
    /\ Unlocked(l)
    /\ Goto(l, AfterLoad(l))
    /\ called' = [called EXCEPT ![l] = Unchanged]
    /\ UNCHANGED <<envVars, docs, reports>>

FetchFails(l) == pc[l] \in {"fetchPolicies", "fetchPIPs"} /\ Failed(l)

ConvertFails(l) ==
    /\ pc[l] = "convert"
    /\ got[l].policies \in Broken \/ got[l].pips \in Broken
    /\ Failed(l)

PutFails(l) == storeFails /\ pc[l] \in {"putPolicies", "putPIPs"} /\ Failed(l)

Load(l) ==
    \/ Lock(l) \/ FetchPolicySets(l) \/ FetchPIPs(l) \/ Convert(l)
    \/ PutPolicies(l) \/ PutPIPs(l) \/ Record(l) \/ Loaded(l) \/ Return(l)
    \/ FetchFails(l) \/ ConvertFails(l) \/ PutFails(l)

Next ==
    \/ \E kind \in Kinds : ChangeSource(kind)
    \/ TokenArrives \/ Stop
    \/ Disabled \/ WaitForToken \/ Tick \/ RunEnds
    \/ \E l \in Callers : Call(l)
    \/ \E l \in Loaders : Load(l)

Spec == Init /\ [][Next]_vars

(* Goroutines that can run do run, and a waiter gets the mutex.  The m2m   *)
(* loop retries until it has a token.  The source is not down for good:    *)
(* a fetch tried again and again is answered again and again.              *)
Fairness ==
    /\ WF_vars(WaitForToken) /\ WF_vars(Tick) /\ WF_vars(TokenArrives)
    /\ \A l \in Loaders :
          /\ SF_vars(Lock(l)) /\ SF_vars(FetchPolicySets(l)) /\ SF_vars(FetchPIPs(l))
          /\ WF_vars(Load(l))

FairSpec == Spec /\ Fairness
-----------------------------------------------------------------------------
Versions == {NoDocument} \cup Nat

(* The phases of a load that hold loadMu.                                  *)
Loading == {"fetchPolicies", "fetchPIPs", "convert", "putPolicies", "putPIPs", "record"}

TypeOK ==
    /\ mode \in Modes
    /\ storeFails \in StoreFaults
    /\ source \in [Kinds -> Nat]
    /\ token \in BOOLEAN /\ stopping \in BOOLEAN
    /\ loadMu \in Loaders \cup {NoOne}
    /\ pc \in [Loaders -> Loading \cup {"start", "idle", "sleep", "done", "queued", "report", "returned"}]
    /\ \A l \in Callers : pc[l] \notin {"start", "sleep", "done"}
    /\ bearer \in [Loaders -> BOOLEAN]
    /\ got \in [Loaders -> [Kinds -> Versions]]
    /\ policies \in Versions
    /\ pips \in [version : Versions, index : Versions]
    /\ conversion \in Versions
    /\ status \in [loaded : BOOLEAN, reason : BOOLEAN, conversion : Versions]
    /\ called \in [Loaders -> [Kinds -> Nat]]

(* The store is always a copy of what the source served, and never goes    *)
(* back: "a load that fetched the documents before a change at the source  *)
(* cannot store them after a load that fetched them after it" (loadMu).    *)
Replica == INSTANCE PolicyReplica

ImplementsReplica == Replica!Spec

(* "The documents it stores were fetched after the call" (PullNow): when   *)
(* PullNow reports success, both documents, and the index built from the   *)
(* policies, are at least as new as what the source served at the call,    *)
(* whatever loads were in progress.                                        *)
PullNowFresh ==
    \A l \in Loaders :
        pc[l] \in {"report", "returned"} =>
            /\ policies >= called[l].policies
            /\ pips.version >= called[l].pips
            /\ pips.index >= called[l].policies

(* Ready once, ready for good (Status, report in main.go): PoliciesLoaded  *)
(* is never cleared, and with a source it means that both documents exist. *)
Ready ==
    status.loaded /\ (mode = "ticks" => policies # NoDocument /\ pips.version # NoDocument)

ReadyForGood == [][status.loaded => Ready /\ Ready']_vars

(* "the documents in the store are untouched when any step fails"          *)
(* (PullOnce): over a store that accepts every Put, unless a load is       *)
(* between its two transactions, the policies in force are the ones the    *)
(* activation index of the PIPs is built from.                             *)
DocumentsCorrespond ==
    (~storeFails /\ \A l \in Loaders : pc[l] # "putPIPs") => pips.index = policies

(* Once no load is storing or reporting, the conversion that /health shows *)
(* is the conversion of the policies in force (Record, loaded, Status),    *)
(* over a store that accepts every Put.                                    *)
ConversionReported ==
    (/\ mode = "ticks" /\ ~storeFails
     /\ \A l \in Loaders : pc[l] \notin {"putPIPs", "record", "report"}) =>
        status.conversion = policies

(* The store has caught up with the source.                                *)
Current ==
    /\ policies = source.policies
    /\ pips = [version |-> source.pips, index |-> source.policies]

(* "A failed load keeps the previous documents and is retried on the next  *)
(* tick" (Run): whatever the source serves reaches the decisions, unless   *)
(* it changes again, cannot be converted, or the process stops; over a     *)
(* store that accepts every Put.                                           *)
CatchesUp ==
    \A p, q \in (0 .. MaxVersion) \ Broken :
        (mode = "ticks" /\ ~storeFails /\ source.policies = p /\ source.pips = q)
            ~> (Current \/ source.policies # p \/ source.pips # q \/ stopping)
=============================================================================
