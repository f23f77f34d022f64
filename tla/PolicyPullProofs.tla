-------------------------- MODULE PolicyPullProofs --------------------------
(***************************************************************************)
(* The properties of PolicyPull for any number of callers and versions.    *)
(* The strengthening orders the versions along a load: what is stored is   *)
(* no newer than what the holder of loadMu has fetched, which is no newer  *)
(* than what the source serves; and it was fetched after the call.         *)
(***************************************************************************)
EXTENDS PolicyPull, TLAPS

(* loadMu is held exactly by the loader that is in a load.                 *)
LockInv == \A l \in Loaders : pc[l] \in Loading <=> loadMu = l

(* The stored documents come from the source, the index from the policies. *)
StoreInv ==
    /\ policies <= source.policies
    /\ pips.version <= source.pips
    /\ pips.index <= policies
    /\ \A l \in Loaders : called[l].policies <= source.policies /\ called[l].pips <= source.pips

(* The versions of the load in progress.                                   *)
FetchInv ==
    \A l \in Loaders :
        /\ pc[l] \in Loading \ {"fetchPolicies"} =>
              /\ got[l].policies \in Nat
              /\ policies <= got[l].policies /\ got[l].policies <= source.policies
              /\ called[l].policies <= got[l].policies
        /\ pc[l] \in Loading \ {"fetchPolicies", "fetchPIPs"} =>
              /\ got[l].pips \in Nat
              /\ pips.version <= got[l].pips /\ got[l].pips <= source.pips
              /\ called[l].pips <= got[l].pips
        /\ pc[l] \in {"putPIPs", "record"} => policies = got[l].policies
        /\ pc[l] = "record" => pips = [version |-> got[l].pips, index |-> got[l].policies]

IInv == TypeOK /\ LockInv /\ StoreInv /\ FetchInv /\ PullNowFresh
-----------------------------------------------------------------------------
LEMMA InitInv == Init => IInv
<1> SUFFICES ASSUME Init PROVE IInv
  BY Zenon
<1> USE LoadersAssumption DEF Init, Loaders, Unchanged, Nothing, Versions, NoDocument, Kinds, Loading
<1>1. TypeOK
  BY Zenon DEF TypeOK
<1>2. LockInv
  BY Zenon DEF LockInv
<1>3. StoreInv
  BY DEF StoreInv
<1>4. FetchInv
  BY Zenon DEF FetchInv
<1>5. PullNowFresh
  BY Zenon DEF PullNowFresh
<1> QED BY <1>1, <1>2, <1>3, <1>4, <1>5, Zenon DEF IInv

(* The environment and the loop around PullNow preserve the invariant.     *)
LEMMA OutsideStep ==
  ASSUME IInv,
         \/ \E kind \in Kinds : ChangeSource(kind)
         \/ TokenArrives \/ Stop \/ Disabled \/ WaitForToken \/ Tick \/ RunEnds
         \/ \E l \in Callers : Call(l)
  PROVE  IInv'
<1> USE LoadersAssumption
        DEF IInv, TypeOK, LockInv, StoreInv, FetchInv, PullNowFresh, Kinds, Loaders, Loading,
            Versions, NoDocument, Goto, envVars, loadVars, docs, reports
<1>1. ASSUME NEW kind \in Kinds, ChangeSource(kind) PROVE IInv'
  BY <1>1 DEF ChangeSource
<1>2. CASE TokenArrives
  BY <1>2, ZenonT(40) DEF TokenArrives
<1>3. CASE Stop
  BY <1>3, ZenonT(40) DEF Stop
<1>4. CASE Disabled
  BY <1>4, ZenonT(40) DEF Disabled
<1>5. CASE WaitForToken
  BY <1>5 DEF WaitForToken
<1>6. CASE Tick
  BY <1>6 DEF Tick
<1>7. CASE RunEnds
  BY <1>7 DEF RunEnds
<1>8. ASSUME NEW l \in Callers, Call(l) PROVE IInv'
  BY <1>8 DEF Call
<1> QED BY <1>1, <1>2, <1>3, <1>4, <1>5, <1>6, <1>7, <1>8, Zenon

(* Every step of a load preserves the invariant.                           *)
LEMMA LoadStep ==
  ASSUME IInv, NEW l \in Loaders, Load(l)
  PROVE  IInv'
<1> USE LoadersAssumption
        DEF IInv, TypeOK, LockInv, StoreInv, FetchInv, PullNowFresh, Kinds, Loaders, Loading,
            Versions, NoDocument, Goto, envVars, loadVars, docs, reports
<1>1. CASE Lock(l)
  BY <1>1 DEF Lock
<1>2. CASE FetchPolicySets(l)
  BY <1>2 DEF FetchPolicySets
<1>3. CASE FetchPIPs(l)
  BY <1>3 DEF FetchPIPs
<1>4. CASE Convert(l)
  BY <1>4 DEF Convert
<1>5. CASE PutPolicies(l)
  BY <1>5 DEF PutPolicies
<1>6. CASE PutPIPs(l)
  BY <1>6 DEF PutPIPs, ActivationIndex
<1>7. CASE Record(l)
  BY <1>7 DEF Record, Recorded, Unlocked, Nothing
<1>8. CASE Loaded(l)
  BY <1>8, ZenonT(40) DEF Loaded
<1>9. CASE Return(l)
  BY <1>9 DEF Return, AfterLoad, Unchanged
<1>10. CASE FetchFails(l) \/ ConvertFails(l) \/ PutFails(l)
  <2>1. pc[l] \in Loading /\ Failed(l)
    BY <1>10, Zenon DEF FetchFails, ConvertFails, PutFails
  <2>2. loadMu = l /\ loadMu' = NoOne /\ pc'[l] \notin Loading
    BY <2>1, Zenon DEF Failed, Unlocked, AfterLoad
  <2>3. TypeOK'
    BY <2>1, <2>2 DEF Failed, Unlocked, AfterLoad, Nothing, Unchanged
  <2>4. LockInv' /\ StoreInv' /\ FetchInv' /\ PullNowFresh'
    BY <2>1, <2>2 DEF Failed, Unlocked, AfterLoad, Nothing, Unchanged
  <2> QED BY <2>3, <2>4, Zenon
<1> QED BY <1>1, <1>2, <1>3, <1>4, <1>5, <1>6, <1>7, <1>8, <1>9, <1>10, Zenon DEF Load

LEMMA InductiveInv == Spec => []IInv
<1>1. IInv /\ [Next]_vars => IInv'
  <2> SUFFICES ASSUME IInv, [Next]_vars PROVE IInv'
    BY Zenon
  <2>1. CASE UNCHANGED vars
    BY <2>1, Zenon DEF vars, envVars, loadVars, docs, reports, IInv, TypeOK, LockInv, StoreInv,
       FetchInv, PullNowFresh
  <2> QED BY <2>1, OutsideStep, LoadStep, Zenon DEF Next
<1> QED BY <1>1, InitInv, PTL DEF Spec
-----------------------------------------------------------------------------
(* Every load keeps the types.                                             *)
THEOREM TypeCorrect == Spec => []TypeOK
<1>1. IInv => TypeOK
  BY Zenon DEF IInv
<1> QED BY <1>1, InductiveInv, PTL

(* A PullNow that reports success has stored what the source served at the *)
(* call, or newer, with any number of concurrent callers.                  *)
THEOREM PullNowIsFresh == Spec => []PullNowFresh
<1>1. IInv => PullNowFresh
  BY Zenon DEF IInv
<1> QED BY <1>1, InductiveInv, PTL

(* The documents in the engine are a replica of the source that never goes *)
(* back, whichever loads overlap and whichever of their steps fail.        *)
THEOREM PullImplementsReplica == Spec => ImplementsReplica
<1>1. Init => Replica!Init
  BY Zenon DEF Init, Replica!Init, Unchanged, Kinds
<1>2. IInv /\ [Next]_vars => [Replica!Next]_(Replica!vars)
  <2> SUFFICES ASSUME IInv, [Next]_vars PROVE Replica!Next \/ UNCHANGED Replica!vars
    BY Zenon
  <2>1. ASSUME NEW kind \in Kinds, ChangeSource(kind) PROVE Replica!Next
    BY <2>1, Zenon DEF ChangeSource, docs, Replica!Next, Replica!Change, Kinds
  <2>2. ASSUME NEW l \in Loaders, PutPolicies(l) PROVE Replica!ReplacePolicies
    BY <2>2 DEF PutPolicies, IInv, TypeOK, FetchInv, Loading, envVars, Kinds, Versions, NoDocument, Replica!ReplacePolicies
  <2>3. ASSUME NEW l \in Loaders, PutPIPs(l) PROVE Replica!ReplacePIPs
    BY <2>3 DEF PutPIPs, ActivationIndex, IInv, TypeOK, FetchInv, Loading, envVars, Kinds, Versions, NoDocument, Replica!ReplacePIPs
  <2>4. ASSUME NEW l \in Loaders, Load(l), ~PutPolicies(l), ~PutPIPs(l) PROVE UNCHANGED Replica!vars
    BY <2>4, Zenon DEF Load, Lock, FetchPolicySets, FetchPIPs, Convert, Record, Loaded, Return,
                FetchFails, ConvertFails, PutFails, Failed, envVars, loadVars, docs,
       Replica!vars
  <2>5. ASSUME TokenArrives \/ Stop \/ Disabled \/ WaitForToken \/ Tick \/ RunEnds \/ \E l \in Callers : Call(l)
        PROVE UNCHANGED Replica!vars
    BY <2>5, Zenon DEF TokenArrives, Stop, Disabled, WaitForToken, Tick, RunEnds, Call,
       envVars, docs, Replica!vars
  <2>6. CASE UNCHANGED vars
    BY <2>6, Zenon DEF vars, envVars, docs, Replica!vars
  <2> QED BY <2>1, <2>2, <2>3, <2>4, <2>5, <2>6, Zenon DEF Next, Replica!Next
<1> QED BY <1>1, <1>2, InductiveInv, PTL DEF Spec, ImplementsReplica, Replica!Spec
-----------------------------------------------------------------------------
(* Readiness with a source means that both documents are there.            *)
ReadyInv == status.loaded => Ready

(* Every step keeps PoliciesLoaded set, and true of the documents.         *)
LEMMA ReadyStep == IInv /\ ReadyInv /\ [Next]_vars => ReadyInv' /\ (status.loaded => status'.loaded)
<1> SUFFICES ASSUME IInv, ReadyInv, [Next]_vars PROVE ReadyInv' /\ (status.loaded => status'.loaded)
  BY Zenon
<1> USE DEF ReadyInv, Ready, NoDocument
<1>1. ASSUME NEW l \in Loaders, PutPolicies(l) \/ PutPIPs(l) PROVE ReadyInv' /\ status' = status
  BY <1>1 DEF PutPolicies, PutPIPs, IInv, FetchInv, Loading, envVars, reports
<1>2. ASSUME NEW l \in Loaders, Loaded(l) PROVE ReadyInv' /\ status'.loaded
  BY <1>2 DEF Loaded, IInv, TypeOK, PullNowFresh, Kinds, envVars, docs
<1>3. CASE Disabled
  BY <1>3, Zenon DEF Disabled, envVars
<1>4. ASSUME NEW l \in Loaders, Load(l), ~PutPolicies(l), ~PutPIPs(l), ~Loaded(l)
      PROVE  UNCHANGED <<mode, policies, pips, status>>
  BY <1>4, Zenon DEF Load, Lock, FetchPolicySets, FetchPIPs, Convert, Record, Return,
              FetchFails, ConvertFails, PutFails, Failed, envVars, loadVars, docs, reports
<1>5. ASSUME \/ \E kind \in Kinds : ChangeSource(kind)
             \/ TokenArrives \/ Stop \/ WaitForToken \/ Tick \/ RunEnds
             \/ \E l \in Callers : Call(l)
             \/ UNCHANGED vars
      PROVE  UNCHANGED <<mode, policies, pips, status>>
  BY <1>5, Zenon DEF ChangeSource, TokenArrives, Stop, WaitForToken, Tick, RunEnds, Call, vars,
     envVars, docs, reports
<1> QED BY <1>1, <1>2, <1>3, <1>4, <1>5, Zenon DEF Next

(* PoliciesLoaded is never cleared, and with a source it is only set when  *)
(* both documents exist.                                                   *)
THEOREM ReadinessKept == Spec => ReadyForGood
<1>1. Init => ReadyInv
  BY DEF Init, ReadyInv
<1>2. IInv /\ ReadyInv /\ [Next]_vars => ReadyInv'
  BY ReadyStep, Zenon
<1>3. ReadyInv /\ ReadyInv' /\ (status.loaded => status'.loaded) => (status.loaded => Ready /\ Ready')
  BY Zenon DEF ReadyInv
<1>4. IInv /\ ReadyInv /\ [Next]_vars => [status.loaded => Ready /\ Ready']_vars
  BY ReadyStep, <1>3, Zenon
<1> QED BY <1>1, <1>2, <1>4, InductiveInv, PTL DEF Spec, ReadyForGood
-----------------------------------------------------------------------------
(* Nobody is storing: the recorded conversion counts the stored policies.  *)
ReportInv ==
    /\ DocumentsCorrespond
    /\ (~storeFails /\ \A l \in Loaders : pc[l] \notin {"putPIPs", "record"}) => conversion = policies
    /\ ConversionReported

(* Where Put cannot fail, every step keeps the two documents in step with  *)
(* each other and with what is reported of them.                           *)
LEMMA ReportStep == IInv /\ ReportInv /\ [Next]_vars => ReportInv'
<1> SUFFICES ASSUME IInv, ReportInv, [Next]_vars PROVE ReportInv'
  BY Zenon
<1> USE LoadersAssumption DEF ReportInv, DocumentsCorrespond, ConversionReported, Goto, IInv, TypeOK
<1>1. ASSUME NEW l \in Loaders, PutPolicies(l) PROVE ReportInv'
  BY <1>1, Zenon DEF PutPolicies, envVars
<1>2. ASSUME NEW l \in Loaders, PutPIPs(l) PROVE ReportInv'
  BY <1>2, Zenon DEF PutPIPs, ActivationIndex, FetchInv, envVars
<1>3. ASSUME NEW l \in Loaders, Record(l) PROVE ReportInv'
  BY <1>3, Zenon DEF Record, Recorded, FetchInv, docs, envVars
<1>4. ASSUME NEW l \in Loaders, Loaded(l) PROVE ReportInv'
  BY <1>4, Zenon DEF Loaded, docs, envVars
<1>5. ASSUME NEW l \in Loaders, PutFails(l) PROVE ReportInv'
  BY <1>5, Zenon DEF PutFails, Failed, envVars
<1>6. ASSUME NEW l \in Loaders,
             \/ Lock(l) \/ FetchPolicySets(l) \/ FetchPIPs(l) \/ Convert(l) \/ Return(l)
             \/ FetchFails(l) \/ ConvertFails(l)
      PROVE  ReportInv'
  BY <1>6 DEF Lock, FetchPolicySets, FetchPIPs, Convert, Return, FetchFails, ConvertFails, Failed,
              AfterLoad, envVars, loadVars, docs, reports
<1>7. CASE Disabled
  BY <1>7, Zenon DEF Disabled, envVars, docs, Loaders
<1>8. ASSUME \/ \E kind \in Kinds : ChangeSource(kind)
             \/ TokenArrives \/ Stop \/ WaitForToken \/ Tick \/ RunEnds
             \/ \E l \in Callers : Call(l)
             \/ UNCHANGED vars
      PROVE  ReportInv'
  BY <1>8 DEF ChangeSource, TokenArrives, Stop, WaitForToken, Tick, RunEnds, Call, Loaders, vars,
              envVars, docs, reports
<1> QED BY <1>1, <1>2, <1>3, <1>4, <1>5, <1>6, <1>7, <1>8, Zenon DEF Next, Load

LEMMA ReportInvariant == Spec => []ReportInv
<1>1. Init => ReportInv
  BY DEF Init, ReportInv, DocumentsCorrespond, ConversionReported
<1>2. IInv /\ ReportInv /\ [Next]_vars => ReportInv'
  BY ReportStep, Zenon
<1> QED BY <1>1, <1>2, InductiveInv, PTL DEF Spec

(* Where Put cannot fail, the activation index in force is always built    *)
(* from the policies in force, except inside a load.                       *)
THEOREM DocumentsTogether == Spec => []DocumentsCorrespond
<1>1. ReportInv => DocumentsCorrespond
  BY Zenon DEF ReportInv
<1> QED BY <1>1, ReportInvariant, PTL

(* Where Put cannot fail, /health shows the conversion of the policies in  *)
(* force once the load that stored them has returned.                      *)
THEOREM ConversionTrue == Spec => []ConversionReported
<1>1. ReportInv => ConversionReported
  BY Zenon DEF ReportInv
<1> QED BY <1>1, ReportInvariant, PTL
=============================================================================
