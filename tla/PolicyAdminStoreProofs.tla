----------------------- MODULE PolicyAdminStoreProofs -----------------------
(***************************************************************************)
(* The properties of PolicyAdminStore for every set of clients, keys and   *)
(* bodies.  The strengthening says what the write lock protects: its       *)
(* holder is the one upload past Apply, and undo is what readers last saw. *)
(***************************************************************************)
EXTENDS PolicyAdminStore, TLAPS

Uploads == [key : Keys, raw : Raws]

(* What readers see: the change of the upload in progress is hidden.       *)
View == [k \in Keys |-> IF writer # NoOne /\ req[writer].key = k THEN undo ELSE mem[k]]

(* The revision readers see.                                               *)
SeenRevision == IF writer = NoOne THEN revision ELSE revision - 1

(* The lock is held exactly by the upload that writes, and only by a       *)
(* running process with a data directory.                                  *)
LockInv ==
    /\ \A c \in Clients : pc[c] \in Writing <=> writer = c
    /\ \A c \in Clients : pc[c] # "idle" => req[c] \in Uploads
    /\ ~up => writer = NoOne /\ \A c \in Clients : pc[c] = "idle"
    /\ ~Persistent => writer = NoOne
    /\ writer # NoOne =>
          /\ revision >= 1
          /\ mem[req[writer].key] = Normalize(req[writer].raw)
          /\ pc[writer] \in {"stateTemp", "stateRename"} => disk[req[writer].key] = req[writer].raw

(* Memory, disk and what was acknowledged.                                 *)
DataInv ==
    /\ hash = Rehash(mem)
    /\ AcknowledgedOnDisk
    /\ ~Persistent => \A k \in Keys : disk[k] = Absent /\ (~up => acked[k] = Absent)
    /\ up => \A k \in Keys :
                IF k \in unread
                THEN View[k] = Absent
                ELSE \E f \in {acked[k]} \cup unacked[k] : View[k] = Load(f)

(* Temp files of a running process belong to the upload that writes, or    *)
(* could not be removed.                                                   *)
TempInv ==
    up => temps = IF writer # NoOne /\ pc[writer] \in {"domainRename", "stateRename"}
                  THEN kept + 1 ELSE kept

(* Revisions: what state.json holds and what each caller committed.        *)
RevisionInv ==
    /\ DOMAIN commit = Clients
    /\ writer # NoOne => commit[writer] = [hash |-> hash[req[writer].key[1]], revision |-> revision]
    /\ \A c \in Clients : pc[c] = "committed" =>
          /\ Persistent => state = SeenRevision
          /\ commit[c].revision \in Nat
          /\ commit[c].revision <= SeenRevision
          /\ commit[c].revision = SeenRevision =>
                commit[c] = [hash |-> Rehash(View)[req[c].key[1]], revision |-> SeenRevision]

(* The acknowledged revision is the one on disk and the one readers see.   *)
AckedInv ==
    /\ Persistent => ackedRevision = IF state \in {Absent, Malformed} THEN 0 ELSE state
    /\ ~Persistent => state = Absent /\ (~up => ackedRevision = 0)
    /\ up /\ ~lost => SeenRevision = ackedRevision

IInv == TypeOK /\ LockInv /\ DataInv /\ TempInv /\ RevisionInv /\ AckedInv
-----------------------------------------------------------------------------
(* A stored body loads as its normalised items.                            *)
LEMMA LoadOfBody == \A raw \in Raws : Load(raw) = Normalize(raw) /\ Normalize(raw) \in Items
  BY FileAssumption, Zenon DEF Load, Items

LEMMA LoadType == \A f \in Files : Load(f) \in Items \cup {Absent}
  BY LoadOfBody, Zenon DEF Files, Load

LEMMA TypeInit == Init => TypeOK
<1> SUFFICES ASSUME Init PROVE TypeOK
  BY Zenon
<1>1. disk \in [Keys -> Files] /\ acked \in [Keys -> Files]
  BY Zenon DEF Init, Files
<1>2. unacked \in [Keys -> SUBSET Raws] /\ unread \in SUBSET Keys
  BY Zenon DEF Init
<1> QED BY <1>1, <1>2, Zenon DEF Init, TypeOK, Phases

(* Every action preserves the types.                                       *)
LEMMA TypeStep == TypeOK /\ LockInv /\ TempInv /\ [Next]_vars => TypeOK'
<1> SUFFICES ASSUME TypeOK, LockInv, TempInv, [Next]_vars PROVE TypeOK'
  BY Zenon
<1> USE NoOneAssumption DEF Uploads
<1>1. ASSUME NEW unreadable \in SUBSET Keys, NEW ok \in BOOLEAN, Start(unreadable, ok) PROVE TypeOK'
  <2>1. temps' \in Nat /\ kept' \in Nat
    BY <1>1 DEF Start, TypeOK, Sweep
  <2>2. lost' \in BOOLEAN /\ ackedRevision' \in Nat
    BY <1>1, Zenon DEF Start, TypeOK
  <2> QED BY <1>1, <2>1, <2>2, LoadType, Zenon DEF Start, TypeOK, callerVars
<1>2. ASSUME NEW c \in Clients, NEW k \in Keys, NEW raw \in Raws, Request(c, k, raw) PROVE TypeOK'
  BY <1>2, Zenon DEF Request, TypeOK, Phases, procVars, diskVars, ghostVars
<1>3. ASSUME NEW c \in Clients, Apply(c) PROVE TypeOK'
  <2>1. req[c] \in Uploads
    BY <1>3, Zenon DEF Apply, LockInv
  <2>2. CASE Persistent
    BY <1>3, <2>1, <2>2, LoadOfBody DEF Apply, Install, KeepLock, TypeOK, Phases, Writing, diskVars
  <2>3. CASE ~Persistent
    <3>1. revision' \in Nat /\ ackedRevision' \in Nat /\ kept' \in Nat /\ temps' \in Nat
      BY <1>3, <2>3 DEF Apply, Install, Acknowledge, TypeOK, diskVars
    <3>2. lost' \in BOOLEAN
      BY <1>3, <2>3, Zenon DEF Apply, Acknowledge
    <3> QED BY <1>3, <2>1, <2>3, <3>1, <3>2, LoadOfBody, Zenon DEF Apply, Install, Acknowledge,
       TypeOK, Phases, Files, diskVars
  <2> QED BY <2>2, <2>3, Zenon
<1>4. ASSUME NEW c \in Clients, WriteTemp(c) PROVE TypeOK'
  BY <1>4 DEF WriteTemp, TypeOK, Phases, Writing, procVars, ghostVars
<1>5. ASSUME NEW c \in Clients, RenameDomainFile(c) PROVE TypeOK'
  <2>1. writer = c /\ req[c] \in Uploads /\ temps = kept + 1
    BY <1>5, Zenon DEF RenameDomainFile, LockInv, TempInv, Writing
  <2> QED BY <1>5, <2>1 DEF RenameDomainFile, TypeOK, Phases, Writing, Files, procVars
<1>6. ASSUME NEW c \in Clients, RenameStateFile(c) PROVE TypeOK'
  <2>1. writer = c /\ req[c] \in Uploads /\ temps = kept + 1
    BY <1>6, Zenon DEF RenameStateFile, LockInv, TempInv, Writing
  <2>2. temps' \in Nat /\ ackedRevision' \in Nat
    BY <1>6, <2>1 DEF RenameStateFile, Acknowledge, TypeOK
  <2>3. lost' \in BOOLEAN
    BY <1>6, Zenon DEF RenameStateFile, Acknowledge
  <2> QED BY <1>6, <2>1, <2>2, <2>3, Zenon DEF RenameStateFile, PersistedRevision, Acknowledge,
     TypeOK, Phases, Files
<1>7. ASSUME NEW c \in Clients, WriteFails(c) PROVE TypeOK'
  <2>1. writer = c /\ req[c] \in Uploads /\ revision >= 1
    BY <1>7, Zenon DEF WriteFails, LockInv, Writing
  <2>2. temps' \in Nat /\ kept' \in Nat
    BY <1>7, <2>1 DEF WriteFails, TempInv, TypeOK
  <2> QED BY <1>7, <2>1, <2>2 DEF WriteFails, Rollback, TypeOK, Phases, ghostVars
<1>8. ASSUME NEW c \in Clients, Answer(c) PROVE TypeOK'
  BY <1>8, Zenon DEF Answer, TypeOK, Phases, procVars, diskVars
<1>9. CASE ProbeInterrupted
  BY <1>9 DEF ProbeInterrupted, TypeOK, procVars, callerVars, ghostVars
<1>10. CASE Crash
  BY <1>10, Zenon DEF Crash, TypeOK, Phases, Files, diskVars
<1>11. CASE UNCHANGED vars
  BY <1>11, Zenon DEF vars, procVars, diskVars, callerVars, ghostVars, TypeOK
<1> QED BY <1>1, <1>2, <1>3, <1>4, <1>5, <1>6, <1>7, <1>8, <1>9, <1>10, <1>11, Zenon DEF Next,
   Upload

LEMMA LockInit == Init => LockInv
  BY NoOneAssumption, Zenon DEF Init, LockInv, Writing

(* Every action keeps the lock with the upload that writes.                *)
LEMMA LockStep == TypeOK /\ LockInv /\ [Next]_vars => LockInv'
<1> SUFFICES ASSUME TypeOK, LockInv, [Next]_vars PROVE LockInv'
  BY Zenon
<1> USE NoOneAssumption DEF TypeOK, LockInv, Uploads, Writing
<1>1. ASSUME NEW unreadable \in SUBSET Keys, NEW ok \in BOOLEAN, Start(unreadable, ok) PROVE LockInv'
  BY <1>1, Zenon DEF Start, callerVars
<1>2. ASSUME NEW c \in Clients, NEW k \in Keys, NEW raw \in Raws, Request(c, k, raw) PROVE LockInv'
  BY <1>2, Zenon DEF Request, procVars, diskVars
<1>3. ASSUME NEW c \in Clients, Apply(c) PROVE LockInv'
  <2>1. CASE Persistent
    BY <1>3, <2>1 DEF Apply, Install, KeepLock, diskVars
  <2>2. CASE ~Persistent
    BY <1>3, <2>2, Zenon DEF Apply, Install, Acknowledge, diskVars
  <2> QED BY <2>1, <2>2, Zenon
<1>4. ASSUME NEW c \in Clients, WriteTemp(c) PROVE LockInv'
  BY <1>4, Zenon DEF WriteTemp, procVars
<1>5. ASSUME NEW c \in Clients, RenameDomainFile(c) PROVE LockInv'
  BY <1>5, Zenon DEF RenameDomainFile, procVars
<1>6. ASSUME NEW c \in Clients, RenameStateFile(c) PROVE LockInv'
  BY <1>6, Zenon DEF RenameStateFile, Acknowledge
<1>7. ASSUME NEW c \in Clients, WriteFails(c) PROVE LockInv'
  BY <1>7, Zenon DEF WriteFails, Rollback
<1>8. ASSUME NEW c \in Clients, Answer(c) PROVE LockInv'
  BY <1>8, Zenon DEF Answer, procVars, diskVars
<1>9. CASE ProbeInterrupted
  BY <1>9, Zenon DEF ProbeInterrupted, procVars, callerVars
<1>10. CASE Crash
  BY <1>10, Zenon DEF Crash
<1>11. CASE UNCHANGED vars
  BY <1>11, Zenon DEF vars, procVars, diskVars, callerVars
<1> QED BY <1>1, <1>2, <1>3, <1>4, <1>5, <1>6, <1>7, <1>8, <1>9, <1>10, <1>11 DEF Next, Upload

(* Every action keeps a running process to the temp file being written.    *)
LEMMA TempStep == TypeOK /\ LockInv /\ TempInv /\ [Next]_vars => TempInv'
<1> SUFFICES ASSUME TypeOK, LockInv, TempInv, [Next]_vars PROVE TempInv'
  BY Zenon
<1> USE NoOneAssumption DEF TypeOK, LockInv, TempInv, Writing
<1>1. ASSUME NEW unreadable \in SUBSET Keys, NEW ok \in BOOLEAN, Start(unreadable, ok) PROVE TempInv'
  BY <1>1, Zenon DEF Start
<1>2. ASSUME NEW c \in Clients, NEW k \in Keys, NEW raw \in Raws, Request(c, k, raw) PROVE TempInv'
  BY <1>2, Zenon DEF Request, procVars, diskVars, ghostVars
<1>3. ASSUME NEW c \in Clients, Apply(c) PROVE TempInv'
  BY <1>3, Zenon DEF Apply, KeepLock, Acknowledge, diskVars
<1>4. ASSUME NEW c \in Clients, WriteTemp(c) PROVE TempInv'
  BY <1>4 DEF WriteTemp, procVars, ghostVars
<1>5. ASSUME NEW c \in Clients, RenameDomainFile(c) PROVE TempInv'
  BY <1>5 DEF RenameDomainFile, procVars
<1>6. ASSUME NEW c \in Clients, RenameStateFile(c) PROVE TempInv'
  <2>1. temps = kept + 1
    BY <1>6, Zenon DEF RenameStateFile
  <2>2. temps' = temps - 1 /\ kept' = kept /\ writer' = NoOne
    BY <1>6, Zenon DEF RenameStateFile, Acknowledge
  <2> QED BY <2>1, <2>2
<1>7. ASSUME NEW c \in Clients, WriteFails(c) PROVE TempInv'
  BY <1>7 DEF WriteFails, Rollback
<1>8. ASSUME NEW c \in Clients, Answer(c) PROVE TempInv'
  BY <1>8, Zenon DEF Answer, procVars, diskVars
<1>9. CASE ProbeInterrupted
  BY <1>9, Zenon DEF ProbeInterrupted, procVars
<1>10. CASE Crash
  BY <1>10, Zenon DEF Crash
<1>11. CASE UNCHANGED vars
  BY <1>11, Zenon DEF vars, procVars, diskVars, callerVars, ghostVars
<1> QED BY <1>1, <1>2, <1>3, <1>4, <1>5, <1>6, <1>7, <1>8, <1>9, <1>10, <1>11, Zenon DEF Next,
   Upload

LEMMA DataInit == Init => DataInv
  BY DEF Init, DataInv, AcknowledgedOnDisk

(* What readers see changes only at a start, a crash and the end of an     *)
(* acknowledged upload.                                                    *)
LEMMA ViewUnchanged ==
  ASSUME TypeOK, LockInv, NEW c \in Clients,
         \/ \E k \in Keys, raw \in Raws : Request(c, k, raw)
         \/ Apply(c) /\ Persistent
         \/ WriteTemp(c) \/ RenameDomainFile(c) \/ WriteFails(c) \/ Answer(c)
  PROVE  View' = View
<1> USE NoOneAssumption DEF TypeOK, LockInv, Uploads, Writing, View
<1>1. CASE \E k \in Keys, raw \in Raws : Request(c, k, raw)
  BY <1>1, SMTT(30) DEF Request, procVars
<1>2. CASE Apply(c) /\ Persistent
  BY <1>2 DEF Apply, Install, KeepLock
<1>3. CASE WriteTemp(c)
  BY <1>3, Zenon DEF WriteTemp, procVars
<1>4. CASE RenameDomainFile(c)
  BY <1>4, Zenon DEF RenameDomainFile, procVars
<1>5. CASE WriteFails(c)
  BY <1>5, Zenon DEF WriteFails, Rollback
<1>6. CASE Answer(c)
  BY <1>6, Zenon DEF Answer, procVars
<1> QED BY <1>1, <1>2, <1>3, <1>4, <1>5, <1>6, Zenon

(* The end of an acknowledged upload shows readers the uploaded items.     *)
LEMMA ViewAcknowledged ==
  ASSUME TypeOK, LockInv, NEW c \in Clients,
         RenameStateFile(c) \/ (Apply(c) /\ ~Persistent)
  PROVE  /\ req[c] \in Uploads /\ req' = req
         /\ View' = [View EXCEPT ![req[c].key] = Normalize(req[c].raw)]
<1> USE NoOneAssumption DEF TypeOK, LockInv, Uploads, Writing, View, Acknowledge
<1>1. CASE RenameStateFile(c)
  <2>1. writer = c /\ req[c] \in Uploads /\ mem[req[c].key] = Normalize(req[c].raw)
    BY <1>1, Zenon DEF RenameStateFile
  <2>2. writer' = NoOne /\ mem' = mem /\ req' = req
    BY <1>1, Zenon DEF RenameStateFile
  <2>3. View' = mem
    BY <2>2, Zenon
  <2>4. \A k \in Keys : k # req[c].key => View[k] = mem[k]
    BY <2>1, Zenon
  <2>5. View = [k \in Keys |-> View[k]] /\ mem = [k \in Keys |-> mem[k]]
    BY Zenon
  <2> HIDE DEF View
  <2> QED BY <2>1, <2>2, <2>3, <2>4, <2>5, Zenon
<1>2. CASE Apply(c) /\ ~Persistent
  BY <1>2, Zenon DEF Apply, Install
<1> QED BY <1>1, <1>2, Zenon

(* Every action keeps memory, disk and acknowledgements together.          *)
LEMMA DataStep == TypeOK /\ LockInv /\ DataInv /\ [Next]_vars => DataInv'
<1> SUFFICES ASSUME TypeOK, LockInv, DataInv, [Next]_vars PROVE DataInv'
  BY Zenon
<1> USE NoOneAssumption DEF AcknowledgedOnDisk
<1>1. ASSUME NEW unreadable \in SUBSET Keys, NEW ok \in BOOLEAN, Start(unreadable, ok) PROVE DataInv'
  <2>1. View' = [k \in Keys |-> IF k \in unreadable THEN Absent ELSE Load(disk[k])]
    BY <1>1, Zenon DEF Start, View, LockInv
  <2>2. \A k \in Keys : disk[k] \in {acked[k]} \cup unacked[k]
    BY <1>1, Zenon DEF Start, DataInv
  <2> QED BY <1>1, <2>1, <2>2, Zenon DEF Start, DataInv, Load
<1>2. ASSUME NEW c \in Clients, NEW k \in Keys, NEW raw \in Raws, Request(c, k, raw) PROVE DataInv'
  <2>1. View' = View
    BY <1>2, ViewUnchanged, Zenon
  <2> QED BY <1>2, <2>1, Zenon DEF Request, DataInv, procVars, diskVars, ghostVars
<1>3. ASSUME NEW c \in Clients, Apply(c) PROVE DataInv'
  <2>1. CASE Persistent
    <3>1. View' = View
      BY <1>3, <2>1, ViewUnchanged, Zenon
    <3> QED BY <1>3, <2>1, <3>1, Zenon DEF Apply, Install, KeepLock, DataInv, diskVars
  <2>2. CASE ~Persistent
    <3>1. /\ req[c] \in Uploads
          /\ View' = [View EXCEPT ![req[c].key] = Load(req[c].raw)]
      BY <1>3, <2>2, ViewAcknowledged, LoadOfBody, Zenon DEF Uploads
    <3> QED BY <1>3, <2>2, <3>1 DEF Apply, Install, Acknowledge, DataInv, diskVars, Uploads, View, TypeOK
  <2> QED BY <2>1, <2>2, Zenon
<1>4. ASSUME NEW c \in Clients, WriteTemp(c) PROVE DataInv'
  <2>1. View' = View
    BY <1>4, ViewUnchanged, Zenon
  <2> QED BY <1>4, <2>1, Zenon DEF WriteTemp, DataInv, procVars, ghostVars
<1>5. ASSUME NEW c \in Clients, RenameDomainFile(c) PROVE DataInv'
  <2>1. View' = View
    BY <1>5, ViewUnchanged, Zenon
  <2>2. Persistent
    BY <1>5, Zenon DEF RenameDomainFile, LockInv, Writing
  <2> QED BY <1>5, <2>1, <2>2, Zenon DEF RenameDomainFile, DataInv, procVars, TypeOK
<1>6. ASSUME NEW c \in Clients, RenameStateFile(c) PROVE DataInv'
  <2>1. /\ req[c] \in Uploads
        /\ View' = [View EXCEPT ![req[c].key] = Load(req[c].raw)]
    BY <1>6, ViewAcknowledged, LoadOfBody, Zenon DEF Uploads
  <2>2. Persistent /\ disk[req[c].key] = req[c].raw
    BY <1>6, Zenon DEF RenameStateFile, LockInv, Writing
  <2>3. DOMAIN View = Keys
    BY Zenon DEF View
  <2>4. hash' = Rehash(mem') /\ AcknowledgedOnDisk'
    BY <1>6, <2>1, <2>2, Zenon DEF RenameStateFile, Acknowledge, DataInv, Uploads, TypeOK
  <2>5. \A k \in Keys : k # req[c].key =>
            View'[k] = View[k] /\ acked'[k] = acked[k] /\ unacked'[k] = unacked[k] /\ (k \in unread' <=> k \in unread)
    BY <1>6, <2>1, <2>3, Zenon DEF RenameStateFile, Acknowledge, Uploads, TypeOK
  <2>6. View'[req[c].key] = Load(acked'[req[c].key]) /\ req[c].key \notin unread'
    BY <1>6, <2>1, <2>3, Zenon DEF RenameStateFile, Acknowledge, Uploads, TypeOK
  <2>7. up /\ up'
    BY <1>6, Zenon DEF RenameStateFile
  <2> QED BY <2>2, <2>4, <2>5, <2>6, <2>7 DEF DataInv
<1>7. ASSUME NEW c \in Clients, WriteFails(c) PROVE DataInv'
  <2>1. View' = View
    BY <1>7, ViewUnchanged, Zenon
  <2> QED BY <1>7, <2>1, Zenon DEF WriteFails, Rollback, DataInv, ghostVars
<1>8. ASSUME NEW c \in Clients, Answer(c) PROVE DataInv'
  <2>1. View' = View
    BY <1>8, ViewUnchanged, Zenon
  <2> QED BY <1>8, <2>1, Zenon DEF Answer, DataInv, procVars, diskVars
<1>9. CASE ProbeInterrupted
  BY <1>9, Zenon DEF ProbeInterrupted, DataInv, procVars, callerVars, ghostVars
<1>10. CASE Crash
  BY <1>10, Zenon DEF Crash, DataInv, diskVars
<1>11. CASE UNCHANGED vars
  BY <1>11, Zenon DEF vars, procVars, diskVars, callerVars, ghostVars, DataInv, View
<1> QED BY <1>1, <1>2, <1>3, <1>4, <1>5, <1>6, <1>7, <1>8, <1>9, <1>10, <1>11, Zenon DEF Next,
   Upload

LEMMA RevisionInit == Init => RevisionInv
  BY Zenon DEF Init, RevisionInv

(* Every action keeps the committed and the persisted revisions in step.   *)
LEMMA RevisionStep == IInv /\ [Next]_vars => RevisionInv'
<1> SUFFICES ASSUME IInv, [Next]_vars PROVE RevisionInv'
  BY Zenon
<1> USE NoOneAssumption DEF IInv
<1>1. ASSUME NEW unreadable \in SUBSET Keys, NEW ok \in BOOLEAN, Start(unreadable, ok) PROVE RevisionInv'
  BY <1>1, Zenon DEF Start, RevisionInv, LockInv, callerVars
<1>2. ASSUME NEW c \in Clients, NEW k \in Keys, NEW raw \in Raws, Request(c, k, raw) PROVE RevisionInv'
  <2>1. View' = View /\ writer # c
    BY <1>2, ViewUnchanged, Zenon DEF Request, LockInv, Writing
  <2> QED BY <1>2, <2>1, Zenon DEF Request, RevisionInv, SeenRevision, procVars, diskVars,
     ghostVars, TypeOK
<1>3. ASSUME NEW c \in Clients, Apply(c) PROVE RevisionInv'
  <2>1. /\ req' = req /\ writer = NoOne /\ revision' = revision + 1 /\ hash' = Rehash(mem')
        /\ commit' = [commit EXCEPT ![c] = [hash |-> hash'[req[c].key[1]], revision |-> revision']]
    BY <1>3, Zenon DEF Apply, Install
  <2>2. CASE Persistent
    <3>1. View' = View /\ writer' = c /\ pc' = [pc EXCEPT ![c] = "domainTemp"] /\ state' = state
      BY <1>3, <2>2, ViewUnchanged, Zenon DEF Apply, KeepLock, diskVars
    <3>2. SeenRevision' = SeenRevision
      BY <2>1, <3>1 DEF SeenRevision, TypeOK
    <3> QED BY <2>1, <3>1, <3>2, Zenon DEF RevisionInv, TypeOK
  <2>3. CASE ~Persistent
    <3>1. writer' = NoOne /\ pc' = [pc EXCEPT ![c] = "committed"]
      BY <1>3, <2>3, Zenon DEF Apply, Acknowledge
    <3>2. View' = mem'
      <4>1. mem' = [k \in Keys |-> mem'[k]]
        BY <1>3, Zenon DEF Apply, Install, TypeOK
      <4> QED BY <3>1, <4>1, Zenon DEF View
    <3>3. SeenRevision' = SeenRevision + 1 /\ SeenRevision' = revision' /\ SeenRevision \in Nat
      BY <2>1, <3>1, Zenon DEF SeenRevision, TypeOK
    <3> QED BY <2>1, <2>3, <3>1, <3>2, <3>3 DEF RevisionInv, TypeOK
  <2> QED BY <2>2, <2>3, Zenon
<1>4. ASSUME NEW c \in Clients, WriteTemp(c) PROVE RevisionInv'
  <2>1. View' = View
    BY <1>4, ViewUnchanged, Zenon
  <2> QED BY <1>4, <2>1, Zenon DEF WriteTemp, RevisionInv, SeenRevision, procVars, ghostVars,
     TypeOK
<1>5. ASSUME NEW c \in Clients, RenameDomainFile(c) PROVE RevisionInv'
  <2>1. View' = View
    BY <1>5, ViewUnchanged, Zenon
  <2> QED BY <1>5, <2>1, Zenon DEF RenameDomainFile, RevisionInv, SeenRevision, procVars, TypeOK
<1>6. ASSUME NEW c \in Clients, RenameStateFile(c) PROVE RevisionInv'
  <2>1. writer = c /\ revision >= 1
    BY <1>6, Zenon DEF RenameStateFile, LockInv, Writing
  <2>2. /\ writer' = NoOne /\ state' = revision /\ revision' = revision /\ mem' = mem /\ req' = req
        /\ commit' = commit /\ pc' = [pc EXCEPT ![c] = "committed"]
    BY <1>6, Zenon DEF RenameStateFile, PersistedRevision, Acknowledge
  <2>3. View' = mem
    <3>1. mem = [k \in Keys |-> mem[k]]
      BY Zenon DEF TypeOK
    <3> QED BY <2>2, <3>1, Zenon DEF View
  <2>4. SeenRevision' = revision /\ SeenRevision = revision - 1 /\ revision \in Nat
    BY <2>1, <2>2, Zenon DEF SeenRevision, TypeOK
  <2>5. commit[c] = [hash |-> Rehash(mem)[req[c].key[1]], revision |-> revision]
    BY <2>1, Zenon DEF RevisionInv, DataInv
  <2> QED BY <2>1, <2>2, <2>3, <2>4, <2>5 DEF RevisionInv, TypeOK
<1>7. ASSUME NEW c \in Clients, WriteFails(c) PROVE RevisionInv'
  <2>1. View' = View /\ writer = c
    BY <1>7, ViewUnchanged, Zenon DEF WriteFails, LockInv, Writing
  <2>2. SeenRevision' = SeenRevision
    BY <1>7, <2>1, Zenon DEF SeenRevision, WriteFails, Rollback
  <2> QED BY <1>7, <2>1, <2>2, Zenon DEF WriteFails, Rollback, RevisionInv, TypeOK, ghostVars
<1>8. ASSUME NEW c \in Clients, Answer(c) PROVE RevisionInv'
  <2>1. View' = View /\ writer # c
    BY <1>8, ViewUnchanged, Zenon DEF Answer, LockInv, Writing
  <2> QED BY <1>8, <2>1, Zenon DEF Answer, RevisionInv, SeenRevision, procVars, diskVars, TypeOK
<1>9. CASE ProbeInterrupted
  BY <1>9, Zenon DEF ProbeInterrupted, RevisionInv, LockInv, procVars, callerVars, ghostVars
<1>10. CASE Crash
  BY <1>10, Zenon DEF Crash, RevisionInv
<1>11. CASE UNCHANGED vars
  BY <1>11, Zenon DEF vars, procVars, diskVars, callerVars, ghostVars, RevisionInv,
     SeenRevision, View
<1> QED BY <1>1, <1>2, <1>3, <1>4, <1>5, <1>6, <1>7, <1>8, <1>9, <1>10, <1>11, Zenon DEF Next,
   Upload

LEMMA AckedInit == Init => AckedInv
  BY Zenon DEF Init, AckedInv

(* Every action keeps the acknowledged revision on disk and in sight.      *)
LEMMA AckedStep == IInv /\ [Next]_vars => AckedInv'
<1> SUFFICES ASSUME IInv, [Next]_vars PROVE AckedInv'
  BY Zenon
<1> USE NoOneAssumption DEF IInv
<1>1. ASSUME NEW unreadable \in SUBSET Keys, NEW ok \in BOOLEAN, Start(unreadable, ok) PROVE AckedInv'
  <2>1. writer' = NoOne /\ state' = state /\ ackedRevision' = ackedRevision /\ up'
    BY <1>1, Zenon DEF Start, LockInv
  <2>2. ~lost' => revision' = IF state \in {Absent, Malformed} THEN 0 ELSE state
    BY <1>1, Zenon DEF Start
  <2>3. ackedRevision = IF state \in {Absent, Malformed} THEN 0 ELSE state
    BY <1>1, Zenon DEF Start, AckedInv
  <2> QED BY <2>1, <2>2, <2>3, Zenon DEF AckedInv, SeenRevision
<1>2. ASSUME NEW c \in Clients, NEW k \in Keys, NEW raw \in Raws, Request(c, k, raw) PROVE AckedInv'
  BY <1>2, Zenon DEF Request, AckedInv, SeenRevision, procVars, diskVars, ghostVars
<1>3. ASSUME NEW c \in Clients, Apply(c) PROVE AckedInv'
  <2>1. up /\ up' /\ state' = state /\ writer = NoOne /\ revision' = revision + 1
    BY <1>3, Zenon DEF Apply, Install, diskVars
  <2>2. CASE Persistent
    <3>1. writer' = c /\ ackedRevision' = ackedRevision /\ lost' = lost
      BY <1>3, <2>2, Zenon DEF Apply, KeepLock
    <3>2. SeenRevision' = SeenRevision
      BY <2>1, <3>1 DEF SeenRevision, TypeOK
    <3> QED BY <2>1, <2>2, <3>1, <3>2, Zenon DEF AckedInv
  <2>3. CASE ~Persistent
    <3>1. writer' = NoOne /\ ackedRevision' = revision'
      BY <1>3, <2>3, Zenon DEF Apply, Acknowledge
    <3> QED BY <2>1, <2>3, <3>1, Zenon DEF AckedInv, SeenRevision
  <2> QED BY <2>2, <2>3, Zenon
<1>4. ASSUME NEW c \in Clients, WriteTemp(c) PROVE AckedInv'
  BY <1>4, Zenon DEF WriteTemp, AckedInv, SeenRevision, procVars, ghostVars
<1>5. ASSUME NEW c \in Clients, RenameDomainFile(c) PROVE AckedInv'
  BY <1>5, Zenon DEF RenameDomainFile, AckedInv, SeenRevision, procVars
<1>6. ASSUME NEW c \in Clients, RenameStateFile(c) PROVE AckedInv'
  <2>1. Persistent /\ up'
    BY <1>6, Zenon DEF RenameStateFile, LockInv, Writing
  <2>2. /\ writer' = NoOne /\ state' = revision /\ revision' = revision
        /\ ackedRevision' = revision /\ revision \notin {Absent, Malformed}
    BY <1>6, FileAssumption, Zenon DEF RenameStateFile, PersistedRevision, Acknowledge, TypeOK
  <2> QED BY <2>1, <2>2, Zenon DEF AckedInv, SeenRevision
<1>7. ASSUME NEW c \in Clients, WriteFails(c) PROVE AckedInv'
  <2>1. writer = c /\ SeenRevision' = SeenRevision
    BY <1>7, Zenon DEF WriteFails, Rollback, LockInv, Writing, SeenRevision
  <2> QED BY <1>7, <2>1, Zenon DEF WriteFails, AckedInv
<1>8. ASSUME NEW c \in Clients, Answer(c) PROVE AckedInv'
  BY <1>8, Zenon DEF Answer, AckedInv, SeenRevision, procVars, diskVars
<1>9. CASE ProbeInterrupted
  BY <1>9, Zenon DEF ProbeInterrupted, AckedInv, procVars, ghostVars
<1>10. CASE Crash
  BY <1>10, Zenon DEF Crash, AckedInv, diskVars
<1>11. CASE UNCHANGED vars
  BY <1>11, Zenon DEF vars, procVars, diskVars, ghostVars, AckedInv, SeenRevision
<1> QED BY <1>1, <1>2, <1>3, <1>4, <1>5, <1>6, <1>7, <1>8, <1>9, <1>10, <1>11, Zenon DEF Next,
   Upload

LEMMA InductiveInv == Spec => []IInv
<1>1. Init => IInv
  BY TypeInit, LockInit, DataInit, RevisionInit, AckedInit, Zenon DEF IInv, TempInv, Init
<1>2. IInv /\ [Next]_vars => IInv'
  BY TypeStep, LockStep, DataStep, TempStep, RevisionStep, AckedStep, Zenon DEF IInv
<1> QED BY <1>1, <1>2, PTL DEF Spec
-----------------------------------------------------------------------------
(* The state of the store and of every upload keeps its type: no rollback  *)
(* takes the revision below zero, no file is renamed without its temp file.*)
THEOREM TypeCorrect == Spec => []TypeOK
<1>1. IInv => TypeOK
  BY Zenon DEF IInv
<1> QED BY <1>1, InductiveInv, PTL

(* An upload answered 200 is on disk, or a later upload of the same domain *)
(* that died or failed after its rename is.                                *)
THEOREM AcknowledgedDurable == Spec => []AcknowledgedOnDisk
<1>1. IInv => AcknowledgedOnDisk
  BY Zenon DEF IInv, DataInv
<1> QED BY <1>1, InductiveInv, PTL

(* Readers get acknowledged bodies, or later ones that stayed on disk, and *)
(* the acknowledged revision.                                              *)
THEOREM ServedAcknowledged == Spec => []ServedIsAcknowledged
<1>1. IInv => ServedIsAcknowledged
  <2> SUFFICES ASSUME IInv, Readable PROVE ServedIsAcknowledged
    BY Zenon DEF ServedIsAcknowledged
  <2>1. View = mem
    <3>1. mem = [k \in Keys |-> mem[k]]
      BY Zenon DEF IInv, TypeOK
    <3> QED BY <3>1, Zenon DEF Readable, View
  <2>2. ~lost => revision = ackedRevision
    BY Zenon DEF IInv, AckedInv, SeenRevision, Readable
  <2> QED BY <2>1, <2>2, Zenon DEF IInv, DataInv, Readable, ServedIsAcknowledged
<1> QED BY <1>1, InductiveInv, PTL

(* The hash served with a union is the hash of that union.                 *)
THEOREM HashConsistent == Spec => []HashMatchesServed
<1>1. IInv => HashMatchesServed
  BY Zenon DEF IInv, DataInv, HashMatchesServed
<1> QED BY <1>1, InductiveInv, PTL

(* state.json holds the revision of the last acknowledged upload.          *)
THEOREM RevisionDurable == Spec => []RevisionPersisted
<1>1. IInv => RevisionPersisted
  BY Zenon DEF IInv, RevisionInv, SeenRevision, Readable, RevisionPersisted
<1> QED BY <1>1, InductiveInv, PTL

(* A 200 never reports a state older than the caller's own commit.         *)
THEOREM AnswersFresh == Spec => []AnswerNotStale
<1>1. IInv => AnswerNotStale
  <2> SUFFICES ASSUME IInv, Readable, NEW c \in Clients, pc[c] = "committed"
               PROVE  /\ revision >= commit[c].revision
                      /\ revision = commit[c].revision => Status(req[c].key[1]) = commit[c]
    BY Zenon DEF AnswerNotStale, Status
  <2>1. View = mem /\ SeenRevision = revision
    <3>1. mem = [k \in Keys |-> mem[k]]
      BY Zenon DEF IInv, TypeOK
    <3> QED BY <3>1, Zenon DEF Readable, View, SeenRevision
  <2> QED BY <2>1, Zenon DEF IInv, TypeOK, DataInv, RevisionInv, Status
<1> QED BY <1>1, InductiveInv, PTL

(* A process that serves has no temp file but the one being written and    *)
(* those that it could not remove: crashes before its start leave no more. *)
THEOREM TempFilesBounded == Spec => []TempsBounded
<1>1. IInv => TempsBounded
  BY DEF IInv, TempInv, TempsBounded
<1> QED BY <1>1, InductiveInv, PTL
-----------------------------------------------------------------------------
(* What a restart would serve.                                             *)
Durable == [k \in Keys |-> Load(disk[k])]

(* A step of the store is a step of the registry or invisible to readers.  *)
LEMMA RegistryStep ==
  ASSUME Persistent, IInv, [Next]_vars
  PROVE  [Registry!Next]_(Registry!vars)
<1> DEFINE Changed == Registry!Next
           Same == up' = up /\ View' = View /\ Durable' = Durable
<1> SUFFICES Same \/ Changed
  BY Zenon DEF Registry!vars, View, Durable
<1> USE NoOneAssumption DEF IInv
<1>1. ASSUME NEW unreadable \in SUBSET Keys, NEW ok \in BOOLEAN, Start(unreadable, ok) PROVE Changed
  <2>1. View' = [k \in Keys |-> IF k \in unreadable THEN Absent ELSE Durable[k]]
    BY <1>1, Zenon DEF Start, View, Durable, LockInv
  <2>2. Durable' = Durable /\ ~up /\ up'
    BY <1>1, Zenon DEF Start, Durable
  <2>3. Registry!Recover(unreadable)
    BY <2>1, <2>2, Zenon DEF Registry!Recover, View, Durable
  <2> QED BY <2>3, Zenon DEF Registry!Next
<1>2. ASSUME NEW c \in Clients, NEW k \in Keys, NEW raw \in Raws, Request(c, k, raw) PROVE Same
  BY <1>2, ViewUnchanged, Zenon DEF Request, Durable, procVars, diskVars
<1>3. ASSUME NEW c \in Clients, Apply(c) PROVE Same
  BY <1>3, ViewUnchanged, Zenon DEF Apply, Durable, diskVars
<1>4. ASSUME NEW c \in Clients, WriteTemp(c) PROVE Same
  BY <1>4, ViewUnchanged, Zenon DEF WriteTemp, Durable, procVars
<1>5. ASSUME NEW c \in Clients, RenameDomainFile(c) PROVE Changed
  <2>1. View' = View /\ up /\ up'
    BY <1>5, ViewUnchanged, Zenon DEF RenameDomainFile, procVars
  <2>2. req[c] \in Uploads
    BY <1>5, Zenon DEF RenameDomainFile, LockInv
  <2>3. Durable' = [Durable EXCEPT ![req[c].key] = Normalize(req[c].raw)]
    BY <1>5, <2>2, LoadOfBody, Zenon DEF RenameDomainFile, Durable, TypeOK, Uploads
  <2>4. Registry!Persist(req[c].key, Normalize(req[c].raw))
    BY <2>1, <2>3, Zenon DEF Registry!Persist, View, Durable
  <2> QED BY <2>2, <2>4, LoadOfBody, Zenon DEF Registry!Next, Uploads
<1>6. ASSUME NEW c \in Clients, RenameStateFile(c) PROVE Changed
  <2>1. req[c] \in Uploads /\ View' = [View EXCEPT ![req[c].key] = Normalize(req[c].raw)]
    BY <1>6, ViewAcknowledged, Zenon
  <2>2. disk[req[c].key] = req[c].raw
    BY <1>6, Zenon DEF RenameStateFile, LockInv, Writing
  <2>3. Durable[req[c].key] = Normalize(req[c].raw)
    BY <2>1, <2>2, LoadOfBody, Zenon DEF Durable, Uploads
  <2>4. Durable' = Durable /\ up /\ up'
    BY <1>6, Zenon DEF RenameStateFile, Durable
  <2>5. PICK k \in Keys : k = req[c].key
    BY <2>1, Zenon DEF Uploads
  <2>6. Registry!Publish(k)
    BY <2>1, <2>3, <2>4, <2>5, Zenon DEF Registry!Publish, View, Durable
  <2> QED BY <2>6, Zenon DEF Registry!Next
<1>7. ASSUME NEW c \in Clients, WriteFails(c) PROVE Same
  BY <1>7, ViewUnchanged, Zenon DEF WriteFails, Durable
<1>8. ASSUME NEW c \in Clients, Answer(c) PROVE Same
  BY <1>8, ViewUnchanged, Zenon DEF Answer, Durable, procVars, diskVars
<1>9. CASE ProbeInterrupted
  BY <1>9, Zenon DEF ProbeInterrupted, View, Durable, procVars, callerVars
<1>10. ASSUME Crash PROVE Changed
  <2>1. View' = [k \in Keys |-> Absent]
    BY <1>10, Zenon DEF Crash, View
  <2>2. Durable' = Durable /\ up /\ ~up'
    BY <1>10, Zenon DEF Crash, Durable, diskVars
  <2>3. Registry!Stop
    BY <2>1, <2>2 DEF Registry!Stop, View, Durable
  <2> QED BY <2>3, Zenon DEF Registry!Next
<1>11. CASE UNCHANGED vars
  BY <1>11, Zenon DEF vars, procVars, diskVars, callerVars, View, Durable
<1> QED BY <1>1, <1>2, <1>3, <1>4, <1>5, <1>6, <1>7, <1>8, <1>9, <1>10, <1>11, Zenon DEF Next,
   Upload

(* "a reader never observes a state that was not persisted": with a data   *)
(* directory, the store implements DurableRegistry.                        *)
THEOREM StoreImplementsRegistry == ASSUME Persistent PROVE Spec => ImplementsRegistry
<1>1. Init => Registry!Init
  BY Zenon DEF Init, Registry!Init, Load
<1>2. IInv /\ [Next]_vars => [Registry!Next]_(Registry!vars)
  BY RegistryStep, Zenon
<1> QED BY <1>1, <1>2, InductiveInv, PTL DEF Spec, ImplementsRegistry, Registry!Spec
=============================================================================
