-------------------------- MODULE PolicyAdminStore --------------------------
(***************************************************************************)
(* The policy-admin stub's store (components/authz-policy-admin/store.go)  *)
(* and the two PUT handlers that write it (handlers.go).                   *)
(*                                                                         *)
(* A collection is stored per key <<kind, domain>>.  An upload takes the   *)
(* write lock, replaces the collection in memory, writes the domain file   *)
(* and then state.json, each through a temp file and a rename, and rolls   *)
(* the memory back when a write fails.  The process may die between any    *)
(* two of these steps; a restart reloads what the disk holds.              *)
(*                                                                         *)
(* Content is abstracted to what decides the behaviour: a request body is  *)
(* the sequence of its items, or Null (the JSON literal null); a file is a *)
(* body, Absent, or Malformed (does not parse).  The file system is the    *)
(* one of a process crash: a completed rename survives, a temp file stays. *)
(***************************************************************************)
EXTENDS Naturals, Sequences, FiniteSets

CONSTANTS
    Persistent,   \* a data directory is configured (store.dataDir # "")
    Clients,      \* the callers of the PUT endpoints
    Keys,         \* the <<kind, domain>> pairs in use; a domain is its rank in sorted order
    Raws,         \* the well-formed request bodies
    Null,         \* the body that is the JSON literal null
    Absent,       \* no such file / no entry in the map
    Malformed,    \* a file that is not a JSON array
    NoOne,        \* nobody holds the write lock
    MaxRevision,  \* bound on the revision counter
    MaxTemps      \* bound on the temp files that stay behind

Kinds == {"policies", "pips"}

ASSUME PersistentAssumption == Persistent \in BOOLEAN
ASSUME KeysAssumption == Keys \subseteq Kinds \X Nat
ASSUME NullAssumption == Null \in Raws
ASSUME FileAssumption ==
    {Absent, Malformed} \cap (Raws \cup Nat) = {} /\ Absent # Malformed
ASSUME NoOneAssumption == NoOne \notin Clients
ASSUME BoundsAssumption == MaxRevision \in Nat /\ MaxTemps \in Nat

VARIABLES
    up,           \* the process serves
    mem,          \* store.policies and store.pips: Absent or the normalised items
    hash,         \* store.policiesHash and store.pipsHash
    revision,     \* store.revision
    writer,       \* holder of store.mu, or NoOne
    undo,         \* "previous, existed" of the upload that holds the lock
    disk,         \* the domain files
    state,        \* the revision in state.json, or Absent, or Malformed
    temps,        \* temp files left in the data directory
    pc,           \* where each caller's upload is
    req,          \* the upload of each caller
    (***********************************************************************)
    (* Observation only: no step of the code reads these.                  *)
    (***********************************************************************)
    acked,        \* last body acknowledged with 200, per key
    unacked,      \* bodies renamed into place since, whose upload was not acknowledged
    unread,       \* keys whose file the last start could not read, until uploaded again
    commit,       \* hash and revision at each caller's own commit
    ackedRevision,\* the revision of the last acknowledged upload
    lost,         \* the last start could not read state.json, and no upload since
    kept          \* temp files of this process's time whose removal failed

procVars == <<up, mem, hash, revision, writer, undo>>
diskVars == <<disk, state, temps>>
callerVars == <<pc, req>>
ghostVars == <<acked, unacked, unread, commit, ackedRevision, lost, kept>>
vars == <<procVars, diskVars, callerVars, ghostVars>>

Files == Raws \cup {Absent, Malformed}

(* normalizePolicies / normalizePIPs: a nil slice becomes an empty one.    *)
Normalize(raw) == IF raw = Null THEN <<>> ELSE raw

(* What a start makes of one file: missing, unreadable and malformed files *)
(* leave the domain out of the map.                                        *)
Load(file) == IF file \in {Absent, Malformed} THEN Absent ELSE Normalize(file)

Items == {Normalize(raw) : raw \in Raws}

(* mergedPoliciesLocked / mergedPIPsLocked: the union in domain order.     *)
Merged(m, kind) ==
    LET ranks == {k[2] : k \in {key \in DOMAIN m : key[1] = kind}}
        upTo[n \in Nat] ==
            IF n = 0
            THEN <<>>
            ELSE upTo[n - 1] \o (IF n \in ranks /\ m[<<kind, n>>] # Absent
                                 THEN m[<<kind, n>>] ELSE <<>>)
    IN  upTo[CHOOSE n \in ranks \cup {0} : \A r \in ranks : r <= n]

(* hashItems: a digest, so equal exactly when the items are equal.         *)
HashOf(items) == [digest |-> items]

(* rehashLocked                                                            *)
Rehash(m) == [kind \in Kinds |-> HashOf(Merged(m, kind))]

StatusSwapped(kind) == [hash |-> hash[CHOOSE k \in Kinds : k # kind], revision |-> revision]

(* What Status reports about one kind: the body of a 200.                  *)
Status(kind) == [hash |-> hash[kind], revision |-> revision]

-----------------------------------------------------------------------------
Init ==
    /\ up = FALSE
    /\ mem = [k \in Keys |-> Absent]
    /\ hash = Rehash(mem)
    /\ revision = 0
    /\ writer = NoOne
    /\ undo = Absent
    /\ disk \in [Keys -> {Absent, Malformed}]
    /\ ~Persistent => disk = [k \in Keys |-> Absent]
    /\ state \in {Absent, Malformed}
    /\ ~Persistent => state = Absent
    /\ temps = 0
    /\ pc = [c \in Clients |-> "idle"]
    /\ req = [c \in Clients |-> Absent]
    /\ acked = disk
    /\ unacked = [k \in Keys |-> {}]
    /\ unread = {}
    /\ commit = [c \in Clients |-> Absent]
    /\ ackedRevision = 0
    /\ lost = FALSE
    /\ kept = 0

(* A start that dies inside probeWritable, or ends there because it cannot *)
(* remove the probe's temp file, leaves that file.                         *)
ProbeInterrupted ==
    /\ ~up
    /\ Persistent
    /\ temps < MaxTemps
    /\ temps' = temps + 1
    /\ UNCHANGED <<procVars, disk, state, callerVars, ghostVars>>

(* sweepTempFiles: how many temp files are left once a start has swept     *)
(* them, since it goes on when a removal fails.                            *)
Sweep(t) == 0..t

(***************************************************************************)
(* newStore and loadFromDisk.  Any one file may be unreadable at this      *)
(* start; an unreadable or malformed state.json restarts the revision.     *)
(* A data directory that fails the writability probe ends the process      *)
(* before it serves: that start is no step at all.                         *)
(***************************************************************************)
Start(unreadable, stateReadable) ==
    /\ ~up
    /\ up' = TRUE
    /\ mem' = [k \in Keys |-> IF k \in unreadable THEN Absent ELSE Load(disk[k])]
    /\ hash' = Rehash(mem')
    /\ revision' = IF state \in {Absent, Malformed} \/ ~stateReadable THEN 0 ELSE state
    /\ temps' \in Sweep(temps)
    /\ temps' <= MaxTemps
    /\ unread' = {k \in unreadable : disk[k] # Absent}
    /\ lost' = (state \notin {Absent, Malformed} /\ ~stateReadable)
    /\ kept' = temps'
    /\ UNCHANGED <<writer, undo, disk, state, callerVars, acked, unacked, commit, ackedRevision>>

(* A caller sends an upload whose path and body the handler accepts: a bad *)
(* domain name or a body that does not parse is answered 400 beforehand    *)
(* and changes nothing.                                                    *)
Request(c, k, raw) ==
    /\ up
    /\ pc[c] = "idle"
    /\ revision + Cardinality({d \in Clients : pc[d] # "idle"}) < MaxRevision
    /\ pc' = [pc EXCEPT ![c] = "queued"]
    /\ req' = [req EXCEPT ![c] = [key |-> k, raw |-> raw]]
    /\ UNCHANGED <<procVars, diskVars, ghostVars>>

(* The upload is acknowledged: SetDomainPolicies / SetDomainPIPs returns   *)
(* nil and releases the lock.                                              *)
Acknowledge(c) ==
    /\ writer' = NoOne
    /\ undo' = Absent
    /\ pc' = [pc EXCEPT ![c] = "committed"]
    /\ acked' = [acked EXCEPT ![req[c].key] = req[c].raw]
    /\ unacked' = [unacked EXCEPT ![req[c].key] = {}]
    /\ unread' = unread \ {req[c].key}
    /\ ackedRevision' = revision'
    /\ lost' = FALSE

(* The collection is replaced in memory, the hashes and the revision move. *)
Install(k, items) ==
    /\ mem' = [mem EXCEPT ![k] = items]
    /\ hash' = Rehash(mem')
    /\ revision' = revision + 1

LockReleasedEarly(c) ==
    /\ writer' = NoOne
    /\ undo' = mem[req[c].key]
    /\ pc' = [pc EXCEPT ![c] = "domainTemp"]

(* The lock stays with the upload while it writes; "previous, existed" is  *)
(* kept for the rollback.                                                  *)
KeepLock(c) ==
    /\ writer' = c
    /\ undo' = mem[req[c].key]
    /\ pc' = [pc EXCEPT ![c] = "domainTemp"]

(* SetDomainPolicies / SetDomainPIPs up to the first write of              *)
(* commitLocked.  Without a data directory that is the whole commit.       *)
Apply(c) ==
    LET r == req[c] IN
    /\ up
    /\ pc[c] = "queued"
    /\ writer = NoOne
    /\ Install(r.key, Normalize(r.raw))
    /\ commit' = [commit EXCEPT ![c] = [hash |-> hash'[r.key[1]], revision |-> revision']]
    /\ IF Persistent
       THEN KeepLock(c) /\ UNCHANGED <<acked, unacked, unread, ackedRevision, lost>>
       ELSE Acknowledge(c)
    /\ UNCHANGED <<up, diskVars, req, kept>>

(* writeFileAtomic up to the rename: a temp file exists.                   *)
WriteTemp(c) ==
    /\ up
    /\ pc[c] \in {"domainTemp", "stateTemp"}
    /\ temps' = temps + 1
    /\ pc' = [pc EXCEPT ![c] = IF pc[c] = "domainTemp" THEN "domainRename" ELSE "stateRename"]
    /\ UNCHANGED <<procVars, disk, state, req, ghostVars>>

(* The rename of the domain file.                                          *)
RenameDomainFile(c) ==
    LET r == req[c] IN
    /\ up
    /\ pc[c] = "domainRename"
    /\ disk' = [disk EXCEPT ![r.key] = r.raw]
    /\ temps' = temps - 1
    /\ pc' = [pc EXCEPT ![c] = "stateTemp"]
    /\ unacked' = [unacked EXCEPT ![r.key] = @ \cup {r.raw}]
    /\ UNCHANGED <<procVars, state, req, acked, unread, commit, ackedRevision, lost, kept>>

(* The revision that goes into state.json is the one just counted.         *)
PersistedRevision == revision

(* The rename of state.json completes the commit.                          *)
RenameStateFile(c) ==
    /\ up
    /\ pc[c] = "stateRename"
    /\ state' = PersistedRevision
    /\ temps' = temps - 1
    /\ UNCHANGED <<up, mem, hash, revision, disk, req, commit, kept>>
    /\ Acknowledge(c)

RollbackKeepsUpload(c) ==
    /\ revision' = revision - 1
    /\ writer' = NoOne
    /\ undo' = Absent
    /\ UNCHANGED <<mem, hash>>

(* commitLocked takes the revision back, its caller restores the           *)
(* collection and the hashes and releases the lock.                        *)
Rollback(c) ==
    /\ revision' = revision - 1
    /\ mem' = [mem EXCEPT ![req[c].key] = undo]
    /\ hash' = Rehash(mem')
    /\ writer' = NoOne
    /\ undo' = Absent

WriteErrorDropped(c) ==
    /\ up
    /\ pc[c] \in {"domainTemp", "domainRename"}
    /\ temps' = IF pc[c] = "domainRename" THEN temps - 1 ELSE temps
    /\ pc' = [pc EXCEPT ![c] = "stateTemp"]
    /\ UNCHANGED <<procVars, disk, state, req, ghostVars>>

(* A write fails: writeFileAtomic removes the temp file if there is one,   *)
(* and does not look whether that succeeds.  The upload is rolled back.    *)
WriteFails(c) ==
    /\ up
    /\ pc[c] \in {"domainTemp", "domainRename", "stateTemp", "stateRename"}
    /\ \/ pc[c] \in {"domainTemp", "stateTemp"} /\ UNCHANGED <<temps, kept>>
       \/ pc[c] \in {"domainRename", "stateRename"} /\ temps' = temps - 1 /\ kept' = kept
       \/ /\ pc[c] \in {"domainRename", "stateRename"}
          /\ temps <= MaxTemps
          /\ temps' = temps /\ kept' = kept + 1
    /\ Rollback(c)
    /\ pc' = [pc EXCEPT ![c] = "rejected"]
    /\ UNCHANGED <<up, disk, state, req, acked, unacked, unread, commit, ackedRevision, lost>>

(* The handler answers.  The 200 reports Status(kind), read in a critical  *)
(* section of its own, which other uploads may have entered before.        *)
Answer(c) ==
    /\ up
    /\ \/ pc[c] = "committed" /\ writer = NoOne
       \/ pc[c] = "rejected"
    /\ pc' = [pc EXCEPT ![c] = "idle"]
    /\ req' = [req EXCEPT ![c] = Absent]
    /\ commit' = [commit EXCEPT ![c] = Absent]
    /\ UNCHANGED <<procVars, diskVars, acked, unacked, unread, ackedRevision, lost, kept>>

(* The process dies at any point: the memory and the lock are gone, every  *)
(* call in progress is cut off.  Without a data directory so is the data.  *)
Crash ==
    /\ up
    /\ up' = FALSE
    /\ writer' = NoOne
    /\ mem' = [k \in Keys |-> Absent]
    /\ hash' = Rehash(mem')
    /\ revision' = 0
    /\ undo' = Absent
    /\ pc' = [c \in Clients |-> "idle"]
    /\ req' = [c \in Clients |-> Absent]
    /\ commit' = [c \in Clients |-> Absent]
    /\ unread' = {}
    /\ acked' = IF Persistent THEN acked ELSE [k \in Keys |-> Absent]
    /\ ackedRevision' = IF Persistent THEN ackedRevision ELSE 0
    /\ lost' = FALSE
    /\ kept' = 0
    /\ UNCHANGED <<diskVars, unacked>>

Upload(c) ==
    \/ Apply(c) \/ WriteTemp(c) \/ RenameDomainFile(c) \/ RenameStateFile(c)
    \/ WriteFails(c) \/ Answer(c)

Next ==
    \/ \E unreadable \in SUBSET Keys, ok \in BOOLEAN : Start(unreadable, ok)
    \/ \E c \in Clients, k \in Keys, raw \in Raws : Request(c, k, raw)
    \/ \E c \in Clients : Upload(c)
    \/ ProbeInterrupted
    \/ Crash

Spec == Init /\ [][Next]_vars
-----------------------------------------------------------------------------
(* Where an upload is: waiting for the lock, in one of the four writes     *)
(* that hold it, or past them and waiting for its answer.                  *)
Writing == {"domainTemp", "domainRename", "stateTemp", "stateRename"}

Phases == {"idle", "queued", "committed", "rejected"} \cup Writing

TypeOK ==
    /\ up \in BOOLEAN
    /\ mem \in [Keys -> Items \cup {Absent}]
    /\ revision \in Nat
    /\ writer \in Clients \cup {NoOne}
    /\ undo \in Items \cup {Absent}
    /\ disk \in [Keys -> Files]
    /\ state \in Nat \cup {Absent, Malformed}
    /\ temps \in Nat
    /\ pc \in [Clients -> Phases]
    /\ req \in [Clients -> [key : Keys, raw : Raws] \cup {Absent}]
    /\ acked \in [Keys -> Files]
    /\ unacked \in [Keys -> SUBSET Raws]
    /\ unread \in SUBSET Keys
    /\ ackedRevision \in Nat
    /\ lost \in BOOLEAN
    /\ kept \in Nat

(* A reader is in: it holds the read lock, so no upload is half done.      *)
Readable == up /\ writer = NoOne

(* "a caller that was told 200 is a caller whose data is on disk"          *)
(* (store.go, commitLocked): a domain file holds the last acknowledged     *)
(* body, or a later one whose upload died or failed after its rename;      *)
(* no crash, failed write or concurrent upload loses an acknowledged one.  *)
AcknowledgedOnDisk ==
    Persistent => \A k \in Keys : disk[k] \in {acked[k]} \cup unacked[k]

(* What a reader gets for a key whose file could be read is the last       *)
(* acknowledged body, or one of those later bodies that stayed on disk;    *)
(* a key that could not be read is not served at all.  The revision is     *)
(* that of the last acknowledged upload, and a start that cannot read      *)
(* state.json costs nothing else.  Rollbacks, crashes and restarts         *)
(* included (SetDomainPolicies, SetDomainPIPs, loadFromDisk).              *)
ServedIsAcknowledged ==
    Readable =>
        /\ \A k \in Keys :
              IF k \in unread
              THEN mem[k] = Absent
              ELSE mem[k] \in {Load(f) : f \in {acked[k]} \cup unacked[k]}
        /\ ~lost => revision = ackedRevision

(* The hash a reader gets is the hash of the union it gets with it: every  *)
(* path that changes the collections, the rollback too, rehashes them      *)
(* (Policies, PIPs, Status).                                               *)
HashMatchesServed == Readable => hash = Rehash(mem)

(* Once an upload is acknowledged, state.json holds the revision counter   *)
(* whenever no upload is in progress, so the counter of a restart goes on  *)
(* from there (commitLocked, loadFromDisk).                                *)
RevisionPersisted ==
    (Persistent /\ Readable /\ \E c \in Clients : pc[c] = "committed") => state = revision

(* The 200 is built from a second critical section (handlers.go, the PUT   *)
(* handlers): it never describes a state older than the caller's own       *)
(* commit, and a revision that is the caller's own comes with its hash.    *)
AnswerNotStale ==
    Readable =>
        \A c \in Clients :
            pc[c] = "committed" =>
                LET answer == Status(req[c].key[1]) IN
                /\ answer.revision >= commit[c].revision
                /\ answer.revision = commit[c].revision => answer = commit[c]

(* Temp files "cannot accumulate on a small volume" (newStore): whatever   *)
(* crashed before, the temp files of a process that serves are the one     *)
(* that an upload is writing and those whose removal failed in its own     *)
(* time (sweepTempFiles, writeFileAtomic), and no others.                  *)
TempsBounded ==
    up => \/ writer = NoOne /\ temps = kept
          \/ writer # NoOne /\ temps \in {kept, kept + 1}

(* "The upload did not reach disk, so it is not committed in memory        *)
(* either" (handlers.go, handlePutDomainPolicies): the body of an upload   *)
(* answered 500 is not on disk, unless it is the acknowledged one.         *)
RejectedNotOnDisk ==
    \A c \in Clients :
        pc[c] = "rejected" =>
            LET r == req[c] IN disk[r.key] = r.raw => acked[r.key] = r.raw

(* Readers of the store see a registry that persists before it publishes:  *)
(* what an upload in progress changed in memory is hidden by its lock.     *)
Registry == INSTANCE DurableRegistry WITH
    Values <- Items,
    available <- up,
    served <- [k \in Keys |-> IF writer # NoOne /\ req[writer].key = k THEN undo ELSE mem[k]],
    durable <- [k \in Keys |-> Load(disk[k])]

(* "a reader never observes a state that was not persisted" (store.go,     *)
(* commitLocked): the store implements DurableRegistry.                    *)
ImplementsRegistry == Registry!Spec
=============================================================================
