--------------------------- MODULE AuthnProviders ---------------------------
(***************************************************************************)
(* The manager of the trusted providers (internal/authn): Bootstrap reads  *)
(* the providers file before the service listens, fetches every provider's *)
(* keys and publishes data.authn with what it got; Run then looks at the   *)
(* file on every tick and publishes a changed one when enough providers    *)
(* answer.  Both are steps of one goroutine, but the file, the providers   *)
(* and tenant-manager change between any two of them.                      *)
(*                                                                         *)
(* A file is a sequence of entries, or Malformed, which stands for every   *)
(* content that Load refuses, or Missing.  An entry is a record with its   *)
(* id, whether it is required, its form ("jwksUri", "issuer", or "invalid" *)
(* where validate refuses it) and the realm that its issuer ends in.  The  *)
(* hash of a content is the content.  The keys that a provider contributed *)
(* are the presence of its id in the document.                             *)
(***************************************************************************)
EXTENDS Integers, Sequences, SequencesExt, FiniteSets

CONSTANTS
    Contents,       \* the contents of the file that Load accepts
    Malformed,
    Missing,
    Edits,          \* the changes made to the file: pairs of contents
    MaxEdits,       \* bound on the number of changes
    Modes,          \* the modes to choose from: "strict", "permissive"
    Displays,       \* the realms written by their tenant's display name
    NoHash,         \* appliedHash before a file was seen
    StoreFails      \* where a store.Put may return an error

ASSUME AuthnAssumption ==
    /\ MaxEdits \in Nat
    /\ Modes \subseteq {"strict", "permissive"}
    /\ StoreFails \subseteq {"Bootstrap", "Reload"}
    /\ NoHash \notin Contents \cup {Malformed}
    /\ \A c \in Contents : c \in Seq([id : STRING, required : BOOLEAN, realm : STRING,
                                      form : {"jwksUri", "issuer", "invalid"}])

VARIABLES
    file,          \* the content of the trusted providers file
    edits,         \* the number of changes made to it
    booted,        \* Bootstrap has returned: the service listens and Run runs
    pc,            \* the manager's step
    hash,          \* the local variables of Bootstrap and Reload
    doc,
    results,       \* for each entry fetched so far, whether it succeeded
    authn,         \* data.authn: the entries it was made from, the ids with keys
    status,        \* Manager.status
    appliedHash,   \* Manager.appliedHash
    cache,         \* realmResolver.cache
    mode           \* Mode(), which Config.Required decides

vars == <<file, edits, booted, pc, hash, doc, results, authn, status, appliedHash, cache, mode>>

Entries == UNION {Range(c) : c \in Contents}
Realms == {e.realm : e \in Entries}

Outcome(error, entries, oks) == [configError |-> error, entries |-> entries, success |-> oks]

Init ==
    /\ file \in Contents \cup {Malformed, Missing}
    /\ edits = 0
    /\ booted = FALSE
    /\ pc = "hash"
    /\ hash = NoHash
    /\ doc = <<>>
    /\ results = <<>>
    /\ authn = [entries |-> <<>>, keys |-> {}]
    /\ status = Outcome(FALSE, <<>>, <<>>)
    /\ appliedHash = NoHash
    /\ cache = [r \in Realms |-> "unasked"]
    /\ mode \in Modes

-----------------------------------------------------------------------------
(* The environment: the ConfigMap is republished.                          *)
Edit ==
    /\ edits < MaxEdits
    /\ \E c \in Contents \cup {Malformed, Missing} :
          /\ <<file, c>> \in Edits
          /\ file' = c
    /\ edits' = edits + 1
    /\ UNCHANGED <<booted, pc, hash, doc, results, authn, status, appliedHash, cache, mode>>

-----------------------------------------------------------------------------
(* record: the outcome that Evaluate judges, under the hash read first.    *)
Recorded(outcome) ==
    /\ status' = outcome
    /\ appliedHash' = hash
    /\ booted' = TRUE
    /\ pc' = "hash"

(* Bootstrap ignores that the file cannot be hashed.                       *)
BootstrapHash ==
    /\ ~booted
    /\ pc = "hash"
    /\ hash' \in {NoHash} \cup ({file} \ {Missing})
    /\ pc' = "load"
    /\ UNCHANGED <<file, edits, booted, doc, results, authn, status, appliedHash, cache, mode>>

(* Reload, called by Run on a tick, goes on only with a changed file that  *)
(* it can hash.                                                            *)
ReloadHash ==
    /\ booted
    /\ pc = "hash"
    /\ file \notin {Missing, appliedHash}
    /\ hash' = file
    /\ pc' = "load"
    /\ UNCHANGED <<file, edits, booted, doc, results, authn, status, appliedHash, cache, mode>>

(* Load reads the file again.                                              *)
Load ==
    /\ pc = "load"
    /\ file \in Contents
    /\ doc' = file
    /\ results' = <<>>
    /\ pc' = "fetch"
    /\ UNCHANGED <<file, edits, booted, hash, authn, status, appliedHash, cache, mode>>

(* Load fails on a content that it refuses, and on any when the read does. *)
BootstrapLoadFails ==
    /\ ~booted
    /\ pc = "load"
    /\ Recorded(Outcome(TRUE, <<>>, <<>>))
    /\ UNCHANGED <<file, edits, hash, doc, results, authn, cache, mode>>

ReloadLoadFails ==
    /\ booted
    /\ pc = "load"
    /\ pc' = "hash"
    /\ UNCHANGED <<file, edits, booted, hash, doc, results, authn, status, appliedHash, cache, mode>>

-----------------------------------------------------------------------------
(* fetchProvider, for the entries in their order.                          *)
Fetching == pc = "fetch" /\ Len(results) < Len(doc)
Entry == doc[Len(results) + 1]

Fetched(ok) ==
    /\ results' = Append(results, ok)
    /\ UNCHANGED <<file, edits, booted, pc, hash, doc, authn, status, appliedHash, mode>>

(* The keys are fetched from the address as it is written.                 *)
FetchWritten ==
    /\ Fetching
    /\ Entry.form # "invalid"
    /\ Entry.form = "issuer" => Entry.realm \notin Displays
    /\ Fetched(TRUE)
    /\ UNCHANGED cache

(* Discovery under a display name fails and works under the realm name     *)
(* that tenant-manager gives or gave.                                      *)
FetchResolved ==
    /\ Fetching
    /\ Entry.form = "issuer"
    /\ Entry.realm \in Displays
    /\ cache[Entry.realm] # "unknown"
    /\ cache' = [cache EXCEPT ![Entry.realm] = "known"]
    /\ Fetched(TRUE)

(* resolve keeps the first answer for a name.  A lookup that failed is     *)
(* kept like the answer that there is no such tenant, and so is a name     *)
(* that resolves to itself.                                                *)
Answers(realm) ==
    {[cache EXCEPT ![realm] = IF @ = "unasked" THEN answer ELSE @] :
        answer \in {"unknown"} \cup (IF realm \in Displays THEN {"known"} ELSE {})}

(* No request is made for an entry that validate refuses, and none can     *)
(* succeed for a name that is remembered as unknown.                       *)
Hopeless ==
    \/ Entry.form = "invalid"
    \/ Entry.form = "issuer" /\ Entry.realm \in Displays /\ cache[Entry.realm] = "unknown"

FetchRefused ==
    /\ Fetching
    /\ Hopeless
    /\ Fetched(FALSE)
    /\ UNCHANGED cache

(* Any request may fail, tenant-manager's included.                        *)
FetchFails ==
    /\ Fetching
    /\ ~Hopeless
    /\ cache' \in {cache} \cup (IF Entry.form = "issuer" THEN Answers(Entry.realm) ELSE {})
    /\ Fetched(FALSE)

-----------------------------------------------------------------------------
(* The rules on a fetch's outcome, shared by Reload and Evaluate.          *)
Count(oks) == Cardinality({i \in DOMAIN oks : oks[i]})
Threshold(n) == IF n = 0 THEN 0 ELSE IF mode = "strict" THEN n ELSE 1
RequiredIgnored(entries, oks) == FALSE
MissingRequired(entries, oks) == \E i \in DOMAIN entries : entries[i].required /\ ~oks[i]
Acceptable(entries, oks) ==
    /\ Count(oks) >= Threshold(Len(entries))
    /\ ~MissingRequired(entries, oks)

LastDropped ==
    [entries |-> doc, keys |-> {doc[i].id : i \in {j \in DOMAIN doc : results[j] /\ j < Len(doc)}}]
Document == [entries |-> doc, keys |-> {doc[i].id : i \in {j \in DOMAIN doc : results[j]}}]

EagerPublish ==
    /\ pc = "fetch"
    /\ Len(results) = Len(doc)
    /\ authn' = Document
    /\ pc' = IF booted /\ ~Acceptable(doc, results) THEN "hash" ELSE "record"
    /\ UNCHANGED <<file, edits, booted, hash, doc, results, status, appliedHash, cache, mode>>

(* publish: Bootstrap puts whatever was fetched, Reload only what meets    *)
(* the rules.                                                              *)
Publish ==
    /\ pc = "fetch"
    /\ Len(results) = Len(doc)
    /\ booted => Acceptable(doc, results)
    /\ authn' = Document
    /\ pc' = "record"
    /\ UNCHANGED <<file, edits, booted, hash, doc, results, status, appliedHash, cache, mode>>

(* Bootstrap logs a failed put and goes on, Reload gives up.               *)
PublishFails ==
    /\ IF booted THEN "Reload" \in StoreFails ELSE "Bootstrap" \in StoreFails
    /\ pc = "fetch"
    /\ Len(results) = Len(doc)
    /\ booted => Acceptable(doc, results)
    /\ pc' = IF booted THEN "hash" ELSE "record"
    /\ UNCHANGED <<file, edits, booted, hash, doc, results, authn, status, appliedHash, cache, mode>>

RejectedRemembered ==
    /\ booted
    /\ pc = "fetch"
    /\ Len(results) = Len(doc)
    /\ ~Acceptable(doc, results)
    /\ appliedHash' = hash
    /\ pc' = "hash"
    /\ UNCHANGED <<file, edits, booted, hash, doc, results, authn, status, cache, mode>>

ReloadRejected ==
    /\ booted
    /\ pc = "fetch"
    /\ Len(results) = Len(doc)
    /\ ~Acceptable(doc, results)
    /\ pc' = "hash"
    /\ UNCHANGED <<file, edits, booted, hash, doc, results, authn, status, appliedHash, cache, mode>>

Record ==
    /\ pc = "record"
    /\ Recorded(Outcome(FALSE, doc, results))
    /\ UNCHANGED <<file, edits, hash, doc, results, authn, cache, mode>>

Manage ==
    \/ BootstrapHash \/ ReloadHash
    \/ Load \/ BootstrapLoadFails \/ ReloadLoadFails
    \/ FetchWritten \/ FetchResolved \/ FetchRefused \/ FetchFails
    \/ Publish \/ PublishFails \/ ReloadRejected
    \/ Record

Next == Edit \/ Manage

Spec == Init /\ [][Next]_vars

(* Run's ticker goes on, and every request ends because the client has a   *)
(* timeout and a limit on its retries.                                     *)
FairSpec == Spec /\ WF_vars(Manage)

-----------------------------------------------------------------------------
(* Evaluate on the recorded status, as /health answers once the service    *)
(* listens.                                                                *)
Healthy ==
    /\ booted
    /\ ~status.configError
    /\ Acceptable(status.entries, status.success)

TypeOK ==
    /\ file \in Contents \cup {Malformed, Missing}
    /\ edits \in 0..MaxEdits
    /\ booted \in BOOLEAN
    /\ pc \in {"hash", "load", "fetch", "record"}
    /\ hash \in Contents \cup {Malformed, NoHash}
    /\ doc \in Contents \cup {<<>>}
    /\ results \in Seq(BOOLEAN) /\ Len(results) <= Len(doc)
    /\ authn.entries \in Contents \cup {<<>>}
    /\ authn.keys \subseteq {e.id : e \in Range(authn.entries)}
    /\ status.entries \in Contents \cup {<<>>}
    /\ Len(status.success) = Len(status.entries)
    /\ appliedHash \in Contents \cup {Malformed, NoHash}
    /\ cache \in [Realms -> {"unasked", "known", "unknown"}]
    /\ mode \in Modes

(***************************************************************************)
(* While /health answers 200, data.authn itself meets the rules for the    *)
(* list it was made from: every required provider, and as many as the mode *)
(* wants, have keys in it.  The status and the document are written in two *)
(* steps, so the document may be newer than the status that vouches for    *)
(* it.  (Bootstrap only logs a put that failed, so none is assumed to.)    *)
(***************************************************************************)
HealthyMeansKeys ==
    "Bootstrap" \notin StoreFails /\ Healthy =>
        Acceptable(authn.entries,
                   [i \in DOMAIN authn.entries |-> authn.entries[i].id \in authn.keys])

(***************************************************************************)
(* A provider that is listed as required, or any provider in strict mode,  *)
(* has its keys in every document that Run publishes, so a reload while it *)
(* does not answer never takes its previous keys away.                     *)
(***************************************************************************)
ReloadKeepsRequired ==
    [][booted /\ authn' # authn =>
          \A i \in DOMAIN authn'.entries :
              mode = "strict" \/ authn'.entries[i].required => authn'.entries[i].id \in authn'.keys]_vars

(* Nothing stands in the way of the keys of c.                             *)
Usable(c) ==
    \A e \in Range(c) :
        /\ e.form # "invalid"
        /\ e.form = "issuer" /\ e.realm \in Displays => cache[e.realm] # "unknown"

(* Bootstrap recorded under the hash of c that Load failed.                *)
GivenUp(c) == status.configError /\ appliedHash = c

(***************************************************************************)
(* The document comes to be made from the file: once the file stays at a   *)
(* content that Load accepts and whose entries are valid, and reads and    *)
(* requests no longer fail, data.authn is made from that content.  (Run    *)
(* does not repeat a put or a read that failed in Bootstrap once the       *)
(* content was hashed, so none is assumed to; nor does the resolver repeat *)
(* a lookup, so none of this content failed before.)                       *)
(***************************************************************************)
DocumentFollowsFile ==
    \A c \in Contents :
        <>[](file = c /\ Usable(c) /\ ~GivenUp(c))
        /\ <>[][~FetchFails /\ ~PublishFails /\ ~ReloadLoadFails]_vars
            => <>[](authn.entries = c)
=============================================================================
