--------------------------- MODULE DurableRegistry ---------------------------
(***************************************************************************)
(* What the policy-admin store promises its readers: a registry of         *)
(* collections in which nothing is served that was not made durable first. *)
(* A change is two steps, Persist and then Publish; a change that is       *)
(* refused may stop after the first.  A stop loses what is served, and a   *)
(* recovery serves what is durable, except what it could not read.         *)
(***************************************************************************)
CONSTANTS
    Keys,        \* what the registry is indexed by
    Values,      \* the collections
    Absent       \* no collection

VARIABLES
    available,   \* the registry answers readers
    served,      \* what readers get, per key
    durable      \* what a recovery will serve, per key

vars == <<available, served, durable>>

Init ==
    /\ available = FALSE
    /\ served = [k \in Keys |-> Absent]
    /\ durable = [k \in Keys |-> Absent]

Persist(k, v) ==
    /\ available
    /\ durable' = [durable EXCEPT ![k] = v]
    /\ UNCHANGED <<available, served>>

Publish(k) ==
    /\ available
    /\ served' = [served EXCEPT ![k] = durable[k]]
    /\ UNCHANGED <<available, durable>>

Stop ==
    /\ available
    /\ available' = FALSE
    /\ served' = [k \in Keys |-> Absent]
    /\ UNCHANGED durable

Recover(unreadable) ==
    /\ ~available
    /\ available' = TRUE
    /\ served' = [k \in Keys |-> IF k \in unreadable THEN Absent ELSE durable[k]]
    /\ UNCHANGED durable

Next ==
    \/ \E k \in Keys, v \in Values : Persist(k, v)
    \/ \E k \in Keys : Publish(k)
    \/ Stop
    \/ \E unreadable \in SUBSET Keys : Recover(unreadable)

Spec == Init /\ [][Next]_vars
=============================================================================
