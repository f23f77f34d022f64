---------------------------- MODULE PolicyReplica ----------------------------
(***************************************************************************)
(* What the agent's copy of the policy source promises the decisions: each *)
(* document is one the source has served, none is ever replaced by an      *)
(* older one, and the activation index inside the PIP document is always   *)
(* built from the policies that are in force when it is stored.            *)
(***************************************************************************)
EXTENDS Integers

CONSTANT NoDocument   \* the version of a document that was never stored

VARIABLES
    source,     \* versions the source serves: [policies, pips]
    policies,   \* version of data.policies
    pips        \* data.pips: its version and the policies its index is built from

vars == <<source, policies, pips>>

Init ==
    /\ source = [kind \in {"policies", "pips"} |-> 0]
    /\ policies = NoDocument
    /\ pips = [version |-> NoDocument, index |-> NoDocument]

(* The source changes one of its documents.                                *)
Change(kind) ==
    /\ source' = [source EXCEPT ![kind] = @ + 1]
    /\ UNCHANGED <<policies, pips>>

ReplacePolicies ==
    /\ policies' >= policies
    /\ policies' \in 0 .. source.policies
    /\ UNCHANGED <<source, pips>>

ReplacePIPs ==
    /\ pips'.version >= pips.version
    /\ pips'.version \in 0 .. source.pips
    /\ pips' = [version |-> pips'.version, index |-> policies]
    /\ UNCHANGED <<source, policies>>

Next ==
    \/ \E kind \in {"policies", "pips"} : Change(kind)
    \/ ReplacePolicies
    \/ ReplacePIPs

Spec == Init /\ [][Next]_vars
=============================================================================
