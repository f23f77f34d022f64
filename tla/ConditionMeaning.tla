-------------------------- MODULE ConditionMeaning --------------------------
(***************************************************************************)
(* What a condition says, for trees of any depth, and the two levels to    *)
(* which rls.rego follows it.                                              *)
(***************************************************************************)
EXTENDS RlsDecision

Combines(node) == "op" \in DOMAIN node /\ node.op \in {"and", "or", "not"}

(* The Boolean reading of a tree.                                          *)
Reading(means, node, context) ==
    IF ~Combines(node)
    THEN LeafAllows(node, context)
    ELSE CASE node.op = "and" -> \A arg \in Range(node.args) : means[arg]
           [] node.op = "or" -> \E arg \in Range(node.args) : means[arg]
           [] node.op = "not" -> ~means[node.args[1]]

Meaning(context) ==
    LET means[node \in Nodes] == Reading(means, node, context) IN means

(* No "and", "or" or "not" is below two others.                            *)
TwoLevels(node) ==
    Combines(node) =>
        \A arg \in Range(node.args) :
            Combines(arg) => \A inner \in Range(arg.args) : ~Combines(inner)

(***************************************************************************)
(* With every PIP resolved, a condition the parser accepts holds in        *)
(* rls.rego only if it holds as written, and exactly if so when it nests   *)
(* no deeper than the two levels rls.rego unfolds; below them a nested     *)
(* expression counts as not met.                                           *)
(***************************************************************************)
ConditionMeansText ==
    answer # NoAnswer /\ FailedPips(request.context) = {} =>
        \A p \in {q \in done : q.condition \notin {True, False, NoCondition, Unparsable}} :
            LET holds == ConditionAllows(p.condition, request.context)
                means == Meaning(request.context)[p.condition]
            IN  /\ holds => means
                /\ means /\ TwoLevels(p.condition) => holds
=============================================================================
