----------------------------- MODULE PolicyTree -----------------------------
(***************************************************************************)
(* The policy tree of one tenant (internal/policyir): the conditions and   *)
(* their parser (parse.go, cond.go, operand.go), what NewTree accepts      *)
(* (tree.go) and what Tree.Unsupported reports (unsupported.go).           *)
(*                                                                         *)
(* The text of a condition is a sequence of tokens <<kind, text>>: what    *)
(* the scanner cuts the text into, a token it cannot cut being "garbled".  *)
(* An absent text or condition is <<>>, a present one a sequence of one.   *)
(* The variable of an iterate, iterateN in the code, is the number N, and  *)
(* 0 is no variable.  Names, domains and predicate texts are left out.     *)
(***************************************************************************)
EXTENDS Integers, Sequences, FiniteSets, SequencesExt

CONSTANT SubjectNames  \* the PIP names that start with "subject."

Algorithms == {"", "DENY_OVERRIDES", "PERMIT_OVERRIDES", "DENY_UNLESS_PERMIT", "PERMIT_UNLESS_DENY"}

Effects == {"", "ALLOW", "DENY", "NOT_APPLICABLE", "USE_FILTER_CONDITION"}

PIPTypes == {"GENERAL", "FILTERED", "HEADER", "TOKEN", "MAPPING", "PERMISSION_SCOPE"}

Literals == {"string", "number", "bool"}

\* The operators by the spellings the parser takes: one or more of each class
\* of operator that parsing tells apart.
OpWords == [w \in {"==", "EQUALS", "=", "!=", "<", "IS NULL", "IN", "CONTAINS", "CONTAINS ANY", "MATCH"} |->
              CASE w \in {"==", "EQUALS", "="} -> "EQ" [] w = "!=" -> "NE" [] w = "<" -> "LT"
                [] w = "IS NULL" -> "IS_NULL" [] w = "IN" -> "IN" [] w = "CONTAINS" -> "CONTAINS"
                [] w = "CONTAINS ANY" -> "CONTAINS_ANY" [] w = "MATCH" -> "MATCH"]

Unary(op) == op = "IS_NULL"

TakesList(op) == op \in {"IN", "CONTAINS_ANY"}

Refused == <<>>

\* An operand: inside an iterate a permission scope reads the value of the pass.
ScopeOperand(token, iterVar) ==
  IF iterVar # 0 THEN <<"pass", iterVar, token[2]>> ELSE <<"subject", "permissionScope", token[2]>>

OperandOf(token, iterVar) ==
  CASE token[1] \in Literals \cup {"operation", "resourceType", "entitled"} -> token
    [] token[1] = "scope" -> ScopeOperand(token, iterVar)
    [] token[1] = "attr" -> <<"subject", token[2], "">>
    [] token[1] = "pip" -> <<"pip", token[2], FALSE>>
    [] token[1] = "path" -> <<"resource", token[2]>>
    [] token[1] = "badpath" -> <<"unsupported", "jsonpath", <<token>>>>
    [] OTHER -> Refused

\* The right operand of MATCH: an attribute or a wildcard, kept as its text.
PatternOf(token) ==
  IF token[1] \in {"path", "badpath", "wildcard"} THEN <<"pattern", token[2]>> ELSE Refused

\* A list: literals of one kind, a comma between every two.
ListOf(tokens) ==
  LET items == SelectSeq(tokens, LAMBDA t : t[1] # "comma")
  IN IF /\ \A k \in DOMAIN tokens : (tokens[k][1] = "comma") = (k % 2 = 0)
        /\ Len(tokens) % 2 = 1
        /\ \E kind \in Literals : \A k \in DOMAIN items : items[k][1] = kind
     THEN <<"list", items>> ELSE Refused

\* The right operand and what follows it, up to the next connective.
RightOf(op, tokens, iterVar) ==
  IF op = "MATCH" /\ Len(tokens) = 1 THEN PatternOf(tokens[1])
  ELSE IF op = "MATCH" THEN Refused
  ELSE IF TakesList(op) /\ tokens[1][1] \in Literals THEN ListOf(tokens)
  ELSE IF Len(tokens) = 2 /\ tokens[1][1] = "pip" /\ tokens[2][1] = "filtered" THEN <<"pip", tokens[1][2], TRUE>>
  ELSE IF Len(tokens) = 1 THEN OperandOf(tokens[1], iterVar)
  ELSE Refused

(***************************************************************************)
(* One conjunct (parser.atom): a constant, subject.isM2M, an access check, *)
(* or a comparison.                                                        *)
(***************************************************************************)
Comparison(op, left, right) ==
  IF Refused \in {left, right} THEN Refused ELSE <<"compare", op, left, right>>

CompareOf(tokens, op, iterVar) ==
  Comparison(op, OperandOf(tokens[1], iterVar),
    IF Unary(op) THEN (IF Len(tokens) = 2 THEN <<"none">> ELSE Refused)
    ELSE IF Len(tokens) = 2 THEN Refused
    ELSE RightOf(op, SubSeq(tokens, 3, Len(tokens)), iterVar))

AtomOf(tokens, iterVar) ==
  CASE Len(tokens) = 1 /\ tokens[1][1] = "bool" -> <<"const", tokens[1][2]>>
    [] Len(tokens) = 1 /\ tokens[1] = <<"attr", "isM2M">> -> <<"isM2M", "">>
    [] Len(tokens) = 1 /\ tokens[1][1] = "access" -> <<"access", tokens[1][2]>>
    [] Len(tokens) >= 2 /\ tokens[2][1] = "op" -> CompareOf(tokens, OpWords[tokens[2][2]], iterVar)
    [] OTHER -> Refused

\* The parts of a text between the tokens equal to sep.
Between(text, cuts) == [k \in 1..Len(cuts) - 1 |-> SubSeq(text, cuts[k] + 1, cuts[k + 1] - 1)]

Parts(text, sep) == Between(text, SetToSortSeq({0, Len(text) + 1} \cup {k \in DOMAIN text : text[k] = sep}, <))

\* ParseCondition: the disjuncts of a text, or Refused; an empty text is true.
Conjuncts(parts, iterVar) == [n \in DOMAIN parts |-> AtomOf(parts[n], iterVar)]

Disjuncts(parts, iterVar) == [k \in DOMAIN parts |-> Conjuncts(Parts(parts[k], <<"word", "AND">>), iterVar)]

AllRead(disjuncts) == IF \E k \in DOMAIN disjuncts : Refused \in Range(disjuncts[k]) THEN Refused ELSE disjuncts

ParseCondition(text, iterVar) ==
  IF text = <<>> THEN <<<<<<"const", "true">>>>>>
  ELSE AllRead(Disjuncts(Parts(text, <<"word", "OR">>), iterVar))

\* condition: a text the parser refuses becomes one unsupported atom.
OrUnsupported(parsed, text) == IF parsed = Refused THEN <<<<<<"unsupported", "syntax", text>>>>>> ELSE parsed

Condition(text, place, iterVar) ==
  [k \in DOMAIN text |-> [place |-> place, disjuncts |-> OrUnsupported(ParseCondition(text[k], iterVar), text[k])]]

-----------------------------------------------------------------------------
(***************************************************************************)
(* What NewTree accepts.                                                   *)
(***************************************************************************)
Atoms(condition) ==
  UNION {UNION {Range(condition[k].disjuncts[n]) : n \in DOMAIN condition[k].disjuncts} : k \in DOMAIN condition}

ValidOperand(o) ==
  CASE o[1] = "pass" -> o[2] # 0 /\ o[3] # ""
    [] o[1] = "subject" -> (o[2] = "permissionScope") = (o[3] # "")
    [] o[1] = "list" -> o[2] # <<>> /\ \A k \in DOMAIN o[2] : o[2][k][1] = o[2][1][1]
    [] o[1] = "unsupported" -> o[3] # <<>>
    [] OTHER -> TRUE

ValidCompare(op, left, right) ==
  /\ ValidOperand(left) /\ left[1] \notin {"list", "pattern"} /\ (left[1] = "pip" => ~left[3])
  /\ IF Unary(op) THEN right = <<"none">>
     ELSE /\ right # <<"none">> /\ ValidOperand(right)
          /\ right[1] # "unsupported" =>
               /\ (op = "MATCH") = (right[1] = "pattern")
               /\ right[1] = "list" => TakesList(op)
               /\ right[1] \in Literals => ~TakesList(op)

ValidAtom(a) ==
  CASE a[1] = "compare" -> ValidCompare(a[2], a[3], a[4])
    [] a[1] = "unsupported" -> a[3] # <<>>
    [] OTHER -> a[1] \in {"const", "isM2M", "access"}

\* checker.condition: bound are the variables of the iterates around the node.
ValidCondition(condition, place, bound) ==
  \A k \in DOMAIN condition :
    /\ condition[k].place = place
    /\ condition[k].disjuncts # <<>>
    /\ \A n \in DOMAIN condition[k].disjuncts : condition[k].disjuncts[n] # <<>>
    /\ \A a \in Atoms(condition) :
         /\ ValidAtom(a)
         /\ a[1] = "compare" => \A o \in {a[3], a[4]} :
              /\ o[1] = "pass" => o[2] \in bound
              /\ o[1] = "subject" /\ o[2] = "permissionScope" => bound = {}

ValidPolicy(p, bound) ==
  /\ p.algorithm \in Algorithms
  /\ ValidCondition(p.target, "policy_target", bound)
  /\ \A k \in DOMAIN p.rules :
       /\ p.rules[k].effect \in Effects
       /\ ValidCondition(p.rules[k].target, "rule_target", bound)
       /\ ValidCondition(p.rules[k].condition, "rule_condition", bound)

NoIterate == [var |-> 0, algorithm |-> ""]

Childless(s) == s.iterate = NoIterate /\ s.policies = <<>> /\ s.sets = <<>>

RECURSIVE ValidSet(_, _)
ValidSet(s, bound) ==
  LET inner == bound \cup ({s.iterate.var} \ {0})
  IN /\ s.algorithm \in Algorithms
     /\ s.alwaysFails \/ s.isolated => Childless(s) /\ ~(s.alwaysFails /\ s.isolated)
     /\ ValidCondition(s.target, "set_target", bound)
     /\ s.iterate # NoIterate => s.iterate.var # 0 /\ s.iterate.algorithm \in Algorithms \ {""}
     /\ \A k \in DOMAIN s.policies : ValidPolicy(s.policies[k], inner)
     /\ \A k \in DOMAIN s.sets : ValidSet(s.sets[k], inner)

\* The variables the iterates of a sequence of sets bind, with repetitions.
RECURSIVE IterateVars(_)
IterateVars(sets) ==
  FlattenSeq([k \in DOMAIN sets |->
    (IF sets[k].iterate = NoIterate THEN <<>> ELSE <<sets[k].iterate.var>>) \o IterateVars(sets[k].sets)])

ValidPips(pips) ==
  /\ \A k \in DOMAIN pips : pips[k].name \in SubjectNames
  /\ \A k, n \in DOMAIN pips : pips[k].name = pips[n].name => k = n
  /\ \A k \in DOMAIN pips : ~pips[k].isolated => pips[k].type \in PIPTypes
  /\ \A k \in DOMAIN pips : pips[k].isolated => pips[k].type = "" /\ pips[k].unsupported = {}

ValidNodes(tree) ==
  /\ \A k \in DOMAIN tree.simplified : \A n \in DOMAIN tree.simplified[k].policies :
       ValidCondition(tree.simplified[k].policies[n].condition, "simplified", {})
  /\ \A k \in DOMAIN tree.sets : ValidSet(tree.sets[k], {})
  /\ IsInjective(IterateVars(tree.sets))

Valid(tree) == ValidPips(tree.pips) /\ ValidNodes(tree)

-----------------------------------------------------------------------------
(***************************************************************************)
(* Tree.Unsupported: the forms the agent cannot execute, each with the     *)
(* path of its node.  A label carries the position of the node only where  *)
(* a sibling has the same identifier.                                      *)
(***************************************************************************)
IdLabel(nodes, k) == <<nodes[k].id, 0>>

Label(nodes, k) ==
  IF \E n \in DOMAIN nodes \ {k} : nodes[n].id = nodes[k].id THEN <<nodes[k].id, k>> ELSE <<nodes[k].id, 0>>

ConditionFindings(where, condition) ==
  {<<where, u[2]>> : u \in {x \in Atoms(condition)
       \cup UNION {{a[3], a[4]} : a \in {x \in Atoms(condition) : x[1] = "compare"}} : x[1] = "unsupported"}}

RuleFindings(where, rule) ==
  ConditionFindings(Append(where, "target"), rule.target) \cup ConditionFindings(Append(where, "condition"), rule.condition)

PolicyFindings(where, p) ==
  ConditionFindings(Append(where, "target"), p.target)
    \cup UNION {RuleFindings(where \o <<"rule", Label(p.rules, k)>>, p.rules[k]) : k \in DOMAIN p.rules}

RECURSIVE SetFindings(_, _, _)
SetFindings(where, s, iterating) ==
  LET inner == iterating \/ s.iterate # NoIterate
  IN (IF iterating /\ s.iterate # NoIterate THEN {<<where, "nested-iterate">>} ELSE {})
       \cup ConditionFindings(Append(where, "target"), s.target)
       \cup UNION {PolicyFindings(where \o <<"policy", Label(s.policies, k)>>, s.policies[k]) : k \in DOMAIN s.policies}
       \cup UNION {SetFindings(where \o <<"set", Label(s.sets, k)>>, s.sets[k], inner) : k \in DOMAIN s.sets}

GroupFindings(where, g) ==
  UNION {ConditionFindings(where \o <<"policy", Label(g.policies, k)>>, g.policies[k].condition) : k \in DOMAIN g.policies}

\* A group is labelled by its resource type, a set by its identifier.
GroupLabels(groups) == [k \in DOMAIN groups |-> [id |-> groups[k].resourceType]]

Unsupported(tree) ==
  {<<<<"pip", tree.pips[k].name>>, "pip-extension">> : k \in {n \in DOMAIN tree.pips : tree.pips[n].unsupported # {}}}
    \cup UNION {GroupFindings(<<"simplified", Label(GroupLabels(tree.simplified), k)>>, tree.simplified[k]) :
                  k \in DOMAIN tree.simplified}
    \cup UNION {SetFindings(<<"set", Label(tree.sets, k)>>, tree.sets[k], FALSE) : k \in DOMAIN tree.sets}
=============================================================================
