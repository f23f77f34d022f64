--------------------------- MODULE ConditionParser --------------------------
(***************************************************************************)
(* ParseCondition (internal/simplifiedpolicies/parser.go): the recursive   *)
(* descent that turns the tokens of a condition into the tree rls.rego     *)
(* reads.  A token is a pair of its type and its value.  A word that names *)
(* an attribute is a "ref" token with its scope and path, a chain          *)
(* subject.entitledResources.of(...).as(...) an "of" token with its type   *)
(* and names, and a number or a chain that cannot be read is "malformed";  *)
(* keywords, which match in any case, are written in upper case.  Cutting  *)
(* the text into tokens is not modelled.                                   *)
(***************************************************************************)
EXTENDS RlsCondition, SequencesExt

Word(s) == <<"word", s>>
String(s) == <<"string", s>>
Numeral(n) == <<"number", n>>
Open == <<"lparen", "(">>
Close == <<"rparen", ")">>
Comma == <<"comma", ",">>
EndOfText == <<"eof", "">>

Peek(tokens) == IF tokens = <<>> THEN EndOfText ELSE Head(tokens)

(* What a function of the parser returns: a node and the tokens it has     *)
(* left, or an error.                                                      *)
Parsed(node, rest) == [ok |-> TRUE, node |-> node, rest |-> rest]
Refused == [ok |-> FALSE]

Const(v) == [const |-> v]
Ref(scope, path) == [ref |-> [scope |-> scope, path |-> path]]
Node(op, args) == [op |-> op, args |-> args]
Negate(op, args) == Node("not", <<Node(op, args)>>)

-----------------------------------------------------------------------------
(* matchWords and matchSymbol                                              *)
MatchWords(words, tokens) ==
    /\ Len(words) <= Len(tokens)
    /\ \A i \in DOMAIN words : tokens[i] = Word(words[i])

MatchWord(word, tokens) == MatchWords(<<word>>, tokens)

(* parseOperand: any word that is not a reference is a constant, a keyword *)
(* too.                                                                    *)
Operand(token, rest) ==
    CASE token[1] \in {"string", "regex"} -> Parsed(Const(Text(token[2])), rest)
      [] token[1] = "number" -> Parsed(Const(Number(token[2])), rest)
      [] token \in {Word("true"), Word("false")} ->
            Parsed(Const(Boolean(token = Word("true"))), rest)
      [] token[1] = "word" /\ token[2] \notin {"true", "false"} ->
            Parsed(Const(Text(token[2])), rest)
      [] token[1] = "ref" -> Parsed([ref |-> token[2]], rest)
      [] token[1] = "of" ->
            Parsed([ref |-> [scope |-> "entitlements", resourceType |-> token[2].resourceType,
                             names |-> token[2].names]], rest)
      [] OTHER -> Refused

ParseOperand(tokens) == Operand(Peek(tokens), Tail(tokens))

(* A node before the nodes that are read after it, if they can be read.    *)
Before(node, others) ==
    IF others.ok THEN Parsed(<<node>> \o others.node, others.rest) ELSE Refused

(* The constants of a list, separated by commas.                           *)
RECURSIVE Literals(_), LiteralsFrom(_)
LiteralsFrom(first) ==
    IF ~first.ok
    THEN Refused
    ELSE IF "const" \notin DOMAIN first.node
    THEN Refused
    ELSE IF Peek(first.rest) # Comma
    THEN Parsed(<<first.node.const>>, first.rest)
    ELSE Before(first.node.const, Literals(Tail(first.rest)))

Literals(tokens) == LiteralsFrom(ParseOperand(tokens))

(* parseMultiRightOperand: a reference alone, or a list of constants.      *)
ReferenceOrList(first, list) ==
    IF first.ok /\ ~list.ok
    THEN IF "ref" \in DOMAIN first.node /\ Peek(first.rest) # Comma THEN first ELSE Refused
    ELSE IF list.ok THEN Parsed(Const(Array(list.node)), list.rest) ELSE Refused

ParseMultiRightOperand(tokens) == ReferenceOrList(ParseOperand(tokens), Literals(tokens))

(* The cases of parseComparison in their order: the words, the operator,   *)
(* whether it is negated, and what stands on the right.                    *)
Operators ==
    <<<<<<"NOT", "CONTAINS", "ANY">>, "contains_any", TRUE, "list">>,
      <<<<"NOT", "CONTAINS">>, "contains", TRUE, "operand">>,
      <<<<"NOT", "EQUALS">>, "neq", FALSE, "operand">>,
      <<<<"NOT", "IN">>, "in", TRUE, "list">>,
      <<<<"NOT", "MATCH">>, "match", TRUE, "operand">>,
      <<<<"IS", "NOT", "EMPTY">>, "is_empty", TRUE, "nothing">>,
      <<<<"IS", "NOT", "NULL">>, "is_null", TRUE, "nothing">>,
      <<<<"IS", "NOT", "SUBSET">>, "is_subset", TRUE, "list">>,
      <<<<"CONTAINS", "ANY">>, "contains_any", FALSE, "list">>,
      <<<<"CONTAINS">>, "contains", FALSE, "operand">>,
      <<<<"EQUALS">>, "eq", FALSE, "operand">>,
      <<<<"==">>, "eq", FALSE, "operand">>,
      <<<<"=">>, "eq", FALSE, "operand">>,
      <<<<"!=">>, "neq", FALSE, "operand">>,
      <<<<"IN">>, "in", FALSE, "list">>,
      <<<<"MATCH">>, "match", FALSE, "operand">>,
      <<<<"IS", "EMPTY">>, "is_empty", FALSE, "nothing">>,
      <<<<"IS", "NULL">>, "is_null", FALSE, "nothing">>,
      <<<<"IS", "SUBSET">>, "is_subset", FALSE, "list">>,
      <<<<"GREATER", "THAN", "OR", "EQUALS", "TO">>, "gte", FALSE, "operand">>,
      <<<<"GREATER", "THAN", "OR", "EQUAL", "TO">>, "gte", FALSE, "operand">>,
      <<<<">=">>, "gte", FALSE, "operand">>,
      <<<<"GREATER", "THAN">>, "gt", FALSE, "operand">>,
      <<<<">">>, "gt", FALSE, "operand">>,
      <<<<"LESS", "THAN", "OR", "EQUALS", "TO">>, "lte", FALSE, "operand">>,
      <<<<"LESS", "THAN", "OR", "EQUAL", "TO">>, "lte", FALSE, "operand">>,
      <<<<"<=">>, "lte", FALSE, "operand">>,
      <<<<"LESS", "THAN">>, "lt", FALSE, "operand">>,
      <<<<"<">>, "lt", FALSE, "operand">>>>

MatchingRows(tokens) == {i \in DOMAIN Operators : MatchWords(Operators[i][1], tokens)}

(* parseComparison                                                         *)
RightOperand(row, tokens) ==
    CASE row[4] = "nothing" -> Parsed(<<>>, tokens)
      [] row[4] = "operand" -> ParseOperand(tokens)
      [] row[4] = "list" -> ParseMultiRightOperand(tokens)

Operation(row, args) == IF row[3] THEN Negate(row[2], args) ELSE Node(row[2], args)

ComparisonNode(left, row, right) ==
    IF right.ok
    THEN Parsed(Operation(row, <<left>> \o (IF row[4] = "nothing" THEN <<>> ELSE <<right.node>>)), right.rest)
    ELSE Refused

CompareWith(left, row) ==
    ComparisonNode(left.node, row, RightOperand(row, SubSeq(left.rest, Len(row[1]) + 1, Len(left.rest))))

CompareFrom(left) ==
    IF ~left.ok
    THEN Refused
    ELSE IF MatchingRows(left.rest) = {}
    THEN Refused
    ELSE CompareWith(left, Operators[Min(MatchingRows(left.rest))])

ParseComparison(tokens) == CompareFrom(ParseOperand(tokens))

(* lookaheadHasAccess and parseHasAccess, whose operation may be spelled   *)
(* by any word and whose last word may be quoted.                          *)
LooksLikeHasAccess(tokens) ==
    /\ Len(tokens) >= 4
    /\ tokens[1] = Word("subject")
    /\ tokens[2] \in {Word("allowed"), Word("denied")}
    /\ tokens[4] = Word("ON")

ParseHasAccess(tokens) ==
    IF /\ tokens[3][1] \in {"string", "word", "ref", "of"}
       /\ Len(tokens) >= 5
       /\ tokens[5] \in {Word("resource"), String("resource")}
    THEN Parsed(Node("has_access", <<Const(Text(tokens[2][2])), Const(Text(tokens[3][2])),
                                     Const(Text("resource")), Const(Number(1))>>),
                SubSeq(tokens, 6, Len(tokens)))
    ELSE Refused

RECURSIVE ParseOr(_), ParseAnd(_), ParsePrimary(_), Operands(_, _), OperandsFrom(_, _)

(* The operands that a level joins by its word.                            *)
OperandsFrom(word, first) ==
    IF ~first.ok
    THEN Refused
    ELSE IF ~MatchWord(word, first.rest)
    THEN Parsed(<<first.node>>, first.rest)
    ELSE Before(first.node, Operands(word, Tail(first.rest)))

Operands(word, tokens) ==
    OperandsFrom(word, IF word = "OR" THEN ParseAnd(tokens) ELSE ParsePrimary(tokens))

(* One operand stands for itself.                                          *)
Join(op, read) ==
    IF read.ok
    THEN Parsed(IF Len(read.node) = 1 THEN read.node[1] ELSE Node(op, read.node), read.rest)
    ELSE Refused

ParseOr(tokens) == Join("or", Operands("OR", tokens))

ParseAnd(tokens) == Join("and", Operands("AND", tokens))

Enclosed(inner) ==
    IF ~inner.ok
    THEN Refused
    ELSE IF Peek(inner.rest) = Close THEN Parsed(inner.node, Tail(inner.rest)) ELSE Refused

ParsePrimary(tokens) ==
    IF Peek(tokens) = Open
    THEN Enclosed(ParseOr(Tail(tokens)))
    ELSE IF LooksLikeHasAccess(tokens)
    THEN ParseHasAccess(tokens)
    ELSE IF Peek(tokens) \in {Word("true"), Word("false")}
    THEN Parsed(Const(Boolean(Head(tokens) = Word("true"))), Tail(tokens))
    ELSE ParseComparison(tokens)

AnyPrefix(tokens) == ParseOr(tokens)

(* ParseCondition: the whole text is one expression.                       *)
Whole(read) == IF read.ok /\ read.rest = <<>> THEN read ELSE Refused

ParseCondition(tokens) == Whole(ParseOr(tokens))

-----------------------------------------------------------------------------
(* walk() in _arg_has_failed_pip_ref, and scanASTForSubjectRefs.           *)
RECURSIVE WalkedRefs(_)
WalkedRefs(node) ==
    IF "ref" \in DOMAIN node
    THEN {node.ref}
    ELSE IF "args" \in DOMAIN node THEN UNION {WalkedRefs(arg) : arg \in Range(node.args)} ELSE {}

(* Everything below a node, the node included.                             *)
RECURSIVE Below(_)
Below(node) ==
    {node} \cup (IF "args" \in DOMAIN node THEN UNION {Below(arg) : arg \in Range(node.args)} ELSE {})

RECURSIVE TreeHeight(_)
TreeHeight(node) ==
    IF "args" \in DOMAIN node THEN 1 + Max({TreeHeight(arg) : arg \in Range(node.args)}) ELSE 0

-----------------------------------------------------------------------------
(* How a tree is written: operands bare, operators in their first spelling *)
(* and parentheses where a level needs them.                               *)
ConstantText(value) ==
    CASE value[1] = "string" -> <<String(value[2])>>
      [] value[1] = "number" -> <<Numeral(value[2])>>
      [] value[1] = "boolean" -> <<Word(IF value[2] THEN "true" ELSE "false")>>

OperandText(arg) ==
    IF "ref" \in DOMAIN arg
    THEN IF arg.ref.scope = "entitlements"
         THEN <<<<"of", [resourceType |-> arg.ref.resourceType, names |-> arg.ref.names]>>>>
         ELSE <<<<"ref", arg.ref>>>>
    ELSE IF arg.const[1] = "array"
    THEN LET list == arg.const[2]
         IN  Tail(FlattenSeq([i \in DOMAIN list |-> <<Comma>> \o ConstantText(list[i])]))
    ELSE ConstantText(arg.const)

OperatorText(op, negated) ==
    LET row == Min({i \in DOMAIN Operators : Operators[i][2] = op /\ Operators[i][3] = negated})
    IN  [i \in DOMAIN Operators[row][1] |-> Word(Operators[row][1][i])]

ComparisonText(node, negated) ==
    IF node.op = "has_access"
    THEN <<Word("subject"), Word(node.args[1].const[2]), String(node.args[2].const[2]), Word("ON"),
           Word("resource")>>
    ELSE OperandText(node.args[1]) \o OperatorText(node.op, negated)
         \o (IF Len(node.args) = 2 THEN OperandText(node.args[2]) ELSE <<>>)

RECURSIVE Written(_)
Written(node) ==
    LET part(arg, within) ==
            IF "op" \in DOMAIN arg /\ arg.op \in within
            THEN <<Open>> \o Written(arg) \o <<Close>> ELSE Written(arg)
        joined(word, within) ==
            Tail(FlattenSeq([i \in DOMAIN node.args |-> <<Word(word)>> \o part(node.args[i], within)]))
    IN  IF "const" \in DOMAIN node
        THEN OperandText(node)
        ELSE CASE node.op = "or" -> joined("OR", {"or"})
               [] node.op = "and" -> joined("AND", {"or", "and"})
               [] node.op = "not" -> ComparisonText(node.args[1], TRUE)
               [] OTHER -> ComparisonText(node, FALSE)
=============================================================================
