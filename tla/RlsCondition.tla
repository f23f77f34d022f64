---------------------------- MODULE RlsCondition ----------------------------
(***************************************************************************)
(* The conditions of row-level rules: the values policies/rls.rego reads,  *)
(* its operators, its evaluator of a parsed condition, and the trees the   *)
(* parser of internal/simplifiedpolicies builds.                           *)
(*                                                                         *)
(* A JSON value is a pair of its type and its content, so that values of   *)
(* different types compare as different.  An expression that Rego leaves   *)
(* undefined is Undefined.  A node of a condition is a record of an        *)
(* operator and its arguments, an operand a record of a constant or of a   *)
(* reference, as in the JSON of conditionAst.                              *)
(*                                                                         *)
(* A context holds the attributes of the resource, the subject with the    *)
(* values of its PIPs, and data.pip.known_pip_aliases.                     *)
(***************************************************************************)
EXTENDS Integers, Sequences, Functions, FiniteSetsExt

CONSTANTS
    Key,         \* normalizeKey on the names that occur
    Lower,       \* lower() on the strings that occur
    Numerals,    \* the strings to_number accepts, with their number
    Matching,    \* the pairs of strings for which pattern_match succeeds
    Nodes,       \* the parsed conditions and everything below them
    Refs(_),     \* the references walk() finds below a node, constants left out
    Height(_)    \* the height of the tree below a node

Null == <<"null", 0>>
Undefined == <<"undefined", 0>>
EmptyObject == <<"object", [key \in {} |-> Null]>>
Text(s) == <<"string", s>>
Number(n) == <<"number", n>>
Boolean(b) == <<"boolean", b>>
Array(s) == <<"array", s>>
Object(f) == <<"object", f>>

IsText(v) == v[1] = "string"
IsArray(v) == v[1] = "array"

-----------------------------------------------------------------------------
(* object.get(value, key, default): an error, so undefined, on a value     *)
(* that is not an object.                                                  *)
Get(value, key, default) ==
    IF value[1] # "object"
    THEN Undefined
    ELSE IF key \in DOMAIN value[2] THEN value[2][key] ELSE default

(* path_lookup, which gives up on paths of more than six segments.         *)
Inner(value, path, i) == IF i < Len(path) THEN Get(value, path[i], EmptyObject) ELSE value

PathLookup(base, path) ==
    CASE Len(path) = 0 -> base
      [] Len(path) > 6 -> Null
      [] OTHER -> Get(Inner(Inner(Inner(Inner(Inner(base, path, 1), path, 2), path, 3), path, 4),
                            path, 5),
                      path[Len(path)], Null)

(* entitlement_ref_value: the union of the named buckets, sorted; the      *)
(* order of the ids is of no consequence to the operators.                 *)
EntitledIds(ref, subject) ==
    LET bucket == Get(Get(subject, "entitledResources", EmptyObject), ref.resourceType,
                      EmptyObject)
        ids == UNION {Range(Get(bucket, name, Array(<<>>))[2]) : name \in Range(ref.names)}
    IN  Array(CHOOSE list \in Bijection(1..Cardinality(ids), ids) : TRUE)

(* _is_failed_pip_ref: a known alias that the subject does not have.       *)
IsFailedPipRef(ref, context) ==
    /\ ref.scope = "subject"
    /\ Len(ref.path) >= 1
    /\ ref.path[1] \in context.aliases
    /\ ref.path[1] \notin DOMAIN context.subject[2]

(* ref_value                                                               *)
RefValue(ref, context) ==
    CASE ref.scope = "entitlements" -> EntitledIds(ref, context.subject)
      [] ref.scope = "resource" -> PathLookup(context.resource, ref.path)
      [] ref.scope = "subject" -> PathLookup(context.subject, ref.path)

(* arg_value                                                               *)
ArgValue(arg, context) ==
    IF "ref" \in DOMAIN arg
    THEN IF IsFailedPipRef(arg.ref, context) THEN Undefined ELSE RefValue(arg.ref, context)
    ELSE arg.const

-----------------------------------------------------------------------------
(* values_equal: strings regardless of case, everything else exactly.      *)
ValuesEqual(left, right) ==
    IF IsText(left) /\ IsText(right)
    THEN Lower[left[2]] = Lower[right[2]]
    ELSE left = right

(* as_array                                                                *)
AsArray(value) ==
    CASE IsArray(value) -> value[2]
      [] value = Null -> <<>>
      [] OTHER -> <<value>>

(* contains_value, contains_any_value, in_value and is_subset_value        *)
ContainsValue(left, right) == \E v \in Range(AsArray(left)) : ValuesEqual(v, right)
ContainsAnyValue(left, right) == \E v \in Range(AsArray(right)) : ContainsValue(left, v)
IsSubsetValue(left, right) == \A v \in Range(AsArray(left)) : ContainsValue(Array(AsArray(right)), v)

(* is_empty_value                                                          *)
IsEmpty(value) ==
    \/ IsArray(value) /\ value[2] = <<>>
    \/ value[1] = "object" /\ DOMAIN value[2] = {}
    \/ value = Text("")

(* to_number: null and false count as 0, true as 1, a string only when it  *)
(* spells a number.                                                        *)
IsNumeric(v) ==
    v[1] \in {"number", "boolean", "null"} \/ (IsText(v) /\ v[2] \in DOMAIN Numerals)
ToNumber(v) ==
    CASE v[1] = "number" -> v[2]
      [] v = Null -> 0
      [] v[1] = "boolean" -> IF v[2] THEN 1 ELSE 0
      [] OTHER -> Numerals[v[2]]

Compared(op, left, right) ==
    CASE op = "gt" -> left > right
      [] op = "gte" -> left >= right
      [] op = "lt" -> left < right
      [] op = "lte" -> left <= right

HasAccess(mode, depth) == ValuesEqual(mode, Text("allowed")) /\ IsNumeric(depth) /\ ToNumber(depth) <= 5

Unary == {"is_empty", "is_null"}
Ordered == {"gt", "gte", "lt", "lte"}
Binary == {"eq", "neq", "contains", "contains_any", "in", "match", "is_subset"} \cup Ordered
LeafOps == Unary \cup Binary \cup {"has_access"}

(* ast_leaf_allows: no operator holds of an undefined operand.             *)
OperatorHolds(op, left, right, depth) ==
    /\ left # Undefined
    /\ op \in Binary => right # Undefined
    /\ \/ op = "eq" /\ ValuesEqual(left, right)
       \/ op = "neq" /\ ~ValuesEqual(left, right)
       \/ op = "contains" /\ ContainsValue(left, right)
       \/ op = "contains_any" /\ ContainsAnyValue(left, right)
       \/ op = "in" /\ ContainsValue(right, left)
       \/ op = "match" /\ IsText(left) /\ IsText(right) /\ <<left[2], right[2]>> \in Matching
       \/ op = "is_empty" /\ IsEmpty(left)
       \/ op = "is_null" /\ left = Null
       \/ op = "is_subset" /\ IsSubsetValue(left, right)
       \/ /\ op \in Ordered
          /\ IsNumeric(left) /\ IsNumeric(right)
          /\ Compared(op, ToNumber(left), ToNumber(right))
       \/ op = "has_access" /\ HasAccess(left, depth)

LeafAllows(ast, context) ==
    \/ /\ "const" \in DOMAIN ast
       /\ ast.const = Boolean(TRUE)
    \/ /\ "op" \in DOMAIN ast
       /\ ast.op \in LeafOps
       /\ OperatorHolds(ast.op, ArgValue(ast.args[1], context), ArgValue(ast.args[2], context),
                        ArgValue(ast.args[4], context))

-----------------------------------------------------------------------------
(* How many arguments the parser gives an operator, at the least.          *)
Arity(op) == CASE op \in Binary -> 2 [] op = "has_access" -> 4 [] OTHER -> 1

(* The nodes the parser builds: an operator with its arguments, a constant *)
(* or a reference.  A reference has one of three scopes, and an attribute  *)
(* if it is to the subject (splitPath).  Those below a node are its own or *)
(* those below its arguments.  Trees are finite, and the parser negates    *)
(* comparisons only (NOT IN, IS NOT NULL and the like).                    *)
ASSUME NodesAssumption ==
    \A node \in Nodes :
        /\ DOMAIN node \in {{"op", "args"}, {"const"}, {"ref"}}
        /\ "op" \in DOMAIN node => node.args \in Seq(Nodes) /\ Len(node.args) >= Arity(node.op)
        /\ Height(node) \in Nat
        /\ "op" \in DOMAIN node => \A arg \in Range(node.args) : Height(arg) < Height(node)
        /\ "op" \in DOMAIN node /\ node.op = "not" =>
              "op" \in DOMAIN node.args[1] /\ node.args[1].op \in LeafOps
        /\ \A ref \in Refs(node) : /\ ref.scope \in {"entitlements", "resource", "subject"}
                                   /\ ref.scope = "subject" => ref.path \in Seq(STRING) /\ ref.path # <<>>
        /\ Refs(node) = IF "ref" \in DOMAIN node
                        THEN {node.ref}
                        ELSE IF "op" \in DOMAIN node
                        THEN UNION {Refs(arg) : arg \in Range(node.args)} ELSE {}

NotLooking(node, context) == FALSE

(* _arg_has_failed_pip_ref                                                 *)
ArgHasFailedPipRef(node, context) == \E ref \in Refs(node) : IsFailedPipRef(ref, context)

(* The "and", "or" and "not" clauses, the same at both levels up to what   *)
(* they evaluate their arguments with.                                     *)
Combined(ast, context, Allows(_)) ==
    /\ "op" \in DOMAIN ast
    /\ \/ ast.op = "and" /\ ast.args # <<>> /\ \A arg \in Range(ast.args) : Allows(arg)
       \/ ast.op = "or" /\ \E arg \in Range(ast.args) : Allows(arg)
       \/ /\ ast.op = "not"
          /\ ~ArgHasFailedPipRef(ast.args[1], context)
          /\ ~Allows(ast.args[1])

LeavesOnly(ast, context) == LeafAllows(ast, context)

(* ast_arg_allows, whose arguments are leaves, and ast_condition_allows.   *)
(* Rego has no recursion: nodes below these two levels are read as leaves. *)
ArgAllows(ast, context) ==
    \/ LeafAllows(ast, context)
    \/ Combined(ast, context, LAMBDA arg : LeafAllows(arg, context))

AstAllows(ast, context) ==
    \/ LeafAllows(ast, context)
    \/ Combined(ast, context, LAMBDA arg : ArgAllows(arg, context))

(* simple_arg_supported and simple_arg_value                               *)
SimpleArg(arg) ==
    \/ "const" \in DOMAIN arg
    \/ "ref" \in DOMAIN arg /\ arg.ref.scope \in {"resource", "subject"} /\ Len(arg.ref.path) = 1

SimpleArgValue(arg, context) ==
    IF "const" \in DOMAIN arg
    THEN arg.const
    ELSE IF IsFailedPipRef(arg.ref, context)
    THEN Undefined
    ELSE Get(IF arg.ref.scope = "resource" THEN context.resource ELSE context.subject,
             arg.ref.path[1], Null)

(* simple_ast_supported and simple_ast_condition_allows: the fast path.    *)
SimpleAllows(ast, context) ==
    /\ "op" \in DOMAIN ast
    /\ ast.op \in {"eq", "neq"}
    /\ SimpleArg(ast.args[1]) /\ SimpleArg(ast.args[2])
    /\ LET left == SimpleArgValue(ast.args[1], context)
           right == SimpleArgValue(ast.args[2], context)
       IN  /\ left # Undefined /\ right # Undefined
           /\ ValuesEqual(left, right) <=> ast.op = "eq"

(* condition_allows, for a rule with a conditionAst.                       *)
ConditionAllows(ast, context) ==
    \/ SimpleAllows(ast, context)
    \/ AstAllows(ast, context)
=============================================================================
