---------------------------- MODULE LegacyRoutes ----------------------------
(***************************************************************************)
(* The check routes of the legacy access-control API                       *)
(* (authz-agent/internal/legacy): the resources a body asks about, and the *)
(* body of the answer, which takes the results by their position.          *)
(*                                                                         *)
(* A field is a string, a list, a literal (any other value, as written),   *)
(* null or absent; a body or an item is an object of its fields, a list,   *)
(* or malformed (JSON of another shape).                                   *)
(***************************************************************************)
EXTENDS RlsCondition

CONSTANT PredicateType       \* the type of each predicate

(* Lists after one another, and the elements at some positions of a list,  *)
(* in order.                                                               *)
Concatenation(lists) ==
    LET joined[n \in 0..Len(lists)] == IF n = 0 THEN <<>> ELSE joined[n - 1] \o lists[n]
    IN  joined[Len(lists)]

Picked(list, places) ==
    Concatenation([i \in DOMAIN list |-> IF i \in places THEN <<list[i]>> ELSE <<>>])

Absent == <<"absent", 0>>
Malformed == <<"malformed", 0>>
Literal(text) == <<"literal", text>>
Fields(record) == <<"fields", record>>

(* What a body asks: resources, or the error that refuses it.              *)
Asks(resources) == [error |-> "", resources |-> resources]
Error(message) == [error |-> message, resources |-> <<>>]
BadRequest == Error("bad request")

(* present, text and uniqueIDs, which compares ids as they are written.    *)
Present(raw) == raw \notin {Absent, Null, Text("")}
TextOf(raw) == IF raw \in {Absent, Null} THEN "" ELSE raw[2]
UniqueIDs(items) ==
    \A i, j \in DOMAIN items :
        items[i][2].id = items[j][2].id /\ items[i][2].id \notin {Absent, Null} => i = j

(* newResource: without a resource the conditions read an empty object.    *)
NewResource(type, operation, resource, id) ==
    [resourceType |-> type, operation |-> operation, id |-> TextOf(id),
     resource |-> IF resource = Absent THEN EmptyObject ELSE resource]

FirstError(errors) ==
    LET found == {i \in DOMAIN errors : errors[i] # ""}
    IN  IF found = {} THEN "" ELSE errors[Min(found)]

-----------------------------------------------------------------------------
(* checkItem.resource                                                      *)
ItemError(item) ==
    IF item = Malformed \/ ~Present(item[2].type)
    THEN "type"
    ELSE IF Present(item[2].operation) THEN "" ELSE "operation"

ItemResource(item) ==
    NewResource(item[2].type, item[2].operation, item[2].resource, item[2].id)

(* array, and the errors of its items: the first one is reported, and      *)
(* duplicate ids only after them.                                          *)
Listed(body, errors, resources) ==
    IF body[1] # "array"
    THEN BadRequest
    ELSE IF FirstError(errors) # ""
    THEN Error(FirstError(errors))
    ELSE IF UniqueIDs(body[2]) THEN Asks(resources) ELSE Error("duplicate id")

CheckResource(body) ==
    IF body[1] # "fields"
    THEN BadRequest
    ELSE IF ItemError(body) # "" THEN Error(ItemError(body)) ELSE Asks(<<ItemResource(body)>>)

CheckResourceBulk(body) ==
    Listed(body, [i \in DOMAIN body[2] |-> ItemError(body[2][i])],
                 [i \in DOMAIN body[2] |-> ItemResource(body[2][i])])

(* operations and expand: an operation that is null or "" asks nothing.    *)
OperationsError(item) ==
    IF item = Malformed \/ ~Present(item[2].type)
    THEN "type"
    ELSE IF IsArray(item[2].operations) /\ item[2].operations[2] # <<>> THEN "" ELSE "operations"

Expand(item) ==
    LET operations == item[2].operations[2]
        asked == [k \in DOMAIN operations |->
                    NewResource(item[2].type, Text(TextOf(operations[k])), item[2].resource, item[2].id)]
    IN  Picked(asked, {k \in DOMAIN operations : TextOf(operations[k]) # ""})

CheckResourceBulkOperations(body) ==
    Listed(body, [i \in DOMAIN body[2] |-> OperationsError(body[2][i])],
                 Concatenation([i \in DOMAIN body[2] |-> Expand(body[2][i])]))

(* The entries of a v2 body share its type, and one that is malformed has  *)
(* no operations.                                                          *)
Typed(entry, type) ==
    Fields([id |-> IF entry = Malformed THEN Absent ELSE entry[2].id,
            type |-> type,
            operations |-> IF entry = Malformed THEN Absent ELSE entry[2].operations,
            resource |-> IF entry = Malformed THEN Absent ELSE entry[2].resource])

CheckResourceBulkOperationsV2(body) ==
    IF body[1] # "fields"
    THEN BadRequest
    ELSE IF ~Present(body[2].type)
    THEN Error("type")
    ELSE IF body[2].entries = Absent
    THEN Error("entries")
    ELSE IF ~IsArray(body[2].entries)
    THEN BadRequest
    ELSE CheckResourceBulkOperations(
            Array([i \in DOMAIN body[2].entries[2] |-> Typed(body[2].entries[2][i], body[2].type)]))

(* checkFilter                                                             *)
CheckFilter(body) ==
    IF ~Present(body[2].type)
    THEN BadRequest
    ELSE Asks(<<NewResource(body[2].type,
                            IF Present(body[2].operation) THEN body[2].operation ELSE Text("ALL"),
                            Absent, Absent)>>)

-----------------------------------------------------------------------------
FirstAllowed(results) == results # <<>> /\ Head(results).allow

(* The positions of the entries with a result that allows them.            *)
AllowedAt(results, asked) == {i \in 1..Min({Len(results), Len(asked)}) : results[i].allow}

(* The ids at some positions, as far as there are any.                     *)
IdsAt(asked, places) ==
    Picked([i \in DOMAIN asked |-> asked[i].id], {i \in places : asked[i].id # ""})

(* CheckResourceBulkResponse                                               *)
NamedOnly(results, asked) ==
    LET named == Picked(asked, {i \in DOMAIN asked : asked[i].id # ""})
    IN  IdsAt(named, AllowedAt(results, named))

CheckResourceBulkResponse(results, asked) == IdsAt(asked, AllowedAt(results, asked))

(* CheckResourceBulkOperationsResponse                                     *)
CheckResourceBulkOperationsResponse(results, asked) ==
    [op \in {asked[i].operation[2] : i \in DOMAIN asked} |->
        IdsAt(asked, {i \in AllowedAt(results, asked) : asked[i].operation[2] = op})]

(* FilterResponse: the predicates in the field of their type.              *)
FilterResponse(results) ==
    IF ~FirstAllowed(results)
    THEN [result |-> "DENY"]
    ELSE IF Head(results).filter = {}
    THEN [result |-> "ALLOW"]
    ELSE [result |-> "USE_FILTER_CONDITION",
          conditions |-> [type \in {PredicateType[p] : p \in Head(results).filter} |->
                            {p \in Head(results).filter : PredicateType[p] = type}]]
=============================================================================
