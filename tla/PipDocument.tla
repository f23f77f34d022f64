---------------------------- MODULE PipDocument -----------------------------
(***************************************************************************)
(* The PIP document: convertPIP (internal/acconfig), Validate and          *)
(* NormalizeItems (internal/pips), the entitlements entry the deployment   *)
(* pins, and what policies/pip.rego makes of the document for a request.   *)
(*                                                                         *)
(* The name of a PIP is a pair of its first eight bytes and the rest, its  *)
(* alias; a shorter name has nothing in the first part.  The domain and    *)
(* the description of a PIP reach no decision and are left out.  Fields    *)
(* that are text are trimmed and in upper case where the code makes them   *)
(* so.  "wellFormed" stands for the syntax of placeholders and paths.      *)
(*                                                                         *)
(* The response of a PIP says what to extract: <<"absent", {}>> nothing,   *)
(* <<"path", p>> the value at a path, <<"map", entries>> an object with a  *)
(* value for each entry, and <<"other", {}>> stands for any other JSON.    *)
(* An entry is a record with some of the fields path, coerce and           *)
(* onMissing; one that is a mere path has no other.                        *)
(*                                                                         *)
(* In a context, services has the body of each answer of status 200, by    *)
(* alias: Undefined where the request could not be built, and no body      *)
(* where the call failed or was answered otherwise.                        *)
(***************************************************************************)
EXTENDS RlsCondition

CONSTANTS
    JsonTexts,          \* the texts that are JSON, with the value they spell
    Spelling,           \* how sprintf("%v") writes numbers and booleans
    JsonExtract(_, _),  \* json_extract: a body's value at a path, Undefined on a miss
    UnionBelow(_, _)    \* object.union of two objects that a key has on both sides

Prefix == "subject."
Alias(p) == p.name[2]

-----------------------------------------------------------------------------
(* normaliseHeaders: a text is a list of names, and anything else but a    *)
(* list or an object is no headers.                                        *)
NormaliseHeaders(headers) ==
    CASE headers[1] \in {"list", "map"} -> headers
      [] headers[1] = "text" /\ headers[2] # {} -> <<"list", headers[2]>>
      [] OTHER -> <<"absent", {}>>

(* convertPIPs and convertPIP                                              *)
Convertible(p) ==
    /\ p.pipType \notin {"FILTERED", "PERMISSION_SCOPE", "MAPPING", "ENTITLEMENT"}
    /\ p.pipType = "GENERAL" => p.beanName = ""

ConvertPIPs(items) ==
    LET kept == SelectSeq(items, Convertible)
    IN  [i \in DOMAIN kept |->
            [kept[i] EXCEPT !.headers = NormaliseHeaders(@),
                            !.response = IF @.present /\ @.malformed
                                         THEN [@ EXCEPT !.present = FALSE] ELSE @]]

-----------------------------------------------------------------------------
(* resolvePipType                                                          *)
ResolvePipType(p) ==
    CASE p.pipType # "" -> p.pipType
      [] p.pipType = "" /\ p.type # "" -> p.type
      [] p.pipType = "" /\ p.type = "" /\ p.claim # "" -> "TOKEN"
      [] p.pipType = "" /\ p.type = "" /\ p.claim = "" /\ p.header # "" -> "HEADER"
      [] OTHER -> "GENERAL"

(* validateResponseSpec and validateExtractEntry                           *)
Coercions == {"", "string", "number", "bool", "string[]", "number[]"}
Remedies == {"", "defaultValue", "empty", "error"}
NoExtract == <<"absent", {}>>

OwnOr(entry, field, inherited) == IF field \in DOMAIN entry THEN entry[field] ELSE inherited

ValidEntry(entry) ==
    /\ "path" \in DOMAIN entry
    /\ OwnOr(entry, "coerce", "") \in Coercions
    /\ OwnOr(entry, "onMissing", "") \in Remedies

ValidResponse(response, default) ==
    /\ response.coerce \in Coercions
    /\ response.onMissing \in Remedies
    /\ response.onMissing = "defaultValue" => default # Null
    /\ response.extract[1] \in {"absent", "path", "map"}
    /\ response.extract[1] = "map" =>
          DOMAIN response.extract[2] # {} /\ \A entry \in Range(response.extract[2]) : ValidEntry(entry)

(* validateGeneralPIP                                                      *)
ValidGeneral(p) ==
    /\ p.beanName = ""
    /\ p.url # ""
    /\ p.httpMethod \in {"", "GET", "POST"}
    /\ p.httpMethod = "GET" => p.body = ""
    /\ p.headers[1] \in {"absent", "list", "map"}
    /\ p.wellFormed
    /\ IF p.response.present
       THEN ValidResponse(p.response, p.default)
       ELSE /\ p.jsonPath # "" => p.pipType # "" /\ p.type = "JSON"
            /\ p.type \in {"", "JSON", "TEXT"}

(* validateSingle and Validate                                             *)
ValidateSingle(p) ==
    /\ p.name[1] = Prefix
    /\ Alias(p) # ""
    /\ CASE ResolvePipType(p) = "TOKEN" -> p.claim # ""
         [] ResolvePipType(p) = "HEADER" -> p.header # ""
         [] ResolvePipType(p) = "GENERAL" -> ValidGeneral(p)
         [] OTHER -> FALSE

Validate(items) ==
    /\ \A i \in DOMAIN items : ValidateSingle(items[i])
    /\ \A i, j \in DOMAIN items : items[i].name = items[j].name => i = j

-----------------------------------------------------------------------------
(* clampTimeoutSeconds: between 1 and 30, 5 when none is given.            *)
ClampTimeoutSeconds(seconds) ==
    CASE seconds = Null -> 5
      [] seconds # Null /\ seconds[2] < 1 -> 1
      [] seconds # Null /\ seconds[2] > 30 -> 30
      [] OTHER -> seconds[2]

(* buildGeneralBody: only a POST carries one.                              *)
Method(p) == IF p.httpMethod = "" THEN "POST" ELSE p.httpMethod
BuildGeneralBody(p) ==
    CASE Method(p) # "POST" -> ""
      [] Method(p) = "POST" /\ p.body # "" -> p.body
      [] OTHER -> "wrapper"

(* buildResponseConfig: the response block, or else the path of a PIP with *)
(* an explicit type.  A block that asks for nothing is none.               *)
Config(extract, coerce, onMissing) == [extract |-> extract, coerce |-> coerce, onMissing |-> onMissing]
NoConfig == Config(NoExtract, "", "")

BuildResponseConfig(p) ==
    IF p.response.present
    THEN Config(p.response.extract, p.response.coerce, p.response.onMissing)
    ELSE Config(IF p.pipType # "" /\ p.jsonPath # "" THEN <<"path", p.jsonPath>> ELSE NoExtract, "", "")

GeneralConfig(name, p) ==
    [alias |-> name[2], method |-> Method(p), body |-> BuildGeneralBody(p),
     headers |-> p.headers, timeout |-> ClampTimeoutSeconds(p.timeout),
     response |-> BuildResponseConfig(p), default |-> p.default]

(* NormalizeItems slices the names, so a short one ends the process; the   *)
(* last entry of a name and type counts.                                   *)
Sliceable(items) == \A i \in DOMAIN items : items[i].name[1] # ""

NormalizeItems(items) ==
    LET typed(type) == {i \in DOMAIN items : ResolvePipType(items[i]) = type}
        last(name, type) == items[Max({i \in typed(type) : items[i].name = name})]
        names(type) == {items[i].name : i \in typed(type)}
    IN  [aliasSet |-> {Alias(items[i]) : i \in DOMAIN items},
         token |-> [name \in names("TOKEN") |->
                      LET p == last(name, "TOKEN")
                      IN  [alias |-> name[2], claim |-> p.claim, default |-> p.default]],
         header |-> [name \in names("HEADER") |->
                      LET p == last(name, "HEADER")
                      IN  [alias |-> name[2], header |-> p.header, default |-> p.default]],
         general |-> [name \in names("GENERAL") |-> GeneralConfig(name, last(name, "GENERAL"))],
         entitlements |-> FALSE]

(* ApplyEntitlementsOverride                                               *)
ApplyEntitlementsOverride(doc, pinned) ==
    [doc EXCEPT !.aliasSet = IF pinned THEN @ \cup {"entitledResources"}
                             ELSE @ \ {"entitledResources"},
                !.entitlements = pinned]

-----------------------------------------------------------------------------
(* pip.rego: the functions of aliases that each kind of PIP contributes.   *)

(* object.union: the upper value counts, but objects are merged.           *)
Merged(lower, upper) ==
    IF lower[1] = "object" /\ upper[1] = "object" THEN UnionBelow(lower, upper) ELSE upper

Overlay(lower, upper) ==
    [key \in DOMAIN lower \cup DOMAIN upper |->
        IF key \notin DOMAIN upper THEN lower[key]
        ELSE IF key \notin DOMAIN lower THEN upper[key]
        ELSE Merged(lower[key], upper[key])]

(* resolve_token_values and resolve_header_values                          *)
LocalValue(value, default) == IF value = Null THEN default ELSE value

LocalValues(configs, field, given) ==
    LET value(name) ==
            LET key == configs[name][field]
            IN  LocalValue(IF key \in DOMAIN given THEN given[key] ELSE Null, configs[name].default)
        named == {name \in DOMAIN configs : configs[name].alias # "" /\ configs[name][field] # ""
                                            /\ value(name) # Null}
    IN  [alias \in {configs[name].alias : name \in named} |->
            value(CHOOSE name \in named : configs[name].alias = alias)]

RequestLevel(doc, context) ==
    Overlay(LocalValues(doc.token, "claim", context.claims),
            LocalValues(doc.header, "header", context.headers))

(* parsed_body: a text counts if it is JSON, and null is no body.          *)
ParsedBody(raw) ==
    CASE raw = Null -> Undefined
      [] IsText(raw) -> IF raw[2] \in DOMAIN JsonTexts THEN JsonTexts[raw[2]] ELSE Undefined
      [] OTHER -> raw

(* coerce_value and scalar_to_string                                       *)
IsScalar(v) == v[1] \in {"string", "number", "boolean"}
AsText(v) == IF IsText(v) THEN v ELSE Text(Spelling[v])

CoerceValue(v, coerce) ==
    CASE coerce = "" -> v
      [] coerce = "string" /\ IsScalar(v) -> AsText(v)
      [] coerce = "number" /\ v[1] = "number" -> v
      [] coerce = "bool" /\ v[1] = "boolean" -> v
      [] coerce = "string[]" /\ IsArray(v) /\ (\A e \in Range(v[2]) : IsScalar(e)) ->
            Array([i \in DOMAIN v[2] |-> AsText(v[2][i])])
      [] coerce = "number[]" /\ IsArray(v) /\ (\A e \in Range(v[2]) : e[1] = "number") -> v
      [] OTHER -> Undefined

EmptyFor(coerce) ==
    CASE coerce \in {"string[]", "number[]", ""} -> Array(<<>>)
      [] coerce = "string" -> Text("")
      [] coerce = "number" -> Number(0)
      [] coerce = "bool" -> Boolean(FALSE)
      [] OTHER -> Undefined

(* apply_coerce_or_default: null is a miss, and the default is taken also  *)
(* where there is none, as null.                                           *)
ApplyCoerceOrDefault(raw, coerce, onMissing, default) ==
    LET out == IF raw \in {Undefined, Null} THEN Undefined ELSE CoerceValue(raw, coerce)
    IN  CASE out # Undefined -> out
          [] out = Undefined /\ onMissing = "defaultValue" -> default
          [] out = Undefined /\ onMissing = "empty" -> EmptyFor(coerce)
          [] OTHER -> Undefined

(* extract_map_entry: what an entry does not say, the block does.          *)
ExtractMapEntry(config, body, entry) ==
    IF "path" \in DOMAIN entry
    THEN ApplyCoerceOrDefault(JsonExtract(body, entry.path),
                              OwnOr(entry, "coerce", config.response.coerce),
                              OwnOr(entry, "onMissing", config.response.onMissing), config.default)
    ELSE Undefined

(* extract_response and extract_with_response                              *)
ExtractResponse(config, body) ==
    LET extract == config.response.extract
        applied(raw) == ApplyCoerceOrDefault(raw, config.response.coerce, config.response.onMissing,
                                             config.default)
        value(name) == ExtractMapEntry(config, body, extract[2][name])
    IN  CASE config.response = NoConfig -> body
          [] config.response # NoConfig /\ extract[1] = "absent" -> applied(body)
          [] extract[1] = "path" -> applied(JsonExtract(body, extract[2]))
          [] extract[1] = "map" ->
                Object([name \in {n \in DOMAIN extract[2] : value(n) # Undefined} |-> value(name)])
          [] OTHER -> Undefined

Extracted(config, services) ==
    LET body == IF config.alias \in DOMAIN services THEN ParsedBody(services[config.alias]) ELSE Undefined
    IN  IF body = Undefined THEN Undefined ELSE ExtractResponse(config, body)

EmptyNotBound(config, services) ==
    LET extracted == Extracted(config, services)
    IN  CASE extracted # Undefined -> extracted
          [] /\ extracted = Undefined
             /\ config.response.onMissing = "defaultValue" /\ config.default # Null -> config.default
          [] OTHER -> Undefined

(* response_value and soft_default: what the service answered, or what     *)
(* onMissing of the block says of a call that failed.                      *)
ResponseValue(config, services) ==
    LET extracted == Extracted(config, services)
    IN  CASE extracted # Undefined -> extracted
          [] /\ extracted = Undefined
             /\ config.response.onMissing = "defaultValue" /\ config.default # Null -> config.default
          [] extracted = Undefined /\ config.response.onMissing = "empty" ->
                EmptyFor(config.response.coerce)
          [] OTHER -> Undefined

(* general_pip_value: nothing stands in for a request that is not built.   *)
Unbuilt(alias, services) == alias \in DOMAIN services /\ services[alias] = Undefined

GeneralPipValue(config, services) ==
    IF Unbuilt(config.alias, services) THEN Undefined ELSE ResponseValue(config, services)

(* resolve_general_values, for the PIPs of a set of names.                 *)
GeneralValues(doc, names, services) ==
    LET answering == {name \in names \cap DOMAIN doc.general :
                        /\ doc.general[name].alias # ""
                        /\ GeneralPipValue(doc.general[name], services) # Undefined}
        named(alias) == {name \in answering : doc.general[name].alias = alias}
    IN  [alias \in {doc.general[name].alias : name \in answering} |->
            GeneralPipValue(doc.general[CHOOSE name \in named(alias) : TRUE], services)]

(* known_pip_aliases: whether its PIP was called or not.                   *)
CalledAliases(doc, names) ==
    {doc.general[name].alias : name \in names \cap DOMAIN doc.general}
    \cup {doc.token[name].alias : name \in DOMAIN doc.token}
    \cup {doc.header[name].alias : name \in DOMAIN doc.header}

KnownAliases(doc, names) == doc.aliasSet

(* enriched_subject                                                        *)
Enriched(context, doc, names) ==
    LET values == Overlay(RequestLevel(doc, context), GeneralValues(doc, names, context.services))
        entitled == IF doc.entitlements THEN context.entitlements ELSE EmptyObject
    IN  [context EXCEPT
            !.subject = Object(Overlay(Overlay(context.base, values),
                                       [key \in {"entitledResources"} |-> entitled])),
            !.aliases = KnownAliases(doc, names)]
=============================================================================
