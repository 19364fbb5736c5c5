------------------------------ MODULE NimTools ------------------------------
(***************************************************************************)
(* The body of a request to NVIDIA NIM (providers/nvidia_nim): boolean     *)
(* schemas are taken out of the tools, a parameter that NIM cannot take    *)
(* gets another name, the request is repeated once without a field that    *)
(* NIM refused, and the arguments that come back get their names again.    *)
(* A schema is an object with properties and items, or boolean; other      *)
(* combinators only repeat the recursion over items.                       *)
(***************************************************************************)
EXTENDS Naturals, Sequences, FiniteSetsExt

CONSTANTS Tool,   \* schemas of the tool a request may have
          Field   \* optional fields of the body that NIM may refuse

\* _NIM_UNSAFE_TOOL_PARAMETER_NAMES, and the names that stand for it in the
\* order they are tried.
Unsafe == "type"
Aliases == <<"_fcc_arg_type", "_fcc_arg_type_2", "_fcc_arg_type_3">>

VARIABLES tool,      \* the schema in the client's request
          body,      \* the body built for it, with its private aliases
          requests,  \* the bodies sent to NIM
          arguments, \* what the model calls the tool with
          received   \* what the client gets

nimVars == <<tool, body, requests, arguments, received>>

IsBoolean(schema) == schema.kind = "boolean"

\* _sanitize_nim_schema_node: boolean schemas go, their names in "required" stay.
RECURSIVE Sanitized(_)
Sanitized(schema) ==
    LET kept == {n \in DOMAIN schema.properties : ~IsBoolean(schema.properties[n])}
    IN  [schema EXCEPT !.properties = [n \in kept |-> Sanitized(@[n])],
                       !.items = {Sanitized(s) : s \in {x \in @ : ~IsBoolean(x)}}]

\* _collect_nim_tool_property_names
RECURSIVE PropertyNames(_)
PropertyNames(schema) ==
    DOMAIN schema.properties
        \cup UNION {PropertyNames(schema.properties[n]) : n \in DOMAIN schema.properties}
        \cup UNION {PropertyNames(s) : s \in schema.items}

\* A slip that reserves only the names beside the parameter.
Reserved_TopLevel(schema) == DOMAIN schema.properties

Reserved(schema) == PropertyNames(schema)

\* _make_nim_tool_parameter_alias: the first name that is not taken.
Alias(reserved) ==
    LET free == {i \in 1..Len(Aliases) : Aliases[i] \notin reserved}
    IN  Aliases[CHOOSE i \in free : \A j \in free : i <= j]

Renamed(n, alias) == IF n = Unsafe THEN alias ELSE n

\* _alias_nim_schema_property_names: at every depth by the same name; a name
\* in "required" follows the properties beside it.
RECURSIVE Aliased(_, _)
Aliased(schema, alias) ==
    LET has == Unsafe \in DOMAIN schema.properties
        Original(n) == IF n = alias /\ has THEN Unsafe ELSE n
    IN  [schema EXCEPT
            !.properties = [n \in {Renamed(m, alias) : m \in DOMAIN @} |->
                                Aliased(@[Original(n)], alias)],
            !.required = {IF has THEN Renamed(n, alias) ELSE n : n \in @},
            !.items = {Aliased(s, alias) : s \in @}]

\* _sanitize_nim_tool_schemas and what build_request_body adds.
Built(schema) ==
    LET clean == Sanitized(schema)
        alias == Alias(Reserved(clean))
        renames == Unsafe \in PropertyNames(clean)
    IN  [parameters |-> IF renames THEN Aliased(clean, alias) ELSE clean,
         aliases |-> IF renames THEN {alias} ELSE {},
         fields |-> Field]

\* _prepare_create_body: the aliases stay here.
Sent(b) == [parameters |-> b.parameters, fields |-> b.fields]

\* _get_retry_request_body: the copy keeps everything but the refused field.
Downgraded(b, field) == [b EXCEPT !.fields = @ \ {field}]

\* _restore_aliased_tool_argument_value
RECURSIVE Restored(_, _)
Restored(value, aliases) ==
    LET Back(n) == IF n \in aliases THEN Unsafe ELSE n
    IN  [fields |-> [n \in {Back(m) : m \in DOMAIN value.fields} |->
                        Restored(value.fields[CHOOSE m \in DOMAIN value.fields : Back(m) = n],
                                 aliases)],
         list |-> [i \in 1..Len(value.list) |-> Restored(value.list[i], aliases)]]

\* The arguments a schema allows: a value for every required property, and
\* at most one item.
RECURSIVE Allowed(_)
Allowed(schema) ==
    LET all == DOMAIN schema.properties \cup schema.required
        Plain == {[fields |-> [n \in {} |-> n], list |-> <<>>]}
        Values(n) == IF n \in DOMAIN schema.properties
                     THEN Allowed(schema.properties[n]) ELSE Plain
        Objects(names) == {f \in [names -> UNION {Values(n) : n \in names}] :
                              \A n \in names : f[n] \in Values(n)}
        chosen == {names \in SUBSET all : schema.required \subseteq names}
        lists == {<<>>} \cup {<<v>> : v \in UNION {Allowed(s) : s \in schema.items}}
    IN  {[fields |-> f, list |-> l] : f \in UNION {Objects(names) : names \in chosen}, l \in lists}

NoCall == [fields |-> [n \in {"none"} |-> n], list |-> <<>>]

NimInit ==
    /\ tool \in Tool
    /\ body = Built(tool)
    /\ requests = <<>>
    /\ arguments = NoCall
    /\ received = NoCall

\* _create_stream: the first request.
CreateStream ==
    /\ requests = <<>>
    /\ requests' = <<Sent(body)>>
    /\ UNCHANGED <<tool, body, arguments, received>>

\* NIM answers 400 and names a field, and is asked once more without it.
RetryWithout(field) ==
    /\ Len(requests) = 1 /\ arguments = NoCall
    /\ field \in body.fields
    /\ body' = Downgraded(body, field)
    /\ requests' = Append(requests, Sent(body'))
    /\ UNCHANGED <<tool, arguments, received>>

\* The model calls the tool as the schema it was shown allows.
CallTool ==
    /\ requests # <<>> /\ arguments = NoCall
    /\ arguments' \in Allowed(requests[Len(requests)].parameters)
    /\ received' = Restored(arguments', body.aliases)
    /\ UNCHANGED <<tool, body, requests>>

NimNext == CreateStream \/ (\E f \in Field : RetryWithout(f)) \/ CallTool

(***************************************************************************)
(* The property.                                                           *)
(***************************************************************************)

RECURSIVE Leaves(_)
Leaves(value) ==
    IF DOMAIN value.fields = {} /\ value.list = <<>> THEN 1
    ELSE MapThenSumSet(LAMBDA n : Leaves(value.fields[n]), DOMAIN value.fields)
            + (IF value.list = <<>> THEN 0 ELSE Leaves(value.list[1]))

\* A model that follows the schema it is shown calls the tool so that the
\* client gets arguments which the tool's own schema allows, none of them
\* lost or under another's name, also when NIM refused a field of the first
\* request (tests/providers/test_nvidia_nim.py:489 "NIM-safe argument aliases
\* are restored before Anthropic SSE emission.").
ArgumentsComeBack ==
    arguments # NoCall => /\ received \in Allowed(Sanitized(tool))
                        /\ Leaves(received) = Leaves(arguments)
=============================================================================
