-------------------------------- MODULE Wire --------------------------------
(***************************************************************************)
(* The unions of the ACP wire types (acp/schema_types_gen.go): how a JSON  *)
(* document is read as one of a union's variants, and how a variant is     *)
(* written back.                                                           *)
(*                                                                         *)
(* A document is [json, tag, body]: its JSON kind, the value of the        *)
(* union's discriminator key, and the JSON kinds of its other keys.  Only  *)
(* kinds are kept, and a kind stands for a value other than Go's zero      *)
(* value.  A nested value of the right kind is one that its own type       *)
(* reads.                                                                  *)
(***************************************************************************)
EXTENDS Naturals, Sequences, FiniteSetsExt

\* The keys of f and, beside them, those of g.
f @@ g == [k \in DOMAIN f \cup DOMAIN g |-> IF k \in DOMAIN f THEN f[k] ELSE g[k]]

Absent == ""         \* the discriminator key is missing
Unknown == "other"   \* its value is no variant's
IllTyped == "#"      \* its value is not a string
Kept == "*"          \* a variant that keeps whatever tag it was read with
NoTag == "-"         \* a variant without the discriminator field

JsonKinds == {"string", "bool", "int", "whole", "float", "array", "object", "null"}

\* The JSON kinds json.Unmarshal takes for a Go type, beside null.  "whole"
\* is a number written with a zero fraction, which is no Go int.  The types
\* "union", "list", "id" and "error" are nested types whose zero value
\* cannot be written; "empty" is RequestIdNull.
Accepted ==
    [string |-> {"string"}, bool |-> {"bool"}, int |-> {"int"},
     float |-> {"int", "whole", "float"}, array |-> {"array"},
     object |-> {"object"}, any |-> JsonKinds, struct |-> {"object"},
     empty |-> {"object"}, union |-> {"object"}, list |-> {"array"},
     id |-> {"string", "int", "object"}, error |-> {"object"}]

Accepts(go, json) == json = "null" \/ json \in Accepted[go]

\* What a Go value that null was read into is written as: null leaves the
\* zero value, except that a nested union reads it as its first variant.
FromNull(go) ==
    CASE go \in {"array", "any", "empty", "list", "id"} -> "null"
      [] go \in {"union", "struct"} -> "object"
      [] go = "float" -> "int"
      [] OTHER -> go

\* What a Go value read from a JSON kind is written as.
Held(go, json) ==
    CASE json = "null" -> FromNull(go)
      [] json = "object" /\ go \in {"id", "empty"} -> "null"
      [] json = "whole" -> "int"
      [] OTHER -> json

\* Types whose zero value has no JSON form: no variant is set, MarshalJSON
\* returns no bytes and json.Marshal fails.
Unwritable == {"union", "list", "id", "error"}

-----------------------------------------------------------------------------
(* A union's variants, in the order of its fields: the Go types of the     *)
(* keys that are always written and of those written when set, the tag the *)
(* decoder switches on, the keys it looks for otherwise, and the tag the   *)
(* encoder writes.  Only ContentBlock's encoder leaves keys out.           *)

Of(go, keys) == [k \in keys |-> go]
Strings(keys) == Of("string", keys)
None == Of("string", {})
Meta == Of("object", {"_meta"})

Struct(always, optional) ==
    [go |-> "struct", always |-> always, optional |-> optional]

Scalar(go) == [go |-> go, always |-> None, optional |-> None]

Union(types, tags, shapes) ==
    [types |-> types, cases |-> tags, shapes |-> shapes, tags |-> tags, drops |-> {}]

\* Variants told apart by their keys only.
Untagged(types, shapes) ==
    Union(types, [i \in 1..Len(types) |-> NoTag], shapes)

\* Variants told apart by their Go types only.
Scalars(kinds) ==
    Untagged([i \in 1..Len(kinds) |-> Scalar(kinds[i])], [i \in 1..Len(kinds) |-> {"-"}])

AgentResponse ==
    Untagged(<<Struct(Of("id", {"id"}) @@ Of("any", {"result"}), None),
               Struct(Of("id", {"id"}) @@ Of("error", {"error"}), None)>>,
             <<{"id", "result"}, {"id", "error"}>>)

ClientResponse ==
    Untagged(<<Struct(Of("id", {"id"}) @@ Of("any", {"result"}), None),
               Struct(Of("id", {"id"}) @@ Of("error", {"error"}), None)>>,
             <<{"id", "result"}, {"id", "error"}>>)

AuthMethod ==
    Untagged(<<Struct(Strings({"id", "name"}), Strings({"description"}) @@ Meta)>>,
             <<{"id", "name"}>>)

AvailableCommandInput ==
    Untagged(<<Struct(Strings({"hint"}), Meta)>>, <<{"hint"}>>)

ContentBlockTypes ==
    LET noted == Of("object", {"_meta", "annotations"}) IN
    <<Struct(Strings({"text"}), noted),
      Struct(Strings({"data", "mimeType"}), noted @@ Strings({"uri"})),
      Struct(Strings({"data", "mimeType"}), noted),
      Struct(Strings({"name", "uri"}),
             noted @@ Strings({"description", "mimeType", "title"}) @@ Of("int", {"size"})),
      Struct(Of("union", {"resource"}), noted)>>

ContentBlockDecoding ==
    [cases |-> <<"text", "image", "audio", "resource_link", "resource">>,
     shapes |-> <<{"text"}, {"data", "mimeType"}, {"data", "mimeType"},
                  {"name", "uri"}, {"resource"}>>]

\* Mutant: a key is missing from the list.
ContentBlockEncoding_Short ==
    [tags |-> <<"text", "image", "audio", "resource_link", "resource">>,
     drops |-> {"_meta", "annotations", "mimeType"}]

\* The encoder builds each document from the keys it lists.
ContentBlockEncoding ==
    [tags |-> <<"text", "image", "audio", "resource_link", "resource">>,
     drops |-> {"_meta", "annotations"}]

ContentBlock ==
    [types |-> ContentBlockTypes,
     cases |-> ContentBlockDecoding.cases, shapes |-> ContentBlockDecoding.shapes,
     tags |-> ContentBlockEncoding.tags, drops |-> ContentBlockEncoding.drops]

CreateElicitationRequest ==
    Union(<<Struct(Strings({"message"}) @@ Of("object", {"requestedSchema"}), Meta),
            Struct(Strings({"message", "elicitationId", "url"}), Meta),
            Struct(Strings({"message"}), Meta)>>,
          <<"form", "url", Kept>>,
          <<{"requestedSchema"}, {"elicitationId", "url"}, {}>>)

CreateElicitationResponse ==
    Union(<<Struct(None, Meta @@ Of("object", {"content"})),
            Struct(None, Meta), Struct(None, Meta), Struct(None, Meta)>>,
          <<"accept", "decline", "cancel", Kept>>, <<{}, {}, {}, {}>>)

ElicitationContentValue == Scalars(<<"string", "int", "float", "bool", "array">>)

ElicitationFormMode ==
    Untagged(<<Struct(Strings({"sessionId"}), Strings({"toolCallId"})),
               Struct(Of("id", {"requestId"}), None)>>,
             <<{"sessionId"}, {"requestId"}>>)

ElicitationUrlMode ==
    Untagged(<<Struct(Strings({"sessionId"}), Strings({"toolCallId"})),
               Struct(Of("id", {"requestId"}), None)>>,
             <<{"sessionId"}, {"requestId"}>>)

ElicitationPropertyTypes ==
    LET named == Meta @@ Strings({"description", "title"}) IN
    <<Struct(None, named @@ Strings({"default", "format", "pattern"})
                     @@ Of("int", {"maxLength", "minLength"})
                     @@ Of("array", {"enum", "oneOf"})),
      Struct(None, named @@ Of("float", {"default", "maximum", "minimum"})),
      Struct(None, named @@ Of("int", {"default", "maximum", "minimum"})),
      Struct(None, named @@ Of("bool", {"default"})),
      Struct(Of("union", {"items"}),
             named @@ Of("array", {"default"}) @@ Of("int", {"maxItems", "minItems"})),
      Struct(None, None)>>

ElicitationPropertyDecoding ==
    [cases |-> <<"string", "number", "integer", "boolean", "array", Kept>>,
     shapes |-> <<{}, {}, {}, {}, {"items"}, {}>>]

ElicitationPropertyEncoding ==
    [tags |-> <<"string", "number", "integer", "boolean", "array", Kept>>, drops |-> {}]

ElicitationPropertySchema ==
    [types |-> ElicitationPropertyTypes,
     cases |-> ElicitationPropertyDecoding.cases,
     shapes |-> ElicitationPropertyDecoding.shapes,
     tags |-> ElicitationPropertyEncoding.tags, drops |-> ElicitationPropertyEncoding.drops]

EmbeddedResourceResource ==
    Untagged(<<Struct(Strings({"text", "uri"}), Meta @@ Strings({"mimeType"})),
               Struct(Strings({"blob", "uri"}), Meta @@ Strings({"mimeType"}))>>,
             <<{"text", "uri"}, {"blob", "uri"}>>)

ErrorCode == Scalars([i \in 1..9 |-> "int"])

McpServer ==
    LET remote == Strings({"name", "url"}) @@ Of("array", {"headers"}) IN
    Union(<<Struct(remote, Meta), Struct(remote, Meta),
            Struct(Strings({"name", "command"}) @@ Of("array", {"args", "env"}), Meta)>>,
          <<"http", "sse", NoTag>>,
          <<{"name", "url", "headers"}, {"name", "url", "headers"},
            {"name", "command", "args", "env"}>>)

MultiSelectItems ==
    Union(<<Struct(Of("array", {"enum"}), Meta), Struct(None, None),
            Struct(Of("array", {"anyOf"}), Meta)>>,
          <<"string", Kept, NoTag>>, <<{"enum"}, {}, {"anyOf"}>>)

RequestId == Scalars(<<"empty", "int", "string">>)

\* Mutant: the variants in the other order.
RequestPermissionOutcome_Reversed ==
    Union(<<Struct(Strings({"optionId"}), Meta), Struct(None, None)>>,
          <<"selected", "cancelled">>, <<{"optionId"}, {}>>)

RequestPermissionOutcome ==
    Union(<<Struct(None, None), Struct(Strings({"optionId"}), Meta)>>,
          <<"cancelled", "selected">>, <<{}, {"optionId"}>>)

SessionConfigOption ==
    LET named == Strings({"id", "name"})
        noted == Meta @@ Strings({"category", "description"}) IN
    Union(<<Struct(named @@ Strings({"currentValue"}) @@ Of("list", {"options"}), noted),
            Struct(named @@ Of("bool", {"currentValue"}), noted)>>,
          <<"select", "boolean">>, <<{"currentValue", "options"}, {"currentValue"}>>)

SessionUpdateTypes ==
    LET chunk == Struct(Of("union", {"content"}), Meta @@ Strings({"messageId"}))
        tool == Meta @@ Of("array", {"content", "locations"}) @@ Strings({"kind", "status"})
                     @@ Of("any", {"rawInput", "rawOutput"})
    IN <<chunk, chunk, chunk,
         Struct(Strings({"title", "toolCallId"}), tool),
         Struct(Strings({"toolCallId"}), tool @@ Strings({"title"})),
         Struct(Of("array", {"entries"}), Meta),
         Struct(Of("array", {"availableCommands"}), Meta),
         Struct(Strings({"currentModeId"}), Meta),
         Struct(Of("array", {"configOptions"}), Meta),
         Struct(None, Meta @@ Strings({"title", "updatedAt"})),
         Struct(Of("int", {"used", "size"}), Meta @@ Of("object", {"cost"}))>>

SessionUpdateCases ==
    <<"user_message_chunk", "agent_message_chunk", "agent_thought_chunk", "tool_call",
      "tool_call_update", "plan", "available_commands_update", "current_mode_update",
      "config_option_update", "session_info_update", "usage_update">>

SessionUpdateShapes ==
    <<{"content"}, {"content"}, {"content"}, {"toolCallId", "title"}, {"toolCallId"},
      {"entries"}, {"availableCommands"}, {"currentModeId"}, {"configOptions"}, {},
      {"used", "size"}>>

SessionUpdateTags ==
    <<"user_message_chunk", "agent_message_chunk", "agent_thought_chunk", "tool_call",
      "tool_call_update", "plan", "available_commands_update", "current_mode_update",
      "config_option_update", "session_info_update", "usage_update">>

SessionUpdate ==
    [types |-> SessionUpdateTypes, cases |-> SessionUpdateCases,
     shapes |-> SessionUpdateShapes, tags |-> SessionUpdateTags, drops |-> {}]

SetSessionConfigOptionRequest ==
    LET named == Strings({"configId", "sessionId"}) IN
    Union(<<Struct(named @@ Of("bool", {"value"}), Meta),
            Struct(named @@ Strings({"value"}), Meta)>>,
          <<"boolean", NoTag>>, <<{"value"}, {"value"}>>)

ToolCallContent ==
    Union(<<Struct(Of("union", {"content"}), Meta),
            Struct(Strings({"newText", "path"}), Meta @@ Strings({"oldText"})),
            Struct(Strings({"terminalId"}), Meta)>>,
          <<"content", "diff", "terminal">>,
          <<{"content"}, {"path", "newText"}, {"terminalId"}>>)

Unions ==
    [AgentResponse |-> AgentResponse, ClientResponse |-> ClientResponse,
     AuthMethod |-> AuthMethod, AvailableCommandInput |-> AvailableCommandInput,
     ContentBlock |-> ContentBlock,
     CreateElicitationRequest |-> CreateElicitationRequest,
     CreateElicitationResponse |-> CreateElicitationResponse,
     ElicitationContentValue |-> ElicitationContentValue,
     ElicitationFormMode |-> ElicitationFormMode,
     ElicitationUrlMode |-> ElicitationUrlMode,
     ElicitationPropertySchema |-> ElicitationPropertySchema,
     EmbeddedResourceResource |-> EmbeddedResourceResource,
     ErrorCode |-> ErrorCode, McpServer |-> McpServer,
     MultiSelectItems |-> MultiSelectItems, RequestId |-> RequestId,
     RequestPermissionOutcome |-> RequestPermissionOutcome,
     SessionConfigOption |-> SessionConfigOption, SessionUpdate |-> SessionUpdate,
     SetSessionConfigOptionRequest |-> SetSessionConfigOptionRequest,
     ToolCallContent |-> ToolCallContent]

-----------------------------------------------------------------------------
(* UnmarshalJSON and MarshalJSON, which the generator writes for every     *)
(* union along the same lines.                                             *)

Failed == [variant |-> 0]

Fields(type) == type.always @@ type.optional

\* json.Unmarshal(b, &v) succeeds for the variant's type.
Fits(u, i, doc) ==
    LET type == u.types[i] IN
    IF doc.json = "object" /\ type.go = "struct"
    THEN /\ doc.tag = IllTyped => u.tags[i] = NoTag
         /\ \A k \in DOMAIN Fields(type) \cap DOMAIN doc.body :
               Accepts(Fields(type)[k], doc.body[k])
    ELSE Accepts(type.go, doc.json)

\* The keys the decoder looks for are all there.
Shaped(u, i, doc) ==
    /\ u.tags[i] # NoTag => doc.tag # Absent
    /\ u.shapes[i] \subseteq DOMAIN doc.body

\* Mutant: no switch on the discriminator.
Pick_ByShape(u, doc) ==
    LET n == 1..Len(u.types)
        shaped == {i \in n : Shaped(u, i, doc)}
        fitting == {i \in n : Fits(u, i, doc)}
        picked == IF doc.json # "object" THEN {} ELSE shaped
    IN IF picked # {} THEN IF Min(picked) \in fitting THEN Min(picked) ELSE 0
       ELSE IF fitting # {} THEN Min(fitting) ELSE 0

\* The variants tried, in three passes: by tag, by shape, by what fits.  A
\* variant picked by one of the first two must fit, or the document is
\* refused; the third pass goes on to the next.
Pick(u, doc) ==
    LET n == 1..Len(u.types)
        tagged == {i \in n : u.cases[i] = doc.tag}
        shaped == {i \in n : Shaped(u, i, doc)}
        fitting == {i \in n : Fits(u, i, doc)}
        picked == IF doc.json # "object" THEN {}
                  ELSE IF tagged # {} THEN tagged ELSE shaped
    IN IF picked # {} THEN IF Min(picked) \in fitting THEN Min(picked) ELSE 0
       ELSE IF fitting # {} THEN Min(fitting) ELSE 0

\* The variant read and what its fields hold; keys it does not know are
\* dropped.
Read(u, i, doc) ==
    LET fields == Fields(u.types[i])
        got == {k \in DOMAIN fields \cap DOMAIN doc.body :
                  ~(doc.body[k] = "null"
                     /\ (k \in DOMAIN u.types[i].optional \/ fields[k] = "error"))}
    IN [variant |-> i, json |-> Held(u.types[i].go, doc.json), tag |-> doc.tag,
        set |-> [k \in got |-> Held(fields[k], doc.body[k])]]

UnmarshalJSON(u, doc) ==
    LET i == Pick(u, doc) IN IF i = 0 THEN Failed ELSE Read(u, i, doc)

Writable(u, v) ==
    \A k \in DOMAIN u.types[v.variant].always :
        u.types[v.variant].always[k] \in Unwritable => k \in DOMAIN v.set

\* Mutant: a variant that keeps its tag does not write it.
MarshalJSON_Untagged(u, v) ==
    LET type == u.types[v.variant]
        keys == (DOMAIN type.always \cup DOMAIN v.set) \ u.drops
    IN [json |-> v.json,
        tag |-> IF u.tags[v.variant] \in {NoTag, Kept} THEN Absent ELSE u.tags[v.variant],
        body |-> [k \in keys |-> IF k \in DOMAIN v.set THEN v.set[k]
                                 ELSE Held(type.always[k], "null")]]

\* A variant that keeps its tag writes it also when it was read without one.
MarshalJSON(u, v) ==
    LET type == u.types[v.variant]
        keys == (DOMAIN type.always \cup DOMAIN v.set) \ u.drops
    IN [json |-> v.json,
        tag |-> CASE u.tags[v.variant] = NoTag -> Absent
                  [] u.tags[v.variant] = Kept ->
                        IF v.tag = Absent THEN Unknown ELSE v.tag
                  [] OTHER -> u.tags[v.variant],
        body |-> [k \in keys |-> IF k \in DOMAIN v.set THEN v.set[k]
                                 ELSE Held(type.always[k], "null")]]
=============================================================================
