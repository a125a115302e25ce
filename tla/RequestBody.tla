----------------------------- MODULE RequestBody -----------------------------
(***************************************************************************)
(* model/request.rs, model/tools.rs, the fields of the four builders under *)
(* dialect/, and to_value of transport/mod.rs: what a request sets, which  *)
(* field of the wire carries it, and what is merged into the body on top.  *)
(* The conversation is one field here; WireRequest has what becomes of it. *)
(*                                                                         *)
(* A JSON value is a leaf, an array or an object; a leaf is a string, the  *)
(* spelling of whatever it is.  An Option is a set of at most one element. *)
(***************************************************************************)
EXTENDS Endpoint

CONSTANT DefaultMaxTokens \* DEFAULT_MAX_TOKENS of the Anthropic builder

Leaf(value)  == [leaf |-> value]
List(values) == [array |-> values]
Obj(fields)  == [fields |-> fields]
IsObject(value) == "fields" \in DOMAIN value

NoFields      == <<>>
Field(key, value) == key :> value
\* A field that is left out when there is nothing to put in it.
Opt(key, option) == IF option = {} THEN NoFields ELSE key :> Leaf(TheOne(option))
Flag(key, given, value) == IF given THEN key :> value ELSE NoFields

-----------------------------------------------------------------------------
(* The request *)

\* GenerateRequest::new
NewRequest ==
  [model |-> {}, maxTokens |-> {}, temperature |-> {}, topP |-> {}, effort |-> {},
   format |-> {}, tools |-> <<>>, choice |-> {}, previous |-> {}, metadata |-> {}, extra |-> <<>>]

\* ResponseFormat, ToolDefinition and ToolChoice.
TextFormat       == [kind |-> "text", name |-> "none", schema |-> "none", strict |-> FALSE]
JsonObjectFormat == [TextFormat EXCEPT !.kind = "json_object"]
SchemaFormat(name, schema, strict) ==
  [kind |-> "json_schema", name |-> name, schema |-> schema, strict |-> strict]
ToolDefinition(name, parameters, strict) ==
  [name |-> name, parameters |-> parameters, strict |-> strict]
Choice(mode)  == [mode |-> mode, name |-> "none"]
Named(tool)   == [mode |-> "named", name |-> tool]

\* ToolDefinition::schema: what is no object goes out as the empty one.
EmptySchema   == Obj("type" :> Leaf("object") @@ "properties" :> Obj(NoFields))
Schema(tool)  == IF IsObject(tool.parameters) THEN tool.parameters ELSE EmptySchema

Bool(value) == Leaf(IF value THEN "true" ELSE "false")

-----------------------------------------------------------------------------
(* What the four builders have in common *)

Made(fields)  == [refused |-> "none", fields |-> fields]
Refuse(what)  == [refused |-> what, fields |-> NoFields]

\* EndpointConfig::model_for
ModelFor(request, config) == IF request.model # {} THEN request.model ELSE config.defaultModel

\* A tool as an object, with its schema under a key that differs; `strict` is
\* left out unless the tool says.
ToolFields(tool, key) ==
  "name" :> Leaf(tool.name) @@ "description" :> Leaf("d") @@ key :> Schema(tool)
StrictField(tool) == IF tool.strict = {} THEN NoFields ELSE "strict" :> Bool(TheOne(tool.strict))

Tools(request, wire(_)) ==
  Flag("tools", request.tools # <<>>, List([k \in DOMAIN request.tools |-> wire(request.tools[k])]))

ChoiceField(request, wire(_)) ==
  IF request.choice = {} THEN NoFields ELSE "tool_choice" :> wire(TheOne(request.choice))

FormatField(key, request, wire(_)) ==
  IF request.format = {} THEN NoFields ELSE key :> wire(TheOne(request.format))

Kind(kind) == "type" :> Leaf(kind)

-----------------------------------------------------------------------------
(* The builders *)

ResponsesTool(tool) == Obj(Kind("function") @@ ToolFields(tool, "parameters") @@ StrictField(tool))

ResponsesChoice(choice) ==
  IF choice.mode = "named" THEN Obj(Kind("function") @@ "name" :> Leaf(choice.name))
  ELSE Leaf(choice.mode)

ResponsesText(format) ==
  IF format.kind # "json_schema" THEN Obj("format" :> Obj(Kind(format.kind)))
  ELSE Obj("format" :> Obj(Kind("json_schema") @@ "name" :> Leaf(format.name)
             @@ "schema" :> format.schema @@ "strict" :> Bool(format.strict)))

ResponsesFields(request, config) ==
  IF ModelFor(request, config) = {} THEN Refuse("InvalidRequest")
  ELSE Made(
    Opt("model", ModelFor(request, config)) @@ "input" :> Leaf("conversation")
    @@ Opt("max_output_tokens", request.maxTokens)
    @@ Opt("temperature", request.temperature) @@ Opt("top_p", request.topP)
    @@ Flag("reasoning", request.effort # {}, Obj(Opt("effort", request.effort)))
    @@ FormatField("text", request, ResponsesText)
    @@ Tools(request, ResponsesTool) @@ ChoiceField(request, ResponsesChoice)
    @@ Opt("previous_response_id", request.previous) @@ Opt("metadata", request.metadata))

ChatTool(tool) ==
  Obj(Kind("function") @@
      "function" :> Obj(ToolFields(tool, "parameters") @@ StrictField(tool)))

ChatChoice(choice) ==
  IF choice.mode = "named"
  THEN Obj(Kind("function") @@ "function" :> Obj("name" :> Leaf(choice.name)))
  ELSE Leaf(choice.mode)

ChatFormat(format) ==
  IF format.kind # "json_schema" THEN Obj(Kind(format.kind))
  ELSE Obj(Kind("json_schema") @@ "json_schema" :>
             Obj("name" :> Leaf(format.name) @@ "schema" :> format.schema
                 @@ "strict" :> Bool(format.strict)))

\* A slip: the cap goes only in the field that came first.
ChatCapFirst(request, config) ==
  IF config.tokenField = "max_tokens" THEN Opt("max_tokens", request.maxTokens) ELSE NoFields

\* The cap goes in one of two fields, never in both.
ChatCap(request, config) == Opt(config.tokenField, request.maxTokens)

ChatFields(request, config) ==
  CASE request.previous # {} -> Refuse("UnsupportedCapability")
    [] request.previous = {} /\ ModelFor(request, config) = {} -> Refuse("InvalidRequest")
    [] OTHER -> Made(
         Opt("model", ModelFor(request, config)) @@ "messages" :> Leaf("conversation")
         @@ ChatCap(request, config)
         @@ Opt("temperature", request.temperature) @@ Opt("top_p", request.topP)
         @@ Opt("reasoning_effort", request.effort)
         @@ FormatField("response_format", request, ChatFormat)
         @@ Tools(request, ChatTool) @@ ChoiceField(request, ChatChoice)
         @@ Opt("metadata", request.metadata))

GeminiTool(tool) == Obj(Kind("function") @@ ToolFields(tool, "parameters"))

GeminiChoice(choice) ==
  CASE choice.mode = "named" ->
         Obj("allowed_tools" :> Obj("mode" :> Leaf("any") @@ "tools" :> List(<<Leaf(choice.name)>>)))
    [] choice.mode = "required" -> Leaf("any")
    [] OTHER -> Leaf(choice.mode)

GeminiFormat(format) ==
  CASE format.kind = "text"        -> Obj(Kind("text"))
    [] format.kind = "json_object" -> Obj(Kind("object"))
    [] format.kind = "json_schema" -> format.schema

GeminiFields(request, config) ==
  LET nested == Opt("max_output_tokens", request.maxTokens)
                @@ Opt("temperature", request.temperature) @@ Opt("top_p", request.topP)
                @@ Opt("thinking_level", request.effort) @@ ChoiceField(request, GeminiChoice)
  IN IF ModelFor(request, config) = {} THEN Refuse("InvalidRequest")
     ELSE Made(
       Opt("model", ModelFor(request, config)) @@ "input" :> Leaf("conversation")
       @@ Flag("generation_config", nested # NoFields, Obj(nested))
       @@ FormatField("response_format", request, GeminiFormat)
       @@ Tools(request, GeminiTool) @@ Opt("labels", request.metadata)
       @@ Opt("previous_interaction_id", request.previous))

AnthropicTool(tool) == Obj(ToolFields(tool, "input_schema") @@ StrictField(tool))

AnthropicChoice(choice) ==
  CASE choice.mode = "named"    -> Obj(Kind("tool") @@ "name" :> Leaf(choice.name))
    [] choice.mode = "required" -> Obj(Kind("any"))
    [] OTHER -> Obj(Kind(choice.mode))

\* Effort and format share one object; no effort at all turns thinking off.
AnthropicOutput(request) ==
  Opt("effort", request.effort \ {"none"})
  @@ IF \E format \in request.format : format.kind = "json_schema"
     THEN "format" :> Obj(Kind("json_schema") @@ "schema" :> TheOne(request.format).schema)
     ELSE NoFields

AnthropicFields(request, config) ==
  LET refused == \/ request.previous # {}
                 \/ \E format \in request.format : format.kind = "json_object"
      output  == AnthropicOutput(request)
  IN CASE refused -> Refuse("UnsupportedCapability")
       [] ~refused /\ ModelFor(request, config) = {} -> Refuse("InvalidRequest")
       [] OTHER -> Made(
            Opt("model", ModelFor(request, config)) @@ "messages" :> Leaf("conversation")
            @@ Opt("max_tokens", IF request.maxTokens = {} THEN {DefaultMaxTokens} ELSE request.maxTokens)
            @@ Opt("temperature", request.temperature) @@ Opt("top_p", request.topP)
            @@ Flag("thinking", request.effort = {"none"}, Obj(Kind("disabled")))
            @@ Flag("output_config", output # NoFields, Obj(output))
            @@ Tools(request, AnthropicTool) @@ ChoiceField(request, AnthropicChoice)
            @@ Opt("metadata", request.metadata))

\* with_dialect and WireDialect::build.
Build(request, config) ==
  CASE config.dialect = "responses" -> ResponsesFields(request, config)
    [] config.dialect = "chat"      -> ChatFields(request, config)
    [] config.dialect = "gemini"    -> GeminiFields(request, config)
    [] config.dialect = "anthropic" -> AnthropicFields(request, config)

\* Request::streaming of each dialect.
Streaming(fields, config) ==
  "stream" :> Leaf("true")
  @@ Flag("stream_options", config.dialect = "chat", Obj("include_usage" :> Leaf("true")))
  @@ fields

-----------------------------------------------------------------------------
(* Merging *)

\* A slip: an object that meets an object replaces it.
MergeShallow(base, overlay) == overlay @@ base

\* merge_into, over the fields of two objects.
RECURSIVE MergeInto(_, _)
MergeInto(base, overlay) ==
  [key \in DOMAIN base \cup DOMAIN overlay |->
     IF key \notin DOMAIN overlay THEN base[key]
     ELSE IF /\ key \in DOMAIN base
             /\ IsObject(base[key]) /\ IsObject(overlay[key])
          THEN Obj(MergeInto(base[key].fields, overlay[key].fields))
          ELSE overlay[key]]

\* A slip: the endpoint's own fields come last.
ToValueReversed(fields, request, config) ==
  LET mine == SelectSeq(request.extra, LAMBDA extra : extra.dialect = config.dialect)
  IN MergeInto(FoldLeft(LAMBDA made, extra : MergeInto(made, extra.fields), fields, mine), config.body)

\* to_value: the endpoint's fields, then those of the request for this dialect.
ToValue(fields, request, config) ==
  LET mine == SelectSeq(request.extra, LAMBDA extra : extra.dialect = config.dialect)
  IN FoldLeft(LAMBDA made, extra : MergeInto(made, extra.fields), MergeInto(fields, config.body), mine)

\* EndpointConfig::body and GenerateRequest::extra_for
WithBody(config, fields) == [config EXCEPT !.body = MergeInto(@, fields)]
WithExtra(request, dialect, fields) ==
  [request EXCEPT !.extra = Append(@, [dialect |-> dialect, fields |-> fields])]

=============================================================================
