------------------------------ MODULE MCRequest ------------------------------
(* Constants for checking Request. *)
EXTENDS Request

\* A header in two cases, one a dialect requires and one a credential takes.
MCHeaderNames == {"X-Tenant", "x-tenant", "Anthropic-Version", "X-Api-Key"}
MCQueryNames  == {"tenant", "pass"}

MCLower ==
  [name \in {"tenant", "pass", "key", "alt", "none", "authorization", "x-api-key",
             "x-goog-api-key", "x-tenant", "anthropic-version"} |-> name]
  @@ "X-Tenant" :> "x-tenant" @@ "Anthropic-Version" :> "anthropic-version"
  @@ "X-Api-Key" :> "x-api-key" @@ "Api-Revision" :> "api-revision"

MCTelling == {"authorization", "x-api-key", "x-goog-api-key", "key"}

MCBaseParts == [parses |-> TRUE, query |-> <<Pair("tenant", "base")>>]

\* A parameter with a telling name and one without.
MCAuths == {Bearer, HeaderAuth("X-Api-Key"), QueryAuth("key"), QueryAuth("pass"), NoAuth}

\* A leaf, an object and an object the builders make.
MCOverlays ==
  [leaf   |-> [value \in {"1", "2", "3"} |-> "x" :> Leaf(value)],
   object |-> [value \in {"1", "2", "3"} |-> "x" :> Obj(value :> Leaf(value))],
   same   |-> [value \in {"1", "2", "3"} |-> "x" :> Obj("p" :> Leaf(value))],
   known  |-> [value \in {"1", "2", "3"} |->
                 "generation_config" :> Obj("temperature" :> Leaf(value))
                 @@ "max_tokens" :> Leaf(value)]]

-----------------------------------------------------------------------------
Required(names) == "required" :> List(names)
Typed(kind) == Obj(Kind(kind))
Properties(fields) == "properties" :> Obj(fields)
Object(fields, required) == Obj(Kind("object") @@ Properties(fields) @@ Required(required))

\* Optional members that nothing lets be null: one says no type of its own, and
\* the type of the other is beside a list of values.
MCUntypedSchemas ==
  {Object("a" :> Obj("anyOf" :> List(<<Typed("string"), Typed("object")>>)), <<>>),
   Object("a" :> Obj(Kind("string") @@ "enum" :> List(<<Leaf("s")>>)), <<>>)}

\* Optional and required members, an object in an object, in a list, in a place
\* of a list, in a variant and among definitions, a list of types and of values,
\* a member named like a keyword, keywords that are dropped and ones that are
\* not, and what is no object at all.
MCSchemas ==
  LET text  == Typed("string")
      inner == Object("b" :> text, <<>>)
      named == Object("c" :> text, <<Leaf("c")>>)
      sized == Obj(inner.fields @@ "minProperties" :> Leaf("s"))
      bare  == Object("a" :> text, <<>>).fields
  IN {text,
      Object("a" :> text, <<Leaf("a")>>),
      Object("a" :> text @@ "b" :> text, <<Leaf("b")>>),
      Object("a" :> inner, <<>>),
      Object("items" :> inner, <<Leaf("items")>>),
      Obj(Kind("object") @@ Properties("a" :> Obj("type" :> List(<<Leaf("string"), Leaf("object")>>)))),
      Object("a" :> Obj(Kind("array") @@ "items" :> inner @@ "uniqueItems" :> Leaf("true")), <<>>),
      Obj("oneOf" :> List(<<Object("b" :> text, <<Leaf("b")>>), named>>)),
      Object("a" :> Obj("anyOf" :> List(<<inner, text>>)), <<Leaf("a")>>),
      Object("a" :> Obj(Kind("string") @@ "enum" :> List(<<Leaf("s")>>)), <<Leaf("a")>>),
      Object("a" :> Obj(Kind("string") @@ "enum" :> List(<<Leaf("s"), Leaf("null")>>)), <<>>),
      Obj(bare @@ "$defs" :> Obj("d" :> sized)),
      Object("a" :> Obj(Kind("array") @@ "prefixItems" :> List(<<sized, text>>)), <<>>),
      Obj(bare @@ "allOf" :> List(<<sized>>)),
      Obj(bare @@ "not" :> sized)}
     \cup MCUntypedSchemas

MCSettings ==
  [model       |-> {"m"},
   maxTokens   |-> {"5", "4096"},
   temperature |-> {"t"},
   topP        |-> {"t"},
   effort      |-> {"none", "high"},
   format      |-> {TextFormat, JsonObjectFormat, SchemaFormat("one", Typed("string"), FALSE),
                    SchemaFormat("two", Typed("string"), TRUE)},
   tools       |-> {<<ToolDefinition("f", Typed("object"), {})>>,
                    <<ToolDefinition("f", Typed("object"), {TRUE})>>,
                    <<ToolDefinition("f", Typed("object"), {}), ToolDefinition("g", Leaf("null"), {})>>},
   choice      |-> {Choice("auto"), Choice("required"), Choice("none"), Named("f")},
   previous    |-> {"r"},
   metadata    |-> {"w"}]

\* Strings, nulls, and objects and lists of them, three deep.
MCAnswers ==
  LET flat   == {Leaf("s"), Leaf("null")}
      over(names, values) == {Obj(f) : f \in UNION {[kept -> values] : kept \in SUBSET names}}
      small  == over({"b", "c"}, flat)
      lists  == {List(<<>>)} \cup {List(<<v>>) : v \in over({"b"}, flat)}
  IN flat \cup small \cup over({"a", "b"}, flat) \cup over({"a"}, small \cup lists)
          \cup over({"items"}, over({"b"}, flat))

MCMaxCalls == [address |-> 3, question |-> 2, merging |-> 3]
MCOneCall  == [question |-> 1]
=============================================================================
