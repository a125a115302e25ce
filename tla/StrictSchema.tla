----------------------------- MODULE StrictSchema -----------------------------
(***************************************************************************)
(* model/schema.rs, strict_schema: rewrites a JSON Schema into the subset  *)
(* strict mode accepts, as the code walks it; and what it means for a      *)
(* value to be accepted by a schema, against which the rewriting is        *)
(* checked.                                                                *)
(***************************************************************************)
EXTENDS RequestBody

CONSTANT Answers \* the values a model may answer with

StrictDrops   == {"uniqueItems", "minProperties", "maxProperties", "dependentRequired", "dependentSchemas"}
SchemaKeys    == {"items", "additionalItems", "prefixItems", "contains", "propertyNames", "not", "if",
                  "then", "else", "anyOf", "allOf"}
SchemaMapKeys == {"properties", "patternProperties", "$defs", "definitions"}

ElementsOf(list) == {list.array[k] : k \in DOMAIN list.array}
TypesOf(schema) ==
  IF "type" \notin DOMAIN schema THEN {}
  ELSE IF "array" \in DOMAIN schema["type"] THEN ElementsOf(schema["type"]) ELSE {schema["type"]}

\* A slip: an object that may also be something else is not counted.
DescribesAnObjectAlone(schema) == "type" \in DOMAIN schema /\ schema["type"] = Leaf("object")

DescribesAnObject(schema) == Leaf("object") \in TypesOf(schema)

RequiredOf(schema) == IF "required" \in DOMAIN schema THEN ElementsOf(schema["required"]) ELSE {}
PropertiesOf(schema) == IF "properties" \in DOMAIN schema THEN schema["properties"].fields ELSE NoFields

\* make_nullable: a property that says no type is left as it is.
MakeNullable(property) ==
  IF ~IsObject(property) \/ TypesOf(property.fields) = {} THEN property
  ELSE Obj("type" :> List(SetToSeq(TypesOf(property.fields) \cup {Leaf("null")})) @@ property.fields)

\* A slip: a property that becomes required is left as it was.
RequireOnly(schema) ==
  IF "properties" \notin DOMAIN schema THEN schema
  ELSE "required" :> List(SetToSeq({Leaf(name) : name \in DOMAIN PropertiesOf(schema)})) @@ schema

\* require_every_property: those that were optional may be null instead.
RequireEveryProperty(schema) ==
  LET properties == PropertiesOf(schema)
  IN IF "properties" \notin DOMAIN schema THEN schema
     ELSE "required" :> List(SetToSeq({Leaf(name) : name \in DOMAIN properties}))
          @@ "properties" :> Obj([name \in DOMAIN properties |->
               IF Leaf(name) \in RequiredOf(schema) THEN properties[name]
               ELSE MakeNullable(properties[name])])
          @@ schema

Without(fields, keys) == [key \in DOMAIN fields \ keys |-> fields[key]]

RenameOneOf(fields) ==
  IF "oneOf" \in DOMAIN fields THEN "anyOf" :> fields["oneOf"] @@ Without(fields, {"oneOf"}) ELSE fields

Close(fields) ==
  IF DescribesAnObject(fields)
  THEN RequireEveryProperty("additionalProperties" :> Leaf("false") @@ fields)
  ELSE fields

\* strictify_each, and the maps of schemas.
Nested(fields, rewrite(_)) ==
  [key \in DOMAIN fields |->
     CASE key \in SchemaKeys /\ "array" \in DOMAIN fields[key] ->
            List([k \in DOMAIN fields[key].array |-> rewrite(fields[key].array[k])])
       [] key \in SchemaKeys /\ "array" \notin DOMAIN fields[key] -> rewrite(fields[key])
       [] key \in SchemaMapKeys /\ IsObject(fields[key]) ->
            Obj([name \in DOMAIN fields[key].fields |-> rewrite(fields[key].fields[name])])
       [] OTHER -> fields[key]]

\* strict_schema and strictify
RECURSIVE Strictify(_)
Strictify(schema) ==
  IF ~IsObject(schema) THEN schema
  ELSE Obj(Nested(Close(RenameOneOf(Without(schema.fields, StrictDrops))), Strictify))

-----------------------------------------------------------------------------
(* What a schema means *)

TypeOfValue(value) ==
  CASE IsObject(value)          -> Leaf("object")
    [] "array" \in DOMAIN value -> Leaf("array")
    [] value = Leaf("null")     -> Leaf("null")
    [] OTHER                    -> Leaf("string")

\* The keywords of StrictDrops only narrow and are not read: strict mode has no
\* way to say them.  Nor are those a schema is refused for.
RECURSIVE Accepts(_, _)
Accepts(schema, value) ==
  LET fields == schema.fields
  IN /\ "type" \in DOMAIN fields => TypeOfValue(value) \in TypesOf(fields)
     /\ "enum" \in DOMAIN fields => value \in ElementsOf(fields["enum"])
     /\ "anyOf" \in DOMAIN fields =>
          \E variant \in ElementsOf(fields["anyOf"]) : Accepts(variant, value)
     /\ "oneOf" \in DOMAIN fields =>
          Cardinality({variant \in ElementsOf(fields["oneOf"]) : Accepts(variant, value)}) = 1
     /\ IsObject(value) =>
          /\ \A name \in DOMAIN value.fields \cap DOMAIN PropertiesOf(fields) :
               Accepts(PropertiesOf(fields)[name], value.fields[name])
          /\ \A name \in RequiredOf(fields) : name.leaf \in DOMAIN value.fields
          /\ "additionalProperties" \in DOMAIN fields =>
               DOMAIN value.fields \subseteq DOMAIN PropertiesOf(fields)
     /\ "array" \in DOMAIN value /\ "items" \in DOMAIN fields =>
          \A item \in ElementsOf(value) : Accepts(fields["items"], item)
     /\ "array" \in DOMAIN value /\ "prefixItems" \in DOMAIN fields =>
          \A k \in DOMAIN value.array \cap DOMAIN fields["prefixItems"].array :
            Accepts(fields["prefixItems"].array[k], value.array[k])

\* Whether a value is another one read with some of its nulls as absent.
RECURSIVE ReadsAs(_, _)
ReadsAs(value, other) ==
  \/ value = other
  \/ /\ IsObject(value) /\ IsObject(other)
     /\ DOMAIN other.fields \subseteq DOMAIN value.fields
     /\ \A name \in DOMAIN value.fields :
          IF name \in DOMAIN other.fields THEN ReadsAs(value.fields[name], other.fields[name])
          ELSE value.fields[name] = Leaf("null")
  \/ /\ "array" \in DOMAIN value /\ "array" \in DOMAIN other
     /\ DOMAIN value.array = DOMAIN other.array
     /\ \A k \in DOMAIN value.array : ReadsAs(value.array[k], other.array[k])

\* Whether every object of a value has only members its schema names.
RECURSIVE NamesOnly(_, _)
NamesOnly(schema, value) ==
  LET fields == schema.fields
  IN /\ IsObject(value) /\ DescribesAnObject(fields) =>
          /\ DOMAIN value.fields \subseteq DOMAIN PropertiesOf(fields)
          /\ \A name \in DOMAIN value.fields :
               NamesOnly(PropertiesOf(fields)[name], value.fields[name])
     /\ "array" \in DOMAIN value /\ "items" \in DOMAIN fields =>
          \A item \in ElementsOf(value) : NamesOnly(fields["items"], item)
     /\ "array" \in DOMAIN value /\ "prefixItems" \in DOMAIN fields =>
          \A k \in DOMAIN value.array \cap DOMAIN fields["prefixItems"].array :
            NamesOnly(fields["prefixItems"].array[k], value.array[k])
     /\ \A key \in {"anyOf", "oneOf"} \cap DOMAIN fields :
          \E variant \in ElementsOf(fields[key]) : Accepts(variant, value) /\ NamesOnly(variant, value)

\* Where JSON Schema has a schema inside another; the keywords that strict mode
\* rejects, those that narrow or have another name and those that say what no
\* other keyword could.
SchemaPositions == {"items", "additionalItems", "prefixItems", "contains", "propertyNames", "not", "if",
                    "then", "else", "anyOf", "oneOf", "allOf"}
SchemaMaps      == {"properties", "patternProperties", "$defs", "definitions"}
Dispensable     == {"uniqueItems", "minProperties", "maxProperties", "dependentRequired",
                    "dependentSchemas", "oneOf"}
Meaningful      == {"allOf", "not", "if", "then", "else", "contains", "propertyNames"}

\* The schemas a schema is made of, itself and those inside it at any depth.
RECURSIVE SchemasIn(_)
SchemasIn(schema) ==
  IF ~IsObject(schema) THEN {}
  ELSE LET fields == schema.fields
           held   == UNION {IF "array" \in DOMAIN fields[key] THEN ElementsOf(fields[key]) ELSE {fields[key]} :
                              key \in SchemaPositions \cap DOMAIN fields}
           named  == UNION {{fields[key].fields[name] : name \in DOMAIN fields[key].fields} :
                              key \in SchemaMaps \cap DOMAIN fields}
       IN {schema} \cup UNION {SchemasIn(inner) : inner \in held \cup named}

IsStrict(schema) ==
  \A inner \in SchemasIn(schema) :
    LET fields == inner.fields
    IN /\ DOMAIN fields \cap Dispensable = {}
       /\ Leaf("object") \in TypesOf(fields) =>
            /\ "additionalProperties" \in DOMAIN fields /\ fields["additionalProperties"] = Leaf("false")
            /\ {name.leaf : name \in RequiredOf(fields)} = DOMAIN PropertiesOf(fields)

\* Whether the endpoint refuses a schema that is otherwise strict.
StillRefused(schema) == \E inner \in SchemasIn(schema) : DOMAIN inner.fields \cap Meaningful # {}

\* Whether null in the place of a member is what the rewriting makes possible: the
\* member says its type, which is widened, and nothing else in it is against null.
CanBeNull(property) ==
  /\ IsObject(property) /\ TypesOf(property.fields) # {}
  /\ Accepts(Obj(Without(property.fields, {"type"})), Leaf("null"))

OptionalMembersCanBeNull(schema) ==
  \A inner \in SchemasIn(schema) :
    LET properties == PropertiesOf(inner.fields)
    IN \A name \in DOMAIN properties :
         Leaf(name) \in RequiredOf(inner.fields) \/ CanBeNull(properties[name])

=============================================================================
