------------------------------- MODULE Request -------------------------------
(***************************************************************************)
(* One request, from the first call of a builder to what is sent: the      *)
(* calls that configure the endpoint and those that say what is asked, in  *)
(* any order, each with a value of its own; then the client, with a key or *)
(* without, and the address, headers and body it posts.                    *)
(***************************************************************************)
EXTENDS StrictSchema, Address

CONSTANTS
  Overlays,    \* the fields merged into a body, each made around a value
  Settings,    \* what a request is asked, a record of sets by field
  Schemas,     \* the schemas a caller writes
  Merged       \* the fields of a request that the overlays meet

VARIABLES
  request, \* the GenerateRequest
  posted   \* what is serialized for it, once it is sent

vars == <<addressVars, request, posted>>

Unbuilt == [built |-> FALSE]

ConfigureBody(call, changed) == Configure(call, changed) /\ UNCHANGED <<request, posted>>

Ask(call, changed) ==
  Record(call) /\ request' = changed /\ UNCHANGED <<config, posted>>

-----------------------------------------------------------------------------
(* EndpointConfig *)

SetBody(fields) == ConfigureBody(Call("body", "none", fields), WithBody(config, fields))
SetTokenField ==
  ConfigureBody(Call("token_limit_field", "none", "none"),
                [config EXCEPT !.tokenField = "max_completion_tokens"])
SetDefaultModel ==
  ConfigureBody(Call("default_model", "none", Fresh), [config EXCEPT !.defaultModel = {Fresh}])

-----------------------------------------------------------------------------
(* GenerateRequest *)

SetField(field, value) ==
  Ask(Call("set", field, "none"), [request EXCEPT ![field] = {value}])

SetTools(tools) == Ask(Call("set", "tools", "none"), [request EXCEPT !.tools = tools])

\* A caller who asks for a strict schema rewrites the one at hand.
SetSchema(schema) ==
  Ask(Call("schema", "none", schema),
      [request EXCEPT !.format = {SchemaFormat("shape", Strictify(schema), TRUE)}])

AddExtra(dialect, fields) ==
  Ask(Call("extra_for", dialect, fields), WithExtra(request, dialect, fields))

-----------------------------------------------------------------------------
(* Client *)

\* The body that is serialized: built, marked as a stream, and merged into.
Body(stream) ==
  LET built == Build(request, config)
      wire  == IF stream THEN Streaming(built.fields, config) ELSE built.fields
  IN [built |-> built.refused = "none", wire |-> wire,
      body  |-> IF built.refused = "none" THEN ToValue(wire, request, config) ELSE NoFields]

\* A request that cannot be built is refused before anything is posted: `built`
\* says which it was.
PostBody == Posts /\ posted' = Body(sent'.stream) /\ UNCHANGED request

CallsOfTheQuestion ==
  \/ SetTokenField
  \/ SetDefaultModel
  \/ \E field \in DOMAIN Settings : \E value \in Settings[field] :
       IF field = "tools" THEN SetTools(value) ELSE SetField(field, value)
  \/ \E schema \in Schemas : SetSchema(schema)

CallsOfTheMerging ==
  \/ SetTokenField
  \/ \E field \in Merged : \E value \in Settings[field] : SetField(field, value)
  \/ \E shape \in DOMAIN Overlays :
       LET fields == Overlays[shape][Fresh]
       IN SetBody(fields) \/ \E dialect \in {config.dialect, "another"} : AddExtra(dialect, fields)

RequestNext ==
  \/ concern = "address" /\ CallsOfTheAddress /\ UNCHANGED <<request, posted>>
  \/ concern = "question" /\ CallsOfTheQuestion
  \/ concern = "merging" /\ CallsOfTheMerging
  \/ PostBody

RequestInit == AddressInit /\ request = NewRequest /\ posted = Unbuilt

RequestSpec == RequestInit /\ [][RequestNext]_vars

-----------------------------------------------------------------------------
(* Properties *)

\* The leaves of an object, each with the path to it.
RECURSIVE Leaves(_)
Leaves(fields) ==
  UNION {IF IsObject(fields[key])
         THEN {[path |-> <<key>> \o leaf.path, value |-> leaf.value] : leaf \in Leaves(fields[key].fields)}
         ELSE {[path |-> <<key>>, value |-> fields[key]]} : key \in DOMAIN fields}

Meets(p, q) == IsPrefix(p, q) \/ IsPrefix(q, p)

(* What is merged into a body wins over what was there, in the order that is
   documented and at any depth: the request as built, then the endpoint's fields,
   then the request's own for this dialect; and nothing of another dialect's is
   in it, nor is anything lost that no later field met (merge_into, to_value). *)
LaterFieldsWin ==
  sent.done /\ posted.built =>
    LET bodies == SelectSeq(made, LAMBDA call : call.op = "body")
        extras == SelectSeq(made, LAMBDA call : call.op = "extra_for" /\ call.name = config.dialect)
        later  == bodies \o extras
        layers == <<posted.wire>> \o [k \in DOMAIN later |-> later[k].value]
        leaves == [k \in DOMAIN layers |-> Leaves(layers[k])]
        kept   == UNION {{leaf \in leaves[k] :
                            \A l \in k + 1 .. Len(layers) :
                              \A other \in leaves[l] : ~Meets(leaf.path, other.path)} :
                         k \in DOMAIN layers}
    IN /\ kept \subseteq Leaves(posted.body)
       /\ Leaves(posted.body) \subseteq kept

\* What a dialect can tell apart of a request: Gemini and Anthropic take no name
\* and no strictness with a schema, Gemini no strictness of a tool, and Anthropic
\* has text and its own cap as what it does when asked for nothing.
ToldApart(asked) ==
  LET plain(format) == [format EXCEPT !.name = "none", !.strict = FALSE]
      formats == IF config.dialect \in {"gemini", "anthropic"}
                 THEN {plain(format) : format \in asked.format} ELSE asked.format
  IN [asked EXCEPT
        !.model  = ModelFor(asked, config),
        !.format = IF config.dialect = "anthropic" THEN formats \ {TextFormat} ELSE formats,
        !.maxTokens = IF config.dialect = "anthropic" /\ @ = {} THEN {DefaultMaxTokens} ELSE @,
        !.tools  = [k \in DOMAIN @ |->
                      IF config.dialect = "gemini" THEN [@[k] EXCEPT !.strict = {}] ELSE @[k]]]

(* Nothing a request asks is dropped on the way: two requests that differ in one
   setting make bodies that differ, or are refused, in every dialect but for what
   ToldApart names (the four builders; docs/reference/errors.md, "Freyja refuses
   rather than silently dropping the field"). *)
NothingAskedIsDropped ==
  sent.done /\ posted.built =>
    \A field \in DOMAIN Settings : \A value \in Settings[field] :
      LET other == [request EXCEPT ![field] = IF field = "tools" THEN value ELSE {value}]
          built == Build(other, config)
      IN built.refused = "none" /\ built.fields = Build(request, config).fields =>
           ToldApart(other) = ToldApart(request)

(* Every object of a rewritten schema, at any depth and wherever a schema may
   stand, is closed and requires all its properties, and none of the keywords that
   the rewriting removes or renames is left there; rewriting once is enough; and
   a schema with a keyword that strict mode rejects and the rewriting leaves, as
   `allOf` or `not`, still has one, so the endpoint refuses it and answers no
   other schema instead (strict_schema; docs/reference/requests.md, "What it
   leaves alone"). *)
RewrittenSchemasAreStrict ==
  \A k \in DOMAIN made : made[k].op = "schema" =>
    LET strict == Strictify(made[k].value)
    IN /\ IsStrict(strict)
       /\ Strictify(strict) = strict
       /\ StillRefused(strict) <=> StillRefused(made[k].value)

\* Whether each answer that a schema accepts, and whose members it names, can
\* still be given under the strict one, with null for a member that is absent.
AnswersStayPossible(schema) ==
  \A answer \in Answers :
    Accepts(schema, answer) /\ NamesOnly(schema, answer) =>
      \E given \in Answers : Accepts(Strictify(schema), given) /\ ReadsAs(given, answer)

(* Each answer that a written schema accepts can still be given under the strict
   one, with null for a member that is absent, unless it has members that no
   schema names (docs/reference/requests.md, "may be absent" becomes "may be
   null"; require_every_property). *)
AbsentMayBeNull ==
  \A k \in DOMAIN made : made[k].op = "schema" => AnswersStayPossible(made[k].value)

(* A rewritten schema that the endpoint takes means what the written one does:
   each answer it accepts is, with its nulls read as absent, one the written
   schema accepts; and no answer the written one accepts is lost, if each of its
   optional members says a type and, that type aside, accepts null: an optional
   member without a type, or with an `enum` that has no null, stays as it was and
   is now required (make_nullable, require_every_property). *)
RewrittenSchemasKeepTheirMeaning ==
  \A k \in DOMAIN made : made[k].op = "schema" /\ ~StillRefused(made[k].value) =>
    LET schema == made[k].value
    IN /\ OptionalMembersCanBeNull(schema) => AnswersStayPossible(schema)
       /\ \A answer \in Answers : Accepts(Strictify(schema), answer) =>
            \E read \in Answers : ReadsAs(answer, read) /\ Accepts(schema, read)

=============================================================================
