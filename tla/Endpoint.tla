------------------------------- MODULE Endpoint -------------------------------
(***************************************************************************)
(* endpoint/mod.rs, endpoint/presets.rs and dialect/mod.rs: what an        *)
(* endpoint is configured with, call by call; and the address and headers  *)
(* transport/mod.rs sends a request with.  Beside them, everything Freyja  *)
(* prints of the two: the URL of the configuration, Debug of the           *)
(* configuration and of the client, and the URL in a transport error.      *)
(*                                                                         *)
(* A name is compared as the code compares it, a value only with itself.   *)
(* Slashes, escapes and the text of an address are left out.  An Option is *)
(* a set of at most one element.                                           *)
(***************************************************************************)
EXTENDS SequencesExt, Picks

CONSTANTS
  Lower,    \* str::to_ascii_lowercase, a function over the names in use
  Telling,  \* the lowercase names that hold one of SECRET_NAME_MARKERS
  BaseParts \* what the base URL comes to: whether it parses, and its query

\* What an Option holds.
TheOne(option) == CHOOSE held \in option : TRUE

Dialects == {"responses", "chat", "gemini", "anthropic"}

Bearer        == [kind |-> "bearer", name |-> "authorization"]
HeaderAuth(n) == [kind |-> "header", name |-> n]
QueryAuth(n)  == [kind |-> "query", name |-> n]
NoAuth        == [kind |-> "none", name |-> "none"]

\* Dialect::default_auth, path, required_headers and stream_query.
DefaultAuth(dialect) ==
  CASE dialect \in {"responses", "chat"} -> Bearer
    [] dialect = "gemini"    -> HeaderAuth("x-goog-api-key")
    [] dialect = "anthropic" -> HeaderAuth("x-api-key")

DialectPath(dialect) ==
  CASE dialect = "responses" -> "/responses"
    [] dialect = "chat"      -> "/chat/completions"
    [] dialect = "gemini"    -> "/interactions"
    [] dialect = "anthropic" -> "/messages"

Pair(name, value) == [name |-> name, value |-> value]

RequiredHeaders(dialect) ==
  CASE dialect \in {"responses", "chat"} -> <<>>
    [] dialect = "gemini"    -> <<Pair("Api-Revision", "required")>>
    [] dialect = "anthropic" -> <<Pair("anthropic-version", "required")>>

StreamQuery(dialect) == IF dialect = "gemini" THEN <<Pair("alt", "sse")>> ELSE <<>>

-----------------------------------------------------------------------------
(* Building a configuration *)

NewConfig(dialect) ==
  [dialect |-> dialect, auth |-> DefaultAuth(dialect), apiKeyEnv |-> {}, defaultModel |-> {},
   headers |-> <<>>, query |-> <<>>, secretHeaders |-> {}, secretQuery |-> {},
   path |-> {}, body |-> <<>>, tokenField |-> "max_tokens"]

\* EndpointPreset::config
Preset(dialect) ==
  [NewConfig(dialect) EXCEPT !.apiKeyEnv = {dialect}, !.defaultModel = {"preset"}]

WithHeader(config, name, value) ==
  [config EXCEPT !.headers = Append(@, Pair(name, value))]

\* A slip: the name is classified as it was written.
WithSecretHeaderAsWritten(config, name, value) ==
  [WithHeader(config, name, value) EXCEPT !.secretHeaders = @ \cup {name}]

WithSecretHeader(config, name, value) ==
  [WithHeader(config, name, value) EXCEPT !.secretHeaders = @ \cup {Lower[name]}]

WithQuery(config, name, value) ==
  [config EXCEPT !.query = Append(@, Pair(name, value))]

WithSecretQuery(config, name, value) ==
  [WithQuery(config, name, value) EXCEPT !.secretQuery = @ \cup {name}]

IsSecretName(name) == Lower[name] \in Telling

IsSecretHeader(config, name) == Lower[name] \in config.secretHeaders \/ IsSecretName(name)

IsSecretQuery(config, name) ==
  \/ name \in config.secretQuery
  \/ config.auth = QueryAuth(name)
  \/ IsSecretName(name)

\* Client::from_env: a client with its key, or none.
FromEnv(config, env) ==
  CASE config.auth = NoAuth -> {[config |-> config, key |-> {}]}
    [] config.auth # NoAuth /\ config.apiKeyEnv # {} /\ env = "key" ->
         {[config |-> config, key |-> {"key"}]}
    [] OTHER -> {}

-----------------------------------------------------------------------------
(* The address *)

Withheld(value, secret) == IF secret THEN "REDACTED" ELSE value

\* build_url: a base that does not parse keeps its path and loses every
\* parameter.
BuildUrl(config, extra, reveal) ==
  LET shown(pair) ==
        Pair(pair.name, Withheld(pair.value, ~reveal /\ IsSecretQuery(config, pair.name)))
  IN [parses |-> BaseParts.parses,
      path   |-> IF config.path = {} THEN {DialectPath(config.dialect)} ELSE config.path,
      query  |-> IF BaseParts.parses
                 THEN BaseParts.query \o [k \in DOMAIN config.query |-> shown(config.query[k])]
                      \o extra
                 ELSE <<>>]

StreamExtra(config, stream) == IF stream THEN StreamQuery(config.dialect) ELSE <<>>

\* url and stream_url; send_url and send_stream_url.
PrintedUrl(config, stream) == BuildUrl(config, StreamExtra(config, stream), FALSE)
SendUrl(config, stream)    == BuildUrl(config, StreamExtra(config, stream), TRUE)

\* The parameters that are not called that.
Others(query, name) == Pick(query, {k \in DOMAIN query : query[k].name # name})

\* A slip: a parameter of the same name is left in front of the credential.
ApplyQueryAuthBeside(url, config, key) ==
  IF config.auth.kind # "query" \/ key = {} \/ ~url.parses THEN url
  ELSE [url EXCEPT !.query = Append(@, Pair(config.auth.name, "key"))]

\* apply_query_auth
ApplyQueryAuth(url, config, key) ==
  IF config.auth.kind # "query" \/ key = {} \/ ~url.parses THEN url
  ELSE [url EXCEPT !.query =
          Append(Others(url.query, config.auth.name), Pair(config.auth.name, "key"))]

-----------------------------------------------------------------------------
(* The headers *)

\* auth_header_name, when there is a key to put in it.
Reserved(config, key) ==
  IF key # {} /\ config.auth.kind \in {"bearer", "header"} THEN {Lower[config.auth.name]} ELSE {}

\* What the dialect requires and what the caller sets, in this order.
AllHeaders(config) == RequiredHeaders(config.dialect) \o config.headers

\* A slip: names are compared as they are written.
LastAsWritten(all, reserved) ==
  {k \in DOMAIN all :
     Lower[all[k].name] \notin reserved /\ \A l \in DOMAIN all : all[l].name = all[k].name => l <= k}

\* Where a name that is not reserved comes last, in any case.
LastOfName(all, reserved) ==
  {k \in DOMAIN all :
     /\ Lower[all[k].name] \notin reserved
     /\ \A l \in DOMAIN all : Lower[all[l].name] = Lower[all[k].name] => l <= k}

\* resolved_headers: of every name, in any case, the last value; and none that
\* the credential takes.
ResolvedHeaders(config, key) ==
  Pick(AllHeaders(config), LastOfName(AllHeaders(config), Reserved(config, key)))

Header(name, value, sensitive) == [name |-> name, value |-> value, sensitive |-> sensitive]

\* apply_headers: a value that must not be printed is marked sensitive.
ApplyHeaders(config, key) ==
  LET resolved == ResolvedHeaders(config, key)
  IN [k \in DOMAIN resolved |->
        Header(resolved[k].name, resolved[k].value, IsSecretHeader(config, resolved[k].name))]
     \o (IF Reserved(config, key) = {} THEN <<>>
         ELSE <<Header(config.auth.name, "key", TRUE)>>)

-----------------------------------------------------------------------------
(* What is printed *)

ValuesOf(pairs) == {pairs[k].value : k \in DOMAIN pairs}

\* Debug of the configuration; that of a client adds no more than whether it has
\* a key.
DebugConfig(config) ==
  {Withheld(pair.value, IsSecretQuery(config, pair.name)) : pair \in Range(config.query)}
    \cup {Withheld(pair.value, IsSecretHeader(config, pair.name)) : pair \in Range(config.headers)}

\* redact_url_in, for an error of send.
RedactUrlIn(url, config) ==
  LET secret(name) == IsSecretName(name) \/ IsSecretQuery(config, name)
  IN [k \in DOMAIN url.query |->
        Pair(url.query[k].name, Withheld(url.query[k].value, secret(url.query[k].name)))]

=============================================================================
