------------------------------- MODULE Address -------------------------------
(***************************************************************************)
(* Where a request goes and what it carries beside its body, from the      *)
(* first call of a builder to the post: the calls that configure the       *)
(* endpoint, in any order, each with a value of its own; then the client,  *)
(* with a key or without, and the address and headers it posts to.  The    *)
(* calls about the body are in Request; nothing here reads what they set.  *)
(***************************************************************************)
EXTENDS Endpoint

CONSTANTS
  Auths,       \* what EndpointConfig::auth is called with
  HeaderNames, \* what the headers are named
  QueryNames,  \* and the parameters of the query
  MaxCalls     \* bound: the calls of builders, by what they are about

VARIABLES
  concern, \* bound: the calls are about the address, the question or the merging
  config,  \* the EndpointConfig
  made,    \* history: the calls of builders
  sent     \* where it is posted and with which headers, once it is

addressVars == <<concern, config, made, sent>>

Unsent == [done |-> FALSE]

\* The value that call k of a builder brings.
Value(k) == ToString(k)
Fresh == Value(Len(made) + 1)

Call(op, name, value) == [op |-> op, name |-> name, value |-> value]

ASSUME AuthsAreKnown ==
  \A auth \in Auths : auth \in {Bearer, HeaderAuth(auth.name), QueryAuth(auth.name), NoAuth}

\* Whatever a call brings is told from what others bring and from what is there
\* without one; the base URL holds no key.
ASSUME ValuesTellCallsApart ==
  /\ BaseParts.parses \in BOOLEAN
  /\ BaseParts.query \in Seq([name : {pair.name : pair \in Range(BaseParts.query)},
                             value : ValuesOf(BaseParts.query) \ {"key"}])
  /\ \A about \in DOMAIN MaxCalls :
       /\ MaxCalls[about] \in Nat
       /\ \A k \in 1 .. MaxCalls[about] :
            /\ Value(k) \notin {"key", "REDACTED", "required", "sse"} \cup ValuesOf(BaseParts.query)
            /\ \A l \in 1 .. MaxCalls[about] : Value(k) = Value(l) => k = l

Record(call) ==
  /\ ~sent.done /\ Len(made) < MaxCalls[concern]
  /\ made' = Append(made, call)
  /\ UNCHANGED <<concern, sent>>

Configure(call, changed) == Record(call) /\ config' = changed

-----------------------------------------------------------------------------
(* EndpointConfig *)

SetAuth(auth) == Configure(Call("auth", auth.name, auth.kind), [config EXCEPT !.auth = auth])
SetHeader(name) ==
  Configure(Call("header", name, Fresh), WithHeader(config, name, Fresh))
SetSecretHeader(name) ==
  Configure(Call("secret_header", name, Fresh), WithSecretHeader(config, name, Fresh))
SetQuery(name) ==
  Configure(Call("query", name, Fresh), WithQuery(config, name, Fresh))
SetSecretQuery(name) ==
  Configure(Call("secret_query", name, Fresh), WithSecretQuery(config, name, Fresh))
SetPath == Configure(Call("path", "none", Fresh), [config EXCEPT !.path = {Fresh}])

-----------------------------------------------------------------------------
(* Client *)

Post(stream, key) ==
  /\ ~sent.done
  /\ sent' = [done |-> TRUE, key |-> key, stream |-> stream,
              url  |-> ApplyQueryAuth(SendUrl(config, stream), config, key),
              headers |-> ApplyHeaders(config, key)]
  /\ UNCHANGED <<concern, config, made>>

\* Client::new, without_key and from_env.
PostAsNew(stream)    == Post(stream, {"key"})
PostWithoutKey(stream) == Post(stream, {})
PostFromEnv(stream, env) ==
  \E client \in FromEnv(config, env) : Post(stream, client.key)

CallsOfTheAddress ==
  \/ \E auth \in Auths : SetAuth(auth)
  \/ \E name \in HeaderNames : SetHeader(name) \/ SetSecretHeader(name)
  \/ \E name \in QueryNames : SetQuery(name) \/ SetSecretQuery(name)
  \/ SetPath

Posts ==
  \E stream \in BOOLEAN :
    \/ PostAsNew(stream)
    \/ concern = "address" /\ PostWithoutKey(stream)
    \/ \E env \in {"unset", "empty", "key"} : concern = "address" /\ PostFromEnv(stream, env)

\* A call about the body: of the configuration it changes these fields alone.
CallsAboutTheBody ==
  \E call, body, tokenField, defaultModel :
    /\ call.op \notin {"header", "secret_header", "query", "secret_query"}
    /\ Configure(call, [config EXCEPT !.body = body, !.tokenField = tokenField,
                                     !.defaultModel = defaultModel])

AddressNext == CallsOfTheAddress \/ CallsAboutTheBody \/ Posts

AddressInit ==
  /\ concern \in DOMAIN MaxCalls
  /\ \E dialect \in Dialects :
       \/ config = NewConfig(dialect)
       \/ dialect # "chat" /\ config = Preset(dialect)
  /\ made = <<>>
  /\ sent = Unsent

AddressSpec == AddressInit /\ [][AddressNext]_addressVars

-----------------------------------------------------------------------------
(* Properties *)

(* However the dialect, the caller and the credential name their headers, and in
   whatever case, each goes out once (resolved_headers): the credential where it
   has a name to itself, else the value of the last call, else the one the
   dialect requires. *)
HeadersGoOutOnce ==
  sent.done =>
    LET out == sent.headers
        holder(name) == {k \in DOMAIN out : Lower[out[k].name] = Lower[name]}
        calls(name) == {k \in DOMAIN made : /\ made[k].op \in {"header", "secret_header"}
                                            /\ Lower[made[k].name] = Lower[name]}
        required == RequiredHeaders(config.dialect)
        carries(name, value) == \E k \in DOMAIN out : holder(name) = {k} /\ out[k].value = value
        taken(name) == sent.key # {} /\ config.auth.kind \in {"bearer", "header"}
                         /\ Lower[name] = Lower[config.auth.name]
    IN /\ \A name \in HeaderNames \cup {required[k].name : k \in DOMAIN required} :
            CASE taken(name) -> carries(name, "key")
              [] ~taken(name) /\ calls(name) # {} ->
                   carries(name, made[CHOOSE k \in calls(name) : \A l \in calls(name) : l <= k].value)
              [] OTHER -> \A k \in holder(name) : holder(name) = {k} /\ out[k].value = "required"
       /\ \A k \in DOMAIN required : holder(required[k].name) # {}
       /\ taken(config.auth.name) => carries(config.auth.name, "key")

(* A value the caller classified, and the key itself, is in nothing that Freyja
   prints: not in Debug, not in the URL of the configuration, not in that of a
   transport error; and a header that holds one is marked sensitive.  What is
   neither classified nor named like a credential is printed as it is. *)
SecretsAreNeverPrinted ==
  sent.done =>
    LET secret  == {"key"} \cup {made[k].value : k \in {l \in DOMAIN made :
                                   made[l].op \in {"secret_header", "secret_query"}}}
        inUrls  == ValuesOf(PrintedUrl(config, sent.stream).query)
                     \cup ValuesOf(RedactUrlIn(sent.url, config))
        printed == inUrls \cup DebugConfig(config)
    IN /\ secret \cap printed = {}
       /\ \A k \in DOMAIN sent.headers :
            sent.headers[k].value \in secret => sent.headers[k].sensitive
       /\ \A k \in DOMAIN made :
            sent.url.parses /\ made[k].op = "query" /\ Lower[made[k].name] \notin Telling =>
              \/ made[k].value \in ValuesOf(PrintedUrl(config, sent.stream).query)
              \/ config.auth = QueryAuth(made[k].name)
              \/ \E l \in DOMAIN made : made[l].op = "secret_query" /\ made[l].name = made[k].name

(* The URL that is printed is the one the request goes to but for the credential
   and the values withheld: the same path, and the same parameters in the same
   order (url, send_url, apply_query_auth). *)
PrintedUrlIsTheSentOne ==
  sent.done =>
    LET printed == PrintedUrl(config, sent.stream)
        mine    == sent.key # {} /\ config.auth.kind = "query" /\ printed.parses
        apart(query) == IF mine THEN Others(query, config.auth.name) ELSE query
        a == apart(printed.query)
        b == apart(sent.url.query)
    IN /\ printed.path = sent.url.path
       /\ Len(a) = Len(b)
       /\ \A k \in DOMAIN a : a[k].name = b[k].name /\ a[k].value \in {b[k].value, "REDACTED"}
       /\ mine => Cardinality({k \in DOMAIN sent.url.query :
                                 sent.url.query[k].name = config.auth.name}) = 1

=============================================================================
