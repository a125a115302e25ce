------------------------------- MODULE Exchange -------------------------------
(***************************************************************************)
(* client.rs and transport/mod.rs: one call of a client.  The request is   *)
(* built, or refused before anything is sent; it is posted, and may be     *)
(* redirected; then the head of an answer arrives, and its body in chunks. *)
(*                                                                         *)
(* The endpoint and the network (external) answer with any status and any  *)
(* body, redirect to any URL, and fail or fall silent between any two of   *)
(* the client's awaits, in which case the read timeout of default_http     *)
(* ends the wait.  A body that never ends is one longer than the ceiling.  *)
(* A client the caller supplies has its own policies and is left out.      *)
(*                                                                         *)
(* Every call has the credential with it, in a header or in the query, and *)
(* a redirect that is followed takes the headers along.                    *)
(***************************************************************************)
EXTENDS Errors

CONSTANTS
  Home,         \* the URL of the endpoint's configuration
  Urls,         \* what a redirect may name
  MaxRedirects, \* MAX_REDIRECTS
  MaxBody,      \* MAX_BODY_BYTES
  Statuses,     \* statuses an endpoint answers with
  Asked,        \* bound: the delays it asks for
  Bodies        \* what it answers with

ASSUME ExchangeAssumption ==
  /\ MaxRedirects \in Nat \ {0} /\ MaxBody \in Nat
  /\ Asked \subseteq Nat /\ Statuses \subseteq 100 .. 999
  /\ \A b \in Bodies : b.chars \in Seq(Nat)

VARIABLES
  call,    \* the method called
  fits,    \* what building the request comes to: "fits", or what refuses it
  phase,   \* where the call is: see CallPhases
  visited, \* the URLs this call was sent to, oldest first
  status,  \* of the answer; 0 until its head has arrived
  asked,   \* its Retry-After header: "absent", "unreadable" or "seconds"
  seconds, \* and the number in it
  body,    \* what the endpoint sends as the body
  read,    \* how many bytes of it have been read
  outcome  \* what the call returns

exchangeVars == <<call, fits, phase, visited, status, asked, seconds, body, read, outcome>>
answerVars   == <<status, asked, seconds, body>>

Calls      == {"generate", "generate_as", "stream"}
CallPhases == {"ready", "sent", "reading", "returned"}

Ok(variant) == Refusal(variant)
Pending     == Refusal("pending")
Empty == [chars |-> <<>>, quota |-> FALSE, parses |-> FALSE, fits |-> FALSE]

\* Url::port_or_known_default
PortOf(url) ==
  CASE url.port # 0 -> url.port
    [] url.port = 0 /\ url.scheme = "https" -> 443
    [] OTHER -> 80

\* A slip: the host alone is compared.
SameHost(a, b) == a.host = b.host

SameOrigin(a, b) ==
  /\ a.scheme = b.scheme
  /\ a.host = b.host
  /\ PortOf(a) = PortOf(b)

\* parse_retry_after: a number of seconds, and never more than MaxRetryAfter.
ParseRetryAfter ==
  IF asked = "seconds"
  THEN {IF seconds < MaxRetryAfter THEN seconds ELSE MaxRetryAfter}
  ELSE {}

Success == status \in 200 .. 299

Return(result) == phase' = "returned" /\ outcome' = result

\* What the parser of the dialect makes of a whole body, and for generate_as
\* the deserializer of what it answered.
Parsed ==
  CASE ~body.parses -> Refusal("InvalidResponse")
    [] body.parses /\ call = "generate_as" /\ ~body.fits -> Refusal("OutputMismatch")
    [] OTHER -> Ok("Response")

-----------------------------------------------------------------------------
(* The steps of a call *)

\* build and to_value refuse, or the request is posted.
Send ==
  /\ phase = "ready"
  /\ IF fits = "fits"
     THEN phase' = "sent" /\ visited' = <<Home>> /\ UNCHANGED outcome
     ELSE Return(Refusal(fits)) /\ visited' = <<>>
  /\ status' = 0 /\ asked' = "absent" /\ seconds' = 0 /\ body' = Empty /\ read' = 0
  /\ UNCHANGED <<call, fits>>

\* send fails: reqwest could not build the request, reach the endpoint, or
\* hear from it in time.
SendFails(flags) ==
  /\ phase = "sent"
  /\ Return(Http(flags))
  /\ UNCHANGED <<call, fits, visited, answerVars, read>>

\* A head arrives, and a stream that was accepted is handed over.
HeadArrives(code, header, number, sent) ==
  /\ phase = "sent"
  /\ status' = code /\ asked' = header /\ seconds' = number /\ body' = sent
  /\ IF call = "stream" /\ code \in 200 .. 299
     THEN Return(Ok("Stream"))
     ELSE phase' = "reading" /\ UNCHANGED outcome
  /\ UNCHANGED <<call, fits, visited, read>>

\* same_origin_redirects: a hop to another origin is not made and the redirect
\* is the answer; one too many is an error.
Redirected(url, code, sent) ==
  /\ phase = "sent"
  /\ CASE ~SameOrigin(Last(visited), url) ->
            /\ phase' = "reading"
            /\ status' = code /\ body' = sent
            /\ UNCHANGED <<visited, outcome>>
       [] SameOrigin(Last(visited), url) /\ Len(visited) >= MaxRedirects ->
            Return(Http({})) /\ UNCHANGED <<visited, status, body>>
       [] OTHER ->
            visited' = Append(visited, url) /\ UNCHANGED <<phase, status, body, outcome>>
  /\ UNCHANGED <<call, fits, asked, seconds, read>>

\* A slip: the ceiling is looked at before the chunk is counted.
ChunkArrivesUnmeasured(n) ==
  /\ phase = "reading"
  /\ read + n <= ByteLen(body.chars)
  /\ IF read > MaxBody
     THEN Return(Refusal("InvalidResponse")) /\ UNCHANGED read
     ELSE read' = read + n /\ UNCHANGED <<phase, outcome>>
  /\ UNCHANGED <<call, fits, visited, answerVars>>

\* read_body takes a chunk, or gives up on a body that grows past the ceiling.
ChunkArrives(n) ==
  /\ phase = "reading"
  /\ read + n <= ByteLen(body.chars)
  /\ IF read + n > MaxBody
     THEN Return(Refusal("InvalidResponse")) /\ UNCHANGED read
     ELSE read' = read + n /\ UNCHANGED <<phase, outcome>>
  /\ UNCHANGED <<call, fits, visited, answerVars>>

\* read_body fails, and what the head said is dropped with it.
BodyBreaks(flags) ==
  /\ phase = "reading"
  /\ Return(Http(flags))
  /\ UNCHANGED <<call, fits, visited, answerVars, read>>

\* The body is whole: only now is the status looked at.
BodyEnds ==
  /\ phase = "reading"
  /\ read = ByteLen(body.chars)
  /\ Return(IF Success THEN Parsed ELSE FromStatus(status, ParseRetryAfter, body))
  /\ UNCHANGED <<call, fits, visited, answerVars, read>>

\* What the endpoint and the network may do with a request that is out.
Answered ==
  \/ \E flags \in SUBSET FailureFlags : SendFails(flags) \/ BodyBreaks(flags)
  \/ \E code \in Statuses, header \in {"absent", "unreadable"}, sent \in Bodies :
       HeadArrives(code, header, 0, sent)
  \/ \E code \in Statuses, number \in Asked, sent \in Bodies :
       HeadArrives(code, "seconds", number, sent)
  \/ \E url \in Urls, code \in Statuses \cap 300 .. 399, sent \in Bodies :
       Redirected(url, code, sent)
  \/ \E n \in 1 .. MaxBody + 1 : ChunkArrives(n)
  \/ BodyEnds

ExchangeInit ==
  /\ call \in Calls
  /\ fits \in {"fits", "UnsupportedCapability", "InvalidRequest"}
  /\ phase = "ready"
  /\ visited = <<>>
  /\ status = 0 /\ asked = "absent" /\ seconds = 0 /\ body = Empty /\ read = 0
  /\ outcome = Pending

-----------------------------------------------------------------------------
(* Properties *)

\* The port is that of its scheme.
DefaultPort(url) ==
  \/ url.port = 0
  \/ (url.scheme = "https" /\ url.port = 443)
  \/ (url.scheme # "https" /\ url.port = 80)
\* The origin that the endpoint was configured with.
AtHome(url) ==
  /\ url.scheme = Home.scheme /\ url.host = Home.host
  /\ url.port = Home.port \/ (DefaultPort(url) /\ DefaultPort(Home))

(* The credential goes to the origin the endpoint was configured with and to
   no other, however the endpoint redirects (same_origin_redirects): a hop is
   compared with the one before it, so this holds along the whole chain. *)
CredentialStaysHome == \A k \in DOMAIN visited : AtHome(visited[k])

(* What a caller is given as an answer is the whole body of a success, and no
   call holds more of a body than the ceiling (read_body): a body cut anywhere,
   too long, or sent with a status that refuses is an error. *)
AnswersAreWhole ==
  /\ read <= MaxBody
  /\ outcome.variant \in {"Response", "OutputMismatch"} =>
       Success /\ body.parses /\ read = ByteLen(body.chars)

(* A printed error carries the longest part of the body that fits the limit and
   splits no character (capped: slicing inside one panics). *)
PrintedBodiesAreReadable ==
  LET chars == outcome.body.chars
      fit   == {k \in 0 .. Len(chars) : EndOf(chars, k) <= BodyInMessage}
  IN /\ \E k \in fit : Printed(outcome) = EndOf(chars, k)
     /\ \A k \in fit : EndOf(chars, k) <= Printed(outcome)

=============================================================================
