-------------------------------- MODULE Errors --------------------------------
(***************************************************************************)
(* error.rs: what a call can fail with, and what an error tells a caller   *)
(* that must decide whether to try again.                                  *)
(*                                                                         *)
(* An error is its variant, the kind of a transport failure, the status it *)
(* carries, the delay a rate limit asked for and the body of the answer.   *)
(* Wording is left out, a printed body is not: it is cut to a length, and  *)
(* what is cut must be readable.  A text is the sequence of the widths of  *)
(* its characters, in bytes.  An Option is a set of at most one element.   *)
(***************************************************************************)
EXTENDS Integers, SequencesExt

CONSTANTS
  BodyInMessage, \* BODY_IN_MESSAGE
  MaxRetryAfter  \* MAX_RETRY_AFTER, in seconds

ASSUME ErrorsAssumption == BodyInMessage \in Nat /\ MaxRetryAfter \in Nat

\* What reqwest says of a failure; more than one may hold of it.
FailureFlags == {"timeout", "connect", "body"}

\* TransportError::classify: a connect that timed out is a timeout.
Classify(flags) ==
  CASE "timeout" \in flags -> "Timeout"
    [] "timeout" \notin flags /\ "connect" \in flags -> "Connect"
    [] flags = {"body"} -> "Body"
    [] OTHER -> "Other"

NoBody == [chars |-> <<>>, quota |-> FALSE]

Err(variant, kind, status, delay, body) ==
  [variant |-> variant, kind |-> kind, status |-> status, delay |-> delay, body |-> body]

Refusal(variant) == Err(variant, "none", 0, {}, NoBody)
Http(flags)      == Err("Http", Classify(flags), 0, {}, NoBody)

\* A slip: the arm of the quota comes after that of the rate limit.
FromStatusUnread(status, delay, body) ==
  LET named(variant) == Err(variant, "none", status, {}, body)
  IN CASE status = 400 -> named("BadRequest")
       [] status \in {401, 403} -> named("Unauthorized")
       [] status = 404 -> named("NotFound")
       [] status = 429 -> Err("RateLimit", "none", status, delay, body)
       [] status \in 500 .. 599 -> named("ServerError")
       [] OTHER -> named("Api")

\* Error::from_status
FromStatus(status, delay, body) ==
  LET named(variant) == Err(variant, "none", status, {}, body)
  IN CASE status = 400 -> named("BadRequest")
       [] status \in {401, 403} -> named("Unauthorized")
       [] status = 404 -> named("NotFound")
       [] status = 429 /\ body.quota -> named("QuotaExceeded")
       [] status = 429 /\ ~body.quota -> Err("RateLimit", "none", status, delay, body)
       [] status \in 500 .. 599 -> named("ServerError")
       [] OTHER -> named("Api")

\* Error::is_retryable
IsRetryable(error) ==
  \/ error.variant = "Http" /\ error.kind \in {"Timeout", "Body"}
  \/ error.variant \in {"RateLimit", "ServerError"}
  \/ error.variant = "Api" /\ error.status >= 500

\* Error::retry_after
RetryAfter(error) == IF error.variant = "RateLimit" THEN error.delay ELSE {}

-----------------------------------------------------------------------------
(* Printing *)

\* Where the first k characters of a text end, in bytes, and its length.
EndOf(chars, k) ==
  LET end[i \in 0 .. Len(chars)] == IF i = 0 THEN 0 ELSE end[i - 1] + chars[i]
  IN end[k]
ByteLen(chars) == EndOf(chars, Len(chars))

\* str::is_char_boundary
Boundary(chars, n) == \E k \in 0 .. Len(chars) : n = EndOf(chars, k)

\* A slip: the cut is made where the limit falls.
CappedAnywhere(chars) ==
  IF ByteLen(chars) <= BodyInMessage THEN ByteLen(chars) ELSE BodyInMessage

\* capped: how many bytes of a text are printed.
Capped(chars) ==
  IF ByteLen(chars) <= BodyInMessage
  THEN ByteLen(chars)
  ELSE CHOOSE n \in 0 .. BodyInMessage :
         /\ Boundary(chars, n)
         /\ \A m \in n + 1 .. BodyInMessage : ~Boundary(chars, m)

\* The text of an answer that Display and Debug carry.
Printed(error) == Capped(error.body.chars)

=============================================================================
