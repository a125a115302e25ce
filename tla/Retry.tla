-------------------------------- MODULE Retry --------------------------------
(***************************************************************************)
(* examples/retry.rs, generate_with_retry: the loop a caller puts around   *)
(* generate, as Freyja itself never retries.  The decisions in it are the  *)
(* ones Freyja makes for it: whether an error is worth another attempt and *)
(* how long the endpoint asked for.  The other calls are made once.        *)
(***************************************************************************)
EXTENDS Exchange

CONSTANTS
  MaxAttempts, \* MAX_ATTEMPTS
  MaxBackoff   \* MAX_BACKOFF, in seconds

ASSUME RetryAssumption == MaxAttempts \in Nat \ {0} /\ MaxBackoff \in Nat

VARIABLES
  attempt, \* attempts that have failed and were retried
  wait,    \* how long the caller sleeps, and 0 when it does not
  caller   \* "calling", "sleeping" or "finished"

retryVars == <<attempt, wait, caller>>
vars == <<exchangeVars, retryVars>>

\* backoff
Backoff(n) == 2 ^ n

\* A slip: the caller's own limit is left out.
WaitUnbounded(error) ==
  IF RetryAfter(error) = {} THEN Backoff(attempt) ELSE CHOOSE d \in RetryAfter(error) : TRUE

\* The endpoint's pacing, or else the caller's, and never more than the limit.
Wait(error) ==
  LET pace == IF RetryAfter(error) = {} THEN Backoff(attempt)
              ELSE CHOOSE d \in RetryAfter(error) : TRUE
  IN IF pace < MaxBackoff THEN pace ELSE MaxBackoff

Ended(result) == result.variant \in {"Response", "Stream"}

\* The loop returns: an answer, an error that will not change, or the last of
\* the attempts.
Finish ==
  /\ caller = "calling" /\ phase = "returned"
  /\ \/ call # "generate"
     \/ Ended(outcome)
     \/ ~IsRetryable(outcome)
     \/ attempt + 1 >= MaxAttempts
  /\ caller' = "finished"
  /\ UNCHANGED <<exchangeVars, attempt, wait>>

Sleep ==
  /\ caller = "calling" /\ phase = "returned"
  /\ call = "generate" /\ ~Ended(outcome)
  /\ IsRetryable(outcome)
  /\ attempt + 1 < MaxAttempts
  /\ wait' = Wait(outcome)
  /\ caller' = "sleeping"
  /\ UNCHANGED <<exchangeVars, attempt>>

\* A slip: the attempt is not counted.
WakeUncounted ==
  /\ caller = "sleeping"
  /\ wait' = 0
  /\ caller' = "calling"
  /\ phase' = "ready"
  /\ UNCHANGED <<call, fits, visited, answerVars, read, outcome, attempt>>

Wake ==
  /\ caller = "sleeping"
  /\ attempt' = attempt + 1 /\ wait' = 0
  /\ caller' = "calling"
  /\ phase' = "ready"
  /\ UNCHANGED <<call, fits, visited, answerVars, read, outcome>>

RetryInit ==
  /\ ExchangeInit
  /\ attempt = 0 /\ wait = 0 /\ caller = "calling"

RetryNext ==
  \/ Send /\ UNCHANGED retryVars
  \/ Answered /\ UNCHANGED retryVars
  \/ Finish
  \/ Sleep
  \/ Wake

\* The executor polls the call whenever it can move, timers fire, and a wait
\* for the endpoint ends with something from it or with the read timeout of
\* default_http; which of them is never promised.
RetryFairness == WF_vars(RetryNext)

RetrySpec == RetryInit /\ [][RetryNext]_vars /\ RetryFairness

-----------------------------------------------------------------------------
(* Properties *)

\* Whether the endpoint's answer to the last attempt arrived whole.
AnsweredInFull == status # 0 /\ read = ByteLen(body.chars) /\ outcome.variant # "Http"

(* A request is sent again only when repeating it could help: nothing the
   endpoint said in full rules it out, be it a bad key, an unknown model, an
   exhausted quota that looks like a rate limit, or an answer already given.
   Where nothing arrived in full, it is only after a wait that ran out, for a
   connection, an answer or the rest of one, or a body that broke off: a
   connection that was refused, a redirect that was not followed, what was
   refused here and what grew past the ceiling are not tried again
   (examples/retry.rs; error.rs, is_retryable). *)
RetriesAreWarranted ==
  caller = "sleeping" =>
    /\ visited # <<>>
    /\ IF AnsweredInFull
       THEN status >= 500 \/ (status = 429 /\ ~body.quota)
       ELSE outcome.variant = "Http" /\ outcome.kind \in {"Timeout", "Body"}

(* The caller never sleeps longer than its own limit, whatever number the
   endpoint puts in Retry-After, and never retries a rate limit sooner than the
   endpoint asked unless that limit cuts the wait short.  The clamp of
   parse_retry_after shortens no wait below it. *)
WaitFollowsTheEndpoint ==
  caller = "sleeping" =>
    /\ wait <= MaxBackoff
    /\ (AnsweredInFull /\ status = 429 /\ asked = "seconds") =>
         \/ wait = seconds
         \/ seconds > wait /\ wait \in {MaxBackoff, MaxRetryAfter}

(* Every call returns: no chain of redirects, no endless body, no silence and no
   run of failures keeps it going. *)
CallReturns == <>(caller = "finished")

=============================================================================
