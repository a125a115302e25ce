------------------------------- MODULE MCRetry -------------------------------
(* Constants for checking Retry. *)
EXTENDS Retry

Url(scheme, host, port, path) == [scheme |-> scheme, host |-> host, port |-> port, path |-> path]

MCHome == Url("https", "h", 0, "a")

\* The same origin by another path and by its port in full; and one that differs
\* in its port, its host, its scheme, and in the scheme alone on the same port.
MCUrls ==
  {Url("https", "h", 0, "b"), Url("https", "h", 443, "a"), Url("https", "h", 8443, "a"),
   Url("https", "i", 0, "a"), Url("http", "h", 0, "a"), Url("http", "h", 443, "a")}

MCStatuses == {200, 302, 401, 429, 500, 600}

\* A delay below both limits, one between them, and one above both.
MCAsked == {2, 4, 9}

Sent(chars, quota, parses, matches) ==
  [chars |-> chars, quota |-> quota, parses |-> parses, fits |-> matches]

\* An answer, one of the wrong shape, a body that names a quota, one whose limit
\* in print falls inside a character, and one past the ceiling.
MCBodies ==
  {Sent(<<1>>, FALSE, TRUE, TRUE), Sent(<<1>>, FALSE, TRUE, FALSE),
   Sent(<<1, 1>>, TRUE, FALSE, FALSE), Sent(<<2, 2>>, FALSE, FALSE, FALSE),
   Sent(<<2, 2, 2>>, FALSE, TRUE, TRUE)}

=============================================================================
