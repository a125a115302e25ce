-------------------------------- MODULE Picks --------------------------------
(***************************************************************************)
(* What is kept of a sequence, in its order: of a transcript, of the parts *)
(* of a message, of the pieces of a request, of headers and of parameters. *)
(* Each loop of the code that keeps some entries of a list is a Pick.      *)
(***************************************************************************)
EXTENDS Naturals, FiniteSets

\* The k-th of the positions in S: those up to it are k.
Nth(S, k) == CHOOSE i \in S : Cardinality({j \in S : j <= i}) = k

\* What s has at the positions in S, in order.
Pick(s, S) == [k \in 1 .. Cardinality(S) |-> s[Nth(S, k)]]

=============================================================================
