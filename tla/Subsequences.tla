---------------------------- MODULE Subsequences ----------------------------
(***************************************************************************)
(* What an array filter, or a walk that skips entries, keeps of a sequence. *)
(***************************************************************************)
EXTENDS Naturals, Sequences, FiniteSets

\* The n-th of a set of places, in their order.
Nth(places, n) == CHOOSE i \in places : Cardinality({j \in places : j <= i}) = n

\* The entries of a sequence that are wanted, in their order.
Only(s, wanted) ==
    LET places == {i \in DOMAIN s : s[i] \in wanted}
    IN [n \in 1 .. Cardinality(places) |-> s[Nth(places, n)]]
=============================================================================
