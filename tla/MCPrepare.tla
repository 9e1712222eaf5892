----------------------------- MODULE MCPrepare -----------------------------
(* What model checking Prepare needs: two jobs of one company and one of another. *)
EXTENDS Prepare, TLC

CONSTANTS r1, r2, r3, c1, c2

MCCompanyOf == [r \in Rows |-> IF r = r3 THEN c2 ELSE c1]

MCCap == [c \in Companies |-> 1]

\* The jobs of c1 are alike.
MCSymmetry == Permutations({r1, r2})
=============================================================================
