------------------------------ MODULE MCScan ------------------------------
(* What model checking Scan needs: a board of any kind that only one profile *)
(* reads and on which a role is posted twice, and a small one of another     *)
(* profile that shows a role the first one turns down.                       *)
EXTENDS Scan

CONSTANTS a, b, c, d, e, t, u, p1, p2, lead, chief

MCRole == [j \in Postings |-> IF j \in {b, d} THEN chief ELSE lead]
MCOnBoard == [j \in Postings |-> IF j = d THEN u ELSE t]
MCOwners == [x \in Targets |-> IF x = t THEN {p1} ELSE {p2}]
MCRejects == [p \in Profiles |-> IF p = p1 THEN {chief} ELSE {}]
MCSources == [x \in Targets |-> IF x = t THEN Adapters \cup {"retired"} ELSE {"ashby"}]
=============================================================================
