---------------------------- MODULE MCNightRun ------------------------------
(* What model checking NightRun needs. *)
EXTENDS NightRun

\* Behaviours are followed up to a disturbance: the properties say nothing of
\* what comes after it, and two sessions in their loops are many states.
Undisturbed == ~disturbed
=============================================================================
