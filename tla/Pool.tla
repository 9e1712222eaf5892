-------------------------------- MODULE Pool --------------------------------
(***************************************************************************)
(* What a bounded worker pool promises (the comment at the top of          *)
(* pool.js): at most Limit items in flight, at most one per key, and every *)
(* item of a run is handed to a worker once.  A run may also be cut off.   *)
(***************************************************************************)
EXTENDS Naturals, FiniteSets

CONSTANTS Items, Key, NoKey, Limit

VARIABLE stage      \* "idle": not part of the current run

Working == {i \in Items : stage[i] = "working"}

Init == stage = [i \in Items |-> "idle"]

Begin(batch) ==
    /\ \A i \in Items : stage[i] = "idle"
    /\ stage' = [i \in Items |-> IF i \in batch THEN "waiting" ELSE "idle"]

Take(i) ==
    /\ stage[i] = "waiting"
    /\ Cardinality(Working) < Limit
    /\ \A j \in Working : Key[i] = NoKey \/ Key[j] # Key[i]
    /\ stage' = [stage EXCEPT ![i] = "working"]

Finish(i) ==
    /\ stage[i] = "working"
    /\ stage' = [stage EXCEPT ![i] = "finished"]

\* The run is over, or its process died.
Halt == stage' = [i \in Items |-> "idle"]

Next ==
    \/ \E batch \in SUBSET Items : Begin(batch)
    \/ \E i \in Items : Take(i) \/ Finish(i)
    \/ Halt

Spec == Init /\ [][Next]_stage
=============================================================================
