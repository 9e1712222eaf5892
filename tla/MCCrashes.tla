----------------------------- MODULE MCCrashes -----------------------------
(***************************************************************************)
(* The apply command with a memory of the submits that died on a job. No   *)
(* human opens a job here: what a crash left is left to pre and submit.    *)
(***************************************************************************)
EXTENDS MCApplyBot

VARIABLE interrupted   \* jobs whose submit died, or could not write, after the mark

\* The worker is gone and the mark is still on the row.
LeftMarked == {k \in InFlight : pc'[k] \in {"out", "done"} /\ IsInterruptedSubmit(rows'[k])}

WatchInit == Init /\ interrupted = {}

WatchNext == Next /\ interrupted' = interrupted \cup LeftMarked

WatchSpec == WatchInit /\ [][WatchNext]_<<vars, interrupted>>

\* "a crash mid-submit is never auto-retried" (apply.js): the bot is never
\* about to click for a job whose earlier submit died after the mark.
CrashNeverRetried == \A k \in interrupted : pc[k] # "marked"
=============================================================================
