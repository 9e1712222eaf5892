------------------------------- MODULE Ledger -------------------------------
(***************************************************************************)
(* One row of a profile's applications.tsv and every way the program       *)
(* rewrites it.  The file is the program's only durable record of what was *)
(* applied to; all commands meet in it.  A row is reduced to the five      *)
(* columns the commands decide on: the text of a note is kept only as far  *)
(* as the guards tell notes apart.                                         *)
(***************************************************************************)

\* Main statuses a job moves through after it was prepared; the post-apply
\* ones (Interview, Offer, Rejected, No Response) act alike here: "Later".
Statuses == {"To Apply", "Applied", "Later", "Closed", "Archived"}

AppliedBy == {"", "bot", "manual"}

ApplyStates == {"", "queued", "manual", "failed", "submitted"}

\* "submitting" is SUBMITTING_PREFIX plus a timestamp; "shot" a screenshot path.
Notes == {"", "submitting", "reason", "shot"}

Row == [status: Statuses, applied_date: {"", "dated"}, applied_by: AppliedBy,
        apply_state: ApplyStates, apply_note: Notes]

\* A row as prepare commits it: To Apply, the bot has not touched it.
FreshRow == [status |-> "To Apply", applied_date |-> "", applied_by |-> "",
             apply_state |-> "", apply_note |-> ""]

-----------------------------------------------------------------------------
(* Guards *)

Recorded(r) == r.applied_date # "" \/ r.apply_state = "submitted"

MaySubmitWithoutDateCheck(r) == r.apply_note # "submitting" /\ r.status = "To Apply"

\* alreadyApplied(row) returns null: the submit phase may press Submit.
MaySubmit(r) ==
    /\ ~Recorded(r)
    /\ r.apply_note # "submitting"
    /\ r.status = "To Apply"

\* runOpen lets a human open an interrupted row as well.
MayOpen(r) ==
    /\ ~Recorded(r)
    /\ r.apply_note = "submitting" \/ r.status = "To Apply"

\* The process died between the Submit click and the result write.
IsInterruptedSubmit(r) == r.apply_state = "queued" /\ r.apply_note = "submitting"

\* Gates 1-3 of buildQueue: the row may be picked up automatically.
PassesGates(r) ==
    /\ r.status = "To Apply"
    /\ r.applied_date = ""
    /\ r.apply_state \notin {"submitted", "failed", "manual"}
    /\ ~IsInterruptedSubmit(r)

\* Rows the company cap counts: settled, and in CAP_ACTIVE_STATUSES.
CountsForCap(r) == r.status \in {"Applied", "Later", "Closed"}

-----------------------------------------------------------------------------
(* Rewrites *)

ManualRow(r) == [r EXCEPT !.apply_state = "manual", !.apply_note = "reason"]

FailedRowUnknownState(r) == [r EXCEPT !.apply_state = "unconfirmed"]

FailedRow(r) == [r EXCEPT !.apply_state = "failed", !.apply_note = "reason"]

QueuedRow(r) == [r EXCEPT !.apply_state = "queued", !.apply_note = ""]

ClosedRow(r) ==
    [r EXCEPT !.status = "Closed", !.apply_state = "", !.apply_note = "reason"]

ArchivedRow(r) ==
    [r EXCEPT !.status = "Archived", !.apply_state = "", !.apply_note = ""]

\* The durable trace that is on disk before the click.
MarkedRow(r) == [r EXCEPT !.apply_state = "queued", !.apply_note = "submitting"]

AppliedRow(r, by) ==
    [r EXCEPT !.status = "Applied", !.applied_date = "dated", !.applied_by = by,
              !.apply_state = "submitted", !.apply_note = "shot"]

PulledRowClearing(r, s) ==
    [r EXCEPT !.status = s, !.applied_date = IF s = "Applied" THEN "dated" ELSE ""]

\* reconcilePull for one row: Notion's status wins; entering Applied stamps
\* the date anchor, an existing anchor is kept.
PulledRow(r, s) ==
    [r EXCEPT !.status = s,
              !.applied_date = IF s = "Applied" THEN "dated" ELSE @]
=============================================================================
