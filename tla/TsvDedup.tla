------------------------------ MODULE TsvDedup ------------------------------
(***************************************************************************)
(* tsv_dedup.js: collapsing the rows of applications.tsv that describe one *)
(* posting.  A row carries its key <<job, form, day>> and the columns the  *)
(* plan decides on; art stands for the mergeable ones.  The job is company *)
(* and title.  A scanned row's key has the form "plain" or "legacy" (the   *)
(* ATS prefix twice) and no day; a row entered by hand is "manual", of the *)
(* day it was entered.                                                     *)
(***************************************************************************)
EXTENDS Integers, Subsequences

RowStatuses == {"Inbox", "To Apply", "Applied", "Interview", "No Response",
                "Archived", "Dead"}

\* canonicalKey: every ATS prefix is peeled, so the form of a scanned key does
\* not count; a manual key has its source and its day of its own.
JobOf(row) == IF row.key[2] = "manual" THEN row.key ELSE <<row.key[1], "plain", 0>>

Rank == [s \in RowStatuses |->
           IF s = "Interview" THEN 7 ELSE IF s = "Applied" THEN 6
           ELSE IF s = "To Apply" THEN 5 ELSE IF s = "Inbox" THEN 4
           ELSE IF s = "No Response" THEN 3 ELSE IF s = "Archived" THEN 0 ELSE -1]

\* compareForWinner: page, then status, then age, then the shorter key.
Beats(a, b) ==
    IF a.paged # b.paged THEN a.paged
    ELSE IF Rank[a.status] # Rank[b.status] THEN Rank[a.status] > Rank[b.status]
    ELSE IF a.updated # b.updated THEN a.updated > b.updated
    ELSE a.key[2] # "legacy" /\ b.key[2] = "legacy"

SameJob(rows, i) == {j \in DOMAIN rows : JobOf(rows[j]) = JobOf(rows[i])}

\* rowsAreSuspicious: the rows disagree on company or URL; a row without a
\* URL agrees with any.
Suspicious(rows, group) ==
    \E i, j \in group :
        \/ rows[i].company # rows[j].company
        \/ rows[i].url # rows[j].url /\ rows[i].url # "none" /\ rows[j].url # "none"

\* A suspicious group is never collapsed: each of its rows stands alone.
Group(rows, i) ==
    IF Suspicious(rows, SameJob(rows, i)) THEN {i} ELSE SameJob(rows, i)

\* pickWinner: the sort is stable, so the first of the unbeaten rows.
Winner(rows, group) ==
    CHOOSE i \in group : /\ \A j \in group : ~Beats(rows[j], rows[i])
                         /\ \A j \in group : j < i => Beats(rows[i], rows[j])

\* mergeLosersInto: an empty column of the winner takes the first loser's value.
MergedRow(rows, group) ==
    LET w == rows[Winner(rows, group)]
        lifted == {j \in group : rows[j].art # "none"}
    IN IF w.art = "none" /\ lifted # {}
       THEN [w EXCEPT !.art = rows[CHOOSE j \in lifted : \A i \in lifted : j <= i].art]
       ELSE w

Losers(rows) == {j \in DOMAIN rows : j # Winner(rows, Group(rows, j))}

DroppedKeysCanonical(rows) == {rows[i].key : i \in Losers(rows)}
    \cup {JobOf(rows[i]) : i \in Losers(rows)}

\* The losers are recognised by their key alone in the final walk: a winner
\* with the key of a loser goes too.
DroppedKeys(rows) == {rows[i].key : i \in Losers(rows)}

\* planDedup: the final walk keeps, of every group, the winner once.
DedupedRows(rows, dropped) ==
    LET kept == {i \in DOMAIN rows :
                   /\ rows[i].key \notin dropped
                   /\ \A j \in Group(rows, i) : j < i => rows[j].key \in dropped}
    IN [n \in 1 .. Cardinality(kept) |-> MergedRow(rows, Group(rows, Nth(kept, n)))]
=============================================================================
