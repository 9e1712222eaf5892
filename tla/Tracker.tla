------------------------------- MODULE Tracker -------------------------------
(***************************************************************************)
(* The upkeep of applications.tsv against the Notion jobs database: the    *)
(* lazy sweeps every command starts with, the Notion pull (sync), the      *)
(* archive of used artifacts, the retro blocklist sweep and the dedup of   *)
(* validate and prepare, and manual entry (add).                           *)
(*                                                                         *)
(* A command loads the file once, awaits Notion, and saves what it loaded: *)
(* buf[p] is that copy, and between the two anything may happen: another   *)
(* command's save, the operator's edits in Notion, the end of the process. *)
(***************************************************************************)
EXTENDS TsvDedup, Integers, Sequences, FiniteSets

CONSTANTS Jobs,       \* jobs, as company and title tell them apart
          Procs,      \* commands that may run at the same time
          Threshold,  \* DEFAULT_THRESHOLD_DAYS of the two sweeps, scaled
          MaxDay,     \* bound: days that pass
          MaxUpsets,  \* bound: processes that die, rule edits, outreach messages,
                      \* jobs added with --force
          Entries     \* the status and applied date the operator may give add

ASSUME ThresholdAssumption == Threshold \in Nat \ {0}
ASSUME MaxDayAssumption == MaxDay \in Nat \ {0}
ASSUME MaxUpsetsAssumption == MaxUpsets \in Nat
ASSUME JobsAssumption == IsFiniteSet(Jobs)

\* Interview stands for Offer too, and No Response for Rejected and Closed.
PageStatuses == {"To Apply", "Applied", "Interview", "No Response", "Archived"}
Outreach == {"To do", "In flight"}
Days == 0 .. MaxDay          \* 0: no date

ASSUME EntriesAssumption == Entries \subseteq PageStatuses \X Days

\* A row's key: of a scanned posting in canonical form, or with the ATS prefix
\* twice; of a job entered by hand, with the day (makeManualKey).
Keys == (Jobs \X {"plain", "legacy"} \X {0}) \cup (Jobs \X {"manual"} \X (1 .. MaxDay))

\* The rows of a posting agree on the company here and are equally old.
Row == [key: Keys, status: RowStatuses, paged: BOOLEAN, adate: Days,
        outreach: Outreach, odate: Days, art: {"none", "hot", "arch"},
        updated: {0}, company: {"same"}, url: {"none", "here", "there"}]

NoPage == [status |-> "none", outreach |-> "To do"]

\* scan and check end, for this module, with the pull of their pre-hook, as
\* sync does; dedup is validate --dedup, and prepare without its pull.
Commands == {"sync", "validate", "dedup", "prepare", "add"}

VARIABLES tsv,      \* the rows of applications.tsv, in file order
          notion,   \* the page of every key, or NoPage
          file,     \* where the job's tailored artifact is on disk
          blocked,  \* jobs the profile's blocklists now match
          today,    \* the date
          upsets,   \* how many of those happened so far
          strayed,  \* history: jobs whose file was moved by a process that died
                    \* before it saved the path
          proc      \* per process: the command, where it is, what it holds

vars == <<tsv, notion, file, blocked, today, upsets, strayed, proc>>

Idle == [cmd |-> "none", pc |-> "idle", buf |-> <<>>, todo |-> {},
         pages |-> [k \in Keys |-> NoPage], moved |-> FALSE, new |-> <<>>]

\* Company and title: what add compares and the blocklists match, and what an
\* artifact's file is named after.
TitleOf(row) == row.key[1]

JobsIn(rows) == {JobOf(rows[i]) : i \in DOMAIN rows}
KeysIn(rows) == {rows[i].key : i \in DOMAIN rows}

\* The row's key is no other row's.
Alone(rows, i) == \A j \in DOMAIN rows : rows[j].key = rows[i].key => j = i

\* The postings that stand twice under one key.
Doubled(rows) == {JobOf(rows[i]) : i \in {j \in DOMAIN rows : ~Alone(rows, j)}}

-----------------------------------------------------------------------------
(* The date anchors *)

\* decideAppliedDate: stamp on entering Applied, never touch an anchor.
AppliedDateRestamped(status, adate) == IF status = "Applied" THEN today ELSE adate

AppliedDate(status, adate) ==
    IF status = "Applied" /\ adate = 0 THEN today ELSE adate

\* decideOutreachDate: stamp on entering In flight, clear on To do.
OutreachDate(outreach, odate) ==
    IF outreach = "In flight" /\ odate = 0 THEN today
    ELSE IF outreach = "To do" THEN 0 ELSE odate

\* selectStaleApplied
StaleApplied(rows, day) ==
    {i \in DOMAIN rows : /\ rows[i].status = "Applied"
                         /\ rows[i].adate # 0
                         /\ day - rows[i].adate >= Threshold}

\* selectStaleInFlight: it tests the main status column.
StaleInFlight(rows, day) ==
    {i \in DOMAIN rows : /\ rows[i].status = "In flight"
                         /\ rows[i].odate # 0
                         /\ day - rows[i].odate >= Threshold}

-----------------------------------------------------------------------------
(* reconcilePull *)

PulledRowKeepingStatus(row, page) ==
    [row EXCEPT !.paged = TRUE,
                !.status = IF row.paged THEN @ ELSE page.status,
                !.outreach = page.outreach]

PulledRow(row, page) ==
    [row EXCEPT !.paged = TRUE,
                !.status = page.status,
                !.adate = AppliedDate(page.status, row.adate),
                !.outreach = page.outreach,
                !.odate = OutreachDate(page.outreach, row.odate)]

PulledRows(rows, pages) ==
    [i \in DOMAIN rows |->
        IF pages[rows[i].key] = NoPage THEN rows[i]
        ELSE PulledRow(rows[i], pages[rows[i].key])]

AddedRow(key, page) ==
    [key |-> key, status |-> page.status, paged |-> TRUE,
     adate |-> AppliedDate(page.status, 0), outreach |-> page.outreach,
     odate |-> 0, art |-> "none",
     updated |-> 0, company |-> "same", url |-> "none"]

\* The Map keyed by row key that sync mutates: a key keeps its first place
\* and has its last row, or the last of its rows the pull has changed.
KeyedRows(rows, pulled) ==
    LET first == {i \in DOMAIN rows : \A j \in 1 .. i - 1 : rows[j].key # rows[i].key}
        same(k) == {i \in DOMAIN rows : rows[i].key = k}
        set(k) == {i \in same(k) : pulled[i] # rows[i]}
        final(k) == IF set(k) = {} THEN same(k) ELSE set(k)
        last(k) == CHOOSE i \in final(k) : \A j \in final(k) : j <= i
    IN [n \in 1 .. Cardinality(first) |-> pulled[last(rows[Nth(first, n)].key)]]

\* Pages without a row, in the order of the query (any one is as good).
AddedRows(rows, pages) ==
    LET new == {k \in Keys : pages[k] # NoPage /\ k \notin KeysIn(rows)}
        order == CHOOSE s \in [1 .. Cardinality(new) -> new] :
                    \A i, j \in DOMAIN s : s[i] = s[j] => i = j
    IN [i \in DOMAIN order |-> AddedRow(order[i], pages[order[i]])]

MergedRows(rows, pages) ==
    KeyedRows(rows, PulledRows(rows, pages)) \o AddedRows(rows, pages)

-----------------------------------------------------------------------------
(* The frame of a command: runCli *)

At(p, pc) == proc[p].pc = pc

Goto(p, pc) == proc' = [proc EXCEPT ![p].pc = pc]

\* A phase of the command ends, and with it the copy of the file it held.
Drop(p, pc) == proc' = [proc EXCEPT ![p] = [Idle EXCEPT !.cmd = proc[p].cmd, !.pc = pc]]

Finish(p) == proc' = [proc EXCEPT ![p] = Idle]

\* Where runCli goes after the sweeps: the pre-hook of scan, prepare and check
\* pulls, unless --no-sync; then the handler.
AfterSweeps(cmd) ==
    IF cmd \in {"sync", "prepare"} THEN "pull"
    ELSE IF cmd = "validate" THEN "screen" ELSE IF cmd = "dedup" THEN "collapse" ELSE "enter"

-----------------------------------------------------------------------------
(* The sweeps *)

\* runAutoDeadSweep: load, flip, save; nothing is ever selected.
DeadSwept(rows) ==
    [i \in DOMAIN rows |-> IF i \in StaleInFlight(rows, today)
                           THEN [rows[i] EXCEPT !.status = "Dead"] ELSE rows[i]]

\* A command begins: "today" is read once, the first sweep runs, and the
\* second loads the file and selects its rows.
Start(p, cmd) ==
    LET rows == DeadSwept(tsv)
    IN /\ At(p, "idle")
       /\ tsv' = rows
       /\ proc' = [proc EXCEPT ![p] =
            IF StaleApplied(rows, today) = {}
            THEN [Idle EXCEPT !.cmd = cmd, !.pc = AfterSweeps(cmd)]
            ELSE [Idle EXCEPT !.cmd = cmd, !.pc = "sweep", !.buf = rows,
                              !.todo = StaleApplied(rows, today)]]
       /\ UNCHANGED <<notion, file, blocked, today, upsets, strayed>>

SweepRowInMemory(p, ok) ==
    /\ At(p, "sweep")
    /\ \E i \in proc[p].todo :
        /\ \A j \in proc[p].todo : i <= j
        /\ proc' = [proc EXCEPT ![p].todo = @ \ {i},
                                ![p].buf[i].status = "No Response"]
    /\ UNCHANGED <<tsv, notion, file, blocked, today, upsets, strayed>>

\* One stale row: the status in memory, then the awaited Notion write; an
\* error is logged and the row stays swept.
SweepRow(p, ok) ==
    /\ At(p, "sweep")
    /\ \E i \in proc[p].todo :
        /\ \A j \in proc[p].todo : i <= j
        /\ proc' = [proc EXCEPT ![p].todo = @ \ {i},
                                ![p].buf[i].status = "No Response"]
        /\ notion' = IF ok /\ proc[p].buf[i].paged
                     THEN [notion EXCEPT ![proc[p].buf[i].key].status = "No Response"]
                     ELSE notion
    /\ UNCHANGED <<tsv, file, blocked, today, upsets, strayed>>

SweepSave(p) ==
    /\ At(p, "sweep")
    /\ proc[p].todo = {}
    /\ tsv' = proc[p].buf
    /\ Drop(p, AfterSweeps(proc[p].cmd))
    /\ UNCHANGED <<notion, file, blocked, today, upsets, strayed>>

-----------------------------------------------------------------------------
(* sync --apply *)

PullLoad(p) ==
    /\ At(p, "pull")
    /\ proc' = [proc EXCEPT ![p].pc = "fetch", ![p].buf = tsv]
    /\ UNCHANGED <<tsv, notion, file, blocked, today, upsets, strayed>>

\* fetchJobsFromDatabase; an error leaves the plan empty and sync goes on.
Fetch(p, ok) ==
    /\ At(p, "fetch")
    /\ proc' = [proc EXCEPT ![p].pc = "reconcile",
                            ![p].pages = IF ok THEN notion ELSE @]
    /\ UNCHANGED <<tsv, notion, file, blocked, today, upsets, strayed>>

\* eligibleArtifacts and planArchiveMoves: the row moved past To Apply, its
\* path is a tailored one, the source exists and the target does not.
Movable(rows) ==
    {i \in DOMAIN rows :
        /\ rows[i].status \in {"Applied", "Interview", "No Response"}
        /\ rows[i].art = "hot"
        /\ file[TitleOf(rows[i])] = "hot"}

\* Reconcile, save when anything changed, and plan the archive moves.
Reconcile(p) ==
    LET rows == proc[p].buf
        merged == MergedRows(rows, proc[p].pages)
        changed == PulledRows(rows, proc[p].pages) # rows \/ AddedRows(rows, proc[p].pages) # <<>>
    IN /\ At(p, "reconcile")
       /\ tsv' = IF changed THEN merged ELSE tsv
       /\ proc' = [proc EXCEPT ![p].pc = "archive", ![p].buf = merged,
                               ![p].pages = Idle.pages, ![p].todo = Movable(merged)]
       /\ UNCHANGED <<notion, file, blocked, today, upsets, strayed>>

ArchiveMoveRegardless(p, ok) ==
    /\ At(p, "archive")
    /\ \E i \in proc[p].todo :
        LET j == TitleOf(proc[p].buf[i])
        IN /\ \A k \in proc[p].todo : i <= k
           /\ file' = IF ok /\ file[j] = "hot" THEN [file EXCEPT ![j] = "arch"] ELSE file
           /\ proc' = [proc EXCEPT ![p].todo = @ \ {i}, ![p].moved = TRUE,
                                   ![p].buf[i].art = "arch"]
    /\ UNCHANGED <<tsv, notion, blocked, today, upsets, strayed>>

\* One move: the file, then the path in memory; a rename that fails is
\* warned about and the row keeps its path.
ArchiveMove(p, ok) ==
    /\ At(p, "archive")
    /\ \E i \in proc[p].todo :
        LET j == TitleOf(proc[p].buf[i])
            done == ok /\ file[j] = "hot"
        IN /\ \A k \in proc[p].todo : i <= k
           /\ file' = IF done THEN [file EXCEPT ![j] = "arch"] ELSE file
           /\ proc' = [proc EXCEPT ![p].todo = @ \ {i},
                                   ![p].moved = @ \/ done,
                                   ![p].buf[i].art = IF done THEN "arch" ELSE @]
    /\ UNCHANGED <<tsv, notion, blocked, today, upsets, strayed>>

\* The second save of a sync; then prepare goes on to its own work.
ArchiveSave(p) ==
    /\ At(p, "archive")
    /\ proc[p].todo = {}
    /\ tsv' = IF proc[p].moved THEN proc[p].buf ELSE tsv
    /\ IF proc[p].cmd = "prepare" THEN Drop(p, "collapse") ELSE Finish(p)
    /\ UNCHANGED <<notion, file, blocked, today, upsets, strayed>>

-----------------------------------------------------------------------------
(* validate --apply, validate --dedup --apply, and prepare's auto-dedup *)

\* The rows are loaded before the URL pings are awaited ...
ScreenLoad(p) ==
    /\ At(p, "screen")
    /\ proc' = [proc EXCEPT ![p].pc = "sweepOut", ![p].buf = tsv]
    /\ UNCHANGED <<tsv, notion, file, blocked, today, upsets, strayed>>

\* ... and screened and saved after them.
ScreenSave(p) ==
    LET rows == proc[p].buf
        hit == {rows[i].key : i \in {j \in DOMAIN rows :
                  /\ rows[j].status \in {"Inbox", "To Apply"}
                  /\ TitleOf(rows[j]) \in blocked}}
    IN /\ At(p, "sweepOut")
       /\ tsv' = IF hit = {} THEN tsv
                 ELSE [i \in DOMAIN rows |-> IF rows[i].key \in hit
                                             THEN [rows[i] EXCEPT !.status = "Archived"]
                                             ELSE rows[i]]
       /\ Finish(p)
       /\ UNCHANGED <<notion, file, blocked, today, upsets, strayed>>

\* runDedup and runAutoDedup load, plan and save without an await.
Collapse(p) ==
    /\ At(p, "collapse")
    /\ \E dropped \in {DroppedKeys(tsv)} :
         tsv' = IF dropped = {} THEN tsv ELSE DedupedRows(tsv, dropped)
    /\ Finish(p)
    /\ UNCHANGED <<notion, file, blocked, today, upsets, strayed>>

-----------------------------------------------------------------------------
(* add --apply *)

\* buildManualRow: the key is of the day, the status and the applied date are
\* the operator's; no artifact is tailored for it yet.
ManualRow(job, entry) ==
    [key |-> <<job, "manual", today>>, status |-> entry[1], paged |-> FALSE,
     adate |-> entry[2], outreach |-> "To do", odate |-> 0, art |-> "none",
     updated |-> 0, company |-> "same", url |-> "none"]

\* findDuplicates: the same key, or the same company and title on a row that
\* is not archived.
Duplicates(rows, new) ==
    {i \in DOMAIN rows : \/ rows[i].key = new.key
                         \/ TitleOf(rows[i]) = TitleOf(new) /\ rows[i].status # "Archived"}

\* The duplicate guard, before any write; --force goes past it.
Enter(p, new, force) ==
    /\ At(p, "enter")
    /\ IF Duplicates(tsv, new) = {} \/ force
       THEN proc' = [proc EXCEPT ![p].pc = "push", ![p].buf = tsv, ![p].new = <<new>>]
       ELSE Finish(p)
    /\ IF force THEN upsets < MaxUpsets /\ upsets' = upsets + 1 ELSE UNCHANGED upsets
    /\ UNCHANGED <<tsv, notion, file, blocked, today, strayed>>

\* pushJobPage reuses the page of the key; a failure writes nothing.
Push(p, ok) ==
    LET new == Head(proc[p].new)
    IN /\ At(p, "push")
       /\ IF ok
          THEN /\ Goto(p, "write")
               /\ notion' = IF notion[new.key] # NoPage THEN notion
                            ELSE [notion EXCEPT ![new.key] =
                                    [status |-> new.status, outreach |-> "To do"]]
          ELSE Finish(p) /\ UNCHANGED notion
       /\ UNCHANGED <<tsv, file, blocked, today, upsets, strayed>>

Write(p) ==
    /\ At(p, "write")
    /\ tsv' = Append(proc[p].buf, [Head(proc[p].new) EXCEPT !.paged = TRUE])
    /\ Finish(p)
    /\ UNCHANGED <<notion, file, blocked, today, upsets, strayed>>

-----------------------------------------------------------------------------
(* What happens around the commands *)

\* The jobs whose files a sync has moved, their paths being in memory only.
Unsaved(p) ==
    IF At(p, "archive")
    THEN {TitleOf(proc[p].buf[i]) : i \in {j \in DOMAIN proc[p].buf : proc[p].buf[j].art = "arch"}}
    ELSE {}

\* The process dies; what it held in memory is gone.
Crash(p) ==
    /\ ~At(p, "idle")
    /\ upsets < MaxUpsets
    /\ upsets' = upsets + 1
    /\ strayed' = strayed \cup Unsaved(p)
    /\ Finish(p)
    /\ UNCHANGED <<tsv, notion, file, blocked, today>>

\* The operator moves an application on in Notion (or check does, for a mail).
OperatorMoves(k, s) ==
    /\ notion[k] # NoPage
    /\ <<notion[k].status, s>> \in {<<"To Apply", "Applied">>, <<"Applied", "Interview">>,
                                    <<"No Response", "Interview">>}
    /\ notion' = [notion EXCEPT ![k].status = s]
    /\ UNCHANGED <<tsv, file, blocked, today, upsets, strayed, proc>>

OperatorWrites(k) ==
    /\ notion[k] # NoPage
    /\ notion[k].outreach = "To do"
    /\ upsets < MaxUpsets
    /\ upsets' = upsets + 1
    /\ notion' = [notion EXCEPT ![k].outreach = "In flight"]
    /\ UNCHANGED <<tsv, file, blocked, today, strayed, proc>>

\* A pattern is added to filter_rules.json.
RulesChange(j) ==
    /\ j \notin blocked
    /\ upsets < MaxUpsets
    /\ upsets' = upsets + 1
    /\ blocked' = blocked \cup {j}
    /\ UNCHANGED <<tsv, notion, file, today, strayed, proc>>

NextDay ==
    /\ today < MaxDay
    /\ today' = today + 1
    /\ UNCHANGED <<tsv, notion, file, blocked, upsets, strayed, proc>>

-----------------------------------------------------------------------------
\* The files a profile may start from: none yet, a row for a posting, or two
\* under both forms of its key, the one of the migrated key or the other
\* committed by prepare with its artifact; their URLs may differ.
StartRow(k, s, url) ==
    [key |-> k, status |-> s, paged |-> s # "Inbox", adate |-> 0,
     outreach |-> "To do", odate |-> 0,
     art |-> IF s = "Inbox" THEN "none" ELSE "hot",
     updated |-> 0, company |-> "same", url |-> url]

OtherForm == [form \in {"plain", "legacy"} |-> IF form = "plain" THEN "legacy" ELSE "plain"]

TwoForms(j, form, url) ==
    <<StartRow(<<j, form, 0>>, "To Apply", "here"),
      StartRow(<<j, OtherForm[form], 0>>, "Inbox", url)>>

StartFile ==
    \/ tsv = <<>>
    \/ \E j \in Jobs : tsv = <<StartRow(<<j, "plain", 0>>, "To Apply", "here")>>
    \/ \E j \in Jobs, form \in {"plain", "legacy"}, url \in {"none", "there"} :
         tsv = TwoForms(j, form, url)

Init ==
    /\ StartFile
    /\ notion = [k \in Keys |->
         IF \E i \in DOMAIN tsv : tsv[i].key = k /\ tsv[i].paged
         THEN [status |-> "To Apply", outreach |-> "To do"] ELSE NoPage]
    /\ file = [j \in Jobs |-> IF \E i \in DOMAIN tsv : TitleOf(tsv[i]) = j /\ tsv[i].art = "hot"
                              THEN "hot" ELSE "none"]
    /\ blocked = {}
    /\ today = 1
    /\ upsets = 0
    /\ strayed = {}
    /\ proc = [p \in Procs |-> Idle]

Step(p) ==
    \/ SweepRow(p, TRUE) \/ SweepRow(p, FALSE) \/ SweepSave(p)
    \/ PullLoad(p) \/ Fetch(p, TRUE) \/ Fetch(p, FALSE) \/ Reconcile(p)
    \/ ArchiveMove(p, TRUE) \/ ArchiveMove(p, FALSE) \/ ArchiveSave(p)
    \/ ScreenLoad(p) \/ ScreenSave(p) \/ Collapse(p)
    \/ (\E j \in Jobs : \E e \in Entries :
          Enter(p, ManualRow(j, e), FALSE) \/ Enter(p, ManualRow(j, e), TRUE))
    \/ Push(p, TRUE) \/ Push(p, FALSE) \/ Write(p)

Environment ==
    \/ \E k \in Keys : \E s \in PageStatuses : OperatorMoves(k, s)
    \/ \E k \in Keys : OperatorWrites(k)
    \/ \E j \in Jobs : RulesChange(j)
    \/ NextDay

Next ==
    \/ \E p \in Procs : \E cmd \in Commands : Start(p, cmd)
    \/ \E p \in Procs : Step(p)
    \/ \E p \in Procs : Crash(p)
    \/ Environment

\* A running command goes on; the cron keeps running commands that pull, and
\* a Notion call that is made again and again gets through some day.
Fairness ==
    \A p \in Procs :
        /\ WF_vars(Step(p))
        /\ SF_vars(Start(p, "sync"))
        /\ SF_vars(Fetch(p, TRUE))
        /\ SF_vars(SweepRow(p, TRUE))

Spec == Init /\ [][Next]_vars /\ Fairness

-----------------------------------------------------------------------------
(* Properties *)

TypeOK ==
    /\ tsv \in Seq(Row)
    /\ notion \in [Keys -> {NoPage} \cup [status: PageStatuses, outreach: Outreach]]
    /\ file \in [Jobs -> {"none", "hot", "arch"}]
    /\ blocked \subseteq Jobs
    /\ today \in 1 .. MaxDay
    /\ upsets \in 0 .. MaxUpsets
    /\ strayed \subseteq Jobs
    /\ \A p \in Procs : /\ proc[p].buf \in Seq(Row)
                        /\ proc[p].todo \subseteq DOMAIN proc[p].buf
                        /\ proc[p].cmd \in Commands \cup {"none"}

\* No save loses a posting: whatever sync merges, dedup collapses or a sweep
\* saves, the file still has a row for every posting it had, but for one that
\* stands twice under one key (a second add of a day, by --force): the winner has
\* the loser's key there, and dedup drops both
\* (tsv_dedup.js: "collapse the pair to a single canonical row").
\* It is said of commands that run one after the other: of two that overlap the
\* later save is of an older copy, and what the earlier added is lost.
PostingKept == [][JobsIn(tsv) \subseteq JobsIn(tsv') \cup Doubled(tsv)]_tsv

\* The 14-day timer is never reset: a row that stays Applied keeps the date
\* it was stamped with, through pulls, sweeps, dedup and crashes
\* (auto_no_response.js: "re-stamping would silently reset the 14-day timer").
\* Of two rows under one key sync keeps the one it comes to last.
AnchorKept ==
    [][\A i \in DOMAIN tsv : \A j \in DOMAIN tsv' :
          (/\ tsv[i].key = tsv'[j].key
           /\ Alone(tsv, i) /\ Alone(tsv', j)
           /\ tsv[i].adate # 0
           /\ tsv'[j].status = "Applied") => tsv'[j].adate = tsv[i].adate]_tsv

\* A row's artifact path names the file: an archive path only after the move,
\* and the hot path until then, except while a sync has the new path in memory
\* only, and for a file whose sync died before saving it: no later one finds
\* that file at its old place.
PathNamesFile ==
    \A i \in DOMAIN tsv :
        /\ tsv[i].art = "arch" => file[TitleOf(tsv[i])] = "arch"
        /\ tsv[i].art = "hot" => \/ file[TitleOf(tsv[i])] = "hot"
                                 \/ TitleOf(tsv[i]) \in strayed
                                 \/ \E p \in Procs : TitleOf(tsv[i]) \in Unsaved(p)

\* A sweep whose Notion write failed is undone by the next pull and done
\* again: again and again no row that is past its date is Applied in Notion.
OverdueLeaves ==
    []<>(\A i \in DOMAIN tsv :
           (tsv[i].adate # 0 /\ today - tsv[i].adate >= Threshold)
           => notion[tsv[i].key].status # "Applied")

\* Again and again the file agrees with Notion on every row that has a page,
\* whatever sweeps, screens and dead processes did in between.
LedgerFollowsNotion ==
    []<>(\A i \in DOMAIN tsv : tsv[i].paged => tsv[i].status = notion[tsv[i].key].status)
=============================================================================
