------------------------------ MODULE ApplyBot ------------------------------
(***************************************************************************)
(* The apply command: `pre` builds the queue and reads the forms, `submit` *)
(* fills them in a worker pool and presses Submit, `open` lets a human     *)
(* finish one job; beside them `sync` pulls Notion into the TSV and the    *)
(* human edits Notion.  Every await of the code is a point where another   *)
(* step may come in between, and every command may die at any of them.     *)
(***************************************************************************)
EXTENDS Ledger, Naturals, FiniteSets

CONSTANTS
    Jobs,          \* the rows of applications.tsv, by key
    NoJob,         \* no job
    Tenant,        \* job -> ATS board, the key of the submit pool
    Company,       \* job -> company
    Cap,           \* company -> company_cap limit
    Rank,          \* job -> order of createdAt, larger is newer
    FitOk,         \* jobs with a Strong or Medium fit
    OutOfArea,     \* jobs outside the profile's geo
    Limit,         \* --limit of the pre phase
    Concurrency,   \* --concurrency of the submit pool
    Alone,         \* the commands that never run beside another one
    Operated,      \* the commands the operator uses
    ByHand,        \* the jobs a human opens, or edits in Notion
    NotionEdits    \* the statuses a human sets in Notion

Commands == {"pre", "submit", "open", "sync"}

ASSUME ConstantsAssumption ==
    /\ IsFiniteSet(Jobs)
    /\ NoJob \notin Jobs
    /\ Rank \in [Jobs -> Nat]
    /\ \A j, k \in Jobs : Rank[j] = Rank[k] => j = k
    /\ FitOk \subseteq Jobs
    /\ OutOfArea \subseteq Jobs
    /\ Limit \in Nat \ {0}
    /\ Concurrency \in Nat \ {0}
    /\ Alone \subseteq Commands
    /\ Operated \subseteq Commands
    /\ ByHand \subseteq Jobs
    /\ NotionEdits \subseteq Statuses

\* What pre learns about a queued job ("area": archived, never opened).
Findings == {"none", "entry", "manual", "closed", "skip", "area"}

\* Where the submit worker of a job stands; "out": not in this run.
WorkerSteps == {"out", "pending", "filling", "guarded", "marked", "held",
                "unsure", "decided", "pushing", "done"}

Outcomes == {"none", "submitted", "failed", "manual", "skipped", "dry_run"}

VARIABLES
    rows,          \* applications.tsv
    notion,        \* Status of the job's Notion page
    running,       \* the commands now running
    \* pre
    prePhase,      \* "off", "read", "push" or "write"
    preSnap,       \* the rows pre loaded when it started
    preFound,      \* what it learned
    context,       \* apply_context.json: jobs whose forms were read
    \* submit
    pc,            \* worker step of each job
    result,        \* (provisional) outcome of each job in flight
    dry,           \* --dry-run
    \* open and sync
    openJob,       \* the job a human has open
    openStatus,    \* status open has written and not yet pushed to Notion
    syncSnap,      \* the rows sync loaded when it started
    \* history
    used,          \* a real submit run was started on this context
    clicked,       \* jobs for which the bot pressed Submit
    reclicked,     \* jobs for which it did so again
    rerun,         \* jobs of a context that was submitted again
    released       \* jobs whose bot state a human's open command cleared

preVars  == <<prePhase, preSnap, preFound>>
subVars  == <<pc, result, dry>>
openVars == <<openJob, openStatus>>
ghosts   == <<used, clicked, reclicked, rerun, released>>
vars == <<rows, notion, running, preVars, context, subVars, openVars, syncSnap, ghosts>>

NoRows == [k \in Jobs |-> FreshRow]

Nothing == [k \in Jobs |-> "none"]

AllOut == [k \in Jobs |-> "out"]

TypeOK ==
    /\ rows \in [Jobs -> Row]
    /\ notion \in [Jobs -> Statuses]
    /\ running \in SUBSET Commands
    /\ prePhase \in {"off", "read", "push", "write"}
    /\ preSnap \in [Jobs -> Row]
    /\ preFound \in [Jobs -> Findings]
    /\ context \in SUBSET Jobs
    /\ pc \in [Jobs -> WorkerSteps]
    /\ result \in [Jobs -> Outcomes]
    /\ dry \in BOOLEAN
    /\ openJob \in Jobs \cup {NoJob}
    /\ openStatus \in {"", "Applied", "Closed"}
    /\ syncSnap \in [Jobs -> Row]
    /\ used \in BOOLEAN
    /\ clicked \in SUBSET Jobs
    /\ reclicked \in SUBSET Jobs
    /\ rerun \in SUBSET Jobs
    /\ released \in SUBSET Jobs

Init ==
    /\ rows = [k \in Jobs |-> FreshRow]
    /\ notion = [k \in Jobs |-> "To Apply"]
    /\ running = {}
    /\ prePhase = "off" /\ preSnap = NoRows /\ preFound = Nothing
    /\ context = {}
    /\ pc = AllOut /\ result = Nothing /\ dry = FALSE
    /\ openJob = NoJob /\ openStatus = ""
    /\ syncSnap = NoRows
    /\ used = FALSE
    /\ clicked = {} /\ reclicked = {}
    /\ rerun = {} /\ released = {}

\* Nothing but the operator's habit keeps two commands apart; Alone is that
\* habit (and what the nightly session's sequence of commands gives).
Start(c) ==
    /\ c \in Operated \ running
    /\ c \in Alone => running = {}
    /\ running \cap Alone = {}
    /\ running' = running \cup {c}

Stop(c) == running' = running \ {c}

-----------------------------------------------------------------------------
(* apply --phase pre *)

Newer(j, k) == Rank[j] > Rank[k]

Gated(rs) == {k \in FitOk : PassesGates(rs[k])}

Settled(rs, c) == {k \in Jobs : Company[k] = c /\ CountsForCap(rs[k])}

\* Taking candidates newest first, each one taken counts against its company.
UnderCap(rs) ==
    LET candidates == Gated(rs) \ OutOfArea
        ahead(k) == {j \in candidates : Company[j] = Company[k] /\ Newer(j, k)}
    IN  {k \in candidates :
            Cardinality(Settled(rs, Company[k])) + Cardinality(ahead(k)) < Cap[Company[k]]}

BuildQueue(rs) ==
    {k \in UnderCap(rs) : Cardinality({j \in UnderCap(rs) : Newer(j, k)}) < Limit}

StartPre ==
    /\ Start("pre")
    /\ prePhase' = "read"
    /\ preSnap' = rows
    /\ UNCHANGED <<rows, notion, preFound, context, subVars, openVars, syncSnap, ghosts>>

\* The rows pre puts back: every one as it was loaded, the found ones changed.
PreRow(r, f) ==
    CASE f = "manual" -> ManualRow(r)
      [] f = "entry"  -> QueuedRow(r)
      [] f = "closed" -> ClosedRow(r)
      [] f = "area"   -> ArchivedRow(r)
      [] OTHER        -> r

\* The forms are read, the rows saved in one go (not with --dry-run).
SavePre ==
    /\ prePhase = "read"
    /\ \E found \in [Jobs -> Findings], dryRun \in BOOLEAN :
        /\ \A k \in Jobs :
            \/ k \in BuildQueue(preSnap) /\ found[k] \in {"entry", "manual", "closed", "skip"}
            \/ k \in Gated(preSnap) \cap OutOfArea /\ found[k] = "area"
            \/ k \notin BuildQueue(preSnap) \cup (Gated(preSnap) \cap OutOfArea) /\ found[k] = "none"
        /\ preFound' = found
        /\ IF dryRun \/ \A k \in Jobs : found[k] \in {"none", "skip"}
           THEN /\ prePhase' = "write"
                /\ UNCHANGED rows
           ELSE /\ prePhase' = "push"
                /\ rows' = [k \in Jobs |-> PreRow(preSnap[k], found[k])]
    /\ UNCHANGED <<notion, running, preSnap, context, subVars, openVars, syncSnap, ghosts>>

\* Closed and Archived are pushed to Notion; a push that fails is only logged.
PushPre ==
    /\ prePhase = "push"
    /\ \E pushed \in SUBSET {k \in Jobs : preFound[k] \in {"closed", "area"}} :
        notion' = [k \in Jobs |->
            IF k \notin pushed THEN notion[k]
            ELSE IF preFound[k] = "closed" THEN "Closed" ELSE "Archived"]
    /\ prePhase' = "write"
    /\ UNCHANGED <<rows, running, preSnap, preFound, context, subVars, openVars, syncSnap, ghosts>>

EndPre ==
    /\ Stop("pre")
    /\ prePhase' = "off" /\ preSnap' = NoRows /\ preFound' = Nothing

WriteContextMerging ==
    /\ prePhase = "write"
    /\ context' = context \cup {k \in Jobs : preFound[k] = "entry"}
    /\ used' = FALSE
    /\ EndPre
    /\ UNCHANGED <<rows, notion, subVars, openVars, syncSnap,
                   clicked, reclicked, rerun, released>>

WriteContext ==
    /\ prePhase = "write"
    /\ context' = {k \in Jobs : preFound[k] = "entry"}
    /\ used' = FALSE
    /\ EndPre
    /\ UNCHANGED <<rows, notion, subVars, openVars, syncSnap,
                   clicked, reclicked, rerun, released>>

CrashPre ==
    /\ "pre" \in running
    /\ EndPre
    /\ UNCHANGED <<rows, notion, context, subVars, openVars, syncSnap, ghosts>>

-----------------------------------------------------------------------------
(* apply --phase submit *)

SetPc(k, step) == pc' = [pc EXCEPT ![k] = step]

Decide(k, outcome) == result' = [result EXCEPT ![k] = outcome] /\ SetPc(k, "decided")

SubmitOnly == UNCHANGED <<running, preVars, context, dry, openVars, syncSnap>>

StartSubmit ==
    /\ Start("submit")
    /\ dry' \in BOOLEAN
    /\ pc' = [k \in Jobs |-> IF k \in context THEN "pending" ELSE "out"]
    /\ result' = Nothing
    /\ used' = (used \/ ~dry')
    /\ rerun' = IF used THEN rerun \cup context ELSE rerun
    /\ UNCHANGED <<rows, notion, preVars, context, openVars, syncSnap,
                   clicked, reclicked, released>>

Pending == {k \in Jobs : pc[k] = "pending"}

InFlight == {k \in Jobs : pc[k] \notin {"out", "pending", "done"}}

\* Mutant: the boards with an open form are not looked at.
AdmittedAnyTenant(k) == k \in Pending /\ Cardinality(InFlight) < Concurrency

\* Mutant: the pool looks for work when a run starts and not when a form is done.
AdmittedAtStart(k) ==
    /\ k \in Pending
    /\ Cardinality(InFlight) < Concurrency
    /\ \A j \in Jobs : pc[j] # "done" /\ (j \in InFlight => Tenant[j] # Tenant[k])

\* The pool hands k to a worker: a slot is free, its tenant is idle, and every
\* pending job before it waits for its own tenant.
Admitted(k) ==
    /\ k \in Pending
    /\ Cardinality(InFlight) < Concurrency
    /\ \A j \in InFlight : Tenant[j] # Tenant[k]
    /\ \A j \in Pending : Newer(j, k) => \E i \in InFlight : Tenant[i] = Tenant[j]

\* --deadline has passed: the form is not started.
PastDeadline(k) ==
    /\ Admitted(k)
    /\ Decide(k, "skipped")
    /\ UNCHANGED <<rows, notion, ghosts>> /\ SubmitOnly

\* A required question has no answer, or has one and the worker goes on: the
\* context's and the answers file's choice.  It is checked before the
\* double-apply guard.
NoHonestAnswer(k) ==
    /\ Admitted(k)
    /\ Decide(k, "manual")
    /\ UNCHANGED <<rows, notion, ghosts>> /\ SubmitOnly

SkipAtFirstGuard(k) ==
    /\ Admitted(k)
    /\ ~MaySubmit(rows[k])
    /\ Decide(k, "skipped")
    /\ UNCHANGED <<rows, notion, ghosts>> /\ SubmitOnly

OpenForm(k) ==
    /\ Admitted(k)
    /\ MaySubmit(rows[k])
    /\ SetPc(k, "filling")
    /\ UNCHANGED <<rows, notion, result, ghosts>> /\ SubmitOnly

\* Blocked or changed form, unfilled field, or anything thrown before the click.
StopBeforeClick(k) ==
    /\ pc[k] \in {"filling", "guarded", "marked"}
    /\ Decide(k, "manual")
    /\ UNCHANGED <<rows, notion, ghosts>> /\ SubmitOnly

StopDryRun(k) ==
    /\ pc[k] = "filling"
    /\ dry
    /\ Decide(k, "dry_run")
    /\ UNCHANGED <<rows, notion, ghosts>> /\ SubmitOnly

SkipAtFinalGuard(k) ==
    /\ pc[k] = "filling"
    /\ ~dry
    /\ ~MaySubmit(rows[k])
    /\ Decide(k, "skipped")
    /\ UNCHANGED <<rows, notion, ghosts>> /\ SubmitOnly

PassFinalGuard(k) ==
    /\ pc[k] = "filling"
    /\ ~dry
    /\ MaySubmit(rows[k])
    /\ SetPc(k, "guarded")
    /\ UNCHANGED <<rows, notion, result, ghosts>> /\ SubmitOnly

MarkInMemory(k) ==
    /\ pc[k] = "guarded"
    /\ SetPc(k, "marked")
    /\ UNCHANGED <<rows, notion, result, ghosts>> /\ SubmitOnly

\* writeRow under the mutex: the attempt is on disk before the click.
Mark(k) ==
    /\ pc[k] = "guarded"
    /\ rows' = [rows EXCEPT ![k] = MarkedRow(@)]
    /\ SetPc(k, "marked")
    /\ UNCHANGED <<notion, result, ghosts>> /\ SubmitOnly

\* The click and what the page answers: a confirmation, the mailed-code
\* screen, no confirmation, a stop left to the human, or a refused form.
Click(k) ==
    /\ pc[k] = "marked"
    /\ clicked' = clicked \cup {k}
    /\ reclicked' = IF k \in clicked THEN reclicked \cup {k} ELSE reclicked
    /\ \/ Decide(k, "submitted")
       \/ SetPc(k, "held") /\ UNCHANGED result
       \/ SetPc(k, "unsure") /\ result' = [result EXCEPT ![k] = "failed"]
       \/ \E o \in {"manual", "failed"} : Decide(k, o)
    /\ UNCHANGED <<rows, notion, used, rerun, released>> /\ SubmitOnly

\* passEmailCode: the code from the mailbox is typed in and Submit pressed
\* again for the application the ATS is holding.
EnterCode(k) ==
    /\ pc[k] = "held"
    /\ \/ \E o \in {"submitted", "manual", "failed"} : Decide(k, o)
       \/ \E o \in {"manual", "failed"} :
            SetPc(k, "unsure") /\ result' = [result EXCEPT ![k] = o]
    /\ UNCHANGED <<rows, notion, ghosts>> /\ SubmitOnly

\* A thank-you mail in the apply mailbox settles an unconfirmed click.
CheckMailbox(k) ==
    /\ pc[k] = "unsure"
    /\ \/ \E o \in {"submitted", "manual"} : Decide(k, o)
       \/ SetPc(k, "decided") /\ UNCHANGED result
    /\ UNCHANGED <<rows, notion, ghosts>> /\ SubmitOnly

\* recordOutcome. With --dry-run writeRow writes nothing.
SettledRow(r, outcome) ==
    CASE outcome = "submitted" -> AppliedRow(r, "bot")
      [] outcome = "failed"    -> FailedRow(r)
      [] outcome = "manual"    -> ManualRow(r)
      [] OTHER                 -> r

Record(k) ==
    /\ pc[k] = "decided"
    /\ rows' = IF dry THEN rows ELSE [rows EXCEPT ![k] = SettledRow(@, result[k])]
    /\ SetPc(k, IF result[k] = "submitted" THEN "pushing" ELSE "done")
    /\ result' = [result EXCEPT ![k] = "none"]
    /\ UNCHANGED <<notion, ghosts>> /\ SubmitOnly

\* The write threw: worker_error, the row keeps whatever it carried.
FailToRecord(k) ==
    /\ pc[k] = "decided"
    /\ ~dry /\ result[k] \in {"submitted", "failed", "manual"}
    /\ SetPc(k, "done")
    /\ result' = [result EXCEPT ![k] = "none"]
    /\ UNCHANGED <<rows, notion, ghosts>> /\ SubmitOnly

PushApplied(k) ==
    /\ pc[k] = "pushing"
    /\ notion' = [notion EXCEPT ![k] = "Applied"] \/ UNCHANGED notion
    /\ SetPc(k, "done")
    /\ UNCHANGED <<rows, result, ghosts>> /\ SubmitOnly

EndRun ==
    /\ Stop("submit")
    /\ pc' = AllOut /\ result' = Nothing /\ dry' = FALSE

EndSubmit ==
    /\ "submit" \in running
    /\ \A k \in Jobs : pc[k] \in {"out", "done"}
    /\ EndRun
    /\ UNCHANGED <<rows, notion, preVars, context, openVars, syncSnap, ghosts>>

CrashSubmit ==
    /\ "submit" \in running
    /\ EndRun
    /\ UNCHANGED <<rows, notion, preVars, context, openVars, syncSnap, ghosts>>

Worker(k) ==
    \/ PastDeadline(k) \/ NoHonestAnswer(k) \/ SkipAtFirstGuard(k) \/ OpenForm(k)
    \/ StopBeforeClick(k) \/ StopDryRun(k) \/ SkipAtFinalGuard(k) \/ PassFinalGuard(k)
    \/ Mark(k) \/ Click(k) \/ EnterCode(k) \/ CheckMailbox(k)
    \/ Record(k) \/ FailToRecord(k) \/ PushApplied(k)

-----------------------------------------------------------------------------
(* apply --phase open *)

OpenOnly == UNCHANGED <<preVars, context, subVars, syncSnap, used, clicked, reclicked, rerun>>

StartOpen(k) ==
    /\ Start("open")
    /\ k \in ByHand
    /\ MayOpen(rows[k])
    /\ openJob' = k
    /\ openStatus' = ""
    /\ UNCHANGED <<rows, notion, released>> /\ OpenOnly

Reading(k) == "open" \in running /\ openJob = k /\ openStatus = ""

\* The posting turns out to be closed: the row is Closed, its bot state cleared.
OpenFindsClosed(k) ==
    /\ Reading(k)
    /\ rows' = [rows EXCEPT ![k] = ClosedRow(@)]
    /\ openStatus' = "Closed"
    /\ released' = released \cup {k}
    /\ UNCHANGED <<notion, running, openJob>> /\ OpenOnly

\* The human pressed Submit and the page confirmed it.
OpenConfirmed(k) ==
    /\ Reading(k)
    /\ rows' = [rows EXCEPT ![k] = AppliedRow(@, "manual")]
    /\ openStatus' = "Applied"
    /\ UNCHANGED <<notion, running, openJob, released>> /\ OpenOnly

EndOpen == Stop("open") /\ openJob' = NoJob /\ openStatus' = ""

PushOpen ==
    /\ openStatus # ""
    /\ notion' = [notion EXCEPT ![openJob] = openStatus] \/ UNCHANGED notion
    /\ EndOpen
    /\ UNCHANGED <<rows, released>> /\ OpenOnly

\* Window closed, unreadable form, 30 minutes without a confirmation, or death.
AbandonOpen ==
    /\ "open" \in running
    /\ EndOpen
    /\ UNCHANGED <<rows, notion, released>> /\ OpenOnly

-----------------------------------------------------------------------------
(* sync --apply, and the human in Notion *)

StartSync ==
    /\ Start("sync")
    /\ syncSnap' = rows
    /\ UNCHANGED <<rows, notion, preVars, context, subVars, openVars, ghosts>>

\* The pages have arrived: reconcile the loaded rows and save if any changed
\* (a column not modelled here may be the one that did).
SaveSync ==
    LET merged == [k \in Jobs |-> PulledRow(syncSnap[k], notion[k])]
    IN  /\ "sync" \in running
        /\ rows' = merged \/ (merged = syncSnap /\ UNCHANGED rows)
        /\ Stop("sync")
        /\ syncSnap' = NoRows
        /\ UNCHANGED <<notion, preVars, context, subVars, openVars, ghosts>>

\* Notion does not answer: nothing is saved.
AbandonSync ==
    /\ "sync" \in running
    /\ Stop("sync")
    /\ syncSnap' = NoRows
    /\ UNCHANGED <<rows, notion, preVars, context, subVars, openVars, ghosts>>

EditNotion(k, s) ==
    /\ k \in ByHand
    /\ notion[k] # s
    /\ notion' = [notion EXCEPT ![k] = s]
    /\ UNCHANGED <<rows, running, preVars, context, subVars, openVars, syncSnap, ghosts>>

-----------------------------------------------------------------------------
Next ==
    \/ StartPre \/ SavePre \/ PushPre \/ WriteContext \/ CrashPre
    \/ StartSubmit \/ EndSubmit \/ CrashSubmit
    \/ PushOpen \/ AbandonOpen
    \/ StartSync \/ SaveSync \/ AbandonSync
    \/ \E k \in Jobs :
        \/ Worker(k)
        \/ StartOpen(k) \/ OpenFindsClosed(k) \/ OpenConfirmed(k)
        \/ \E s \in NotionEdits : EditNotion(k, s)

Spec == Init /\ [][Next]_vars

\* Browser steps carry timeouts and file writes return, so a submit run goes
\* on while it can, in whichever of its workers; the operator, Notion's editor
\* and the human's window need not.
FairSpec == Spec /\ WF_vars(EndSubmit \/ \E k \in Jobs : Worker(k))

-----------------------------------------------------------------------------
(* Properties *)

\* Once the bot has pressed Submit for a job, no later pre phase may queue it
\* again, whatever was confirmed, crashed, lost on the way to Notion or pulled
\* back from it -- until a human's open command cleared the row.
NeverRequeued == \A k \in clicked \ released : ~PassesGates(rows[k])

\* The bot presses Submit twice for a job only if submit was run again on the
\* same context (or a human's open command cleared the row in between).
SecondClickOnlyOnRerun == reclicked \subseteq rerun \cup released

\* From the final double-apply guard to the click the row does not become a
\* recorded application, unless a human's open command beside it applied.
ClickOnUnrecorded ==
    \A k \in Jobs : pc[k] \in {"guarded", "marked"} /\ Recorded(rows[k])
                        => rows[k].applied_by = "manual"

\* The record that a job was applied to is never lost.
AppliedDateKept ==
    [][\A k \in Jobs : rows[k].applied_date # "" => rows'[k].applied_date # ""]_rows

\* A submit --dry-run clicks nothing and writes no row, not even the outcome
\* of a job it cannot answer for: a row that changes meanwhile is not the work
\* of one of its workers.
DryRunTouchesNothing == [][dry => UNCHANGED <<pc, clicked>>]_<<rows, clicked>>

\* Every submit run ends: no worker, tenant or skipped job holds it forever.
SubmitEnds == []<>("submit" \notin running)

\* The submit phase keeps the promise of its pool: at most Concurrency forms
\* open, at most one per ATS board, each job of the context tried once a run.
SubmitPool ==
    INSTANCE Pool WITH Items <- Jobs, Key <- Tenant, Limit <- Concurrency, NoKey <- NoJob,
        stage <- [k \in Jobs |-> CASE pc[k] = "out"     -> "idle"
                                   [] pc[k] = "pending" -> "waiting"
                                   [] pc[k] = "done"    -> "finished"
                                   [] OTHER             -> "working"]

SubmitKeepsPoolPromise == SubmitPool!Spec
=============================================================================
