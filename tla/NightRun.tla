------------------------------ MODULE NightRun ------------------------------
(***************************************************************************)
(* The unattended night: a session follows skills/job-pipeline/            *)
(* night-apply.md and calls the night command, which takes a lock, tells   *)
(* after each round what comes next, and closes the night with one line in *)
(* apply_runs.jsonl.  Each file is read, judged and written in steps of    *)
(* its own, and a session may die at any of them.                          *)
(***************************************************************************)
EXTENDS Integers, FiniteSets

CONSTANTS
    Nights,        \* sessions, each following the runbook once
    NoNight,       \* no lock
    Rows,          \* jobs
    Target,        \* applications a night aims at
    MinBatch,      \* APPLY_MIN_BATCH
    MaxLength,     \* --max-hours, in ticks of the clock
    Grace,         \* STALE_GRACE_MS, in ticks
    MaxClock,      \* bound: how long the model runs
    MaxDeaths      \* bound: sessions that die

ASSUME ConstantsAssumption ==
    /\ NoNight \notin Nights
    /\ IsFiniteSet(Rows)
    /\ Target \in Nat /\ MinBatch \in Nat
    /\ MaxLength \in Nat \ {0} /\ Grace \in Nat
    /\ MaxClock \in Nat /\ MaxDeaths \in Nat

VARIABLES
    clock,
    lock,          \* night.lock: the night it belongs to
    started,       \* nights whose started_at is in the past
    deadline,      \* deadline, of the lock and of the session
    log,           \* apply_runs.jsonl: night -> its lines
    stage,         \* where a row is: "new", "inbox", "ready" (queueable) or "gone"
    ctx,           \* prepare_context.json
    good,          \* rows whose result file is valid
    jobs,          \* apply_context.json
    seen,          \* night -> rows listed in an apply_pre file since its start
    sent,          \* night -> rows submitted in an apply_results file since its start
    \* the sessions
    pc,            \* where the session stands
    took,          \* sessions past Step 1: their start exited 0
    closing,       \* night -> the lock it read
    logRead,       \* night -> the lines appendNightRun read
    collected,     \* night -> rows in its results file
    noPrepare,     \* nights that prepare no more
    \* history
    disturbed,     \* two starts overlapped, or a session outlived its deadline and the grace
    torn,          \* deaths between the line in the log and the lock's removal
    deaths         \* sessions that died

shared  == <<lock, started, deadline, log>>
rowVars == <<stage, ctx, good, jobs, seen, sent>>
local   == <<pc, took, closing, logRead, collected, noPrepare>>
history == <<disturbed, torn, deaths>>
vars == <<clock, shared, rowVars, local, history>>

Starting == {"readLog", "writeLog", "dropLock", "takeLock"}

Closing == {"readLog", "writeLog", "dropLock"}

Ended == {"new", "refused", "over", "dead"}

TypeOK ==
    /\ clock \in 0..MaxClock
    /\ lock \in Nights \cup {NoNight}
    /\ started \in SUBSET Nights
    /\ deadline \in [Nights -> 0..MaxClock]
    /\ log \in [Nights -> Nat]
    /\ stage \in [Rows -> {"new", "inbox", "ready", "gone"}]
    /\ ctx \in [batch: SUBSET Rows, exhausted: BOOLEAN, since: SUBSET Nights]
    /\ good \in SUBSET Rows /\ jobs \in SUBSET Rows
    /\ seen \in [Nights -> SUBSET Rows] /\ sent \in [Nights -> SUBSET Rows]
    /\ pc \in [Nights -> Ended \cup Starting \cup
                 {"scan", "check", "prepare", "workers", "collect", "commit", "pre",
                  "submit", "finish"}]
    /\ took \in SUBSET Nights
    /\ closing \in [Nights -> Nights \cup {NoNight}]
    /\ logRead \in [Nights -> [Nights -> Nat]]
    /\ collected \in [Nights -> SUBSET Rows]
    /\ noPrepare \in SUBSET Nights
    /\ disturbed \in BOOLEAN /\ torn \in Nat /\ deaths \in Nat

NoLines == [n \in Nights |-> 0]

Init ==
    /\ clock = 0 /\ lock = NoNight /\ started = {}
    /\ deadline = [n \in Nights |-> 0]
    /\ log = NoLines
    /\ stage = [r \in Rows |-> "new"]
    /\ ctx = [batch |-> {}, exhausted |-> FALSE, since |-> {}]
    /\ good = {} /\ jobs = {}
    /\ seen = [n \in Nights |-> {}] /\ sent = [n \in Nights |-> {}]
    /\ pc = [n \in Nights |-> "new"]
    /\ took = {} /\ closing = [n \in Nights |-> NoNight]
    /\ logRead = [n \in Nights |-> NoLines]
    /\ collected = [n \in Nights |-> {}] /\ noPrepare = {}
    /\ disturbed = FALSE /\ torn = 0 /\ deaths = 0

Goto(n, step) == pc' = [pc EXCEPT ![n] = step]

-----------------------------------------------------------------------------
(* The lock *)

StaleAtGrace(n) == clock >= deadline[n] + Grace

\* A lock past its deadline and the grace belongs to a night that died.
Stale(n) == clock > deadline[n] + Grace

Alive(n) == pc[n] \notin Ended

\* A session that took the lock and is still there.
Working(n) == n \in took /\ Alive(n)

\* runStart: the time, the deadline, and what the lock file says.
RunStart(n) ==
    /\ pc[n] = "new"
    /\ \E d \in (clock + 1)..(clock + MaxLength) :
        d <= MaxClock /\ deadline' = [deadline EXCEPT ![n] = d]
    /\ started' = started \cup {n}
    /\ closing' = [closing EXCEPT ![n] = lock]
    /\ Goto(n, IF lock = NoNight THEN "takeLock"
               ELSE IF Stale(lock) THEN "readLog" ELSE "refused")
    /\ disturbed' = (disturbed \/ \E m \in Nights \ took : pc[m] \in Starting)
    /\ UNCHANGED <<clock, lock, log, rowVars, took, logRead, collected, noPrepare, torn, deaths>>

\* closeRun, appendNightRun: the log is read, pruned and written as a whole.
ReadLog(n) ==
    /\ pc[n] = "readLog"
    /\ logRead' = [logRead EXCEPT ![n] = log]
    /\ Goto(n, "writeLog")
    /\ UNCHANGED <<clock, shared, rowVars, took, closing, collected, noPrepare, history>>

WriteLogOverwriting(n) ==
    /\ pc[n] = "writeLog"
    /\ log' = [NoLines EXCEPT ![closing[n]] = 1]
    /\ logRead' = [logRead EXCEPT ![n] = NoLines]
    /\ Goto(n, "dropLock")
    /\ UNCHANGED <<clock, lock, started, deadline, rowVars, took, closing, collected, noPrepare,
                   history>>

WriteLog(n) ==
    /\ pc[n] = "writeLog"
    /\ log' = [logRead[n] EXCEPT ![closing[n]] = @ + 1]
    /\ logRead' = [logRead EXCEPT ![n] = NoLines]
    /\ Goto(n, "dropLock")
    /\ UNCHANGED <<clock, lock, started, deadline, rowVars, took, closing, collected, noPrepare,
                   history>>

DropLockLeavingIt(n) ==
    /\ pc[n] = "dropLock"
    /\ closing' = [closing EXCEPT ![n] = NoNight]
    /\ Goto(n, IF n \in took THEN "over" ELSE "takeLock")
    /\ UNCHANGED <<clock, shared, rowVars, took, logRead, collected, noPrepare, history>>

\* The lock file goes, whosever it is by now.
DropLock(n) ==
    /\ pc[n] = "dropLock"
    /\ lock' = NoNight
    /\ closing' = [closing EXCEPT ![n] = NoNight]
    /\ Goto(n, IF n \in took THEN "over" ELSE "takeLock")
    /\ UNCHANGED <<clock, started, deadline, log, rowVars, took, logRead, collected, noPrepare,
                   history>>

TakeLock(n) ==
    /\ pc[n] = "takeLock"
    /\ lock' = n
    /\ took' = took \cup {n}
    /\ Goto(n, "scan")
    /\ UNCHANGED <<clock, started, deadline, log, rowVars, closing, logRead, collected,
                   noPrepare, history>>

\* runFinish: closes the night of the lock that is there.
RunFinish(n) ==
    /\ pc[n] = "finish"
    /\ closing' = [closing EXCEPT ![n] = lock]
    /\ Goto(n, IF lock = NoNight THEN "over" ELSE "readLog")
    /\ UNCHANGED <<clock, shared, rowVars, took, logRead, collected, noPrepare, history>>

-----------------------------------------------------------------------------
(* The loop *)

Stage(s) == {r \in Rows : stage[r] = s}

Move(rows, s) == stage' = [r \in Rows |-> IF r \in rows THEN s ELSE stage[r]]

InLoop == UNCHANGED <<clock, shared, took, closing, logRead, history>>

\* scan brings rows into the Inbox, or fails and brings fewer.
Scan(n) ==
    /\ pc[n] = "scan"
    /\ \E found \in SUBSET Stage("new") : Move(found, "inbox")
    /\ Goto(n, "check")
    /\ UNCHANGED <<ctx, good, jobs, seen, sent, collected, noPrepare>> /\ InLoop

\* What progress reads from the files, for the night of the lock.
Fresh(l) == Stage("ready") \ seen[l]

Need(l) == IF Cardinality(sent[l]) >= Target THEN 0 ELSE Target - Cardinality(sent[l])

InboxExhausted(l) == l \in ctx.since /\ (ctx.exhausted \/ ctx.batch = {})

WorthApplying(l) ==
    LET fresh == Cardinality(Fresh(l))
    IN  fresh >= MinBatch \/ fresh >= Need(l)

DecideNextStepWithoutDeadline(l) ==
    IF Need(l) = 0 THEN "stop"
    ELSE IF WorthApplying(l) THEN "apply"
    ELSE IF ~InboxExhausted(l) THEN "prepare"
    ELSE IF Fresh(l) # {} THEN "apply"
    ELSE "stop"

\* decideNextStep: deadline, target, enough to apply, prepare, the rest, stop.
DecideNextStep(l) ==
    IF clock >= deadline[l] \/ Need(l) = 0 THEN "stop"
    ELSE IF WorthApplying(l) THEN "apply"
    ELSE IF ~InboxExhausted(l) THEN "prepare"
    ELSE IF Fresh(l) # {} THEN "apply"
    ELSE "stop"

\* runCheck, and what the session makes of it: it also stops when its budget is
\* used up, and finishes when the check fails.
Check(n) ==
    /\ pc[n] = "check"
    /\ \/ Goto(n, "finish")
       \/ /\ lock # NoNight
          /\ LET step == DecideNextStep(lock)
             IN  Goto(n, IF step = "apply" THEN "pre"
                         ELSE IF step = "prepare" /\ n \notin noPrepare THEN "prepare"
                         ELSE IF step = "prepare" /\ Fresh(lock) # {} THEN "pre"
                         ELSE "finish")
    /\ UNCHANGED <<rowVars, collected, noPrepare>> /\ InLoop

\* prepare --phase pre: rows are filtered out, some of the rest become the batch.
PreparePre(n) ==
    /\ pc[n] = "prepare"
    /\ \E dropped \in SUBSET Stage("inbox") :
        \E batch \in SUBSET (Stage("inbox") \ dropped) :
            /\ Move(dropped, "gone")
            /\ ctx' = [batch |-> batch, since |-> started,
                       exhausted |-> Stage("inbox") \ dropped \subseteq batch]
            /\ Goto(n, IF batch = {} THEN "check" ELSE "workers")
    /\ UNCHANGED <<good, jobs, seen, sent, collected, noPrepare>> /\ InLoop

PreparePreFailsUnnoticed(n) ==
    /\ pc[n] = "prepare"
    /\ Goto(n, "workers")
    /\ UNCHANGED <<rowVars, collected, noPrepare>> /\ InLoop

\* It failed twice: no more prepare rounds tonight.
PreparePreFails(n) ==
    /\ pc[n] = "prepare"
    /\ noPrepare' = noPrepare \cup {n}
    /\ Goto(n, "check")
    /\ UNCHANGED <<rowVars, collected>> /\ InLoop

\* runPrepareFanout prunes the results of other rows; the row workers then
\* judge those of the batch that have none, well or badly.
JudgeRows(n) ==
    /\ pc[n] = "workers"
    /\ \E judged \in SUBSET ctx.batch : good' = (good \cap ctx.batch) \cup judged
    /\ Goto(n, "collect")
    /\ UNCHANGED <<stage, ctx, jobs, seen, sent, collected, noPrepare>> /\ InLoop

\* runPrepareCollect: the valid results of the batch; the others stay in Inbox.
PrepareCollect(n) ==
    /\ pc[n] = "collect"
    /\ collected' = [collected EXCEPT ![n] = good \cap ctx.batch]
    /\ Goto(n, IF good \cap ctx.batch = {} THEN "check" ELSE "commit")
    /\ UNCHANGED <<rowVars, noPrepare>> /\ InLoop

\* prepare --phase commit: Strong and Medium rows can be applied to, Weak ones
\* are left to the human, failed ones go back to Inbox.
PrepareCommit(n) ==
    /\ pc[n] = "commit"
    /\ \E strong \in SUBSET collected[n] : \E weak \in SUBSET (collected[n] \ strong) :
           stage' = [r \in Rows |-> IF r \in strong THEN "ready"
                                    ELSE IF r \in weak THEN "gone" ELSE stage[r]]
    /\ collected' = [collected EXCEPT ![n] = {}]
    /\ Goto(n, "check")
    /\ UNCHANGED <<ctx, good, jobs, seen, sent, noPrepare>> /\ InLoop

CommitFails(n) ==
    /\ pc[n] = "commit"
    /\ noPrepare' = noPrepare \cup {n}
    /\ collected' = [collected EXCEPT ![n] = {}]
    /\ Goto(n, "check")
    /\ UNCHANGED rowVars /\ InLoop

ApplyPreListingJobs(n) ==
    /\ pc[n] = "pre"
    /\ \E read \in SUBSET Stage("ready") : \E manual \in SUBSET (Stage("ready") \ read) :
       \E closed \in SUBSET (Stage("ready") \ (read \cup manual)) :
        /\ Move(manual \cup closed, "gone")
        /\ jobs' = read
        /\ seen' = [m \in Nights |-> IF m \in started THEN seen[m] \cup read \cup manual
                                     ELSE seen[m]]
    /\ Goto(n, "submit")
    /\ UNCHANGED <<ctx, good, sent, collected, noPrepare>> /\ InLoop

\* apply --phase pre: each row of the queue is read, left to the human, skipped
\* or closed; the apply_pre file lists all but the closed ones.
ApplyPre(n) ==
    /\ pc[n] = "pre"
    /\ \E read \in SUBSET Stage("ready") : \E manual \in SUBSET (Stage("ready") \ read) :
       \E closed \in SUBSET (Stage("ready") \ (read \cup manual)) :
        /\ Move(manual \cup closed, "gone")
        /\ jobs' = read
        /\ seen' = [m \in Nights |-> IF m \in started
                                     THEN seen[m] \cup (Stage("ready") \ closed) ELSE seen[m]]
    /\ Goto(n, "submit")
    /\ UNCHANGED <<ctx, good, sent, collected, noPrepare>> /\ InLoop

ApplyPreFails(n) ==
    /\ pc[n] = "pre"
    /\ Goto(n, "finish")
    /\ UNCHANGED <<rowVars, collected, noPrepare>> /\ InLoop

\* apply --phase submit: rows are sent, left to the human, or skipped and, once
\* the session's deadline has passed, put off.
ApplySubmit(n) ==
    /\ pc[n] = "submit"
    /\ \E new \in SUBSET (jobs \cap Stage("ready")) :
       \E failed \in SUBSET ((jobs \cap Stage("ready")) \ new) :
        /\ clock >= deadline[n] => new = {} /\ failed = {}
        /\ Move(new \cup failed, "gone")
        /\ sent' = [m \in Nights |-> IF m \in started THEN sent[m] \cup new ELSE sent[m]]
    /\ \E next \in {"check", "finish"} : Goto(n, next)
    /\ UNCHANGED <<ctx, good, jobs, seen, collected, noPrepare>> /\ InLoop

-----------------------------------------------------------------------------
\* A session dies; of a submit run it was in, some rows went out uncounted.
Die(n) ==
    /\ Alive(n)
    /\ deaths < MaxDeaths
    /\ deaths' = deaths + 1
    /\ torn' = IF pc[n] = "dropLock" THEN torn + 1 ELSE torn
    /\ \E lost \in SUBSET (jobs \cap Stage("ready")) :
        /\ pc[n] # "submit" => lost = {}
        /\ Move(lost, "gone")
    /\ Goto(n, "dead")
    /\ UNCHANGED <<clock, shared, ctx, good, jobs, seen, sent, took, closing, logRead, collected,
                   noPrepare, disturbed>>

Tick ==
    /\ clock < MaxClock
    /\ clock' = clock + 1
    /\ disturbed' = (disturbed \/ \E n \in Nights : Alive(n) /\ clock' > deadline[n] + Grace)
    /\ UNCHANGED <<shared, rowVars, local, torn, deaths>>

Start(n) == RunStart(n) \/ ReadLog(n) \/ WriteLog(n) \/ DropLock(n) \/ TakeLock(n)

Round(n) ==
    \/ PreparePre(n) \/ PreparePreFails(n) \/ JudgeRows(n) \/ PrepareCollect(n)
    \/ PrepareCommit(n) \/ CommitFails(n)
    \/ ApplyPre(n) \/ ApplyPreFails(n) \/ ApplySubmit(n)

Session(n) == Start(n) \/ Scan(n) \/ Check(n) \/ Round(n) \/ RunFinish(n)

Next == Tick \/ \E n \in Nights : Session(n) \/ Die(n)

Spec == Init /\ [][Next]_vars

\* Time passes, and a session that is not dead takes its next step.
FairSpec == Spec /\ WF_vars(Tick) /\ \A n \in Nights : WF_vars(Session(n))

-----------------------------------------------------------------------------
(* Properties *)

\* At any time one session works on the profile, unless two starts overlapped
\* or a session ran on after its deadline and the grace.
OneNight ==
    ~disturbed => \A m, n \in Nights : Working(m) /\ Working(n) => m = n

\* A night that took the lock has its line in the log or still has the lock,
\* so that the next start will log it: no death loses it.
NoNightLost ==
    ~disturbed => \A n \in took : log[n] > 0 \/ lock = n

\* A night has one line, and one more only for a death between the line and the
\* removal of the lock.
LoggedOnce ==
    ~disturbed => \A n \in Nights : log[n] <= 1 + torn

\* A session commits only rows that are still in Inbox, whatever results and
\* contexts earlier rounds and dead nights left behind.
CommitsInboxRows ==
    ~disturbed => \A n \in Nights :
        pc[n] = "commit" => \A r \in collected[n] : stage[r] = "inbox"

\* "never loops on rows an apply pre already skipped": after an apply round read
\* the forms, no row of the queue is fresh for this night.
PreLeavesNothingFresh ==
    [][\A n \in Nights : pc[n] = "pre" /\ pc'[n] = "submit" => Fresh(n)' = {}]_vars

\* A session that started ends, by its own decision or by dying: the deadline
\* ends the loop when nothing else does.
NightEnds == \A n \in Nights : n \in took ~> pc[n] \in {"over", "dead"}
=============================================================================
