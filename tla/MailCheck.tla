----------------------------- MODULE MailCheck ------------------------------
(***************************************************************************)
(* The check command: employers' mails are fetched, classified, bound to a *)
(* job, turned into a status and a comment in Notion, and remembered in    *)
(* processed_messages.json.  It runs in one process (--auto, from cron) or *)
(* in two (--prepare, then --apply, with the mails read by an assistant in *)
(* between).  Each Notion call is an await; the files are written one      *)
(* after the other at the end; the process may die between any two.        *)
(***************************************************************************)
EXTENDS Mailroom

CONSTANTS
    NoMail,        \* no mail
    MaxDays,       \* MAX_DAYS, in ticks of the clock
    MaxResults,    \* the most mails a query answers with
    MaxClock,      \* bound: how long the model runs
    MaxMishaps,    \* bound: runs cut short, reprocessings and stale contexts
    Modes,         \* the ways of checking the operator uses
    Moves          \* statuses a human sets in Notion

ActiveStatuses == {"To Apply", "Applied", "Interview", "Offer"}

Statuses == ActiveStatuses \cup {"Inbox", "Rejected", "Closed", "Archived", "No Response"}

\* The kinds that move a job, and where to.
NewStatus == [rejection |-> "Rejected", closed |-> "Closed", invite |-> "Interview"]

Moving(m) == Kind[m] \in DOMAIN NewStatus

ASSUME ConstantsAssumption ==
    /\ NoMail \notin Mails
    /\ MaxResults \in Nat
    /\ MaxDays \in Nat /\ MaxClock \in Nat /\ MaxMishaps \in Nat
    /\ Modes \subseteq {"cursor", "since", "reprocess", "two_phase"}
    /\ Moves \subseteq Statuses

VARIABLES
    clock,         \* time, also the stamp of the latest mail
    arrived,       \* when a mail arrived, 0: not yet
    status,        \* Status column of applications.tsv
    notion,        \* Status of the Notion page
    inbox,         \* lead mails that have their row in applications.tsv
    contacted,     \* lead mails noted in recruiter_leads.md
    processed,     \* processed_messages.json: ids
    lastCheck,     \* processed_messages.json: last_check
    \* the hand-over between the two phases
    context,       \* check_context.json
    raw,           \* raw_emails.json
    \* the running check
    phase,         \* "off", "fetch", "act", "save", "log" or "finish"
    now,           \* the run's time
    epoch,         \* where the run's window begins
    reprocess,     \* --reprocess-since
    savedIds,      \* processed ids as loaded at the start
    active,        \* the jobs of activeJobsMap
    batch,         \* newEmails
    todo,          \* mails with an action not yet tried
    half,          \* the mail whose status is set and whose comment is not
    bound,         \* mail -> the job it was matched to
    fresh,         \* newInboxRows
    contacts,      \* recruiterLeads
    pushed,        \* appliedStatusByAppKey
    \* history
    comments,      \* comments posted for a mail
    excused,       \* mails with nothing to do for, or whose Notion call failed
    looked,        \* mails a finished run looked at, or that its window or
                   \* queries left out
    cut,           \* mails a query found and left out, past its limit
    late,          \* mails that came between the reading and the apply phase
    readAt,        \* when raw was read
    handedOver,    \* raw was read for context and no run has used them yet
    apart,         \* jobs whose page something else moved, until the next sync
    mishaps        \* runs cut short, and runs that may repeat a comment

runVars   == <<now, epoch, reprocess, savedIds, active, batch, todo, half, bound,
               fresh, contacts, pushed>>
fileVars  == <<status, inbox, contacted, processed, lastCheck>>
handOver  == <<context, raw, readAt>>
mailVars  == <<clock, arrived>>
history   == <<comments, excused, looked, cut, late, handedOver, apart, mishaps>>
vars == <<mailVars, notion, fileVars, handOver, phase, runVars, history>>

NoContext == [epoch |-> 0, ids |-> {}, active |-> {}, made |-> FALSE]

TypeOK ==
    /\ clock \in 0..MaxClock
    /\ arrived \in [Mails -> 0..MaxClock]
    /\ status \in [Jobs -> Statuses]
    /\ notion \in [Jobs -> Statuses]
    /\ inbox \in SUBSET Mails /\ contacted \in SUBSET Mails
    /\ processed \in SUBSET Mails
    /\ lastCheck \in 0..MaxClock
    /\ context \in [epoch: Int, ids: SUBSET Mails, active: SUBSET Jobs, made: BOOLEAN]
    /\ raw \in SUBSET Mails /\ readAt \in 0..MaxClock
    /\ phase \in {"off", "fetch", "act", "save", "log", "finish"}
    /\ now \in 0..MaxClock
    /\ epoch \in Int
    /\ reprocess \in BOOLEAN
    /\ savedIds \in SUBSET Mails
    /\ active \in SUBSET Jobs
    /\ batch \in SUBSET Mails /\ todo \in SUBSET Mails
    /\ half \in Mails \cup {NoMail}
    /\ bound \in [Mails -> Jobs \cup {NoJob}]
    /\ fresh \in SUBSET Mails /\ contacts \in SUBSET Mails
    /\ pushed \in [Jobs -> Statuses \cup {"none"}]
    /\ comments \in [Mails -> Nat]
    /\ excused \in SUBSET Mails /\ looked \in SUBSET Mails
    /\ cut \in SUBSET Mails /\ late \in SUBSET Mails
    /\ handedOver \in {"unread", "ready", "used"}
    /\ apart \in SUBSET Jobs
    /\ mishaps \in Nat

Idle ==
    /\ now = 0 /\ epoch = 0 /\ reprocess = FALSE
    /\ savedIds = {} /\ active = {} /\ batch = {} /\ todo = {} /\ half = NoMail
    /\ bound = [m \in Mails |-> NoJob]
    /\ fresh = {} /\ contacts = {}
    /\ pushed = [j \in Jobs |-> "none"]

Init ==
    /\ clock = 0 /\ arrived = [m \in Mails |-> 0]
    /\ status = [j \in Jobs |-> "Applied"] /\ notion = [j \in Jobs |-> "Applied"]
    /\ inbox = {} /\ contacted = {} /\ processed = {} /\ lastCheck = 0
    /\ context = NoContext /\ raw = {} /\ readAt = 0
    /\ phase = "off" /\ Idle
    /\ comments = [m \in Mails |-> 0]
    /\ excused = {} /\ looked = {} /\ cut = {} /\ late = {}
    /\ handedOver = "used" /\ apart = {} /\ mishaps = 0

-----------------------------------------------------------------------------
(* Reading *)

ActiveJobs == {j \in Jobs : status[j] \in ActiveStatuses}

\* computeCursorEpoch: the cursor or --since, never more than MaxDays back.
CursorEpoch(cursor, time) == IF cursor > time - MaxDays THEN cursor ELSE time - MaxDays

InWindow(from) == {m \in Mails : arrived[m] # 0 /\ arrived[m] > from}

\* listUidsForQuery: the first MaxResults of a query's hits, the oldest ones.
First(hits) ==
    {m \in hits : Cardinality({n \in hits : arrived[n] < arrived[m]}) < MaxResults}

\* processPipeline: the mails that ask for a Notion call on the job they were
\* bound to.  --reprocess-since drops the actions that only comment.
Actionable(mails, b, again) ==
    {m \in mails : b[m] # NoJob /\ (Moving(m) \/ (Kind[m] = "info" /\ ~again))}

\* processEmailsLoop.
PlanActions(mails, jobs, again) ==
    /\ batch' = mails
    /\ epoch' = 0 /\ savedIds' = {} /\ active' = {}
    /\ bound' = Bindings(mails, jobs)
    /\ todo' = Actionable(mails, bound', again)
    /\ fresh' \in LeadRows(mails, inbox)
    /\ contacts' = Contacts(mails)
    /\ excused' = excused \cup (mails \ (todo' \cup fresh' \cup contacts'))

-----------------------------------------------------------------------------
(* check --auto *)

StartAuto ==
    /\ phase = "off"
    /\ \E mode \in Modes \ {"two_phase"} :
        /\ mode = "cursor" => epoch' = CursorEpoch(lastCheck, clock)
        /\ mode # "cursor" =>
            \E since \in 0..clock : epoch' = CursorEpoch(since, clock)
        /\ reprocess' = (mode = "reprocess")
        /\ mode = "reprocess" => mishaps < MaxMishaps
        /\ mishaps' = IF mode = "reprocess" THEN mishaps + 1 ELSE mishaps
        /\ looked' = IF mode = "cursor" THEN looked
                   ELSE looked \cup (InWindow(lastCheck) \ InWindow(epoch'))
    /\ phase' = "fetch"
    /\ now' = clock
    /\ savedIds' = processed
    /\ active' = ActiveJobs
    /\ UNCHANGED <<mailVars, notion, fileVars, handOver, batch, todo, half, bound, fresh,
                   contacts, pushed, comments, excused, cut, late, handedOver, apart>>

SaveIdsLater(ids, time) ==
    /\ processed' = {m \in ids : arrived[m] >= time - MaxDays}
    /\ lastCheck' = clock

\* saveProcessed, with the ids it starts from; old ids are pruned.
SaveIds(ids, time) ==
    /\ processed' = {m \in ids : arrived[m] >= time - MaxDays}
    /\ lastCheck' = time

EndRun ==
    /\ phase' = "off"
    /\ now' = 0 /\ epoch' = 0 /\ reprocess' = FALSE
    /\ savedIds' = {} /\ active' = {} /\ batch' = {} /\ todo' = {} /\ half' = NoMail
    /\ bound' = [m \in Mails |-> NoJob]
    /\ fresh' = {} /\ contacts' = {}
    /\ pushed' = [j \in Jobs |-> "none"]

\* The mailboxes have answered, each query with the mails up to its limit; with
\* nothing new only the cursor moves.
FetchMails ==
    /\ phase = "fetch"
    /\ \E found \in SUBSET InWindow(epoch) :
        /\ LET there == {m \in InWindow(epoch) : arrived[m] <= now}
           IN  /\ \A query \in Queries(active) : First(there \cap query) \subseteq found
               /\ looked' = looked \cup (there \ (found \cup Queried(active)))
               /\ cut' = cut \cup ((there \cap Queried(active)) \ found)
        /\ LET new == IF reprocess THEN found ELSE found \ savedIds
           IN  IF new = {}
               THEN /\ SaveIds(savedIds, now)
                    /\ EndRun
                    /\ handedOver' = "used"
                    /\ UNCHANGED excused
               ELSE /\ PlanActions(new, active, reprocess)
                    /\ phase' = "act"
                    /\ UNCHANGED <<processed, lastCheck, now, reprocess, half, pushed,
                                   handedOver>>
    /\ UNCHANGED <<mailVars, notion, status, inbox, contacted, handOver,
                   comments, late, apart, mishaps>>

-----------------------------------------------------------------------------
(* check --prepare, and check --apply *)

PrepareBumping ==
    /\ phase = "off"
    /\ "two_phase" \in Modes
    /\ context' = [epoch |-> CursorEpoch(lastCheck, clock), ids |-> processed,
                   active |-> ActiveJobs, made |-> TRUE]
    /\ handedOver' = "unread"
    /\ lastCheck' = clock
    /\ UNCHANGED <<mailVars, notion, status, inbox, contacted, processed, raw, readAt, phase,
                   runVars, comments, excused, looked, cut, late, apart, mishaps>>

Prepare ==
    /\ phase = "off"
    /\ "two_phase" \in Modes
    /\ context' = [epoch |-> CursorEpoch(lastCheck, clock), ids |-> processed,
                   active |-> ActiveJobs, made |-> TRUE]
    /\ handedOver' = "unread"
    /\ UNCHANGED <<mailVars, notion, fileVars, raw, readAt, phase, runVars,
                   comments, excused, looked, cut, late, apart, mishaps>>

\* The assistant runs the context's queries, a page of each, and writes
\* raw_emails.json; of a longer answer any mails may be left out.
ReadMails ==
    /\ phase = "off"
    /\ context.made
    /\ \E found \in SUBSET InWindow(context.epoch) :
        /\ \A query \in Queries(context.active) :
              LET hits == InWindow(context.epoch) \cap query
              IN  Cardinality(hits) <= MaxResults => hits \subseteq found
        /\ raw' = found \ context.ids
        /\ looked' = looked \cup (InWindow(context.epoch) \ (found \cup Queried(context.active)))
        /\ cut' = cut \cup ((InWindow(context.epoch) \cap Queried(context.active)) \ found)
    /\ readAt' = clock
    /\ handedOver' = IF handedOver = "unread" THEN "ready" ELSE handedOver
    /\ UNCHANGED <<mailVars, notion, fileVars, context, phase, runVars, comments, excused,
                   late, apart, mishaps>>

StartApply ==
    /\ phase = "off"
    /\ context.made
    /\ handedOver # "ready" => mishaps < MaxMishaps
    /\ mishaps' = IF handedOver = "ready" THEN mishaps ELSE mishaps + 1
    /\ late' = late \cup InWindow(readAt)
    /\ IF raw \ context.ids = {}
       THEN /\ SaveIds(processed, clock)
            /\ handedOver' = "used"
            /\ UNCHANGED <<phase, runVars, excused>>
       ELSE /\ PlanActions(raw \ context.ids, context.active, FALSE)
            /\ phase' = "act"
            /\ now' = clock
            /\ UNCHANGED <<processed, lastCheck, reprocess, half, pushed, handedOver>>
    /\ UNCHANGED <<mailVars, notion, status, inbox, contacted, handOver,
                   comments, looked, cut, apart>>

-----------------------------------------------------------------------------
(* applyMutations *)

Acting == UNCHANGED <<mailVars, fileVars, handOver, phase, now, epoch, reprocess, savedIds,
                      active, batch, bound, fresh, contacts,
                      looked, cut, late, handedOver, mishaps>>

Give(m) == todo' = todo \ {m} /\ half' = NoMail

\* updatePageStatus: the page moves; the comment is the next call.
UpdateStatus(m) ==
    /\ phase = "act" /\ half = NoMail
    /\ m \in todo /\ Moving(m)
    /\ notion' = [notion EXCEPT ![bound[m]] = NewStatus[Kind[m]]]
    /\ half' = m
    /\ UNCHANGED <<todo, pushed, comments, excused, apart>> /\ Acting

AddCommentFirstWins(m) ==
    /\ phase = "act"
    /\ half = m \/ (half = NoMail /\ m \in todo /\ ~Moving(m))
    /\ comments' = [comments EXCEPT ![m] = @ + 1]
    /\ pushed' = IF Moving(m) /\ pushed[bound[m]] = "none"
                 THEN [pushed EXCEPT ![bound[m]] = NewStatus[Kind[m]]] ELSE pushed
    /\ Give(m)
    /\ UNCHANGED <<notion, excused, apart>> /\ Acting

\* addPageComment: only now is the action done and its status taken over.
AddComment(m) ==
    /\ phase = "act"
    /\ half = m \/ (half = NoMail /\ m \in todo /\ ~Moving(m))
    /\ comments' = [comments EXCEPT ![m] = @ + 1]
    /\ pushed' = IF Moving(m) THEN [pushed EXCEPT ![bound[m]] = NewStatus[Kind[m]]]
                              ELSE pushed
    /\ Give(m)
    /\ UNCHANGED <<notion, excused, apart>> /\ Acting

\* Either call throws: counted, and on to the next action.
NotionError(m) ==
    /\ phase = "act"
    /\ half = m \/ (half = NoMail /\ m \in todo)
    /\ excused' = excused \cup {m}
    /\ apart' = IF half = m THEN apart \cup {bound[m]} ELSE apart
    /\ Give(m)
    /\ UNCHANGED <<notion, pushed, comments>> /\ Acting

\* Actions planned and no Notion token: the run ends before it did anything.
RefuseWithoutToken ==
    /\ phase = "act" /\ half = NoMail
    /\ todo # {}
    /\ todo = Actionable(batch, bound, reprocess)
    /\ mishaps < MaxMishaps
    /\ mishaps' = mishaps + 1
    /\ EndRun
    /\ UNCHANGED <<mailVars, notion, fileVars, handOver, comments, excused, looked, cut, late,
                   handedOver, apart>>

SaveTsvTooEarly ==
    /\ phase = "act" /\ half = NoMail
    /\ status' = [j \in Jobs |-> IF pushed[j] = "none" THEN status[j] ELSE pushed[j]]
    /\ inbox' = inbox \cup fresh
    /\ phase' = "log"
    /\ UNCHANGED <<mailVars, notion, contacted, processed, lastCheck, handOver, runVars, history>>

SaveTsv ==
    /\ phase = "act" /\ todo = {}
    /\ status' = [j \in Jobs |-> IF pushed[j] = "none" THEN status[j] ELSE pushed[j]]
    /\ inbox' = inbox \cup fresh
    /\ phase' = "log"
    /\ UNCHANGED <<mailVars, notion, contacted, processed, lastCheck, handOver, runVars, history>>

WriteLogs ==
    /\ phase = "log"
    /\ contacted' = contacted \cup contacts
    /\ phase' = "finish"
    /\ UNCHANGED <<mailVars, notion, status, inbox, processed, lastCheck, handOver, runVars,
                   history>>

SaveProcessedCursorOnly ==
    /\ phase = "finish"
    /\ SaveIds(processed, now)
    /\ looked' = looked \cup batch
    /\ handedOver' = "used"
    /\ EndRun
    /\ UNCHANGED <<mailVars, notion, status, inbox, contacted, handOver,
                   comments, excused, cut, late, apart, mishaps>>

\* The ids of the whole batch, whatever became of each mail's action.
SaveProcessed ==
    /\ phase = "finish"
    /\ SaveIds(processed \cup batch, now)
    /\ looked' = looked \cup batch
    /\ handedOver' = "used"
    /\ EndRun
    /\ UNCHANGED <<mailVars, notion, status, inbox, contacted, handOver,
                   comments, excused, cut, late, apart, mishaps>>

\* The run has set the page's status and its row does not say so yet.
Moved(j) == pushed[j] # "none" \/ (half # NoMail /\ bound[half] = j)

\* The process dies, or a mailbox, a file or the disk throws.
Crash ==
    /\ phase # "off"
    /\ mishaps < MaxMishaps
    /\ mishaps' = mishaps + 1
    /\ apart' = IF phase = "act" THEN apart \cup {j \in Jobs : Moved(j)} ELSE apart
    /\ handedOver' = "used"
    /\ EndRun
    /\ UNCHANGED <<mailVars, notion, fileVars, handOver,
                   comments, excused, looked, cut, late>>

-----------------------------------------------------------------------------
(* The world around *)

Tick ==
    /\ clock < MaxClock
    /\ clock' = clock + 1
    /\ UNCHANGED <<arrived, notion, fileVars, handOver, phase, runVars, history>>

Arrive(m) ==
    /\ clock < MaxClock
    /\ arrived[m] = 0
    /\ clock' = clock + 1
    /\ arrived' = [arrived EXCEPT ![m] = clock + 1]
    /\ UNCHANGED <<notion, fileVars, handOver, phase, runVars, history>>

EditNotion(j, s) ==
    /\ notion[j] # s
    /\ notion' = [notion EXCEPT ![j] = s]
    /\ apart' = apart \cup {j}
    /\ UNCHANGED <<mailVars, fileVars, handOver, phase, runVars, comments, excused, looked,
                   cut, late, handedOver, mishaps>>

\* The auto-sync before a command: Notion's status wins.
Sync ==
    /\ phase = "off"
    /\ status' = notion
    /\ apart' = {}
    /\ UNCHANGED <<mailVars, notion, inbox, contacted, processed, lastCheck, handOver, phase,
                   runVars, comments, excused, looked, cut, late, handedOver, mishaps>>

-----------------------------------------------------------------------------
CallNotion(m) == UpdateStatus(m) \/ AddComment(m) \/ NotionError(m)

Next ==
    \/ StartAuto \/ FetchMails
    \/ Prepare \/ ReadMails \/ StartApply
    \/ RefuseWithoutToken \/ SaveTsv \/ WriteLogs \/ SaveProcessed \/ Crash
    \/ Tick \/ Sync
    \/ \E m \in Mails : CallNotion(m) \/ Arrive(m)
    \/ \E j \in Jobs, s \in Moves : EditNotion(j, s)

Spec == Init /\ [][Next]_vars

\* cron starts a check every day, and a started one goes on: Notion and IMAP
\* answer or throw, file writes return.
FairSpec ==
    /\ Spec
    /\ WF_vars(StartAuto) /\ WF_vars(FetchMails)
    /\ \A m \in Mails : WF_vars(CallNotion(m))
    /\ WF_vars(SaveTsv) /\ WF_vars(WriteLogs) /\ WF_vars(SaveProcessed)

-----------------------------------------------------------------------------
(* Properties *)

\* A mail is remembered as processed only after it was dealt with: its comment
\* is posted, its Notion call failed, its lead is on file, or there was nothing
\* to do -- wherever a run died.
ProcessedWasHandled ==
    \A m \in processed : comments[m] > 0 \/ m \in excused \cup inbox \cup contacted

\* No mail is commented on more often than once and once more for each crash,
\* each reprocessing and each apply phase on a context it does not belong to.
CommentsBounded == \A m \in Mails : comments[m] <= 1 + mishaps

\* The cursor never passes a mail that a run should have seen: what came before
\* last_check was looked at, unless no query finds it, the operator's own
\* window excluded it, it came after the last reading before an apply phase, it
\* is too old, or every query that finds it had older hits up to its limit: the
\* last is a loss the code does not notice.
NoMailSkipped ==
    \A m \in Mails : arrived[m] # 0 /\ arrived[m] <= lastCheck
        => m \in looked \cup cut \cup late \/ arrived[m] <= lastCheck - MaxDays

\* Between runs a row has its page's status, unless a human moved the page, or
\* a run died or could not comment after it had moved the page.
LedgerAgrees == phase = "off" => \A j \in Jobs \ apart : status[j] = notion[j]

\* Every mail is looked at in the end, or was past the limit of a query that ran,
\* or is too old, with crashes bounded: cron goes on.
MailsHandled ==
    \A m \in Mails : arrived[m] # 0
        ~> (m \in looked \cup cut \cup late \/ arrived[m] <= clock - MaxDays)
=============================================================================
