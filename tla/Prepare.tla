------------------------------- MODULE Prepare -------------------------------
(***************************************************************************)
(* The life of a job from the scan that found it to To Apply: prepare      *)
(* --phase pre filters the Inbox and writes prepare_context.json, workers  *)
(* judge its batch, prepare --phase commit makes letters and Notion pages  *)
(* and saves the ledger, sync pulls Notion.  A run may die between any two *)
(* writes and Notion may fail or not answer.  Commands run one at a time:  *)
(* what overlapping whole-file saves do is checked in ApplyBot.            *)
(***************************************************************************)
EXTENDS Integers, FiniteSets

CONSTANTS
    Rows,          \* jobs
    Companies,
    CompanyOf,     \* row -> its company
    Cap,           \* company -> company_cap
    BatchSize      \* --batch

ASSUME ConstantsAssumption ==
    /\ IsFiniteSet(Rows)
    /\ CompanyOf \in [Rows -> Companies]
    /\ Cap \in [Companies -> Nat]
    /\ BatchSize \in Nat \ {0}

VARIABLES
    rows,          \* applications.tsv; status "none": no row yet, "ToApply": To Apply
    ctx,           \* prepare_context.json: its batch, deferredQueue and alreadyEvaluated
    results,       \* row -> its verdict in the last results file, or "none"
    pages,         \* Notion: row -> pages that carry its key
    pc,            \* what runs: "idle", "write" (a pre) or "push" (a commit)
    draft,         \* the context a pre is about to write
    mem,           \* the ledger a commit holds in memory
    todo,          \* rows a commit has yet to push
    \* history
    lost,          \* rows whose page a run made and did not live, or did not learn, to record
    unplanned      \* rows made To Apply other than out of the batch

command == <<pc, draft, mem, todo>>
history == <<lost, unplanned>>
vars == <<rows, ctx, results, pages, command, history>>

\* Strong and Medium act alike: Good.  Parked is a Strong row the tailoring
\* loop escalated, or one with an unknown archetype.
Verdicts == {"Weak", "Good", "Parked"}

Row == [status: {"none", "Inbox", "ToApply", "Archived"}, page: BOOLEAN,
        fit: {"none", "Weak", "Good"}, docs: BOOLEAN]

Context == [batch: SUBSET Rows, queue: SUBSET Rows, carry: SUBSET Rows]

TypeOK ==
    /\ rows \in [Rows -> Row] /\ mem \in [Rows -> Row]
    /\ ctx \in Context /\ draft \in Context
    /\ results \in [Rows -> Verdicts \cup {"none"}]
    /\ pages \in [Rows -> Nat]
    /\ pc \in {"idle", "write", "push"}
    /\ todo \subseteq Rows
    /\ lost \subseteq Rows /\ unplanned \subseteq Rows

NoContext == [batch |-> {}, queue |-> {}, carry |-> {}]

NoRow == [status |-> "none", page |-> FALSE, fit |-> "none", docs |-> FALSE]

Init ==
    /\ rows = [r \in Rows |-> NoRow] /\ mem = rows
    /\ ctx = NoContext /\ draft = NoContext
    /\ results = [r \in Rows |-> "none"]
    /\ pages = [r \in Rows |-> 0]
    /\ pc = "idle" /\ todo = {}
    /\ lost = {} /\ unplanned = {}

-----------------------------------------------------------------------------
(* scan and sync *)

\* appendNew: jobs that pass the filters are Inbox rows, the others Archived.
Scan ==
    /\ pc = "idle"
    /\ \E passed \in SUBSET Rows, rejected \in SUBSET Rows :
        /\ passed \cup rejected # {} /\ passed \cap rejected = {}
        /\ \A r \in passed \cup rejected : rows[r].status = "none"
        /\ rows' = [r \in Rows |->
                     IF r \in passed THEN [NoRow EXCEPT !.status = "Inbox"]
                     ELSE IF r \in rejected THEN [NoRow EXCEPT !.status = "Archived"]
                     ELSE rows[r]]
    /\ mem' = rows'
    /\ UNCHANGED <<ctx, results, pages, pc, draft, todo, history>>

\* reconcilePull for one row: the page id and the status are Notion's.
PulledRow(r) == [r EXCEPT !.page = TRUE, !.status = "ToApply"]

\* The sync before a prepare: every page lends its row its id and status.
Sync ==
    /\ pc = "idle"
    /\ rows' = [r \in Rows |-> IF pages[r] > 0 THEN PulledRow(rows[r]) ELSE rows[r]]
    /\ rows' # rows
    /\ mem' = rows'
    /\ unplanned' = unplanned \cup {r \in Rows : rows'[r].status # rows[r].status}
    /\ UNCHANGED <<ctx, results, pages, pc, draft, todo, lost>>

-----------------------------------------------------------------------------
(* prepare --phase pre *)

Fresh(r) == rows[r].status = "Inbox" \/ (rows[r].status = "ToApply" /\ ~rows[r].page)

NotYetEvaluatedAnyway(S) == {r \in S : Fresh(r)}

\* filterAlreadyEvaluated: rows judged Weak are not judged again ...
NotYetEvaluated(S) == {r \in S : Fresh(r) /\ rows[r].fit # "Weak"}

\* ... and those Notion never got are carried over to the next commit.
Orphans(S) == {r \in S : Fresh(r) /\ rows[r].fit = "Weak" /\ ~rows[r].page}

ActiveCountsOfNone(c) == 0

\* buildActiveCounts, all within its window.
ActiveCounts(c) == Cardinality({r \in Rows : CompanyOf[r] = c /\ rows[r].status = "ToApply"})

Skipped == {"refused", "capped", "dead", "blocked"}

Alive == {"batched", "blocked"}

\* What becomes of a row: refused by a rule, over its company's cap, a dead
\* URL, blocked for what its JD says, in the batch, alive beyond the target, or
\* queued for a topup.
Fates == Skipped \cup Alive \cup {"spare", "queued"}

Having(fate, some) == {r \in DOMAIN fate : fate[r] \in some}

\* applyPrepareFilter in some order of the rows, then fillUpAliveBatch.
FilteredAndFilled(fate, counts, target) ==
    LET Passed(c) == {r \in Having(fate, Fates \ {"refused", "capped"}) : CompanyOf[r] = c}
        alive == Cardinality(Having(fate, Alive))
    IN  /\ \A c \in Companies :
            Passed(c) # {} => counts[c] + Cardinality(Passed(c)) <= Cap[c]
        /\ \A r \in Having(fate, {"capped"}) :
            counts[CompanyOf[r]] + Cardinality(Passed(CompanyOf[r])) >= Cap[CompanyOf[r]]
        /\ alive <= target
        /\ Having(fate, {"spare", "queued"}) # {} => alive = target

ArchivedRow(r) == [r EXCEPT !.status = "Archived"]

\* archiveSkippedRows, saved before the context is written.
ArchiveSkipped(fate) ==
    /\ rows' = [r \in Rows |->
                 IF r \in Having(fate, Skipped) THEN ArchivedRow(rows[r]) ELSE rows[r]]
    /\ mem' = rows'
    /\ pc' = "write"
    /\ UNCHANGED <<ctx, results, pages, todo, history>>

FreshContext(fate) ==
    [batch |-> Having(fate, {"batched"}), queue |-> Having(fate, {"queued"}),
     carry |-> Orphans(Rows)]

FreshPre ==
    /\ pc = "idle"
    /\ \E fate \in [NotYetEvaluated(Rows) -> Fates] :
        /\ FilteredAndFilled(fate, [c \in Companies |-> ActiveCounts(c)], BatchSize)
        /\ draft' = FreshContext(fate)
        /\ ArchiveSkipped(fate)

MergedContext(fate, queue) ==
    [batch |-> ctx.batch \cup Having(fate, {"batched"}), queue |-> Having(fate, {"queued"}),
     carry |-> ctx.carry \cup Orphans(queue)]

\* --mode topup: the queue is filtered again and the batch so far counts.
Topup ==
    LET queue == ctx.queue \ ctx.batch
        counts == [c \in Companies |->
                     ActiveCounts(c) + Cardinality({r \in ctx.batch : CompanyOf[r] = c})]
    IN  /\ pc = "idle"
        /\ ctx.queue # {}
        /\ \E fate \in [NotYetEvaluated(queue) -> Fates], need \in 1..Cardinality(ctx.queue) :
            /\ FilteredAndFilled(fate, counts, need)
            /\ draft' = MergedContext(fate, queue)
            /\ ArchiveSkipped(fate)

WriteContext ==
    /\ pc = "write"
    /\ ctx' = draft
    /\ draft' = NoContext
    /\ pc' = "idle"
    /\ UNCHANGED <<rows, results, pages, mem, todo, history>>

-----------------------------------------------------------------------------
(* The workers, and what they hand over *)

\* prepare-collect: the results of the batch that are there and sound.
Collected(verdict) == [r \in Rows |-> IF r \in ctx.batch THEN verdict[r] ELSE "none"]

\* prepare-fanout prunes what earlier batches left and hands out the rows
\* without a result.  Commits use the file of results, after newer contexts
\* and more than once too, until the next fan-out.
Judge ==
    /\ pc = "idle"
    /\ \E verdict \in [ctx.batch -> Verdicts \cup {"none"}] :
        /\ \A r \in ctx.batch : results[r] # "none" => verdict[r] = results[r]
        /\ results' = Collected(verdict)
    /\ UNCHANGED <<rows, ctx, pages, command, history>>

-----------------------------------------------------------------------------
(* prepare --phase commit *)

RevertedRowKeepingStatus(r) == [r EXCEPT !.page = FALSE, !.docs = FALSE]

\* revertToInbox
RevertedRow(r) == [r EXCEPT !.status = "Inbox", !.page = FALSE, !.docs = FALSE]

\* loadAlreadyEvaluatedCarryOver, as far as runCommit uses it.
CarriedOver ==
    {r \in ctx.carry : results[r] = "none" /\ ~rows[r].page /\ rows[r].status = "Inbox"}

\* A row after the per-row loop and the letters; pdf: the rows whose PDF is there.
CommittedRow(r, pdf) ==
    CASE results[r] = "Parked" -> [rows[r] EXCEPT !.fit = "Good"]
      [] results[r] = "Weak"   -> [rows[r] EXCEPT !.status = "ToApply", !.fit = "Weak"]
      [] results[r] = "Good"   -> [rows[r] EXCEPT !.status = "ToApply", !.fit = "Good",
                                                  !.docs = @ \/ r \in pdf]
      [] r \in CarriedOver     -> [rows[r] EXCEPT !.status = "ToApply", !.fit = "Weak"]
      [] OTHER                 -> rows[r]

\* The rows the commit writes a cover letter for.
LettersTried == {r \in Rows : results[r] = "Good"}

PageWanted ==
    {r \in Rows : (results[r] \in {"Weak", "Good"} \/ r \in CarriedOver) /\ ~rows[r].page}

\* Without a token, a database or an answer to the first call every row to
\* push is reverted at once.
Connected(committed, notionUp) ==
    [r \in Rows |-> IF r \in PageWanted /\ ~notionUp THEN RevertedRow(committed[r])
                    ELSE committed[r]]

\* runCommit up to the pushes.
StartCommit ==
    /\ pc = "idle"
    /\ \E r \in Rows : results[r] # "none"
    /\ \E pdf \in SUBSET LettersTried, notionUp \in BOOLEAN :
        /\ mem' = Connected([r \in Rows |-> CommittedRow(r, pdf)], notionUp)
        /\ todo' = IF notionUp THEN PageWanted ELSE {}
    /\ pc' = "push"
    /\ UNCHANGED <<rows, ctx, results, pages, draft, history>>

Settled(r, row) ==
    /\ mem' = [mem EXCEPT ![r] = row]
    /\ todo' = todo \ {r}
    /\ UNCHANGED <<rows, ctx, results, pc, draft, unplanned>>

LetterReadyAlways(r) == TRUE

\* The Cover Letter field must name a file that exists.
LetterReady(r) == mem[r].fit = "Good" => mem[r].docs

KnownToNotionNever(r) == FALSE

\* findExistingJobPage
KnownToNotion(r) == pages[r] > 0

\* The row is not pushed, or Notion refuses.
FailToPush(r) ==
    /\ pc = "push" /\ r \in todo
    /\ Settled(r, RevertedRow(mem[r]))
    /\ UNCHANGED <<pages, lost>>

\* pushJobPage: the page that carries the key, or else a new one.
PushJobPage(r) ==
    /\ pc = "push" /\ r \in todo
    /\ LetterReady(r)
    /\ pages' = [pages EXCEPT ![r] = IF KnownToNotion(r) THEN @ ELSE @ + 1]
    /\ Settled(r, [mem[r] EXCEPT !.page = TRUE])
    /\ UNCHANGED lost

\* The page is made, its answer is lost and the row is reverted.
PushUnanswered(r) ==
    /\ pc = "push" /\ r \in todo
    /\ LetterReady(r) /\ ~KnownToNotion(r)
    /\ pages' = [pages EXCEPT ![r] = @ + 1]
    /\ Settled(r, RevertedRow(mem[r]))
    /\ lost' = lost \cup {r}

\* The one save at the end of runCommit.
SaveCommit ==
    /\ pc = "push" /\ todo = {}
    /\ rows' = mem
    /\ pc' = "idle"
    /\ unplanned' = unplanned \cup
         {r \in Rows : /\ results[r] = "none" \/ r \notin ctx.batch
                       /\ mem[r].status # rows[r].status}
    /\ UNCHANGED <<ctx, results, pages, draft, mem, todo, lost>>

\* The process dies; what it had not written is gone.
Crash ==
    /\ pc # "idle"
    /\ pc' = "idle"
    /\ draft' = NoContext /\ mem' = rows /\ todo' = {}
    /\ lost' = lost \cup {r \in Rows : mem[r].page /\ ~rows[r].page}
    /\ UNCHANGED <<rows, ctx, results, pages, unplanned>>

Commit == StartCommit \/ SaveCommit
          \/ \E r \in Rows : FailToPush(r) \/ PushJobPage(r) \/ PushUnanswered(r)

Next == Scan \/ Sync \/ FreshPre \/ Topup \/ WriteContext \/ Judge \/ Commit \/ Crash

Spec == Init /\ [][Next]_vars

-----------------------------------------------------------------------------
(* Properties *)

\* The saved ledger never says To Apply of a row without a page id, and the
\* page is there ("the TSV never records a To Apply without a matching Notion
\* page", runCommit), whatever fails between the letters and the save.
PageBacked ==
    \A r \in Rows : rows[r].status = "ToApply" => rows[r].page /\ pages[r] > 0

\* No job gets a second Notion page: not when a commit dies before its save
\* and is run again, not when the answer to a create is lost, and not when a
\* row reaches Notion both out of a batch and as a carry-over.
OnePage == \A r \in Rows : pages[r] <= 1

\* company_cap: the rows promoted out of the batch stay within their company's
\* cap over any number of pres, topups and commits.  No commit looks at the
\* cap: rows carried over, rows of an older batch and pages found by sync come
\* on top.
CapHolds ==
    \A c \in Companies :
        Cardinality({r \in Rows : /\ CompanyOf[r] = c
                                  /\ rows[r].status = "ToApply"
                                  /\ r \notin unplanned}) <= Cap[c]

Complete(r) == rows[r].fit = "Weak" \/ (rows[r].fit = "Good" /\ rows[r].docs)

\* A To Apply row has its verdict and, unless Weak, its letter; the one
\* exception is a page whose run died, or did not learn of it, and that sync
\* then found: such a row is To Apply without what the apply queue needs.
ReadyIsComplete ==
    \A r \in Rows : rows[r].status = "ToApply" => Complete(r) \/ r \in lost

\* A row the ledger knows as Weak is not handed to a worker again: no such row
\* is in the batch without a result, through failed pushes, carry-overs,
\* topups and crashes.
WeakNotRejudged ==
    \A r \in ctx.batch : rows[r].fit = "Weak" => results[r] # "none"
=============================================================================
