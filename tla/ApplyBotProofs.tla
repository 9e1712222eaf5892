--------------------------- MODULE ApplyBotProofs ---------------------------
(* Theorems about ApplyBot, for any set of jobs and any pool size. *)
EXTENDS ApplyBot, TLAPS

-----------------------------------------------------------------------------
(* Type correctness *)

\* Every rewrite of a row yields a row.
LEMMA RewritesAreRows ==
    ASSUME NEW r \in Row
    PROVE  /\ FreshRow \in Row
           /\ MarkedRow(r) \in Row
           /\ ClosedRow(r) \in Row
           /\ AppliedRow(r, "manual") \in Row
           /\ \A s \in Statuses : PulledRow(r, s) \in Row
           /\ \A f \in Findings : PreRow(r, f) \in Row
           /\ \A o \in Outcomes : SettledRow(r, o) \in Row
<1> USE DEF Row, Statuses, AppliedBy, ApplyStates, Notes
<1>1. FreshRow \in Row /\ MarkedRow(r) \in Row /\ ClosedRow(r) \in Row
  BY DEF FreshRow, MarkedRow, ClosedRow
<1>2. AppliedRow(r, "manual") \in Row /\ AppliedRow(r, "bot") \in Row
  BY DEF AppliedRow
<1>3. ManualRow(r) \in Row /\ FailedRow(r) \in Row /\ QueuedRow(r) \in Row
      /\ ArchivedRow(r) \in Row
  BY DEF ManualRow, FailedRow, QueuedRow, ArchivedRow
<1>4. \A s \in Statuses : PulledRow(r, s) \in Row
  BY DEF PulledRow
<1>5. \A f \in Findings : PreRow(r, f) \in Row
  BY <1>1, <1>3 DEF PreRow, Findings
<1>6. \A o \in Outcomes : SettledRow(r, o) \in Row
  BY <1>2, <1>3 DEF SettledRow, Outcomes
<1> QED BY <1>1, <1>2, <1>4, <1>5, <1>6

\* What the commands reset their variables to has the right type.
LEMMA InitTypes ==
    /\ NoRows \in [Jobs -> Row]
    /\ Nothing \in [Jobs -> Findings] /\ Nothing \in [Jobs -> Outcomes]
    /\ AllOut \in [Jobs -> WorkerSteps]
BY DEF NoRows, FreshRow, Row, Statuses, AppliedBy, ApplyStates, Notes,
       Nothing, Findings, Outcomes, AllOut, WorkerSteps

LEMMA InitTypeOK == Init => TypeOK
<1> SUFFICES ASSUME Init PROVE TypeOK
  OBVIOUS
<1>1. rows = NoRows /\ preSnap = NoRows /\ syncSnap = NoRows
      /\ preFound = Nothing /\ result = Nothing /\ pc = AllOut
  BY DEF Init, NoRows
<1>2. notion \in [Jobs -> Statuses]
  BY DEF Init, Statuses
<1>3. running = {} /\ prePhase = "off" /\ openJob = NoJob /\ openStatus = ""
      /\ dry = FALSE /\ used = FALSE
      /\ context = {} /\ clicked = {} /\ reclicked = {}
      /\ rerun = {} /\ released = {}
  BY DEF Init
<1> QED
  BY InitTypes, <1>1, <1>2, <1>3 DEF TypeOK

\* The pre phase keeps every variable in its type.
LEMMA PreTypeOK ==
    ASSUME TypeOK, StartPre \/ SavePre \/ PushPre \/ WriteContext \/ CrashPre
    PROVE  TypeOK'
<1> USE DEF preVars, subVars, openVars, ghosts
<1>0. /\ NoRows \in [Jobs -> Row] /\ Nothing \in [Jobs -> Findings]
      /\ running \ {"pre"} \in SUBSET Commands
      /\ running \cup {"pre"} \in SUBSET Commands
  BY InitTypes DEF TypeOK, Commands
<1>1. CASE StartPre
  BY <1>0, <1>1 DEF StartPre, Start, TypeOK
<1>2. CASE SavePre
  <2>1. PICK found \in [Jobs -> Findings], dryRun \in BOOLEAN :
          /\ preFound' = found
          /\ \/ prePhase' = "write" /\ rows' = rows
             \/ /\ prePhase' = "push"
                /\ rows' = [k \in Jobs |-> PreRow(preSnap[k], found[k])]
    BY <1>2 DEF SavePre
  <2>2. [k \in Jobs |-> PreRow(preSnap[k], found[k])] \in [Jobs -> Row]
    <3>1. ASSUME NEW k \in Jobs PROVE PreRow(preSnap[k], found[k]) \in Row
      <4>1. preSnap[k] \in Row /\ found[k] \in Findings
        BY <2>1 DEF TypeOK
      <4> QED
        BY <4>1, RewritesAreRows
    <3> QED
      BY <3>1
  <2>3. rows' \in [Jobs -> Row] /\ preFound' \in [Jobs -> Findings]
        /\ prePhase' \in {"off", "read", "push", "write"}
    BY <2>1, <2>2 DEF TypeOK
  <2> QED
    BY <1>2, <2>3 DEF SavePre, TypeOK
<1>3. CASE PushPre
  <2>1. PICK pushed \in SUBSET {k \in Jobs : preFound[k] \in {"closed", "area"}} :
          notion' = [k \in Jobs |->
            IF k \notin pushed THEN notion[k]
            ELSE IF preFound[k] = "closed" THEN "Closed" ELSE "Archived"]
    BY <1>3 DEF PushPre
  <2>2. notion' \in [Jobs -> Statuses]
    BY <2>1 DEF Statuses, TypeOK
  <2> QED
    BY <1>3, <2>2 DEF PushPre, TypeOK
<1>4. CASE WriteContext
  BY <1>0, <1>4 DEF WriteContext, EndPre, Stop, TypeOK
<1>5. CASE CrashPre
  BY <1>0, <1>5 DEF CrashPre, EndPre, Stop, TypeOK
<1> QED BY <1>1, <1>2, <1>3, <1>4, <1>5

\* A worker step of one job keeps every variable in its type.
LEMMA WorkerTypeOK ==
    ASSUME TypeOK, NEW k \in Jobs, Worker(k)
    PROVE  TypeOK'
<1> USE DEF preVars, openVars, ghosts, SubmitOnly
<1>1. /\ running' = running /\ UNCHANGED <<preVars, context, dry, openVars, syncSnap>>
      /\ UNCHANGED <<used, rerun, released>>
  BY DEF Worker, PastDeadline, NoHonestAnswer, SkipAtFirstGuard, OpenForm,
         StopBeforeClick, StopDryRun, SkipAtFinalGuard, PassFinalGuard, Mark,
         Click, EnterCode, CheckMailbox, Record, FailToRecord, PushApplied
<1>2. \E step \in WorkerSteps : SetPc(k, step)
  BY DEF Worker, PastDeadline, NoHonestAnswer, SkipAtFirstGuard, OpenForm,
         StopBeforeClick, StopDryRun, SkipAtFinalGuard, PassFinalGuard, Mark,
         Click, EnterCode, CheckMailbox, Record, FailToRecord, PushApplied,
         Decide, WorkerSteps
<1>3. result' = result \/ \E o \in Outcomes : result' = [result EXCEPT ![k] = o]
  BY DEF Worker, PastDeadline, NoHonestAnswer, SkipAtFirstGuard, OpenForm,
         StopBeforeClick, StopDryRun, SkipAtFinalGuard, PassFinalGuard, Mark,
         Click, EnterCode, CheckMailbox, Record, FailToRecord, PushApplied,
         Decide, Outcomes
<1>4. notion' = notion \/ notion' = [notion EXCEPT ![k] = "Applied"]
  BY DEF Worker, PastDeadline, NoHonestAnswer, SkipAtFirstGuard, OpenForm,
         StopBeforeClick, StopDryRun, SkipAtFinalGuard, PassFinalGuard, Mark,
         Click, EnterCode, CheckMailbox, Record, FailToRecord, PushApplied
<1>5. \/ rows' = rows
      \/ rows' = [rows EXCEPT ![k] = MarkedRow(@)]
      \/ rows' = [rows EXCEPT ![k] = SettledRow(@, result[k])]
  BY DEF Worker, PastDeadline, NoHonestAnswer, SkipAtFirstGuard, OpenForm,
         StopBeforeClick, StopDryRun, SkipAtFinalGuard, PassFinalGuard, Mark,
         Click, EnterCode, CheckMailbox, Record, FailToRecord, PushApplied
<1>6. /\ clicked' \in {clicked, clicked \cup {k}}
      /\ reclicked' \in {reclicked, reclicked \cup {k}}
  BY DEF Worker, PastDeadline, NoHonestAnswer, SkipAtFirstGuard, OpenForm,
         StopBeforeClick, StopDryRun, SkipAtFinalGuard, PassFinalGuard, Mark,
         Click, EnterCode, CheckMailbox, Record, FailToRecord, PushApplied
<1>7. pc' \in [Jobs -> WorkerSteps] /\ result' \in [Jobs -> Outcomes]
  BY <1>2, <1>3 DEF SetPc, TypeOK
<1>8. notion' \in [Jobs -> Statuses]
  BY <1>4 DEF TypeOK, Statuses
<1>9. rows' \in [Jobs -> Row]
  <2>1. rows[k] \in Row /\ result[k] \in Outcomes /\ rows \in [Jobs -> Row]
    BY DEF TypeOK
  <2>2. MarkedRow(rows[k]) \in Row /\ SettledRow(rows[k], result[k]) \in Row
    BY <2>1, RewritesAreRows
  <2> QED
    BY <1>5, <2>1, <2>2
<1>10. /\ clicked' \in SUBSET Jobs /\ reclicked' \in SUBSET Jobs
  BY <1>6 DEF TypeOK
<1> QED
  BY <1>1, <1>7, <1>8, <1>9, <1>10 DEF TypeOK

\* Starting, ending and losing a submit run keeps every variable in its type.
LEMMA SubmitTypeOK ==
    ASSUME TypeOK, StartSubmit \/ EndSubmit \/ CrashSubmit
    PROVE  TypeOK'
<1> USE DEF preVars, openVars, ghosts
<1>0. /\ AllOut \in [Jobs -> WorkerSteps] /\ Nothing \in [Jobs -> Outcomes]
      /\ running \ {"submit"} \in SUBSET Commands
      /\ running \cup {"submit"} \in SUBSET Commands
  BY InitTypes DEF TypeOK, Commands
<1>1. CASE StartSubmit
  <2>1. pc' \in [Jobs -> WorkerSteps]
    BY <1>1 DEF StartSubmit, WorkerSteps
  <2>2. /\ rerun' \in SUBSET Jobs /\ used' \in BOOLEAN /\ dry' \in BOOLEAN
    BY <1>1 DEF StartSubmit, TypeOK
  <2> QED
    BY <1>0, <1>1, <2>1, <2>2 DEF StartSubmit, Start, TypeOK
<1>2. CASE EndSubmit
  BY <1>0, <1>2 DEF EndSubmit, EndRun, Stop, TypeOK
<1>3. CASE CrashSubmit
  BY <1>0, <1>3 DEF CrashSubmit, EndRun, Stop, TypeOK
<1> QED BY <1>1, <1>2, <1>3

\* The open phase keeps every variable in its type.
LEMMA OpenTypeOK ==
    ASSUME TypeOK,
           \/ PushOpen \/ AbandonOpen
           \/ \E k \in Jobs : StartOpen(k) \/ OpenFindsClosed(k) \/ OpenConfirmed(k)
    PROVE  TypeOK'
<1> USE DEF preVars, subVars, OpenOnly
<1>0. /\ running \ {"open"} \in SUBSET Commands
      /\ running \cup {"open"} \in SUBSET Commands
  BY DEF TypeOK, Commands
<1>1. CASE PushOpen
  <2>1. notion' = notion \/ notion' = [notion EXCEPT ![openJob] = openStatus]
    BY <1>1 DEF PushOpen
  <2>2. openStatus \in Statuses
    BY <1>1 DEF PushOpen, TypeOK, Statuses
  <2>3. notion' \in [Jobs -> Statuses]
    BY <2>1, <2>2 DEF TypeOK
  <2> QED
    BY <1>0, <1>1, <2>3 DEF PushOpen, EndOpen, Stop, TypeOK
<1>2. CASE AbandonOpen
  BY <1>0, <1>2 DEF AbandonOpen, EndOpen, Stop, TypeOK
<1>3. ASSUME NEW k \in Jobs, StartOpen(k) PROVE TypeOK'
  BY <1>0, <1>3 DEF StartOpen, Start, TypeOK
<1>4. ASSUME NEW k \in Jobs, OpenFindsClosed(k) \/ OpenConfirmed(k) PROVE TypeOK'
  <2>1. rows[k] \in Row /\ rows \in [Jobs -> Row]
    BY DEF TypeOK
  <2>2. ClosedRow(rows[k]) \in Row /\ AppliedRow(rows[k], "manual") \in Row
    BY <2>1, RewritesAreRows
  <2>3. rows' \in [Jobs -> Row]
    BY <1>4, <2>1, <2>2 DEF OpenFindsClosed, OpenConfirmed
  <2>4. /\ released' \in SUBSET Jobs
        /\ openStatus' \in {"", "Applied", "Closed"}
    BY <1>4 DEF OpenFindsClosed, OpenConfirmed, TypeOK
  <2> QED
    BY <1>4, <2>3, <2>4 DEF OpenFindsClosed, OpenConfirmed, TypeOK
<1> QED BY <1>1, <1>2, <1>3, <1>4

\* sync and the human's edits in Notion keep every variable in its type.
LEMMA SyncTypeOK ==
    ASSUME TypeOK,
           \/ StartSync \/ SaveSync \/ AbandonSync
           \/ \E k \in Jobs, s \in NotionEdits : EditNotion(k, s)
    PROVE  TypeOK'
<1> USE DEF preVars, subVars, openVars, ghosts
<1>0. /\ NoRows \in [Jobs -> Row]
      /\ running \ {"sync"} \in SUBSET Commands
      /\ running \cup {"sync"} \in SUBSET Commands
  BY InitTypes DEF TypeOK, Commands
<1>1. CASE StartSync
  BY <1>0, <1>1 DEF StartSync, Start, TypeOK
<1>2. CASE SaveSync
  <2>1. [k \in Jobs |-> PulledRow(syncSnap[k], notion[k])] \in [Jobs -> Row]
    <3>1. ASSUME NEW k \in Jobs PROVE PulledRow(syncSnap[k], notion[k]) \in Row
      <4>1. syncSnap[k] \in Row /\ notion[k] \in Statuses
        BY DEF TypeOK
      <4> QED
        BY <4>1, RewritesAreRows
    <3> QED
      BY <3>1
  <2>2. rows' \in [Jobs -> Row]
    BY <1>2, <2>1 DEF SaveSync, TypeOK
  <2> QED
    BY <1>0, <1>2, <2>2 DEF SaveSync, Stop, TypeOK
<1>3. CASE AbandonSync
  BY <1>0, <1>3 DEF AbandonSync, Stop, TypeOK
<1>4. ASSUME NEW k \in Jobs, NEW s \in NotionEdits, EditNotion(k, s) PROVE TypeOK'
  <2>1. s \in Statuses
    BY ConstantsAssumption
  <2>2. notion' \in [Jobs -> Statuses]
    BY <1>4, <2>1 DEF EditNotion, TypeOK
  <2> QED
    BY <1>4, <2>2 DEF EditNotion, TypeOK
<1> QED BY <1>1, <1>2, <1>3, <1>4

LEMMA StutterTypeOK == ASSUME TypeOK, UNCHANGED vars PROVE TypeOK'
BY DEF TypeOK, vars, preVars, subVars, openVars, ghosts

\* Whatever commands run and die in whatever order, rows stay rows, workers
\* stand at a step of the code and every set of jobs stays within the ledger.
THEOREM TypeCorrect == Spec => []TypeOK
<1>1. TypeOK /\ [Next]_vars => TypeOK'
  BY PreTypeOK, WorkerTypeOK, SubmitTypeOK, OpenTypeOK, SyncTypeOK, StutterTypeOK DEF Next
<1> QED
  BY <1>1, InitTypeOK, PTL DEF Spec

-----------------------------------------------------------------------------
(* The inductive invariant when pre and sync run alone *)

\* A row no gate lets through, whatever its status is or becomes.
Held(r) ==
    \/ r.applied_date # ""
    \/ r.apply_state \in {"submitted", "failed", "manual"}
    \/ IsInterruptedSubmit(r)

\* The two commands that save every row they loaded run beside no other.
WholeFileSavers == {"pre", "sync"}

USE DEF WholeFileSavers

\* They are kept apart, and only a running command has local state.
KeptApart ==
    /\ \A c \in WholeFileSavers, d \in running : c \in running => c = d
    /\ prePhase # "off" => "pre" \in running
    /\ \A k \in Jobs : pc[k] # "out" => "submit" \in running
    /\ dry => "submit" \in running

\* What a command loaded is still what the file holds.
FreshSnapshots ==
    /\ prePhase = "read" => preSnap = rows
    /\ "sync" \in running => syncSnap = rows

\* The row of every clicked job is held, and that of every marked one already
\* before the click, until a human releases it.
ClicksOnRecord ==
    /\ \A k \in clicked \ released : Held(rows[k])
    /\ \A k \in Jobs \ released : pc[k] = "marked" => Held(rows[k])

\* A run without --dry-run counts as a use of the context; one with it never
\* comes as far as the mark.
RunsCounted ==
    /\ \A k \in Jobs : pc[k] # "out" /\ ~dry => used
    /\ \A k \in Jobs : dry => pc[k] \notin {"guarded", "marked"}

Unclicked(k) == k \in clicked => k \in released

\* Where a click may still come, there was none, or the context is used again.
ClicksAhead ==
    /\ prePhase \in {"push", "write"} =>
          \A k \in Jobs : preFound[k] = "entry" => Unclicked(k)
    /\ ~used => \A k \in context : Unclicked(k)
    /\ \A k \in Jobs :
          pc[k] \in {"pending", "filling", "guarded", "marked"} /\ ~dry =>
              Unclicked(k) \/ k \in rerun

IInv ==
    /\ TypeOK
    /\ KeptApart
    /\ FreshSnapshots
    /\ ClicksOnRecord
    /\ RunsCounted
    /\ ClicksAhead
    /\ ClickOnUnrecorded
    /\ SecondClickOnlyOnRerun

\* What the rewrites do to a held row: every row passing the gates is unheld,
\* a settled, marked, applied or pulled row is held if it was.
LEMMA HeldRows ==
    ASSUME NEW r \in Row
    PROVE  /\ Held(r) => ~PassesGates(r)
           /\ Held(MarkedRow(r)) /\ IsInterruptedSubmit(MarkedRow(r))
           /\ \A by \in AppliedBy : Held(AppliedRow(r, by))
           /\ \A s \in Statuses : Held(r) => Held(PulledRow(r, s))
           /\ \A o \in Outcomes : Held(r) => Held(SettledRow(r, o))
<1> USE DEF Held, IsInterruptedSubmit, Row
<1>1. Held(r) => ~PassesGates(r)
  BY DEF PassesGates
<1>2. Held(MarkedRow(r)) /\ IsInterruptedSubmit(MarkedRow(r))
  BY DEF MarkedRow
<1>3. \A by \in AppliedBy : Held(AppliedRow(r, by))
  BY DEF AppliedRow
<1>4. \A s \in Statuses : Held(r) => Held(PulledRow(r, s))
  BY DEF PulledRow
<1>5. \A o \in Outcomes : Held(r) => Held(SettledRow(r, o))
  BY DEF SettledRow, AppliedRow, FailedRow, ManualRow, Outcomes
<1> QED BY <1>1, <1>2, <1>3, <1>4, <1>5

\* The queue holds only rows that pass the gates.
LEMMA QueueIsGated == \A rs \in [Jobs -> Row] :
    \A k \in BuildQueue(rs) \cup (Gated(rs) \cap OutOfArea) : PassesGates(rs[k])
BY DEF BuildQueue, UnderCap, Gated

\* What a step of one worker can do: move on without touching a row or
\* clicking, write the mark, click, or settle the row.
LEMMA WorkerEffects ==
    ASSUME TypeOK, NEW k \in Jobs, Worker(k)
    PROVE  /\ UNCHANGED <<running, preVars, context, dry, syncSnap, used, rerun, released>>
           /\ pc[k] # "out"
           /\ \A j \in Jobs \ {k} : pc'[j] = pc[j] /\ rows'[j] = rows[j]
           /\ pc'[k] # "out"
           /\ \/ /\ UNCHANGED <<rows, clicked, reclicked>>
                 /\ pc'[k] \notin {"pending", "marked"}
                 /\ pc'[k] = "filling" => pc[k] = "pending"
                 /\ pc'[k] = "guarded" => pc[k] = "filling" /\ ~dry /\ MaySubmit(rows[k])
              \/ /\ pc[k] = "guarded" /\ pc'[k] = "marked"
                 /\ rows' = [rows EXCEPT ![k] = MarkedRow(@)]
                 /\ UNCHANGED <<clicked, reclicked>>
              \/ /\ pc[k] = "marked" /\ pc'[k] \in {"decided", "held", "unsure"}
                 /\ rows' = rows
                 /\ clicked' = clicked \cup {k}
                 /\ reclicked' = IF k \in clicked THEN reclicked \cup {k} ELSE reclicked
              \/ /\ ~dry /\ pc'[k] \in {"pushing", "done"}
                 /\ rows' = [rows EXCEPT ![k] = SettledRow(@, result[k])]
                 /\ UNCHANGED <<clicked, reclicked>>
<1> USE DEF SubmitOnly, SetPc, Decide, ghosts, TypeOK
<1>1. CASE PastDeadline(k) \/ NoHonestAnswer(k) \/ SkipAtFirstGuard(k) \/ OpenForm(k)
  BY <1>1 DEF PastDeadline, NoHonestAnswer, SkipAtFirstGuard, OpenForm, Admitted, Pending
<1>2. CASE StopBeforeClick(k) \/ StopDryRun(k) \/ SkipAtFinalGuard(k) \/ PassFinalGuard(k)
  BY <1>2 DEF StopBeforeClick, StopDryRun, SkipAtFinalGuard, PassFinalGuard
<1>3. CASE Mark(k)
  BY <1>3 DEF Mark
<1>4. CASE Click(k)
  BY <1>4 DEF Click
<1>5. CASE EnterCode(k) \/ CheckMailbox(k)
  BY <1>5 DEF EnterCode, CheckMailbox
<1>6. CASE Record(k)
  <2>1. /\ pc'[k] \in {"pushing", "done"} /\ pc[k] = "decided"
        /\ \A j \in Jobs \ {k} : pc'[j] = pc[j]
    BY <1>6 DEF Record
  <2>2. CASE dry
    BY <1>6, <2>1, <2>2 DEF Record
  <2>3. CASE ~dry
    BY <1>6, <2>1, <2>3 DEF Record
  <2> QED BY <2>2, <2>3
<1>7. CASE FailToRecord(k) \/ PushApplied(k)
  BY <1>7 DEF FailToRecord, PushApplied
<1> QED
  BY <1>1, <1>2, <1>3, <1>4, <1>5, <1>6, <1>7 DEF Worker

LEMMA InitIInv == Init => IInv
<1> SUFFICES ASSUME Init PROVE IInv
  OBVIOUS
<1>1. KeptApart /\ FreshSnapshots /\ ClicksOnRecord /\ RunsCounted /\ ClicksAhead
  BY DEF Init, AllOut, KeptApart, FreshSnapshots, ClicksOnRecord, RunsCounted, ClicksAhead
<1>2. ClickOnUnrecorded /\ SecondClickOnlyOnRerun
  BY DEF Init, AllOut, ClickOnUnrecorded, SecondClickOnlyOnRerun
<1> QED
  BY InitTypeOK, <1>1, <1>2 DEF IInv

\* While pre runs no other command does; rows it rewrites passed the gates.
LEMMA PreIInv ==
    ASSUME WholeFileSavers \subseteq Alone, IInv, StartPre \/ SavePre \/ PushPre \/ WriteContext \/ CrashPre
    PROVE  IInv'
<1> USE DEF preVars, subVars, openVars, ghosts
<1>1. TypeOK'
  BY PreTypeOK DEF IInv
<1>2. CASE StartPre
  <2>1. KeptApart' /\ FreshSnapshots'
    BY <1>2 DEF IInv, StartPre, Start, KeptApart, FreshSnapshots
  <2>2. ClicksOnRecord' /\ RunsCounted' /\ ClicksAhead'
    BY <1>2 DEF IInv, StartPre, ClicksOnRecord, RunsCounted, ClicksAhead, Unclicked
  <2>3. ClickOnUnrecorded' /\ SecondClickOnlyOnRerun'
    BY <1>2 DEF IInv, StartPre, ClickOnUnrecorded, SecondClickOnlyOnRerun
  <2> QED
    BY <1>1, <2>1, <2>2, <2>3 DEF IInv
<1>3. CASE SavePre
  <2>1. PICK found \in [Jobs -> Findings] :
          /\ preFound' = found
          /\ \A k \in Jobs : found[k] # "none" =>
                k \in BuildQueue(preSnap) \cup (Gated(preSnap) \cap OutOfArea)
          /\ \/ prePhase' = "write" /\ rows' = rows
             \/ /\ prePhase' = "push"
                /\ rows' = [k \in Jobs |-> PreRow(preSnap[k], found[k])]
    BY <1>3 DEF SavePre
  <2>2. /\ prePhase = "read" /\ preSnap = rows
        /\ UNCHANGED <<running, context, pc, dry, syncSnap, used, clicked, reclicked,
                       rerun, released>>
    BY <1>3 DEF SavePre, IInv, FreshSnapshots
  <2>3. \A k \in Jobs : pc[k] = "out"
    BY <2>2 DEF IInv, KeptApart
  <2>4. "sync" \notin running /\ ~dry
    BY <2>2 DEF IInv, KeptApart
  <2>5. \A k \in Jobs : found[k] # "none" => Unclicked(k)
    <3> SUFFICES ASSUME NEW k \in Jobs, found[k] # "none" PROVE Unclicked(k)
      OBVIOUS
    <3>1. rows \in [Jobs -> Row] /\ rows[k] \in Row
      BY DEF IInv, TypeOK
    <3>2. PassesGates(rows[k])
      BY <2>1, <2>2, <3>1, QueueIsGated
    <3>3. ~Held(rows[k])
      BY <3>1, <3>2, HeldRows
    <3> QED
      BY <3>3 DEF IInv, ClicksOnRecord, Unclicked
  <2>6. \A k \in Jobs : found[k] = "none" => rows'[k] = rows[k]
    BY <2>1, <2>2 DEF PreRow
  <2>7. KeptApart' /\ FreshSnapshots'
    BY <2>1, <2>2, <2>3, <2>4 DEF IInv, KeptApart, FreshSnapshots
  <2>8. ClicksOnRecord'
    BY <2>2, <2>3, <2>5, <2>6 DEF IInv, ClicksOnRecord, Unclicked, TypeOK
  <2>9. RunsCounted' /\ ClicksAhead'
    BY <2>1, <2>2, <2>3, <2>5 DEF IInv, RunsCounted, ClicksAhead, Unclicked
  <2>10. ClickOnUnrecorded' /\ SecondClickOnlyOnRerun'
    BY <2>2, <2>3 DEF IInv, ClickOnUnrecorded, SecondClickOnlyOnRerun
  <2> QED
    BY <1>1, <2>7, <2>8, <2>9, <2>10 DEF IInv
<1>4. CASE PushPre
  <2>1. KeptApart' /\ FreshSnapshots'
    BY <1>4 DEF IInv, PushPre, KeptApart, FreshSnapshots
  <2>2. ClicksOnRecord' /\ RunsCounted' /\ ClicksAhead'
    BY <1>4 DEF IInv, PushPre, ClicksOnRecord, RunsCounted, ClicksAhead, Unclicked
  <2>3. ClickOnUnrecorded' /\ SecondClickOnlyOnRerun'
    BY <1>4 DEF IInv, PushPre, ClickOnUnrecorded, SecondClickOnlyOnRerun
  <2> QED
    BY <1>1, <2>1, <2>2, <2>3 DEF IInv
<1>5. CASE WriteContext
  <2>1. \A k \in Jobs : pc[k] = "out"
    BY <1>5 DEF WriteContext, IInv, KeptApart
  <2>2. KeptApart' /\ FreshSnapshots'
    BY <1>5, <2>1 DEF IInv, WriteContext, EndPre, Stop, KeptApart, FreshSnapshots
  <2>3. ClicksOnRecord' /\ RunsCounted'
    BY <1>5, <2>1 DEF IInv, WriteContext, ClicksOnRecord, RunsCounted
  <2>4. ClicksAhead'
    BY <1>5, <2>1 DEF IInv, WriteContext, EndPre, ClicksAhead, Unclicked
  <2>5. ClickOnUnrecorded' /\ SecondClickOnlyOnRerun'
    BY <1>5, <2>1 DEF IInv, WriteContext, ClickOnUnrecorded, SecondClickOnlyOnRerun
  <2> QED
    BY <1>1, <2>2, <2>3, <2>4, <2>5 DEF IInv
<1>6. CASE CrashPre
  <2>1. \A k \in Jobs : pc[k] = "out"
    BY <1>6 DEF CrashPre, IInv, KeptApart
  <2>2. KeptApart' /\ FreshSnapshots'
    BY <1>6, <2>1 DEF IInv, CrashPre, EndPre, Stop, KeptApart, FreshSnapshots
  <2>3. ClicksOnRecord' /\ RunsCounted' /\ ClicksAhead'
    BY <1>6, <2>1 DEF IInv, CrashPre, EndPre, ClicksOnRecord, RunsCounted, ClicksAhead, Unclicked
  <2>4. ClickOnUnrecorded' /\ SecondClickOnlyOnRerun'
    BY <1>6, <2>1 DEF IInv, CrashPre, ClickOnUnrecorded, SecondClickOnlyOnRerun
  <2> QED
    BY <1>1, <2>2, <2>3, <2>4 DEF IInv
<1> QED BY <1>2, <1>3, <1>4, <1>5, <1>6

\* Only the marked job is clicked, and its row already shows the attempt.
LEMMA WorkerIInv ==
    ASSUME IInv, NEW k \in Jobs, Worker(k)
    PROVE  IInv'
<1> USE DEF preVars
<1>0. /\ TypeOK /\ rows \in [Jobs -> Row] /\ rows[k] \in Row
      /\ result[k] \in Outcomes /\ pc \in [Jobs -> WorkerSteps]
      /\ clicked \in SUBSET Jobs
  BY DEF IInv, TypeOK
<1>1. TypeOK'
  BY <1>0, WorkerTypeOK
<1>2. /\ UNCHANGED <<running, prePhase, preSnap, preFound, context, dry, syncSnap,
                     used, rerun, released>>
      /\ pc[k] # "out" /\ pc'[k] # "out"
      /\ \A j \in Jobs \ {k} : pc'[j] = pc[j] /\ rows'[j] = rows[j]
  BY <1>0, WorkerEffects
<1>3. "submit" \in running /\ prePhase = "off" /\ "sync" \notin running
  BY <1>2 DEF IInv, KeptApart
<1>4. KeptApart' /\ FreshSnapshots'
  BY <1>2, <1>3 DEF IInv, KeptApart, FreshSnapshots
<1>5. CASE /\ UNCHANGED <<rows, clicked, reclicked>>
           /\ pc'[k] \notin {"pending", "marked"}
           /\ pc'[k] = "filling" => pc[k] = "pending"
           /\ pc'[k] = "guarded" => pc[k] = "filling" /\ ~dry /\ MaySubmit(rows[k])
  <2>1. ClicksOnRecord' /\ RunsCounted'
    BY <1>2, <1>5 DEF IInv, ClicksOnRecord, RunsCounted
  <2>2. ClicksAhead'
    BY <1>2, <1>5 DEF IInv, ClicksAhead, Unclicked
  <2>3. ClickOnUnrecorded' /\ SecondClickOnlyOnRerun'
    BY <1>2, <1>5 DEF IInv, ClickOnUnrecorded, SecondClickOnlyOnRerun, MaySubmit
  <2> QED
    BY <1>1, <1>4, <2>1, <2>2, <2>3 DEF IInv
<1>6. CASE /\ pc[k] = "guarded" /\ pc'[k] = "marked"
           /\ rows' = [rows EXCEPT ![k] = MarkedRow(@)]
           /\ UNCHANGED <<clicked, reclicked>>
  <2>1. Held(rows'[k]) /\ IsInterruptedSubmit(rows'[k])
    BY <1>0, <1>6, HeldRows
  <2>2. Recorded(rows'[k]) => rows'[k].applied_by = "manual"
    BY <1>0, <1>6 DEF IInv, ClickOnUnrecorded, Recorded, MarkedRow, Row
  <2>3. ClicksOnRecord'
    BY <1>0, <1>2, <1>6, <2>1 DEF IInv, ClicksOnRecord
  <2>4. RunsCounted' /\ ClicksAhead'
    BY <1>2, <1>6 DEF IInv, RunsCounted, ClicksAhead, Unclicked
  <2>5. ClickOnUnrecorded' /\ SecondClickOnlyOnRerun'
    BY <1>2, <1>6, <2>2 DEF IInv, ClickOnUnrecorded, SecondClickOnlyOnRerun, Recorded
  <2> QED
    BY <1>1, <1>4, <2>3, <2>4, <2>5 DEF IInv
<1>7. CASE /\ pc[k] = "marked" /\ pc'[k] \in {"decided", "held", "unsure"}
           /\ rows' = rows
           /\ clicked' = clicked \cup {k}
           /\ reclicked' = IF k \in clicked THEN reclicked \cup {k} ELSE reclicked
  <2>1. (k \in released \/ Held(rows[k])) /\ used /\ ~dry
    BY <1>7 DEF IInv, ClicksOnRecord, RunsCounted
  <2>2. k \in clicked => k \in rerun \cup released
    BY <1>7, <2>1 DEF IInv, ClicksAhead, Unclicked
  <2>3. ClicksOnRecord'
    BY <1>2, <1>7, <2>1 DEF IInv, ClicksOnRecord
  <2>4. RunsCounted' /\ ClicksAhead'
    BY <1>2, <1>3, <1>7, <2>1 DEF IInv, RunsCounted, ClicksAhead, Unclicked
  <2>5. ClickOnUnrecorded' /\ SecondClickOnlyOnRerun'
    BY <1>2, <1>7, <2>2 DEF IInv, ClickOnUnrecorded, SecondClickOnlyOnRerun
  <2> QED
    BY <1>1, <1>4, <2>3, <2>4, <2>5 DEF IInv
<1>8. CASE /\ ~dry /\ pc'[k] \in {"pushing", "done"}
           /\ rows' = [rows EXCEPT ![k] = SettledRow(@, result[k])]
           /\ UNCHANGED <<clicked, reclicked>>
  <2>1. Held(rows[k]) => Held(rows'[k])
    BY <1>0, <1>8, HeldRows
  <2>2. ClicksOnRecord'
    BY <1>0, <1>2, <1>8, <2>1 DEF IInv, ClicksOnRecord
  <2>3. RunsCounted' /\ ClicksAhead'
    BY <1>2, <1>8 DEF IInv, RunsCounted, ClicksAhead, Unclicked
  <2>4. ClickOnUnrecorded' /\ SecondClickOnlyOnRerun'
    BY <1>2, <1>8 DEF IInv, ClickOnUnrecorded, SecondClickOnlyOnRerun, Recorded
  <2> QED
    BY <1>1, <1>4, <2>2, <2>3, <2>4 DEF IInv
<1> QED BY <1>0, <1>5, <1>6, <1>7, <1>8, WorkerEffects

\* A new run starts on a fresh context or counts its jobs as run again.
LEMMA SubmitIInv ==
    ASSUME WholeFileSavers \subseteq Alone, IInv, StartSubmit \/ EndSubmit \/ CrashSubmit
    PROVE  IInv'
<1> USE DEF preVars, openVars, ghosts
<1>1. TypeOK'
  BY SubmitTypeOK DEF IInv
<1>2. CASE StartSubmit
  <2>1. /\ "pre" \notin running /\ "sync" \notin running /\ "submit" \notin running
        /\ running' = running \cup {"submit"} /\ prePhase = "off" /\ dry = FALSE
        /\ \A k \in Jobs : pc'[k] = IF k \in context THEN "pending" ELSE "out"
    BY <1>2 DEF IInv, TypeOK, KeptApart, StartSubmit, Start
  <2>2. KeptApart' /\ FreshSnapshots'
    BY <1>2, <2>1 DEF IInv, StartSubmit, KeptApart, FreshSnapshots
  <2>3. ClicksOnRecord' /\ RunsCounted'
    BY <1>2, <2>1 DEF IInv, StartSubmit, ClicksOnRecord, RunsCounted
  <2>4. ClicksAhead'
    BY <1>2, <2>1 DEF IInv, StartSubmit, ClicksAhead, Unclicked
  <2>5. ClickOnUnrecorded' /\ SecondClickOnlyOnRerun'
    BY <1>2, <2>1 DEF IInv, StartSubmit, ClickOnUnrecorded, SecondClickOnlyOnRerun
  <2> QED
    BY <1>1, <2>2, <2>3, <2>4, <2>5 DEF IInv
<1>3. CASE EndSubmit \/ CrashSubmit
  <2>1. /\ "submit" \in running /\ running' = running \ {"submit"}
        /\ pc' = AllOut /\ dry' = FALSE
        /\ UNCHANGED <<rows, prePhase, preSnap, preFound, context, syncSnap, used, clicked,
                       reclicked, rerun, released>>
    BY <1>3 DEF EndSubmit, CrashSubmit, EndRun, Stop
  <2>2. \A k \in Jobs : pc'[k] = "out"
    BY <2>1 DEF AllOut
  <2>3. KeptApart' /\ FreshSnapshots'
    BY <2>1, <2>2 DEF IInv, KeptApart, FreshSnapshots
  <2>4. ClicksOnRecord' /\ RunsCounted' /\ ClicksAhead'
    BY <2>1, <2>2 DEF IInv, ClicksOnRecord, RunsCounted, ClicksAhead, Unclicked
  <2>5. ClickOnUnrecorded' /\ SecondClickOnlyOnRerun'
    BY <2>1, <2>2 DEF IInv, ClickOnUnrecorded, SecondClickOnlyOnRerun
  <2> QED
    BY <1>1, <2>3, <2>4, <2>5 DEF IInv
<1> QED BY <1>2, <1>3

\* open writes one row: closed, and released from the bot, or applied.
LEMMA OpenIInv ==
    ASSUME WholeFileSavers \subseteq Alone, IInv,
           \/ PushOpen \/ AbandonOpen
           \/ \E k \in Jobs : StartOpen(k) \/ OpenFindsClosed(k) \/ OpenConfirmed(k)
    PROVE  IInv'
<1> USE DEF preVars, subVars, OpenOnly
<1>1. TypeOK'
  BY OpenTypeOK DEF IInv
<1>2. CASE \/ PushOpen \/ AbandonOpen
           \/ \E k \in Jobs : StartOpen(k)
  <2>1. /\ UNCHANGED <<rows, preVars, context, subVars, syncSnap, used, clicked,
                       reclicked, rerun, released>>
        /\ \/ running' = running \ {"open"}
           \/ /\ "pre" \notin running /\ "sync" \notin running
              /\ running' = running \cup {"open"}
    BY <1>2 DEF PushOpen, AbandonOpen, EndOpen, Stop, StartOpen, Start
  <2>2. KeptApart' /\ FreshSnapshots'
    BY <2>1 DEF IInv, KeptApart, FreshSnapshots
  <2>3. ClicksOnRecord' /\ RunsCounted' /\ ClicksAhead'
    BY <2>1 DEF IInv, ClicksOnRecord, RunsCounted, ClicksAhead, Unclicked
  <2>4. ClickOnUnrecorded' /\ SecondClickOnlyOnRerun'
    BY <2>1 DEF IInv, ClickOnUnrecorded, SecondClickOnlyOnRerun
  <2> QED
    BY <1>1, <2>2, <2>3, <2>4 DEF IInv
<1>3. ASSUME NEW k \in Jobs, OpenFindsClosed(k) \/ OpenConfirmed(k) PROVE IInv'
  <2>1. /\ "open" \in running
        /\ \/ released' = released \cup {k}
           \/ released' = released /\ rows' = [rows EXCEPT ![k] = AppliedRow(@, "manual")]
        /\ Recorded(rows'[k]) /\ ~Recorded(rows[k]) => rows'[k].applied_by = "manual"
        /\ Recorded(rows[k]) => rows'[k].applied_by \in {rows[k].applied_by, "manual"}
        /\ \A j \in Jobs \ {k} : rows'[j] = rows[j]
        /\ UNCHANGED <<running, preVars, context, subVars, syncSnap, used, clicked,
                       reclicked, rerun>>
    <3>1. rows \in [Jobs -> Row] /\ rows[k] \in Row
      BY DEF IInv, TypeOK
    <3>2. CASE OpenFindsClosed(k)
      BY <3>1, <3>2 DEF OpenFindsClosed, Reading, Recorded, ClosedRow, Row
    <3>3. CASE OpenConfirmed(k)
      BY <3>1, <3>3 DEF OpenConfirmed, Reading, Recorded, AppliedRow, Row
    <3> QED BY <1>3, <3>2, <3>3
  <2>2. prePhase = "off" /\ "sync" \notin running
    BY <2>1 DEF IInv, KeptApart
  <2>3. k \in released' \/ Held(rows'[k])
    <3>1. rows \in [Jobs -> Row] /\ rows[k] \in Row /\ "manual" \in AppliedBy
      BY DEF IInv, TypeOK, AppliedBy
    <3> QED
      BY <2>1, <3>1, HeldRows
  <2>4. KeptApart' /\ FreshSnapshots'
    BY <2>1, <2>2 DEF IInv, KeptApart, FreshSnapshots
  <2>5. ClicksOnRecord'
    BY <1>1, <2>1, <2>2, <2>3 DEF IInv, ClicksOnRecord, TypeOK
  <2>6. RunsCounted' /\ ClicksAhead'
    BY <2>1, <2>2 DEF IInv, RunsCounted, ClicksAhead, Unclicked
  <2>7. ClickOnUnrecorded' /\ SecondClickOnlyOnRerun'
    BY <2>1, <2>2 DEF IInv, ClickOnUnrecorded, SecondClickOnlyOnRerun
  <2> QED
    BY <1>1, <2>4, <2>5, <2>6, <2>7 DEF IInv
<1> QED BY <1>2, <1>3

\* sync rewrites only what it loaded, and pulling a row keeps it held.
LEMMA SyncIInv ==
    ASSUME WholeFileSavers \subseteq Alone, IInv,
           \/ StartSync \/ SaveSync \/ AbandonSync
           \/ \E k \in Jobs, s \in NotionEdits : EditNotion(k, s)
    PROVE  IInv'
<1> USE DEF preVars, subVars, openVars, ghosts
<1>1. TypeOK'
  BY SyncTypeOK DEF IInv
<1>2. CASE \/ StartSync \/ AbandonSync
           \/ \E k \in Jobs, s \in NotionEdits : EditNotion(k, s)
  <2>1. /\ UNCHANGED <<rows, preVars, context, subVars, used, clicked, reclicked,
                       rerun, released>>
        /\ \/ "pre" \notin running /\ running = {} /\ running' = {"sync"} /\ syncSnap' = rows
           \/ running' = running \ {"sync"} /\ syncSnap' = NoRows
           \/ running' = running /\ syncSnap' = syncSnap
    BY <1>2 DEF StartSync, Start, AbandonSync, Stop, EditNotion
  <2>2. KeptApart' /\ FreshSnapshots'
    BY <2>1 DEF IInv, KeptApart, FreshSnapshots
  <2>3. ClicksOnRecord' /\ RunsCounted' /\ ClicksAhead'
    BY <2>1 DEF IInv, ClicksOnRecord, RunsCounted, ClicksAhead, Unclicked
  <2>4. ClickOnUnrecorded' /\ SecondClickOnlyOnRerun'
    BY <2>1 DEF IInv, ClickOnUnrecorded, SecondClickOnlyOnRerun
  <2> QED
    BY <1>1, <2>2, <2>3, <2>4 DEF IInv
<1>3. CASE SaveSync
  <2>1. /\ "sync" \in running /\ running' = running \ {"sync"}
        /\ rows' = rows \/ rows' = [k \in Jobs |-> PulledRow(syncSnap[k], notion[k])]
        /\ UNCHANGED <<preVars, context, subVars, used, clicked, reclicked, rerun, released>>
    BY <1>3 DEF SaveSync, Stop
  <2>2. /\ prePhase = "off" /\ syncSnap = rows
        /\ \A j \in Jobs : pc[j] = "out"
    BY <2>1 DEF IInv, KeptApart, FreshSnapshots
  <2>3. ASSUME NEW k \in Jobs, Held(rows[k]) PROVE Held(rows'[k])
    <3>1. rows \in [Jobs -> Row] /\ rows[k] \in Row /\ notion[k] \in Statuses
      BY DEF IInv, TypeOK
    <3> QED
      BY <2>1, <2>2, <2>3, <3>1, HeldRows
  <2>4. KeptApart' /\ FreshSnapshots'
    BY <2>1, <2>2 DEF IInv, KeptApart, FreshSnapshots
  <2>5. ClicksOnRecord'
    BY <2>1, <2>2, <2>3 DEF IInv, ClicksOnRecord, TypeOK
  <2>6. RunsCounted' /\ ClicksAhead'
    BY <2>1, <2>2 DEF IInv, RunsCounted, ClicksAhead, Unclicked
  <2>7. ClickOnUnrecorded' /\ SecondClickOnlyOnRerun'
    BY <2>1, <2>2 DEF IInv, ClickOnUnrecorded, SecondClickOnlyOnRerun
  <2> QED
    BY <1>1, <2>4, <2>5, <2>6, <2>7 DEF IInv
<1> QED BY <1>2, <1>3

LEMMA StutterIInv == ASSUME IInv, UNCHANGED vars PROVE IInv'
<1> USE DEF vars, preVars, subVars, openVars, ghosts
<1>1. TypeOK'
  BY StutterTypeOK DEF IInv
<1>2. KeptApart' /\ FreshSnapshots' /\ ClicksOnRecord' /\ RunsCounted'
  BY DEF IInv, KeptApart, FreshSnapshots, ClicksOnRecord, RunsCounted
<1>3. ClicksAhead' /\ ClickOnUnrecorded' /\ SecondClickOnlyOnRerun'
  BY DEF IInv, ClicksAhead, Unclicked, ClickOnUnrecorded, SecondClickOnlyOnRerun
<1> QED
  BY <1>1, <1>2, <1>3 DEF IInv

\* The invariant is inductive when pre and sync run alone; submit and open may
\* run side by side.
THEOREM Inductive == ASSUME WholeFileSavers \subseteq Alone PROVE Spec => []IInv
<1>1. IInv /\ [Next]_vars => IInv'
  BY PreIInv, WorkerIInv, SubmitIInv, OpenIInv, SyncIInv, StutterIInv DEF Next
<1> QED
  BY <1>1, InitIInv, PTL DEF Spec

-----------------------------------------------------------------------------
(* What follows from it *)

\* A job the bot has clicked is never queued again (NeverRequeued).
THEOREM ClickedStaysOut == ASSUME WholeFileSavers \subseteq Alone PROVE Spec => []NeverRequeued
<1>1. IInv => NeverRequeued
  <2> SUFFICES ASSUME IInv, NEW k \in clicked \ released PROVE ~PassesGates(rows[k])
    BY DEF NeverRequeued
  <2>1. rows[k] \in Row /\ Held(rows[k])
    BY DEF IInv, TypeOK, ClicksOnRecord
  <2> QED
    BY <2>1, HeldRows
<1> QED
  BY <1>1, Inductive, PTL

\* A second click needs a second submit run on the same context, or a human
\* who cleared the row in between (SecondClickOnlyOnRerun).
THEOREM OneClickPerContext == ASSUME WholeFileSavers \subseteq Alone PROVE Spec => []SecondClickOnlyOnRerun
<1>1. IInv => SecondClickOnlyOnRerun
  BY DEF IInv
<1> QED
  BY <1>1, Inductive, PTL

\* What the double-apply guard read still holds at the click (ClickOnUnrecorded).
THEOREM GuardStillHolds == ASSUME WholeFileSavers \subseteq Alone PROVE Spec => []ClickOnUnrecorded
<1>1. IInv => ClickOnUnrecorded
  BY DEF IInv
<1> QED
  BY <1>1, Inductive, PTL

\* No rewrite of a row takes its application date away.
LEMMA RewritesKeepDate ==
    ASSUME NEW r \in Row, r.applied_date # ""
    PROVE  /\ MarkedRow(r).applied_date # "" /\ ClosedRow(r).applied_date # ""
           /\ AppliedRow(r, "manual").applied_date # ""
           /\ \A s \in Statuses : PulledRow(r, s).applied_date # ""
           /\ \A f \in Findings : PreRow(r, f).applied_date # ""
           /\ \A o \in Outcomes : SettledRow(r, o).applied_date # ""
<1> USE DEF Row
<1>1. MarkedRow(r).applied_date # "" /\ ClosedRow(r).applied_date # ""
      /\ AppliedRow(r, "manual").applied_date # ""
  BY DEF MarkedRow, ClosedRow, AppliedRow
<1>2. \A s \in Statuses : PulledRow(r, s).applied_date # ""
  BY DEF PulledRow
<1>3. \A f \in Findings : PreRow(r, f).applied_date # ""
  BY DEF PreRow, Findings, ManualRow, QueuedRow, ClosedRow, ArchivedRow
<1>4. \A o \in Outcomes : SettledRow(r, o).applied_date # ""
  BY DEF SettledRow, Outcomes, AppliedRow, FailedRow, ManualRow
<1> QED BY <1>1, <1>2, <1>3, <1>4

\* With pre and sync alone, no command loses the record of an application: those
\* two save what the file held when it was loaded (AppliedDateKept).
THEOREM DatesKept == ASSUME WholeFileSavers \subseteq Alone PROVE Spec => AppliedDateKept
<1> DEFINE Kept == \A k \in Jobs : rows[k].applied_date # "" => rows'[k].applied_date # ""
<1>1. ASSUME IInv, [Next]_vars PROVE [Kept]_rows
  <2> SUFFICES ASSUME rows' # rows, NEW k \in Jobs, rows[k].applied_date # ""
               PROVE  rows'[k].applied_date # ""
    OBVIOUS
  <2>1. TypeOK /\ rows \in [Jobs -> Row] /\ rows[k] \in Row /\ result \in [Jobs -> Outcomes]
        /\ notion[k] \in Statuses
    BY <1>1 DEF IInv, TypeOK
  <2>2. CASE SavePre
    <3>1. PICK found \in [Jobs -> Findings] :
            rows' = [j \in Jobs |-> PreRow(preSnap[j], found[j])]
      BY <2>2 DEF SavePre
    <3>2. preSnap = rows /\ found[k] \in Findings
      BY <1>1, <2>2, <3>1 DEF SavePre, IInv, FreshSnapshots
    <3> QED
      BY <2>1, <3>1, <3>2, RewritesKeepDate
  <2>3. CASE SaveSync
    <3>1. syncSnap = rows
      BY <1>1, <2>3 DEF SaveSync, IInv, FreshSnapshots
    <3>2. rows' = [j \in Jobs |-> PulledRow(rows[j], notion[j])]
      BY <2>3, <3>1 DEF SaveSync
    <3> QED
      BY <2>1, <3>2, RewritesKeepDate
  <2>4. ASSUME NEW j \in Jobs, Worker(j) PROVE rows'[k].applied_date # ""
    <3>1. CASE j # k
      BY <2>1, <2>4, <3>1, WorkerEffects
    <3>2. CASE j = k
      <4>1. rows'[k] \in {rows[k], MarkedRow(rows[k]), SettledRow(rows[k], result[k])}
        BY <2>1, <2>4, <3>2, WorkerEffects
      <4>2. result[k] \in Outcomes
        BY <2>1
      <4> QED
        BY <2>1, <4>1, <4>2, RewritesKeepDate
    <3> QED BY <3>1, <3>2
  <2>5. ASSUME NEW j \in Jobs, OpenFindsClosed(j) \/ OpenConfirmed(j)
        PROVE  rows'[k].applied_date # ""
    <3>1. rows'[k] \in {rows[k], ClosedRow(rows[k]), AppliedRow(rows[k], "manual")}
      BY <2>1, <2>5 DEF OpenFindsClosed, OpenConfirmed
    <3> QED
      BY <2>1, <3>1, RewritesKeepDate
  <2>6. SavePre \/ SaveSync
        \/ \E j \in Jobs : Worker(j) \/ OpenFindsClosed(j) \/ OpenConfirmed(j)
    BY <1>1 DEF Next, vars, StartPre, PushPre, WriteContext, CrashPre, StartSubmit,
                EndSubmit, CrashSubmit, PushOpen, AbandonOpen, StartSync, AbandonSync,
                StartOpen, EditNotion
  <2> QED BY <2>2, <2>3, <2>4, <2>5, <2>6
<1> QED
  BY <1>1, Inductive, PTL DEF Spec, AppliedDateKept

\* submit --dry-run writes no row and clicks nothing (DryRunTouchesNothing).
THEOREM DryRunIsDry ==
    ASSUME WholeFileSavers \subseteq Alone PROVE Spec => DryRunTouchesNothing
<1>1. ASSUME IInv, [Next]_vars
      PROVE  [dry => UNCHANGED <<pc, clicked>>]_<<rows, clicked>>
  <2> SUFFICES ASSUME dry, UNCHANGED <<rows, clicked>> => FALSE
               PROVE  UNCHANGED <<pc, clicked>>
    OBVIOUS
  <2>1. TypeOK /\ "submit" \in running
    BY <1>1 DEF IInv, KeptApart
  <2>2. ASSUME NEW k \in Jobs, Worker(k) PROVE FALSE
    <3>1. pc[k] \notin {"guarded", "marked"}
      BY <1>1 DEF IInv, RunsCounted
    <3> QED
      BY <2>1, <2>2, <3>1, WorkerEffects
  <2>3. CASE ~\E k \in Jobs : Worker(k)
    BY <1>1, <2>1, <2>3 DEF Next, StartPre, SavePre, PushPre, WriteContext, CrashPre,
         StartSubmit, Start, EndSubmit, CrashSubmit, PushOpen, AbandonOpen, StartSync,
         SaveSync, AbandonSync, StartOpen, OpenFindsClosed, OpenConfirmed, EditNotion,
         OpenOnly, ghosts, subVars, vars
  <2> QED BY <2>2, <2>3
<1> QED
  BY <1>1, Inductive, PTL DEF Spec, DryRunTouchesNothing

-----------------------------------------------------------------------------
(* The submit phase implements its pool's promise *)

\* A worker exists only inside a submit run; this needs no operator's habit.
WorkersInRun == \A k \in Jobs : pc[k] # "out" => "submit" \in running

LEMMA WorkersOnlyInRun == Spec => [](TypeOK /\ WorkersInRun)
<1>1. Init => WorkersInRun
  BY DEF Init, AllOut, WorkersInRun
<1>2. ASSUME TypeOK, WorkersInRun, [Next]_vars PROVE WorkersInRun'
  <2> USE DEF WorkersInRun, preVars, subVars, openVars, ghosts, vars
  <2>1. CASE StartPre \/ SavePre \/ PushPre \/ WriteContext \/ CrashPre
    BY <1>2, <2>1 DEF StartPre, SavePre, PushPre, WriteContext, CrashPre, Start, EndPre, Stop
  <2>2. CASE StartSubmit \/ EndSubmit \/ CrashSubmit
    BY <1>2, <2>2 DEF StartSubmit, EndSubmit, CrashSubmit, Start, EndRun, AllOut
  <2>3. ASSUME NEW k \in Jobs, Worker(k) PROVE WorkersInRun'
    BY <1>2, <2>3, WorkerEffects
  <2>4. CASE \/ PushOpen \/ AbandonOpen
             \/ \E k \in Jobs : StartOpen(k) \/ OpenFindsClosed(k) \/ OpenConfirmed(k)
    BY <1>2, <2>4 DEF PushOpen, AbandonOpen, StartOpen, OpenFindsClosed, OpenConfirmed,
                      Start, EndOpen, Stop, OpenOnly
  <2>5. CASE \/ StartSync \/ SaveSync \/ AbandonSync
             \/ \E k \in Jobs, s \in NotionEdits : EditNotion(k, s)
    BY <1>2, <2>5 DEF StartSync, SaveSync, AbandonSync, EditNotion, Start, Stop
  <2>6. CASE UNCHANGED vars
    BY <1>2, <2>6
  <2> QED BY <1>2, <2>1, <2>2, <2>3, <2>4, <2>5, <2>6 DEF Next
<1> QED
  BY <1>1, <1>2, TypeCorrect, PTL DEF Spec

\* At most Concurrency forms open at once, at most one per ATS board, and each
\* job handed to a worker once a run, for every pool size and every set of
\* jobs (SubmitKeepsPoolPromise).
THEOREM SubmitImplementsPool == Spec => SubmitKeepsPoolPromise
<1> DEFINE Bar(p) == CASE p = "out"     -> "idle"
                       [] p = "pending" -> "waiting"
                       [] p = "done"    -> "finished"
                       [] OTHER         -> "working"
           stageBar == [k \in Jobs |-> Bar(pc[k])]
<1>1. Init => SubmitPool!Init
  BY DEF Init, AllOut, SubmitPool!Init
<1>2. ASSUME TypeOK, WorkersInRun, [Next]_vars
      PROVE  SubmitPool!Next \/ UNCHANGED stageBar
  <2>1. CASE StartSubmit
    <3>1. PICK batch \in SUBSET Jobs : batch = context
      BY <1>2 DEF TypeOK
    <3>2. stageBar = [k \in Jobs |-> "idle"]
      BY <1>2, <2>1 DEF StartSubmit, Start, WorkersInRun
    <3>3. stageBar' = [k \in Jobs |-> IF k \in batch THEN "waiting" ELSE "idle"]
      BY <2>1, <3>1 DEF StartSubmit
    <3>4. SubmitPool!Begin(batch)
      BY <3>2, <3>3 DEF SubmitPool!Begin
    <3> QED
      BY <3>4 DEF SubmitPool!Next
  <2>2. CASE EndSubmit \/ CrashSubmit
    <3>1. stageBar' = [k \in Jobs |-> "idle"]
      BY <2>2 DEF EndSubmit, CrashSubmit, EndRun, AllOut
    <3> QED
      BY <3>1 DEF SubmitPool!Next, SubmitPool!Halt
  <2>3. ASSUME NEW k \in Jobs, Worker(k)
        PROVE  SubmitPool!Next \/ UNCHANGED stageBar
    <3>1. pc \in [Jobs -> WorkerSteps]
      BY <1>2 DEF TypeOK
    <3>2. ASSUME Admitted(k), NEW step \in WorkerSteps \ {"out", "pending", "done"},
                 SetPc(k, step)
          PROVE  SubmitPool!Next
      <4>1. stageBar' = [stageBar EXCEPT ![k] = "working"]
        BY <3>1, <3>2 DEF SetPc
      <4>2. SubmitPool!Working = InFlight
        BY <3>1 DEF SubmitPool!Working, InFlight, WorkerSteps
      <4>3. SubmitPool!Cardinality(InFlight) = Cardinality(InFlight)
        BY DEF Cardinality, SubmitPool!Cardinality
      <4>4. stageBar[k] = "waiting" /\ Cardinality(InFlight) < Concurrency
            /\ \A j \in InFlight : Tenant[j] # Tenant[k]
        BY <3>2 DEF Admitted, Pending
      <4>5. SubmitPool!Take(k)
        BY <4>1, <4>2, <4>3, <4>4 DEF SubmitPool!Take
      <4> QED
        BY <4>5 DEF SubmitPool!Next
    <3>3. ASSUME pc[k] \notin {"out", "pending", "done"}, NEW step \in WorkerSteps,
                 step \notin {"out", "pending", "done"}, SetPc(k, step)
          PROVE  UNCHANGED stageBar
      BY <3>1, <3>3 DEF SetPc
    <3>4. ASSUME pc[k] \notin {"out", "pending", "done"}, SetPc(k, "done")
          PROVE  SubmitPool!Next
      <4>1. stageBar' = [stageBar EXCEPT ![k] = "finished"] /\ stageBar[k] = "working"
        BY <3>1, <3>4 DEF SetPc
      <4> QED
        BY <4>1 DEF SubmitPool!Next, SubmitPool!Finish
    <3>5. CASE PastDeadline(k) \/ NoHonestAnswer(k) \/ SkipAtFirstGuard(k) \/ OpenForm(k)
      BY <3>2, <3>5 DEF PastDeadline, NoHonestAnswer, SkipAtFirstGuard, OpenForm, Decide,
                        WorkerSteps
    <3>6. CASE StopBeforeClick(k) \/ StopDryRun(k) \/ SkipAtFinalGuard(k)
               \/ PassFinalGuard(k) \/ Mark(k)
      BY <3>3, <3>6 DEF StopBeforeClick, StopDryRun, SkipAtFinalGuard, PassFinalGuard,
                        Mark, Decide, WorkerSteps
    <3>7. CASE Click(k) \/ EnterCode(k) \/ CheckMailbox(k)
      BY <3>3, <3>7 DEF Click, EnterCode, CheckMailbox, Decide, WorkerSteps
    <3>8. CASE Record(k) \/ FailToRecord(k) \/ PushApplied(k)
      BY <3>3, <3>4, <3>8 DEF Record, FailToRecord, PushApplied, WorkerSteps
    <3> QED
      BY <2>3, <3>5, <3>6, <3>7, <3>8 DEF Worker
  <2>4. CASE pc' = pc
    BY <2>4
  <2>5. StartSubmit \/ EndSubmit \/ CrashSubmit \/ (\E k \in Jobs : Worker(k)) \/ pc' = pc
    BY <1>2 DEF Next, vars, subVars, StartPre, SavePre, PushPre, WriteContext, CrashPre,
                PushOpen, AbandonOpen, StartSync, SaveSync, AbandonSync, StartOpen,
                OpenFindsClosed, OpenConfirmed, EditNotion, OpenOnly
  <2> QED BY <2>1, <2>2, <2>3, <2>4, <2>5
<1> QED
  BY <1>1, <1>2, WorkersOnlyInRun, PTL DEF Spec, SubmitKeepsPoolPromise, SubmitPool!Spec
=============================================================================
