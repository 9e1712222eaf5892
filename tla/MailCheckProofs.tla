-------------------------- MODULE MailCheckProofs ---------------------------
(* Theorems about MailCheck, for any jobs, mails, texts and bounds. *)
EXTENDS MailCheck, TLAPS, FiniteSetTheorems

-----------------------------------------------------------------------------
(* The inductive invariant *)

Running == {"act", "log", "finish"}

\* What a run has in hand in each phase.
RunShape ==
    /\ phase = "off" => Idle
    /\ phase = "fetch" =>
          /\ batch = {} /\ todo = {} /\ half = NoMail
          /\ savedIds = processed
          /\ now - MaxDays <= epoch
    /\ phase \in {"log", "finish"} => todo = {}
    /\ todo \subseteq Actionable(batch, bound, reprocess)
    /\ half # NoMail => phase = "act" /\ half \in todo /\ Moving(half)
    /\ \A j \in Jobs : pushed[j] # "none" =>
          todo # Actionable(batch, bound, reprocess)

\* No stamp lies in the future, and only mails that arrived are handled.
Times ==
    /\ lastCheck <= clock /\ now <= clock /\ readAt <= clock
    /\ context.epoch <= clock
    /\ \A m \in Mails : arrived[m] <= clock
    /\ \A m \in batch \cup raw : arrived[m] # 0
    /\ \A m \in Mails : comments[m] > 0 => arrived[m] # 0

Handled(m) == comments[m] > 0 \/ m \in excused \cup inbox \cup contacted

\* Every mail of a batch is handled, or what remains of the run will handle it.
BatchAhead ==
    /\ \A m \in processed : Handled(m)
    /\ \A m \in batch :
          \/ Handled(m)
          \/ phase = "act" /\ m \in todo \cup fresh
          \/ phase \in {"act", "log"} /\ m \in contacts

\* A mail that came no later than time t is looked at, cut off its queries, late, or
\* too old.
Seen(m, t) == m \in looked \cup cut \cup late \/ arrived[m] <= t - MaxDays

Came(m, t) == arrived[m] # 0 /\ arrived[m] <= t

\* Wherever the cursor may come to stand, the mails before it are seen or in
\* the hands of a run or of the assistant.
Covered ==
    /\ processed \subseteq looked /\ context.ids \subseteq looked
    /\ \A m \in Mails : Came(m, lastCheck) => Seen(m, lastCheck)
    /\ phase = "fetch" =>
          \A m \in Mails : Came(m, now) => Seen(m, now) \/ arrived[m] > epoch
    /\ phase \in Running =>
          \A m \in Mails : Came(m, now) => Seen(m, now) \/ m \in batch
    /\ context.made => \A m \in Mails : Came(m, context.epoch) => Seen(m, clock)
    /\ \A m \in Mails : Came(m, readAt) => Seen(m, clock) \/ m \in raw

\* One comment is still free for this mail.
Free(m) == comments[m] <= mishaps

\* A mail with no comment free is out of reach of every run that would count.
CommentsAhead ==
    /\ CommentsBounded
    /\ \A m \in todo : Free(m)
    /\ \A m \in Mails :
          \/ Free(m)
          \/ m \in processed
          \/ arrived[m] <= clock - MaxDays
          \/ phase \in Running /\ m \in batch
    /\ phase = "fetch" => \A m \in Mails :
          Free(m) \/ m \in processed \/ arrived[m] <= epoch
    /\ phase = "fetch" /\ reprocess => \A m \in Mails : Free(m)
    /\ handedOver # "used" => context.made
    /\ phase \in {"off", "fetch"} /\ handedOver # "used" => \A m \in Mails :
          Free(m) \/ m \in context.ids \/ arrived[m] <= context.epoch
    /\ handedOver = "ready" => raw \subseteq InWindow(context.epoch)

\* The status a row will have once the run has saved the file.
Expected(j) ==
    IF phase # "act" THEN status[j]
    ELSE IF half # NoMail /\ bound[half] = j THEN NewStatus[Kind[half]]
    ELSE IF pushed[j] # "none" THEN pushed[j]
    ELSE status[j]

PagesAgree == \A j \in Jobs \ apart : Expected(j) = notion[j]

IInv ==
    /\ TypeOK /\ RunShape /\ Times
    /\ BatchAhead /\ Covered /\ CommentsAhead /\ PagesAgree

-----------------------------------------------------------------------------
(* Lemmas about the operators *)

\* The bounds are numbers.
LEMMA Bounds == MaxDays \in Nat /\ MaxClock \in Nat /\ MaxMishaps \in Nat
BY ConstantsAssumption

\* computeCursorEpoch answers its cursor or the oldest day, whichever is later.
LEMMA CursorBounds ==
    ASSUME NEW cursor \in Int, NEW time \in Int
    PROVE  /\ CursorEpoch(cursor, time) \in Int
           /\ CursorEpoch(cursor, time) \in {cursor, time - MaxDays}
           /\ CursorEpoch(cursor, time) >= cursor
           /\ CursorEpoch(cursor, time) >= time - MaxDays
BY Bounds DEF CursorEpoch

\* --since sets the window as a cursor would.
LEMMA StartAutoEpoch ==
    ASSUME StartAuto, TypeOK
    PROVE  \E cursor \in Nat :
              /\ epoch' = CursorEpoch(cursor, clock)
              /\ cursor = lastCheck \/ cursor \in 0..clock
              /\ cursor = lastCheck \/ InWindow(lastCheck) \ InWindow(epoch') \subseteq looked'
<1>1. PICK mode \in Modes \ {"two_phase"} :
        /\ mode = "cursor" => epoch' = CursorEpoch(lastCheck, clock)
        /\ mode # "cursor" => \E since \in 0..clock : epoch' = CursorEpoch(since, clock)
        /\ looked' = IF mode = "cursor" THEN looked
                     ELSE looked \cup (InWindow(lastCheck) \ InWindow(epoch'))
  BY DEF StartAuto
<1>2. lastCheck \in Nat /\ clock \in Nat
  <2>1. lastCheck \in 0..MaxClock /\ clock \in 0..MaxClock
    BY DEF TypeOK
  <2> QED BY <2>1, Bounds
<1>3. CASE mode = "cursor"
  BY <1>1, <1>2, <1>3
<1>4. CASE mode # "cursor"
  BY <1>1, <1>2, <1>4
<1> QED BY <1>3, <1>4

\* The types of what a run has in hand.
RunTypes ==
    /\ now \in 0..MaxClock
    /\ epoch \in Int
    /\ reprocess \in BOOLEAN
    /\ savedIds \in SUBSET Mails
    /\ active \in SUBSET Jobs
    /\ batch \in SUBSET Mails /\ todo \in SUBSET Mails
    /\ half \in Mails \cup {NoMail}
    /\ bound \in [Mails -> Jobs \cup {NoJob}]
    /\ fresh \in SUBSET Mails /\ contacts \in SUBSET Mails
    /\ pushed \in [Jobs -> Statuses \cup {"none"}]

\* With nothing in hand the types of the run hold.
LEMMA IdleTypes ==
    ASSUME Idle PROVE RunTypes
<1>1. now \in 0..MaxClock /\ epoch \in Int
  <2>1. now = 0 /\ epoch = 0
    BY DEF Idle
  <2> QED BY <2>1, Bounds
<1>2. reprocess \in BOOLEAN
  BY DEF Idle
<1>3. bound \in [Mails -> Jobs \cup {NoJob}] /\ pushed \in [Jobs -> Statuses \cup {"none"}]
  BY DEF Idle
<1>4. /\ savedIds \in SUBSET Mails /\ active \in SUBSET Jobs
      /\ batch \in SUBSET Mails /\ todo \in SUBSET Mails /\ half \in Mails \cup {NoMail}
      /\ fresh \in SUBSET Mails /\ contacts \in SUBSET Mails
  BY DEF Idle
<1> QED BY <1>1, <1>2, <1>3, <1>4 DEF RunTypes

\* A run that ends leaves nothing in hand.
LEMMA EndRunIdles ==
    ASSUME EndRun PROVE phase' = "off" /\ Idle' /\ RunTypes'
<1>1. phase' = "off" /\ Idle'
  BY DEF EndRun, Idle
<1>2. Idle' => RunTypes'
  BY IdleTypes, PTL
<1> QED BY <1>1, <1>2

\* What planning the actions of a batch sets.
Planned(mails, again) ==
    /\ batch' = mails /\ epoch' = 0 /\ savedIds' = {} /\ active' = {}
    /\ todo' = Actionable(mails, bound', again) /\ todo' \subseteq mails
    /\ bound' \in [Mails -> Jobs \cup {NoJob}]
    /\ fresh' \subseteq mails /\ contacts' \subseteq mails
    /\ excused' = excused \cup (mails \ (todo' \cup fresh' \cup contacts'))
    /\ excused' \in SUBSET Mails

\* The matcher answers with a row of the set it is given.
LEMMA MatchedIsRow ==
    ASSUME NEW mail, NEW jobs PROVE Matched(mail, jobs) \subseteq jobs
BY DEF Matched, FindRole, FirstRow

\* findCompany finds one employer or none: ties are broken or given up.
LEMMA OneEmployer ==
    ASSUME NEW mail, NEW employers,
           NEW e \in FindCompany(mail, employers), NEW f \in FindCompany(mail, employers)
    PROVE  e = f
<1>1. ASSUME NEW text, NEW d \in Named(employers, text), NEW g \in Named(employers, text)
      PROVE  d = g
  BY DEF Named, PickBest
<1> QED BY <1>1 DEF FindCompany

\* The row a mail is matched to is the only match: no order of iteration decides.
THEOREM OneMatch ==
    ASSUME NEW mail, NEW jobs \in SUBSET Jobs,
           NEW j \in Matched(mail, jobs), NEW k \in Matched(mail, jobs)
    PROVE  j = k
<1> DEFINE theirs == {r \in jobs : Row[r].employer \in FindCompany(mail, Employers(jobs))}
<1>1. j \in FindRole(mail, theirs) /\ k \in FindRole(mail, theirs) /\ theirs \subseteq Jobs
  BY DEF Matched
<1> HIDE DEF theirs
<1>2. ASSUME NEW rows \in SUBSET Jobs, j \in FirstRow(rows), k \in FirstRow(rows)
      PROVE  j = k
  <2>1. Row[j].place <= Row[k].place /\ Row[k].place <= Row[j].place
    BY <1>2 DEF FirstRow
  <2>2. j \in Jobs /\ k \in Jobs
    BY <1>2 DEF FirstRow
  <2> QED BY <2>1, <2>2, MailroomAssumption
<1>3. CASE Cardinality(theirs) = 1
  <2>1. IsFiniteSet(theirs)
    BY <1>1, FS_Subset, MailroomAssumption
  <2> QED BY <1>1, <1>3, <2>1, FS_Singleton DEF FindRole
<1>4. CASE Cardinality(theirs) # 1
  <2>1. \E rows \in SUBSET Jobs : j \in FirstRow(rows) /\ k \in FirstRow(rows)
    BY <1>1, <1>4 DEF FindRole
  <2> QED BY <2>1, <1>2
<1> QED BY <1>3, <1>4

\* A mail is matched only to a row whose employer it names, by one of its names
\* or aliases, in the sender, the subject or the body.
THEOREM MatchNamesEmployer ==
    ASSUME NEW mail, NEW jobs, NEW j \in Matched(mail, jobs)
    PROVE  \E name \in Row[j].employer.names : name.long \cap (mail.head \cup mail.body) # {}
<1>1. Row[j].employer \in FindCompany(mail, Employers(jobs))
  BY DEF Matched, FindRole, FirstRow
<1>2. ASSUME NEW employers, NEW text, NEW e \in Named(employers, text)
      PROVE  \E name \in e.names : name.long \cap text # {}
  BY <1>2 DEF Named, PickBest, Best
<1>3. PICK text \in {mail.head, mail.body} :
        Row[j].employer \in Named(Employers(jobs), text)
  BY <1>1 DEF FindCompany
<1>4. PICK name \in Row[j].employer.names : name.long \cap text # {}
  BY <1>2, <1>3
<1> QED BY <1>3, <1>4

\* So a mail is bound to one of the rows, or to none.
LEMMA BindingTypes ==
    ASSUME NEW mails, NEW jobs \in SUBSET Jobs
    PROVE  Bindings(mails, jobs) \in [Mails -> Jobs \cup {NoJob}]
<1>1. ASSUME NEW m \in Mails, Matched(Mail[m], jobs) # {}
      PROVE  (CHOOSE j \in Matched(Mail[m], jobs) : TRUE) \in Jobs
  BY <1>1, MatchedIsRow
<1> QED BY <1>1 DEF Bindings

\* What processEmailsLoop plans is planned for its batch.
LEMMA PlanTypes ==
    ASSUME TypeOK, NEW mails \in SUBSET Mails, NEW jobs \in SUBSET Jobs, NEW again \in BOOLEAN,
           PlanActions(mails, jobs, again)
    PROVE  Planned(mails, again)
<1>1. batch' = mails /\ epoch' = 0 /\ savedIds' = {} /\ active' = {}
  BY DEF PlanActions
<1>2. bound' \in [Mails -> Jobs \cup {NoJob}]
  BY BindingTypes DEF PlanActions
<1>3. todo' = Actionable(mails, bound', again) /\ todo' \subseteq mails
  BY DEF PlanActions, Actionable
<1>4. fresh' \subseteq mails /\ contacts' \subseteq mails
  BY DEF PlanActions, LeadRows, Leads, Contacts
<1>5. /\ excused' = excused \cup (mails \ (todo' \cup fresh' \cup contacts'))
      /\ excused' \in SUBSET Mails
  BY DEF PlanActions, TypeOK
<1> QED BY <1>1, <1>2, <1>3, <1>4, <1>5 DEF Planned

\* The mailboxes have answered: nothing new, or a batch.
FetchedNothing(found) ==
    /\ ~reprocess => found \subseteq savedIds
    /\ reprocess => found = {}
    /\ processed' = {m \in savedIds : arrived[m] >= now - MaxDays} /\ lastCheck' = now
    /\ EndRun /\ handedOver' = "used" /\ excused' = excused

FetchedNew(found, new, again) ==
    /\ again = reprocess /\ new = IF again THEN found ELSE found \ savedIds
    /\ Planned(new, again) /\ phase' = "act"
    /\ UNCHANGED <<processed, lastCheck, now, reprocess, half, pushed, handedOver>>

\* What became of the mails of a window that a reading did not return.
LeftOut(window, found) ==
    /\ looked \subseteq looked' /\ cut \subseteq cut'
    /\ looked' \in SUBSET Mails /\ cut' \in SUBSET Mails
    /\ window \subseteq found \cup looked' \cup cut'

Reached == {m \in InWindow(epoch) : arrived[m] <= now}

\* A fetch ends the run or hands over a batch.
LEMMA FetchEffect ==
    ASSUME TypeOK, FetchMails
    PROVE  \E found \in SUBSET InWindow(epoch) :
              /\ LeftOut(Reached, found)
              /\ \/ FetchedNothing(found)
                 \/ \E new \in SUBSET Mails, again \in BOOLEAN : FetchedNew(found, new, again)
<1>1. PICK found \in SUBSET InWindow(epoch) :
        LET new == IF reprocess THEN found ELSE found \ savedIds
        IN  /\ looked' = looked \cup (Reached \ (found \cup Queried(active)))
            /\ cut' = cut \cup ((Reached \cap Queried(active)) \ found)
            /\ \/ /\ new = {} /\ SaveIds(savedIds, now) /\ EndRun /\ handedOver' = "used"
                  /\ UNCHANGED excused
               \/ /\ PlanActions(new, active, reprocess) /\ phase' = "act"
                  /\ UNCHANGED <<processed, lastCheck, now, reprocess, half, pushed,
                                 handedOver>>
  BY DEF FetchMails, Reached
<1>2. LeftOut(Reached, found)
  BY <1>1 DEF LeftOut, Reached, InWindow, TypeOK
<1>3. PICK new \in SUBSET Mails, jobs \in SUBSET Jobs, again \in BOOLEAN :
        /\ jobs = active /\ again = reprocess
        /\ new = IF reprocess THEN found ELSE found \ savedIds
  BY DEF TypeOK, InWindow
<1>4. CASE new = {} /\ SaveIds(savedIds, now) /\ EndRun /\ handedOver' = "used"
           /\ excused' = excused
  BY <1>1, <1>2, <1>3, <1>4 DEF FetchedNothing, SaveIds
<1>5. CASE /\ PlanActions(new, jobs, again) /\ phase' = "act"
           /\ UNCHANGED <<processed, lastCheck, now, reprocess, half, pushed, handedOver>>
  <2>1. Planned(new, again)
    BY <1>5, PlanTypes
  <2>2. FetchedNew(found, new, again)
    BY <1>3, <1>5, <2>1 DEF FetchedNew
  <2> QED BY <1>2, <2>2
<1>6. \/ new = {} /\ SaveIds(savedIds, now) /\ EndRun /\ handedOver' = "used"
         /\ excused' = excused
      \/ /\ PlanActions(new, jobs, again) /\ phase' = "act"
         /\ UNCHANGED <<processed, lastCheck, now, reprocess, half, pushed, handedOver>>
  BY <1>1, <1>3 DEF PlanActions
<1> QED BY <1>4, <1>5, <1>6

\* The apply phase starts: nothing new, or a batch.
AppliedNothing ==
    /\ raw \subseteq context.ids
    /\ processed' = {m \in processed : arrived[m] >= clock - MaxDays} /\ lastCheck' = clock
    /\ handedOver' = "used" /\ UNCHANGED <<phase, runVars, excused>>

AppliedNew(new, again) ==
    /\ new = raw \ context.ids /\ ~again
    /\ Planned(new, again) /\ phase' = "act" /\ now' = clock
    /\ UNCHANGED <<processed, lastCheck, reprocess, half, pushed, handedOver>>

\* So does the start of an apply phase.
LEMMA ApplyEffect ==
    ASSUME TypeOK, StartApply
    PROVE  \/ AppliedNothing
           \/ \E new \in SUBSET Mails, again \in BOOLEAN : AppliedNew(new, again)
<1>1. CASE raw \ context.ids = {}
  BY <1>1 DEF StartApply, SaveIds, AppliedNothing
<1>2. CASE raw \ context.ids # {}
  <2>1. PICK new \in SUBSET Mails, jobs \in SUBSET Jobs, again \in BOOLEAN :
          new = raw \ context.ids /\ jobs = context.active /\ again = FALSE
    BY DEF TypeOK
  <2>2. PlanActions(new, jobs, again)
    BY <1>2, <2>1 DEF StartApply, PlanActions
  <2>3. Planned(new, again)
    BY <2>2, PlanTypes
  <2>4. AppliedNew(new, again)
    BY <1>2, <2>1, <2>3 DEF StartApply, AppliedNew
  <2> QED BY <2>4
<1> QED BY <1>1, <1>2

\* A mail that moves a job moves it to a status of the ledger.
LEMMA NewStatusTypes ==
    ASSUME NEW m \in Mails, Moving(m) PROVE NewStatus[Kind[m]] \in Statuses
<1>1. /\ DOMAIN NewStatus = {"rejection", "closed", "invite"}
      /\ NewStatus["rejection"] = "Rejected" /\ NewStatus["closed"] = "Closed"
      /\ NewStatus["invite"] = "Interview"
  BY DEF NewStatus
<1>2. {"Rejected", "Closed", "Interview"} \subseteq Statuses
  BY DEF Statuses, ActiveStatuses
<1> QED BY <1>1, <1>2 DEF Moving

\* A mail with a call to make is bound to a job.
LEMMA TodoIsBound ==
    ASSUME TypeOK, RunShape, NEW m \in todo PROVE m \in batch /\ bound[m] \in Jobs
BY DEF TypeOK, RunShape, Actionable

-----------------------------------------------------------------------------
(* Every conjunct of the invariant is kept *)

\* Every step keeps the types.
LEMMA TypeStep ==
    ASSUME TypeOK, RunShape, [Next]_vars
    PROVE  TypeOK'
<1> USE Bounds DEF runVars, fileVars, handOver, mailVars, history
<1>1. CASE StartAuto
  <2>1. epoch' \in Int
    <3>1. clock \in Int
      BY DEF TypeOK
    <3> QED BY <1>1, <3>1, StartAutoEpoch, CursorBounds
  <2>2. looked' \in SUBSET Mails /\ active' \in SUBSET Jobs
    BY <1>1 DEF StartAuto, TypeOK, InWindow, ActiveJobs
  <2>3. reprocess' \in BOOLEAN /\ mishaps' \in Nat
    BY <1>1 DEF StartAuto, TypeOK
  <2> QED BY <1>1, <2>1, <2>2, <2>3 DEF StartAuto, TypeOK
<1>2. CASE FetchMails
  <2>1. PICK found \in SUBSET InWindow(epoch) :
          /\ LeftOut(Reached, found)
          /\ \/ FetchedNothing(found)
             \/ \E new \in SUBSET Mails, again \in BOOLEAN : FetchedNew(found, new, again)
    BY <1>2, FetchEffect
  <2>2. looked' \in SUBSET Mails /\ cut' \in SUBSET Mails
    BY <2>1 DEF LeftOut
  <2>3. CASE FetchedNothing(found)
    <3>1. RunTypes' /\ phase' = "off"
      BY <2>3, EndRunIdles DEF FetchedNothing
    <3>2. /\ processed' \in SUBSET Mails /\ lastCheck' \in 0..MaxClock
          /\ handedOver' = "used" /\ excused' = excused
      BY <2>3 DEF FetchedNothing, TypeOK
    <3> QED BY <1>2, <2>2, <3>1, <3>2 DEF FetchMails, TypeOK, RunTypes
  <2>4. ASSUME NEW new \in SUBSET Mails, NEW again \in BOOLEAN, FetchedNew(found, new, again)
        PROVE  TypeOK'
    <3>1. /\ batch' \in SUBSET Mails /\ epoch' \in Int /\ savedIds' = {} /\ active' = {}
          /\ todo' \in SUBSET Mails /\ bound' \in [Mails -> Jobs \cup {NoJob}]
          /\ fresh' \in SUBSET Mails /\ contacts' \in SUBSET Mails
          /\ excused' \in SUBSET Mails
      BY <2>4 DEF FetchedNew, Planned
    <3> QED BY <1>2, <2>2, <2>4, <3>1 DEF FetchMails, FetchedNew, TypeOK
  <2> QED BY <2>1, <2>3, <2>4
<1>3. CASE Prepare
  <2>1. context' \in [epoch: Int, ids: SUBSET Mails, active: SUBSET Jobs, made: BOOLEAN]
    <3>1. CursorEpoch(lastCheck, clock) \in Int
      BY CursorBounds DEF TypeOK
    <3> QED BY <1>3, <3>1 DEF Prepare, TypeOK, ActiveJobs
  <2> QED BY <1>3, <2>1 DEF Prepare, TypeOK
<1>4. CASE ReadMails
  <2>1. looked' \in SUBSET Mails /\ cut' \in SUBSET Mails /\ raw' \in SUBSET Mails
    BY <1>4 DEF ReadMails, TypeOK, InWindow
  <2>2. readAt' \in 0..MaxClock /\ handedOver' \in {"unread", "ready", "used"}
    BY <1>4 DEF ReadMails, TypeOK
  <2> QED BY <1>4, <2>1, <2>2 DEF ReadMails, TypeOK
<1>5. CASE StartApply
  <2>1. late' \in SUBSET Mails /\ mishaps' \in Nat
    BY <1>5 DEF StartApply, TypeOK, InWindow
  <2>2. CASE AppliedNothing
    <3>1. processed' \in SUBSET Mails /\ lastCheck' \in 0..MaxClock
      BY <2>2 DEF AppliedNothing, TypeOK
    <3> QED BY <1>5, <2>1, <2>2, <3>1 DEF StartApply, AppliedNothing, TypeOK
  <2>3. ASSUME NEW new \in SUBSET Mails, NEW again \in BOOLEAN, AppliedNew(new, again)
        PROVE  TypeOK'
    <3>1. /\ batch' \in SUBSET Mails /\ epoch' \in Int /\ savedIds' = {} /\ active' = {}
          /\ todo' \in SUBSET Mails /\ bound' \in [Mails -> Jobs \cup {NoJob}]
          /\ fresh' \in SUBSET Mails /\ contacts' \in SUBSET Mails
          /\ excused' \in SUBSET Mails
      BY <2>3 DEF AppliedNew, Planned
    <3> QED BY <1>5, <2>1, <2>3, <3>1 DEF StartApply, AppliedNew, TypeOK
  <2> QED BY <1>5, <2>2, <2>3, ApplyEffect
<1>6. CASE RefuseWithoutToken
  BY <1>6, EndRunIdles DEF RefuseWithoutToken, TypeOK, RunTypes
<1>7. CASE SaveTsv
  BY <1>7 DEF SaveTsv, TypeOK
<1>8. CASE WriteLogs
  BY <1>8 DEF WriteLogs, TypeOK
<1>9. CASE SaveProcessed
  <2>1. processed' \in SUBSET Mails /\ lastCheck' \in 0..MaxClock /\ looked' \in SUBSET Mails
    BY <1>9 DEF SaveProcessed, SaveIds, TypeOK
  <2> QED BY <1>9, <2>1, EndRunIdles DEF SaveProcessed, TypeOK, RunTypes
<1>10. CASE Crash
  <2>1. apart' \in SUBSET Jobs /\ mishaps' \in Nat
    BY <1>10 DEF Crash, TypeOK
  <2> QED BY <1>10, <2>1, EndRunIdles DEF Crash, TypeOK, RunTypes
<1>11. CASE Tick
  BY <1>11 DEF Tick, TypeOK
<1>12. CASE Sync
  BY <1>12 DEF Sync, TypeOK
<1>13. ASSUME NEW m \in Mails, UpdateStatus(m) PROVE TypeOK'
  <2>1. notion' \in [Jobs -> Statuses]
    BY <1>13, NewStatusTypes DEF UpdateStatus, TypeOK
  <2> QED BY <1>13, <2>1 DEF UpdateStatus, Acting, TypeOK
<1>14. ASSUME NEW m \in Mails, AddComment(m) PROVE TypeOK'
  <2>1. comments' \in [Mails -> Nat]
    BY <1>14 DEF AddComment, TypeOK
  <2>2. pushed' \in [Jobs -> Statuses \cup {"none"}]
    BY <1>14, NewStatusTypes DEF AddComment, TypeOK
  <2> QED BY <1>14, <2>1, <2>2 DEF AddComment, Acting, Give, TypeOK
<1>15. ASSUME NEW m \in Mails, NotionError(m) PROVE TypeOK'
  <2>1. half = m => bound[m] \in Jobs
    BY <1>15, TodoIsBound, ConstantsAssumption DEF RunShape
  <2>2. apart' \in SUBSET Jobs
    BY <1>15, <2>1 DEF NotionError, TypeOK
  <2> QED BY <1>15, <2>2 DEF NotionError, Acting, Give, TypeOK
<1>16. ASSUME NEW m \in Mails, Arrive(m) PROVE TypeOK'
  BY <1>16 DEF Arrive, TypeOK
<1>17. ASSUME NEW j \in Jobs, NEW s \in Moves, EditNotion(j, s) PROVE TypeOK'
  <2>1. s \in Statuses
    BY ConstantsAssumption
  <2>2. notion' \in [Jobs -> Statuses] /\ apart' \in SUBSET Jobs
    BY <1>17, <2>1 DEF EditNotion, TypeOK
  <2> QED BY <1>17, <2>2 DEF EditNotion, TypeOK
<1>18. CASE UNCHANGED vars
  BY <1>18 DEF vars, TypeOK
<1> QED BY <1>1, <1>2, <1>3, <1>4, <1>5, <1>6, <1>7, <1>8, <1>9, <1>10, <1>11, <1>12,
           <1>13, <1>14, <1>15, <1>16, <1>17, <1>18 DEF Next, CallNotion

\* Every step keeps the shape of a run.
LEMMA ShapeStep ==
    ASSUME TypeOK, RunShape, [Next]_vars
    PROVE  RunShape'
<1> USE Bounds DEF runVars, fileVars, handOver, mailVars, history
<1>1. CASE StartAuto
  <2>1. epoch' >= now' - MaxDays
    <3>1. now' = clock /\ clock \in Int
      BY <1>1 DEF StartAuto, TypeOK
    <3> QED BY <1>1, <3>1, StartAutoEpoch, CursorBounds
  <2>2. epoch' \in Int /\ now' \in Int
    <3>1. TypeOK'
      BY TypeStep
    <3> QED BY <3>1 DEF TypeOK
  <2>3. Idle
    BY <1>1 DEF StartAuto, RunShape
  <2>4. /\ phase' = "fetch" /\ savedIds' = processed' /\ batch' = {} /\ todo' = {}
        /\ half' = NoMail /\ \A j \in Jobs : pushed'[j] = "none"
    BY <1>1, <2>3 DEF StartAuto, Idle
  <2> QED BY <2>1, <2>2, <2>4 DEF RunShape
<1>2. CASE FetchMails
  BY <1>2 DEF FetchMails, EndRun, PlanActions, RunShape, Idle, Actionable
<1>3. CASE Prepare
  BY <1>3 DEF Prepare, RunShape, Idle
<1>4. CASE ReadMails
  BY <1>4 DEF ReadMails, RunShape, Idle
<1>5. CASE StartApply
  BY <1>5 DEF StartApply, PlanActions, RunShape, Idle
<1>6. CASE RefuseWithoutToken
  BY <1>6 DEF RefuseWithoutToken, EndRun, RunShape, Idle
<1>7. CASE SaveTsv
  BY <1>7 DEF SaveTsv, RunShape
<1>8. CASE WriteLogs
  BY <1>8 DEF WriteLogs, RunShape
<1>9. CASE SaveProcessed
  BY <1>9 DEF SaveProcessed, EndRun, RunShape, Idle
<1>10. CASE Crash
  BY <1>10 DEF Crash, EndRun, RunShape, Idle
<1>11. CASE Tick
  BY <1>11 DEF Tick, RunShape, Idle
<1>12. CASE Sync
  BY <1>12 DEF Sync, RunShape, Idle
<1>13. ASSUME NEW m \in Mails, UpdateStatus(m) PROVE RunShape'
  BY <1>13 DEF UpdateStatus, Acting, RunShape
<1>14. ASSUME NEW m \in Mails, AddComment(m) PROVE RunShape'
  <2>1. m \in todo
    BY <1>14, ConstantsAssumption DEF AddComment, RunShape
  <2>2. m \in Actionable(batch', bound', reprocess') /\ m \notin todo'
    BY <1>14, <2>1 DEF AddComment, Acting, Give, RunShape
  <2>3. todo' \subseteq Actionable(batch', bound', reprocess') /\ half' = NoMail
    BY <1>14, <2>1 DEF AddComment, Acting, Give, RunShape
  <2>4. phase' = "act"
    BY <1>14 DEF AddComment, Acting
  <2> QED BY <2>2, <2>3, <2>4 DEF RunShape
<1>15. ASSUME NEW m \in Mails, NotionError(m) PROVE RunShape'
  BY <1>15 DEF NotionError, Acting, Give, RunShape, Actionable
<1>16. ASSUME NEW m \in Mails, Arrive(m) PROVE RunShape'
  BY <1>16 DEF Arrive, RunShape, Idle
<1>17. ASSUME NEW j \in Jobs, NEW s \in Moves, EditNotion(j, s) PROVE RunShape'
  BY <1>17 DEF EditNotion, RunShape, Idle
<1>18. CASE UNCHANGED vars
  BY <1>18 DEF vars, RunShape, Idle
<1> QED BY <1>1, <1>2, <1>3, <1>4, <1>5, <1>6, <1>7, <1>8, <1>9, <1>10, <1>11, <1>12,
           <1>13, <1>14, <1>15, <1>16, <1>17, <1>18 DEF Next, CallNotion

\* Every step keeps the stamps in order.
LEMMA TimesStep ==
    ASSUME TypeOK, RunShape, Times, [Next]_vars
    PROVE  Times'
<1> USE Bounds DEF runVars, fileVars, handOver, mailVars, history
<1>1. CASE StartAuto
  BY <1>1 DEF StartAuto, TypeOK, Times
<1>2. CASE FetchMails
  <2>1. PICK found \in SUBSET InWindow(epoch) :
           \/ FetchedNothing(found)
           \/ \E new \in SUBSET Mails, again \in BOOLEAN : FetchedNew(found, new, again)
    BY <1>2, FetchEffect
  <2>2. UNCHANGED <<clock, arrived, readAt, raw, context, comments>>
    BY <1>2 DEF FetchMails
  <2>3. CASE FetchedNothing(found)
    BY <2>2, <2>3 DEF FetchedNothing, EndRun, TypeOK, Times
  <2>4. ASSUME NEW new \in SUBSET Mails, NEW again \in BOOLEAN, FetchedNew(found, new, again)
        PROVE  Times'
    <3>1. batch' \subseteq found /\ UNCHANGED <<lastCheck, now>>
      BY <2>4 DEF FetchedNew, Planned
    <3> QED BY <2>2, <3>1 DEF InWindow, Times
  <2> QED BY <2>1, <2>3, <2>4
<1>3. CASE Prepare
  <2>1. context'.epoch = CursorEpoch(lastCheck, clock)
    BY <1>3 DEF Prepare
  <2>2. context'.epoch <= clock
    <3>1. lastCheck \in Int /\ clock \in Int /\ lastCheck <= clock
      BY DEF TypeOK, Times
    <3> QED BY <2>1, <3>1 DEF CursorEpoch
  <2> QED BY <1>3, <2>2 DEF Prepare, Times
<1>4. CASE ReadMails
  <2>1. readAt' = clock' /\ raw' \subseteq InWindow(context.epoch)
    BY <1>4 DEF ReadMails
  <2>2. UNCHANGED <<clock, arrived, lastCheck, now, context, batch, comments>>
    BY <1>4 DEF ReadMails
  <2> QED BY <2>1, <2>2 DEF InWindow, TypeOK, Times
<1>5. CASE StartApply
  <2>1. UNCHANGED <<clock, arrived, readAt, raw, context, comments>>
    BY <1>5 DEF StartApply
  <2>2. CASE AppliedNothing
    BY <2>1, <2>2 DEF AppliedNothing, TypeOK, Times
  <2>3. ASSUME NEW new \in SUBSET Mails, NEW again \in BOOLEAN, AppliedNew(new, again)
        PROVE  Times'
    <3>1. batch' \subseteq raw /\ lastCheck' = lastCheck /\ now' = clock
      BY <2>3 DEF AppliedNew, Planned
    <3> QED BY <2>1, <3>1 DEF TypeOK, Times
  <2> QED BY <1>5, <2>2, <2>3, ApplyEffect
<1>6. CASE RefuseWithoutToken
  BY <1>6 DEF RefuseWithoutToken, EndRun, TypeOK, Times
<1>7. CASE SaveTsv
  BY <1>7 DEF SaveTsv, Times
<1>8. CASE WriteLogs
  BY <1>8 DEF WriteLogs, Times
<1>9. CASE SaveProcessed
  BY <1>9 DEF SaveProcessed, SaveIds, EndRun, TypeOK, Times
<1>10. CASE Crash
  BY <1>10 DEF Crash, EndRun, TypeOK, Times
<1>11. CASE Tick
  BY <1>11 DEF Tick, TypeOK, Times
<1>12. CASE Sync
  BY <1>12 DEF Sync, Times
<1>13. ASSUME NEW m \in Mails, UpdateStatus(m) PROVE Times'
  BY <1>13 DEF UpdateStatus, Acting, Times
<1>14. ASSUME NEW m \in Mails, AddComment(m) PROVE Times'
  <2>1. m \in batch
    BY <1>14, TodoIsBound, ConstantsAssumption DEF AddComment, RunShape
  <2>2. /\ comments' = [comments EXCEPT ![m] = @ + 1]
        /\ UNCHANGED <<clock, arrived, lastCheck, now, readAt, context, batch, raw>>
    BY <1>14 DEF AddComment, Acting
  <2>3. \A n \in Mails : comments'[n] > 0 => n = m \/ comments[n] > 0
    BY <2>2 DEF TypeOK
  <2> QED BY <2>1, <2>2, <2>3 DEF Times
<1>15. ASSUME NEW m \in Mails, NotionError(m) PROVE Times'
  BY <1>15 DEF NotionError, Acting, Times
<1>16. ASSUME NEW m \in Mails, Arrive(m) PROVE Times'
  BY <1>16 DEF Arrive, TypeOK, Times
<1>17. ASSUME NEW j \in Jobs, NEW s \in Moves, EditNotion(j, s) PROVE Times'
  BY <1>17 DEF EditNotion, Times
<1>18. CASE UNCHANGED vars
  BY <1>18 DEF vars, Times
<1> QED BY <1>1, <1>2, <1>3, <1>4, <1>5, <1>6, <1>7, <1>8, <1>9, <1>10, <1>11, <1>12,
           <1>13, <1>14, <1>15, <1>16, <1>17, <1>18 DEF Next, CallNotion

\* Every step keeps the batch accounted for.
LEMMA AheadStep ==
    ASSUME TypeOK, RunShape, BatchAhead, [Next]_vars
    PROVE  BatchAhead'
<1> USE Bounds DEF runVars, fileVars, handOver, mailVars, history
<1>1. CASE StartAuto
  BY <1>1 DEF StartAuto, BatchAhead, Handled
<1>2. CASE FetchMails
  BY <1>2 DEF FetchMails, SaveIds, EndRun, PlanActions, RunShape, BatchAhead, Handled, Actionable
<1>3. CASE Prepare
  BY <1>3 DEF Prepare, BatchAhead, Handled
<1>4. CASE ReadMails
  BY <1>4 DEF ReadMails, BatchAhead, Handled
<1>5. CASE StartApply
  BY <1>5 DEF StartApply, SaveIds, PlanActions, BatchAhead, Handled, Actionable
<1>6. CASE RefuseWithoutToken
  BY <1>6 DEF RefuseWithoutToken, EndRun, BatchAhead, Handled
<1>7. CASE SaveTsv
  BY <1>7 DEF SaveTsv, BatchAhead, Handled
<1>8. CASE WriteLogs
  BY <1>8 DEF WriteLogs, BatchAhead, Handled
<1>9. CASE SaveProcessed
  BY <1>9 DEF SaveProcessed, SaveIds, EndRun, BatchAhead, Handled
<1>10. CASE Crash
  BY <1>10 DEF Crash, EndRun, BatchAhead, Handled
<1>11. CASE Tick
  BY <1>11 DEF Tick, BatchAhead, Handled
<1>12. CASE Sync
  BY <1>12 DEF Sync, BatchAhead, Handled
<1>13. ASSUME NEW m \in Mails, UpdateStatus(m) PROVE BatchAhead'
  BY <1>13 DEF UpdateStatus, Acting, BatchAhead, Handled
<1>14. ASSUME NEW m \in Mails, AddComment(m) PROVE BatchAhead'
  BY <1>14 DEF AddComment, Acting, Give, TypeOK, BatchAhead, Handled
<1>15. ASSUME NEW m \in Mails, NotionError(m) PROVE BatchAhead'
  BY <1>15 DEF NotionError, Acting, Give, BatchAhead, Handled
<1>16. ASSUME NEW m \in Mails, Arrive(m) PROVE BatchAhead'
  BY <1>16 DEF Arrive, BatchAhead, Handled
<1>17. ASSUME NEW j \in Jobs, NEW s \in Moves, EditNotion(j, s) PROVE BatchAhead'
  BY <1>17 DEF EditNotion, BatchAhead, Handled
<1>18. CASE UNCHANGED vars
  BY <1>18 DEF vars, BatchAhead, Handled
<1> QED BY <1>1, <1>2, <1>3, <1>4, <1>5, <1>6, <1>7, <1>8, <1>9, <1>10, <1>11, <1>12,
           <1>13, <1>14, <1>15, <1>16, <1>17, <1>18 DEF Next, CallNotion

\* Every step keeps the mails before the cursor covered.
LEMMA CoveredStep ==
    ASSUME TypeOK, RunShape, Times, Covered, [Next]_vars
    PROVE  Covered'
<1> USE Bounds DEF runVars, fileVars, handOver, mailVars, history
<1>1. CASE StartAuto
  BY <1>1 DEF StartAuto, TypeOK, Times, Covered, Seen, Came, InWindow, CursorEpoch, Running
<1>2. CASE FetchMails
  BY <1>2 DEF FetchMails, SaveIds, EndRun, PlanActions, TypeOK, RunShape, Covered, Seen, Came, InWindow
<1>3. CASE Prepare
  BY <1>3 DEF Prepare, TypeOK, Times, Covered, Seen, Came, CursorEpoch
<1>4. CASE ReadMails
  BY <1>4 DEF ReadMails, TypeOK, Covered, Seen, Came, InWindow
<1>5. CASE StartApply
  <2>1. /\ late' = late \cup InWindow(readAt) /\ phase = "off"
        /\ UNCHANGED <<clock, arrived, readAt, raw, context, looked, cut>>
    BY <1>5 DEF StartApply
  <2>2. ASSUME NEW m \in Mails, Came(m, clock)
        PROVE  m \in looked' \cup cut' \cup late' \/ arrived[m] <= clock - MaxDays \/ m \in raw
    <3>1. CASE arrived[m] > readAt
      BY <2>1, <2>2, <3>1 DEF InWindow, Came
    <3>2. CASE arrived[m] <= readAt
      BY <2>1, <2>2, <3>2 DEF Covered, Came, Seen
    <3>3. arrived[m] \in Int /\ readAt \in Int
      BY DEF TypeOK
    <3> QED BY <3>1, <3>2, <3>3
  <2>3. /\ context'.made => \A m \in Mails : Came(m, context.epoch)' => Seen(m, clock)'
        /\ \A m \in Mails : Came(m, readAt)' => Seen(m, clock)' \/ m \in raw'
        /\ context'.ids \subseteq looked'
    BY <2>1 DEF Covered, Came, Seen
  <2>4. CASE AppliedNothing
    <3>1. /\ lastCheck' = clock /\ phase' = "off" /\ processed' \subseteq looked'
          /\ raw \subseteq looked
      BY <2>1, <2>4 DEF AppliedNothing, Covered
    <3>2. \A m \in Mails : Came(m, lastCheck)' => Seen(m, lastCheck)'
      BY <2>1, <2>2, <3>1 DEF Came, Seen
    <3> QED BY <2>3, <3>1, <3>2 DEF Covered, Running
  <2>5. ASSUME NEW new \in SUBSET Mails, NEW again \in BOOLEAN, AppliedNew(new, again)
        PROVE  Covered'
    <3>1. /\ UNCHANGED <<lastCheck, processed>> /\ now' = clock /\ phase' = "act"
          /\ batch' = raw \ context.ids
      BY <2>5 DEF AppliedNew, Planned
    <3>2. raw \subseteq batch' \cup looked
      BY <3>1 DEF Covered
    <3>3. \A m \in Mails : Came(m, now)' => Seen(m, now)' \/ m \in batch'
      BY <2>1, <2>2, <3>1, <3>2 DEF Came, Seen
    <3>4. \A m \in Mails : Came(m, lastCheck)' => Seen(m, lastCheck)'
      BY <2>1, <3>1 DEF Covered, Came, Seen
    <3>5. processed' \subseteq looked'
      BY <2>1, <3>1 DEF Covered
    <3> QED BY <2>3, <3>1, <3>3, <3>4, <3>5 DEF Covered
  <2> QED BY <1>5, <2>4, <2>5, ApplyEffect
<1>6. CASE RefuseWithoutToken
  BY <1>6 DEF RefuseWithoutToken, EndRun, TypeOK, Covered, Seen, Came
<1>7. CASE SaveTsv
  BY <1>7 DEF SaveTsv, Covered, Seen, Came, Running
<1>8. CASE WriteLogs
  BY <1>8 DEF WriteLogs, Covered, Seen, Came, Running
<1>9. CASE SaveProcessed
  BY <1>9 DEF SaveProcessed, SaveIds, EndRun, Covered, Seen, Came, Running
<1>10. CASE Crash
  BY <1>10 DEF Crash, EndRun, TypeOK, Covered, Seen, Came
<1>11. CASE Tick
  BY <1>11 DEF Tick, TypeOK, Covered, Seen, Came
<1>12. CASE Sync
  BY <1>12 DEF Sync, Covered, Seen, Came
<1>13. ASSUME NEW m \in Mails, UpdateStatus(m) PROVE Covered'
  BY <1>13 DEF UpdateStatus, Acting, Covered, Seen, Came
<1>14. ASSUME NEW m \in Mails, AddComment(m) PROVE Covered'
  BY <1>14 DEF AddComment, Acting, Covered, Seen, Came
<1>15. ASSUME NEW m \in Mails, NotionError(m) PROVE Covered'
  BY <1>15 DEF NotionError, Acting, Covered, Seen, Came
<1>16. ASSUME NEW m \in Mails, Arrive(m) PROVE Covered'
  BY <1>16 DEF Arrive, TypeOK, Times, Covered, Seen, Came
<1>17. ASSUME NEW j \in Jobs, NEW s \in Moves, EditNotion(j, s) PROVE Covered'
  BY <1>17 DEF EditNotion, Covered, Seen, Came
<1>18. CASE UNCHANGED vars
  BY <1>18 DEF vars, Covered, Seen, Came
<1> QED BY <1>1, <1>2, <1>3, <1>4, <1>5, <1>6, <1>7, <1>8, <1>9, <1>10, <1>11, <1>12,
           <1>13, <1>14, <1>15, <1>16, <1>17, <1>18 DEF Next, CallNotion

\* Every step keeps the comments bounded.
LEMMA CommentsStep ==
    ASSUME TypeOK, RunShape, Times, CommentsAhead, [Next]_vars
    PROVE  CommentsAhead'
<1> USE Bounds DEF runVars, fileVars, handOver, mailVars, history
<1>1. CASE StartAuto
  BY <1>1 DEF StartAuto, TypeOK, RunShape, CommentsAhead, CommentsBounded, Free, Idle, InWindow, CursorEpoch
<1>2. CASE FetchMails
  BY <1>2 DEF FetchMails, SaveIds, EndRun, PlanActions, TypeOK, RunShape, Times, CommentsAhead, CommentsBounded, Free, InWindow, Actionable
<1>3. CASE Prepare
  BY <1>3 DEF Prepare, TypeOK, CommentsAhead, CommentsBounded, Free, CursorEpoch, Running
<1>4. CASE ReadMails
  BY <1>4 DEF ReadMails, CommentsAhead, CommentsBounded, Free, InWindow
<1>5. CASE StartApply
  BY <1>5 DEF StartApply, SaveIds, PlanActions, TypeOK, CommentsAhead, CommentsBounded, Free, InWindow, Running, Actionable
<1>6. CASE RefuseWithoutToken
  <2>1. /\ mishaps' = mishaps + 1
        /\ UNCHANGED <<comments, handedOver, context, arrived, raw>>
    BY <1>6 DEF RefuseWithoutToken
  <2>2. phase' = "off" /\ todo' = {}
    BY <1>6, EndRunIdles DEF RefuseWithoutToken, Idle
  <2>3. \A m \in Mails : Free(m)'
    BY <2>1 DEF Free, CommentsAhead, CommentsBounded, TypeOK
  <2>4. CommentsBounded'
    BY <2>1 DEF CommentsAhead, CommentsBounded, TypeOK
  <2> QED BY <2>1, <2>2, <2>3, <2>4 DEF CommentsAhead, InWindow
<1>7. CASE SaveTsv
  BY <1>7 DEF SaveTsv, CommentsAhead, CommentsBounded, Free, InWindow, Running
<1>8. CASE WriteLogs
  BY <1>8 DEF WriteLogs, CommentsAhead, CommentsBounded, Free, InWindow, Running
<1>9. CASE SaveProcessed
  BY <1>9 DEF SaveProcessed, SaveIds, EndRun, TypeOK, Times, CommentsAhead, CommentsBounded, Free
<1>10. CASE Crash
  BY <1>10 DEF Crash, EndRun, TypeOK, CommentsAhead, CommentsBounded, Free
<1>11. CASE Tick
  BY <1>11 DEF Tick, TypeOK, CommentsAhead, CommentsBounded, Free, InWindow
<1>12. CASE Sync
  BY <1>12 DEF Sync, CommentsAhead, CommentsBounded, Free, InWindow
<1>13. ASSUME NEW m \in Mails, UpdateStatus(m) PROVE CommentsAhead'
  BY <1>13 DEF UpdateStatus, Acting, CommentsAhead, CommentsBounded, Free, InWindow
<1>14. ASSUME NEW m \in Mails, AddComment(m) PROVE CommentsAhead'
  <2>1. m \in todo /\ m \in batch /\ comments[m] <= mishaps /\ phase = "act" /\ todo \subseteq Mails
    BY <1>14, TodoIsBound, ConstantsAssumption
    DEF AddComment, RunShape, CommentsAhead, Free, TypeOK
  <2>2. /\ todo' = todo \ {m} /\ comments' = [comments EXCEPT ![m] = @ + 1]
        /\ UNCHANGED <<clock, arrived, processed, phase, batch, context, raw, handedOver, mishaps>>
    BY <1>14 DEF AddComment, Give, Acting
  <2>3. /\ comments'[m] = comments[m] + 1
        /\ \A n \in Mails \ {m} : comments'[n] = comments[n]
    BY <2>2 DEF TypeOK
  <2>4. CommentsBounded' /\ \A n \in Mails \ {m} : Free(n) => Free(n)'
    BY <2>1, <2>2, <2>3 DEF CommentsAhead, CommentsBounded, Free, TypeOK
  <2> QED BY <2>1, <2>2, <2>4 DEF CommentsAhead, Running, InWindow
<1>15. ASSUME NEW m \in Mails, NotionError(m) PROVE CommentsAhead'
  BY <1>15 DEF NotionError, Acting, Give, CommentsAhead, CommentsBounded, Free, InWindow
<1>16. ASSUME NEW m \in Mails, Arrive(m) PROVE CommentsAhead'
  BY <1>16 DEF Arrive, TypeOK, Times, CommentsAhead, CommentsBounded, Free, InWindow
<1>17. ASSUME NEW j \in Jobs, NEW s \in Moves, EditNotion(j, s) PROVE CommentsAhead'
  BY <1>17 DEF EditNotion, CommentsAhead, CommentsBounded, Free, InWindow
<1>18. CASE UNCHANGED vars
  BY <1>18 DEF vars, CommentsAhead, CommentsBounded, Free, InWindow
<1> QED BY <1>1, <1>2, <1>3, <1>4, <1>5, <1>6, <1>7, <1>8, <1>9, <1>10, <1>11, <1>12,
           <1>13, <1>14, <1>15, <1>16, <1>17, <1>18 DEF Next, CallNotion

\* Every step keeps rows and pages together.
LEMMA PagesStep ==
    ASSUME TypeOK, RunShape, PagesAgree, [Next]_vars
    PROVE  PagesAgree'
<1> USE Bounds DEF runVars, fileVars, handOver, mailVars, history
<1>1. CASE StartAuto
  BY <1>1 DEF StartAuto, PagesAgree, Expected
<1>2. CASE FetchMails
  BY <1>2 DEF FetchMails, EndRun, RunShape, PagesAgree, Expected, Actionable
<1>3. CASE Prepare
  BY <1>3 DEF Prepare, PagesAgree, Expected
<1>4. CASE ReadMails
  BY <1>4 DEF ReadMails, PagesAgree, Expected
<1>5. CASE StartApply
  BY <1>5 DEF StartApply, PlanActions, RunShape, PagesAgree, Expected, Idle, Actionable
<1>6. CASE RefuseWithoutToken
  BY <1>6 DEF RefuseWithoutToken, EndRun, RunShape, PagesAgree, Expected
<1>7. CASE SaveTsv
  BY <1>7 DEF SaveTsv, RunShape, PagesAgree, Expected
<1>8. CASE WriteLogs
  BY <1>8 DEF WriteLogs, PagesAgree, Expected
<1>9. CASE SaveProcessed
  BY <1>9 DEF SaveProcessed, EndRun, PagesAgree, Expected
<1>10. CASE Crash
  BY <1>10 DEF Crash, EndRun, PagesAgree, Expected, Moved
<1>11. CASE Tick
  BY <1>11 DEF Tick, PagesAgree, Expected
<1>12. CASE Sync
  BY <1>12 DEF Sync, PagesAgree, Expected
<1>13. ASSUME NEW m \in Mails, UpdateStatus(m) PROVE PagesAgree'
  <2>1. bound[m] \in Jobs /\ m # NoMail
    BY <1>13, TodoIsBound, ConstantsAssumption DEF UpdateStatus
  <2>2. /\ phase = "act" /\ half = NoMail /\ half' = m
        /\ notion' = [notion EXCEPT ![bound[m]] = NewStatus[Kind[m]]]
        /\ UNCHANGED <<phase, bound, pushed, status, apart>>
    BY <1>13 DEF UpdateStatus, Acting
  <2>3. Expected(bound[m])' = notion'[bound[m]]
    BY <2>1, <2>2 DEF Expected, TypeOK
  <2>4. \A j \in Jobs \ {bound[m]} : Expected(j)' = Expected(j) /\ notion'[j] = notion[j]
    BY <2>1, <2>2 DEF Expected, TypeOK
  <2> QED BY <2>2, <2>3, <2>4 DEF PagesAgree
<1>14. ASSUME NEW m \in Mails, AddComment(m) PROVE PagesAgree'
  <2>1. m \in todo /\ bound[m] \in Jobs /\ m # NoMail
    BY <1>14, TodoIsBound, ConstantsAssumption DEF AddComment, RunShape
  <2>2. /\ phase = "act" /\ half' = NoMail
        /\ half = m \/ (half = NoMail /\ ~Moving(m))
        /\ half = m => Moving(m)
        /\ pushed' = IF Moving(m) THEN [pushed EXCEPT ![bound[m]] = NewStatus[Kind[m]]]
                                 ELSE pushed
        /\ UNCHANGED <<phase, bound, notion, status, apart>>
    BY <1>14, <2>1 DEF AddComment, Give, Acting, RunShape
  <2>3. ASSUME NEW j \in Jobs PROVE Expected(j)' = Expected(j)
    <3>1. CASE half = m
      <4>1. NewStatus[Kind[m]] # "none"
        BY <2>2, <3>1, NewStatusTypes DEF Statuses, ActiveStatuses
      <4>2. pushed'[j] = IF bound[m] = j THEN NewStatus[Kind[m]] ELSE pushed[j]
        BY <2>1, <2>2, <3>1 DEF TypeOK
      <4> QED BY <2>1, <2>2, <3>1, <4>1, <4>2 DEF Expected
    <3>2. CASE half = NoMail /\ ~Moving(m)
      BY <2>2, <3>2 DEF Expected
    <3> QED BY <2>2, <3>1, <3>2
  <2> QED BY <2>2, <2>3 DEF PagesAgree
<1>15. ASSUME NEW m \in Mails, NotionError(m) PROVE PagesAgree'
  BY <1>15 DEF NotionError, Acting, Give, PagesAgree, Expected
<1>16. ASSUME NEW m \in Mails, Arrive(m) PROVE PagesAgree'
  BY <1>16 DEF Arrive, PagesAgree, Expected
<1>17. ASSUME NEW j \in Jobs, NEW s \in Moves, EditNotion(j, s) PROVE PagesAgree'
  BY <1>17 DEF EditNotion, PagesAgree, Expected
<1>18. CASE UNCHANGED vars
  BY <1>18 DEF vars, PagesAgree, Expected
<1> QED BY <1>1, <1>2, <1>3, <1>4, <1>5, <1>6, <1>7, <1>8, <1>9, <1>10, <1>11, <1>12,
           <1>13, <1>14, <1>15, <1>16, <1>17, <1>18 DEF Next, CallNotion
-----------------------------------------------------------------------------
(* The invariant, and what it says of the runs *)

\* The invariant holds of the first state.
LEMMA InitIInv == Init => IInv
<1> SUFFICES ASSUME Init PROVE IInv
  OBVIOUS
<1>1. TypeOK
  <2>1. RunTypes
    BY IdleTypes DEF Init
  <2>2. /\ clock \in 0..MaxClock /\ lastCheck \in 0..MaxClock /\ readAt \in 0..MaxClock
        /\ arrived \in [Mails -> 0..MaxClock]
    BY Bounds DEF Init
  <2>3. /\ status \in [Jobs -> Statuses] /\ notion \in [Jobs -> Statuses]
        /\ comments \in [Mails -> Nat] /\ mishaps \in Nat
    BY DEF Init, Statuses, ActiveStatuses
  <2>4. context \in [epoch: Int, ids: SUBSET Mails, active: SUBSET Jobs, made: BOOLEAN]
    BY DEF Init, NoContext
  <2> QED BY <2>1, <2>2, <2>3, <2>4 DEF Init, TypeOK, RunTypes
<1>2. RunShape
  BY DEF Init, Idle, RunShape, Actionable
<1>3. Times /\ Covered
  BY <1>1 DEF Init, Idle, NoContext, Times, Covered, Came
<1>4. BatchAhead
  BY DEF Init, Idle, BatchAhead
<1>5. CommentsAhead
  BY <1>1 DEF Init, CommentsAhead, CommentsBounded, Free, TypeOK
<1>6. PagesAgree
  BY DEF Init, PagesAgree, Expected
<1> QED BY <1>1, <1>2, <1>3, <1>4, <1>5, <1>6 DEF IInv

\* Every step keeps the invariant.
LEMMA StepIInv == IInv /\ [Next]_vars => IInv'
BY TypeStep, ShapeStep, TimesStep, AheadStep, CoveredStep, CommentsStep, PagesStep DEF IInv

\* The invariant holds in every state of every behaviour.
THEOREM Inductive == Spec => []IInv
BY InitIInv, StepIInv, PTL DEF Spec

\* The state keeps its types, whatever runs when.
THEOREM TypeCorrect == Spec => []TypeOK
<1>1. IInv => TypeOK
  BY DEF IInv
<1> QED BY <1>1, Inductive, PTL

\* No mail gets into processed_messages.json before it was dealt with: the ids
\* are written last, after the comments, the rows and the leads file.
THEOREM HandledBeforeRemembered == Spec => []ProcessedWasHandled
<1>1. IInv => ProcessedWasHandled
  BY DEF IInv, BatchAhead, Handled, ProcessedWasHandled
<1> QED BY <1>1, Inductive, PTL

\* The ids, their pruning and the window together keep a mail from being
\* commented on again, but for one comment for each run cut short, each
\* reprocessing and each apply phase on a context of another run.
THEOREM CommentsStayBounded == Spec => []CommentsBounded
<1>1. IInv => CommentsBounded
  BY DEF IInv, CommentsAhead
<1> QED BY <1>1, Inductive, PTL

\* The cursor of --auto and of the two phases passes only mails that a run looked
\* at, that the operator's window, the age limit or the lack of a query excludes,
\* that came after the last reading, or that their queries cut off.
THEOREM CursorSkipsNothing == Spec => []NoMailSkipped
<1>1. IInv => NoMailSkipped
  BY DEF IInv, Covered, Came, Seen, NoMailSkipped
<1> QED BY <1>1, Inductive, PTL

\* Between runs the rows say what their pages say, but for the pages a human, a
\* failed comment or a crash left apart.
THEOREM RowsFollowPages == Spec => []LedgerAgrees
<1>1. IInv => LedgerAgrees
  BY DEF IInv, PagesAgree, Expected, LedgerAgrees
<1> QED BY <1>1, Inductive, PTL
=============================================================================
