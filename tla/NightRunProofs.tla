--------------------------- MODULE NightRunProofs ---------------------------
(* Theorems about NightRun, for any nights, rows, target and lengths. *)
EXTENDS NightRun, TLAPS

-----------------------------------------------------------------------------
(* The inductive invariant *)

LoopPlaces == {"scan", "check", "prepare", "workers", "collect", "commit", "pre", "submit",
               "finish"}

\* A session is past its start exactly if it took the lock.
Places ==
    \A n \in Nights :
        /\ n \in took => pc[n] \in LoopPlaces \cup Closing \cup {"over", "dead"}
        /\ n \notin took => pc[n] \in Starting \cup {"new", "refused", "dead"}
        /\ pc[n] # "new" => n \in started

\* One session at most is under way, in its start, its loop or its finish.
Alone == \A m \in Nights : \A n \in Nights : Alive(m) /\ Alive(n) => m = n

InTime == \A n \in Nights : Alive(n) => clock <= deadline[n] + Grace

\* What the lock and the log say to the session that reads them.
HoldsFor(n) ==
    /\ Working(n) => lock = n
    /\ pc[n] = "takeLock" => lock = NoNight
    /\ pc[n] \in Closing => closing[n] = lock /\ lock # NoNight
    /\ pc[n] = "writeLog" => logRead[n] = log
    /\ pc[n] = "dropLock" => log[lock] > 0

Holds == \A n \in Nights : HoldsFor(n)

\* The night of the lock has no line yet, but for those torn deaths left.
Lines ==
    /\ lock # NoNight => lock \in took
    /\ \A n \in Nights : log[n] > 0 => n \in took
    /\ \A n \in took : log[n] > 0 \/ lock = n
    /\ \A n \in Nights : log[n] <= 1 + torn
    /\ lock # NoNight /\ (\A n \in Nights : pc[n] # "dropLock") => log[lock] <= torn

\* The batch in hand, and what is collected of it, are rows in Inbox.
BatchFor(n) ==
    /\ pc[n] \in {"workers", "collect"} => \A r \in ctx.batch : stage[r] = "inbox"
    /\ pc[n] = "commit" => \A r \in collected[n] : stage[r] = "inbox"

Batches == \A n \in Nights : BatchFor(n)

Orderly == ~disturbed => Alone /\ InTime /\ Holds /\ Lines /\ Batches

IInv == TypeOK /\ Places /\ Orderly

-----------------------------------------------------------------------------
(* Lemmas about the operators *)

\* Moving rows keeps every row at a stage, and moves no other row.
LEMMA MoveMoves ==
    ASSUME TypeOK, NEW rows \in SUBSET Rows, NEW s \in {"inbox", "gone"}, Move(rows, s)
    PROVE  /\ stage' \in [Rows -> {"new", "inbox", "ready", "gone"}]
           /\ \A r \in Rows \ rows : stage'[r] = stage[r]
           /\ \A r \in rows : stage'[r] = s
BY DEF Move, TypeOK

\* An apply pre lists every row of the queue but those it closes.
LEMMA ApplyPreChoice ==
    ASSUME TypeOK, NEW n \in Nights, ApplyPre(n)
    PROVE  \E manual \in SUBSET Rows : \E closed \in SUBSET Rows :
              /\ Move(manual \cup closed, "gone")
              /\ seen' = [m \in Nights |-> IF m \in started
                                  THEN seen[m] \cup (Stage("ready") \ closed) ELSE seen[m]]
<1>1. Stage("ready") \subseteq Rows
  BY DEF Stage
<1>2. PICK read \in SUBSET Stage("ready") : \E manual \in SUBSET (Stage("ready") \ read) :
      \E closed \in SUBSET (Stage("ready") \ (read \cup manual)) :
          /\ Move(manual \cup closed, "gone")
          /\ seen' = [m \in Nights |-> IF m \in started
                              THEN seen[m] \cup (Stage("ready") \ closed) ELSE seen[m]]
  BY DEF ApplyPre
<1>3. PICK manual \in SUBSET Stage("ready") : \E closed \in SUBSET Stage("ready") :
          /\ Move(manual \cup closed, "gone")
          /\ seen' = [m \in Nights |-> IF m \in started
                              THEN seen[m] \cup (Stage("ready") \ closed) ELSE seen[m]]
  BY <1>2
<1> QED BY <1>1, <1>3

\* The places of a session, by name.
LEMMA PlaceNames ==
    /\ \A p \in LoopPlaces : p \notin Ended \cup Starting
    /\ Closing \subseteq Starting /\ "takeLock" \in Starting /\ "takeLock" \notin Closing
    /\ \A p \in Starting : p \notin Ended
BY DEF LoopPlaces, Ended, Starting, Closing

\* A step of the loop leaves the lock, the log and the other sessions alone, and
\* the session in its loop.
LoopStep(n) ==
    /\ InLoop
    /\ pc[n] \in LoopPlaces
    /\ \E p \in LoopPlaces : Goto(n, p)
    /\ noPrepare' \in {noPrepare, noPrepare \cup {n}}

LEMMA LoopSteps ==
    ASSUME NEW n \in Nights, Scan(n) \/ Check(n) \/ Round(n)
    PROVE  LoopStep(n)
<1>1. CASE Scan(n)
  BY <1>1 DEF Scan, LoopStep, LoopPlaces
<1>2. CASE Check(n)
  <2>1. CASE Goto(n, "finish")
    BY <1>2, <2>1 DEF Check, LoopStep, LoopPlaces
  <2>2. CASE ~Goto(n, "finish")
    <3>1. \E p \in {"pre", "prepare", "finish"} : Goto(n, p)
      BY <1>2, <2>2 DEF Check
    <3> QED BY <1>2, <3>1 DEF Check, LoopStep, LoopPlaces
  <2> QED BY <2>1, <2>2
<1>3. CASE PreparePre(n)
  <2>1. \E p \in {"check", "workers"} : Goto(n, p)
    BY <1>3 DEF PreparePre
  <2> QED BY <1>3, <2>1 DEF PreparePre, LoopStep, LoopPlaces
<1>4. CASE PreparePreFails(n)
  BY <1>4 DEF PreparePreFails, LoopStep, LoopPlaces
<1>5. CASE JudgeRows(n)
  BY <1>5 DEF JudgeRows, LoopStep, LoopPlaces
<1>6. CASE PrepareCollect(n)
  <2>1. \E p \in {"check", "commit"} : Goto(n, p)
    BY <1>6 DEF PrepareCollect
  <2> QED BY <1>6, <2>1 DEF PrepareCollect, LoopStep, LoopPlaces
<1>7. CASE PrepareCommit(n)
  BY <1>7 DEF PrepareCommit, LoopStep, LoopPlaces
<1>8. CASE CommitFails(n)
  BY <1>8 DEF CommitFails, LoopStep, LoopPlaces
<1>9. CASE ApplyPre(n)
  BY <1>9 DEF ApplyPre, LoopStep, LoopPlaces
<1>10. CASE ApplyPreFails(n)
  BY <1>10 DEF ApplyPreFails, LoopStep, LoopPlaces
<1>11. CASE ApplySubmit(n)
  BY <1>11 DEF ApplySubmit, LoopStep, LoopPlaces
<1> QED BY <1>1, <1>2, <1>3, <1>4, <1>5, <1>6, <1>7, <1>8, <1>9, <1>10, <1>11 DEF Round

-----------------------------------------------------------------------------
(* Types *)

RowTypes ==
    /\ stage \in [Rows -> {"new", "inbox", "ready", "gone"}]
    /\ ctx \in [batch: SUBSET Rows, exhausted: BOOLEAN, since: SUBSET Nights]
    /\ good \in SUBSET Rows /\ jobs \in SUBSET Rows
    /\ seen \in [Nights -> SUBSET Rows] /\ sent \in [Nights -> SUBSET Rows]
    /\ collected \in [Nights -> SUBSET Rows]

\* A round changes the rows within their types.
LEMMA RowTypeStep ==
    ASSUME TypeOK, NEW n \in Nights, Scan(n) \/ Check(n) \/ Round(n)
    PROVE  RowTypes'
<1>0. RowTypes
  BY DEF TypeOK, RowTypes
<1>1. CASE Scan(n)
  <2>1. PICK found \in SUBSET Stage("new") : Move(found, "inbox")
    BY <1>1 DEF Scan
  <2>2. stage' \in [Rows -> {"new", "inbox", "ready", "gone"}]
    BY <2>1, MoveMoves DEF Stage
  <2> QED BY <1>0, <1>1, <2>2 DEF Scan, RowTypes
<1>2. CASE Check(n)
  BY <1>0, <1>2 DEF Check, RowTypes, rowVars
<1>3. CASE PreparePre(n)
  <2>1. PICK dropped \in SUBSET Stage("inbox"), batch \in SUBSET Rows :
            /\ Move(dropped, "gone")
            /\ ctx' = [batch |-> batch, since |-> started,
                       exhausted |-> Stage("inbox") \ dropped \subseteq batch]
    BY <1>3 DEF PreparePre, Stage
  <2>2. stage' \in [Rows -> {"new", "inbox", "ready", "gone"}]
    BY <2>1, MoveMoves DEF Stage
  <2>3. (Stage("inbox") \ dropped \subseteq batch) \in BOOLEAN
    OBVIOUS
  <2>4. ctx' \in [batch: SUBSET Rows, exhausted: BOOLEAN, since: SUBSET Nights]
    BY <2>1, <2>3 DEF TypeOK
  <2> QED BY <1>0, <1>3, <2>2, <2>4 DEF PreparePre, RowTypes
<1>4. CASE PreparePreFails(n)
  BY <1>0, <1>4 DEF PreparePreFails, RowTypes, rowVars
<1>5. CASE JudgeRows(n)
  BY <1>0, <1>5 DEF JudgeRows, RowTypes
<1>6. CASE PrepareCollect(n)
  BY <1>0, <1>6 DEF PrepareCollect, RowTypes, rowVars
<1>7. CASE PrepareCommit(n)
  <2>1. stage' \in [Rows -> {"new", "inbox", "ready", "gone"}]
    BY <1>0, <1>7 DEF PrepareCommit, RowTypes
  <2> QED BY <1>0, <1>7, <2>1 DEF PrepareCommit, RowTypes
<1>8. CASE CommitFails(n)
  BY <1>0, <1>8 DEF CommitFails, RowTypes, rowVars
<1>9. CASE ApplyPre(n)
  <2>1. PICK manual \in SUBSET Rows, closed \in SUBSET Rows :
            /\ Move(manual \cup closed, "gone")
            /\ seen' = [m \in Nights |-> IF m \in started
                                THEN seen[m] \cup (Stage("ready") \ closed) ELSE seen[m]]
    BY <1>9, ApplyPreChoice
  <2>4. jobs' \in SUBSET Rows
    BY <1>9 DEF ApplyPre, Stage
  <2>2. stage' \in [Rows -> {"new", "inbox", "ready", "gone"}]
    BY <2>1, MoveMoves
  <2>3. seen' \in [Nights -> SUBSET Rows]
    BY <1>0, <2>1 DEF RowTypes, Stage
  <2> QED BY <1>0, <1>9, <2>2, <2>3, <2>4 DEF ApplyPre, RowTypes
<1>10. CASE ApplyPreFails(n)
  BY <1>0, <1>10 DEF ApplyPreFails, RowTypes, rowVars
<1>11. CASE ApplySubmit(n)
  <2>1. PICK new \in SUBSET Rows, failed \in SUBSET Rows :
            /\ Move(new \cup failed, "gone")
            /\ sent' = [m \in Nights |-> IF m \in started THEN sent[m] \cup new ELSE sent[m]]
    BY <1>11 DEF ApplySubmit, Stage
  <2>2. stage' \in [Rows -> {"new", "inbox", "ready", "gone"}]
    BY <2>1, MoveMoves
  <2>3. sent' \in [Nights -> SUBSET Rows]
    BY <1>0, <2>1 DEF RowTypes
  <2> QED BY <1>0, <1>11, <2>2, <2>3 DEF ApplySubmit, RowTypes
<1> QED BY <1>1, <1>2, <1>3, <1>4, <1>5, <1>6, <1>7, <1>8, <1>9, <1>10, <1>11 DEF Round

\* Every step keeps the types.
LEMMA TypeStep ==
    ASSUME TypeOK, [Next]_vars
    PROVE  TypeOK'
<1>1. ASSUME NEW n \in Nights, RunStart(n) PROVE TypeOK'
  <2>1. lock \in Nights => Stale(lock) \in BOOLEAN
    BY DEF Stale
  <2>2. PICK d \in (clock + 1)..(clock + MaxLength) :
            d <= MaxClock /\ deadline' = [deadline EXCEPT ![n] = d]
    BY <1>1 DEF RunStart
  <2>3. deadline' \in [Nights -> 0..MaxClock]
    BY <2>2, ConstantsAssumption DEF TypeOK
  <2>4. pc' \in [Nights -> Ended \cup Starting \cup LoopPlaces]
    BY <1>1 DEF RunStart, Goto, TypeOK, Ended, Starting, LoopPlaces
  <2>5. disturbed' \in BOOLEAN
    BY <1>1 DEF RunStart, TypeOK
  <2> QED BY <1>1, <2>3, <2>4, <2>5 DEF RunStart, TypeOK, rowVars, LoopPlaces
<1>2. ASSUME NEW n \in Nights, ReadLog(n) PROVE TypeOK'
  BY <1>2 DEF ReadLog, Goto, TypeOK, Starting, shared, rowVars, history
<1>3. ASSUME NEW n \in Nights, WriteLog(n) PROVE TypeOK'
  <2>1. log' \in [Nights -> Nat]
    <3>1. logRead[n] \in [Nights -> Nat]
      BY DEF TypeOK
    <3>2. log' = [logRead[n] EXCEPT ![closing[n]] = logRead[n][closing[n]] + 1]
      BY <1>3 DEF WriteLog
    <3>3. CASE closing[n] \in Nights
      BY <3>1, <3>2, <3>3
    <3>4. CASE closing[n] \notin Nights
      BY <3>1, <3>2, <3>4
    <3> QED BY <3>3, <3>4
  <2>2. logRead' \in [Nights -> [Nights -> Nat]]
    BY <1>3 DEF WriteLog, TypeOK, NoLines
  <2> QED BY <1>3, <2>1, <2>2 DEF WriteLog, Goto, TypeOK, Starting, rowVars, history
<1>4. ASSUME NEW n \in Nights, DropLock(n) PROVE TypeOK'
  BY <1>4 DEF DropLock, Goto, TypeOK, Ended, Starting, rowVars, history
<1>5. ASSUME NEW n \in Nights, TakeLock(n) PROVE TypeOK'
  BY <1>5 DEF TakeLock, Goto, TypeOK, rowVars, history
<1>6. ASSUME NEW n \in Nights, RunFinish(n) PROVE TypeOK'
  BY <1>6 DEF RunFinish, Goto, TypeOK, Ended, Starting, shared, rowVars, history
<1>7. ASSUME NEW n \in Nights, Scan(n) \/ Check(n) \/ Round(n) PROVE TypeOK'
  <2>1. LoopStep(n) /\ RowTypes'
    BY <1>7, LoopSteps, RowTypeStep
  <2>2. noPrepare' \in SUBSET Nights
    BY <2>1 DEF LoopStep, TypeOK
  <2>3. PICK p \in LoopPlaces : pc' = [pc EXCEPT ![n] = p]
    BY <2>1 DEF LoopStep, Goto
  <2>4. pc' \in [Nights -> Ended \cup Starting \cup LoopPlaces]
    BY <2>3 DEF TypeOK, LoopPlaces
  <2> QED BY <2>1, <2>2, <2>4 DEF LoopStep, InLoop, RowTypes, TypeOK, LoopPlaces, shared, history
<1>8. ASSUME NEW n \in Nights, Die(n) PROVE TypeOK'
  <2>1. PICK lost \in SUBSET Rows : Move(lost, "gone")
    BY <1>8 DEF Die, Stage
  <2>2. stage' \in [Rows -> {"new", "inbox", "ready", "gone"}]
    BY <2>1, MoveMoves
  <2> QED BY <1>8, <2>2 DEF Die, Goto, TypeOK, Ended, shared
<1>9. CASE Tick
  <2>1. clock' \in 0..MaxClock
    BY <1>9, ConstantsAssumption DEF Tick, TypeOK
  <2> QED BY <1>9, <2>1 DEF Tick, TypeOK, shared, rowVars, local
<1>10. CASE UNCHANGED vars
  BY <1>10 DEF vars, shared, rowVars, local, history, TypeOK
<1> QED BY <1>1, <1>2, <1>3, <1>4, <1>5, <1>6, <1>7, <1>8, <1>9, <1>10 DEF Next, Session, Start

-----------------------------------------------------------------------------
(* Who is under way *)

\* A step of one session moves no other.
LEMMA OneMoves ==
    ASSUME TypeOK, NEW n \in Nights, Session(n) \/ Die(n)
    PROVE  /\ \A m \in Nights \ {n} : pc'[m] = pc[m]
           /\ pc[n] = "new" <=> RunStart(n)
           /\ ~RunStart(n) => Alive(n)
<1>1. CASE RunStart(n)
  BY <1>1 DEF RunStart, Goto, TypeOK
<1>2. CASE ReadLog(n) \/ WriteLog(n) \/ DropLock(n) \/ TakeLock(n) \/ RunFinish(n)
  BY <1>2 DEF ReadLog, WriteLog, DropLock, TakeLock, RunFinish, RunStart, Goto, TypeOK, Alive,
              Ended
<1>3. CASE Scan(n) \/ Check(n) \/ Round(n)
  <2>1. PICK p \in LoopPlaces : pc[n] \in LoopPlaces /\ pc' = [pc EXCEPT ![n] = p]
    BY <1>3, LoopSteps DEF LoopStep, Goto
  <2> QED BY <2>1, PlaceNames DEF RunStart, Alive, Ended
<1>4. CASE Die(n)
  BY <1>4 DEF Die, RunStart, Goto, Alive, Ended
<1> QED BY <1>1, <1>2, <1>3, <1>4 DEF Session, Start

\* Each step leaves a session where its taking the lock allows it to be.
LEMMA PlacesStep ==
    ASSUME TypeOK, Places, [Next]_vars
    PROVE  Places'
<1>1. ASSUME NEW n \in Nights, RunStart(n) PROVE Places'
  <2>1. pc'[n] \in Starting \cup {"refused"} /\ n \notin took
    BY <1>1 DEF RunStart, Goto, TypeOK, Places, Starting, Closing, LoopPlaces
  <2>2. \A m \in Nights \ {n} : pc'[m] = pc[m]
    BY <1>1, OneMoves DEF Session, Start
  <2>3. took' = took /\ started' = started \cup {n}
    BY <1>1 DEF RunStart
  <2> QED BY <2>1, <2>2, <2>3 DEF Places
<1>2. ASSUME NEW n \in Nights,
             ReadLog(n) \/ WriteLog(n) \/ DropLock(n) \/ TakeLock(n) \/ RunFinish(n)
      PROVE  Places'
  <2>1. /\ n \in took' => pc'[n] \in LoopPlaces \cup Closing \cup {"over"}
        /\ n \notin took' => pc'[n] \in Starting
        /\ took' \in {took, took \cup {n}} /\ started' = started /\ pc[n] # "new"
    BY <1>2 DEF ReadLog, WriteLog, DropLock, TakeLock, RunFinish, Goto, TypeOK, Places,
                Starting, Closing, LoopPlaces, shared
  <2>2. \A m \in Nights \ {n} : pc'[m] = pc[m]
    BY <1>2, OneMoves DEF Session, Start
  <2> QED BY <2>1, <2>2 DEF Places
<1>3. ASSUME NEW n \in Nights, Scan(n) \/ Check(n) \/ Round(n) PROVE Places'
  <2>1. PICK p \in LoopPlaces : pc[n] \in LoopPlaces /\ pc' = [pc EXCEPT ![n] = p]
    BY <1>3, LoopSteps DEF LoopStep, Goto
  <2>2. took' = took /\ started' = started
    BY <1>3, LoopSteps DEF LoopStep, InLoop, shared
  <2>3. n \in took /\ n \in started
    BY <2>1, PlaceNames DEF Places, Ended
  <2> QED BY <2>1, <2>2, <2>3 DEF Places
<1>4. ASSUME NEW n \in Nights, Die(n) PROVE Places'
  <2>1. took' = took /\ started' = started /\ pc' = [pc EXCEPT ![n] = "dead"] /\ pc[n] # "new"
    BY <1>4 DEF Die, Goto, shared, Alive, Ended
  <2> QED BY <2>1 DEF Places
<1>5. CASE Tick \/ UNCHANGED vars
  BY <1>5 DEF Tick, vars, shared, local, Places
<1> QED BY <1>1, <1>2, <1>3, <1>4, <1>5 DEF Next, Session, Start

\* What was disturbed stays so.
LEMMA DisturbedStays ==
    ASSUME TypeOK, [Next]_vars, disturbed
    PROVE  disturbed'
<1>1. ASSUME NEW n \in Nights, Session(n) \/ Die(n) PROVE disturbed'
  <2>1. CASE RunStart(n)
    BY <2>1 DEF RunStart
  <2>2. CASE Scan(n) \/ Check(n) \/ Round(n)
    BY <2>2, LoopSteps DEF LoopStep, InLoop, history
  <2>3. CASE ReadLog(n) \/ WriteLog(n) \/ DropLock(n) \/ TakeLock(n) \/ RunFinish(n) \/ Die(n)
    BY <2>3 DEF ReadLog, WriteLog, DropLock, TakeLock, RunFinish, Die, history
  <2> QED BY <1>1, <2>1, <2>2, <2>3 DEF Session, Start
<1>2. CASE Tick \/ UNCHANGED vars
  BY <1>2 DEF Tick, vars, history
<1> QED BY <1>1, <1>2 DEF Next

\* A start that is not refused finds no session under way: the lock would be
\* held in time, or two starts would overlap.
LEMMA StartsAlone ==
    ASSUME TypeOK, Places, ~disturbed, InTime, Holds, NEW n \in Nights, RunStart(n),
           ~disturbed', pc'[n] # "refused"
    PROVE  \A m \in Nights : ~Alive(m)
<1> SUFFICES ASSUME NEW m \in Nights, Alive(m) PROVE FALSE
  OBVIOUS
<1>1. CASE m \in took
  <2>1. lock = m
    BY <1>1 DEF Holds, HoldsFor, Working
  <2>2. clock <= deadline[m] + Grace
    BY DEF InTime
  <2>3. ~Stale(lock)
    <3>1. clock \in Int /\ deadline[m] \in Int /\ Grace \in Int
      BY ConstantsAssumption DEF TypeOK
    <3> QED BY <2>1, <2>2, <3>1 DEF Stale
  <2>4. pc'[n] = "refused"
    BY <2>1, <2>3, ConstantsAssumption DEF RunStart, Goto, TypeOK
  <2> QED BY <2>4
<1>2. CASE m \notin took
  <2>1. pc[m] \in Starting
    BY <1>2 DEF Places, Alive, Ended
  <2> QED BY <1>2, <2>1 DEF RunStart
<1> QED BY <1>1, <1>2

\* No step brings a second session under way.
LEMMA AloneStep ==
    ASSUME TypeOK, Places, ~disturbed, Alone, InTime, Holds, [Next]_vars, ~disturbed'
    PROVE  Alone'
<1>1. ASSUME NEW n \in Nights, RunStart(n) PROVE Alone'
  <2>1. \A m \in Nights \ {n} : pc'[m] = pc[m]
    BY <1>1, OneMoves DEF Session, Start
  <2>2. CASE pc'[n] = "refused"
    BY <2>1, <2>2 DEF Alone, Alive, Ended
  <2>3. CASE pc'[n] # "refused"
    BY <1>1, <2>1, <2>3, StartsAlone DEF Alone, Alive
  <2> QED BY <2>2, <2>3
<1>2. ASSUME NEW n \in Nights, Session(n) \/ Die(n), ~RunStart(n) PROVE Alone'
  BY <1>2, OneMoves DEF Alone, Alive
<1>3. CASE Tick \/ UNCHANGED vars
  BY <1>3 DEF Tick, vars, local, Alone, Alive
<1> QED BY <1>1, <1>2, <1>3 DEF Next

\* While nothing is disturbed, no session runs on past its deadline and the grace.
LEMMA InTimeStep ==
    ASSUME TypeOK, Alone, InTime, [Next]_vars, ~disturbed'
    PROVE  InTime'
<1>1. ASSUME NEW n \in Nights, RunStart(n) PROVE InTime'
  <2>1. PICK d \in (clock + 1)..(clock + MaxLength) : deadline' = [deadline EXCEPT ![n] = d]
    BY <1>1 DEF RunStart
  <2>2. clock' = clock /\ clock \in Int /\ d \in Int /\ clock <= d /\ Grace \in Nat
    BY <1>1, ConstantsAssumption DEF RunStart, TypeOK
  <2>3. \A m \in Nights \ {n} : pc'[m] = pc[m]
    BY <1>1, OneMoves DEF Session, Start
  <2> QED BY <2>1, <2>2, <2>3 DEF InTime, Alive, TypeOK
<1>2. ASSUME NEW n \in Nights, Session(n) \/ Die(n), ~RunStart(n) PROVE InTime'
  <2>1. clock' = clock /\ deadline' = deadline
    <3>1. CASE Scan(n) \/ Check(n) \/ Round(n)
      BY <3>1, LoopSteps DEF LoopStep, InLoop, shared
    <3>2. CASE ~(Scan(n) \/ Check(n) \/ Round(n))
      BY <1>2, <3>2 DEF Session, Start, ReadLog, WriteLog, DropLock, TakeLock, RunFinish, Die,
                        shared
    <3> QED BY <3>1, <3>2
  <2>2. \A m \in Nights : Alive(m)' => Alive(m)
    BY <1>2, OneMoves DEF Alive
  <2> QED BY <2>1, <2>2 DEF InTime
<1>3. CASE Tick
  <2>1. pc' = pc /\ deadline' = deadline /\ clock' \in Int
    BY <1>3 DEF Tick, shared, local
  <2>3. ~\E n \in Nights : Alive(n) /\ clock' > deadline[n] + Grace
    BY <1>3 DEF Tick
  <2>2. \A n \in Nights : deadline[n] + Grace \in Int
    BY ConstantsAssumption DEF TypeOK
  <2> QED BY <2>1, <2>2, <2>3 DEF InTime, Alive
<1>4. CASE UNCHANGED vars
  BY <1>4 DEF vars, shared, local, InTime, Alive
<1> QED BY <1>1, <1>2, <1>3, <1>4 DEF Next

-----------------------------------------------------------------------------
(* What the lock, the log and the batch say *)

\* While a session is under way the others say nothing of the files, now or
\* after its step.
LEMMA OthersRest ==
    ASSUME TypeOK, Places, ~disturbed, Alone, InTime, Holds, ~disturbed',
           NEW n \in Nights, Session(n) \/ Die(n), pc'[n] # "refused"
    PROVE  \A m \in Nights \ {n} :
              ~Alive(m) /\ ~Alive(m)' /\ pc'[m] = pc[m] /\ HoldsFor(m)' /\ BatchFor(m)'
<1>1. \A m \in Nights \ {n} : ~Alive(m) /\ pc'[m] = pc[m]
  <2>1. CASE RunStart(n)
    BY <2>1, StartsAlone, OneMoves
  <2>2. CASE ~RunStart(n)
    BY <2>2, OneMoves DEF Alone
  <2> QED BY <2>1, <2>2
<1> QED BY <1>1 DEF Alive, Working, HoldsFor, BatchFor, Ended, Closing

\* A refused start changes no file.
LEMMA RefusedRests ==
    ASSUME TypeOK, Places, NEW n \in Nights, Session(n) \/ Die(n), pc'[n] = "refused"
    PROVE  /\ RunStart(n) /\ n \notin took
           /\ pc' = [pc EXCEPT ![n] = "refused"]
           /\ \A m \in Nights \ {n} : closing'[m] = closing[m]
           /\ UNCHANGED <<lock, log, rowVars, took, logRead, collected, torn>>
<1>1. RunStart(n)
  <2>1. CASE ReadLog(n) \/ WriteLog(n) \/ DropLock(n) \/ TakeLock(n) \/ RunFinish(n) \/ Die(n)
    BY <2>1 DEF ReadLog, WriteLog, DropLock, TakeLock, RunFinish, Die, Goto, TypeOK
  <2>2. CASE Scan(n) \/ Check(n) \/ Round(n)
    <3>1. PICK p \in LoopPlaces : pc' = [pc EXCEPT ![n] = p]
      BY <2>2, LoopSteps DEF LoopStep, Goto
    <3> QED BY <3>1 DEF LoopPlaces, TypeOK
  <2> QED BY <2>1, <2>2 DEF Session, Start
<1>2. n \notin took
  BY <1>1 DEF RunStart, Places, LoopPlaces, Closing
<1> QED BY <1>1, <1>2 DEF RunStart, Goto, TypeOK

\* A session reads what the files say until it writes them.
LEMMA HoldsStep ==
    ASSUME TypeOK, Places, ~disturbed, Alone, InTime, Holds, [Next]_vars, ~disturbed'
    PROVE  Holds'
<1>1. ASSUME NEW n \in Nights, Session(n) \/ Die(n), pc'[n] = "refused" PROVE Holds'
  <2>1. ASSUME NEW m \in Nights PROVE HoldsFor(m)'
    BY <1>1, RefusedRests DEF Holds, HoldsFor, Working, Alive, Closing, TypeOK
  <2> QED BY <2>1 DEF Holds
<1>2. ASSUME NEW n \in Nights, Session(n) \/ Die(n), pc'[n] # "refused" PROVE Holds'
  <2>0. HoldsFor(n)
    BY DEF Holds
  <2>1. CASE RunStart(n)
    <3>1. n \notin took'
      BY <2>1 DEF RunStart, Places, LoopPlaces, Closing
    <3> QED BY <1>2, <2>1, <3>1, OthersRest
            DEF RunStart, Goto, TypeOK, Holds, HoldsFor, Working, Closing
  <2>2. CASE ReadLog(n)
    <3>1. HoldsFor(n)'
      BY <2>0, <2>2 DEF ReadLog, Goto, TypeOK, HoldsFor, Working, Alive, Ended, Closing, shared
    <3> QED BY <1>2, <3>1, OthersRest DEF Holds
  <2>3. CASE WriteLog(n)
    <3>1. closing[n] = lock /\ lock \in Nights /\ logRead[n] = log
      BY <2>0, <2>3 DEF WriteLog, HoldsFor, TypeOK, Closing
    <3>2. log'[lock] = log[lock] + 1 /\ log[lock] \in Nat
      BY <2>3, <3>1 DEF WriteLog, TypeOK
    <3>3. HoldsFor(n)'
      BY <2>0, <2>3, <3>1, <3>2
         DEF WriteLog, Goto, TypeOK, HoldsFor, Working, Alive, Ended, Closing
    <3> QED BY <1>2, <3>3, OthersRest DEF Holds
  <2>4. CASE DropLock(n)
    <3>1. HoldsFor(n)'
      BY <2>0, <2>4 DEF DropLock, Goto, TypeOK, HoldsFor, Working, Alive, Ended, Closing
    <3> QED BY <1>2, <3>1, OthersRest DEF Holds
  <2>5. CASE TakeLock(n)
    <3>1. HoldsFor(n)'
      BY <2>0, <2>5 DEF TakeLock, Goto, TypeOK, HoldsFor, Closing
    <3> QED BY <1>2, <3>1, OthersRest DEF Holds
  <2>6. CASE RunFinish(n)
    <3>1. HoldsFor(n)'
      BY <2>0, <2>6 DEF RunFinish, Goto, TypeOK, HoldsFor, Working, Alive, Ended, Closing, shared
    <3> QED BY <1>2, <3>1, OthersRest DEF Holds
  <2>7. CASE Scan(n) \/ Check(n) \/ Round(n)
    <3>1. PICK p \in LoopPlaces : pc[n] \in LoopPlaces /\ pc' = [pc EXCEPT ![n] = p]
      BY <2>7, LoopSteps DEF LoopStep, Goto
    <3>2. lock' = lock /\ took' = took
      BY <2>7, LoopSteps DEF LoopStep, InLoop, shared
    <3>3. HoldsFor(n)'
      BY <2>0, <3>1, <3>2 DEF HoldsFor, Working, Alive, Ended, Closing, LoopPlaces
    <3> QED BY <1>2, <3>3, OthersRest DEF Holds
  <2>8. CASE Die(n)
    <3>1. HoldsFor(n)'
      BY <2>8 DEF Die, Goto, TypeOK, HoldsFor, Working, Alive, Ended, Closing
    <3> QED BY <1>2, <3>1, OthersRest DEF Holds
  <2> QED BY <1>2, <2>1, <2>2, <2>3, <2>4, <2>5, <2>6, <2>7, <2>8 DEF Session, Start
<1>3. CASE Tick \/ UNCHANGED vars
  BY <1>3 DEF Tick, vars, shared, local, Holds, HoldsFor, Working, Alive
<1> QED BY <1>1, <1>2, <1>3 DEF Next

\* The lines of the log and the lock account for every night.
LEMMA LinesStep ==
    ASSUME TypeOK, Places, ~disturbed, Alone, InTime, Holds, Lines, [Next]_vars, ~disturbed'
    PROVE  Lines'
<1>1. ASSUME NEW n \in Nights, Session(n) \/ Die(n), pc'[n] = "refused" PROVE Lines'
  BY <1>1, RefusedRests DEF Lines, RunStart, TypeOK
<1>2. ASSUME NEW n \in Nights, Session(n) \/ Die(n), pc'[n] # "refused" PROVE Lines'
  <2>0. HoldsFor(n)
    BY DEF Holds
  <2>9. \A m \in Nights \ {n} : pc[m] # "dropLock" /\ pc'[m] = pc[m]
    BY <1>2, OthersRest DEF Alive, Ended
  <2>1. CASE RunStart(n)
    BY <2>1, <2>9 DEF RunStart, Lines
  <2>2. CASE ReadLog(n) \/ RunFinish(n)
    BY <2>2, <2>9 DEF ReadLog, RunFinish, Lines, shared, history
  <2>3. CASE WriteLog(n)
    <3>1. closing[n] = lock /\ lock \in Nights /\ logRead[n] = log
      BY <2>0, <2>3 DEF WriteLog, HoldsFor, TypeOK, Closing
    <3>2. log[lock] <= torn
      BY <2>3, <2>9, <3>1, ConstantsAssumption DEF WriteLog, Lines
    <3>3. log' = [log EXCEPT ![lock] = log[lock] + 1]
      BY <2>3, <3>1 DEF WriteLog
    <3>4. pc'[n] = "dropLock" /\ lock' = lock /\ took' = took /\ torn' = torn
      BY <2>3 DEF WriteLog, Goto, TypeOK, history
    <3>5. lock \in took
      BY <3>1, ConstantsAssumption DEF Lines
    <3>6. \A m \in Nights : log[m] \in Nat /\ log'[m] = IF m = lock THEN log[m] + 1 ELSE log[m]
      BY <3>1, <3>3 DEF TypeOK
    <3>7. torn \in Nat /\ took \subseteq Nights
      BY DEF TypeOK
    <3> QED BY <3>2, <3>4, <3>5, <3>6, <3>7 DEF Lines
  <2>4. CASE DropLock(n)
    BY <2>0, <2>4 DEF DropLock, Lines, HoldsFor, history
  <2>5. CASE TakeLock(n)
    <3>1. lock = NoNight /\ n \notin took
      BY <2>0, <2>5 DEF TakeLock, HoldsFor, Places, LoopPlaces
    <3>2. lock' = n /\ took' = took \cup {n} /\ log' = log /\ torn' = torn
      BY <2>5 DEF TakeLock, history
    <3>3. log[n] = 0 /\ torn \in Nat
      BY <3>1 DEF Lines, TypeOK
    <3>4. \A m \in took : log[m] > 0
      BY <3>1, ConstantsAssumption DEF Lines, TypeOK
    <3> QED BY <3>2, <3>3, <3>4 DEF Lines
  <2>6. CASE Scan(n) \/ Check(n) \/ Round(n)
    <3>1. PICK p \in LoopPlaces : pc[n] \in LoopPlaces /\ pc' = [pc EXCEPT ![n] = p]
      BY <2>6, LoopSteps DEF LoopStep, Goto
    <3>2. UNCHANGED <<lock, log, took, torn>>
      BY <2>6, LoopSteps DEF LoopStep, InLoop, shared, history
    <3>3. pc[n] # "dropLock"
      BY <3>1 DEF LoopPlaces
    <3> QED BY <2>9, <3>2, <3>3 DEF Lines
  <2>7. CASE Die(n)
    <3>1. /\ UNCHANGED <<lock, log, took>>
          /\ torn' = IF pc[n] = "dropLock" THEN torn + 1 ELSE torn
      BY <2>7 DEF Die, shared
    <3>2. torn \in Nat /\ log \in [Nights -> Nat] /\ took \subseteq Nights
          /\ lock \in Nights \cup {NoNight}
      BY DEF TypeOK
    <3>3. CASE pc[n] = "dropLock"
      BY <3>1, <3>2, <3>3 DEF Lines
    <3>4. CASE pc[n] # "dropLock"
      BY <2>9, <3>1, <3>4 DEF Lines
    <3> QED BY <3>3, <3>4
  <2> QED BY <1>2, <2>1, <2>2, <2>3, <2>4, <2>5, <2>6, <2>7 DEF Session, Start
<1>3. CASE Tick \/ UNCHANGED vars
  BY <1>3 DEF Tick, vars, shared, local, history, Lines
<1> QED BY <1>1, <1>2, <1>3 DEF Next

\* The rows of the batch stay in Inbox until the session commits them.
LEMMA BatchesStep ==
    ASSUME TypeOK, Places, ~disturbed, Alone, InTime, Holds, Batches, [Next]_vars, ~disturbed'
    PROVE  Batches'
<1>1. ASSUME NEW n \in Nights, Session(n) \/ Die(n), pc'[n] = "refused" PROVE Batches'
  BY <1>1, RefusedRests DEF Batches, BatchFor, TypeOK, rowVars
<1>2. ASSUME NEW n \in Nights, Session(n) \/ Die(n), pc'[n] # "refused" PROVE Batches'
  <2>0. BatchFor(n)
    BY DEF Batches
  <2> SUFFICES BatchFor(n)'
    BY <1>2, OthersRest DEF Batches
  <2>1. CASE RunStart(n) \/ ReadLog(n) \/ WriteLog(n) \/ DropLock(n) \/ TakeLock(n)
    BY <2>1 DEF RunStart, ReadLog, WriteLog, DropLock, TakeLock, Goto, TypeOK, BatchFor
  <2>2. CASE RunFinish(n) \/ Die(n) \/ Scan(n)
    BY <2>2 DEF RunFinish, Die, Scan, Goto, TypeOK, BatchFor
  <2>3. CASE Check(n)
    BY <2>3 DEF Check, Goto, TypeOK, BatchFor
  <2>4. CASE PreparePre(n)
    <3>1. PICK dropped \in SUBSET Stage("inbox") :
            \E batch \in SUBSET (Stage("inbox") \ dropped) :
                Move(dropped, "gone") /\ ctx'.batch = batch
      BY <2>4 DEF PreparePre
    <3>2. \A r \in ctx'.batch : r \in Rows \ dropped /\ stage[r] = "inbox"
      BY <3>1 DEF Stage
    <3>3. \A r \in ctx'.batch : stage'[r] = "inbox"
      BY <3>1, <3>2 DEF Move
    <3>4. pc'[n] \in {"check", "workers"}
      BY <2>4 DEF PreparePre, Goto, TypeOK
    <3> QED BY <3>3, <3>4 DEF BatchFor
  <2>5. CASE JudgeRows(n)
    BY <2>0, <2>5 DEF JudgeRows, Goto, BatchFor
  <2>6. CASE PrepareCollect(n)
    BY <2>0, <2>6 DEF PrepareCollect, TypeOK, BatchFor, rowVars
  <2>7. CASE PreparePreFails(n) \/ PrepareCommit(n) \/ CommitFails(n) \/ ApplyPre(n)
              \/ ApplyPreFails(n) \/ ApplySubmit(n)
    BY <2>7 DEF PreparePreFails, PrepareCommit, CommitFails, ApplyPre, ApplyPreFails,
                ApplySubmit, Goto, TypeOK, BatchFor
  <2> QED BY <1>2, <2>1, <2>2, <2>3, <2>4, <2>5, <2>6, <2>7 DEF Session, Start, Round
<1>3. CASE Tick \/ UNCHANGED vars
  BY <1>3 DEF Tick, vars, rowVars, local, Batches, BatchFor
<1> QED BY <1>1, <1>2, <1>3 DEF Next

-----------------------------------------------------------------------------
(* The invariant, and what it says of the nights *)

\* The invariant holds of the first state.
LEMMA InitIInv == Init => IInv
<1> SUFFICES ASSUME Init PROVE IInv
  OBVIOUS
<1>1. TypeOK
  <2>1. clock \in 0..MaxClock /\ deadline \in [Nights -> 0..MaxClock]
    BY ConstantsAssumption DEF Init
  <2>2. log \in [Nights -> Nat] /\ logRead \in [Nights -> [Nights -> Nat]]
    BY DEF Init, NoLines
  <2>3. /\ stage \in [Rows -> {"new", "inbox", "ready", "gone"}]
        /\ ctx \in [batch: SUBSET Rows, exhausted: BOOLEAN, since: SUBSET Nights]
        /\ seen \in [Nights -> SUBSET Rows] /\ sent \in [Nights -> SUBSET Rows]
        /\ collected \in [Nights -> SUBSET Rows]
    BY DEF Init
  <2>4. pc \in [Nights -> Ended \cup Starting \cup LoopPlaces]
    BY DEF Init, Ended
  <2> QED BY <2>1, <2>2, <2>3, <2>4 DEF Init, TypeOK, LoopPlaces
<1>2. Places
  BY DEF Init, Places
<1>3. Alone /\ InTime
  BY DEF Init, Alone, InTime, Alive, Ended
<1>4. Holds
  BY DEF Init, Holds, HoldsFor, Working, Closing
<1>5. Lines
  BY DEF Init, Lines, NoLines
<1>6. Batches
  BY DEF Init, Batches, BatchFor
<1> QED BY <1>1, <1>2, <1>3, <1>4, <1>5, <1>6 DEF IInv, Orderly

\* Every step keeps the invariant.
LEMMA StepIInv == IInv /\ [Next]_vars => IInv'
<1> SUFFICES ASSUME IInv, [Next]_vars PROVE IInv'
  OBVIOUS
<1>1. TypeOK' /\ Places'
  BY TypeStep, PlacesStep DEF IInv
<1>2. ASSUME ~disturbed' PROVE Alone' /\ InTime' /\ Holds' /\ Lines' /\ Batches'
  <2>1. ~disturbed
    BY <1>2, DisturbedStays DEF IInv
  <2>2. TypeOK /\ Places /\ Alone /\ InTime /\ Holds /\ Lines /\ Batches
    BY <2>1 DEF IInv, Orderly
  <2> QED BY <1>2, <2>1, <2>2, AloneStep, InTimeStep, HoldsStep, LinesStep, BatchesStep
<1> QED BY <1>1, <1>2 DEF IInv, Orderly

\* The invariant holds in every state of every behaviour.
THEOREM Inductive == Spec => []IInv
BY InitIInv, StepIInv, PTL DEF Spec

\* The state keeps its types, whatever starts, dies and overlaps.
THEOREM TypeCorrect == Spec => []TypeOK
<1>1. IInv => TypeOK
  BY DEF IInv
<1> QED BY <1>1, Inductive, PTL

\* The lock keeps two nights apart, as long as no two starts overlap and no
\* session outlives its deadline and the grace.
THEOREM OneNightAtATime == Spec => []OneNight
<1>1. IInv => OneNight
  BY DEF IInv, Orderly, Alone, OneNight, Working
<1> QED BY <1>1, Inductive, PTL

\* Wherever sessions die, each night has its line in the log or its lock, which
\* the next start will turn into a line.
THEOREM EveryNightAccountedFor == Spec => []NoNightLost
<1>1. IInv => NoNightLost
  BY DEF IInv, Orderly, Lines, NoNightLost
<1> QED BY <1>1, Inductive, PTL

\* A night has one line in the log, but for deaths between the line and the
\* removal of the lock.
THEOREM OneLinePerNight == Spec => []LoggedOnce
<1>1. IInv => LoggedOnce
  BY DEF IInv, Orderly, Lines, LoggedOnce
<1> QED BY <1>1, Inductive, PTL

\* A session commits rows that are still in Inbox, whatever the files of earlier
\* rounds and of dead nights say.
THEOREM OnlyInboxCommitted == Spec => []CommitsInboxRows
<1>1. IInv => CommitsInboxRows
  BY DEF IInv, Orderly, Batches, BatchFor, CommitsInboxRows
<1> QED BY <1>1, Inductive, PTL

\* An apply round leaves no row of the queue fresh for its night, so that none
\* sends the night to another round.
THEOREM NoRowTwice == Spec => PreLeavesNothingFresh
<1>1. ASSUME TypeOK, Places, [Next]_vars, NEW n \in Nights, pc[n] = "pre", pc'[n] = "submit"
      PROVE  Fresh(n)' = {}
  <2>1. ApplyPre(n)
    <3>1. ASSUME NEW m \in Nights, Session(m) \/ Die(m) PROVE m = n
      BY <1>1, <3>1, OneMoves
    <3>2. Session(n) \/ Die(n)
      BY <1>1, <3>1 DEF Next, Tick, vars, local
    <3>3. ~Die(n) /\ ~Start(n) /\ ~RunFinish(n)
      BY <1>1 DEF Die, Start, RunStart, ReadLog, WriteLog, DropLock, TakeLock, RunFinish, Goto,
                  TypeOK
    <3>4. ~Scan(n) /\ ~Check(n)
      BY <1>1 DEF Scan, Check
    <3>5. ~PreparePre(n) /\ ~PreparePreFails(n) /\ ~JudgeRows(n) /\ ~PrepareCollect(n)
          /\ ~PrepareCommit(n) /\ ~CommitFails(n) /\ ~ApplySubmit(n)
      BY <1>1 DEF PreparePre, PreparePreFails, JudgeRows, PrepareCollect, PrepareCommit,
                  CommitFails, ApplySubmit
    <3>6. ~ApplyPreFails(n)
      BY <1>1 DEF ApplyPreFails, Goto, TypeOK
    <3> QED BY <3>2, <3>3, <3>4, <3>5, <3>6 DEF Session, Round
  <2>2. n \in started
    BY <1>1 DEF Places
  <2>3. PICK manual \in SUBSET Rows, closed \in SUBSET Rows :
            /\ Move(manual \cup closed, "gone")
            /\ seen' = [m \in Nights |-> IF m \in started
                                THEN seen[m] \cup (Stage("ready") \ closed) ELSE seen[m]]
    BY <1>1, <2>1, ApplyPreChoice
  <2>4. ASSUME NEW r \in Rows, stage'[r] = "ready" PROVE r \in seen'[n]
    <3>1. r \notin closed /\ stage[r] = "ready"
      BY <2>3, <2>4 DEF Move
    <3> QED BY <2>2, <2>3, <3>1 DEF Stage
  <2> QED BY <2>4 DEF Fresh, Stage
<1>2. IInv /\ [Next]_vars =>
        \A n \in Nights : pc[n] = "pre" /\ pc'[n] = "submit" => Fresh(n)' = {}
  BY <1>1 DEF IInv
<1> QED BY <1>2, Inductive, PTL DEF Spec, PreLeavesNothingFresh
=============================================================================
