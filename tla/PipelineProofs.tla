--------------------------- MODULE PipelineProofs ---------------------------
(***************************************************************************)
(* Theorems about a row's way to its application: Prepare makes it ready   *)
(* to apply for, whatever the rows, companies, caps and batch size;        *)
(* FormDesk answers its form and sends it, whatever the forms, texts,      *)
(* ratings and pages of the bank.                                          *)
(***************************************************************************)
EXTENDS Prepare, FormDesk, TLAPS, FiniteSetTheorems, WellFoundedInduction, NaturalsInduction

-----------------------------------------------------------------------------
(* The inductive invariant *)

\* What a command holds in memory while it does not run.
AtRest ==
    /\ pc # "push" => mem = rows /\ todo = {}
    /\ pc # "write" => draft = NoContext

\* A row, saved or in the hands of a commit.
RowSound(r, rec, pushing) ==
    /\ rec.page <=> rec.status = "ToApply" /\ ~pushing
    /\ rec.page => pages[r] > 0
    /\ rec.page => rec.fit = "Weak" \/ (rec.fit = "Good" /\ rec.docs) \/ r \in lost
    /\ rec.fit = "Weak" => \/ results[r] = "Weak"
                           \/ results[r] = "none" /\ r \notin ctx.batch \cup draft.batch

RowsSound == \A r \in Rows : RowSound(r, rows[r], FALSE) /\ RowSound(r, mem[r], r \in todo)

\* A row to push has a verdict.
ToPush == \A r \in todo : mem[r].status = "ToApply" /\ mem[r].fit # "none"

\* A page the ledger does not know of is on its way there, or lost.
Accounted ==
    \A r \in Rows : /\ pages[r] <= 1
                    /\ pages[r] > 0 /\ ~rows[r].page => r \in lost \/ mem[r].page
                    /\ rows[r].page => mem[r].page

\* Only rows of the ledger are in a batch, carried over or judged.
Known ==
    \A r \in Rows :
        /\ rows[r].status = "none"
              => /\ r \notin ctx.batch \cup draft.batch \cup ctx.carry \cup draft.carry
                 /\ results[r] = "none"
        /\ mem[r].status = "none" => rows[r].status = "none"

\* A row that is carried over is Weak and stays it.
Carried ==
    \A r \in ctx.carry \cup draft.carry : rows[r].fit = "Weak" /\ mem[r].fit = "Weak"

\* The rows of a company that its cap allowed: in a batch, or promoted out of one.
Claimed(c, batch) ==
    {r \in Rows : /\ CompanyOf[r] = c
                  /\ r \in batch \/ (rows[r].status = "ToApply" /\ r \notin unplanned)}

CapRoom ==
    \A c \in Companies : /\ Cardinality(Claimed(c, ctx.batch)) <= Cap[c]
                         /\ Cardinality(Claimed(c, draft.batch)) <= Cap[c]

IInv == TypeOK /\ AtRest /\ RowsSound /\ ToPush /\ Accounted /\ Known /\ Carried
        /\ CapRoom
-----------------------------------------------------------------------------
(* Lemmas about the operators *)

\* What a commit makes of a row, by its result.
LEMMA CommittedFields ==
    ASSUME TypeOK, NEW r \in Rows, NEW pdf
    PROVE  /\ CommittedRow(r, pdf) \in Row
           /\ CommittedRow(r, pdf).page = rows[r].page
           /\ rows[r].docs => CommittedRow(r, pdf).docs
           /\ results[r] = "Parked" => /\ CommittedRow(r, pdf).status = rows[r].status
                                       /\ CommittedRow(r, pdf).fit = "Good"
           /\ results[r] \in {"Weak", "Good"} => /\ CommittedRow(r, pdf).status = "ToApply"
                                                 /\ CommittedRow(r, pdf).fit = results[r]
           /\ results[r] = "none" /\ r \in CarriedOver
                => /\ CommittedRow(r, pdf).status = "ToApply"
                   /\ CommittedRow(r, pdf).fit = "Weak"
           /\ results[r] = "none" /\ r \notin CarriedOver => CommittedRow(r, pdf) = rows[r]
<1>0. rows[r] \in Row /\ results[r] \in Verdicts \cup {"none"}
  BY DEF TypeOK
<1>1. CASE results[r] = "Parked"
  <2>1. CommittedRow(r, pdf) = [rows[r] EXCEPT !.fit = "Good"]
    BY <1>1 DEF CommittedRow, CarriedOver
  <2> QED BY <1>0, <1>1, <2>1 DEF Row
<1>2. CASE results[r] = "Weak"
  <2>1. CommittedRow(r, pdf) = [rows[r] EXCEPT !.status = "ToApply", !.fit = "Weak"]
    BY <1>2 DEF CommittedRow
  <2> QED BY <1>0, <1>2, <2>1 DEF Row
<1>3. CASE results[r] = "Good"
  <2>1. CommittedRow(r, pdf) = [rows[r] EXCEPT !.status = "ToApply", !.fit = "Good",
                                               !.docs = @ \/ r \in pdf]
    BY <1>3 DEF CommittedRow, CarriedOver
  <2> QED BY <1>0, <1>3, <2>1 DEF Row
<1>4. CASE results[r] = "none" /\ r \in CarriedOver
  <2>1. CommittedRow(r, pdf) = [rows[r] EXCEPT !.status = "ToApply", !.fit = "Weak"]
    BY <1>4 DEF CommittedRow
  <2> QED BY <1>0, <1>4, <2>1 DEF Row
<1>5. CASE results[r] = "none" /\ r \notin CarriedOver
  <2>1. CommittedRow(r, pdf) = rows[r]
    BY <1>5 DEF CommittedRow
  <2> QED BY <1>0, <1>5, <2>1
<1> QED BY <1>0, <1>1, <1>2, <1>3, <1>4, <1>5 DEF Verdicts

\* Rows that change status or page alone stay rows.
LEMMA RowOperators ==
    ASSUME NEW rec \in Row
    PROVE  /\ PulledRow(rec) \in Row /\ ArchivedRow(rec) \in Row /\ RevertedRow(rec) \in Row
           /\ PulledRow(rec).status = "ToApply" /\ PulledRow(rec).page
           /\ PulledRow(rec).fit = rec.fit /\ PulledRow(rec).docs = rec.docs
           /\ ArchivedRow(rec).status = "Archived" /\ ArchivedRow(rec).page = rec.page
           /\ ArchivedRow(rec).fit = rec.fit
           /\ RevertedRow(rec).status = "Inbox" /\ ~RevertedRow(rec).page
           /\ RevertedRow(rec).fit = rec.fit
BY DEF Row, PulledRow, ArchivedRow, RevertedRow

\* What the first half of a pre does to the ledger and its draft: it archives
\* rows without a page and puts none that is Weak into the batch.
PreDoes ==
    /\ \E archived \in SUBSET {r \in Rows : Fresh(r)} :
          rows' = [r \in Rows |-> IF r \in archived THEN ArchivedRow(rows[r]) ELSE rows[r]]
    /\ \E new \in SUBSET {r \in Rows : Fresh(r) /\ rows[r].fit # "Weak"}, old \in {{}, ctx.batch},
          queue \in SUBSET Rows, orphans \in SUBSET {r \in Rows : Fresh(r) /\ rows[r].fit = "Weak"},
          carry \in {{}, ctx.carry} :
          draft' = [batch |-> old \cup new, queue |-> queue, carry |-> carry \cup orphans]
    /\ pc = "idle" /\ pc' = "write" /\ mem' = rows'
    /\ UNCHANGED <<ctx, results, pages, todo, lost, unplanned>>

LEMMA PreSteps ==
    ASSUME TypeOK, FreshPre \/ Topup
    PROVE  PreDoes
<1>1. CASE FreshPre
  <2>1. PICK fate \in [NotYetEvaluated(Rows) -> Fates] :
          /\ draft' = [batch |-> Having(fate, {"batched"}), queue |-> Having(fate, {"queued"}),
                       carry |-> Orphans(Rows)]
          /\ ArchiveSkipped(fate)
    BY <1>1 DEF FreshPre, FreshContext
  <2>2. DOMAIN fate = NotYetEvaluated(Rows)
    OBVIOUS
  <2>3. /\ Having(fate, Skipped) \in SUBSET {r \in Rows : Fresh(r)}
        /\ Having(fate, {"batched"}) \in SUBSET {r \in Rows : Fresh(r) /\ rows[r].fit # "Weak"}
        /\ Having(fate, {"queued"}) \in SUBSET Rows
    BY <2>2 DEF Having, NotYetEvaluated
  <2>4. Orphans(Rows) \in SUBSET {r \in Rows : Fresh(r) /\ rows[r].fit = "Weak"}
    BY DEF Orphans
  <2>5. draft' = [batch |-> {} \cup Having(fate, {"batched"}), queue |-> Having(fate, {"queued"}),
                  carry |-> {} \cup Orphans(Rows)]
    BY <2>1
  <2> QED BY <1>1, <2>1, <2>3, <2>4, <2>5 DEF FreshPre, FreshContext, ArchiveSkipped, PreDoes, history
<1>2. CASE Topup
  <2> DEFINE queue == ctx.queue \ ctx.batch
  <2>1. PICK fate \in [NotYetEvaluated(queue) -> Fates] :
          /\ draft' = [batch |-> ctx.batch \cup Having(fate, {"batched"}),
                       queue |-> Having(fate, {"queued"}),
                       carry |-> ctx.carry \cup Orphans(queue)]
          /\ ArchiveSkipped(fate)
    BY <1>2 DEF Topup, MergedContext
  <2>2. DOMAIN fate = NotYetEvaluated(queue) /\ queue \subseteq Rows
    BY DEF TypeOK, Context
  <2>3. /\ Having(fate, Skipped) \in SUBSET {r \in Rows : Fresh(r)}
        /\ Having(fate, {"batched"}) \in SUBSET {r \in Rows : Fresh(r) /\ rows[r].fit # "Weak"}
        /\ Having(fate, {"queued"}) \in SUBSET Rows
    BY <2>2 DEF Having, NotYetEvaluated
  <2>4. Orphans(queue) \in SUBSET {r \in Rows : Fresh(r) /\ rows[r].fit = "Weak"}
    BY <2>2 DEF Orphans
  <2> QED BY <1>2, <2>1, <2>3, <2>4 DEF Topup, MergedContext, ArchiveSkipped, PreDoes, history
<1> QED BY <1>1, <1>2

-----------------------------------------------------------------------------
(* The ledger and the pages: one lemma for each action *)

Sound == TypeOK /\ AtRest /\ RowsSound /\ ToPush /\ Accounted /\ Known /\ Carried

LEMMA SoundInit == Init => Sound
<1> SUFFICES ASSUME Init PROVE Sound
  OBVIOUS
<1>1. NoRow \in Row /\ NoContext \in Context
  BY DEF NoRow, Row, NoContext, Context
<1>2. TypeOK
  BY <1>1 DEF Init, TypeOK
<1>3. RowsSound
  BY DEF Init, RowsSound, RowSound, NoRow
<1>4. AtRest /\ ToPush
  BY DEF Init, AtRest, ToPush
<1>6. Accounted
  <2>1. ASSUME NEW r \in Rows PROVE pages[r] <= 1 /\ ~(pages[r] > 0) /\ mem = rows
    BY DEF Init
  <2> QED BY <2>1 DEF Accounted
<1>5. Known /\ Carried
  BY DEF Init, Known, Carried, NoContext
<1> QED BY <1>2, <1>3, <1>4, <1>5, <1>6 DEF Sound

\* A new row has neither page nor verdict.
LEMMA ScanKeeps ==
    ASSUME Sound, Scan
    PROVE  Sound'
<1> USE DEF Sound
<1>1. PICK passed \in SUBSET Rows, rejected \in SUBSET Rows :
          /\ \A r \in passed \cup rejected : rows[r].status = "none"
          /\ rows' = [r \in Rows |->
                       IF r \in passed THEN [NoRow EXCEPT !.status = "Inbox"]
                       ELSE IF r \in rejected THEN [NoRow EXCEPT !.status = "Archived"]
                       ELSE rows[r]]
  BY DEF Scan
<1>2. /\ mem' = rows' /\ mem = rows /\ todo = {} /\ draft = NoContext /\ pc = "idle"
      /\ UNCHANGED <<ctx, results, pages, pc, draft, todo, lost, unplanned>>
  BY DEF Scan, history, AtRest
<1>3. ASSUME NEW r \in Rows
      PROVE  /\ rows'[r] \in Row
             /\ rows'[r] = rows[r] \/ (rows[r].status = "none" /\ ~rows'[r].page
                                       /\ rows'[r].fit = "none" /\ rows'[r].status # "ToApply")
  BY <1>1 DEF TypeOK, NoRow, Row
<1>4. TypeOK'
  <2>1. rows' \in [Rows -> Row]
    BY <1>1, <1>3
  <2> QED BY <1>2, <2>1 DEF TypeOK
<1>5. RowsSound' /\ Accounted'
  <2> SUFFICES ASSUME NEW r \in Rows
               PROVE  /\ RowSound(r, rows[r], FALSE)' /\ RowSound(r, mem[r], r \in todo)'
                      /\ (pages[r] <= 1)'
                      /\ (pages[r] > 0 /\ ~rows[r].page => r \in lost \/ mem[r].page)'
                      /\ (rows[r].page => mem[r].page)'
    BY DEF RowsSound, Accounted
  <2>1. RowSound(r, rows[r], FALSE) /\ pages[r] <= 1
        /\ (pages[r] > 0 /\ ~rows[r].page => r \in lost \/ mem[r].page)
    BY DEF RowsSound, Accounted
  <2> QED BY <1>2, <1>3, <2>1 DEF RowSound
<1>6. Carried' /\ Known'
  <2>1. ASSUME NEW r \in Rows, rows[r].status # "none" PROVE rows'[r] = rows[r]
    BY <1>3, <2>1
  <2>2. ASSUME NEW r \in Rows, rows'[r].status = "none" PROVE rows[r].status = "none"
    BY <2>1, <2>2
  <2>3. ctx.carry \subseteq Rows /\ \A r \in ctx.carry : rows[r].status # "none"
    BY DEF Known, TypeOK, Context
  <2> QED BY <1>2, <2>1, <2>2, <2>3 DEF Carried, Known, NoContext
<1>7. ToPush' /\ AtRest'
  BY <1>2 DEF ToPush, AtRest
<1> QED BY <1>4, <1>5, <1>6, <1>7

\* Sync makes To Apply of rows whose page the ledger did not know of.
LEMMA SyncKeeps ==
    ASSUME Sound, Sync
    PROVE  Sound'
<1> USE DEF Sound
<1>1. /\ rows' = [r \in Rows |-> IF pages[r] > 0 THEN PulledRow(rows[r]) ELSE rows[r]]
      /\ mem' = rows' /\ mem = rows /\ todo = {} /\ draft = NoContext /\ pc = "idle"
      /\ UNCHANGED <<ctx, results, pages, pc, draft, todo, lost>>
      /\ unplanned' \subseteq Rows
  BY DEF Sync, AtRest, TypeOK
<1>2. ASSUME NEW r \in Rows
      PROVE  /\ rows'[r] \in Row /\ rows'[r].fit = rows[r].fit
             /\ \/ rows'[r] = rows[r] /\ ~(pages[r] > 0)
                \/ /\ pages[r] > 0 /\ rows'[r].status = "ToApply" /\ rows'[r].page
                   /\ rows'[r].docs = rows[r].docs
  BY <1>1, RowOperators DEF TypeOK
<1>3. TypeOK'
  <2>1. rows' \in [Rows -> Row]
    BY <1>1, <1>2
  <2> QED BY <1>1, <2>1 DEF TypeOK
<1>4. RowsSound' /\ Accounted'
  <2> SUFFICES ASSUME NEW r \in Rows
               PROVE  /\ RowSound(r, rows[r], FALSE)' /\ RowSound(r, mem[r], r \in todo)'
                      /\ (pages[r] <= 1)'
                      /\ (pages[r] > 0 /\ ~rows[r].page => r \in lost \/ mem[r].page)'
                      /\ (rows[r].page => mem[r].page)'
    BY DEF RowsSound, Accounted
  <2>1. RowSound(r, rows[r], FALSE) /\ pages[r] <= 1
        /\ (pages[r] > 0 /\ ~rows[r].page => r \in lost)
    BY <1>1 DEF RowsSound, RowSound, Accounted
  <2> QED BY <1>1, <1>2, <2>1 DEF RowSound
<1>5. Known' /\ Carried'
  <2>1. ASSUME NEW r \in Rows, rows'[r].status = "none" PROVE rows[r].status = "none"
    BY <1>2, <2>1
  <2>2. ctx.carry \subseteq Rows
    BY DEF TypeOK, Context
  <2>3. Known'
    BY <1>1, <2>1 DEF Known
  <2>4. Carried'
    BY <1>1, <1>2, <2>2 DEF Carried, NoContext
  <2> QED BY <2>3, <2>4
<1>6. ToPush' /\ AtRest'
  BY <1>1 DEF ToPush, AtRest
<1> QED BY <1>3, <1>4, <1>5, <1>6

\* A pre archives rows without a page, and batches none that is Weak.
LEMMA PreKeeps ==
    ASSUME Sound, PreDoes
    PROVE  Sound'
<1> USE DEF Sound
<1>1. PICK archived \in SUBSET {r \in Rows : Fresh(r)} :
          rows' = [r \in Rows |-> IF r \in archived THEN ArchivedRow(rows[r]) ELSE rows[r]]
  BY DEF PreDoes
<1>2. PICK new \in SUBSET {r \in Rows : Fresh(r) /\ rows[r].fit # "Weak"}, old \in {{}, ctx.batch},
           queue \in SUBSET Rows,
           orphans \in SUBSET {r \in Rows : Fresh(r) /\ rows[r].fit = "Weak"},
           carry \in {{}, ctx.carry} :
          draft' = [batch |-> old \cup new, queue |-> queue, carry |-> carry \cup orphans]
  BY DEF PreDoes
<1>3. /\ mem' = rows' /\ mem = rows /\ todo = {} /\ draft = NoContext
      /\ pc = "idle" /\ pc' = "write"
      /\ UNCHANGED <<ctx, results, pages, todo, lost, unplanned>>
  BY DEF PreDoes, AtRest
<1>4. ASSUME NEW r \in Rows
      PROVE  /\ rows'[r] \in Row /\ rows'[r].fit = rows[r].fit
             /\ \/ rows'[r] = rows[r]
                \/ ~rows[r].page /\ ~rows'[r].page /\ rows'[r].status = "Archived"
  <2>1. rows[r] \in Row /\ RowSound(r, rows[r], FALSE)
    BY DEF TypeOK, RowsSound
  <2>2. CASE r \in archived
    <3>1. ~rows[r].page
      BY <2>1, <2>2 DEF Fresh, RowSound
    <3> QED BY <1>1, <2>1, <2>2, <3>1, RowOperators
  <2>3. CASE r \notin archived
    BY <1>1, <2>1, <2>3
  <2> QED BY <2>2, <2>3
<1>5. TypeOK'
  <2>1. rows' \in [Rows -> Row]
    BY <1>1, <1>4
  <2>2. draft' \in Context
    BY <1>2 DEF TypeOK, Context
  <2> QED BY <1>3, <2>1, <2>2 DEF TypeOK
<1>6. RowsSound' /\ Accounted'
  <2> SUFFICES ASSUME NEW r \in Rows
               PROVE  /\ RowSound(r, rows[r], FALSE)' /\ RowSound(r, mem[r], r \in todo)'
                      /\ (pages[r] <= 1)'
                      /\ (pages[r] > 0 /\ ~rows[r].page => r \in lost \/ mem[r].page)'
                      /\ (rows[r].page => mem[r].page)'
    BY DEF RowsSound, Accounted
  <2>1. RowSound(r, rows[r], FALSE) /\ pages[r] <= 1
        /\ (pages[r] > 0 /\ ~rows[r].page => r \in lost)
    BY <1>3 DEF RowsSound, RowSound, Accounted
  <2>2. r \in draft'.batch => r \in ctx.batch \/ rows[r].fit # "Weak"
    BY <1>2
  <2> QED BY <1>3, <1>4, <2>1, <2>2 DEF RowSound
<1>7. Known' /\ Carried'
  <2>1. ASSUME NEW r \in Rows, rows'[r].status = "none" PROVE rows[r].status = "none" /\ ~Fresh(r)
    BY <1>4, <2>1 DEF Fresh
  <2>2. draft'.batch \cup draft'.carry \subseteq ctx.batch \cup ctx.carry \cup {r \in Rows : Fresh(r)}
    BY <1>2
  <2>3. \A r \in draft'.carry : r \in ctx.carry \/ (r \in Rows /\ rows[r].fit = "Weak")
    BY <1>2
  <2>4. ctx.carry \subseteq Rows
    BY DEF TypeOK, Context
  <2>5. Known'
    BY <1>3, <2>1, <2>2 DEF Known
  <2>6. Carried'
    BY <1>3, <1>4, <2>3, <2>4 DEF Carried
  <2> QED BY <2>5, <2>6
<1>8. ToPush' /\ AtRest'
  BY <1>3 DEF ToPush, AtRest
<1> QED BY <1>5, <1>6, <1>7, <1>8

\* The context a pre writes is the draft, of which everything is known.
LEMMA WriteContextKeeps ==
    ASSUME Sound, WriteContext
    PROVE  Sound'
<1> USE DEF Sound
<1>1. /\ ctx' = draft /\ draft' = NoContext /\ pc = "write" /\ pc' = "idle"
      /\ UNCHANGED <<rows, results, pages, mem, todo, lost, unplanned>>
  BY DEF WriteContext, history
<1>2. NoContext \in Context
  BY DEF NoContext, Context
<1>3. TypeOK' /\ AtRest' /\ ToPush' /\ Accounted'
  BY <1>1, <1>2 DEF TypeOK, AtRest, ToPush, Accounted
<1>4. RowsSound'
  BY <1>1 DEF RowsSound, RowSound, NoContext
<1>5. Known' /\ Carried'
  BY <1>1 DEF Known, Carried, NoContext
<1> QED BY <1>3, <1>4, <1>5

\* Judging gives no result to a row outside the batch, and changes none.
LEMMA JudgeKeeps ==
    ASSUME Sound, Judge
    PROVE  Sound'
<1> USE DEF Sound
<1>1. PICK verdict \in [ctx.batch -> Verdicts \cup {"none"}] :
          /\ \A r \in ctx.batch : results[r] # "none" => verdict[r] = results[r]
          /\ results' = [r \in Rows |-> IF r \in ctx.batch THEN verdict[r] ELSE "none"]
  BY DEF Judge, Collected
<1>2. /\ pc = "idle" /\ draft = NoContext /\ mem = rows /\ todo = {}
      /\ UNCHANGED <<rows, ctx, pages, pc, draft, mem, todo, lost, unplanned>>
  BY DEF Judge, Collected, command, history, AtRest
<1>3. results' \in [Rows -> Verdicts \cup {"none"}]
  BY <1>1
<1>4. TypeOK' /\ AtRest' /\ ToPush' /\ Accounted'
  BY <1>2, <1>3 DEF TypeOK, AtRest, ToPush, Accounted
<1>5. RowsSound'
  <2> SUFFICES ASSUME NEW r \in Rows PROVE RowSound(r, rows[r], FALSE)'
    BY <1>2 DEF RowsSound, RowSound
  <2>1. RowSound(r, rows[r], FALSE)
    BY DEF RowsSound
  <2> QED BY <1>1, <1>2, <2>1 DEF RowSound, NoContext
<1>6. Known' /\ Carried'
  BY <1>1, <1>2 DEF Known, Carried, NoContext
<1> QED BY <1>4, <1>5, <1>6

\* What a commit starts with, row by row.
LEMMA StartCommitDoes ==
    ASSUME Sound, StartCommit
    PROVE  /\ pc = "idle" /\ pc' = "push" /\ draft = NoContext /\ todo' \subseteq Rows
           /\ mem' \in [Rows -> Row]
           /\ UNCHANGED <<rows, ctx, results, pages, draft, lost, unplanned>>
           /\ \A r \in Rows : \E pdf :
                 \/ /\ mem'[r] = CommittedRow(r, pdf)
                    /\ r \in todo' <=> /\ results[r] \in {"Weak", "Good"} \/ r \in CarriedOver
                                       /\ ~rows[r].page
                 \/ /\ mem'[r] = RevertedRow(CommittedRow(r, pdf)) /\ r \notin todo'
                    /\ results[r] \in {"Weak", "Good"} \/ r \in CarriedOver
                    /\ ~rows[r].page
<1> USE DEF Sound
<1> DEFINE toPush == {r \in Rows : /\ results[r] \in {"Weak", "Good"} \/ r \in CarriedOver
                                   /\ ~rows[r].page}
<1>1. PICK pdf \in SUBSET {r \in Rows : results[r] = "Good"}, notionUp \in BOOLEAN :
          /\ mem' = [r \in Rows |-> IF r \in toPush /\ ~notionUp
                                      THEN RevertedRow([q \in Rows |-> CommittedRow(q, pdf)][r])
                                      ELSE [q \in Rows |-> CommittedRow(q, pdf)][r]]
          /\ todo' = IF notionUp THEN toPush ELSE {}
  BY DEF StartCommit, LettersTried, PageWanted, Connected
<1>2. ASSUME NEW r \in Rows
      PROVE  mem'[r] = IF r \in toPush /\ ~notionUp THEN RevertedRow(CommittedRow(r, pdf))
                       ELSE CommittedRow(r, pdf)
  BY <1>1
<1>3. mem' \in [Rows -> Row]
  <2>1. ASSUME NEW r \in Rows PROVE mem'[r] \in Row
    <3>1. CommittedRow(r, pdf) \in Row
      BY CommittedFields
    <3>2. RevertedRow(CommittedRow(r, pdf)) \in Row
      BY <3>1, RowOperators
    <3> QED BY <1>2, <3>1, <3>2
  <2> QED BY <1>1, <2>1
<1>4. ASSUME NEW r \in Rows
      PROVE  \/ /\ mem'[r] = CommittedRow(r, pdf)
                /\ r \in todo' <=> r \in toPush
             \/ /\ mem'[r] = RevertedRow(CommittedRow(r, pdf))
                /\ r \notin todo' /\ r \in toPush
  BY <1>1, <1>2
<1> QED BY <1>1, <1>3, <1>4 DEF StartCommit, LettersTried, PageWanted, Connected, AtRest, history

LEMMA StartCommitKeeps ==
    ASSUME Sound, StartCommit
    PROVE  Sound'
<1> USE DEF Sound
<1>1. /\ pc = "idle" /\ pc' = "push" /\ draft = NoContext /\ todo' \subseteq Rows
      /\ mem' \in [Rows -> Row] /\ mem = rows
      /\ UNCHANGED <<rows, ctx, results, pages, draft, lost, unplanned>>
  BY StartCommitDoes DEF AtRest
<1>2. TypeOK' /\ AtRest'
  BY <1>1 DEF TypeOK, AtRest
<1>3. ASSUME NEW r \in Rows
      PROVE  /\ RowSound(r, mem[r], r \in todo)'
             /\ r \in todo' => mem'[r].status = "ToApply" /\ mem'[r].fit # "none"
             /\ rows[r].page => mem'[r].page
             /\ mem'[r].status = "none" => rows[r].status = "none"
             /\ r \in ctx.carry => mem'[r].fit = "Weak"
  <2>1. PICK pdf :
           \/ /\ mem'[r] = CommittedRow(r, pdf)
              /\ r \in todo' <=> /\ results[r] \in {"Weak", "Good"} \/ r \in CarriedOver
                                 /\ ~rows[r].page
           \/ /\ mem'[r] = RevertedRow(CommittedRow(r, pdf)) /\ r \notin todo'
              /\ results[r] \in {"Weak", "Good"} \/ r \in CarriedOver
              /\ ~rows[r].page
    BY <1>3, StartCommitDoes
  <2>2. /\ RowSound(r, rows[r], FALSE)
        /\ rows[r] \in Row /\ results[r] \in Verdicts \cup {"none"}
        /\ r \in ctx.carry => rows[r].fit = "Weak"
        /\ rows[r].status = "none" => results[r] = "none" /\ r \notin ctx.carry
        /\ r \in CarriedOver => /\ results[r] = "none" /\ ~rows[r].page /\ rows[r].status = "Inbox"
                                /\ r \in ctx.carry
    <3>1. RowSound(r, rows[r], FALSE)
      BY DEF RowsSound
    <3>2. rows[r] \in Row /\ results[r] \in Verdicts \cup {"none"}
      BY DEF TypeOK
    <3>3. r \in ctx.carry => rows[r].fit = "Weak"
      BY DEF Carried
    <3>4. rows[r].status = "none" => results[r] = "none" /\ r \notin ctx.carry
      BY DEF Known
    <3>5. r \in CarriedOver => /\ results[r] = "none" /\ ~rows[r].page /\ rows[r].status = "Inbox"
                               /\ r \in ctx.carry
      BY DEF CarriedOver
    <3> QED BY <3>1, <3>2, <3>3, <3>4, <3>5
  <2> DEFINE rec == CommittedRow(r, pdf)
             back == RevertedRow(CommittedRow(r, pdf))
  <2>3. /\ rec \in Row /\ rec.page = rows[r].page /\ (rows[r].docs => rec.docs)
        /\ results[r] = "Parked" => rec.status = rows[r].status /\ rec.fit = "Good"
        /\ results[r] \in {"Weak", "Good"} => rec.status = "ToApply" /\ rec.fit = results[r]
        /\ results[r] = "none" /\ r \in CarriedOver => rec.status = "ToApply" /\ rec.fit = "Weak"
        /\ results[r] = "none" /\ r \notin CarriedOver => rec = rows[r]
    BY CommittedFields
  <2>4. back \in Row /\ back.status = "Inbox" /\ ~back.page /\ back.fit = rec.fit
    BY <2>3, RowOperators
  <2>5. \/ /\ mem'[r] = rec
           /\ r \in todo' <=> /\ results[r] \in {"Weak", "Good"} \/ r \in CarriedOver
                              /\ ~rows[r].page
        \/ /\ mem'[r] = back /\ r \notin todo' /\ ~rows[r].page
           /\ results[r] \in {"Weak", "Good"} \/ r \in CarriedOver
    BY <2>1
  <2> HIDE DEF rec, back
  <2>6. CASE mem'[r] = back /\ r \notin todo' /\ ~rows[r].page /\ results[r] \in {"Weak", "Good"}
    BY <1>1, <2>2, <2>3, <2>4, <2>6 DEF RowSound
  <2>7. CASE mem'[r] = back /\ r \notin todo' /\ r \in CarriedOver
    BY <1>1, <2>2, <2>3, <2>4, <2>7 DEF RowSound
  <2>8. CASE mem'[r] = rec /\ results[r] = "Parked"
    BY <1>1, <2>2, <2>3, <2>5, <2>8 DEF RowSound
  <2>9. CASE mem'[r] = rec /\ results[r] \in {"Weak", "Good"}
    BY <1>1, <2>2, <2>3, <2>4, <2>5, <2>9 DEF RowSound
  <2>10. CASE mem'[r] = rec /\ r \in CarriedOver
    BY <1>1, <2>2, <2>3, <2>4, <2>5, <2>10 DEF RowSound
  <2>11. CASE mem'[r] = rec /\ results[r] = "none" /\ r \notin CarriedOver
    BY <1>1, <2>2, <2>3, <2>5, <2>11 DEF RowSound
  <2> QED BY <2>2, <2>5, <2>6, <2>7, <2>8, <2>9, <2>10, <2>11 DEF Verdicts
<1>4. RowsSound' /\ ToPush'
  <2>1. ASSUME NEW r \in Rows PROVE RowSound(r, rows[r], FALSE)'
    BY <1>1 DEF RowsSound, RowSound
  <2> QED BY <1>1, <1>3, <2>1 DEF RowsSound, ToPush
<1>5. Accounted'
  BY <1>1, <1>3 DEF Accounted
<1>6. Known'
  BY <1>1, <1>3 DEF Known
<1>7. Carried'
  BY <1>1, <1>3 DEF Carried, NoContext, TypeOK, Context
<1> QED BY <1>2, <1>4, <1>5, <1>6, <1>7

\* One push settles its row: with a page or back in Inbox, and with a page that
\* nobody knows of counted as lost.
PushDoes(r) ==
    \E rec \in Row, made \in {0, 1} :
        /\ mem' = [mem EXCEPT ![r] = rec]
        /\ pages' = [pages EXCEPT ![r] = @ + made] /\ pages[r] + made <= 1
        /\ rec.fit = mem[r].fit
        /\ \/ /\ rec.status = "ToApply" /\ rec.page /\ pages[r] + made > 0
              /\ rec.fit = "Weak" \/ (rec.fit = "Good" /\ rec.docs)
           \/ /\ rec.status = "Inbox" /\ ~rec.page
              /\ made = 1 => r \in lost'
        /\ lost' \in {lost, lost \cup {r}}

LEMMA PushSteps ==
    ASSUME Sound, NEW r \in Rows, FailToPush(r) \/ PushJobPage(r) \/ PushUnanswered(r)
    PROVE  /\ PushDoes(r) /\ todo' = todo \ {r} /\ r \in todo /\ pc = "push" /\ draft = NoContext
           /\ UNCHANGED <<rows, ctx, results, pc, draft, unplanned>>
<1> USE DEF Sound
<1>1. /\ todo' = todo \ {r} /\ r \in todo /\ pc = "push" /\ draft = NoContext
      /\ UNCHANGED <<rows, ctx, results, pc, draft, unplanned>>
  BY DEF FailToPush, PushJobPage, PushUnanswered, Settled, AtRest
<1>2. /\ mem[r] \in Row /\ mem[r].status = "ToApply" /\ mem[r].fit # "none"
      /\ pages[r] \in Nat /\ pages[r] <= 1
  BY <1>1 DEF TypeOK, ToPush, Accounted
<1>3. /\ RevertedRow(mem[r]) \in Row /\ RevertedRow(mem[r]).status = "Inbox"
      /\ ~RevertedRow(mem[r]).page /\ RevertedRow(mem[r]).fit = mem[r].fit
  BY <1>2, RowOperators
<1>4. CASE FailToPush(r)
  <2>1. /\ mem' = [mem EXCEPT ![r] = RevertedRow(mem[r])] /\ pages' = pages /\ lost' = lost
    BY <1>4 DEF FailToPush, Settled
  <2> DEFINE made == 0
  <2>2. pages' = [pages EXCEPT ![r] = @ + made] /\ pages[r] + made <= 1
    BY <1>2, <2>1 DEF TypeOK
  <2>3. made \in {0, 1} /\ made # 1
    OBVIOUS
  <2> HIDE DEF made
  <2> QED BY <1>1, <1>3, <2>1, <2>2, <2>3 DEF PushDoes
<1>5. CASE PushJobPage(r)
  <2> DEFINE rec == [mem[r] EXCEPT !.page = TRUE]
             made == IF pages[r] > 0 THEN 0 ELSE 1
  <2>1. mem' = [mem EXCEPT ![r] = rec] /\ lost' = lost /\ LetterReady(r)
    BY <1>5 DEF PushJobPage, Settled
  <2>2. pages' = [pages EXCEPT ![r] = @ + made]
    <3>1. pages' = [pages EXCEPT ![r] = IF pages[r] > 0 THEN @ ELSE @ + 1]
      BY <1>5 DEF PushJobPage, KnownToNotion
    <3>2. (IF pages[r] > 0 THEN pages[r] ELSE pages[r] + 1) = pages[r] + made
      BY <1>2
    <3> QED BY <3>1, <3>2
  <2>3. pages[r] + made <= 1 /\ pages[r] + made > 0 /\ made \in {0, 1}
    BY <1>2
  <2>4. /\ rec \in Row /\ rec.status = "ToApply" /\ rec.page /\ rec.fit = mem[r].fit
        /\ rec.fit = "Weak" \/ (rec.fit = "Good" /\ rec.docs)
    BY <1>2, <2>1 DEF LetterReady, Row
  <2> HIDE DEF rec, made
  <2> QED BY <1>1, <2>1, <2>2, <2>3, <2>4 DEF PushDoes
<1>6. CASE PushUnanswered(r)
  <2>1. /\ mem' = [mem EXCEPT ![r] = RevertedRow(mem[r])] /\ lost' = lost \cup {r}
        /\ pages' = [pages EXCEPT ![r] = @ + 1] /\ ~(pages[r] > 0)
    BY <1>6 DEF PushUnanswered, Settled, KnownToNotion
  <2>2. pages[r] + 1 <= 1
    BY <1>2, <2>1
  <2> QED BY <1>1, <1>3, <2>1, <2>2 DEF PushDoes
<1> QED BY <1>1, <1>4, <1>5, <1>6

LEMMA PushKeeps ==
    ASSUME Sound, NEW r \in Rows, FailToPush(r) \/ PushJobPage(r) \/ PushUnanswered(r)
    PROVE  Sound'
<1> USE DEF Sound
<1>1. /\ todo' = todo \ {r} /\ r \in todo /\ pc = "push" /\ draft = NoContext
      /\ UNCHANGED <<rows, ctx, results, pc, draft, unplanned>>
  BY PushSteps
<1>2. PICK rec \in Row, made \in {0, 1} :
        /\ mem' = [mem EXCEPT ![r] = rec]
        /\ pages' = [pages EXCEPT ![r] = @ + made] /\ pages[r] + made <= 1
        /\ rec.fit = mem[r].fit
        /\ \/ /\ rec.status = "ToApply" /\ rec.page /\ pages[r] + made > 0
              /\ rec.fit = "Weak" \/ (rec.fit = "Good" /\ rec.docs)
           \/ /\ rec.status = "Inbox" /\ ~rec.page
              /\ made = 1 => r \in lost'
        /\ lost' \in {lost, lost \cup {r}}
  BY PushSteps DEF PushDoes
<1>3. TypeOK' /\ AtRest'
  BY <1>1, <1>2 DEF TypeOK, AtRest
<1>4. ASSUME NEW q \in Rows
      PROVE  /\ pages'[q] \in Nat /\ pages[q] \in Nat /\ pages'[q] >= pages[q] /\ pages'[q] <= 1
             /\ q \in lost => q \in lost'
             /\ q # r => mem'[q] = mem[q] /\ pages'[q] = pages[q]
                         /\ (q \in todo' <=> q \in todo)
  BY <1>1, <1>2 DEF TypeOK, Accounted
<1>5. mem'[r] = rec /\ pages'[r] = pages[r] + made /\ r \notin todo'
      /\ pages[r] \in Nat
  BY <1>1, <1>2 DEF TypeOK
<1>6. RowsSound'
  <2>1. ASSUME NEW q \in Rows PROVE RowSound(q, rows[q], FALSE)'
    <3>1. RowSound(q, rows[q], FALSE)
      BY DEF RowsSound
    <3> QED BY <1>1, <1>4, <3>1 DEF RowSound
  <2>2. ASSUME NEW q \in Rows, q # r PROVE RowSound(q, mem[q], q \in todo)'
    <3>1. RowSound(q, mem[q], q \in todo)
      BY DEF RowsSound
    <3> QED BY <1>1, <1>4, <2>2, <3>1 DEF RowSound
  <2>3. RowSound(r, mem[r], r \in todo)'
    <3>1. RowSound(r, mem[r], r \in todo)
      BY DEF RowsSound
    <3> QED BY <1>1, <1>2, <1>5, <3>1 DEF RowSound
  <2> QED BY <2>1, <2>2, <2>3 DEF RowsSound
<1>7. Accounted'
  <2>1. ASSUME NEW q \in Rows, q # r, pages'[q] > 0, ~rows[q].page
        PROVE  q \in lost' \/ mem'[q].page
    BY <1>4, <2>1 DEF Accounted
  <2>2. pages'[r] > 0 /\ ~rows[r].page => r \in lost' \/ mem'[r].page
    <3>1. ~mem[r].page
      BY <1>1 DEF RowsSound, RowSound
    <3>2. pages[r] > 0 /\ ~rows[r].page => r \in lost
      BY <3>1 DEF Accounted
    <3> QED BY <1>2, <1>4, <1>5, <3>2
  <2>3. ASSUME NEW q \in Rows, rows[q].page PROVE mem'[q].page
    <3>1. mem[q].page /\ q # r
      BY <1>1, <2>3 DEF Accounted, RowsSound, RowSound
    <3> QED BY <1>4, <3>1
  <2> QED BY <1>1, <1>4, <2>1, <2>2, <2>3 DEF Accounted
<1>8. ToPush' /\ Known' /\ Carried'
  <2>1. ToPush'
    BY <1>1, <1>4 DEF ToPush, TypeOK
  <2>2. Known'
    BY <1>1, <1>2, <1>4, <1>5 DEF Known
  <2>3. Carried'
    <3>1. ctx.carry \subseteq Rows
      BY DEF TypeOK, Context
    <3> QED BY <1>1, <1>2, <1>4, <1>5, <3>1 DEF Carried, NoContext
  <2> QED BY <2>1, <2>2, <2>3
<1> QED BY <1>3, <1>6, <1>7, <1>8

\* The save makes the ledger what the commit made of it.
LEMMA SaveCommitKeeps ==
    ASSUME Sound, SaveCommit
    PROVE  Sound'
<1> USE DEF Sound
<1>1. /\ rows' = mem /\ todo = {} /\ pc' = "idle" /\ draft = NoContext
      /\ UNCHANGED <<ctx, results, pages, draft, mem, todo, lost>> /\ unplanned' \subseteq Rows
  BY DEF SaveCommit, AtRest, TypeOK
<1>2. TypeOK' /\ AtRest' /\ ToPush'
  BY <1>1 DEF TypeOK, AtRest, ToPush
<1>3. RowsSound' /\ Accounted'
  <2>1. ASSUME NEW r \in Rows PROVE RowSound(r, rows[r], FALSE)' /\ RowSound(r, mem[r], r \in todo)'
    <3>1. RowSound(r, mem[r], r \in todo)
      BY DEF RowsSound
    <3> QED BY <1>1, <3>1 DEF RowSound
  <2>2. ASSUME NEW r \in Rows, pages[r] > 0, ~mem[r].page PROVE r \in lost
    <3>1. RowSound(r, mem[r], r \in todo) /\ RowSound(r, rows[r], FALSE)
          /\ (~rows[r].page => r \in lost)
      BY <2>2 DEF RowsSound, Accounted
    <3> QED BY <2>2, <3>1 DEF Accounted
  <2> QED BY <1>1, <2>1, <2>2 DEF RowsSound, Accounted
<1>4. Known' /\ Carried'
  BY <1>1 DEF Known, Carried, NoContext
<1> QED BY <1>2, <1>3, <1>4

\* A death loses what was not written; pages made by then are lost.
LEMMA CrashKeeps ==
    ASSUME Sound, Crash
    PROVE  Sound'
<1> USE DEF Sound
<1>1. /\ pc' = "idle" /\ draft' = NoContext /\ mem' = rows /\ todo' = {}
      /\ lost' = lost \cup {r \in Rows : mem[r].page /\ ~rows[r].page}
      /\ UNCHANGED <<rows, ctx, results, pages, unplanned>>
  BY DEF Crash
<1>2. NoContext \in Context
  BY DEF NoContext, Context
<1>3. TypeOK' /\ AtRest' /\ ToPush'
  BY <1>1, <1>2 DEF TypeOK, AtRest, ToPush
<1>4. RowsSound' /\ Accounted'
  <2>1. ASSUME NEW r \in Rows PROVE RowSound(r, rows[r], FALSE)' /\ RowSound(r, mem[r], r \in todo)'
    <3>1. RowSound(r, rows[r], FALSE)
      BY DEF RowsSound
    <3> QED BY <1>1, <3>1 DEF RowSound, NoContext
  <2> QED BY <1>1, <2>1 DEF RowsSound, Accounted
<1>5. Known' /\ Carried'
  BY <1>1 DEF Known, Carried, NoContext
<1> QED BY <1>3, <1>4, <1>5

-----------------------------------------------------------------------------
(* The caps *)

\* Three counts that add up to at most k bound a set that their sets cover.
LEMMA CountBound ==
    ASSUME NEW A, NEW B, NEW P, NEW S, NEW k \in Nat,
           IsFiniteSet(A), IsFiniteSet(B), IsFiniteSet(P),
           Cardinality(A) + Cardinality(B) + Cardinality(P) <= k,
           S \subseteq A \cup B \cup P
    PROVE  Cardinality(S) <= k
<1>1. /\ IsFiniteSet(A \cup B)
      /\ Cardinality(A \cup B) = Cardinality(A) + Cardinality(B) - Cardinality(A \cap B)
  BY FS_Union
<1>2. /\ IsFiniteSet((A \cup B) \cup P)
      /\ Cardinality((A \cup B) \cup P)
           = Cardinality(A \cup B) + Cardinality(P) - Cardinality((A \cup B) \cap P)
  BY <1>1, FS_Union
<1>3. /\ IsFiniteSet(S)
      /\ Cardinality(S) <= Cardinality((A \cup B) \cup P)
  BY <1>2, FS_Subset
<1>4. IsFiniteSet(A \cap B) /\ IsFiniteSet((A \cup B) \cap P)
  <2>1. A \cap B \subseteq A /\ (A \cup B) \cap P \subseteq P
    OBVIOUS
  <2> QED BY <2>1, FS_Subset
<1>5. /\ Cardinality(A) \in Nat /\ Cardinality(B) \in Nat /\ Cardinality(P) \in Nat
      /\ Cardinality(A \cap B) \in Nat /\ Cardinality((A \cup B) \cap P) \in Nat
      /\ Cardinality(S) \in Nat
  BY <1>3, <1>4, FS_CardinalityType
<1> QED BY <1>1, <1>2, <1>3, <1>5

\* The rows of a company To Apply, and those of the batch a topup adds to.
Promoted(c) == {r \in Rows : CompanyOf[r] = c /\ rows[r].status = "ToApply"}

Batched(c) == {r \in ctx.batch : CompanyOf[r] = c}

\* A pre batches rows of a company only within the room its cap leaves.
LEMMA PreRoom ==
    ASSUME Sound, FreshPre \/ Topup, NEW c \in Companies
    PROVE  \/ Claimed(c, draft.batch)' \subseteq Claimed(c, ctx.batch)
           \/ Cardinality(Claimed(c, draft.batch)') <= Cap[c]
<1>1. PreDoes
  BY PreSteps DEF Sound
<1>2. ASSUME NEW r \in Rows, rows'[r].status = "ToApply" PROVE rows[r].status = "ToApply"
  <2>1. PICK archived \in SUBSET {q \in Rows : Fresh(q)} :
            rows' = [q \in Rows |-> IF q \in archived THEN ArchivedRow(rows[q]) ELSE rows[q]]
    BY <1>1 DEF PreDoes
  <2>2. rows[r] \in Row
    BY DEF Sound, TypeOK
  <2> QED BY <1>2, <2>1, <2>2, RowOperators
<1>3. unplanned' = unplanned
  BY <1>1 DEF PreDoes
<1>4. Claimed(c, draft.batch)'
        = {r \in Rows : /\ CompanyOf[r] = c
                        /\ r \in draft'.batch
                           \/ (rows'[r].status = "ToApply" /\ r \notin unplanned)}
  BY <1>3 DEF Claimed
<1>5. /\ IsFiniteSet(Promoted(c)) /\ IsFiniteSet(Batched(c)) /\ IsFiniteSet({})
      /\ \A S \in SUBSET Rows : IsFiniteSet(S)
  <2>1. Promoted(c) \subseteq Rows /\ Batched(c) \subseteq Rows /\ {} \subseteq Rows
    BY DEF Promoted, Batched, Sound, TypeOK, Context
  <2> QED BY <2>1, FS_Subset, ConstantsAssumption
<1>6. Cap[c] \in Nat
  BY ConstantsAssumption
<1>7. ctx.batch \subseteq Rows /\ ctx.queue \subseteq Rows
  BY DEF Sound, TypeOK, Context
<1>8. CASE FreshPre
  <2>1. PICK fate \in [NotYetEvaluated(Rows) -> Fates] :
          /\ FilteredAndFilled(fate, [d \in Companies |-> ActiveCounts(d)], BatchSize)
          /\ draft' = [batch |-> Having(fate, {"batched"}), queue |-> Having(fate, {"queued"}),
                       carry |-> Orphans(Rows)]
    BY <1>8 DEF FreshPre, FreshContext
  <2> DEFINE P == {r \in Having(fate, Fates \ {"refused", "capped"}) : CompanyOf[r] = c}
  <2>2. P # {} => ActiveCounts(c) + Cardinality(P) <= Cap[c]
    BY <2>1 DEF FilteredAndFilled
  <2>3. /\ P \subseteq Rows
        /\ \A r \in draft'.batch : r \in Rows /\ (CompanyOf[r] = c => r \in P)
    BY <2>1 DEF Having, NotYetEvaluated, Fates, Skipped, Alive
  <2> HIDE DEF P
  <2>4. CASE P = {}
    BY <1>2, <1>4, <2>3, <2>4 DEF Claimed
  <2>5. CASE P # {}
    <3>1. Cardinality(Promoted(c)) + Cardinality({}) + Cardinality(P) <= Cap[c]
      <4>1. Cardinality({}) = 0
        BY FS_EmptySet
      <4>2. Cardinality(Promoted(c)) \in Nat
        BY <1>5, FS_CardinalityType
      <4> QED BY <2>2, <2>5, <4>1, <4>2 DEF ActiveCounts, Promoted
    <3>2. Claimed(c, draft.batch)' \subseteq Promoted(c) \cup {} \cup P
      BY <1>2, <1>4, <2>3 DEF Promoted
    <3> QED BY <1>5, <1>6, <2>3, <3>1, <3>2, CountBound
  <2> QED BY <2>4, <2>5
<1>9. CASE Topup
  <2> DEFINE queue == ctx.queue \ ctx.batch
             counts == [d \in Companies |->
                          ActiveCounts(d) + Cardinality({r \in ctx.batch : CompanyOf[r] = d})]
  <2>1. PICK fate \in [NotYetEvaluated(queue) -> Fates], need \in 1..Cardinality(ctx.queue) :
          /\ FilteredAndFilled(fate, counts, need)
          /\ draft' = [batch |-> ctx.batch \cup Having(fate, {"batched"}),
                       queue |-> Having(fate, {"queued"}),
                       carry |-> ctx.carry \cup Orphans(queue)]
    BY <1>9 DEF Topup, MergedContext
  <2> DEFINE P == {r \in Having(fate, Fates \ {"refused", "capped"}) : CompanyOf[r] = c}
  <2>2. P # {} => ActiveCounts(c) + Cardinality(Batched(c)) + Cardinality(P) <= Cap[c]
    BY <2>1 DEF FilteredAndFilled, Batched
  <2>3. /\ P \subseteq Rows
        /\ \A r \in draft'.batch : r \in Rows /\ (CompanyOf[r] = c => r \in Batched(c) \cup P)
    BY <1>7, <2>1 DEF Having, NotYetEvaluated, Fates, Skipped, Alive, Batched
  <2> HIDE DEF P
  <2>4. CASE P = {}
    BY <1>2, <1>4, <2>3, <2>4 DEF Claimed, Batched
  <2>5. CASE P # {}
    <3>1. Cardinality(Promoted(c)) + Cardinality(Batched(c)) + Cardinality(P) <= Cap[c]
      BY <2>2, <2>5 DEF ActiveCounts, Promoted
    <3>2. Claimed(c, draft.batch)' \subseteq Promoted(c) \cup Batched(c) \cup P
      BY <1>2, <1>4, <2>3 DEF Promoted
    <3> QED BY <1>5, <1>6, <2>3, <3>1, <3>2, CountBound
  <2> QED BY <2>4, <2>5
<1> QED BY <1>8, <1>9

\* The steps that are no pre claim no row that was not claimed: what they make
\* To Apply is in the batch, or unplanned.
NoPre == Scan \/ Sync \/ WriteContext \/ Judge \/ Commit \/ Crash \/ UNCHANGED vars

LEMMA Unclaimed ==
    ASSUME Sound, NoPre, NEW c \in Companies
    PROVE  /\ \/ Claimed(c, ctx.batch)' \subseteq Claimed(c, ctx.batch)
              \/ Claimed(c, ctx.batch)' \subseteq Claimed(c, draft.batch)
           /\ \/ Claimed(c, draft.batch)' \subseteq Claimed(c, ctx.batch)
              \/ Claimed(c, draft.batch)' \subseteq Claimed(c, draft.batch)
<1> USE DEF Sound
<1>1. /\ Claimed(c, ctx.batch)'
           = {r \in Rows : /\ CompanyOf[r] = c
                           /\ r \in ctx'.batch
                              \/ (rows'[r].status = "ToApply" /\ r \notin unplanned')}
      /\ Claimed(c, draft.batch)'
           = {r \in Rows : /\ CompanyOf[r] = c
                           /\ r \in draft'.batch
                              \/ (rows'[r].status = "ToApply" /\ r \notin unplanned')}
  BY DEF Claimed
<1>2. ASSUME ctx' = ctx, draft'.batch = {},
             \A r \in Rows : rows'[r].status = "ToApply" /\ r \notin unplanned'
                             => r \in ctx.batch
                                \/ (rows[r].status = "ToApply" /\ r \notin unplanned)
      PROVE  /\ Claimed(c, ctx.batch)' \subseteq Claimed(c, ctx.batch)
             /\ Claimed(c, draft.batch)' \subseteq Claimed(c, ctx.batch)
  BY <1>1, <1>2 DEF Claimed
<1>3. NoContext.batch = {}
  BY DEF NoContext
<1>4. CASE Scan
  <2>1. ctx' = ctx /\ draft'.batch = {} /\ unplanned' = unplanned
    BY <1>3, <1>4 DEF Scan, AtRest, history
  <2>2. ASSUME NEW r \in Rows, rows'[r].status = "ToApply" PROVE rows[r].status = "ToApply"
    BY <1>4, <2>2 DEF Scan, NoRow
  <2> QED BY <1>2, <2>1, <2>2
<1>5. CASE Sync
  <2>1. ctx' = ctx /\ draft'.batch = {}
    BY <1>3, <1>5 DEF Sync, AtRest
  <2>2. unplanned' = unplanned \cup {r \in Rows : rows'[r].status # rows[r].status}
    BY <1>5 DEF Sync
  <2> QED BY <1>2, <2>1, <2>2
<1>6. CASE WriteContext
  <2>1. ctx' = draft /\ draft'.batch = {} /\ rows' = rows /\ unplanned' = unplanned
    BY <1>3, <1>6 DEF WriteContext, history
  <2> QED BY <1>1, <2>1 DEF Claimed
<1>7. CASE Judge
  BY <1>1, <1>7 DEF Judge, Collected, Claimed, command, history
<1>8. CASE Commit
  <2>1. CASE SaveCommit
    <3>1. ctx' = ctx /\ draft'.batch = {} /\ rows' = mem
      BY <1>3, <2>1 DEF SaveCommit, AtRest
    <3>2. unplanned' = unplanned \cup {r \in Rows : /\ results[r] = "none" \/ r \notin ctx.batch
                                                    /\ mem[r].status # rows[r].status}
      BY <2>1 DEF SaveCommit
    <3> QED BY <1>2, <3>1, <3>2
  <2>2. CASE StartCommit
    <3>1. UNCHANGED <<rows, ctx, draft, unplanned>>
      BY <2>2 DEF StartCommit, LettersTried, PageWanted, Connected, history
    <3> QED BY <1>1, <3>1 DEF Claimed
  <2>3. ASSUME NEW r \in Rows, FailToPush(r) \/ PushJobPage(r) \/ PushUnanswered(r)
        PROVE  UNCHANGED <<rows, ctx, draft, unplanned>>
    BY <2>3 DEF FailToPush, PushJobPage, PushUnanswered, Settled
  <2>4. CASE UNCHANGED <<rows, ctx, draft, unplanned>>
    BY <1>1, <2>4 DEF Claimed
  <2> QED BY <1>8, <2>1, <2>2, <2>3, <2>4 DEF Commit
<1>9. CASE Crash
  <2>1. ctx' = ctx /\ draft'.batch = {} /\ rows' = rows /\ unplanned' = unplanned
    BY <1>3, <1>9 DEF Crash
  <2> QED BY <1>2, <2>1
<1>10. CASE UNCHANGED vars
  BY <1>1, <1>10 DEF Claimed, vars, command, history
<1> QED BY <1>4, <1>5, <1>6, <1>7, <1>8, <1>9, <1>10 DEF NoPre

LEMMA CapRoomInit == Init => CapRoom
<1> SUFFICES ASSUME Init, NEW c \in Companies
             PROVE  /\ Cardinality(Claimed(c, ctx.batch)) <= Cap[c]
                    /\ Cardinality(Claimed(c, draft.batch)) <= Cap[c]
  BY DEF CapRoom
<1>1. Claimed(c, ctx.batch) = {} /\ Claimed(c, draft.batch) = {}
  BY DEF Init, Claimed, NoContext, NoRow
<1>2. Cap[c] \in Nat
  BY ConstantsAssumption
<1>3. Cardinality({}) = 0
  BY FS_EmptySet
<1> QED BY <1>1, <1>2, <1>3

LEMMA CapRoomKept ==
    ASSUME Sound, CapRoom, NoPre \/ FreshPre \/ Topup
    PROVE  CapRoom'
<1> SUFFICES ASSUME NEW c \in Companies
             PROVE  /\ Cardinality(Claimed(c, ctx.batch)') <= Cap[c]
                    /\ Cardinality(Claimed(c, draft.batch)') <= Cap[c]
  BY DEF CapRoom
<1>1. /\ Cap[c] \in Nat
      /\ Cardinality(Claimed(c, ctx.batch)) <= Cap[c]
      /\ Cardinality(Claimed(c, draft.batch)) <= Cap[c]
  BY ConstantsAssumption DEF CapRoom
<1>2. IsFiniteSet(Claimed(c, ctx.batch)) /\ IsFiniteSet(Claimed(c, draft.batch))
  <2>1. Claimed(c, ctx.batch) \subseteq Rows /\ Claimed(c, draft.batch) \subseteq Rows
    BY DEF Claimed
  <2> QED BY <2>1, FS_Subset, ConstantsAssumption
<1>3. ASSUME NEW S, S \subseteq Claimed(c, ctx.batch) \/ S \subseteq Claimed(c, draft.batch)
      PROVE  Cardinality(S) <= Cap[c]
  <2>1. PICK T \in {Claimed(c, ctx.batch), Claimed(c, draft.batch)} : S \subseteq T
    BY <1>3
  <2>2. IsFiniteSet(T) /\ Cardinality(T) <= Cap[c]
    BY <1>1, <1>2, <2>1
  <2>3. IsFiniteSet(S) /\ Cardinality(S) <= Cardinality(T)
    BY <2>1, <2>2, FS_Subset
  <2>4. Cardinality(S) \in Nat /\ Cardinality(T) \in Nat
    BY <2>2, <2>3, FS_CardinalityType
  <2> QED BY <1>1, <2>2, <2>3, <2>4
<1>4. CASE NoPre
  <2>1. /\ \/ Claimed(c, ctx.batch)' \subseteq Claimed(c, ctx.batch)
           \/ Claimed(c, ctx.batch)' \subseteq Claimed(c, draft.batch)
        /\ \/ Claimed(c, draft.batch)' \subseteq Claimed(c, ctx.batch)
           \/ Claimed(c, draft.batch)' \subseteq Claimed(c, draft.batch)
    BY <1>4, Unclaimed
  <2> QED BY <1>3, <2>1
<1>5. CASE FreshPre \/ Topup
  <2>1. \/ Claimed(c, draft.batch)' \subseteq Claimed(c, ctx.batch)
        \/ Cardinality(Claimed(c, draft.batch)') <= Cap[c]
    BY <1>5, PreRoom
  <2>2. Claimed(c, ctx.batch)' \subseteq Claimed(c, ctx.batch)
    <3>1. PreDoes
      BY <1>5, PreSteps DEF Sound
    <3>2. PICK archived \in SUBSET {q \in Rows : Fresh(q)} :
              rows' = [q \in Rows |-> IF q \in archived THEN ArchivedRow(rows[q]) ELSE rows[q]]
      BY <3>1 DEF PreDoes
    <3>3. ASSUME NEW r \in Rows, rows'[r].status = "ToApply" PROVE rows[r].status = "ToApply"
      <4>1. rows[r] \in Row
        BY DEF Sound, TypeOK
      <4> QED BY <3>2, <3>3, <4>1, RowOperators
    <3>4. ctx' = ctx /\ unplanned' = unplanned
      BY <3>1 DEF PreDoes
    <3> QED BY <3>3, <3>4 DEF Claimed
  <2> QED BY <1>3, <2>1, <2>2
<1> QED BY <1>4, <1>5

-----------------------------------------------------------------------------
(* The theorems *)

LEMMA SoundStep ==
    ASSUME Sound, [Next]_vars
    PROVE  Sound'
<1>1. CASE Scan
  BY <1>1, ScanKeeps
<1>2. CASE Sync
  BY <1>2, SyncKeeps
<1>3. CASE FreshPre \/ Topup
  <2>1. PreDoes
    BY <1>3, PreSteps DEF Sound
  <2> QED BY <2>1, PreKeeps
<1>4. CASE WriteContext
  BY <1>4, WriteContextKeeps
<1>5. CASE Judge
  BY <1>5, JudgeKeeps
<1>6. CASE StartCommit
  BY <1>6, StartCommitKeeps
<1>7. ASSUME NEW r \in Rows, FailToPush(r) \/ PushJobPage(r) \/ PushUnanswered(r)
      PROVE  Sound'
  BY <1>7, PushKeeps
<1>8. CASE SaveCommit
  BY <1>8, SaveCommitKeeps
<1>9. CASE Crash
  BY <1>9, CrashKeeps
<1>10. CASE UNCHANGED vars
  BY <1>10 DEF vars, command, history, Sound, TypeOK, AtRest, RowsSound, RowSound, ToPush,
               Accounted, Known, Carried
<1> QED BY <1>1, <1>2, <1>3, <1>4, <1>5, <1>6, <1>7, <1>8, <1>9, <1>10 DEF Next, Commit

THEOREM Inductive == Spec => []IInv
<1>1. Init => IInv
  BY SoundInit, CapRoomInit DEF IInv, Sound
<1>2. IInv /\ [Next]_vars => IInv'
  <2> SUFFICES ASSUME IInv, [Next]_vars PROVE IInv'
    OBVIOUS
  <2>1. Sound'
    BY SoundStep DEF IInv, Sound
  <2>2. NoPre \/ FreshPre \/ Topup
    BY DEF Next, NoPre
  <2>3. CapRoom'
    BY <2>2, CapRoomKept DEF IInv, Sound
  <2> QED BY <2>1, <2>3 DEF IInv, Sound
<1> QED BY <1>1, <1>2, PTL DEF Spec

\* Every reachable state has its type, for any rows, companies and caps.
THEOREM TypeCorrect == Spec => []TypeOK
<1>1. IInv => TypeOK
  BY DEF IInv
<1> QED BY <1>1, Inductive, PTL

\* Whatever fails or dies in prepare, the saved ledger says To Apply only of
\* rows that have a page and know its id.
THEOREM PagesBacked == Spec => []PageBacked
<1>1. IInv => PageBacked
  BY DEF IInv, RowsSound, RowSound, PageBacked
<1> QED BY <1>1, Inductive, PTL

\* However often a job is committed, after however many deaths and lost
\* answers, it has at most one Notion page.
THEOREM OnePagePerJob == Spec => []OnePage
<1>1. IInv => OnePage
  BY DEF IInv, Accounted, OnePage
<1> QED BY <1>1, Inductive, PTL

\* The rows promoted out of batches never exceed their company's cap.
THEOREM CapsHold == Spec => []CapHolds
<1>1. IInv => CapHolds
  <2> SUFFICES ASSUME IInv, NEW c \in Companies
               PROVE  Cardinality({r \in Rows : /\ CompanyOf[r] = c
                                                /\ rows[r].status = "ToApply"
                                                /\ r \notin unplanned}) <= Cap[c]
    BY DEF CapHolds
  <2> DEFINE S == {r \in Rows : /\ CompanyOf[r] = c
                                /\ rows[r].status = "ToApply" /\ r \notin unplanned}
  <2>1. S \subseteq Claimed(c, ctx.batch) /\ Claimed(c, ctx.batch) \subseteq Rows
    BY DEF Claimed
  <2>2. IsFiniteSet(Claimed(c, ctx.batch))
    BY <2>1, FS_Subset, ConstantsAssumption
  <2>3. IsFiniteSet(S) /\ Cardinality(S) <= Cardinality(Claimed(c, ctx.batch))
    BY <2>1, <2>2, FS_Subset
  <2>4. /\ Cardinality(S) \in Nat /\ Cardinality(Claimed(c, ctx.batch)) \in Nat /\ Cap[c] \in Nat
        /\ Cardinality(Claimed(c, ctx.batch)) <= Cap[c]
    BY <2>2, <2>3, FS_CardinalityType, ConstantsAssumption DEF IInv, CapRoom
  <2> QED BY <2>3, <2>4
<1> QED BY <1>1, Inductive, PTL

\* A To Apply row has what the apply queue needs, but for rows whose page a
\* run made and did not live, or learn, to record.
THEOREM ReadyRowsComplete == Spec => []ReadyIsComplete
<1>1. IInv => ReadyIsComplete
  BY DEF IInv, RowsSound, RowSound, ReadyIsComplete, Complete
<1> QED BY <1>1, Inductive, PTL

\* No row that the ledger knows as Weak is handed to a worker again.
THEOREM WeakStaysJudged == Spec => []WeakNotRejudged
<1>1. IInv => WeakNotRejudged
  <2> SUFFICES ASSUME IInv, NEW r \in ctx.batch, rows[r].fit = "Weak" PROVE results[r] # "none"
    BY DEF WeakNotRejudged
  <2>1. r \in Rows
    BY DEF IInv, TypeOK, Context
  <2> QED BY <2>1 DEF IInv, RowsSound, RowSound
<1> QED BY <1>1, Inductive, PTL

-----------------------------------------------------------------------------
(* Options *)

\* Any set of numbers has a least one.
LEMMA Least ==
    ASSUME NEW T \in SUBSET Nat, T # {}
    PROVE  \E n \in T : \A m \in T : n <= m
<1>1. PICK n \in T : \A m \in T : <<m, n>> \notin OpToRel(<, Nat)
  BY WFMin, NatLessThanWellFounded, Zenon
<1>2. \A m \in T : ~(m < n)
  BY <1>1, Zenon DEF OpToRel
<1> QED BY <1>2

LEMMA LeastIsMin ==
    ASSUME NEW T \in SUBSET Nat, T # {}
    PROVE  Min(T) \in T /\ \A n \in T : Min(T) <= n
<1>1. PICK m \in T : \A n \in T : m <= n
  BY Least
<1> QED BY <1>1 DEF Min

LEMMA ShortestIn ==
    ASSUME NEW ts \in SUBSET Texts, ts # {}
    PROVE  Shortest(ts) \in ts
<1> DEFINE lengths == {Length[t] : t \in ts}
<1>1. lengths \in SUBSET Nat /\ lengths # {}
  BY AnswersAssumption
<1>2. PICK n \in lengths : \A m \in lengths : n <= m
  BY <1>1, Least
<1>3. \E t \in ts : \A u \in ts : Length[t] <= Length[u]
  BY <1>2
<1> QED BY <1>3 DEF Shortest

LEMMA AnyOfIn ==
    ASSUME NEW options, NEW fit \in SUBSET Texts
    PROVE  AnyOf(options, fit) = NoText \/ AnyOf(options, fit) \in fit \cap options
<1>1. CASE options \cap fit = {}
  BY <1>1 DEF AnyOf
<1>2. CASE options \cap fit # {}
  <2>1. Shortest(options \cap fit) \in options \cap fit
    BY <1>2, ShortestIn
  <2> QED BY <1>2, <2>1 DEF AnyOf
<1> QED BY <1>1, <1>2

\* The option picked for a text is that text, or opens with it or contains it.
LEMMA PickOptionFinds ==
    ASSUME NEW options, NEW wanted, PickOption(options, wanted) # NoText
    PROVE  /\ PickOption(options, wanted) \in options \cap Texts
           /\ wanted \in Texts
           /\ \/ PickOption(options, wanted) = wanted
              \/ <<PickOption(options, wanted), wanted>> \in Opens \cup Holds
<1> DEFINE begins == {o \in options : <<o, wanted>> \in Opens}
           holds == {o \in options : Length[wanted] >= 4 /\ <<o, wanted>> \in Holds}
<1>1. begins \subseteq Texts /\ holds \subseteq Texts
  BY AnswersAssumption
<1>2. wanted \in Texts
  BY DEF PickOption
<1>3. begins # {} => Shortest(begins) \in begins
  BY <1>1, ShortestIn
<1>4. holds # {} => Shortest(holds) \in holds
  BY <1>1, ShortestIn
<1>5. \/ PickOption(options, wanted) = wanted /\ wanted \in options
      \/ PickOption(options, wanted) = Shortest(begins) /\ begins # {}
      \/ PickOption(options, wanted) = Shortest(holds) /\ holds # {}
  BY <1>2 DEF PickOption
<1> QED BY <1>1, <1>2, <1>3, <1>4, <1>5

\* It says what the text says, or nothing.
LEMMA PickOptionSays ==
    ASSUME NEW options, NEW wanted, PickOption(options, wanted) # NoText
    PROVE  Means[PickOption(options, wanted)] \in {"-", Means[wanted]}
<1>1. \/ PickOption(options, wanted) = wanted
      \/ <<PickOption(options, wanted), wanted>> \in Opens \cup Holds
  BY PickOptionFinds
<1>2. \A t, u : <<t, u>> \in Opens \cup Holds => Means[t] \in {"-", Means[u]}
  BY OptionsAssumption
<1> QED BY <1>1, <1>2

\* Picking again picks the same.
LEMMA PickOptionAgain ==
    ASSUME NEW options, NEW wanted, PickOption(options, wanted) # NoText
    PROVE  PickOption(options, PickOption(options, wanted)) = PickOption(options, wanted)
<1> DEFINE option == PickOption(options, wanted)
<1>1. option \in options \cap Texts
  BY PickOptionFinds
<1>2. \A w : w \in Texts /\ w \in options => PickOption(options, w) = w
  BY DEF PickOption
<1> HIDE DEF option
<1>3. PickOption(options, option) = option
  BY <1>1, <1>2
<1> QED BY <1>3 DEF option

-----------------------------------------------------------------------------
(* The matchers *)

\* A reply that is an answer is true of the question.
Answers(f, reply) == reply \in {Pass, NoText} \/ TrueOf(f.label, reply)

LEMMA PlainIsTrue ==
    ASSUME NEW label, NEW text \in PlainTexts
    PROVE  TrueOf(label, text)
BY FactsAssumption DEF TrueOf

LEMMA PickedIsTrue ==
    ASSUME NEW f, NEW text, TrueOf(f.label, text)
    PROVE  /\ Answers(f, PickOption(f.options, text))
           /\ Answers(f, PickChoice(f, text))
           /\ Answers(f, ResolveValue(f, text))
<1>1. Answers(f, text)
  BY DEF Answers
<1>2. Answers(f, PickOption(f.options, text))
  BY PickOptionSays DEF Answers, TrueOf
<1> QED BY <1>1, <1>2 DEF PickChoice, ResolveValue

\* The matchers whose answers are neither a yes nor a no.
LEMMA PlainMatchers ==
    ASSUME NEW f
    PROVE  /\ Answers(f, MatchFile(f)) /\ Answers(f, MatchCountry(f)) /\ Answers(f, MatchAddress(f))
           /\ Answers(f, MatchIdentity(f)) /\ Answers(f, MatchEeo(f)) /\ Answers(f, MatchPronouns(f))
           /\ Answers(f, MatchStartDate(f)) /\ Answers(f, MatchHowHeard(f))
           /\ Answers(f, MatchSalary(f))
<1>1. \A text \in PlainTexts : /\ Answers(f, text) /\ Answers(f, PickOption(f.options, text))
                               /\ Answers(f, PickChoice(f, text))
  BY PlainIsTrue, PickedIsTrue DEF Answers
<1>2. Answers(f, Pass) /\ Answers(f, NoText)
  BY DEF Answers
<1>3. Answers(f, AnyOf(f.options, Declines))
  <2>1. Declines \in SUBSET Texts /\ Declines \subseteq PlainTexts
    BY AnswersAssumption DEF PlainTexts
  <2>2. AnyOf(f.options, Declines) = NoText \/ AnyOf(f.options, Declines) \in Declines
    BY <2>1, AnyOfIn
  <2> QED BY <1>1, <1>2, <2>1, <2>2
<1>4. /\ {Facts.country, Facts.address, Facts.stateName, Facts.identity, Facts.start} \subseteq PlainTexts
      /\ {Facts.heard, "Website", "Other", "desired salary", "resume", "cover_letter"} \subseteq PlainTexts
      /\ "Decline to self-identify" \in PlainTexts
  BY DEF PlainTexts
<1>5. Answers(f, MatchFile(f)) /\ Answers(f, MatchCountry(f)) /\ Answers(f, MatchAddress(f))
  BY <1>1, <1>2, <1>4 DEF MatchFile, MatchCountry, MatchAddress
<1>6. Answers(f, MatchIdentity(f)) /\ Answers(f, MatchEeo(f)) /\ Answers(f, MatchPronouns(f))
  BY <1>1, <1>2, <1>3, <1>4 DEF MatchIdentity, MatchEeo, MatchPronouns
<1>7. Answers(f, MatchStartDate(f)) /\ Answers(f, MatchSalary(f))
  BY <1>1, <1>2, <1>4 DEF MatchStartDate, MatchSalary
<1>8. Answers(f, MatchHowHeard(f))
  <2> DEFINE buckets == <<Facts.heard, "Website", "Other">>
             hits == {i \in DOMAIN buckets : PickOption(f.options, buckets[i]) # NoText}
  <2>1. hits # {} => Min(hits) \in 1 .. 3
    BY LeastIsMin
  <2>2. \A i \in 1 .. 3 : buckets[i] \in PlainTexts
    <3>1. buckets[1] = Facts.heard /\ buckets[2] = "Website" /\ buckets[3] = "Other"
      OBVIOUS
    <3> HIDE DEF buckets
    <3>2. \A i \in 1 .. 3 : i = 1 \/ i = 2 \/ i = 3
      OBVIOUS
    <3> QED BY <1>4, <3>1, <3>2
  <2>3. hits # {} => Answers(f, PickOption(f.options, buckets[Min(hits)]))
    BY <1>1, <2>1, <2>2
  <2> HIDE DEF hits
  <2>4. \/ MatchHowHeard(f) \in {Pass, NoText, Facts.heard}
        \/ hits # {} /\ MatchHowHeard(f) = PickOption(f.options, buckets[Min(hits)])
    BY DEF MatchHowHeard, hits
  <2> QED BY <1>1, <1>2, <1>4, <2>3, <2>4
<1> QED BY <1>5, <1>6, <1>7, <1>8
-----------------------------------------------------------------------------
(* The matchers of a yes or a no *)

\* A question of the form that does not mix topics.
Straight(f) == f.label \in DOMAIN Says /\ ~MixesTopics(f.label)

LEMMA MatchSponsorshipTrue ==
    ASSUME NEW f, Straight(f)
    PROVE  Answers(f, MatchSponsorship(f))
<1>1. About(f, "visa") => AsksFor[f.label] = "visa"
  BY DEF Straight, MixesTopics, About, Standing, YesNoTopics
<1>2. About(f, "visa") => TrueOf(f.label, Facts.sponsorship)
  BY <1>1, FactsAssumption DEF Straight
<1>3. ~About(f, "visa") => Answers(f, MatchSponsorship(f))
  BY DEF MatchSponsorship, Answers
<1>4. About(f, "visa") => Answers(f, ResolveValue(f, Facts.sponsorship))
  BY <1>2, PickedIsTrue
<1> QED BY <1>3, <1>4 DEF MatchSponsorship

LEMMA MatchWorkAuthTrue ==
    ASSUME NEW f, Straight(f), ~About(f, "visa")
    PROVE  Answers(f, MatchWorkAuth(f))
<1>1. Facts.status \in PlainTexts
  BY DEF PlainTexts
<1>2. Answers(f, Facts.status) /\ Answers(f, Pass) /\ Answers(f, NoText)
  BY <1>1, PlainIsTrue DEF Answers
<1>3. About(f, "authorized") => AsksFor[f.label] = "authorized"
  BY DEF Straight, MixesTopics, About, Standing, YesNoTopics
<1>4. ASSUME About(f, "authorized"), ~About(f, "abroad")
      PROVE  Answers(f, ResolveValue(f, Facts.authorized))
  <2>1. TrueOf(f.label, Facts.authorized)
    BY <1>3, <1>4, FactsAssumption DEF Straight, About
  <2> QED BY <2>1, PickedIsTrue
<1> QED BY <1>2, <1>4 DEF MatchWorkAuth

LEMMA MatchCitizenshipTrue ==
    ASSUME NEW f, Straight(f), ~About(f, "visa"), ~About(f, "authorized")
    PROVE  Answers(f, MatchCitizenship(f))
<1>1. Answers(f, Pass) /\ Answers(f, NoText)
  BY DEF Answers
<1>2. CASE ~About(f, "citizen")
  BY <1>1, <1>2 DEF MatchCitizenship
<1>3. CASE About(f, "citizen")
  <2> DEFINE names == Says[f.label]
             fact == IF "embargo" \in names THEN Facts.embargoed
                     ELSE IF "resident" \in names THEN Facts.residentOrCitizen
                     ELSE IF "us citizen" \in names THEN Facts.citizen
                     ELSE Facts.citizenships
  <2>1. AsksFor[f.label] = "citizen"
    BY <1>3 DEF Straight, MixesTopics, About, Standing, YesNoTopics
  <2>2. TrueOf(f.label, fact)
    BY <2>1, FactsAssumption DEF Straight
  <2>3. Answers(f, ResolveValue(f, fact)) /\ Answers(f, fact)
    BY <2>2, PickedIsTrue DEF Answers
  <2>4. MatchCitizenship(f) \in {NoText, ResolveValue(f, fact), fact}
    BY <1>3 DEF MatchCitizenship, About
  <2> QED BY <1>1, <2>3, <2>4
<1> QED BY <1>2, <1>3

\* The earlier matchers that ask the applicant's standing have passed.
Passed(f) == ~About(f, "visa") /\ ~About(f, "authorized") /\ ~About(f, "citizen")

\* Of the other topics such a question names only the one it asks for.
LEMMA PassedAsks ==
    ASSUME NEW f, Straight(f), Passed(f), NEW topic \in YesNoTopics, topic \in Says[f.label]
    PROVE  AsksFor[f.label] = topic
BY DEF Straight, MixesTopics, Passed, About, Standing, YesNoTopics

LEMMA MatchLegalTrue ==
    ASSUME NEW f, Straight(f), Passed(f)
    PROVE  Answers(f, MatchLegal(f))
<1> DEFINE names == Says[f.label]
<1>1. Answers(f, Pass) /\ Answers(f, NoText)
  BY DEF Answers
<1>2. \A topic \in {"legal", "marketing"} : topic \in names => AsksFor[f.label] = topic
  BY PassedAsks DEF YesNoTopics
<1>3. /\ AnyOf(f.options, Denies) = NoText \/ AnyOf(f.options, Denies) \in Denies
      /\ \/ AnyOf(f.options, Affirms \ Denies) = NoText
         \/ AnyOf(f.options, Affirms \ Denies) \in Affirms \ Denies
  BY AnswersAssumption, AnyOfIn
<1>4. ASSUME "legal" \in names
      PROVE  /\ Answers(f, "Yes")
             /\ Answers(f, AnyOf(f.options, Affirms \ Denies))
  <2>1. \A text \in (Affirms \ Denies) \cup {"Yes"} : TrueOf(f.label, text)
    BY <1>2, <1>4, FactsAssumption DEF Straight
  <2> QED BY <1>3, <2>1 DEF Answers
<1>5. ASSUME "marketing" \in names
      PROVE  /\ Answers(f, "No")
             /\ Answers(f, AnyOf(f.options, Denies))
  <2>1. \A text \in Denies \cup {"No"} : TrueOf(f.label, text)
    BY <1>2, <1>5, FactsAssumption DEF Straight
  <2> QED BY <1>3, <2>1 DEF Answers
<1> QED BY <1>1, <1>4, <1>5 DEF MatchLegal, About

LEMMA MatchRelocationTrue ==
    ASSUME NEW f, Straight(f), Passed(f)
    PROVE  Answers(f, MatchRelocation(f))
<1> DEFINE names == Says[f.label]
<1>1. Answers(f, Pass) /\ Answers(f, NoText)
  BY DEF Answers
<1>2. "relocation" \in names => AsksFor[f.label] = "relocation"
  BY PassedAsks DEF YesNoTopics
<1>3. ASSUME "relocation" \in names, "lives now" \notin names
      PROVE  Answers(f, ResolveValue(f, Facts.relocate))
  <2>1. TrueOf(f.label, Facts.relocate)
    BY <1>2, <1>3, FactsAssumption DEF Straight
  <2> QED BY <2>1, PickedIsTrue
<1> QED BY <1>1, <1>3 DEF MatchRelocation, About

LEMMA MatchRelativesTrue ==
    ASSUME NEW f, Straight(f), Passed(f)
    PROVE  Answers(f, MatchRelatives(f))
<1> DEFINE names == Says[f.label]
<1>1. Answers(f, Pass) /\ Answers(f, NoText)
  BY DEF Answers
<1>2. "relatives" \in names => AsksFor[f.label] = "relatives"
  BY PassedAsks DEF YesNoTopics
<1>3. Answers(f, "N/A")
  BY PlainIsTrue DEF Answers, PlainTexts
<1>4. AnyOf(f.options, Denies) = NoText \/ AnyOf(f.options, Denies) \in Denies
  BY AnswersAssumption, AnyOfIn
<1>5. ASSUME "relatives" \in names, "if yes" \notin names
      PROVE  /\ Answers(f, Facts.relatives)
             /\ Facts.relatives = "Yes" => Answers(f, PickOption(f.options, "Yes"))
             /\ Facts.relatives # "Yes" => Answers(f, AnyOf(f.options, Denies))
  <2>1. /\ TrueOf(f.label, Facts.relatives)
        /\ Facts.relatives # "Yes" => \A text \in Denies : TrueOf(f.label, text)
    BY <1>2, <1>5, FactsAssumption DEF Straight
  <2> QED BY <1>1, <1>4, <2>1, PickedIsTrue DEF Answers
<1> QED BY <1>1, <1>3, <1>5 DEF MatchRelatives, About

-----------------------------------------------------------------------------
(* The first matcher *)

\* A matcher of the applicant's standing passes no question of its own on.
LEMMA NotPassed ==
    ASSUME NEW f
    PROVE  /\ MatchSponsorship(f) = Pass => ~About(f, "visa")
           /\ MatchWorkAuth(f) = Pass => ~About(f, "authorized")
           /\ MatchCitizenship(f) = Pass => ~About(f, "citizen")
<1>1. \A text : PickOption(f.options, text) # Pass
  BY PickOptionFinds, AnswersAssumption DEF NoText, Pass
<1>2. \A text : text # Pass => ResolveValue(f, text) # Pass
  BY <1>1 DEF ResolveValue
<1>3. /\ Pass \notin {Facts.sponsorship, Facts.authorized, Facts.status, Facts.citizenships}
      /\ Pass \notin {Facts.embargoed, Facts.residentOrCitizen, Facts.citizen}
  BY FactsAssumption DEF ValidDefaults, PlainTexts, Pass
<1>4. Pass # NoText
  BY DEF Pass, NoText
<1> QED BY <1>2, <1>3, <1>4 DEF MatchSponsorship, MatchWorkAuth, MatchCitizenship

\* Each reply is true of the question where the replies before it pass it on.
LEMMA RepliesTrue ==
    ASSUME NEW f, Straight(f), NEW i \in 1 .. 15,
           \A k \in 1 .. 15 : k < i => Replies(f)[k] = Pass
    PROVE  Answers(f, Replies(f)[i])
<1> DEFINE r == Replies(f)
<1>1. /\ r[1] = MatchFile(f) /\ r[2] = MatchCountry(f) /\ r[3] = MatchAddress(f)
      /\ r[4] = MatchIdentity(f) /\ r[5] = MatchEeo(f) /\ r[6] = MatchPronouns(f)
      /\ r[7] = MatchSponsorship(f) /\ r[8] = MatchWorkAuth(f) /\ r[9] = MatchCitizenship(f)
      /\ r[10] = MatchLegal(f) /\ r[11] = MatchRelocation(f) /\ r[12] = MatchRelatives(f)
      /\ r[13] = MatchStartDate(f) /\ r[14] = MatchHowHeard(f) /\ r[15] = MatchSalary(f)
  BY DEF Replies
<1> HIDE DEF r
<1>2. \A k \in 1 .. 15 : k < i => r[k] = Pass
  BY DEF r
<1>3. i \in {1, 2, 3, 4, 5, 6, 13, 14, 15} => Answers(f, r[i])
  BY <1>1, PlainMatchers
<1>4. i = 7 => Answers(f, r[i])
  BY <1>1, MatchSponsorshipTrue
<1>5. i > 7 => r[7] = Pass
  BY <1>2
<1>6. i > 8 => r[8] = Pass
  BY <1>2
<1>7. i > 9 => r[9] = Pass
  BY <1>2
<1>8. /\ r[7] = Pass => ~About(f, "visa")
      /\ r[8] = Pass => ~About(f, "authorized")
      /\ r[9] = Pass => ~About(f, "citizen")
  BY <1>1, NotPassed
<1>9. i \in {8, 9, 10, 11, 12} => Answers(f, r[i])
  BY <1>1, <1>5, <1>6, <1>7, <1>8, MatchWorkAuthTrue, MatchCitizenshipTrue, MatchLegalTrue,
     MatchRelocationTrue, MatchRelativesTrue DEF Passed
<1> QED BY <1>3, <1>4, <1>9 DEF r

\* An answer of the matchers is true of the question, unless the question mixes
\* topics: their order gives "authorized, e.g. as a citizen" the answer about the
\* authorization, and only where the topic asked for comes after another that the
\* label names, or is none of theirs, can matchQuestion answer the wrong one.
THEOREM MatchQuestionTrue ==
    ASSUME NEW f, f.label \in DOMAIN Says, ~MixesTopics(f.label), MatchQuestion(f) # NoText
    PROVE  TrueOf(f.label, MatchQuestion(f))
<1> DEFINE mine == {i \in DOMAIN Replies(f) : Replies(f)[i] # Pass}
<1>1. DOMAIN Replies(f) = 1 .. 15
  BY DEF Replies
<1>2. mine # {} /\ MatchQuestion(f) = Replies(f)[Min(mine)]
  BY DEF MatchQuestion, FirstOf
<1>3. mine \in SUBSET Nat
  BY <1>1
<1>4. Min(mine) \in mine /\ \A i \in mine : Min(mine) <= i
  BY <1>2, <1>3, LeastIsMin
<1> DEFINE n == Min(mine)
<1>5. n \in 1 .. 15 /\ \A k \in 1 .. 15 : k < n => Replies(f)[k] = Pass
  BY <1>1, <1>4
<1>6. Replies(f)[n] # Pass
  BY <1>4
<1> HIDE DEF n
<1>7. Answers(f, Replies(f)[n])
  BY <1>5, RepliesTrue DEF Straight
<1> QED BY <1>2, <1>6, <1>7 DEF n, Answers

-----------------------------------------------------------------------------
(* The bank *)

\* What a bank may hold: each page is true of its job's question.
HonestPages(stock) ==
    /\ stock \subseteq Pages
    /\ \A p \in stock : p.job \in Jobs => TrueFor(p.job, p.label, p.text)

LEMMA SearchBankFinds ==
    ASSUME NEW stock, NEW stars, NEW job, NEW f, NEW p \in SearchBank(stock, stars, job, f)
    PROVE  /\ p \in stock /\ p.label = f.label /\ BankValue(f, p) # NoText
           /\ p.job = job \/ (CategoryOf(p) \in Reusable /\ ~p.names)
<1>1. \A ps : First(ps, stars) \subseteq ps
  BY DEF First
<1>2. RankBank(stock, stars) \subseteq stock
  BY DEF RankBank
<1> DEFINE kept == RankBank(stock, stars)
           own == {q \in kept : q.job = job /\ q.label = f.label}
           exact == {q \in First(own, stars) : BankValue(f, q) # NoText}
           portable == {q \in kept : /\ q.job # job /\ q.label = f.label
                                     /\ CategoryOf(q) \in Reusable /\ ~q.names
                                     /\ BankValue(f, q) # NoText}
<1>3. p \in exact \/ p \in First(portable, stars)
  BY DEF SearchBank
<1>4. ASSUME p \in exact
      PROVE  p \in own /\ BankValue(f, p) # NoText
  BY <1>1, <1>4
<1>5. ASSUME p \in First(portable, stars)
      PROVE  p \in portable
  BY <1>1, <1>5
<1> QED BY <1>2, <1>3, <1>4, <1>5

\* What the bank finds is true of the question, of this employer's form.
LEMMA BankIsTrue ==
    ASSUME NEW stock, HonestPages(stock), NEW stars, NEW job \in Jobs, NEW f,
           NEW p \in SearchBank(stock, stars, job, f)
    PROVE  TrueFor(job, f.label, BankValue(f, p))
<1>1. /\ p \in stock /\ p.label = f.label /\ BankValue(f, p) # NoText
      /\ p.job = job \/ (CategoryOf(p) \in Reusable /\ ~p.names)
  BY SearchBankFinds
<1>2. TrueFor(job, f.label, p.text)
  <2>1. CASE p.job = job
    BY <1>1, <2>1 DEF HonestPages
  <2>2. CASE CategoryOf(p) \in Reusable /\ ~p.names
    <3>1. TrueOf(p.label, p.text)
      BY <1>1, <2>2, BankAssumption DEF HonestPages
    <3> QED BY <1>1, <3>1 DEF TrueOf, TrueFor
  <2> QED BY <1>1, <2>1, <2>2
<1>3. BankValue(f, p) = p.text \/ Means[BankValue(f, p)] \in {"-", Means[p.text]}
  BY <1>1, PickOptionSays DEF BankValue
<1> QED BY <1>2, <1>3 DEF TrueFor

\* What AnswersHonest says of one answer.
HonestAnswer(job, a) ==
    TrueFor(job, a.label, a.text) \/ (a.source = "defaults" /\ MixesTopics(a.label))

\* Every answer of a form is to a question of it, and honest.
LEMMA FieldAnswerTrue ==
    ASSUME NEW job \in Jobs, NEW f, f.label \in DOMAIN Says, NEW stock, HonestPages(stock),
           NEW stars, NEW a \in FieldAnswer(f, job, Files[job], stock, stars)
    PROVE  HonestAnswer(job, a) /\ a.id = f.id /\ a.label = f.label
<1> DEFINE m == MatchQuestion(f)
<1>1. \A text, source : /\ Given(f, text, source).id = f.id
                        /\ Given(f, text, source).label = f.label
                        /\ Given(f, text, source).text = text
                        /\ Given(f, text, source).source = source
  BY DEF Given
<1>2. CASE f.type = "file"
  <2>1. a = Given(f, m, "file") /\ m \in Files[job]
    BY <1>2 DEF FieldAnswer
  <2>2. m \in PlainTexts
    BY <2>1, FormsAssumption DEF PlainTexts
  <2> QED BY <1>1, <2>1, <2>2, PlainIsTrue DEF HonestAnswer, TrueFor, TrueOf
<1>3. CASE f.type # "file" /\ m # NoText
  <2>1. a = Given(f, m, "defaults")
    BY <1>3 DEF FieldAnswer
  <2>2. ~MixesTopics(f.label) => TrueOf(f.label, m)
    BY <1>3, MatchQuestionTrue
  <2> QED BY <1>1, <2>1, <2>2 DEF HonestAnswer, TrueFor, TrueOf
<1>4. CASE f.type # "file" /\ m = NoText
  <2>1. PICK p \in SearchBank(stock, stars, job, f) : a = Given(f, BankValue(f, p), "bank")
    BY <1>4 DEF FieldAnswer
  <2> QED BY <1>1, <2>1, BankIsTrue DEF HonestAnswer
<1> QED BY <1>2, <1>3, <1>4

LEMMA ResolveFieldsTrue ==
    ASSUME NEW job \in Jobs, NEW fields, \A f \in fields : f.label \in DOMAIN Says,
           NEW stock, HonestPages(stock), NEW stars
    PROVE  LET found == ResolveFields(fields, job, Files[job], stock, stars)
           IN  /\ \A a \in found.answers :
                    /\ HonestAnswer(job, a)
                    /\ \E f \in fields : a.id = f.id /\ a.label = f.label
               /\ found.unanswered \subseteq fields
<1> DEFINE found == ResolveFields(fields, job, Files[job], stock, stars)
           answersTo(f) == FieldAnswer(f, job, Files[job], stock, stars)
<1>1. /\ found.answers = UNION {answersTo(f) : f \in fields}
      /\ found.unanswered \subseteq fields
  BY DEF ResolveFields
<1>2. \A f \in fields : \A a \in answersTo(f) :
        HonestAnswer(job, a) /\ a.id = f.id /\ a.label = f.label
  BY FieldAnswerTrue
<1> HIDE DEF found, answersTo
<1>3. \A a \in found.answers :
        /\ HonestAnswer(job, a)
        /\ \E f \in fields : a.id = f.id /\ a.label = f.label
  BY <1>1, <1>2
<1> QED BY <1>1, <1>3 DEF found

-----------------------------------------------------------------------------
(* The address of a form, and the form *)

\* An address in pursuit that is called a form's is one.
OnTrack(was) == was.reason = "ok" => IsForm(was.at)

LEMMA FollowOnTrack ==
    ASSUME NEW was, OnTrack(was)
    PROVE  OnTrack(Follow(was))
<1> DEFINE now == FetchHop(was.at)
<1>1. now.reason = "ok" => IsForm(now.at)
  BY DEF FetchHop
<1>2. \A why, url : Reached(was, why, url).reason = why /\ Reached(was, why, url).at = url
  BY DEF Reached
<1>3. Follow(was) = Onward(was, now)
  BY DEF Follow
<1> HIDE DEF now
<1>4. \/ Onward(was, now) = was
      \/ Onward(was, now) = Reached(was, "ok", was.at) /\ IsForm(was.at)
      \/ Onward(was, now) = Reached(was, "no_ats", was.at)
      \/ Onward(was, now) = Reached(was, now.reason, now.at)
  BY DEF Onward
<1> QED BY <1>1, <1>2, <1>3, <1>4 DEF OnTrack

LEMMA ResolveIsForm ==
    ASSUME NEW url, Resolve(url).reason = "ok"
    PROVE  IsForm(Resolve(url).at)
<1> DEFINE start == [reason |-> "hop", at |-> url, seen |-> {}]
           last == Follow(Follow(Follow(Follow(Follow(start)))))
<1>1. OnTrack(start)
  BY DEF OnTrack
<1>2. \A was : OnTrack(was) => OnTrack(Follow(was))
  BY FollowOnTrack
<1>3. Resolve(url) = [reason |-> IF last.reason = "hop" THEN "no_ats" ELSE last.reason, at |-> last.at]
  BY DEF Resolve
<1> HIDE DEF start
<1>4. OnTrack(last)
  BY <1>1, <1>2
<1> HIDE DEF last
<1> QED BY <1>3, <1>4 DEF OnTrack

\* The form that a job's address is resolved to is one of a known ATS.
LEMMA JobUrlIsForm ==
    ASSUME NEW job, JobUrl(job).reason = "ok"
    PROVE  JobUrl(job).at \in Adapters
<1> DEFINE url == RowOf[job].url
           canon == CanonicalFormUrl(job)
           found == ResolveRow(url)
<1>1. canon # NoUrl => canon \in Adapters
  BY DEF CanonicalFormUrl
<1>2. ResolveViaPage(url).reason = "ok" => IsForm(ResolveViaPage(url).at)
  BY DEF ResolveViaPage
<1>3. found.reason = "ok" => found.at \in Adapters
  BY <1>2, ResolveIsForm DEF ResolveRow, IsForm
<1>4. canon # NoUrl => JobUrl(job).at = canon
  BY DEF JobUrl
<1>5. canon = NoUrl => JobUrl(job).at = found.at /\ found.reason = "ok"
  BY DEF JobUrl
<1> QED BY <1>1, <1>3, <1>4, <1>5

\* A form's controls have ids of their own and are of the kinds of its ATS.
GoodForm(ats, form) ==
    \A c \in form : /\ \A d \in form : c.id = d.id => c = d
                    /\ c.element \in DOMAIN Kinds(ats) /\ c.label \in DOMAIN Says

\* The kinds of control an adapter of the ATS types into.
KindsOf(ats) == {Kinds(ats)[e][2] : e \in DOMAIN Kinds(ats)}

\* Picked from a search, or shown without its options.
Unlisted == {"async-select", "location", "combo", "checkbox-single"}

LEMMA KindsKnown ==
    ASSUME NEW ats \in Adapters, NEW e \in DOMAIN Kinds(ats)
    PROVE  /\ Kinds(ats)[e][1] = "file" <=> Kinds(ats)[e][2] = "file"
           /\ Kinds(ats)[e][2] = "react-select" => Kinds(ats)[e][1] = "select"
           /\ ats = "greenhouse" => Kinds(ats)[e][2] \in
                {"text", "file", "react-select", "async-select", "checkbox-single",
                 "native-select", "radio-group", "checkbox-group"}
           /\ ats = "lever" => Kinds(ats)[e][2] \in
                {"text", "file", "location", "checkbox-single", "select", "radio-group",
                 "checkbox-group"}
           /\ ats = "ashby" => Kinds(ats)[e][2] \in
                {"text", "file", "combo", "checkbox-single", "yesno", "radio", "checkbox", "select"}
<1>1. CASE e \in Inputs
  <2>1. Kinds(ats)[e] = <<IF e = "tel" THEN "phone" ELSE e, IF e = "file" THEN "file" ELSE "text">>
    BY <1>1 DEF Kinds
  <2> QED BY <1>1, <2>1 DEF Inputs
<1>2. CASE e \notin Inputs
  <2>1. e \in DOMAIN OwnKinds(ats) /\ Kinds(ats)[e] = OwnKinds(ats)[e]
    BY <1>2 DEF Kinds
  <2>2. CASE ats = "greenhouse"
    BY <2>1, <2>2 DEF OwnKinds, GreenhouseKinds
  <2>3. CASE ats = "lever"
    BY <2>1, <2>3 DEF OwnKinds, LeverKinds
  <2>4. CASE ats = "ashby"
    BY <2>1, <2>4 DEF OwnKinds, AshbyKinds
  <2> QED BY <2>2, <2>3, <2>4 DEF Adapters
<1> QED BY <1>1, <1>2

\* A field of the form as it was read is that of one control.
LEMMA FieldOfControl ==
    ASSUME NEW ats \in Adapters, NEW form, GoodForm(ats, form), NEW f \in ReadSchema(ats, form)
    PROVE  \E c \in form :
            /\ c.id = f.id /\ c = (CHOOSE d \in form : d.id = f.id)
            /\ c.label = f.label /\ c.element \in DOMAIN Kinds(ats)
            /\ f.type = Kinds(ats)[c.element][1] /\ f.kind = Kinds(ats)[c.element][2]
            /\ f.kind \notin {"combo", "checkbox-single"} => f.options = c.options
<1>1. PICK c \in form :
        /\ c.id = f.id /\ c.label = f.label
        /\ f.type = Kinds(ats)[c.element][1] /\ f.kind = Kinds(ats)[c.element][2]
        /\ f.kind \notin {"combo", "checkbox-single"} => f.options = c.options
  BY DEF ReadSchema
<1>2. \A d \in form : d.id = f.id => d = c
  BY <1>1 DEF GoodForm
<1>3. c = (CHOOSE d \in form : d.id = f.id)
  BY <1>1, <1>2
<1>4. c.element \in DOMAIN Kinds(ats)
  BY DEF GoodForm
<1> QED BY <1>1, <1>3, <1>4

\* Its fields have ids of their own too.
LEMMA FieldsApart ==
    ASSUME NEW ats, NEW form, GoodForm(ats, form),
           NEW f \in ReadSchema(ats, form), NEW g \in ReadSchema(ats, form), f.id = g.id
    PROVE  f = g
<1> DEFINE field(c) ==
        [id |-> c.id, label |-> c.label, required |-> c.required,
         type |-> Kinds(ats)[c.element][1], kind |-> Kinds(ats)[c.element][2],
         options |-> IF Kinds(ats)[c.element][2] \in {"combo", "checkbox-single"} THEN {} ELSE c.options,
         partial |-> c.long /\ Kinds(ats)[c.element][2] = "react-select"]
<1>1. ReadSchema(ats, form) = {field(c) : c \in form}
  BY DEF ReadSchema
<1>2. \A c : field(c).id = c.id
  OBVIOUS
<1> HIDE DEF field
<1>3. PICK c \in form : f = field(c)
  BY <1>1
<1>4. PICK d \in form : g = field(d)
  BY <1>1
<1>5. c = d
  BY <1>2, <1>3, <1>4 DEF GoodForm
<1> QED BY <1>3, <1>4, <1>5

LEMMA FieldKinds ==
    ASSUME NEW ats \in Adapters, NEW form, GoodForm(ats, form), NEW f \in ReadSchema(ats, form)
    PROVE  /\ f.label \in DOMAIN Says
           /\ f.type = "file" <=> f.kind = "file"
           /\ f.kind = "react-select" => IsChoice(f)
<1>1. PICK c \in form :
        /\ c.label = f.label /\ c.element \in DOMAIN Kinds(ats)
        /\ f.type = Kinds(ats)[c.element][1] /\ f.kind = Kinds(ats)[c.element][2]
  BY FieldOfControl
<1>2. c.label \in DOMAIN Says
  BY DEF GoodForm
<1> QED BY <1>1, <1>2, KindsKnown DEF IsChoice

\* A text that has been fitted to a choice's options is one that picking finds
\* again, or none.
Fits(f, text) == IsChoice(f) => PickOption(f.options, text) \in {NoText, text}

LEMMA PlannedFits ==
    ASSUME NEW f, NEW answers, NEW llm2, Planned(f, answers, llm2) # NoText
    PROVE  Fits(f, Planned(f, answers, llm2))
<1> DEFINE fitted(t) == IF ~IsChoice(f) \/ ~HasOptions(f) THEN t
                        ELSE IF PickOption(f.options, t) = NoText /\ f.partial THEN t
                        ELSE PickOption(f.options, t)
<1>1. \E t : Planned(f, answers, llm2) = fitted(t)
  <2> DEFINE byId    == {a \in answers : a.id = f.id}
             byLabel == {a \in answers : a.label = f.label}
             byModel == {a \in llm2 : a.label = f.label}
             chosen  == IF byId # {} THEN byId ELSE IF byLabel # {} THEN byLabel ELSE byModel
             texts == {fitted(a.text) : a \in chosen}
  <2>1. Planned(f, answers, llm2) = IF texts = {} THEN NoText ELSE CHOOSE t \in texts : TRUE
    BY DEF Planned
  <2> HIDE DEF chosen, fitted
  <2>2. (CHOOSE t \in texts : TRUE) \in texts
    BY <2>1
  <2> QED BY <2>1, <2>2
<1>2. \A t : PickOption(f.options, t) # NoText =>
          PickOption(f.options, PickOption(f.options, t)) = PickOption(f.options, t)
  BY PickOptionAgain
<1>3. ~HasOptions(f) => \A t : PickOption(f.options, t) = NoText
  BY PickOptionFinds DEF HasOptions
<1> DEFINE v == Planned(f, answers, llm2)
<1>4. PICK t : v = fitted(t)
  BY <1>1
<1> HIDE DEF v
<1>5. v # NoText => Fits(f, v)
  BY <1>2, <1>3, <1>4 DEF Fits
<1> QED BY <1>5 DEF v

-----------------------------------------------------------------------------
(* Typing *)

\* The kinds where what is picked may be another than what was typed.
Searches == {"async-select", "location", "combo"}

LEMMA GreenhouseHolds ==
    ASSUME NEW f, NEW options, NEW v, f.kind # "async-select",
           f.kind \in {"text", "file", "react-select", "checkbox-single", "native-select",
                      "radio-group", "checkbox-group"},
           f.kind = "react-select" => PickOption(options, v) \in {NoText, v},
           NEW r \in FillGreenhouse(f, options, v)
    PROVE  r.holds \in {v, Empty}
<1> DEFINE k == f.kind
           lists == {"native-select", "radio-group", "checkbox-group"}
           menu == {IF o = NoText THEN Missed ELSE Held(o) : o \in {PickOption(options, v)}}
<1>1. Held(v).holds = v /\ Held(Empty).holds = Empty /\ Missed.holds = Empty
  BY DEF Held, Missed
<1>2. CASE k = "text"
  <2>1. k # "file" /\ k # "react-select" /\ k # "async-select" /\ k # "checkbox-single" /\ k \notin lists
    BY <1>2
  <2>2. FillGreenhouse(f, options, v) = {Held(v)}
    BY <1>2, <2>1, Zenon DEF FillGreenhouse
  <2> QED BY <1>1, <2>2
<1>3. CASE k = "file"
  <2>1. k # "text" /\ k # "react-select" /\ k # "async-select" /\ k # "checkbox-single" /\ k \notin lists
    BY <1>3
  <2>2. FillGreenhouse(f, options, v) = {Held(v), Held(Empty)}
    BY <1>3, <2>1, Zenon DEF FillGreenhouse
  <2> QED BY <1>1, <2>2
<1>4. CASE k = "react-select"
  <2>1. k # "text" /\ k # "file" /\ k # "async-select" /\ k # "checkbox-single" /\ k \notin lists
    BY <1>4
  <2>2. FillGreenhouse(f, options, v) = menu
    BY <1>4, <2>1, Zenon DEF FillGreenhouse
  <2>3. r = Missed \/ r = Held(v)
    BY <1>4, <2>2
  <2> QED BY <1>1, <2>3
<1>5. CASE k = "checkbox-single"
  <2>1. k # "text" /\ k # "file" /\ k # "react-select" /\ k # "async-select" /\ k \notin lists
    BY <1>5
  <2>2. FillGreenhouse(f, options, v) = Tick(v)
    BY <1>5, <2>1, Zenon DEF FillGreenhouse
  <2>3. r = Held(v) \/ r = Held(Empty)
    BY <2>2 DEF Tick
  <2> QED BY <1>1, <2>3
<1>6. CASE k \in lists
  <2>1. k # "text" /\ k # "file" /\ k # "react-select" /\ k # "async-select" /\ k # "checkbox-single"
    BY <1>6
  <2>2. FillGreenhouse(f, options, v) = Listed(options, v)
    BY <1>6, <2>1, Zenon DEF FillGreenhouse
  <2>3. r = Held(v) \/ r = Missed
    BY <2>2 DEF Listed
  <2> QED BY <1>1, <2>3
<1> QED BY <1>2, <1>3, <1>4, <1>5, <1>6

LEMMA LeverHolds ==
    ASSUME NEW f, NEW options, NEW v,
           f.kind \in {"text", "file", "checkbox-single", "select", "radio-group", "checkbox-group"},
           NEW r \in FillLever(f, options, v)
    PROVE  r.holds \in {v, Empty}
<1> DEFINE k == f.kind
           lists == {"select", "radio-group", "checkbox-group"}
<1>1. Held(v).holds = v /\ Held(Empty).holds = Empty /\ Missed.holds = Empty
  BY DEF Held, Missed
<1>2. CASE k \in {"text", "file"}
  <2>1. k # "location" /\ k # "checkbox-single" /\ k \notin lists
    BY <1>2
  <2>2. FillLever(f, options, v) = {Held(v)}
    BY <1>2, <2>1, Zenon DEF FillLever
  <2> QED BY <1>1, <2>2
<1>3. CASE k = "checkbox-single"
  <2>1. k \notin {"text", "file"} /\ k # "location" /\ k \notin lists
    BY <1>3
  <2>2. FillLever(f, options, v) = Tick(v)
    BY <1>3, <2>1, Zenon DEF FillLever
  <2>3. r = Held(v) \/ r = Held(Empty)
    BY <2>2 DEF Tick
  <2> QED BY <1>1, <2>3
<1>4. CASE k \in lists
  <2>1. k \notin {"text", "file"} /\ k # "location" /\ k # "checkbox-single"
    BY <1>4
  <2>2. FillLever(f, options, v) = Listed(options, v)
    BY <1>4, <2>1, Zenon DEF FillLever
  <2>3. r = Held(v) \/ r = Missed
    BY <2>2 DEF Listed
  <2> QED BY <1>1, <2>3
<1> QED BY <1>2, <1>3, <1>4

LEMMA AshbyHolds ==
    ASSUME NEW f, NEW options, NEW v,
           f.kind \in {"text", "file", "checkbox-single", "yesno", "radio", "checkbox", "select"},
           NEW r \in FillAshby(f, options, v)
    PROVE  r.holds \in {v, Empty}
<1> DEFINE k == f.kind
           lists == {"yesno", "radio", "checkbox", "select"}
<1>1. Held(v).holds = v /\ Held(Empty).holds = Empty /\ Missed.holds = Empty
  BY DEF Held, Missed
<1>2. CASE k \in {"text", "file"}
  <2>1. k # "combo" /\ k # "checkbox-single" /\ k \notin lists
    BY <1>2
  <2>2. FillAshby(f, options, v) = {Held(v)}
    BY <1>2, <2>1, Zenon DEF FillAshby
  <2> QED BY <1>1, <2>2
<1>3. CASE k = "checkbox-single"
  <2>1. k \notin {"text", "file"} /\ k # "combo" /\ k \notin lists
    BY <1>3
  <2>2. FillAshby(f, options, v) = Tick(v)
    BY <1>3, <2>1, Zenon DEF FillAshby
  <2>3. r = Held(v) \/ r = Held(Empty)
    BY <2>2 DEF Tick
  <2> QED BY <1>1, <2>3
<1>4. CASE k \in lists
  <2>1. k \notin {"text", "file"} /\ k # "combo" /\ k # "checkbox-single"
    BY <1>4
  <2>2. FillAshby(f, options, v) = Listed(options, v)
    BY <1>4, <2>1, Zenon DEF FillAshby
  <2>3. r = Held(v) \/ r = Missed
    BY <2>2 DEF Listed
  <2> QED BY <1>1, <2>3
<1> QED BY <1>2, <1>3, <1>4

\* What a control holds after it was typed into: the text, or nothing.
LEMMA FillHolds ==
    ASSUME NEW ats \in Adapters, NEW form, GoodForm(ats, form), NEW f \in ReadSchema(ats, form),
           f.kind \notin Searches, NEW v, Fits(f, v),
           NEW r \in FillOne(ats, f, (CHOOSE c \in form : c.id = f.id).options, v)
    PROVE  r.holds \in {v, Empty}
<1> DEFINE control == CHOOSE c \in form : c.id = f.id
<1>1. /\ control.element \in DOMAIN Kinds(ats) /\ f.kind = Kinds(ats)[control.element][2]
      /\ f.type = Kinds(ats)[control.element][1]
      /\ f.kind \notin {"combo", "checkbox-single"} => f.options = control.options
  <2>1. PICK c \in form :
            /\ c = control /\ c.element \in DOMAIN Kinds(ats)
            /\ f.type = Kinds(ats)[c.element][1] /\ f.kind = Kinds(ats)[c.element][2]
            /\ f.kind \notin {"combo", "checkbox-single"} => f.options = c.options
    BY FieldOfControl
  <2> HIDE DEF control
  <2> QED BY <2>1
<1> HIDE DEF control
<1>2. r \in FillOne(ats, f, control.options, v)
  BY DEF control
<1>3. CASE ats = "greenhouse"
  <2>1. r \in FillGreenhouse(f, control.options, v)
    BY <1>2, <1>3, Zenon DEF FillOne
  <2>2. f.kind \in {"text", "file", "react-select", "checkbox-single", "native-select",
                    "radio-group", "checkbox-group"}
    BY <1>1, <1>3, KindsKnown DEF Searches
  <2>3. f.kind = "react-select" => PickOption(control.options, v) \in {NoText, v}
    BY <1>1, FieldKinds DEF Fits
  <2> QED BY <2>1, <2>2, <2>3, GreenhouseHolds DEF Searches
<1>4. CASE ats = "lever"
  <2>1. ats # "greenhouse" /\ ats # "ashby"
    BY <1>4
  <2>2. r \in FillLever(f, control.options, v)
    BY <1>2, <1>4, <2>1, Zenon DEF FillOne
  <2>3. f.kind \in {"text", "file", "checkbox-single", "select", "radio-group", "checkbox-group"}
    BY <1>1, <1>4, KindsKnown DEF Searches
  <2> QED BY <2>2, <2>3, LeverHolds
<1>5. CASE ats = "ashby"
  <2>1. ats # "greenhouse" /\ ats # "lever"
    BY <1>5
  <2>2. r \in FillAshby(f, control.options, v)
    BY <1>2, <1>5, <2>1, Zenon DEF FillOne
  <2>3. f.kind \in {"text", "file", "checkbox-single", "yesno", "radio", "checkbox", "select"}
    BY <1>1, <1>5, KindsKnown DEF Searches
  <2> QED BY <2>2, <2>3, AshbyHolds
<1> QED BY <1>3, <1>4, <1>5 DEF Adapters

\* The form a job has open: of a known ATS, its fields those of its controls.
LEMMA FieldsOfJob ==
    ASSUME NEW job \in Jobs, JobUrl(job).reason = "ok", entry[job].ats = JobUrl(job).at,
           version[job] \in 1 .. 2
    PROVE  /\ entry[job].ats \in Adapters
           /\ GoodForm(entry[job].ats, Forms[job][version[job]])
           /\ Fields(job, version[job]) = ReadSchema(entry[job].ats, Forms[job][version[job]])
<1>1. entry[job].ats \in Adapters
  BY JobUrlIsForm
<1>2. GoodForm(entry[job].ats, Forms[job][version[job]])
  BY FormsAssumption DEF GoodForm
<1> QED BY <1>1, <1>2 DEF Fields, Schema

\* Typing the plan's texts into some fields of the form leaves each of them
\* with its text or with nothing, and the others as they were.
LEMMA TypedHolds ==
    ASSUME NEW job \in Jobs, JobUrl(job).reason = "ok", entry[job].ats = JobUrl(job).at,
           version[job] \in 1 .. 2,
           NEW fields \in SUBSET Fields(job, version[job]), NEW t \in Typed(job, fields),
           DOMAIN held[job] = {f.id : f \in Fields(job, version[job])},
           \A f \in Fields(job, version[job]) : Fits(f, plan[job][f])
    PROVE  /\ DOMAIN t.holds = DOMAIN held[job]
           /\ \A f \in fields : plan[job][f] # NoText /\ f.kind \notin Searches =>
                t.holds[f.id] \in {plan[job][f], Empty}
           /\ \A f \in Fields(job, version[job]) \ fields : t.holds[f.id] = held[job][f.id]
<1> DEFINE ats == entry[job].ats
           form == Forms[job][version[job]]
           all == Fields(job, version[job])
           wanted == {f \in fields : plan[job][f] # NoText}
           choices == [f \in wanted |->
                FillOne(ats, f, Control(job, version[job], f).options, plan[job][f])]
           outcomes == {u \in [wanted -> UNION {choices[f] : f \in wanted}] :
                            \A f \in wanted : u[f] \in choices[f]}
           now(u, i) == {u[f].holds : f \in {g \in wanted : g.id = i}}
           after(u) == [holds |-> [i \in DOMAIN held[job] |->
                            IF now(u, i) = {} THEN held[job][i] ELSE CHOOSE h \in now(u, i) : TRUE],
                        failed |-> {f \in wanted : ~u[f].ok}]
<1>1. ats \in Adapters /\ GoodForm(ats, form) /\ all = ReadSchema(ats, form)
  BY FieldsOfJob
<1>2. \A f, g \in all : f.id = g.id => f = g
  BY <1>1, FieldsApart
<1>3. Typed(job, fields) = {after(u) : u \in outcomes}
  BY DEF Typed
<1>4. PICK u \in outcomes : t = after(u)
  BY <1>3
<1>5. \A f \in wanted : u[f] \in choices[f]
  BY <1>4
<1>6. t.holds = [i \in DOMAIN held[job] |->
                    IF now(u, i) = {} THEN held[job][i] ELSE CHOOSE h \in now(u, i) : TRUE]
  BY <1>4
<1>7. \A f \in wanted : now(u, f.id) = {u[f].holds}
  BY <1>2
<1>8. ASSUME NEW f \in wanted, f.kind \notin Searches
      PROVE  u[f].holds \in {plan[job][f], Empty}
  <2>1. u[f] \in FillOne(ats, f, (CHOOSE c \in form : c.id = f.id).options, plan[job][f])
    BY <1>5, <1>8 DEF Control
  <2> QED BY <1>1, <1>8, <2>1, FillHolds
<1>9. \A f \in all : f.id \in DOMAIN held[job]
  OBVIOUS
<1>10. \A f \in all \ fields : now(u, f.id) = {}
  BY <1>2
<1> HIDE DEF now, wanted, all
<1>11. \A f \in wanted : f \in all
  BY DEF wanted, all
<1>12. \A f \in wanted : t.holds[f.id] = u[f].holds
  BY <1>6, <1>7, <1>9, <1>11
<1>13. \A f \in all \ fields : t.holds[f.id] = held[job][f.id]
  BY <1>6, <1>9, <1>10
<1>14. DOMAIN t.holds = DOMAIN held[job]
  BY <1>6
<1> QED BY <1>8, <1>12, <1>13, <1>14 DEF wanted, all

-----------------------------------------------------------------------------
(* The inductive invariant *)

OnPage == {"files", "typing", "typed", "checked"} \cup Clicked

IsMail(m) ==
    m = [kind |-> m.kind, job |-> m.job, after |-> m.after, used |-> m.used, nth |-> m.nth]

\* Each part of the state has a value for each job.
DeskShape ==
    /\ DOMAIN desk = Jobs /\ DOMAIN reason = Jobs /\ DOMAIN row = Jobs
    /\ DOMAIN entry = Jobs /\ DOMAIN llm = Jobs
    /\ DOMAIN plan = Jobs /\ DOMAIN held = Jobs /\ DOMAIN parser = Jobs /\ DOMAIN signs = Jobs
    /\ version \in [Jobs -> 1 .. 2] /\ accepted \subseteq Jobs
    /\ \A job \in Jobs :
        entry[job] = [ats |-> entry[job].ats, answers |-> entry[job].answers,
                      unanswered |-> entry[job].unanswered, version |-> entry[job].version]
    /\ \A m \in mails : IsMail(m)

\* Once it is found, a job's form is that of its address.
FormFound(job) ==
    desk[job] \notin {"idle", "ended"} =>
        JobUrl(job).reason = "ok" /\ entry[job].ats = JobUrl(job).at

\* The form asks, or has asked, the question under the id.
Asked(job, id, label) ==
    \E v \in 1 .. 2 : \E c \in Forms[job][v] : c.id = id /\ c.label = label

\* What is known of a job's form is true, of pre's answers and of the model's.
HonestEntry(job) ==
    /\ \A a \in entry[job].answers : HonestAnswer(job, a)
    /\ \A a \in llm[job] : TrueFor(job, a.label, a.text)
    /\ \A a \in entry[job].answers : Asked(job, a.id, a.label)
    /\ \A f \in entry[job].unanswered : f.label \in DOMAIN Says

\* A required field whose control holds what was typed and nothing else.
Exact(f) == f.required /\ f.kind \notin Searches

\* The open form is planned: each required field has a text that fits it.
Laid(job) ==
    desk[job] \in OnPage =>
        /\ DOMAIN held[job] = {f.id : f \in Fields(job, version[job])}
        /\ \A f \in Fields(job, version[job]) :
            /\ plan[job][f] = Planned(f, entry[job].answers, llm[job])
            /\ Fits(f, plan[job][f]) /\ (f.required => plan[job][f] # NoText)

\* The files are typed before the rest and nobody writes over them; the rest
\* is typed when the parser is done, and what holds nothing is never sent.
Filled(job) ==
    /\ desk[job] = "typing" =>
        \A f \in FileFields(job) : Exact(f) => held[job][f.id] \in {plan[job][f], Empty}
    /\ parser[job] = "running" => desk[job] \notin {"typed", "checked"} \cup Clicked
    /\ parser[job] \in {"off", "done"} =>
        /\ desk[job] = "typed" =>
            \A f \in Fields(job, version[job]) :
                Exact(f) => held[job][f.id] \in {plan[job][f], Empty}
        /\ desk[job] \in {"checked"} \cup Clicked =>
            \A f \in Fields(job, version[job]) : Exact(f) => held[job][f.id] = plan[job][f]

\* A page says thanks, and a mail is sent, for an application that is in.
Thanked ==
    /\ \A job \in Jobs : "thanks" \in signs[job] => job \in accepted
    /\ \A m \in mails : m.kind = "thanks" => m.job \in accepted

\* A row says submitted for a job whose company has an application.
Submitted(job) ==
    row[job] = "submitted" => \E k \in accepted : Company[k] = Company[job]

JobInv(job) ==
    FormFound(job) /\ HonestEntry(job) /\ Laid(job) /\ Filled(job) /\ Submitted(job)

DeskInv ==
    /\ DeskShape
    /\ HonestPages(bank.notion)
    /\ Thanked
    /\ \A job \in Jobs : JobInv(job)

\* A step of one job leaves the others' parts of the state alone.
Elsewhere(job) ==
    /\ \A k \in Jobs \ {job} :
        /\ desk'[k] = desk[k] /\ row'[k] = row[k]
        /\ entry'[k] = entry[k] /\ llm'[k] = llm[k] /\ version'[k] = version[k]
        /\ plan'[k] = plan[k] /\ held'[k] = held[k] /\ parser'[k] = parser[k]
    /\ accepted \subseteq accepted'

LEMMA OneJob ==
    ASSUME DeskInv, NEW job \in Jobs, Elsewhere(job), JobInv(job)',
           DeskShape', HonestPages(bank.notion)', Thanked'
    PROVE  DeskInv'
<1>1. ASSUME NEW k \in Jobs, k # job
      PROVE  JobInv(k)'
  <2>1. /\ desk'[k] = desk[k] /\ row'[k] = row[k]
        /\ entry'[k] = entry[k] /\ llm'[k] = llm[k] /\ version'[k] = version[k]
        /\ plan'[k] = plan[k] /\ held'[k] = held[k] /\ parser'[k] = parser[k]
    BY <1>1 DEF Elsewhere
  <2>2. JobInv(k)
    BY DEF DeskInv
  <2>3. /\ Fields(k, version[k])' = Fields(k, version[k])
        /\ FileFields(k)' = FileFields(k)
    BY <2>1 DEF Fields, FileFields
  <2>4. FormFound(k)' /\ HonestEntry(k)'
    BY <2>1, <2>2 DEF JobInv, FormFound, HonestEntry
  <2>5. Laid(k)'
    BY <2>1, <2>2, <2>3 DEF JobInv, Laid
  <2>6. Filled(k)'
    BY <2>1, <2>2, <2>3 DEF JobInv, Filled
  <2>7. Submitted(k)'
    BY <2>1, <2>2 DEF JobInv, Submitted, Elsewhere
  <2> QED BY <2>4, <2>5, <2>6, <2>7 DEF JobInv
<1> QED BY <1>1 DEF DeskInv

\* A form that ends keeps what is known of it, and its page is closed.
LEMMA EndKeeps ==
    ASSUME DeskInv, NEW job \in Jobs, NEW state, NEW why, End(job, state, why),
           UNCHANGED <<bankVars, contextVars, siteVars>>,
           state = "submitted" => \E k \in accepted : Company[k] = Company[job]
    PROVE  DeskInv'
<1>1. /\ UNCHANGED <<bank, entry, llm, version, accepted, mails>>
      /\ desk' = [desk EXCEPT ![job] = "ended"] /\ row' = [row EXCEPT ![job] = state]
      /\ reason' = [reason EXCEPT ![job] = why]
      /\ plan' = [plan EXCEPT ![job] = <<>>] /\ held' = [held EXCEPT ![job] = <<>>]
      /\ parser' = [parser EXCEPT ![job] = "off"] /\ signs' = [signs EXCEPT ![job] = {}]
  BY DEF End, bankVars, contextVars, siteVars
<1>2. DeskShape /\ Thanked /\ HonestPages(bank.notion) /\ JobInv(job)
  BY DEF DeskInv
<1>3. DeskShape'
  BY <1>1, <1>2 DEF DeskShape
<1>4. /\ desk'[job] = "ended" /\ row'[job] = state /\ parser'[job] = "off"
      /\ Elsewhere(job)
  BY <1>1, <1>2 DEF DeskShape, Elsewhere
<1>5. Thanked' /\ HonestPages(bank.notion)'
  BY <1>1, <1>2 DEF DeskShape, Thanked, HonestPages
<1>6. JobInv(job)'
  BY <1>1, <1>2, <1>4 DEF JobInv, FormFound, HonestEntry, Laid, Filled, Submitted, OnPage, Clicked
<1> QED BY <1>3, <1>4, <1>5, <1>6, OneJob

-----------------------------------------------------------------------------
(* The steps of pre *)

\* The form ends otherwise than submitted.
Stops(job) == \E state, why : state # "submitted" /\ End(job, state, why)

LEMMA StopKeeps ==
    ASSUME DeskInv, NEW job \in Jobs, Stops(job), UNCHANGED <<bankVars, contextVars, siteVars>>
    PROVE  DeskInv'
BY EndKeeps DEF Stops

LEMMA FindFormKeeps ==
    ASSUME DeskInv, NEW job \in Jobs, FindForm(job)
    PROVE  DeskInv'
<1> DEFINE where == JobUrl(job)
<1>1. UNCHANGED <<bank, llm, version, accepted, mails>> /\ UNCHANGED <<bankVars, llm, siteVars>>
  BY DEF FindForm, bankVars, siteVars
<1>2. where.reason \in {"ok", "manual", "skip"}
  BY DEF JobUrl
<1>3. \/ Stops(job) /\ UNCHANGED entry
      \/ /\ where.reason = "ok" /\ entry' = [entry EXCEPT ![job].ats = where.at]
         /\ Goto(job, "found")
  <2> HIDE DEF where
  <2>1. PICK known \in PostingStates(where.at, job \in open) :
        IF where.reason = "manual" THEN End(job, "manual", "no_form") /\ UNCHANGED entry
        ELSE IF where.reason = "skip" THEN End(job, "To Apply", "url_dead") /\ UNCHANGED entry
        ELSE IF known = "closed" THEN End(job, "archived", "closed") /\ UNCHANGED entry
        ELSE IF "resume" \notin Files[job]
        THEN End(job, "manual", "resume_missing") /\ UNCHANGED entry
        ELSE IF ComputeDesiredSalary(Pay[job]).belowFloor
        THEN End(job, "To Apply", "salary_below_floor") /\ UNCHANGED entry
        ELSE entry' = [entry EXCEPT ![job].ats = where.at] /\ Goto(job, "found")
    BY DEF FindForm, where
  <2> QED BY <1>2, <2>1 DEF Stops
<1>4. CASE Stops(job) /\ UNCHANGED entry
  BY <1>1, <1>4, StopKeeps DEF contextVars
<1>5. CASE /\ where.reason = "ok" /\ entry' = [entry EXCEPT ![job].ats = where.at]
           /\ Goto(job, "found")
  <2>1. /\ desk' = [desk EXCEPT ![job] = "found"]
        /\ UNCHANGED <<row, reason, plan, held, parser, signs>>
    BY <1>5 DEF Goto, Move, pageVars
  <2>2. DeskShape /\ Thanked /\ HonestPages(bank.notion) /\ JobInv(job)
    BY DEF DeskInv
  <2> HIDE DEF where
  <2>3. entry'[job] = [ats |-> where.at, answers |-> entry[job].answers,
                       unanswered |-> entry[job].unanswered, version |-> entry[job].version]
    BY <1>5, <2>2 DEF DeskShape
  <2>4. DeskShape'
    BY <1>1, <1>5, <2>1, <2>2, <2>3 DEF DeskShape
  <2>5. desk'[job] = "found" /\ Elsewhere(job)
    BY <1>1, <1>5, <2>1, <2>2 DEF DeskShape, Elsewhere
  <2>6. Thanked' /\ HonestPages(bank.notion)'
    BY <1>1, <2>1, <2>2 DEF Thanked, HonestPages
  <2>7. FormFound(job)' /\ HonestEntry(job)'
    BY <1>1, <1>5, <2>2, <2>3 DEF where, JobInv, FormFound, HonestEntry
  <2>8. Laid(job)' /\ Filled(job)' /\ Submitted(job)'
    BY <1>1, <2>1, <2>2, <2>5 DEF JobInv, Laid, Filled, Submitted, OnPage, Clicked
  <2> QED BY <2>4, <2>5, <2>6, <2>7, <2>8, OneJob DEF JobInv
<1> QED BY <1>3, <1>4, <1>5

LEMMA ReadFormKeeps ==
    ASSUME DeskInv, NEW job \in Jobs, ReadForm(job)
    PROVE  DeskInv'
<1>1. /\ UNCHANGED <<bank, llm, version, accepted, mails>> /\ UNCHANGED <<bankVars, llm, siteVars>>
      /\ desk[job] = "found"
  BY DEF ReadForm, bankVars, siteVars
<1>2. DeskShape /\ Thanked /\ HonestPages(bank.notion) /\ JobInv(job)
  BY DEF DeskInv
<1> DEFINE fields == Fields(job, version[job])
           found(stock) == ResolveFields(fields, job, Files[job], stock, ratings)
<1>3. PICK stock \in Banks :
        \/ Stops(job) /\ UNCHANGED entry
        \/ /\ entry' = [entry EXCEPT ![job] =
                    [@ EXCEPT !.answers = found(stock).answers,
                              !.unanswered = found(stock).unanswered, !.version = version[job]]]
           /\ Goto(job, "read")
  <2>1. PICK stock \in Banks :
            IF job \notin open THEN End(job, "archived", "closed") /\ UNCHANGED entry
            ELSE IF found(stock).blocked
            THEN End(job, "manual", "file_missing") /\ UNCHANGED entry
            ELSE /\ entry' = [entry EXCEPT ![job] =
                    [@ EXCEPT !.answers = found(stock).answers,
                              !.unanswered = found(stock).unanswered, !.version = version[job]]]
                 /\ Goto(job, "read")
    BY DEF ReadForm
  <2> QED BY <2>1 DEF Stops
<1>4. CASE Stops(job) /\ UNCHANGED entry
  BY <1>1, <1>4, StopKeeps DEF contextVars
<1>5. CASE ~(Stops(job) /\ UNCHANGED entry)
  <2> DEFINE answers == found(stock).answers
             unanswered == found(stock).unanswered
  <2>1. /\ entry' = [entry EXCEPT ![job] = [@ EXCEPT !.answers = answers,
                              !.unanswered = unanswered, !.version = version[job]]]
        /\ Goto(job, "read")
    BY <1>3, <1>5
  <2>2. /\ desk' = [desk EXCEPT ![job] = "read"]
        /\ UNCHANGED <<row, reason, plan, held, parser, signs>>
    BY <2>1 DEF Goto, Move, pageVars
  <2>3. \A f \in fields : f.label \in DOMAIN Says /\ Asked(job, f.id, f.label)
    <3>1. JobUrl(job).reason = "ok" /\ entry[job].ats = JobUrl(job).at /\ version[job] \in 1 .. 2
      BY <1>1, <1>2 DEF JobInv, FormFound, DeskShape
    <3>2. /\ entry[job].ats \in Adapters /\ GoodForm(entry[job].ats, Forms[job][version[job]])
          /\ fields = ReadSchema(entry[job].ats, Forms[job][version[job]])
      BY <3>1, FieldsOfJob
    <3>3. \A f \in fields : \E c \in Forms[job][version[job]] : c.id = f.id /\ c.label = f.label
      BY <3>2, FieldOfControl
    <3>4. \A f \in fields : f.label \in DOMAIN Says
      BY <3>2, FieldKinds
    <3> QED BY <3>1, <3>3, <3>4 DEF Asked
  <2>4. HonestPages(stock)
    BY <1>2 DEF Banks, HonestPages
  <2>5. /\ \A a \in answers : /\ HonestAnswer(job, a)
                             /\ \E f \in fields : a.id = f.id /\ a.label = f.label
        /\ unanswered \subseteq fields
    BY <2>3, <2>4, ResolveFieldsTrue
  <2> HIDE DEF answers, unanswered, fields
  <2>6. entry'[job] = [ats |-> entry[job].ats, answers |-> answers,
                       unanswered |-> unanswered, version |-> version[job]]
    <3> DEFINE new == [entry[job] EXCEPT !.answers = answers, !.unanswered = unanswered,
                                         !.version = version[job]]
    <3> DEFINE was == [ats |-> entry[job].ats, answers |-> entry[job].answers,
                       unanswered |-> entry[job].unanswered, version |-> entry[job].version]
    <3>1. entry[job] = was
      BY <1>2, Zenon DEF DeskShape
    <3>2. new = [was EXCEPT !.answers = answers, !.unanswered = unanswered,
                            !.version = version[job]]
      BY <3>1, Zenon
    <3>3. new = [ats |-> entry[job].ats, answers |-> answers,
                 unanswered |-> unanswered, version |-> version[job]]
      <4> HIDE DEF new
      <4> QED BY <3>2
    <3>4. entry' = [entry EXCEPT ![job] = new]
      BY <2>1
    <3> HIDE DEF new
    <3>5. entry'[job] = new
      BY <1>2, <3>4 DEF DeskShape
    <3> QED BY <3>3, <3>5
  <2>7. DeskShape'
    BY <1>1, <1>2, <2>1, <2>2, <2>6 DEF DeskShape
  <2>8. desk'[job] = "read" /\ Elsewhere(job)
    BY <1>1, <1>2, <2>1, <2>2 DEF DeskShape, Elsewhere
  <2>9. Thanked' /\ HonestPages(bank.notion)'
    BY <1>1, <1>2, <2>2 DEF Thanked, HonestPages
  <2>10. FormFound(job)' /\ HonestEntry(job)'
    BY <1>1, <1>2, <2>3, <2>5, <2>6 DEF JobInv, FormFound, HonestEntry
  <2>11. Laid(job)' /\ Filled(job)' /\ Submitted(job)'
    BY <1>1, <1>2, <2>2, <2>8 DEF JobInv, Laid, Filled, Submitted, OnPage, Clicked
  <2> QED BY <2>7, <2>8, <2>9, <2>10, <2>11, OneJob DEF JobInv
<1> QED BY <1>4, <1>5

LEMMA AnswerRestKeeps ==
    ASSUME DeskInv, NEW job \in Jobs, AnswerRest(job)
    PROVE  DeskInv'
<1>1. /\ UNCHANGED <<bank, entry, version, accepted, mails>> /\ desk[job] = "read"
      /\ desk' = [desk EXCEPT ![job] = "answered"]
      /\ UNCHANGED <<row, reason, plan, held, parser, signs>>
  BY DEF AnswerRest, bankVars, siteVars, Goto, Move, pageVars
<1>2. DeskShape /\ Thanked /\ HonestPages(bank.notion) /\ JobInv(job)
  BY DEF DeskInv
<1>3. PICK known \in SUBSET entry[job].unanswered :
        llm' = [llm EXCEPT ![job] = {Given(f, OwnWords[<<job, f.label>>], "llm") : f \in known}]
  BY DEF AnswerRest
<1>4. DeskShape'
  BY <1>1, <1>2, <1>3 DEF DeskShape
<1>5. desk'[job] = "answered" /\ Elsewhere(job)
  BY <1>1, <1>2, <1>3 DEF DeskShape, Elsewhere
<1>6. Thanked' /\ HonestPages(bank.notion)'
  BY <1>1, <1>2 DEF Thanked, HonestPages
<1>7. \A a \in llm'[job] : TrueFor(job, a.label, a.text)
  <2>1. llm'[job] = {Given(f, OwnWords[<<job, f.label>>], "llm") : f \in known}
    BY <1>2, <1>3 DEF DeskShape
  <2>2. \A f \in known : f.label \in DOMAIN Says
    BY <1>2 DEF JobInv, HonestEntry
  <2>3. \A f \in known : TrueFor(job, f.label, OwnWords[<<job, f.label>>])
    <3>1. \A label \in DOMAIN Says : TrueFor(job, label, OwnWords[<<job, label>>])
      BY WordsAssumption
    <3> QED BY <2>2, <3>1
  <2>4. \A f : /\ Given(f, OwnWords[<<job, f.label>>], "llm").label = f.label
               /\ Given(f, OwnWords[<<job, f.label>>], "llm").text = OwnWords[<<job, f.label>>]
    BY DEF Given
  <2> QED BY <2>1, <2>3, <2>4, Zenon
<1>8. FormFound(job)' /\ HonestEntry(job)'
  BY <1>1, <1>2, <1>7 DEF JobInv, FormFound, HonestEntry
<1>9. Laid(job)' /\ Filled(job)' /\ Submitted(job)'
  BY <1>1, <1>2, <1>5 DEF JobInv, Laid, Filled, Submitted, OnPage, Clicked
<1> QED BY <1>4, <1>5, <1>6, <1>8, <1>9, OneJob DEF JobInv

-----------------------------------------------------------------------------
(* The steps of submit, to the click *)

\* A job's form in its ATS, as every later step finds it.
LEMMA FormOfJob ==
    ASSUME DeskInv, NEW job \in Jobs, desk[job] \notin {"idle", "ended"}
    PROVE  /\ JobUrl(job).reason = "ok" /\ entry[job].ats = JobUrl(job).at
           /\ version[job] \in 1 .. 2
           /\ \A f, g \in Fields(job, version[job]) : f.id = g.id => f = g
           /\ \A f \in Fields(job, version[job]) : f.type = "file" <=> f.kind = "file"
<1>1. JobUrl(job).reason = "ok" /\ entry[job].ats = JobUrl(job).at /\ version[job] \in 1 .. 2
  BY DEF DeskInv, JobInv, FormFound, DeskShape
<1>2. /\ entry[job].ats \in Adapters
      /\ GoodForm(entry[job].ats, Forms[job][version[job]])
      /\ Fields(job, version[job]) = ReadSchema(entry[job].ats, Forms[job][version[job]])
  BY <1>1, FieldsOfJob
<1>3. \A f, g \in Fields(job, version[job]) : f.id = g.id => f = g
  BY <1>2, FieldsApart
<1>4. \A f \in Fields(job, version[job]) : f.type = "file" <=> f.kind = "file"
  BY <1>2, FieldKinds
<1> QED BY <1>1, <1>3, <1>4

LEMMA OpenFormKeeps ==
    ASSUME DeskInv, NEW job \in Jobs, OpenForm(job)
    PROVE  DeskInv'
<1> DEFINE now == version[job]
           texts == Plan(job, now)
<1>1. /\ UNCHANGED <<bank, entry, llm, version, accepted, mails>>
      /\ UNCHANGED <<bankVars, contextVars, siteVars>> /\ desk[job] = "answered"
  BY DEF OpenForm, bankVars, contextVars, siteVars
<1>2. DeskShape /\ Thanked /\ HonestPages(bank.notion) /\ JobInv(job)
  BY DEF DeskInv
<1>3. \/ Stops(job)
      \/ /\ MissingRequired(texts) = {}
         /\ plan' = [plan EXCEPT ![job] = texts] /\ held' = [held EXCEPT ![job] = Blank(job, now)]
         /\ Move(job, "files") /\ UNCHANGED <<parser, signs>>
  <2> HIDE DEF texts
  <2>1. \/ End(job, "manual", "no_honest_answer") \/ End(job, "manual", "job_closed")
        \/ End(job, "manual", "schema_changed")
        \/ /\ MissingRequired(texts) = {}
           /\ plan' = [plan EXCEPT ![job] = texts]
           /\ held' = [held EXCEPT ![job] = Blank(job, now)]
           /\ Move(job, "files") /\ UNCHANGED <<parser, signs>>
    BY DEF OpenForm, texts
  <2> QED BY <2>1 DEF Stops
<1>4. CASE Stops(job)
  BY <1>1, <1>4, StopKeeps
<1>5. CASE ~Stops(job)
  <2>1. /\ MissingRequired(texts) = {}
        /\ plan' = [plan EXCEPT ![job] = texts] /\ held' = [held EXCEPT ![job] = Blank(job, now)]
        /\ desk' = [desk EXCEPT ![job] = "files"] /\ UNCHANGED <<row, reason, parser, signs>>
    BY <1>3, <1>5 DEF Move
  <2>2. texts = [f \in Fields(job, now) |-> Planned(f, entry[job].answers, llm[job])]
    BY DEF Plan, BuildFillPlan
  <2>3. \A f \in Fields(job, now) : f.required => texts[f] # NoText
    BY <2>1, <2>2 DEF MissingRequired
  <2>4. \A f \in Fields(job, now) :
            texts[f] = Planned(f, entry[job].answers, llm[job]) /\ Fits(f, texts[f])
    <3>1. \A f : Fits(f, NoText)
      BY PickOptionFinds, AnswersAssumption DEF Fits
    <3> QED BY <2>2, <3>1, PlannedFits
  <2> HIDE DEF texts
  <2>5. DeskShape'
    BY <1>1, <1>2, <2>1 DEF DeskShape
  <2>6. /\ desk'[job] = "files" /\ plan'[job] = texts /\ held'[job] = Blank(job, now)
        /\ Elsewhere(job)
    BY <1>1, <1>2, <2>1 DEF DeskShape, Elsewhere
  <2>7. Thanked' /\ HonestPages(bank.notion)'
    BY <1>1, <1>2, <2>1 DEF Thanked, HonestPages
  <2>8. FormFound(job)' /\ HonestEntry(job)' /\ Filled(job)' /\ Submitted(job)'
    BY <1>1, <1>2, <2>1, <2>6 DEF JobInv, FormFound, HonestEntry, Filled, Submitted, Clicked
  <2>9. Laid(job)'
    <3>1. Fields(job, version[job])' = Fields(job, now)
      BY <1>1 DEF Fields
    <3> QED BY <1>1, <2>3, <2>4, <2>6, <3>1 DEF Laid, Blank
  <2> QED BY <2>5, <2>6, <2>7, <2>8, <2>9, OneJob DEF JobInv
<1> QED BY <1>4, <1>5

LEMMA TypeFilesKeeps ==
    ASSUME DeskInv, NEW job \in Jobs, TypeFiles(job)
    PROVE  DeskInv'
<1>1. /\ UNCHANGED <<bank, entry, llm, version, accepted, mails, plan, signs, row, reason>>
      /\ desk[job] = "files" /\ desk' = [desk EXCEPT ![job] = "typing"]
  BY DEF TypeFiles, bankVars, contextVars, siteVars, Move
<1>2. DeskShape /\ Thanked /\ HonestPages(bank.notion) /\ JobInv(job)
  BY DEF DeskInv
<1>3. PICK t \in Typed(job, FileFields(job)) : held' = [held EXCEPT ![job] = t.holds]
  BY DEF TypeFiles, EarlyFields
<1>4. \E p : parser' = [parser EXCEPT ![job] = p]
  BY DEF TypeFiles
<1>5. /\ DOMAIN held[job] = {f.id : f \in Fields(job, version[job])}
      /\ \A f \in Fields(job, version[job]) :
            /\ plan[job][f] = Planned(f, entry[job].answers, llm[job])
            /\ Fits(f, plan[job][f]) /\ (f.required => plan[job][f] # NoText)
  BY <1>1, <1>2 DEF JobInv, Laid, OnPage
<1>6. /\ JobUrl(job).reason = "ok" /\ entry[job].ats = JobUrl(job).at /\ version[job] \in 1 .. 2
      /\ FileFields(job) \subseteq Fields(job, version[job])
  BY <1>1, FormOfJob DEF FileFields
<1>7. /\ DOMAIN t.holds = DOMAIN held[job]
      /\ \A f \in FileFields(job) : plan[job][f] # NoText /\ f.kind \notin Searches =>
            t.holds[f.id] \in {plan[job][f], Empty}
  BY <1>5, <1>6, TypedHolds
<1>8. DeskShape'
  BY <1>1, <1>2, <1>3, <1>4 DEF DeskShape
<1>9. desk'[job] = "typing" /\ held'[job] = t.holds /\ plan'[job] = plan[job] /\ Elsewhere(job)
  BY <1>1, <1>2, <1>3, <1>4 DEF DeskShape, Elsewhere
<1>10. Thanked' /\ HonestPages(bank.notion)'
  BY <1>1, <1>2 DEF Thanked, HonestPages
<1>11. FormFound(job)' /\ HonestEntry(job)' /\ Submitted(job)'
  BY <1>1, <1>2, <1>9 DEF JobInv, FormFound, HonestEntry, Submitted
<1>12. /\ Fields(job, version[job])' = Fields(job, version[job])
       /\ FileFields(job)' = FileFields(job)
  BY <1>1 DEF Fields, FileFields
<1>13. Laid(job)'
  BY <1>1, <1>5, <1>7, <1>9, <1>12 DEF Laid
<1>14. Filled(job)'
  BY <1>5, <1>6, <1>7, <1>9, <1>12 DEF Filled, Exact, Clicked
<1> QED BY <1>8, <1>9, <1>10, <1>11, <1>13, <1>14, OneJob DEF JobInv

\* The parser writes over no file, and after the typing of the rest it is late.
LEMMA ParserDoneKeeps ==
    ASSUME DeskInv, NEW job \in Jobs, ParserDone(job)
    PROVE  DeskInv'
<1> DEFINE all == Fields(job, version[job])
           mine == {f \in all : f.kind = "text" /\ f.type \in ParsedTypes}
<1>1. /\ UNCHANGED <<bank, entry, llm, version, accepted, mails, plan, signs, row, reason, desk>>
      /\ parser[job] \in {"running", "outrun"} /\ desk[job] \in {"typing", "typed", "checked"}
      /\ parser' = [parser EXCEPT ![job] = IF parser[job] = "running" THEN "done" ELSE "late"]
  BY DEF ParserDone, bankVars, contextVars, siteVars, jobVars
<1>2. DeskShape /\ Thanked /\ HonestPages(bank.notion) /\ JobInv(job)
  BY DEF DeskInv
<1>3. PICK h \in Rewritten(job) : held' = [held EXCEPT ![job] = h]
  BY DEF ParserDone
<1>4. PICK text : h = [i \in DOMAIN held[job] |->
                        IF \E f \in mine : f.id = i THEN text ELSE held[job][i]]
  BY DEF Rewritten
<1>5. /\ DOMAIN held[job] = {f.id : f \in all}
      /\ \A f \in all : /\ plan[job][f] = Planned(f, entry[job].answers, llm[job])
                       /\ Fits(f, plan[job][f]) /\ (f.required => plan[job][f] # NoText)
  BY <1>1, <1>2 DEF JobInv, Laid, OnPage
<1>6. /\ \A f, g \in all : f.id = g.id => f = g
      /\ \A f \in all : f.type = "file" <=> f.kind = "file"
  BY <1>1, FormOfJob
<1>7. \A f \in FileFields(job) : h[f.id] = held[job][f.id]
  <2>1. \A f \in FileFields(job) : f \in all /\ f \notin mine
    BY <1>6 DEF FileFields
  <2>2. \A f \in FileFields(job) : f.id \in DOMAIN held[job] /\ ~\E g \in mine : g.id = f.id
    BY <1>5, <1>6, <2>1
  <2> HIDE DEF mine
  <2> QED BY <1>4, <2>2
<1>8. DeskShape'
  BY <1>1, <1>2, <1>3 DEF DeskShape
<1>9. /\ desk'[job] = desk[job] /\ held'[job] = h /\ plan'[job] = plan[job] /\ Elsewhere(job)
      /\ parser'[job] = IF parser[job] = "running" THEN "done" ELSE "late"
  BY <1>1, <1>2, <1>3 DEF DeskShape, Elsewhere
<1>10. Thanked' /\ HonestPages(bank.notion)'
  BY <1>1, <1>2 DEF Thanked, HonestPages
<1>11. FormFound(job)' /\ HonestEntry(job)' /\ Submitted(job)'
  BY <1>1, <1>2, <1>9 DEF JobInv, FormFound, HonestEntry, Submitted
<1>12. Fields(job, version[job])' = all /\ FileFields(job)' = FileFields(job)
  BY <1>1 DEF Fields, FileFields
<1>13. Laid(job)'
  <2>1. DOMAIN h = DOMAIN held[job]
    <3> HIDE DEF mine
    <3> QED BY <1>4
  <2> QED BY <1>1, <1>5, <1>9, <1>12, <2>1 DEF Laid
<1>14. Filled(job)'
  <2>1. CASE parser[job] = "running"
    <3>1. desk[job] = "typing"
      BY <1>1, <1>2, <2>1 DEF JobInv, Filled
    <3>2. \A f \in FileFields(job) : Exact(f) => held[job][f.id] \in {plan[job][f], Empty}
      BY <1>2, <3>1 DEF JobInv, Filled
    <3> QED BY <1>7, <1>9, <1>12, <2>1, <3>1, <3>2 DEF Filled, Clicked
  <2>2. CASE parser[job] # "running"
    <3>1. desk[job] = "typing" =>
            \A f \in FileFields(job) : Exact(f) => held[job][f.id] \in {plan[job][f], Empty}
      BY <1>2 DEF JobInv, Filled
    <3> QED BY <1>7, <1>9, <1>12, <2>2, <3>1 DEF Filled, Clicked
  <2> QED BY <2>1, <2>2
<1> QED BY <1>8, <1>9, <1>10, <1>11, <1>13, <1>14, OneJob DEF JobInv

LEMMA TypeRestKeeps ==
    ASSUME DeskInv, NEW job \in Jobs, TypeRest(job)
    PROVE  DeskInv'
<1> DEFINE all == Fields(job, version[job])
           rest == all \ FileFields(job)
<1>1. /\ UNCHANGED <<bank, entry, llm, version, accepted, mails>>
      /\ UNCHANGED <<bankVars, contextVars, siteVars>> /\ desk[job] = "typing"
  BY DEF TypeRest, bankVars, contextVars, siteVars
<1>2. DeskShape /\ Thanked /\ HonestPages(bank.notion) /\ JobInv(job)
  BY DEF DeskInv
<1>3. PICK t \in Typed(job, rest) :
        \/ Stops(job)
        \/ /\ held' = [held EXCEPT ![job] = t.holds]
           /\ parser' = [parser EXCEPT ![job] = IF @ = "running" THEN "outrun" ELSE @]
           /\ Move(job, "typed") /\ UNCHANGED <<plan, signs>>
  <2>1. PICK t \in Typed(job, rest) :
            IF \E f \in t.failed : f.required THEN End(job, "manual", "fill_error")
            ELSE /\ held' = [held EXCEPT ![job] = t.holds]
                 /\ parser' = [parser EXCEPT ![job] = IF @ = "running" THEN "outrun" ELSE @]
                 /\ Move(job, "typed") /\ UNCHANGED <<plan, signs>>
    BY DEF TypeRest, EarlyFields
  <2> QED BY <2>1 DEF Stops
<1>4. CASE Stops(job)
  BY <1>1, <1>4, StopKeeps
<1>5. CASE ~Stops(job)
  <2>1. /\ held' = [held EXCEPT ![job] = t.holds]
        /\ parser' = [parser EXCEPT ![job] =
                IF parser[job] = "running" THEN "outrun" ELSE parser[job]]
        /\ desk' = [desk EXCEPT ![job] = "typed"] /\ UNCHANGED <<plan, signs, row, reason>>
    BY <1>3, <1>5 DEF Move
  <2>2. /\ DOMAIN held[job] = {f.id : f \in all}
        /\ \A f \in all : /\ plan[job][f] = Planned(f, entry[job].answers, llm[job])
                         /\ Fits(f, plan[job][f]) /\ (f.required => plan[job][f] # NoText)
    BY <1>1, <1>2 DEF JobInv, Laid, OnPage
  <2>3. JobUrl(job).reason = "ok" /\ entry[job].ats = JobUrl(job).at /\ version[job] \in 1 .. 2
    BY <1>1, FormOfJob
  <2>4. FileFields(job) \subseteq all
    BY DEF FileFields
  <2>5. /\ DOMAIN t.holds = DOMAIN held[job]
        /\ \A f \in rest : plan[job][f] # NoText /\ f.kind \notin Searches =>
                t.holds[f.id] \in {plan[job][f], Empty}
        /\ \A f \in all \ rest : t.holds[f.id] = held[job][f.id]
    BY <2>2, <2>3, TypedHolds
  <2>6. \A f \in all : Exact(f) => t.holds[f.id] \in {plan[job][f], Empty}
    <3>1. \A f \in FileFields(job) : Exact(f) => held[job][f.id] \in {plan[job][f], Empty}
      BY <1>1, <1>2 DEF JobInv, Filled
    <3> QED BY <2>2, <2>4, <2>5, <3>1 DEF Exact
  <2>7. DeskShape'
    BY <1>1, <1>2, <2>1 DEF DeskShape
  <2>8. /\ desk'[job] = "typed" /\ held'[job] = t.holds /\ plan'[job] = plan[job]
        /\ parser'[job] # "running" /\ Elsewhere(job)
    BY <1>1, <1>2, <2>1 DEF DeskShape, Elsewhere
  <2>9. Thanked' /\ HonestPages(bank.notion)'
    BY <1>1, <1>2, <2>1 DEF Thanked, HonestPages
  <2>10. FormFound(job)' /\ HonestEntry(job)' /\ Submitted(job)'
    BY <1>1, <1>2, <2>1, <2>8 DEF JobInv, FormFound, HonestEntry, Submitted
  <2>11. Fields(job, version[job])' = all
    BY <1>1 DEF Fields
  <2>12. Laid(job)'
    BY <1>1, <2>2, <2>5, <2>8, <2>11 DEF Laid
  <2>13. Filled(job)'
    BY <2>6, <2>8, <2>11 DEF Filled, Clicked
  <2> QED BY <2>7, <2>8, <2>9, <2>10, <2>12, <2>13, OneJob DEF JobInv
<1> QED BY <1>4, <1>5

\* What is checked holds something wherever the form requires it.
LEMMA CheckKeeps ==
    ASSUME DeskInv, NEW job \in Jobs, Check(job)
    PROVE  DeskInv'
<1> DEFINE all == Fields(job, version[job])
<1>1. /\ UNCHANGED <<bank, entry, llm, version, accepted, mails>>
      /\ UNCHANGED <<bankVars, contextVars, siteVars>> /\ desk[job] = "typed"
  BY DEF Check, bankVars, contextVars, siteVars
<1>2. DeskShape /\ Thanked /\ HonestPages(bank.notion) /\ JobInv(job)
  BY DEF DeskInv
<1>3. Stops(job) \/ (CheckFilled(all, held[job]) = {} /\ Goto(job, "checked"))
  <2>1. \/ End(job, "manual", "presubmit_check")
        \/ CheckFilled(all, held[job]) = {} /\ Goto(job, "checked")
    BY DEF Check
  <2> QED BY <2>1 DEF Stops
<1>4. CASE Stops(job)
  BY <1>1, <1>4, StopKeeps
<1>5. CASE CheckFilled(all, held[job]) = {} /\ Goto(job, "checked")
  <2>1. /\ desk' = [desk EXCEPT ![job] = "checked"]
        /\ UNCHANGED <<plan, held, parser, signs, row, reason>>
    BY <1>5 DEF Goto, Move, pageVars
  <2>2. DeskShape'
    BY <1>1, <1>2, <2>1 DEF DeskShape
  <2>3. desk'[job] = "checked" /\ Elsewhere(job)
    BY <1>1, <1>2, <2>1 DEF DeskShape, Elsewhere
  <2>4. Thanked' /\ HonestPages(bank.notion)'
    BY <1>1, <1>2, <2>1 DEF Thanked, HonestPages
  <2>5. FormFound(job)' /\ HonestEntry(job)' /\ Submitted(job)'
    BY <1>1, <1>2, <2>1, <2>3 DEF JobInv, FormFound, HonestEntry, Submitted
  <2>6. Fields(job, version[job])' = all
    BY <1>1 DEF Fields
  <2>7. Laid(job)'
    BY <1>1, <1>2, <2>1, <2>6 DEF JobInv, Laid, OnPage
  <2>8. Filled(job)'
    <3>1. \A f \in all : f.required => held[job][f.id] # Empty
      BY <1>5 DEF CheckFilled
    <3>2. /\ parser[job] # "running"
          /\ parser[job] \in {"off", "done"} =>
                \A f \in all : Exact(f) => held[job][f.id] \in {plan[job][f], Empty}
      BY <1>1, <1>2 DEF JobInv, Filled
    <3>3. parser[job] \in {"off", "done"} => \A f \in all : Exact(f) => held[job][f.id] = plan[job][f]
      BY <3>1, <3>2 DEF Exact
    <3> QED BY <2>1, <2>3, <2>6, <3>2, <3>3 DEF Filled, Clicked
  <2> QED BY <2>2, <2>3, <2>4, <2>5, <2>7, <2>8, OneJob DEF JobInv
<1> QED BY <1>3, <1>4, <1>5

\* Nothing is typed on a page after its check.
LEMMA SentKeeps ==
    ASSUME DeskInv, NEW job \in Jobs, desk[job] \in {"checked"} \cup Clicked,
           NEW step \in Clicked,
           desk' = [desk EXCEPT ![job] = step] \/ (desk' = desk /\ desk[job] = step),
           UNCHANGED <<bank, entry, llm, version, plan, held, parser, row>>,
           accepted \subseteq accepted', DeskShape', Thanked'
    PROVE  DeskInv'
<1>1. DeskShape /\ HonestPages(bank.notion) /\ JobInv(job)
  BY DEF DeskInv
<1>2. desk'[job] = step /\ Elsewhere(job)
  BY <1>1 DEF DeskShape, Elsewhere
<1>3. FormFound(job)' /\ HonestEntry(job)' /\ Submitted(job)'
  BY <1>1, <1>2 DEF JobInv, FormFound, HonestEntry, Submitted, Clicked
<1>4. /\ Fields(job, version[job])' = Fields(job, version[job])
      /\ FileFields(job)' = FileFields(job)
  BY DEF Fields, FileFields
<1>5. Laid(job)'
  BY <1>1, <1>2, <1>4 DEF JobInv, Laid, OnPage
<1>6. Filled(job)'
  BY <1>1, <1>2, <1>4 DEF JobInv, Filled, Clicked
<1>7. HonestPages(bank.notion)'
  BY <1>1 DEF HonestPages
<1> QED BY <1>2, <1>3, <1>5, <1>6, <1>7, OneJob DEF JobInv

\* A mail that counts for one more click, or whose code is used, is else the
\* same.
LEMMA MailMarked ==
    ASSUME NEW m, IsMail(m), NEW clicks, NEW n,
           \/ n = [m EXCEPT !.after = clicks]
           \/ n = [m EXCEPT !.used = TRUE]
    PROVE  IsMail(n) /\ n.kind = m.kind /\ n.job = m.job
<1> DEFINE was == [kind |-> m.kind, job |-> m.job, after |-> m.after, used |-> m.used,
                   nth |-> m.nth]
<1>1. m = was
  BY Zenon DEF IsMail
<1>2. n = [was EXCEPT !.after = clicks] \/ n = [was EXCEPT !.used = TRUE]
  BY <1>1, Zenon
<1> QED BY <1>2 DEF IsMail

LEMMA ClickKeeps ==
    ASSUME DeskInv, NEW job \in Jobs, Click(job)
    PROVE  DeskInv'
<1>1. /\ UNCHANGED <<bank, entry, llm, version, accepted, plan, held, parser, signs, row, reason>>
      /\ desk[job] = "checked" /\ desk' = [desk EXCEPT ![job] = "waiting"]
  BY DEF Click, bankVars, contextVars, Goto, Move, pageVars
<1>2. DeskShape /\ Thanked
  BY DEF DeskInv
<1> DEFINE mark(m) == [m EXCEPT !.after = @ \cup {job}]
<1>3. PICK recent \in SUBSET mails :
        mails' = {IF m \in recent THEN mark(m) ELSE m : m \in mails}
  BY DEF Click
<1>4. \A m \in mails : IsMail(mark(m)) /\ mark(m).kind = m.kind /\ mark(m).job = m.job
  BY <1>2, MailMarked DEF DeskShape
<1> HIDE DEF mark
<1>5. \A n \in mails' : IsMail(n) /\ \E m \in mails : n.kind = m.kind /\ n.job = m.job
  BY <1>2, <1>3, <1>4 DEF DeskShape
<1>6. DeskShape'
  BY <1>1, <1>2, <1>5 DEF DeskShape
<1>7. Thanked'
  BY <1>1, <1>2, <1>5 DEF Thanked
<1> QED BY <1>1, <1>6, <1>7, SentKeeps DEF Clicked

-----------------------------------------------------------------------------
(* After the click *)

LEMMA NotConfirmedKeeps ==
    ASSUME DeskInv, NEW job \in Jobs, NEW why, NotConfirmed(job, why), desk[job] \in Clicked,
           UNCHANGED <<bankVars, contextVars, siteVars>>
    PROVE  DeskInv'
<1>1. \/ Stops(job)
      \/ /\ desk' = [desk EXCEPT ![job] = "mail"] /\ reason' = [reason EXCEPT ![job] = why]
         /\ UNCHANGED <<row, pageVars>>
  BY DEF NotConfirmed, Stops
<1>2. CASE Stops(job)
  BY <1>2, StopKeeps
<1>3. CASE /\ desk' = [desk EXCEPT ![job] = "mail"] /\ reason' = [reason EXCEPT ![job] = why]
           /\ UNCHANGED <<row, pageVars>>
  <2>1. UNCHANGED <<bank, entry, llm, version, accepted, mails, plan, held, parser, signs, row>>
    BY <1>3 DEF bankVars, contextVars, siteVars, pageVars
  <2>2. DeskShape' /\ Thanked'
    BY <1>3, <2>1 DEF DeskInv, DeskShape, Thanked
  <2> QED BY <1>3, <2>1, <2>2, SentKeeps DEF Clicked
<1> QED BY <1>1, <1>2, <1>3

LEMMA LookKeeps ==
    ASSUME DeskInv, NEW job \in Jobs, Look(job)
    PROVE  DeskInv'
<1> DEFINE seen == WaitForOutcome(signs[job], Ignored(job))
<1>1. UNCHANGED <<bankVars, contextVars, siteVars>> /\ desk[job] \in {"waiting", "resent"}
  BY DEF Look
<1>2. \/ seen = "ok" /\ End(job, "submitted", "")
      \/ Goto(job, "code")
      \/ NotConfirmed(job, Refused(job, seen))
  <2> HIDE DEF seen
  <2> QED BY DEF Look, seen
<1>3. CASE seen = "ok" /\ End(job, "submitted", "")
  <2>1. "thanks" \in signs[job]
    BY <1>3 DEF WaitForOutcome, DetectBlocker
  <2>2. job \in accepted
    BY <2>1 DEF DeskInv, Thanked
  <2> QED BY <1>1, <1>3, <2>2, EndKeeps
<1>4. CASE Goto(job, "code")
  <2>1. /\ UNCHANGED <<bank, entry, llm, version, accepted, mails, plan, held, parser, signs, row>>
        /\ desk' = [desk EXCEPT ![job] = "code"] /\ UNCHANGED reason
    BY <1>1, <1>4 DEF bankVars, contextVars, siteVars, pageVars, Goto, Move
  <2>2. DeskShape' /\ Thanked'
    BY <2>1 DEF DeskInv, DeskShape, Thanked
  <2> QED BY <1>1, <2>1, <2>2, SentKeeps DEF Clicked
<1>5. CASE NotConfirmed(job, Refused(job, seen))
  BY <1>1, <1>5, NotConfirmedKeeps DEF Clicked
<1> QED BY <1>2, <1>3, <1>4, <1>5

LEMMA DeadlineKeeps ==
    ASSUME DeskInv, NEW job \in Jobs, Deadline(job)
    PROVE  DeskInv'
<1>1. /\ NotConfirmed(job, Refused(job, "no_confirmation")) /\ desk[job] \in Clicked
      /\ UNCHANGED <<bankVars, contextVars, siteVars>>
  BY DEF Deadline, Clicked
<1> QED BY <1>1, NotConfirmedKeeps

LEMMA EnterCodeKeeps ==
    ASSUME DeskInv, NEW job \in Jobs, EnterCode(job)
    PROVE  DeskInv'
<1>1. /\ UNCHANGED <<bank, entry, llm, version, plan, held, parser, row, reason>>
      /\ desk[job] = "code" /\ desk' = [desk EXCEPT ![job] = "resent"]
  BY DEF EnterCode, bankVars, contextVars, Move
<1>2. DeskShape /\ Thanked
  BY DEF DeskInv
<1>3. PICK m \in mails :
        /\ mails' = (mails \ {m}) \cup {[m EXCEPT !.used = TRUE]}
        /\ \/ /\ accepted' = accepted \cup {job}
              /\ \E after : signs' = [signs EXCEPT ![job] = after]
           \/ UNCHANGED <<accepted, signs>>
  BY DEF EnterCode, CodeMails
<1> DEFINE read == [m EXCEPT !.used = TRUE]
<1>4. IsMail(read) /\ read.kind = m.kind /\ read.job = m.job
  BY <1>2, MailMarked DEF DeskShape
<1>5. mails' = (mails \ {m}) \cup {read}
  BY <1>3
<1> HIDE DEF read
<1>6. DeskShape'
  BY <1>1, <1>2, <1>3, <1>4, <1>5 DEF DeskShape
<1>7. Thanked' /\ accepted \subseteq accepted'
  BY <1>2, <1>3, <1>4, <1>5 DEF Thanked, DeskShape
<1> QED BY <1>1, <1>6, <1>7, SentKeeps DEF Clicked

\* A confirmation is some job's whose company has the same name.
LEMMA ReadMailKeeps ==
    ASSUME DeskInv, NEW job \in Jobs, ReadMail(job)
    PROVE  DeskInv'
<1>1. PICK m \in mails : Confirmation(job, m)
  BY DEF ReadMail
<1>2. m.job \in accepted /\ Company[m.job] = Company[job]
  BY <1>1 DEF DeskInv, Thanked, Confirmation, Recent
<1>3. End(job, "submitted", "") /\ UNCHANGED <<bankVars, contextVars, siteVars>>
  BY DEF ReadMail
<1> QED BY <1>2, <1>3, EndKeeps

\* The other ends.
LEMMA StopsKeep ==
    ASSUME DeskInv, NEW job \in Jobs, ReadBlocked(job) \/ CodeLost(job) \/ NoMail(job)
    PROVE  DeskInv'
<1>1. Stops(job) /\ UNCHANGED <<bankVars, contextVars, siteVars>>
  BY DEF ReadBlocked, CodeLost, NoMail, Stops
<1> QED BY <1>1, StopKeeps

-----------------------------------------------------------------------------
(* The bank, the owner, the employer and the ATS *)

\* What the language model answered is true, so its page may be kept.
LEMMA PushAnswerKeeps ==
    ASSUME DeskInv, NEW job \in Jobs, Push(job)
    PROVE  DeskInv'
<1>1. UNCHANGED <<desk, reason, row, entry, llm, plan, held, parser, signs, version, accepted, mails>>
  BY DEF Push, jobVars, contextVars, pageVars, siteVars
<1>2. DeskShape /\ Thanked /\ HonestPages(bank.notion) /\ JobInv(job)
  BY DEF DeskInv
<1>3. PICK a \in llm[job], p \in Pages, up \in BOOLEAN :
        /\ p.job = job /\ p.label = a.label /\ p.text = a.text
        /\ bank' = [notion |-> IF up THEN bank.notion \cup {p} ELSE bank.notion,
                    backup |-> bank.backup \cup {p}]
  BY DEF Push
<1>4. TrueFor(p.job, p.label, p.text)
  BY <1>2, <1>3 DEF JobInv, HonestEntry
<1>5. bank'.notion \subseteq bank.notion \cup {p}
  BY <1>3
<1>6. HonestPages(bank.notion)'
  BY <1>2, <1>4, <1>5 DEF HonestPages
<1>7. DeskShape' /\ Thanked' /\ Elsewhere(job)
  BY <1>1, <1>2 DEF DeskShape, Thanked, Elsewhere
<1>8. Fields(job, version[job])' = Fields(job, version[job]) /\ FileFields(job)' = FileFields(job)
  BY <1>1 DEF Fields, FileFields
<1>9. FormFound(job)' /\ HonestEntry(job)' /\ Laid(job)' /\ Filled(job)' /\ Submitted(job)'
  BY <1>1, <1>2, <1>8 DEF JobInv, FormFound, HonestEntry, Laid, Filled, Submitted
<1> QED BY <1>6, <1>7, <1>9, OneJob DEF JobInv

\* The form and the posting change before the form is opened, or not at all.
LEMMA EmployerKeeps ==
    ASSUME DeskInv, NEW job \in Jobs, Edit(job) \/ Close(job)
    PROVE  DeskInv'
<1>1. /\ UNCHANGED <<bank, desk, reason, row, entry, llm, plan, held, parser, signs, accepted, mails>>
      /\ desk[job] \in BeforeOpening
  BY DEF Edit, Close, bankVars, jobVars, contextVars, pageVars
<1>2. DeskShape /\ Thanked /\ HonestPages(bank.notion) /\ JobInv(job)
  BY DEF DeskInv
<1>3. version' = version \/ version' = [version EXCEPT ![job] = 2]
  BY DEF Edit, Close
<1>4. DeskShape' /\ Thanked' /\ HonestPages(bank.notion)' /\ Elsewhere(job)
  BY <1>1, <1>2, <1>3 DEF DeskShape, Thanked, HonestPages, Elsewhere
<1>5. FormFound(job)' /\ HonestEntry(job)' /\ Submitted(job)'
  BY <1>1, <1>2 DEF JobInv, FormFound, HonestEntry, Submitted
<1>6. Laid(job)' /\ Filled(job)'
  BY <1>1, <1>2 DEF JobInv, Laid, Filled, OnPage, Clicked, BeforeOpening
<1> QED BY <1>4, <1>5, <1>6, OneJob DEF JobInv

LEMMA RespondKeeps ==
    ASSUME DeskInv, NEW job \in Jobs, Respond(job)
    PROVE  DeskInv'
<1>1. /\ UNCHANGED <<bank, desk, reason, row, entry, llm, plan, held, parser, version>>
      /\ desk[job] = "waiting"
  BY DEF Respond, bankVars, jobVars, contextVars
<1>2. DeskShape /\ Thanked
  BY DEF DeskInv
<1>3. PICK page : /\ signs' = [signs EXCEPT ![job] = page]
                  /\ \/ accepted' = accepted \cup {job} /\ UNCHANGED mails
                     \/ /\ "thanks" \notin page /\ UNCHANGED accepted
                        /\ UNCHANGED mails \/ mails' = mails \cup {Mail("code", job)}
  BY DEF Respond
<1>4. IsMail(Mail("code", job)) /\ Mail("code", job).kind = "code"
  BY DEF IsMail, Mail
<1>5. DeskShape'
  BY <1>1, <1>2, <1>3, <1>4 DEF DeskShape
<1>6. Thanked' /\ accepted \subseteq accepted'
  BY <1>2, <1>3, <1>4 DEF Thanked, DeskShape
<1> QED BY <1>1, <1>5, <1>6, SentKeeps DEF Clicked

LEMMA ThankYouKeeps ==
    ASSUME DeskInv, NEW job \in Jobs, ThankYou(job)
    PROVE  DeskInv'
<1>1. /\ UNCHANGED <<bank, desk, reason, row, entry, llm, plan, held, parser, signs, version, accepted>>
      /\ job \in accepted /\ mails' = mails \cup {Mail("thanks", job)}
  BY DEF ThankYou, bankVars, jobVars, contextVars, pageVars
<1>2. DeskShape /\ Thanked /\ HonestPages(bank.notion) /\ JobInv(job)
  BY DEF DeskInv
<1>3. IsMail(Mail("thanks", job)) /\ Mail("thanks", job).job = job
  BY DEF IsMail, Mail
<1>4. DeskShape' /\ Thanked' /\ HonestPages(bank.notion)' /\ Elsewhere(job)
  BY <1>1, <1>2, <1>3 DEF DeskShape, Thanked, HonestPages, Elsewhere
<1>5. Fields(job, version[job])' = Fields(job, version[job]) /\ FileFields(job)' = FileFields(job)
  BY <1>1 DEF Fields, FileFields
<1>6. FormFound(job)' /\ HonestEntry(job)' /\ Laid(job)' /\ Filled(job)' /\ Submitted(job)'
  BY <1>1, <1>2, <1>5 DEF JobInv, FormFound, HonestEntry, Laid, Filled, Submitted
<1> QED BY <1>4, <1>6, OneJob DEF JobInv

\* A step that touches no more than the ratings and the postings.
LEMMA SameDesk ==
    ASSUME DeskInv,
           UNCHANGED <<bank, desk, reason, row, entry, llm, plan, held, parser, signs, version,
                       accepted, mails>>
    PROVE  DeskInv'
<1>1. DeskShape' /\ Thanked' /\ HonestPages(bank.notion)'
  BY DEF DeskInv, DeskShape, Thanked, HonestPages
<1>2. ASSUME NEW job \in Jobs
      PROVE  JobInv(job)'
  <2>1. JobInv(job)
    BY DEF DeskInv
  <2>2. Fields(job, version[job])' = Fields(job, version[job]) /\ FileFields(job)' = FileFields(job)
    BY DEF Fields, FileFields
  <2> QED BY <2>1, <2>2 DEF JobInv, FormFound, HonestEntry, Laid, Filled, Submitted
<1> QED BY <1>1, <1>2 DEF DeskInv

-----------------------------------------------------------------------------
(* The theorems *)

LEMMA DeskStarts == DeskInit => DeskInv
<1> SUFFICES ASSUME DeskInit
             PROVE  DeskInv
  OBVIOUS
<1>1. DeskShape
  <2>1. \A job \in Jobs : entry[job] = NoEntry
    BY DEF DeskInit
  <2>2. \A job \in Jobs :
            entry[job] = [ats |-> entry[job].ats, answers |-> entry[job].answers,
                          unanswered |-> entry[job].unanswered, version |-> entry[job].version]
    BY <2>1 DEF NoEntry
  <2>3. /\ DOMAIN desk = Jobs /\ DOMAIN reason = Jobs /\ DOMAIN row = Jobs
        /\ DOMAIN entry = Jobs /\ DOMAIN llm = Jobs /\ DOMAIN plan = Jobs /\ DOMAIN held = Jobs
        /\ DOMAIN parser = Jobs /\ DOMAIN signs = Jobs /\ accepted = {} /\ mails = {}
    BY DEF DeskInit
  <2>4. version \in [Jobs -> 1 .. 2]
    <3>1. version = [j \in Jobs |-> 1]
      BY DEF DeskInit
    <3> QED BY <3>1
  <2> QED BY <2>2, <2>3, <2>4 DEF DeskShape
<1>4. Thanked
  BY DEF DeskInit, Thanked
<1>2. HonestPages(bank.notion)
  BY BankAssumption DEF DeskInit, HonestPages
<1>3. ASSUME NEW job \in Jobs
      PROVE  JobInv(job)
  <2>1. /\ desk[job] = "idle" /\ row[job] = "To Apply" /\ parser[job] = "off"
        /\ entry[job].answers = {} /\ entry[job].unanswered = {} /\ llm[job] = {}
    BY DEF DeskInit, NoEntry
  <2> QED BY <2>1 DEF JobInv, FormFound, HonestEntry, Laid, Filled, Submitted, OnPage, Clicked
<1> QED BY <1>1, <1>2, <1>3, <1>4 DEF DeskInv

LEMMA DeskSteps == DeskInv /\ [DeskNext]_deskVars => DeskInv'
<1> SUFFICES ASSUME DeskInv, [DeskNext]_deskVars
             PROVE  DeskInv'
  OBVIOUS
<1>1. ASSUME NEW job \in Jobs, Pre(job)
      PROVE  DeskInv'
  BY <1>1, FindFormKeeps, ReadFormKeeps, StopsKeep, AnswerRestKeeps DEF Pre
<1>2. ASSUME NEW job \in Jobs, OpenForm(job)
      PROVE  DeskInv'
  BY <1>2, OpenFormKeeps
<1>3. ASSUME NEW job \in Jobs, Submit(job)
      PROVE  DeskInv'
  <2>1. CASE TypeFiles(job) \/ TypeRest(job) \/ Check(job) \/ Click(job)
    BY <2>1, TypeFilesKeeps, TypeRestKeeps, CheckKeeps, ClickKeeps
  <2>2. CASE Look(job) \/ Deadline(job) \/ EnterCode(job) \/ ReadMail(job)
    BY <2>2, LookKeeps, DeadlineKeeps, EnterCodeKeeps, ReadMailKeeps
  <2>3. CASE CodeLost(job) \/ NoMail(job)
    BY <2>3, StopsKeep
  <2> QED BY <1>3, <2>1, <2>2, <2>3 DEF Submit
<1>4. ASSUME NEW job \in Jobs, Ats(job)
      PROVE  DeskInv'
  BY <1>4, ParserDoneKeeps, EmployerKeeps, RespondKeeps, ThankYouKeeps DEF Ats
<1>5. ASSUME NEW job \in Jobs, Push(job)
      PROVE  DeskInv'
  BY <1>5, PushAnswerKeeps
<1>6. ASSUME NEW p \in Pages, Rate(p)
      PROVE  DeskInv'
  <2>1. UNCHANGED <<bank, desk, reason, row, entry, llm, plan, held, parser, signs, version,
                    accepted, mails>>
    BY <1>6 DEF Rate, jobVars, contextVars, pageVars, siteVars
  <2> QED BY <2>1, SameDesk
<1>7. CASE UNCHANGED deskVars
  <2>1. UNCHANGED <<bank, desk, reason, row, entry, llm, plan, held, parser, signs, version,
                    accepted, mails>>
    BY <1>7 DEF deskVars, bankVars, jobVars, contextVars, pageVars, siteVars
  <2> QED BY <2>1, SameDesk
<1> QED BY <1>1, <1>2, <1>3, <1>4, <1>5, <1>6, <1>7 DEF DeskNext

\* The invariant of the forms on the desk.
THEOREM DeskInductive == DeskSpec => []DeskInv
<1> QED BY DeskStarts, DeskSteps, PTL DEF DeskSpec

\* Every answer pre takes from the applicant's facts and from the bank is true
\* of the question it answers, whatever the options, the ratings and the pages of
\* the bank, but for a fact given to a question that mixes topics: preparePreJob
\* never offers to one employer what was written about another.
THEOREM DeskAnswersHonest == DeskSpec => []AnswersHonest
<1>1. DeskInv => AnswersHonest
  BY DEF DeskInv, JobInv, HonestEntry, HonestAnswer, AnswersHonest
<1> QED BY <1>1, DeskInductive, PTL

\* An edit of a form leaves each id with its question.
StableIds ==
    \A job \in Jobs, u \in 1 .. 2, v \in 1 .. 2 :
        \A c \in Forms[job][u], d \in Forms[job][v] : c.id = d.id => c.label = d.label

\* Every text laid on an open form is true of the question the form then asks,
\* unless the question mixes topics.
PlansHonest ==
    \A job \in Jobs : desk[job] \in OnPage =>
        \A f \in Fields(job, version[job]) :
            \/ plan[job][f] = NoText \/ MixesTopics(f.label)
            \/ TrueFor(job, f.label, plan[job][f])

LEMMA PlannedTrue ==
    ASSUME NEW job, NEW f, NEW answers, NEW said,
           \A a \in answers : HonestAnswer(job, a), ~MixesTopics(f.label),
           \A a \in said : TrueFor(job, a.label, a.text),
           \A a \in answers : a.id = f.id => a.label = f.label,
           Planned(f, answers, said) # NoText
    PROVE  TrueFor(job, f.label, Planned(f, answers, said))
<1> DEFINE byId    == {a \in answers : a.id = f.id}
           byLabel == {a \in answers : a.label = f.label}
           byModel == {a \in said : a.label = f.label}
           chosen  == IF byId # {} THEN byId ELSE IF byLabel # {} THEN byLabel ELSE byModel
           fitted(t) == IF ~IsChoice(f) \/ ~HasOptions(f) THEN t
                        ELSE IF PickOption(f.options, t) = NoText /\ f.partial THEN t
                        ELSE PickOption(f.options, t)
           texts == {fitted(a.text) : a \in chosen}
           v == Planned(f, answers, said)
<1>1. v = IF texts = {} THEN NoText ELSE CHOOSE t \in texts : TRUE
  BY DEF Planned
<1>2. \A a \in chosen : TrueFor(job, f.label, a.text)
  BY DEF HonestAnswer
<1>3. \A t : fitted(t) = t \/ fitted(t) = PickOption(f.options, t)
  OBVIOUS
<1> HIDE DEF chosen, fitted, v
<1>4. PICK a \in chosen : v = fitted(a.text)
  <2>1. v \in texts
    BY <1>1 DEF v
  <2> QED BY <2>1
<1>5. v # NoText
  BY DEF v
<1>6. v = a.text \/ Means[v] \in {"-", Means[a.text]}
  BY <1>3, <1>4, <1>5, PickOptionSays
<1> QED BY <1>2, <1>6 DEF TrueFor, v

\* From the facts, the bank and the language model to the page: where edits of
\* a form keep its ids, no text planned for a control (buildFillPlan, by id
\* first) is untrue of the question it stands under, unless that mixes topics.
THEOREM DeskPlansHonest == ASSUME StableIds PROVE DeskSpec => []PlansHonest
<1>1. DeskInv => PlansHonest
  <2> SUFFICES ASSUME DeskInv, NEW job \in Jobs, desk[job] \in OnPage,
                      NEW f \in Fields(job, version[job]), plan[job][f] # NoText,
                      ~MixesTopics(f.label)
               PROVE  TrueFor(job, f.label, plan[job][f])
    BY DEF PlansHonest
  <2>1. HonestEntry(job) /\ plan[job][f] = Planned(f, entry[job].answers, llm[job])
    BY DEF DeskInv, JobInv, Laid
  <2>2. \E c \in Forms[job][version[job]] : c.id = f.id /\ c.label = f.label
    <3>1. /\ JobUrl(job).reason = "ok" /\ entry[job].ats = JobUrl(job).at
          /\ version[job] \in 1 .. 2
      BY FormOfJob DEF OnPage, Clicked
    <3>2. /\ entry[job].ats \in Adapters /\ GoodForm(entry[job].ats, Forms[job][version[job]])
          /\ f \in ReadSchema(entry[job].ats, Forms[job][version[job]])
      BY <3>1, FieldsOfJob
    <3> QED BY <3>2, FieldOfControl
  <2>3. version[job] \in 1 .. 2
    BY DEF DeskInv, DeskShape
  <2>4. \A a \in entry[job].answers : a.id = f.id => a.label = f.label
    BY <2>1, <2>2, <2>3 DEF HonestEntry, Asked, StableIds
  <2>5. /\ \A a \in entry[job].answers : HonestAnswer(job, a)
        /\ \A a \in llm[job] : TrueFor(job, a.label, a.text)
    BY <2>1 DEF HonestEntry
  <2> QED BY <2>1, <2>4, <2>5, PlannedTrue
<1> QED BY <1>1, DeskInductive, PTL

\* At the click every required control that is not picked from a search holds
\* the text planned for it, on a form of any controls, unless Lever's parser
\* outlived the wait for it (submitOne, fillPlan, checkFilled).
THEOREM DeskSentAsPlanned == DeskSpec => []SentAsPlanned
<1>1. DeskInv => SentAsPlanned
  <2> SUFFICES ASSUME DeskInv, NEW job \in ClickedJobs, parser[job] \in {"off", "done"},
                      NEW f \in Fields(job, version[job]),
                      f.required, f.kind \notin {"async-select", "location", "combo"}
               PROVE  held[job][f.id] = plan[job][f]
    BY DEF SentAsPlanned
  <2>1. job \in Jobs /\ desk[job] \in Clicked
    BY DEF ClickedJobs
  <2>2. Filled(job) /\ Exact(f)
    BY <2>1 DEF DeskInv, JobInv, Exact, Searches
  <2> QED BY <2>1, <2>2 DEF Filled
<1> QED BY <1>1, DeskInductive, PTL

\* A row says submitted only for a company that has an application of this
\* applicant: a confirmation is known by the first word of its company's name
\* (recordOutcome).
SubmittedToCompany == \A job \in Jobs : Submitted(job)

THEOREM DeskSubmittedToCompany == DeskSpec => []SubmittedToCompany
<1>1. DeskInv => SubmittedToCompany
  BY DEF DeskInv, JobInv, SubmittedToCompany
<1> QED BY <1>1, DeskInductive, PTL

\* Where no two jobs are of one company, what the run thanks_mail refutes holds:
\* that shared first word is the only way a row says submitted for a form that
\* the employer does not have.
THEOREM DeskSubmittedWasAccepted ==
    ASSUME \A j, k \in Jobs : Company[j] = Company[k] => j = k
    PROVE  DeskSpec => []SubmittedWasAccepted
<1>1. DeskInv => SubmittedWasAccepted
  BY DEF DeskInv, DeskShape, JobInv, Submitted, SubmittedWasAccepted
<1> QED BY <1>1, DeskInductive, PTL
=============================================================================
