----------------------------- MODULE ScanProofs -----------------------------
(***************************************************************************)
(* Proofs about Scan, for any profiles, targets, postings, roles and       *)
(* adapters, any number of scans at once, deaths and boards that change.   *)
(* First what becomes of the postings that were read, whatever was; then   *)
(* that the adapters read all there is.                                    *)
(***************************************************************************)
EXTENDS Scan, FiniteSetTheorems, SequenceTheorems, TLAPS

Distinct(jobs) == \A i, j \in jobs : Role[i] = Role[j] => i = j

\* What PooledHasRow says of one posting.
Accounted(j) ==
    \/ \E p \in Profiles : Role[j] \in Roles(RowsOf(p))
    \/ \E p \in Profiles : proc[p].pc = "ledger" /\ j \in proc[p].fresh
    \/ Role[j] \in Roles(cut)

Scanning(x) == [pc |-> x.pc, pool |-> x.pool, readings |-> x.readings, fresh |-> x.fresh]

\* Scans and ledgers are records and functions of the profiles.
Shape ==
    /\ proc = [p \in Profiles |-> Scanning(proc[p])]
    /\ ledger = [p \in Profiles |-> ledger[p]]

\* The pool, and what a scan is about to write over it, have a role once.
PoolsDistinct ==
    /\ Distinct(pool)
    /\ \A p \in Profiles : Distinct(proc[p].pool \cup proc[p].fresh)

\* A scan may put back the pool it loaded: its postings stay accounted for.
SnapshotsAccounted == \A p \in Profiles : \A j \in proc[p].pool : Accounted(j)

IInv == Shape /\ PoolsDistinct /\ SnapshotsAccounted /\ OneRowPerRole /\ PooledHasRow

-----------------------------------------------------------------------------
(* The helpers *)

OnePerRole(rows) == \A x, y \in rows : Role[x.job] = Role[y.job] => x = y

\* Of a batch and a pool, the fresh postings have roles of their own.
LEMMA FreshDistinct ==
    ASSUME NEW collected, NEW pooled, Distinct(pooled)
    PROVE  Distinct(pooled \cup Fresh(collected, pooled))
<1> DEFINE first(role) == CHOOSE i \in DOMAIN collected :
                              /\ Role[collected[i]] = role
                              /\ \A n \in 1 .. i - 1 : Role[collected[n]] # role
<1>1. \A j \in Fresh(collected, pooled) :
         Role[j] \notin Roles(pooled) /\ j = collected[first(Role[j])]
  BY DEF Fresh
<1>2. \A j \in pooled : Role[j] \in Roles(pooled)
  BY DEF Roles
<1> HIDE DEF first
<1> QED BY <1>1, <1>2 DEF Distinct

\* appendNew keeps the rows, adds one for each role, and none twice.
LEMMA AppendedDoes ==
    ASSUME NEW rows, NEW jobs, NEW status
    PROVE  /\ rows \subseteq Appended(rows, jobs, status)
           /\ \A j \in jobs : \E row \in Appended(rows, jobs, status) : Role[row.job] = Role[j]
           /\ OnePerRole(rows) /\ Distinct(jobs) => OnePerRole(Appended(rows, jobs, status))
<1> DEFINE new == {k \in jobs : \A row \in rows : Role[row.job] # Role[k]}
<1>1. Appended(rows, jobs, status) = rows \cup {[job |-> j, status |-> status] : j \in new}
  BY DEF Appended
<1>2. ASSUME NEW j \in jobs
      PROVE  \E row \in Appended(rows, jobs, status) : Role[row.job] = Role[j]
  <2>1. CASE j \in new
    <3>1. [job |-> j, status |-> status] \in Appended(rows, jobs, status)
      BY <1>1, <2>1
    <3>2. [job |-> j, status |-> status].job = j
      OBVIOUS
    <3> QED BY <3>1, <3>2
  <2>2. CASE j \notin new
    BY <1>1, <2>2
  <2> QED BY <2>1, <2>2
<1>3. ASSUME OnePerRole(rows), Distinct(jobs),
             NEW x \in Appended(rows, jobs, status), NEW y \in Appended(rows, jobs, status),
             Role[x.job] = Role[y.job]
      PROVE  x = y
  <2>1. \A z \in Appended(rows, jobs, status) :
           z \in rows \/ \E j \in new : z = [job |-> j, status |-> status] /\ z.job = j
    BY <1>1
  <2> QED BY <1>3, <2>1 DEF OnePerRole, Distinct
<1> QED BY <1>1, <1>2, <1>3 DEF OnePerRole

\* filterJobs leaves each fresh posting's role a row.
LEMMA FreshGetRows ==
    ASSUME NEW p, NEW rows, NEW fresh
    PROVE  /\ rows \subseteq WithFresh(p, rows, fresh)
           /\ \A j \in fresh : \E row \in WithFresh(p, rows, fresh) : Role[row.job] = Role[j]
           /\ OnePerRole(rows) /\ Distinct(fresh) => OnePerRole(WithFresh(p, rows, fresh))
<1> DEFINE passed == {j \in fresh : Role[j] \notin Rejects[p]}
           kept == Appended(rows, passed, "Inbox")
<1>1. WithFresh(p, rows, fresh) = Appended(kept, fresh \ passed, "Archived")
  BY DEF WithFresh
<1>2. Distinct(fresh) => Distinct(passed) /\ Distinct(fresh \ passed)
  BY DEF Distinct
<1>3. /\ rows \subseteq kept
      /\ \A j \in passed : \E row \in kept : Role[row.job] = Role[j]
      /\ OnePerRole(rows) /\ Distinct(passed) => OnePerRole(kept)
  BY AppendedDoes
<1> HIDE DEF kept, passed
<1>4. /\ kept \subseteq Appended(kept, fresh \ passed, "Archived")
      /\ \A j \in fresh \ passed :
            \E row \in Appended(kept, fresh \ passed, "Archived") : Role[row.job] = Role[j]
      /\ OnePerRole(kept) /\ Distinct(fresh \ passed)
            => OnePerRole(Appended(kept, fresh \ passed, "Archived"))
  BY AppendedDoes
<1> QED BY <1>1, <1>2, <1>3, <1>4

-----------------------------------------------------------------------------
(* The steps *)

\* Postings stay accounted for while ledgers and the cut grow and no scan
\* leaves its second write.
LEMMA StaysAccounted ==
    ASSUME NEW j, Accounted(j),
           \A p \in Profiles : ledger[p] \subseteq ledger'[p],
           cut \subseteq cut',
           \A p \in Profiles : proc[p].pc = "ledger" =>
               proc'[p].pc = "ledger" /\ proc'[p].fresh = proc[p].fresh
    PROVE  Accounted(j)'
BY DEF Accounted, Roles, RowsOf

THEOREM Initially == Init => IInv
<1> SUFFICES ASSUME Init PROVE IInv
  OBVIOUS
<1>1. \A p \in Profiles : proc[p] = Idle /\ ledger[p] = {}
  BY DEF Init
<1>2. Idle.pool = {} /\ Idle.fresh = {} /\ Idle = Scanning(Idle)
  BY DEF Idle, Scanning
<1>3. Shape
  BY <1>2 DEF Shape, Init
<1>4. PoolsDistinct /\ SnapshotsAccounted
  BY <1>1, <1>2 DEF PoolsDistinct, SnapshotsAccounted, Distinct, Init
<1>5. OneRowPerRole /\ PooledHasRow
  BY <1>1 DEF OneRowPerRole, PooledHasRow, Init
<1> QED BY <1>3, <1>4, <1>5 DEF IInv

\* A step that only moves one scan, to a snapshot that is accounted for.
LEMMA ScanMoves ==
    ASSUME IInv, NEW p \in Profiles, NEW s,
           proc' = [proc EXCEPT ![p] = s], UNCHANGED <<pool, ledger, cut>>,
           s = Scanning(s), proc[p].pc # "ledger", s.pc # "ledger",
           Distinct(s.pool \cup s.fresh),
           s.pool \subseteq proc[p].pool \/ s.pool = pool
    PROVE  IInv'
<1>1. \A q \in Profiles : proc'[q] = IF q = p THEN s ELSE proc[q]
  BY DEF IInv, Shape
<1>2. Shape'
  BY <1>1 DEF IInv, Shape, Scanning
<1>3. PoolsDistinct'
  BY <1>1 DEF IInv, PoolsDistinct, Distinct
<1>4. \A j : Accounted(j) => Accounted(j)'
  BY <1>1, StaysAccounted
<1>5. \A j \in pool : Accounted(j)
  BY DEF IInv, PooledHasRow, Accounted
<1>6. SnapshotsAccounted' /\ \A j \in pool' : Accounted(j)'
  BY <1>1, <1>4, <1>5 DEF IInv, SnapshotsAccounted
<1>7. PooledHasRow' /\ OneRowPerRole'
  BY <1>6 DEF IInv, PooledHasRow, Accounted, OneRowPerRole, RowsOf
<1> QED BY <1>2, <1>3, <1>6, <1>7 DEF IInv

LEMMA StartKeeps ==
    ASSUME IInv, NEW p \in Profiles, Start(p) PROVE IInv'
<1>1. PICK readings :
         proc' = [proc EXCEPT ![p] =
                    [pc |-> "fetch", pool |-> pool, fresh |-> {}, readings |-> readings]]
  BY DEF Start
<1> DEFINE s == [pc |-> "fetch", pool |-> pool, fresh |-> {}, readings |-> readings]
<1>2. s = Scanning(s) /\ s.pc = "fetch" /\ s.pool = pool /\ s.fresh = {}
  BY DEF Scanning
<1>3. Distinct(s.pool \cup s.fresh)
  BY <1>2 DEF IInv, PoolsDistinct
<1>4. proc' = [proc EXCEPT ![p] = s]
  BY <1>1
<1> HIDE DEF s
<1> QED BY <1>2, <1>3, <1>4, ScanMoves DEF Start

LEMMA RequestKeeps ==
    ASSUME IInv, NEW p \in Profiles, NEW t \in Targets, NEW answer, NEW again,
           Request(p, t, answer, again)
    PROVE  IInv'
<1>1. PICK r : proc' = [proc EXCEPT ![p].readings[t] = r]
  BY DEF Request
<1> DEFINE s == [proc[p] EXCEPT !.readings[t] = r]
<1>2. proc[p] = Scanning(proc[p])
  BY DEF IInv, Shape
<1>3. /\ s = Scanning(s) /\ s.pc = proc[p].pc /\ s.pool = proc[p].pool /\ s.fresh = proc[p].fresh
  BY <1>2 DEF Scanning
<1>4. proc' = [proc EXCEPT ![p] = s]
  BY <1>1
<1>5. Distinct(s.pool \cup s.fresh) /\ proc[p].pc = "fetch"
  BY <1>3 DEF IInv, PoolsDistinct, Request
<1> HIDE DEF s
<1> QED BY <1>3, <1>4, <1>5, ScanMoves DEF Request

LEMMA MergeKeeps ==
    ASSUME IInv, NEW p \in Profiles, NEW dryRun, Merge(p, dryRun) PROVE IInv'
<1> DEFINE fresh == Fresh(Collected(p), proc[p].pool)
           s == IF dryRun \/ fresh = {} THEN Idle
                ELSE [proc[p] EXCEPT !.pc = "pool", !.fresh = fresh, !.readings = <<>>]
<1>1. proc' = [proc EXCEPT ![p] = s] /\ proc[p].pc = "fetch"
  BY DEF Merge
<1>2. proc[p] = Scanning(proc[p]) /\ Distinct(proc[p].pool)
  BY DEF IInv, Shape, PoolsDistinct, Distinct
<1>3. Distinct(proc[p].pool \cup fresh)
  BY <1>2, FreshDistinct
<1> HIDE DEF fresh
<1>4. /\ s = Scanning(s) /\ s.pc \in {"idle", "pool"}
      /\ s.pool \in {{}, proc[p].pool} /\ s.fresh \in {{}, fresh}
  BY <1>2 DEF Scanning, Idle
<1>5. Distinct(s.pool \cup s.fresh)
  BY <1>3, <1>4 DEF Distinct
<1> HIDE DEF s
<1>6. s.pool \subseteq proc[p].pool
  BY <1>4
<1> QED BY <1>1, <1>4, <1>5, <1>6, ScanMoves DEF Merge

LEMMA SavePoolKeeps ==
    ASSUME IInv, NEW p \in Profiles, SavePool(p) PROVE IInv'
<1>1. /\ \A q \in Profiles : /\ proc'[q] = Scanning(proc'[q])
                             /\ proc'[q].pool = proc[q].pool /\ proc'[q].fresh = proc[q].fresh
      /\ \A q \in Profiles \ {p} : proc'[q].pc = proc[q].pc
      /\ proc[p].pc = "pool" /\ proc'[p].pc = "ledger"
  BY DEF SavePool, IInv, Shape, Scanning
<1>2. Shape'
  BY <1>1 DEF SavePool, IInv, Shape
<1>3. PoolsDistinct'
  BY <1>1 DEF SavePool, IInv, PoolsDistinct
<1>4. \A j : Accounted(j) => Accounted(j)'
  BY <1>1, StaysAccounted DEF SavePool
<1>5. \A j \in proc[p].fresh : Accounted(j)'
  BY <1>1 DEF Accounted
<1>6. SnapshotsAccounted' /\ \A j \in pool' : Accounted(j)'
  BY <1>1, <1>4, <1>5 DEF SavePool, IInv, SnapshotsAccounted
<1>7. PooledHasRow' /\ OneRowPerRole'
  BY <1>6 DEF SavePool, IInv, PooledHasRow, Accounted, OneRowPerRole, RowsOf
<1> QED BY <1>2, <1>3, <1>6, <1>7 DEF IInv

\* What a scan leaves that ends: nothing but idleness.
LEMMA ScanEnds ==
    ASSUME IInv, NEW p \in Profiles, proc' = [proc EXCEPT ![p] = Idle]
    PROVE  /\ \A q \in Profiles : /\ proc'[q] = Scanning(proc'[q])
                                  /\ q # p => proc'[q] = proc[q]
           /\ proc'[p].pool = {} /\ proc'[p].fresh = {}
           /\ proc' = [q \in Profiles |-> Scanning(proc'[q])]
BY DEF IInv, Shape, Scanning, Idle

LEMMA SaveLedgerKeeps ==
    ASSUME IInv, NEW p \in Profiles, SaveLedger(p) PROVE IInv'
<1> DEFINE rows == WithFresh(p, ledger[p], proc[p].fresh)
<1>1. /\ \A q \in Profiles : ledger'[q] = IF q = p THEN rows ELSE ledger[q]
      /\ ledger' = [q \in Profiles |-> ledger'[q]]
  BY DEF SaveLedger, IInv, Shape
<1>2. /\ ledger[p] \subseteq rows
      /\ \A j \in proc[p].fresh : \E row \in rows : Role[row.job] = Role[j]
      /\ OnePerRole(ledger[p]) /\ Distinct(proc[p].fresh) => OnePerRole(rows)
  BY FreshGetRows
<1>3. /\ \A q \in Profiles : q # p => proc'[q] = proc[q]
      /\ proc'[p].pool = {} /\ proc'[p].fresh = {}
      /\ proc' = [q \in Profiles |-> Scanning(proc'[q])]
  BY ScanEnds DEF SaveLedger
<1> HIDE DEF rows
<1>4. Shape'
  BY <1>1, <1>3 DEF Shape
<1>5. PoolsDistinct'
  BY <1>3 DEF SaveLedger, IInv, PoolsDistinct, Distinct
<1>6. ASSUME NEW j, Accounted(j) PROVE Accounted(j)'
  <2>1. CASE \E q \in Profiles : Role[j] \in Roles(RowsOf(q))
    BY <1>1, <1>2, <2>1 DEF Accounted, Roles, RowsOf
  <2>2. CASE j \in proc[p].fresh
    BY <1>1, <1>2, <2>2 DEF Accounted, Roles, RowsOf
  <2>3. CASE \E q \in Profiles \ {p} : proc[q].pc = "ledger" /\ j \in proc[q].fresh
    BY <1>3, <2>3 DEF Accounted
  <2>4. CASE Role[j] \in Roles(cut)
    BY <2>4 DEF Accounted, SaveLedger
  <2> QED BY <1>6, <2>1, <2>2, <2>3, <2>4 DEF Accounted
<1>7. SnapshotsAccounted' /\ \A j \in pool' : Accounted(j)'
  BY <1>3, <1>6 DEF SaveLedger, IInv, SnapshotsAccounted, PooledHasRow, Accounted
<1>8. Distinct(proc[p].fresh)
  BY DEF IInv, PoolsDistinct, Distinct
<1>9. OneRowPerRole'
  BY <1>1, <1>2, <1>8 DEF IInv, OneRowPerRole, OnePerRole
<1> QED BY <1>4, <1>5, <1>7, <1>9 DEF IInv, PooledHasRow, Accounted

LEMMA BackfillKeeps ==
    ASSUME IInv, NEW p \in Profiles, Backfill(p) PROVE IInv'
<1> DEFINE missing == {j \in pool : p \in Owners[OnBoard[j]] /\ j \notin RowsOf(p)}
           passed == {j \in missing : Role[j] \notin Rejects[p]}
           kept == Appended(ledger[p], passed, "To Apply")
           rows == Appended(kept, missing \ passed, "Archived")
<1>1. /\ \A q \in Profiles : ledger'[q] = IF q = p THEN rows ELSE ledger[q]
      /\ ledger' = [q \in Profiles |-> ledger'[q]]
  BY DEF Backfill, IInv, Shape
<1>2. Distinct(passed) /\ Distinct(missing \ passed)
  BY DEF IInv, PoolsDistinct, Distinct
<1>3. ledger[p] \subseteq kept /\ (OnePerRole(ledger[p]) => OnePerRole(kept))
  BY <1>2, AppendedDoes
<1> HIDE DEF kept, passed, missing
<1>4. kept \subseteq rows /\ (OnePerRole(kept) => OnePerRole(rows))
  BY <1>2, AppendedDoes
<1> HIDE DEF rows
<1>5. \A j : Accounted(j) => Accounted(j)'
  BY <1>1, <1>3, <1>4, StaysAccounted DEF Backfill
<1>6. OneRowPerRole'
  BY <1>1, <1>3, <1>4 DEF IInv, OneRowPerRole, OnePerRole
<1>7. Shape' /\ PoolsDistinct' /\ SnapshotsAccounted' /\ PooledHasRow'
  BY <1>1, <1>5 DEF Backfill, IInv, Shape, PoolsDistinct, Distinct, SnapshotsAccounted,
                    PooledHasRow, Accounted
<1> QED BY <1>6, <1>7 DEF IInv

LEMMA CrashKeeps ==
    ASSUME IInv, NEW p \in Profiles, Crash(p) PROVE IInv'
<1>1. /\ \A q \in Profiles : q # p => proc'[q] = proc[q]
      /\ proc'[p].pool = {} /\ proc'[p].fresh = {}
      /\ proc' = [q \in Profiles |-> Scanning(proc'[q])]
  BY ScanEnds DEF Crash
<1>2. Shape' /\ PoolsDistinct' /\ OneRowPerRole'
  BY <1>1 DEF Crash, IInv, Shape, PoolsDistinct, Distinct, OneRowPerRole
<1>3. ASSUME NEW j, Accounted(j) PROVE Accounted(j)'
  <2>1. cut \subseteq cut' /\ (proc[p].pc = "ledger" => proc[p].fresh \subseteq cut')
    BY DEF Crash
  <2> QED BY <1>1, <1>3, <2>1 DEF Crash, Accounted, Roles, RowsOf
<1>4. SnapshotsAccounted' /\ PooledHasRow'
  BY <1>1, <1>3 DEF Crash, IInv, SnapshotsAccounted, PooledHasRow, Accounted
<1> QED BY <1>2, <1>4 DEF IInv

\* A board that changes under a scan changes what it reads and nothing else.
LEMMA BoardKeeps ==
    ASSUME IInv, NEW t, proc' = Disturbed(t), UNCHANGED <<pool, ledger, cut>> PROVE IInv'
<1>1. \A q \in Profiles : /\ proc'[q] = Scanning(proc'[q]) /\ proc'[q].pc = proc[q].pc
                          /\ proc'[q].pool = proc[q].pool /\ proc'[q].fresh = proc[q].fresh
  <2> TAKE q \in Profiles
  <2>1. proc[q] = Scanning(proc[q])
    BY DEF IInv, Shape
  <2>2. CASE proc'[q] = proc[q]
    BY <2>1, <2>2
  <2>3. CASE proc'[q] = [proc[q] EXCEPT !.readings[t].quiet = FALSE]
    <3>1. PICK r : proc'[q] = [proc[q] EXCEPT !.readings = r]
      BY <2>3
    <3> QED BY <2>1, <3>1 DEF Scanning
  <2> QED BY <2>2, <2>3 DEF Disturbed
<1>2. Shape'
  BY <1>1 DEF IInv, Shape, Disturbed
<1> QED BY <1>1, <1>2 DEF IInv, PoolsDistinct, Distinct, SnapshotsAccounted, Accounted,
                          OneRowPerRole, PooledHasRow, Roles, RowsOf

THEOREM Stepwise == IInv /\ [Next]_vars => IInv'
<1> SUFFICES ASSUME IInv, [Next]_vars PROVE IInv'
  OBVIOUS
<1>1. ASSUME NEW p \in Profiles, Command(p) PROVE IInv'
  BY <1>1, StartKeeps, RequestKeeps, MergeKeeps, SavePoolKeeps, SaveLedgerKeeps DEF Command
<1>2. ASSUME NEW p \in Profiles, Backfill(p) \/ Crash(p) PROVE IInv'
  BY <1>2, BackfillKeeps, CrashKeeps
<1>3. ASSUME NEW j \in Postings, Posted(j) \/ Removed(j) PROVE IInv'
  BY <1>3, BoardKeeps DEF Posted, Removed
<1>4. CASE UNCHANGED vars
  BY <1>4 DEF vars, IInv, Shape, PoolsDistinct, Distinct, SnapshotsAccounted, Accounted,
              OneRowPerRole, PooledHasRow, Roles, RowsOf
<1> QED BY <1>1, <1>2, <1>3, <1>4 DEF Next

-----------------------------------------------------------------------------
\* The invariant of the scans: no pool, loaded or saved, has a role twice, and
\* whatever a scan may put back into the pool is accounted for.
THEOREM Inductive == Spec => []IInv
<1> QED BY Initially, Stepwise, PTL DEF Spec

\* However many scans run at once, on whatever they read, a role has one row
\* in a profile's ledger (OneRowPerRole).
THEOREM RolesHaveOneRow == Spec => []OneRowPerRole
<1>1. IInv => OneRowPerRole
  BY DEF IInv
<1> QED BY <1>1, Inductive, PTL

\* Nothing gets lost between the pool and the ledgers but by a death between
\* the two writes of a scan (PooledHasRow).
THEOREM PoolsHaveRows == Spec => []PooledHasRow
<1>1. IInv => PooledHasRow
  BY DEF IInv
<1> QED BY <1>1, Inductive, PTL

-----------------------------------------------------------------------------
(* Parts of sequences *)

\* Counting a set of places up to each of its members numbers them 1, 2, ...
LEMMA RanksNumber ==
    ASSUME NEW n \in Nat, NEW S \in SUBSET (1 .. n)
    PROVE  /\ Cardinality(S) \in Nat
           /\ [i \in S |-> Cardinality({j \in S : j <= i})] \in Bijection(S, 1 .. Cardinality(S))
<1> DEFINE upto(i) == {j \in S : j <= i}
           rank == [i \in S |-> Cardinality(upto(i))]
<1>1. IsFiniteSet(S) /\ Cardinality(S) \in Nat
  <2>1. IsFiniteSet(1 .. n)
    BY FS_Interval
  <2>2. IsFiniteSet(S)
    BY <2>1, FS_Subset
  <2> QED BY <2>2, FS_CardinalityType
<1>2. ASSUME NEW i \in S PROVE IsFiniteSet(upto(i)) /\ Cardinality(upto(i)) \in 1 .. Cardinality(S)
  <2>1. i \in upto(i) /\ upto(i) \in SUBSET S
    OBVIOUS
  <2> HIDE DEF upto
  <2>2. IsFiniteSet(upto(i)) /\ Cardinality(upto(i)) <= Cardinality(S)
    BY <1>1, <2>1, FS_Subset
  <2>3. Cardinality(upto(i)) \in Nat
    BY <2>2, FS_CardinalityType
  <2>4. Cardinality(upto(i)) # 0
    BY <2>1, <2>2, FS_EmptySet
  <2> QED BY <1>1, <2>2, <2>3, <2>4
<1>3. rank \in [S -> 1 .. Cardinality(S)]
  BY <1>2
<1>4. ASSUME NEW i \in S, NEW k \in S, i < k, rank[i] = rank[k] PROVE FALSE
  <2>1. upto(i) \in SUBSET upto(k)
    <3>1. \A j \in S : j <= i => j <= k
      BY <1>4
    <3> QED BY <3>1
  <2>2. Cardinality(upto(i)) = Cardinality(upto(k))
    BY <1>4
  <2>3. upto(i) = upto(k)
    BY <1>2, <2>1, <2>2, FS_Subset
  <2>4. k \in upto(k) /\ k \notin upto(i)
    BY <1>4
  <2> QED BY <2>3, <2>4
<1>5. \A i, k \in S : i # k => i < k \/ k < i
  OBVIOUS
<1>6. rank \in Injection(S, 1 .. Cardinality(S))
  <2> HIDE DEF rank
  <2> QED BY <1>3, <1>4, <1>5 DEF Injection, IsInjective
<1>7. IsFiniteSet(1 .. Cardinality(S)) /\ Cardinality(1 .. Cardinality(S)) = Cardinality(S)
  BY <1>1, FS_Interval
<1>8. rank \in Surjection(S, 1 .. Cardinality(S))
  <2> HIDE DEF rank
  <2> QED BY <1>6, <1>7, FS_Injection
<1> QED BY <1>1, <1>6, <1>8 DEF Bijection

\* The n-th place is one, and every place is the n-th for some n.
LEMMA NthPlace ==
    ASSUME NEW n \in Nat, NEW S \in SUBSET (1 .. n)
    PROVE  /\ \A m \in 1 .. Cardinality(S) :
                /\ Nth(S, m) \in S
                /\ Cardinality({j \in S : j <= Nth(S, m)}) = m
           /\ \A i \in S : \E m \in 1 .. Cardinality(S) : Nth(S, m) = i
<1> DEFINE rank == [i \in S |-> Cardinality({j \in S : j <= i})]
<1>1. rank \in Bijection(S, 1 .. Cardinality(S))
  BY RanksNumber
<1>2. \A i \in S : rank[i] = Cardinality({j \in S : j <= i})
  OBVIOUS
<1> HIDE DEF rank
<1>3. /\ rank \in [S -> 1 .. Cardinality(S)]
      /\ \A i, k \in S : rank[i] = rank[k] => i = k
      /\ \A m \in 1 .. Cardinality(S) : \E i \in S : rank[i] = m
  BY <1>1 DEF Bijection, Injection, Surjection, IsInjective
<1>4. ASSUME NEW m \in 1 .. Cardinality(S)
      PROVE  Nth(S, m) \in S /\ Cardinality({j \in S : j <= Nth(S, m)}) = m
  <2>1. \E i \in S : Cardinality({j \in S : j <= i}) = m
    BY <1>2, <1>3
  <2> QED BY <2>1 DEF Nth
<1>5. ASSUME NEW i \in S PROVE Nth(S, rank[i]) = i
  <2>1. rank[i] \in 1 .. Cardinality(S)
    BY <1>3
  <2>2. Nth(S, rank[i]) \in S /\ rank[Nth(S, rank[i])] = rank[i]
    BY <1>2, <1>4, <2>1
  <2> QED BY <1>3, <2>2
<1> QED BY <1>3, <1>4, <1>5

\* A filter keeps the wanted entries, each as often as it was there.
LEMMA OnlyDoes ==
    ASSUME NEW S, NEW s \in Seq(S), NEW W
    PROVE  /\ Only(s, W) \in Seq(S)
           /\ Range(Only(s, W)) = Range(s) \cap W
           /\ Len(Only(s, W)) <= Len(s)
           /\ IsInjective(s) => IsInjective(Only(s, W))
<1> DEFINE places == {i \in DOMAIN s : s[i] \in W}
           c == Cardinality(places)
           at == [m \in 1 .. c |-> Nth(places, m)]
           only == [m \in 1 .. c |-> s[Nth(places, m)]]
<1>1. Len(s) \in Nat /\ DOMAIN s = 1 .. Len(s) /\ \A i \in DOMAIN s : s[i] \in S
  OBVIOUS
<1>2. places \in SUBSET (1 .. Len(s))
  BY <1>1
<1>3. /\ \A i \in places : i \in DOMAIN s /\ s[i] \in W /\ s[i] \in S
      /\ \A i \in DOMAIN s : s[i] \in W => i \in places
  BY <1>1
<1>4. \A m \in DOMAIN only : only[m] = s[Nth(places, m)]
  OBVIOUS
<1>5. DOMAIN only = 1 .. c /\ only = Only(s, W)
  BY DEF Only
<1> HIDE DEF places, only
<1>6. c \in Nat /\ c <= Len(s)
  <2>1. IsFiniteSet(1 .. Len(s)) /\ Cardinality(1 .. Len(s)) = Len(s)
    <3>1. Cardinality(1 .. Len(s)) = IF 1 > Len(s) THEN 0 ELSE Len(s) - 1 + 1
      BY <1>1, FS_Interval
    <3>2. IsFiniteSet(1 .. Len(s))
      BY <1>1, FS_Interval
    <3> QED BY <1>1, <3>1, <3>2
  <2>2. IsFiniteSet(places) /\ c <= Len(s)
    BY <1>2, <2>1, FS_Subset
  <2> QED BY <2>2, FS_CardinalityType
<1>7. /\ \A m \in 1 .. c : /\ Nth(places, m) \in places
                          /\ Cardinality({j \in places : j <= Nth(places, m)}) = m
      /\ \A i \in places : \E m \in 1 .. c : Nth(places, m) = i
  BY <1>1, <1>2, NthPlace
<1> HIDE DEF c
<1>8. only \in Seq(S) /\ Len(only) = c
  <2>1. only = [m \in 1 .. c |-> only[m]]
    BY <1>5 DEF only
  <2>2. \A m \in 1 .. c : only[m] \in S
    BY <1>3, <1>4, <1>5, <1>7
  <2> QED BY <1>6, <2>1, <2>2
<1>9. Range(only) = Range(s) \cap W
  <2>1. ASSUME NEW m \in DOMAIN only PROVE only[m] \in Range(s) \cap W
    BY <1>3, <1>4, <1>5, <1>7 DEF Range
  <2>2. ASSUME NEW i \in DOMAIN s, s[i] \in W PROVE s[i] \in Range(only)
    BY <1>3, <1>4, <1>5, <1>7, <2>2 DEF Range
  <2> QED BY <2>1, <2>2 DEF Range
<1>10. IsInjective(s) => IsInjective(only)
  <2>1. SUFFICES ASSUME IsInjective(s), NEW k \in 1 .. c, NEW m \in 1 .. c, only[k] = only[m]
                 PROVE  k = m
    BY <1>5 DEF IsInjective
  <2>2. Nth(places, k) = Nth(places, m)
    BY <1>3, <1>4, <1>5, <1>7, <2>1 DEF IsInjective
  <2> QED BY <1>7, <2>2
<1> QED BY <1>5, <1>6, <1>8, <1>9, <1>10

\* The first n postings of a board.
Top(shown, n) == {shown[i] : i \in {k \in DOMAIN shown : k <= n}}

LEMMA Joined ==
    ASSUME NEW S, NEW s \in Seq(S), NEW more \in Seq(S)
    PROVE  /\ s \o more \in Seq(S)
           /\ Len(s \o more) = Len(s) + Len(more)
           /\ Range(s \o more) = Range(s) \cup Range(more)
<1>1. /\ s \o more \in Seq(S) /\ Len(s \o more) = Len(s) + Len(more)
      /\ DOMAIN s = 1 .. Len(s) /\ DOMAIN more = 1 .. Len(more)
      /\ DOMAIN (s \o more) = 1 .. Len(s) + Len(more)
      /\ Len(s) \in Nat /\ Len(more) \in Nat
  OBVIOUS
<1>2. \A i \in DOMAIN s : (s \o more)[i] = s[i] /\ i \in DOMAIN (s \o more)
  OBVIOUS
<1>3. \A i \in DOMAIN more : (s \o more)[Len(s) + i] = more[i] /\ Len(s) + i \in DOMAIN (s \o more)
  OBVIOUS
<1>4. ASSUME NEW i \in DOMAIN (s \o more)
      PROVE  (s \o more)[i] \in Range(s) \cup Range(more)
  <2>1. CASE i \in DOMAIN s
    BY <1>2, <2>1 DEF Range
  <2>2. CASE i \notin DOMAIN s
    <3>1. i - Len(s) \in DOMAIN more /\ Len(s) + (i - Len(s)) = i
      BY <1>1, <2>2
    <3>2. (s \o more)[i] = more[i - Len(s)]
      BY <1>3, <3>1
    <3> QED BY <3>1, <3>2 DEF Range
  <2> QED BY <2>1, <2>2
<1>5. Range(s) \subseteq Range(s \o more) /\ Range(more) \subseteq Range(s \o more)
  BY <1>2, <1>3 DEF Range
<1>6. Range(s \o more) \subseteq Range(s) \cup Range(more)
  BY <1>4 DEF Range
<1> QED BY <1>1, <1>5, <1>6

LEMMA EmptyRange ==
    Range(<<>>) = {}
  BY DEF Range

-----------------------------------------------------------------------------
(* Pages *)

\* The records of the pages before one.
Behind(page) == (page - 1) * PageSize

LEMMA Multiples ==
    /\ Behind(1) = 0
    /\ \A page \in Nat \ {0} :
          /\ Behind(page) \in Nat
          /\ Behind(page + 1) = Behind(page) + PageSize
          /\ page * PageSize = Behind(page) + PageSize
          /\ page <= MaxPages => Behind(page) + PageSize <= MaxPages * PageSize
          /\ page = MaxPages => Behind(page) + PageSize = MaxPages * PageSize
<1>1. PageSize \in Nat \ {0} /\ MaxPages \in Nat \ {0}
  BY PagingAssumption
<1>2. \A n, m \in Nat : n * m \in Nat
  OBVIOUS
<1>3. \A n, k, m \in Nat : n <= k => n * m <= k * m
  <2>1. SUFFICES ASSUME NEW n \in Nat, NEW k \in Nat, NEW m \in Nat, n <= k PROVE n * m <= k * m
    OBVIOUS
  <2>2. k * m = n * m + (k - n) * m
    OBVIOUS
  <2>3. (k - n) * m \in Nat
    BY <1>2, <2>1
  <2> QED BY <1>2, <2>2, <2>3
<1>4. ASSUME NEW page \in Nat \ {0}
      PROVE  /\ Behind(page) \in Nat
             /\ Behind(page + 1) = Behind(page) + PageSize
             /\ page * PageSize = Behind(page) + PageSize
  <2>1. page - 1 \in Nat /\ Behind(page) = (page - 1) * PageSize
    BY DEF Behind
  <2>2. Behind(page + 1) = page * PageSize
    BY DEF Behind
  <2>3. page * PageSize = (page - 1) * PageSize + PageSize
    BY <1>1
  <2> QED BY <1>1, <1>2, <2>1, <2>2, <2>3
<1>5. Behind(1) = 0
  BY <1>1 DEF Behind
<1> QED BY <1>1, <1>3, <1>4, <1>5

LEMMA PagesDoes ==
    ASSUME NEW S, NEW shown \in Seq(S)
    PROVE  /\ Pages(shown) \in Nat
           /\ shown # <<>> => Pages(shown) # 0
           /\ \A page \in Nat \ {0} : /\ page >= Pages(shown) => Len(shown) <= Behind(page) + PageSize
                                      /\ page > Pages(shown) => Len(shown) <= Behind(page)
<1> DEFINE n == Pages(shown)
<1>1. PageSize \in Nat \ {0} /\ Len(shown) \in Nat /\ (shown # <<>> => Len(shown) >= 1)
  BY PagingAssumption
<1>2. n \in Int /\ n * PageSize <= Len(shown) + PageSize - 1
      /\ Len(shown) + PageSize - 1 < n * PageSize + PageSize
  BY <1>1 DEF Pages
<1> HIDE DEF n
<1>3. n * PageSize >= Len(shown)
  BY <1>1, <1>2
<1>4. n >= 0
  <2>1. SUFFICES ASSUME n < 0 PROVE FALSE
    BY <1>2
  <2>2. 0 - n - 1 \in Nat /\ n * PageSize + PageSize = 0 - (0 - n - 1) * PageSize
    BY <1>1, <1>2, <2>1
  <2>3. (0 - n - 1) * PageSize \in Nat
    BY <1>1, <2>2
  <2>4. n * PageSize \in Int
    BY <1>1, <1>2
  <2> HIDE DEF n
  <2> QED BY <1>1, <1>2, <2>2, <2>3, <2>4
<1>5. shown # <<>> => n # 0
  BY <1>1, <1>3
<1>6. \A k \in Nat : k >= n => k * PageSize >= n * PageSize
  <2>1. SUFFICES ASSUME NEW k \in Nat, k >= n PROVE k * PageSize >= n * PageSize
    OBVIOUS
  <2>2. k * PageSize = n * PageSize + (k - n) * PageSize
    BY <1>1, <1>2
  <2>3. k - n \in Nat
    BY <1>2, <2>1
  <2>4. (k - n) * PageSize \in Nat
    BY <1>1, <2>3
  <2> QED BY <1>1, <1>2, <2>2, <2>4
<1>7. ASSUME NEW page \in Nat \ {0}
      PROVE  /\ page >= n => Len(shown) <= Behind(page) + PageSize
             /\ page > n => Len(shown) <= Behind(page)
  <2>1. page * PageSize = Behind(page) + PageSize /\ Behind(page) = (page - 1) * PageSize
    BY Multiples DEF Behind
  <2>2. page - 1 \in Nat /\ (page > n => page - 1 >= n)
    BY <1>2
  <2>3. page * PageSize \in Int /\ (page - 1) * PageSize \in Int /\ n * PageSize \in Int
    BY <1>1, <1>2
  <2>4. page >= n => page * PageSize >= n * PageSize
    BY <1>6
  <2>5. page > n => (page - 1) * PageSize >= n * PageSize
    BY <1>6, <2>2
  <2> HIDE DEF n
  <2>6. page >= n => Len(shown) <= page * PageSize
    BY <1>1, <1>3, <2>3, <2>4
  <2>7. page > n => Len(shown) <= (page - 1) * PageSize
    BY <1>1, <1>3, <2>3, <2>5
  <2> QED BY <2>1, <2>6, <2>7
<1> QED BY <1>2, <1>4, <1>5, <1>7 DEF n

\* One page.
LEMMA ServedDoes ==
    ASSUME NEW S, NEW shown \in Seq(S), NEW page \in Nat \ {0}
    PROVE  LET got == Served(shown, page)
           IN /\ got \in Seq(S) /\ Len(got) <= PageSize
              /\ Top(shown, Behind(page) + PageSize) = Top(shown, Behind(page)) \cup Range(got)
              /\ Len(got) < PageSize => Len(shown) <= Behind(page) + PageSize
              /\ got = <<>> => Len(shown) <= Behind(page)
              /\ IsInjective(shown) =>
                    IsInjective(got) /\ Range(got) \cap Top(shown, Behind(page)) = {}
<1> DEFINE got == Served(shown, page)
           lo == Behind(page)
<1>1. lo \in Nat /\ page * PageSize = lo + PageSize
  BY Multiples
<1>2. PageSize \in Nat \ {0} /\ Len(shown) \in Nat
  BY PagingAssumption
<1>3. got = SubSeq(shown, lo + 1, IF lo + PageSize <= Len(shown) THEN lo + PageSize ELSE Len(shown))
  BY <1>1 DEF Served, Behind
<1> HIDE DEF got, lo
<1>4. /\ got \in Seq(S) /\ Len(got) <= PageSize
      /\ Top(shown, lo + PageSize) = Top(shown, lo) \cup Range(got)
      /\ Len(got) < PageSize => lo + PageSize > Len(shown)
      /\ got = <<>> => lo >= Len(shown)
      /\ IsInjective(shown) => IsInjective(got) /\ Range(got) \cap Top(shown, lo) = {}
  <2> DEFINE len == IF lo + PageSize <= Len(shown) THEN PageSize
                    ELSE IF lo <= Len(shown) THEN Len(shown) - lo ELSE 0
  <2>1. /\ got \in Seq(S) /\ Len(got) = len /\ DOMAIN got = 1 .. len
        /\ \A i \in 1 .. len : got[i] = shown[lo + i] /\ lo + i \in DOMAIN shown
    BY <1>1, <1>2, <1>3
  <2>2. len \in 0 .. PageSize /\ (len < PageSize => lo + PageSize > Len(shown)) /\ (len = 0 => lo >= Len(shown))
    BY <1>1, <1>2, <1>3
  <2>3. \A k \in DOMAIN shown : lo < k /\ k <= lo + PageSize => k - lo \in 1 .. len /\ lo + (k - lo) = k
    BY <1>1, <1>2, <1>3
  <2>4. \A i \in 1 .. len : lo < lo + i /\ lo + i <= lo + PageSize
    BY <1>1, <1>2, <2>2
  <2>5. \A k \in DOMAIN shown : k \in Nat
    BY <1>1, <1>2, <1>3
  <2> HIDE DEF len
  <2>6. Top(shown, lo + PageSize) = Top(shown, lo) \cup Range(got)
    <3>1. ASSUME NEW k \in DOMAIN shown, k <= lo + PageSize
          PROVE  shown[k] \in Top(shown, lo) \cup Range(got)
      <4>1. CASE k <= lo
        BY <4>1 DEF Top
      <4>2. CASE lo < k
        <5>1. k - lo \in 1 .. len /\ got[k - lo] = shown[k]
          BY <2>1, <2>3, <3>1, <4>2
        <5> QED BY <2>1, <5>1 DEF Range
      <4> QED BY <1>1, <2>5, <4>1, <4>2
    <3>2. ASSUME NEW i \in DOMAIN got PROVE got[i] \in Top(shown, lo + PageSize)
      <4>1. lo + i \in DOMAIN shown /\ lo + i <= lo + PageSize /\ got[i] = shown[lo + i]
        BY <2>1, <2>4
      <4> QED BY <4>1 DEF Top
    <3>3. Top(shown, lo) \subseteq Top(shown, lo + PageSize)
      BY <1>1, <1>2, <2>5 DEF Top
    <3> QED BY <3>1, <3>2, <3>3 DEF Top, Range
  <2>7. ASSUME IsInjective(shown) PROVE IsInjective(got) /\ Range(got) \cap Top(shown, lo) = {}
    <3>1. ASSUME NEW i \in DOMAIN got, NEW k \in DOMAIN got, got[i] = got[k] PROVE i = k
      <4>1. i \in Nat /\ k \in Nat /\ lo + i = lo + k
        BY <1>1, <1>2, <2>1, <2>2, <2>7, <3>1 DEF IsInjective
      <4> QED BY <1>1, <4>1
    <3>2. ASSUME NEW i \in DOMAIN got, NEW k \in DOMAIN shown, k <= lo, got[i] = shown[k] PROVE FALSE
      <4>1. lo + i = k /\ lo < lo + i
        BY <1>1, <2>1, <2>4, <2>7, <3>2 DEF IsInjective
      <4> QED BY <1>1, <2>5, <3>2, <4>1
    <3> QED BY <3>1, <3>2 DEF IsInjective, Top, Range
  <2>8. Len(got) < PageSize => lo + PageSize > Len(shown)
    BY <2>1, <2>2
  <2>9. got = <<>> => lo >= Len(shown)
    BY <2>1, <2>2
  <2> QED BY <2>1, <2>2, <2>6, <2>7, <2>8, <2>9
<1>5. /\ Len(got) < PageSize => Len(shown) <= lo + PageSize
      /\ got = <<>> => Len(shown) <= lo
  BY <1>1, <1>2, <1>4
<1> QED BY <1>4, <1>5 DEF got, lo

\* The whole board, from any number on.
LEMMA TopAll ==
    ASSUME NEW S, NEW shown \in Seq(S), NEW n \in Nat, Len(shown) <= n
    PROVE  Top(shown, n) = Range(shown)
<1>1. \A i \in DOMAIN shown : i <= n
  OBVIOUS
<1> QED BY <1>1 DEF Top, Range

-----------------------------------------------------------------------------
(* Searches *)

Flags == BOOLEAN

Readings ==
    [query : Nat \ {0}, page : Nat \ {0}, raws : Seq(Postings), before : Seq(Postings),
     total : Nat, jobs : Seq(Postings), end : {"more", "done", "lost"}, quiet : Flags]

Whole == {"greenhouse", "lever", "ashby", "workable", "remoteok", "indeed"}
FirstPage == {"smartrecruiters", "adzuna"}
Paged == Adapters \ (Whole \cup FirstPage)

\* The records an adapter reads of a board that stands still.
Limit(kind, shown) ==
    IF kind \in FirstPage THEN PageSize
    ELSE IF kind \in Whole THEN Len(shown) ELSE MaxPages * PageSize

\* The postings of which it sees a row.
RowsSeen(kind, flaws) ==
    {j \in Postings : /\ kind = "icims" => IcimsRow(flaws[j])
                      /\ kind = "talentbrew" => TalentbrewRow(flaws[j])
                      /\ kind = "taleo" => TaleoRow(flaws[j])}

\* In the midst of a search its records are those of the pages so far, and the
\* jobs of an earlier search all there are.
ReadSoFar(kind, shown, flaws, r) ==
    /\ r.page <= MaxPages
    /\ kind \notin Paged => r.page = 1
    /\ Range(r.raws) = Top(shown, Behind(r.page)) \cap RowsSeen(kind, flaws)
    /\ Len(r.raws) <= Behind(r.page)
    /\ Range(r.before) \subseteq Range(r.raws)
    /\ kind = "calcareers" /\ r.page > 1 => r.total = Pages(shown)
    /\ Range(r.jobs) = IF r.query = 1 THEN {} ELSE Findable(kind, shown, flaws)

\* At its end they are all the adapter may read.
ReadThrough(kind, shown, flaws, r) ==
    /\ Range(r.raws) = Top(shown, Limit(kind, shown)) \cap RowsSeen(kind, flaws)
    /\ Range(r.jobs) = IF r.query = 1 THEN {} ELSE Findable(kind, shown, flaws)

\* What a request makes of a reading.
Reads(kind, shown, flaws, r, answer, q) ==
    /\ q \in Readings
    /\ q.quiet = r.quiet
    /\ answer = "ok" /\ ReadSoFar(kind, shown, flaws, r) =>
          /\ q.end = "more" => ReadSoFar(kind, shown, flaws, q)
          /\ q.end = "done" => ReadThrough(kind, shown, flaws, q)

LEMMA NewIs ==
    NewReading \in Readings
<1>1. <<>> \in Seq(Postings)
  OBVIOUS
<1>2. TRUE \in Flags
  BY DEF Flags
<1> HIDE DEF Flags
<1>3. ASSUME NEW flag \in Flags
      PROVE  [query |-> 1, page |-> 1, raws |-> <<>>, before |-> <<>>, total |-> 0,
              jobs |-> <<>>, end |-> "more", quiet |-> flag] \in Readings
  BY <1>1 DEF Readings
<1> QED BY Zenon, <1>2, <1>3 DEF NewReading

LEMMA LostIs ==
    ASSUME NEW r \in Readings
    PROVE  Lost(r) \in Readings /\ Lost(r).end = "lost" /\ Lost(r).quiet = r.quiet
<1> HIDE DEF Flags
<1> QED BY NewIs DEF Lost, Readings

\* A failed request of the adapters that give the target up.
LEMMA LostReads ==
    ASSUME NEW kind, NEW shown, NEW flaws, NEW r \in Readings, NEW answer
    PROVE  Reads(kind, shown, flaws, r, answer, Lost(r))
  BY LostIs DEF Reads

LEMMA EndedIs ==
    ASSUME NEW r \in Readings
    PROVE  /\ Ended(r) \in Readings /\ Ended(r).end = "done" /\ Ended(r).quiet = r.quiet
           /\ Ended(r).raws = r.raws /\ Ended(r).jobs = r.jobs /\ Ended(r).query = r.query
<1> HIDE DEF Flags
<1> QED BY DEF Ended, Readings

\* A search that ends without a page of its own had read everything.
LEMMA EndedReads ==
    ASSUME NEW kind \in Paged, NEW shown \in Seq(Postings), NEW flaws, NEW r \in Readings, NEW answer,
           answer = "ok" /\ ReadSoFar(kind, shown, flaws, r) =>
              Top(shown, Behind(r.page)) \cap RowsSeen(kind, flaws)
                 = Range(shown) \cap RowsSeen(kind, flaws)
    PROVE  Reads(kind, shown, flaws, r, answer, Ended(r))
<1> DEFINE q == Ended(r)
<1>1. /\ q \in Readings /\ q.end = "done" /\ q.quiet = r.quiet
      /\ q.raws = r.raws /\ q.jobs = r.jobs /\ q.query = r.query
  BY EndedIs
<1> HIDE DEF q
<1>2. ASSUME answer = "ok", ReadSoFar(kind, shown, flaws, r) PROVE ReadThrough(kind, shown, flaws, q)
  <2>1. Limit(kind, shown) = MaxPages * PageSize
    BY DEF Limit, Paged
  <2>2. r.page \in Nat \ {0} /\ r.page <= MaxPages
    BY <1>2 DEF ReadSoFar, Readings
  <2>3. Behind(r.page) <= MaxPages * PageSize /\ Behind(r.page) \in Nat /\ MaxPages * PageSize \in Nat
    <3>1. /\ Behind(r.page) \in Nat /\ PageSize \in Nat /\ MaxPages * PageSize \in Nat
          /\ Behind(r.page) + PageSize <= MaxPages * PageSize
      <4>1. MaxPages \in Nat /\ PageSize \in Nat /\ MaxPages * PageSize \in Nat
        BY PagingAssumption
      <4> QED BY <2>2, <4>1, Multiples
    <3> QED BY <3>1
  <2>4. Top(shown, Behind(r.page)) \subseteq Top(shown, MaxPages * PageSize)
    BY <2>3 DEF Top
  <2>5. Top(shown, MaxPages * PageSize) \subseteq Range(shown)
    BY DEF Top, Range
  <2> QED BY <1>1, <1>2, <2>1, <2>4, <2>5 DEF ReadSoFar, ReadThrough
<1> QED BY <1>1, <1>2 DEF Reads, q

\* A page kept: what it adds to the records is what was new on it.
LEMMA PageReads ==
    ASSUME NEW kind \in Paged, NEW shown \in Seq(Postings), NEW flaws, NEW r \in Readings,
           NEW more \in Seq(Postings), NEW q \in Readings,
           q.quiet = r.quiet, q.page = r.page + 1, q.raws = r.raws \o more, q.jobs = r.jobs,
           q.query = r.query, q.end = "more" => r.page # MaxPages, Len(more) <= PageSize,
           ReadSoFar(kind, shown, flaws, r) =>
              /\ Range(r.raws) \cup Range(more)
                    = Top(shown, Behind(r.page) + PageSize) \cap RowsSeen(kind, flaws)
              /\ q.end = "done" => r.page = MaxPages \/ Len(shown) <= Behind(r.page) + PageSize
              /\ Range(q.before) \subseteq Range(q.raws)
              /\ kind = "calcareers" => q.total = Pages(shown)
    PROVE  Reads(kind, shown, flaws, r, "ok", q)
<1>1. SUFFICES ASSUME ReadSoFar(kind, shown, flaws, r)
               PROVE  /\ q.end = "more" => ReadSoFar(kind, shown, flaws, q)
                      /\ q.end = "done" => ReadThrough(kind, shown, flaws, q)
  BY DEF Reads
<1>2. r.page \in Nat \ {0} /\ r.page <= MaxPages /\ r.raws \in Seq(Postings) /\ MaxPages \in Nat
  BY <1>1, PagingAssumption DEF ReadSoFar, Readings
<1>3. /\ Behind(r.page) \in Nat /\ Behind(q.page) = Behind(r.page) + PageSize
      /\ Behind(q.page) <= MaxPages * PageSize /\ PageSize \in Nat /\ MaxPages * PageSize \in Nat
      /\ r.page = MaxPages => Behind(q.page) = MaxPages * PageSize
  BY <1>2, Multiples, PagingAssumption
<1>4. /\ Range(q.raws) = Top(shown, Behind(q.page)) \cap RowsSeen(kind, flaws)
      /\ Len(q.raws) = Len(r.raws) + Len(more)
  BY <1>1, <1>2, <1>3, Joined
<1>5. ASSUME q.end = "more" PROVE ReadSoFar(kind, shown, flaws, q)
  <2>1. q.page <= MaxPages
    BY <1>2, <1>5
  <2>2. Len(q.raws) <= Behind(q.page)
    <3>1. Len(r.raws) \in Nat /\ Len(more) \in Nat /\ Len(r.raws) <= Behind(r.page)
      BY <1>1, <1>2 DEF ReadSoFar
    <3> QED BY <1>3, <1>4, <3>1
  <2> QED BY <1>1, <1>4, <2>1, <2>2 DEF ReadSoFar
<1>6. ASSUME q.end = "done" PROVE ReadThrough(kind, shown, flaws, q)
  <2>1. Limit(kind, shown) = MaxPages * PageSize
    BY DEF Limit, Paged
  <2>2. Top(shown, Behind(q.page)) = Top(shown, MaxPages * PageSize)
    <3>1. CASE r.page = MaxPages
      BY <1>3, <3>1
    <3>2. CASE Len(shown) <= Behind(q.page)
      <4>1. Len(shown) \in Nat /\ Len(shown) <= MaxPages * PageSize /\ Behind(q.page) \in Nat
        BY <1>3, <3>2
      <4> QED BY <1>3, <3>2, <4>1, TopAll
    <3> QED BY <1>1, <1>3, <1>6, <3>1, <3>2
  <2> QED BY <1>1, <1>4, <2>1, <2>2 DEF ReadSoFar, ReadThrough
<1> QED BY <1>5, <1>6

LEMMA KeptIs ==
    ASSUME NEW r \in Readings, NEW got \in Seq(Postings), NEW last \in BOOLEAN
    PROVE  LET q == Kept(r, got, last)
           IN /\ q \in Readings /\ q.quiet = r.quiet /\ q.page = r.page + 1 /\ q.raws = r.raws \o got
              /\ q.jobs = r.jobs /\ q.query = r.query /\ q.before = r.before /\ q.total = r.total
              /\ q.end = "more" => r.page # MaxPages
              /\ q.end = "done" => r.page = MaxPages \/ last
              /\ last => q.end = "done"
<1> HIDE DEF Flags
<1>1. r.raws \o got \in Seq(Postings) /\ r.page + 1 \in Nat \ {0}
  BY DEF Readings
<1> QED BY <1>1 DEF Kept, Readings

-----------------------------------------------------------------------------
(* The adapters *)

PlainRows == Paged \ {"icims", "talentbrew", "taleo", "calcareers"}

\* An adapter that sees every row of a page, and looks for the last one in any
\* way that only ends on a page with nothing behind it.
LEMMA PlainPageReads ==
    ASSUME NEW kind \in PlainRows, NEW shown \in Seq(Postings), NEW flaws, NEW r \in Readings,
           NEW more \in Seq(Postings), Len(more) <= PageSize,
           Range(r.raws) \cup Range(more) = Range(r.raws) \cup Range(Served(shown, r.page)),
           NEW last \in BOOLEAN,
           ReadSoFar(kind, shown, flaws, r) /\ last => Len(shown) <= Behind(r.page) + PageSize
    PROVE  Reads(kind, shown, flaws, r, "ok", Kept(r, more, last))
<1> DEFINE q == Kept(r, more, last)
<1>1. /\ q \in Readings /\ q.quiet = r.quiet /\ q.page = r.page + 1 /\ q.raws = r.raws \o more
      /\ q.jobs = r.jobs /\ q.query = r.query /\ q.before = r.before
      /\ q.end = "more" => r.page # MaxPages
      /\ q.end = "done" => r.page = MaxPages \/ last
  BY KeptIs
<1> HIDE DEF q
<1>2. kind \in Paged /\ kind # "calcareers"
      /\ Top(shown, Behind(r.page) + PageSize) \subseteq RowsSeen(kind, flaws)
  BY DEF PlainRows, RowsSeen, Top
<1>3. r.page \in Nat \ {0} /\ r.raws \in Seq(Postings)
  BY DEF Readings
<1>4. Top(shown, Behind(r.page) + PageSize) = Top(shown, Behind(r.page)) \cup Range(Served(shown, r.page))
  BY <1>3, ServedDoes
<1>5. Range(q.raws) = Range(r.raws) \cup Range(more)
  BY <1>1, <1>3, Joined
<1>6. ASSUME ReadSoFar(kind, shown, flaws, r)
      PROVE  /\ Range(r.raws) \cup Range(more)
                   = Top(shown, Behind(r.page) + PageSize) \cap RowsSeen(kind, flaws)
             /\ q.end = "done" => r.page = MaxPages \/ Len(shown) <= Behind(r.page) + PageSize
             /\ Range(q.before) \subseteq Range(q.raws)
  BY <1>1, <1>2, <1>4, <1>5, <1>6 DEF ReadSoFar
<1> QED BY <1>1, <1>2, <1>6, PageReads DEF q

\* workday, oracle_cloud: a short page, or as many records as were reported.
LEMMA WorkdayReads ==
    ASSUME NEW kind \in {"workday", "oracle_cloud"}, NEW shown \in Seq(Postings), NEW flaws,
           NEW r \in Readings, NEW answer
    PROVE  /\ Reads(kind, shown, flaws, r, answer, WorkdayPage(r, shown, answer))
           /\ Reads(kind, shown, flaws, r, answer, OraclePage(r, shown, answer))
<1> DEFINE got == Served(shown, r.page)
           last == Len(got) < PageSize \/ Len(r.raws \o got) >= Len(shown)
<1>1. Reads(kind, shown, flaws, r, answer, WorkdayPage(r, shown, answer))
  <2>1. CASE answer # "ok"
    BY <2>1, LostReads DEF WorkdayPage
  <2>2. CASE answer = "ok"
    <3>1. r.page \in Nat \ {0} /\ r.raws \in Seq(Postings) /\ kind \in PlainRows
      BY DEF Readings, PlainRows, Paged, Adapters, Whole, FirstPage
    <3>2. /\ got \in Seq(Postings) /\ Len(got) <= PageSize
          /\ Len(got) < PageSize => Len(shown) <= Behind(r.page) + PageSize
      BY <3>1, ServedDoes
    <3>3. last \in BOOLEAN /\ WorkdayPage(r, shown, answer) = Kept(r, got, last)
      BY <2>2 DEF WorkdayPage
    <3>4. ASSUME ReadSoFar(kind, shown, flaws, r), last
          PROVE  Len(shown) <= Behind(r.page) + PageSize
      <4> HIDE DEF got
      <4>1. Len(r.raws \o got) = Len(r.raws) + Len(got) /\ Len(r.raws) \in Nat /\ Len(got) \in Nat
        BY <3>1, <3>2
      <4>2. Behind(r.page) \in Nat /\ Len(r.raws) <= Behind(r.page)
        BY <3>1, <3>4, Multiples DEF ReadSoFar
      <4>3. PageSize \in Nat /\ Len(shown) \in Nat
        BY PagingAssumption
      <4> QED BY <3>2, <3>4, <4>1, <4>2, <4>3
    <3> HIDE DEF got, last
    <3> QED BY <2>2, <3>1, <3>2, <3>3, <3>4, PlainPageReads DEF got
  <2> QED BY <2>1, <2>2
<1>2. OraclePage(r, shown, answer) = WorkdayPage(r, shown, answer)
  BY DEF OraclePage, WorkdayPage
<1> QED BY <1>1, <1>2

\* jobsyn: the number of pages.
LEMMA JobsynReads ==
    ASSUME NEW shown \in Seq(Postings), NEW flaws, NEW r \in Readings, NEW answer
    PROVE  Reads("jobsyn", shown, flaws, r, answer, JobsynPage(r, shown, answer))
<1> DEFINE got == Served(shown, r.page)
           last == r.page >= Pages(shown) \/ got = <<>>
<1>1. CASE answer # "ok"
  BY <1>1, LostReads DEF JobsynPage
<1>2. CASE answer = "ok"
  <2>1. r.page \in Nat \ {0} /\ r.raws \in Seq(Postings) /\ "jobsyn" \in PlainRows
    BY DEF Readings, PlainRows, Paged, Adapters, Whole, FirstPage
  <2>2. /\ got \in Seq(Postings) /\ Len(got) <= PageSize
        /\ got = <<>> => Len(shown) <= Behind(r.page)
    BY <2>1, ServedDoes
  <2>3. last \in BOOLEAN /\ JobsynPage(r, shown, answer) = Kept(r, got, last)
    BY <1>2 DEF JobsynPage
  <2>4. last => Len(shown) <= Behind(r.page) + PageSize
    <3> HIDE DEF got
    <3>1. Behind(r.page) \in Nat
      BY <2>1, Multiples
    <3>2. r.page >= Pages(shown) => Len(shown) <= Behind(r.page) + PageSize
      BY <2>1, PagesDoes
    <3>3. PageSize \in Nat /\ Len(shown) \in Nat
      BY PagingAssumption
    <3> QED BY <2>2, <3>1, <3>2, <3>3
  <2> HIDE DEF got, last
  <2> QED BY <1>2, <2>1, <2>2, <2>3, <2>4, PlainPageReads DEF got
<1> QED BY <1>1, <1>2

\* What is new on a page.
LEMMA NewIsNew ==
    ASSUME NEW r \in Readings, NEW got \in Seq(Postings)
    PROVE  /\ New(r, got) \in Seq(Postings)
           /\ Len(New(r, got)) <= Len(got)
           /\ Range(r.raws) \cup Range(New(r, got)) = Range(r.raws) \cup Range(got)
<1>1. /\ New(r, got) \in Seq(Postings) /\ Len(New(r, got)) <= Len(got)
      /\ Range(New(r, got)) = Range(got) \cap (Range(got) \ Range(r.raws))
  BY OnlyDoes DEF New
<1> QED BY <1>1

\* usajobs: a short page.
LEMMA UsajobsReads ==
    ASSUME NEW shown \in Seq(Postings), NEW flaws, NEW r \in Readings, NEW answer
    PROVE  Reads("usajobs", shown, flaws, r, answer, UsajobsPage(r, shown, answer))
<1> DEFINE got == Served(shown, r.page)
           more == New(r, got)
           last == Len(got) < PageSize
<1>1. CASE answer # "ok"
  BY <1>1, LostReads DEF UsajobsPage
<1>2. CASE answer = "ok"
  <2>1. r.page \in Nat \ {0} /\ "usajobs" \in PlainRows
    BY DEF Readings, PlainRows, Paged, Adapters, Whole, FirstPage
  <2>2. /\ got \in Seq(Postings) /\ Len(got) <= PageSize
        /\ last => Len(shown) <= Behind(r.page) + PageSize
    BY <2>1, ServedDoes
  <2>3. last \in BOOLEAN /\ UsajobsPage(r, shown, answer) = Kept(r, more, last)
    BY <1>2 DEF UsajobsPage
  <2> HIDE DEF got, last
  <2>4. /\ more \in Seq(Postings) /\ Len(more) <= Len(got)
        /\ Range(r.raws) \cup Range(more) = Range(r.raws) \cup Range(got)
    BY <2>2, NewIsNew
  <2>5. Len(more) <= PageSize
    BY <2>2, <2>4, PagingAssumption
  <2> HIDE DEF more
  <2> QED BY <1>2, <2>1, <2>2, <2>3, <2>4, <2>5, PlainPageReads DEF got
<1> QED BY <1>1, <1>2

\* A page with nothing on it has everything before it.
LEMMA EmptyPageReads ==
    ASSUME NEW kind \in Paged, NEW shown \in Seq(Postings), NEW flaws, NEW r \in Readings, NEW answer,
           answer = "ok" => Served(shown, r.page) = <<>>
    PROVE  Reads(kind, shown, flaws, r, answer, Ended(r))
<1>1. ASSUME Served(shown, r.page) = <<>>
      PROVE  Top(shown, Behind(r.page)) = Range(shown)
  <2>1. r.page \in Nat \ {0}
    BY DEF Readings
  <2>2. Behind(r.page) \in Nat
    BY <2>1, Multiples
  <2>3. Len(shown) <= Behind(r.page)
    BY <1>1, <2>1, ServedDoes
  <2> QED BY <2>2, <2>3, TopAll
<1>2. answer = "ok" /\ ReadSoFar(kind, shown, flaws, r) =>
        Top(shown, Behind(r.page)) \cap RowsSeen(kind, flaws) = Range(shown) \cap RowsSeen(kind, flaws)
  BY <1>1
<1> QED BY <1>2, EndedReads

\* ultipro: as many jobs as were reported, a short page, or an empty one.
LEMMA UltiproReads ==
    ASSUME NEW shown \in Seq(Postings), NEW flaws, NEW r \in Readings, NEW answer
    PROVE  Reads("ultipro", shown, flaws, r, answer, UltiproPage(r, shown, answer, flaws))
<1> DEFINE got == Served(shown, r.page)
           mapped == Only(r.raws \o got, {j \in DOMAIN flaws : UltiproJob(flaws[j]) = "job"})
           last == Len(mapped) >= Len(shown) \/ Len(got) < PageSize
<1>1. r.page \in Nat \ {0} /\ r.raws \in Seq(Postings) /\ "ultipro" \in PlainRows /\ "ultipro" \in Paged
  BY DEF Readings, PlainRows, Paged, Adapters, Whole, FirstPage
<1>2. CASE answer # "ok"
  BY <1>2, LostReads DEF UltiproPage
<1>3. CASE answer = "ok" /\ got = <<>>
  <2>1. UltiproPage(r, shown, answer, flaws) = Ended(r)
    BY <1>3 DEF UltiproPage
  <2> QED BY <1>1, <1>3, <2>1, EmptyPageReads
<1>4. CASE answer = "ok" /\ got # <<>>
  <2>1. /\ got \in Seq(Postings) /\ Len(got) <= PageSize
        /\ Len(got) < PageSize => Len(shown) <= Behind(r.page) + PageSize
    BY <1>1, ServedDoes
  <2>2. last \in BOOLEAN /\ UltiproPage(r, shown, answer, flaws) = Kept(r, got, last)
    BY <1>4 DEF UltiproPage
  <2> HIDE DEF got
  <2>3. r.raws \o got \in Seq(Postings) /\ Len(r.raws \o got) = Len(r.raws) + Len(got)
        /\ Len(r.raws) \in Nat /\ Len(got) \in Nat
    BY <1>1, <2>1
  <2>4. mapped \in Seq(Postings) /\ Len(mapped) <= Len(r.raws \o got)
    BY <2>3, OnlyDoes
  <2> HIDE DEF mapped
  <2>5. ASSUME ReadSoFar("ultipro", shown, flaws, r), last
        PROVE  Len(shown) <= Behind(r.page) + PageSize
    <3>1. Behind(r.page) \in Nat /\ Len(r.raws) <= Behind(r.page)
      BY <1>1, <2>5, Multiples DEF ReadSoFar
    <3>2. PageSize \in Nat /\ Len(shown) \in Nat /\ Len(mapped) \in Nat
      BY <2>4, PagingAssumption
    <3> QED BY <2>1, <2>3, <2>4, <2>5, <3>1, <3>2
  <2> HIDE DEF last
  <2> QED BY <1>1, <1>4, <2>1, <2>2, <2>5, PlainPageReads DEF got
<1> QED BY <1>2, <1>3, <1>4

\* the_muse: an empty page, or the number of pages.
LEMMA MuseReads ==
    ASSUME NEW shown \in Seq(Postings), NEW flaws, NEW r \in Readings, NEW answer
    PROVE  Reads("the_muse", shown, flaws, r, answer, MusePage(r, shown, answer))
<1> DEFINE got == Served(shown, r.page)
           more == New(r, got)
           last == r.page >= Pages(shown)
<1>1. r.page \in Nat \ {0} /\ "the_muse" \in PlainRows /\ "the_muse" \in Paged
  BY DEF Readings, PlainRows, Paged, Adapters, Whole, FirstPage
<1>2. CASE answer # "ok" \/ got = <<>>
  <2>1. MusePage(r, shown, answer) = Ended(r)
    BY <1>2 DEF MusePage
  <2> QED BY <1>1, <1>2, <2>1, EmptyPageReads
<1>3. CASE answer = "ok" /\ got # <<>>
  <2>1. got \in Seq(Postings) /\ Len(got) <= PageSize
    BY <1>1, ServedDoes
  <2>2. last \in BOOLEAN /\ MusePage(r, shown, answer) = Kept(r, more, last)
    BY <1>3 DEF MusePage
  <2>3. last => Len(shown) <= Behind(r.page) + PageSize
    BY <1>1, PagesDoes
  <2> HIDE DEF got, last
  <2>4. /\ more \in Seq(Postings) /\ Len(more) <= Len(got)
        /\ Range(r.raws) \cup Range(more) = Range(r.raws) \cup Range(got)
    BY <2>1, NewIsNew
  <2>5. Len(more) <= PageSize
    BY <2>1, <2>4, PagingAssumption
  <2> HIDE DEF more
  <2> QED BY <1>1, <1>3, <2>1, <2>2, <2>3, <2>4, <2>5, PlainPageReads DEF got
<1> QED BY <1>2, <1>3

\* calcareers: the number of pages of the first answer, kept, and of each.
LEMMA CalcareersReads ==
    ASSUME NEW shown \in Seq(Postings), NEW flaws, NEW r \in Readings, NEW answer
    PROVE  Reads("calcareers", shown, flaws, r, answer, CalcareersPage(r, shown, answer))
<1> DEFINE got == Served(shown, r.page)
           more == New(r, got)
           total == IF r.page = 1 THEN Pages(shown) ELSE r.total
           last == r.page >= total \/ r.page >= Pages(shown)
           kept == Kept(r, more, last)
           q == [kept EXCEPT !.total = total]
<1>1. r.page \in Nat \ {0} /\ r.raws \in Seq(Postings) /\ "calcareers" \in Paged
  BY DEF Readings, Paged, Adapters, Whole, FirstPage
<1>2. CASE answer # "ok"
  BY <1>2, LostReads DEF CalcareersPage
<1>3. CASE answer = "ok" /\ got = <<>>
  <2>1. CalcareersPage(r, shown, answer) = Ended(r)
    BY <1>3 DEF CalcareersPage
  <2> QED BY <1>1, <1>3, <2>1, EmptyPageReads
<1>4. CASE answer = "ok" /\ got # <<>>
  <2>1. /\ got \in Seq(Postings) /\ Len(got) <= PageSize
        /\ Top(shown, Behind(r.page) + PageSize) = Top(shown, Behind(r.page)) \cup Range(got)
    BY <1>1, ServedDoes
  <2>2. last \in BOOLEAN /\ CalcareersPage(r, shown, answer) = q
    BY <1>4 DEF CalcareersPage
  <2>3. total \in Nat
    BY PagesDoes DEF Readings
  <2>4. ReadSoFar("calcareers", shown, flaws, r) => total = Pages(shown)
    BY <1>1 DEF ReadSoFar
  <2>5. r.page >= Pages(shown) => Len(shown) <= Behind(r.page) + PageSize
    BY <1>1, PagesDoes
  <2>6. ReadSoFar("calcareers", shown, flaws, r) /\ last => Len(shown) <= Behind(r.page) + PageSize
    BY <2>4, <2>5
  <2> HIDE DEF got, total, last
  <2>7. /\ more \in Seq(Postings) /\ Len(more) <= Len(got)
        /\ Range(r.raws) \cup Range(more) = Range(r.raws) \cup Range(got)
    BY <2>1, NewIsNew
  <2>8. Len(more) <= PageSize
    BY <2>1, <2>7, PagingAssumption
  <2> HIDE DEF more
  <2>9. /\ kept \in Readings /\ kept.quiet = r.quiet /\ kept.page = r.page + 1 /\ kept.raws = r.raws \o more
        /\ kept.jobs = r.jobs /\ kept.query = r.query /\ kept.before = r.before
        /\ kept.end = "more" => r.page # MaxPages
        /\ kept.end = "done" => r.page = MaxPages \/ last
    BY <2>2, <2>7, KeptIs
  <2> HIDE DEF kept
  <2>10. /\ q \in Readings /\ q.quiet = r.quiet /\ q.page = r.page + 1 /\ q.raws = r.raws \o more
         /\ q.jobs = r.jobs /\ q.query = r.query /\ q.before = r.before /\ q.total = total
         /\ q.end = kept.end
    <3> HIDE DEF Flags
    <3> QED BY <2>3, <2>9 DEF Readings
  <2> HIDE DEF q
  <2>11. Range(q.raws) = Range(r.raws) \cup Range(more)
    BY <1>1, <2>7, <2>10, Joined
  <2>12. Top(shown, Behind(r.page) + PageSize) \subseteq RowsSeen("calcareers", flaws)
    BY DEF RowsSeen, Top
  <2>13. ASSUME ReadSoFar("calcareers", shown, flaws, r)
         PROVE  /\ Range(r.raws) \cup Range(more)
                      = Top(shown, Behind(r.page) + PageSize) \cap RowsSeen("calcareers", flaws)
                /\ q.end = "done" => r.page = MaxPages \/ Len(shown) <= Behind(r.page) + PageSize
                /\ Range(q.before) \subseteq Range(q.raws)
                /\ q.total = Pages(shown)
    BY <2>1, <2>4, <2>6, <2>7, <2>9, <2>10, <2>11, <2>12, <2>13 DEF ReadSoFar
  <2> QED BY <1>1, <1>4, <2>2, <2>7, <2>8, <2>9, <2>10, <2>13, PageReads
<1> QED BY <1>2, <1>3, <1>4

-----------------------------------------------------------------------------
(* The sites read as HTML *)

\* icims, talentbrew and taleo end a search at a page without a row they can
\* read: that is its end as long as a page is never flawed from top to bottom.
FewFlawed == Cardinality(Flawed) < PageSize

Html == {"icims", "talentbrew", "taleo"}

\* What is wrong with the records.
Traited(flaws) ==
    /\ flaws \in [Postings -> Traits]
    /\ \A j \in Postings \ Flawed : flaws[j] = "good"

LEMMA SomeRow ==
    ASSUME FewFlawed, NEW kind, NEW flaws, Traited(flaws),
           NEW got \in Seq(Postings), IsInjective(got), Len(got) = PageSize
    PROVE  Range(got) \cap RowsSeen(kind, flaws) # {}
<1>1. SUFFICES ASSUME Range(got) \cap RowsSeen(kind, flaws) = {} PROVE FALSE
  OBVIOUS
<1>2. \A j \in Postings : flaws[j] = "good" => j \in RowsSeen(kind, flaws)
  BY DEF RowsSeen, IcimsRow, TalentbrewRow, TaleoRow
<1>3. \A i \in 1 .. Len(got) : got[i] \in Flawed
  <2>1. \A i \in 1 .. Len(got) : got[i] \in Postings /\ got[i] \in Range(got)
    BY DEF Range
  <2> QED BY <1>1, <1>2, <2>1 DEF Traited
<1>4. PageSize \in Nat
  BY PagingAssumption
<1>5. IsFiniteSet(1 .. PageSize) /\ Cardinality(1 .. PageSize) = PageSize
  <2>1. IsFiniteSet(1 .. PageSize) /\ Cardinality(1 .. PageSize) = IF 1 > PageSize THEN 0 ELSE PageSize - 1 + 1
    BY <1>4, FS_Interval
  <2> QED BY <1>4, <2>1
<1>6. IsFiniteSet(Flawed)
  BY PostingsAssumption, FS_Subset
<1>7. got \in [1 .. PageSize -> Flawed]
  <2>1. got = [i \in 1 .. Len(got) |-> got[i]]
    OBVIOUS
  <2> QED BY <1>3, <2>1
<1>8. \E x, y \in 1 .. PageSize : x # y /\ got[x] = got[y]
  BY <1>5, <1>6, <1>7, FS_PigeonHole DEF FewFlawed
<1>9. DOMAIN got = 1 .. PageSize
  OBVIOUS
<1> QED BY <1>8, <1>9 DEF IsInjective

LEMMA NoRowLeft ==
    ASSUME FewFlawed, NEW kind, NEW flaws, Traited(flaws), NEW shown \in Seq(Postings), IsInjective(shown),
           NEW page \in Nat \ {0}, Range(Served(shown, page)) \cap RowsSeen(kind, flaws) = {}
    PROVE  Top(shown, Behind(page)) \cap RowsSeen(kind, flaws) = Range(shown) \cap RowsSeen(kind, flaws)
<1> DEFINE got == Served(shown, page)
<1>1. /\ got \in Seq(Postings) /\ Len(got) <= PageSize /\ IsInjective(got)
      /\ Top(shown, Behind(page) + PageSize) = Top(shown, Behind(page)) \cup Range(got)
      /\ Len(got) < PageSize => Len(shown) <= Behind(page) + PageSize
  BY ServedDoes
<1>2. Range(got) \cap RowsSeen(kind, flaws) = {}
  OBVIOUS
<1> HIDE DEF got
<1>3. Len(got) # PageSize
  BY <1>1, <1>2, SomeRow
<1>4. Len(got) \in Nat /\ PageSize \in Nat
  BY <1>1, PagingAssumption
<1>5. Len(shown) <= Behind(page) + PageSize
  BY <1>1, <1>3, <1>4
<1>6. Behind(page) \in Nat
  BY Multiples
<1>7. Top(shown, Behind(page) + PageSize) = Range(shown)
  <2>1. Behind(page) + PageSize \in Nat
    BY <1>4, <1>6
  <2> QED BY <1>5, <2>1, TopAll
<1> QED BY <1>1, <1>2, <1>7

LEMMA IcimsReads ==
    ASSUME FewFlawed, NEW kind \in {"icims", "talentbrew"}, NEW flaws, Traited(flaws),
           NEW shown \in Seq(Postings), IsInjective(shown), NEW r \in Readings, NEW answer
    PROVE  Reads(kind, shown, flaws, r, answer, IcimsPage(r, shown, answer, RowsSeen(kind, flaws)))
<1> DEFINE rows == RowsSeen(kind, flaws)
           served == Served(shown, r.page)
           got == Only(served, rows)
           next == IcimsPage(r, shown, answer, rows)
<1>1. r.page \in Nat \ {0} /\ r.raws \in Seq(Postings) /\ kind \in Paged /\ kind # "calcareers"
  BY DEF Readings, Paged, Adapters, Whole, FirstPage
<1>2. /\ served \in Seq(Postings) /\ Len(served) <= PageSize
      /\ Top(shown, Behind(r.page) + PageSize) = Top(shown, Behind(r.page)) \cup Range(served)
  BY <1>1, ServedDoes
<1>3. Range(served) \cap rows = {} =>
         Top(shown, Behind(r.page)) \cap rows = Range(shown) \cap rows
  BY <1>1, NoRowLeft
<1>4. \/ answer # "ok" /\ next = Lost(r)
      \/ answer # "ok" /\ next = Ended(r)
      \/ answer = "ok" /\ got = <<>> /\ next = Ended(r)
      \/ answer = "ok" /\ got # <<>> /\ next = Kept(r, got, FALSE)
  BY DEF IcimsPage
<1>5. Reads(kind, shown, flaws, r, answer, Lost(r))
  BY LostReads
<1>6. answer # "ok" => Reads(kind, shown, flaws, r, answer, Ended(r))
  BY <1>1, EndedReads
<1> HIDE DEF served, next
<1>7. /\ got \in Seq(Postings) /\ Range(got) = Range(served) \cap rows /\ Len(got) <= Len(served)
  BY <1>2, OnlyDoes
<1> HIDE DEF got
<1>8. CASE answer = "ok" /\ got = <<>>
  <2>1. Top(shown, Behind(r.page)) \cap rows = Range(shown) \cap rows
    BY <1>3, <1>7, <1>8, EmptyRange
  <2>2. Reads(kind, shown, flaws, r, answer, Ended(r))
    BY <1>1, <2>1, EndedReads
  <2> QED BY <1>4, <1>8, <2>2 DEF next
<1>9. CASE answer = "ok" /\ got # <<>>
  <2> DEFINE q == Kept(r, got, FALSE)
  <2>1. /\ q \in Readings /\ q.quiet = r.quiet /\ q.page = r.page + 1 /\ q.raws = r.raws \o got
        /\ q.jobs = r.jobs /\ q.query = r.query /\ q.before = r.before
        /\ q.end = "more" => r.page # MaxPages
        /\ q.end = "done" => r.page = MaxPages
    BY <1>7, KeptIs
  <2>2. next = q
    BY <1>4, <1>9
  <2> HIDE DEF q
  <2>3. Len(got) <= PageSize
    BY <1>2, <1>7, PagingAssumption
  <2>4. Range(q.raws) = Range(r.raws) \cup Range(got)
    BY <1>1, <1>7, <2>1, Joined
  <2>5. ASSUME ReadSoFar(kind, shown, flaws, r)
        PROVE  /\ Range(r.raws) \cup Range(got) = Top(shown, Behind(r.page) + PageSize) \cap rows
               /\ Range(q.before) \subseteq Range(q.raws)
    BY <1>2, <1>7, <2>1, <2>4, <2>5 DEF ReadSoFar
  <2>6. Reads(kind, shown, flaws, r, "ok", q)
    BY <1>1, <1>7, <2>1, <2>3, <2>5, PageReads
  <2> QED BY <1>9, <2>2, <2>6 DEF next
<1> QED BY <1>4, <1>5, <1>6, <1>8, <1>9 DEF next

\* taleo: past its end the site may serve the last page once more.
LEMMA TaleoReads ==
    ASSUME FewFlawed, NEW flaws, Traited(flaws), NEW shown \in Seq(Postings), IsInjective(shown),
           NEW r \in Readings, NEW answer, NEW again
    PROVE  Reads("taleo", shown, flaws, r, answer, TaleoPage(r, shown, answer, flaws, again))
<1> DEFINE page == IF again /\ r.page > Pages(shown) /\ shown # <<>> THEN Pages(shown) ELSE r.page
           rows == RowsSeen("taleo", flaws)
           served == Served(shown, page)
           got == Only(served, rows)
           new == Only(served, rows \ Range(r.raws))
           over == got = <<>> \/ got = r.before \/ new = <<>>
           kept == Kept(r, new, FALSE)
           q == [kept EXCEPT !.before = got]
           next == TaleoPage(r, shown, answer, flaws, again)
<1>1. r.page \in Nat \ {0} /\ r.raws \in Seq(Postings) /\ "taleo" \in Paged
  BY DEF Readings, Paged, Adapters, Whole, FirstPage
<1>2. rows = {j \in DOMAIN flaws : TaleoRow(flaws[j])}
  BY DEF RowsSeen, Traited
<1>3. \/ answer # "ok" /\ next = Lost(r)
      \/ answer # "ok" /\ next = Ended(r)
      \/ answer = "ok" /\ over /\ next = Ended(r)
      \/ answer = "ok" /\ ~over /\ next = q
  <2> HIDE DEF rows
  <2> QED BY <1>2 DEF TaleoPage
<1>4. Reads("taleo", shown, flaws, r, answer, Lost(r))
  BY LostReads
<1>5. answer # "ok" => Reads("taleo", shown, flaws, r, answer, Ended(r))
  BY <1>1, EndedReads
<1>6. page \in Nat \ {0} /\ (page # r.page => r.page > Pages(shown))
  BY <1>1, PagesDoes
<1>7. r.page > Pages(shown) => Len(shown) <= Behind(r.page)
  BY <1>1, PagesDoes
<1> HIDE DEF next, rows, page
<1>8. /\ served \in Seq(Postings) /\ Len(served) <= PageSize
      /\ Top(shown, Behind(page) + PageSize) = Top(shown, Behind(page)) \cup Range(served)
      /\ Range(served) \cap Top(shown, Behind(page)) = {}
  BY <1>6, ServedDoes
<1>9. Range(served) \cap rows = {} /\ page = r.page =>
         Top(shown, Behind(r.page)) \cap rows = Range(shown) \cap rows
  BY <1>1, NoRowLeft DEF rows
<1> HIDE DEF served
<1>10. /\ got \in Seq(Postings) /\ Range(got) = Range(served) \cap rows
       /\ new \in Seq(Postings) /\ Range(new) = Range(served) \cap (rows \ Range(r.raws))
       /\ Len(new) <= Len(served)
  BY <1>8, OnlyDoes
<1> HIDE DEF got, new
<1>11. Behind(r.page) \in Nat /\ Behind(r.page) + PageSize \in Nat
  <2>1. Behind(r.page) \in Nat
    BY <1>1, Multiples
  <2> QED BY <2>1, PagingAssumption
<1>12. ASSUME page # r.page
       PROVE  /\ Top(shown, Behind(r.page)) = Range(shown)
              /\ Top(shown, Behind(r.page) + PageSize) = Range(shown)
  <2>1. Len(shown) <= Behind(r.page)
    BY <1>6, <1>7, <1>12
  <2>2. Len(shown) <= Behind(r.page) + PageSize
    BY <1>11, <2>1, PagingAssumption
  <2> QED BY <1>11, <2>1, <2>2, TopAll
<1>13. Range(served) \subseteq Range(shown)
  <2>1. Top(shown, Behind(page) + PageSize) \subseteq Range(shown)
    BY DEF Top, Range
  <2> QED BY <1>8, <2>1
<1>14. CASE answer = "ok" /\ over
  <2>1. ASSUME ReadSoFar("taleo", shown, flaws, r)
        PROVE  Top(shown, Behind(r.page)) \cap rows = Range(shown) \cap rows
    <3>1. CASE page = r.page
      <4>1. /\ Range(r.raws) = Top(shown, Behind(r.page)) \cap rows
            /\ Range(r.before) \subseteq Range(r.raws)
        BY <2>1 DEF ReadSoFar, rows
      <4>2. Range(served) \cap rows \subseteq Range(r.raws)
        BY <1>10, <1>14, <4>1, EmptyRange
      <4> QED BY <1>8, <1>9, <3>1, <4>1, <4>2
    <3>2. CASE page # r.page
      BY <1>12, <3>2
    <3> QED BY <3>1, <3>2
  <2>2. Reads("taleo", shown, flaws, r, answer, Ended(r))
    BY <1>1, <2>1, EndedReads DEF rows
  <2> QED BY <1>3, <1>14, <2>2 DEF next
<1>15. CASE answer = "ok" /\ ~over
  <2>1. next = q
    BY <1>3, <1>15
  <2>2. /\ kept \in Readings /\ kept.quiet = r.quiet /\ kept.page = r.page + 1 /\ kept.raws = r.raws \o new
        /\ kept.jobs = r.jobs /\ kept.query = r.query
        /\ kept.end = "more" => r.page # MaxPages
        /\ kept.end = "done" => r.page = MaxPages
    BY <1>10, KeptIs
  <2> HIDE DEF kept
  <2>3. /\ q \in Readings /\ q.quiet = r.quiet /\ q.page = r.page + 1 /\ q.raws = r.raws \o new
        /\ q.jobs = r.jobs /\ q.query = r.query /\ q.before = got /\ q.end = kept.end
    <3> HIDE DEF Flags
    <3> QED BY <1>10, <2>2 DEF Readings
  <2> HIDE DEF q
  <2>4. Len(new) <= PageSize
    BY <1>8, <1>10, PagingAssumption
  <2>5. Range(q.raws) = Range(r.raws) \cup Range(new)
    BY <1>1, <1>10, <2>3, Joined
  <2>6. ASSUME ReadSoFar("taleo", shown, flaws, r)
        PROVE  /\ Range(r.raws) \cup Range(new) = Top(shown, Behind(r.page) + PageSize) \cap rows
               /\ Range(q.before) \subseteq Range(q.raws)
    <3>1. Range(r.raws) = Top(shown, Behind(r.page)) \cap rows
      BY <2>6 DEF ReadSoFar, rows
    <3>2. Range(r.raws) \cup Range(new) = Top(shown, Behind(r.page) + PageSize) \cap rows
      <4>1. CASE page = r.page
        BY <1>8, <1>10, <3>1, <4>1
      <4>2. CASE page # r.page
        BY <1>10, <1>12, <1>13, <3>1, <4>2
      <4> QED BY <4>1, <4>2
    <3> QED BY <1>10, <2>3, <2>5, <3>2
  <2>7. Reads("taleo", shown, flaws, r, "ok", q)
    BY <1>1, <1>10, <2>2, <2>3, <2>4, <2>6, PageReads DEF rows
  <2> QED BY <1>15, <2>1, <2>7 DEF next
<1> QED BY <1>3, <1>4, <1>5, <1>14, <1>15 DEF next

-----------------------------------------------------------------------------
(* The adapters of one request *)

LEMMA OneRequestReads ==
    ASSUME NEW kind \in Whole \cup FirstPage, NEW shown \in Seq(Postings), NEW flaws,
           NEW r \in Readings, NEW more \in Seq(Postings),
           Range(more) \subseteq Top(shown, Limit(kind, shown)),
           ReadSoFar(kind, shown, flaws, r) =>
              Top(shown, Limit(kind, shown)) \subseteq Range(r.raws) \cup Range(more)
    PROVE  Reads(kind, shown, flaws, r, "ok", Kept(r, more, TRUE))
<1> DEFINE q == Kept(r, more, TRUE)
<1>1. /\ q \in Readings /\ q.quiet = r.quiet /\ q.raws = r.raws \o more
      /\ q.jobs = r.jobs /\ q.query = r.query /\ q.end = "done"
  BY KeptIs
<1> HIDE DEF q
<1>2. kind \notin Paged /\ kind \notin Html
  BY DEF Paged, Html, Whole, FirstPage
<1>3. r.raws \in Seq(Postings)
  BY DEF Readings
<1>4. Range(q.raws) = Range(r.raws) \cup Range(more)
  BY <1>1, <1>3, Joined
<1>5. ASSUME ReadSoFar(kind, shown, flaws, r) PROVE ReadThrough(kind, shown, flaws, q)
  <2>1. Range(r.raws) = {}
    <3>1. Range(r.raws) \subseteq Top(shown, 0)
      BY <1>2, <1>5, Multiples DEF ReadSoFar
    <3>2. Top(shown, 0) = {}
      BY DEF Top
    <3> QED BY <3>1, <3>2
  <2>2. Top(shown, Limit(kind, shown)) \subseteq RowsSeen(kind, flaws)
    BY <1>2 DEF Html, RowsSeen, Top
  <2>3. Range(q.raws) = Top(shown, Limit(kind, shown)) \cap RowsSeen(kind, flaws)
    BY <1>4, <1>5, <2>1, <2>2
  <2> QED BY <1>1, <1>5, <2>3 DEF ReadSoFar, ReadThrough
<1> QED BY <1>1, <1>5 DEF Reads, q

\* The whole board, from those that fail and from those that answer nothing.
LEMMA WholeReads ==
    ASSUME NEW kind \in Whole, NEW shown \in Seq(Postings), NEW flaws, NEW r \in Readings, NEW answer
    PROVE  /\ Reads(kind, shown, flaws, r, answer, WholeBoard(r, shown, answer))
           /\ Reads(kind, shown, flaws, r, answer, FeedBoard(r, shown, answer))
<1>1. answer # "ok" => Reads(kind, shown, flaws, r, answer, Ended(r))
  BY EndedIs DEF Reads
<1>2. Reads(kind, shown, flaws, r, answer, Lost(r))
  BY LostReads
<1>3. Top(shown, Limit(kind, shown)) = Range(shown)
  <2>1. Limit(kind, shown) = Len(shown)
    BY DEF Limit, Whole, FirstPage
  <2> QED BY <2>1, TopAll
<1>4. Reads(kind, shown, flaws, r, "ok", Kept(r, shown, TRUE))
  BY <1>3, OneRequestReads
<1> QED BY <1>1, <1>2, <1>4 DEF WholeBoard, FeedBoard

\* The first page.
LEMMA FirstPageReads ==
    ASSUME NEW kind \in FirstPage, NEW shown \in Seq(Postings), NEW flaws, NEW r \in Readings, NEW answer
    PROVE  /\ Reads(kind, shown, flaws, r, answer, SmartrecruitersBoard(r, shown, answer))
           /\ Reads(kind, shown, flaws, r, answer, AdzunaPage(r, shown, answer))
<1> DEFINE got == Served(shown, 1)
           new == New(r, got)
<1>1. answer # "ok" => Reads(kind, shown, flaws, r, answer, Ended(r))
  BY EndedIs DEF Reads
<1>2. Reads(kind, shown, flaws, r, answer, Lost(r))
  BY LostReads
<1>3. got \in Seq(Postings) /\ Top(shown, Limit(kind, shown)) = Range(got)
  <2>1. /\ got \in Seq(Postings)
        /\ Top(shown, Behind(1) + PageSize) = Top(shown, Behind(1)) \cup Range(got)
    BY ServedDoes
  <2>2. Behind(1) = 0 /\ Behind(1) + PageSize = Limit(kind, shown)
    BY Multiples, PagingAssumption DEF Limit
  <2>3. Top(shown, 0) = {}
    BY DEF Top
  <2> QED BY <2>1, <2>2, <2>3
<1>4. /\ SmartrecruitersBoard(r, shown, answer) = IF answer # "ok" THEN Lost(r) ELSE Kept(r, got, TRUE)
      /\ AdzunaPage(r, shown, answer) = IF answer # "ok" THEN Ended(r) ELSE Kept(r, new, TRUE)
  BY DEF SmartrecruitersBoard, AdzunaPage
<1> HIDE DEF got
<1>5. new \in Seq(Postings) /\ Range(r.raws) \cup Range(new) = Range(r.raws) \cup Range(got)
      /\ Range(new) \subseteq Range(got)
  <2>1. new \in Seq(Postings) /\ Range(new) = Range(got) \cap (Range(got) \ Range(r.raws))
    BY <1>3, OnlyDoes DEF New
  <2> QED BY <2>1
<1> HIDE DEF new
<1>6. Reads(kind, shown, flaws, r, "ok", Kept(r, got, TRUE))
  BY <1>3, OneRequestReads
<1>7. Reads(kind, shown, flaws, r, "ok", Kept(r, new, TRUE))
  BY <1>3, <1>5, OneRequestReads
<1> QED BY <1>1, <1>2, <1>4, <1>6, <1>7

-----------------------------------------------------------------------------
(* Any adapter *)

LEMMA RequestedReads ==
    ASSUME FewFlawed, NEW kind \in Adapters, NEW flaws, Traited(flaws),
           NEW shown \in Seq(Postings), IsInjective(shown), NEW r \in Readings, NEW answer, NEW again
    PROVE  Reads(kind, shown, flaws, r, answer, Requested(kind, r, shown, answer, flaws, again))
<1> DEFINE q == Requested(kind, r, shown, answer, flaws, again)
<1>1. /\ kind = "workday" => q = WorkdayPage(r, shown, answer)
      /\ kind = "oracle_cloud" => q = OraclePage(r, shown, answer)
      /\ kind = "jobsyn" => q = JobsynPage(r, shown, answer)
      /\ kind = "taleo" => q = TaleoPage(r, shown, answer, flaws, again)
  BY Zenon DEF Requested
<1>2. /\ kind = "icims" => q = IcimsPage(r, shown, answer, {j \in DOMAIN flaws : IcimsRow(flaws[j])})
      /\ kind = "talentbrew" =>
            q = IcimsPage(r, shown, answer, {j \in DOMAIN flaws : TalentbrewRow(flaws[j])})
  BY Zenon DEF Requested
<1>3. /\ kind = "ultipro" => q = UltiproPage(r, shown, answer, flaws)
      /\ kind = "usajobs" => q = UsajobsPage(r, shown, answer)
      /\ kind = "the_muse" => q = MusePage(r, shown, answer)
      /\ kind = "calcareers" => q = CalcareersPage(r, shown, answer)
      /\ kind = "adzuna" => q = AdzunaPage(r, shown, answer)
  BY Zenon DEF Requested
<1>4. /\ kind \in {"remoteok", "indeed"} => q = FeedBoard(r, shown, answer)
      /\ kind = "smartrecruiters" => q = SmartrecruitersBoard(r, shown, answer)
      /\ kind \in {"greenhouse", "lever", "ashby", "workable"} => q = WholeBoard(r, shown, answer)
  BY ZenonT(60) DEF Requested
<1> HIDE DEF q
<1>5. CASE kind \in {"workday", "oracle_cloud"}
  BY <1>1, <1>5, WorkdayReads DEF q
<1>6. CASE kind = "jobsyn"
  BY <1>1, <1>6, JobsynReads DEF q
<1>7. CASE kind \in {"icims", "talentbrew"}
  <2>1. /\ kind = "icims" => RowsSeen(kind, flaws) = {j \in DOMAIN flaws : IcimsRow(flaws[j])}
        /\ kind = "talentbrew" => RowsSeen(kind, flaws) = {j \in DOMAIN flaws : TalentbrewRow(flaws[j])}
    BY DEF RowsSeen, Traited
  <2> QED BY <1>2, <1>7, <2>1, IcimsReads DEF q
<1>8. CASE kind = "taleo"
  BY <1>1, <1>8, TaleoReads DEF q
<1>9. CASE kind = "ultipro"
  BY <1>3, <1>9, UltiproReads DEF q
<1>10. CASE kind = "usajobs"
  BY <1>3, <1>10, UsajobsReads DEF q
<1>11. CASE kind = "the_muse"
  BY <1>3, <1>11, MuseReads DEF q
<1>12. CASE kind = "calcareers"
  BY <1>3, <1>12, CalcareersReads DEF q
<1>13. CASE kind \in FirstPage
  BY <1>3, <1>4, <1>13, FirstPageReads DEF FirstPage, q
<1>14. CASE kind \in Whole
  BY <1>4, <1>14, WholeReads DEF Whole, q
<1> QED BY <1>5, <1>6, <1>7, <1>8, <1>9, <1>10, <1>11, <1>12, <1>13, <1>14
        DEF Adapters, FirstPage, Whole

LEMMA FindableIs ==
    ASSUME NEW kind \in Adapters, NEW shown, NEW flaws
    PROVE  Findable(kind, shown, flaws)
              = {j \in Top(shown, Limit(kind, shown)) : Mapped(kind, flaws[j]) = "job"}
<1> DEFINE fit(n) == {shown[i] : i \in {k \in DOMAIN shown : k <= n /\ Mapped(kind, flaws[shown[k]]) = "job"}}
<1>1. kind \in FirstPage => Findable(kind, shown, flaws) = fit(PageSize)
  BY Zenon DEF Findable, FirstPage
<1>2. kind \in Whole => Findable(kind, shown, flaws) = fit(Len(shown))
  BY ZenonT(60) DEF Findable, Whole
<1>3. kind \in Paged => Findable(kind, shown, flaws) = fit(MaxPages * PageSize)
  <2>1. kind \notin {"smartrecruiters", "adzuna"}
        /\ kind \notin {"greenhouse", "lever", "ashby", "workable", "remoteok", "indeed"}
        => Findable(kind, shown, flaws) = fit(MaxPages * PageSize)
    BY ZenonT(60) DEF Findable
  <2> QED BY <2>1 DEF Paged, Whole, FirstPage
<1>4. Findable(kind, shown, flaws) = fit(Limit(kind, shown))
  BY <1>1, <1>2, <1>3 DEF Limit, Paged, Whole, FirstPage
<1>5. \A n : fit(n) = {j \in Top(shown, n) : Mapped(kind, flaws[j]) = "job"}
  BY DEF Top
<1> HIDE DEF fit
<1> QED BY <1>4, <1>5

LEMMA JobsHaveRows ==
    ASSUME NEW kind, NEW flaws, NEW j \in Postings, Mapped(kind, flaws[j]) = "job"
    PROVE  j \in RowsSeen(kind, flaws)
<1>1. kind = "icims" => IcimsRow(flaws[j])
  <2>1. SUFFICES ASSUME kind = "icims", ~IcimsRow(flaws[j]) PROVE FALSE
    OBVIOUS
  <2>2. Mapped(kind, flaws[j]) = "skip"
    BY Zenon, <2>1 DEF Mapped
  <2> QED BY <2>2
<1>2. kind = "talentbrew" => TalentbrewRow(flaws[j])
  <2>1. SUFFICES ASSUME kind = "talentbrew", ~TalentbrewRow(flaws[j]) PROVE FALSE
    OBVIOUS
  <2>2. Mapped(kind, flaws[j]) = "skip"
    BY Zenon, <2>1 DEF Mapped
  <2> QED BY <2>2
<1>3. kind = "taleo" => TaleoRow(flaws[j])
  <2>1. SUFFICES ASSUME kind = "taleo", ~TaleoRow(flaws[j]) PROVE FALSE
    OBVIOUS
  <2>2. Mapped(kind, flaws[j]) = "skip"
    BY Zenon, <2>1 DEF Mapped
  <2> QED BY <2>2
<1> QED BY <1>1, <1>2, <1>3 DEF RowsSeen

\* What is known of a reading between two requests, when it was quiet.
Sound(kind, shown, flaws, r) ==
    /\ r.end = "more" => ReadSoFar(kind, shown, flaws, r)
    /\ r.end = "done" => Range(r.jobs) = Findable(kind, shown, flaws)

\* The end of a search: its records become jobs.
LEMMA DiscoveredDoes ==
    ASSUME NEW kind \in Adapters, NEW flaws, Traited(flaws), NEW shown \in Seq(Postings), NEW q \in Readings
    PROVE  LET d == Discovered(kind, q, flaws)
           IN /\ d \in Readings /\ d.quiet = q.quiet
              /\ /\ q.end = "more" => ReadSoFar(kind, shown, flaws, q)
                 /\ q.end = "done" => ReadThrough(kind, shown, flaws, q)
                 => Sound(kind, shown, flaws, d)
<1> DEFINE jobs == {j \in DOMAIN flaws : Mapped(kind, flaws[j]) = "job"}
           new == Only(q.raws, jobs \ Range(q.jobs))
           all == q.jobs \o new
           again == [q EXCEPT !.query = q.query + 1, !.page = 1, !.end = "more",
                              !.jobs = all, !.raws = <<>>, !.before = <<>>]
           over == [NewReading EXCEPT !.jobs = all, !.end = "done", !.quiet = q.quiet]
           d == Discovered(kind, q, flaws)
<1>1. \/ q.end # "done" /\ d = q
      \/ d = Lost(q)
      \/ q.end = "done" /\ d = again
      \/ q.end = "done" /\ d = over
  BY Zenon DEF Discovered
<1> HIDE DEF d
<1>2. q.raws \in Seq(Postings) /\ q.jobs \in Seq(Postings) /\ q.query \in Nat \ {0} /\ <<>> \in Seq(Postings)
  BY DEF Readings
<1>3. jobs = {j \in Postings : Mapped(kind, flaws[j]) = "job"}
  BY DEF Traited
<1> HIDE DEF jobs
<1>4. new \in Seq(Postings) /\ Range(new) = Range(q.raws) \cap (jobs \ Range(q.jobs))
  BY <1>2, OnlyDoes
<1> HIDE DEF new
<1>5. all \in Seq(Postings) /\ Range(all) = Range(q.jobs) \cup (Range(q.raws) \cap jobs)
  <2>1. all \in Seq(Postings) /\ Range(all) = Range(q.jobs) \cup Range(new)
    BY <1>2, <1>4, Joined
  <2> QED BY <1>4, <2>1
<1>6. /\ again \in Readings /\ again.quiet = q.quiet /\ again.end = "more" /\ again.query = q.query + 1
      /\ again.page = 1 /\ again.raws = <<>> /\ again.before = <<>> /\ again.jobs = all
  <2>1. q.query + 1 \in Nat \ {0} /\ 1 \in Nat \ {0} /\ all \in Seq(Postings) /\ <<>> \in Seq(Postings)
    BY <1>2, <1>5
  <2> HIDE DEF Flags, all
  <2> QED BY <2>1 DEF Readings
<1>7. over \in Readings /\ over.quiet = q.quiet /\ over.end = "done" /\ over.jobs = all
  <2> HIDE DEF Flags
  <2> QED BY <1>5, NewIs DEF Readings
<1> HIDE DEF all, again, over
<1>8. d \in Readings /\ d.quiet = q.quiet
  BY <1>1, <1>6, <1>7, LostIs
<1>9. ASSUME /\ q.end = "more" => ReadSoFar(kind, shown, flaws, q)
             /\ q.end = "done" => ReadThrough(kind, shown, flaws, q)
      PROVE  Sound(kind, shown, flaws, d)
  <2>1. ASSUME q.end = "done" PROVE Range(all) = Findable(kind, shown, flaws)
    <3>1. /\ Range(q.raws) = Top(shown, Limit(kind, shown)) \cap RowsSeen(kind, flaws)
          /\ Range(q.jobs) = IF q.query = 1 THEN {} ELSE Findable(kind, shown, flaws)
      BY <1>9, <2>1 DEF ReadThrough
    <3>2. Findable(kind, shown, flaws) = Top(shown, Limit(kind, shown)) \cap jobs
      <4>1. Top(shown, Limit(kind, shown)) \subseteq Postings
        BY DEF Top
      <4>2. Findable(kind, shown, flaws)
               = {j \in Top(shown, Limit(kind, shown)) : Mapped(kind, flaws[j]) = "job"}
        BY FindableIs
      <4> QED BY <1>3, <4>1, <4>2
    <3>3. jobs \subseteq RowsSeen(kind, flaws)
      BY <1>3, JobsHaveRows
    <3> QED BY <1>5, <3>1, <3>2, <3>3
  <2>2. CASE q.end # "done" /\ d = q
    BY <1>9, <2>2 DEF Sound
  <2>3. CASE d = Lost(q)
    BY <2>3, LostIs DEF Sound
  <2>4. CASE q.end = "done" /\ d = again
    <3>1. again.query # 1 /\ Range(again.jobs) = Findable(kind, shown, flaws)
      BY <1>2, <1>6, <2>1, <2>4
    <3>2. Range(again.raws) = {} /\ Range(again.before) = {} /\ Len(again.raws) = 0
      BY <1>6, EmptyRange
    <3>3. Top(shown, 0) = {}
      BY DEF Top
    <3>4. 1 <= MaxPages
      BY PagingAssumption
    <3>5. ReadSoFar(kind, shown, flaws, again)
      BY <1>6, <3>1, <3>2, <3>3, <3>4, Multiples DEF ReadSoFar
    <3> QED BY <1>6, <2>4, <3>5 DEF Sound
  <2>5. CASE q.end = "done" /\ d = over
    BY <1>7, <2>1, <2>5 DEF Sound
  <2> QED BY <1>1, <2>2, <2>3, <2>4, <2>5
<1> QED BY <1>8, <1>9 DEF d

\* One request of a reading that was sound while it was quiet.
LEMMA RequestSound ==
    ASSUME FewFlawed, NEW kind \in Adapters, NEW flaws, Traited(flaws),
           NEW shown \in Seq(Postings), IsInjective(shown), NEW r \in Readings, NEW answer, NEW again,
           r.end = "more", r.quiet => Sound(kind, shown, flaws, r)
    PROVE  LET q == Requested(kind, r, shown, answer, flaws, again)
               d == Discovered(kind, q, flaws)
               w == [d EXCEPT !.quiet = d.quiet /\ answer = "ok"]
           IN w \in Readings /\ (w.quiet => Sound(kind, shown, flaws, w))
<1> DEFINE q == Requested(kind, r, shown, answer, flaws, again)
           d == Discovered(kind, q, flaws)
           flag == d.quiet /\ answer = "ok"
           w == [d EXCEPT !.quiet = flag]
<1>1. Reads(kind, shown, flaws, r, answer, q)
  BY RequestedReads
<1> HIDE DEF q
<1>2. /\ q \in Readings /\ q.quiet = r.quiet
      /\ answer = "ok" /\ ReadSoFar(kind, shown, flaws, r) =>
            /\ q.end = "more" => ReadSoFar(kind, shown, flaws, q)
            /\ q.end = "done" => ReadThrough(kind, shown, flaws, q)
  BY <1>1 DEF Reads
<1>3. /\ d \in Readings /\ d.quiet = q.quiet
      /\ /\ q.end = "more" => ReadSoFar(kind, shown, flaws, q)
         /\ q.end = "done" => ReadThrough(kind, shown, flaws, q)
         => Sound(kind, shown, flaws, d)
  BY <1>2, DiscoveredDoes
<1> HIDE DEF d
<1>4. flag \in Flags /\ (flag => d.quiet /\ answer = "ok")
  BY DEF Flags
<1> HIDE DEF flag, Flags
<1>5. /\ w \in Readings /\ w.quiet = flag /\ w.end = d.end /\ w.page = d.page /\ w.raws = d.raws
      /\ w.before = d.before /\ w.total = d.total /\ w.jobs = d.jobs /\ w.query = d.query
  BY <1>3, <1>4 DEF Readings
<1> HIDE DEF w
<1>6. ASSUME w.quiet PROVE Sound(kind, shown, flaws, w)
  <2>1. flag
    BY <1>5, <1>6
  <2>2. answer = "ok" /\ r.quiet
    BY <1>2, <1>3, <1>4, <2>1
  <2>3. Sound(kind, shown, flaws, d)
    BY <1>2, <1>3, <2>2 DEF Sound
  <2> QED BY <1>5, <2>3 DEF Sound, ReadSoFar
<1> QED BY <1>5, <1>6 DEF w, flag, d, q

-----------------------------------------------------------------------------
(* The scans *)

\* A board shows a posting once.
Boards ==
    /\ board \in [Targets -> Seq(Postings)]
    /\ \A t \in Targets : IsInjective(board[t])

\* The reading of a target by its adapter.
ReadingSound(r, kind, shown) ==
    /\ r.end # "lost" => kind \in Adapters
    /\ r.quiet => Sound(kind, shown, traits, r)

ReadingsSound ==
    \A p \in Profiles : proc[p].pc = "fetch" =>
        /\ proc[p].readings \in [TargetsOf(p) -> Readings]
        /\ \A t \in TargetsOf(p) : ReadingSound(proc[p].readings[t], source[t], board[t])

RInv == Traited(traits) /\ Boards /\ ReadingsSound

LEMMA SetToSeqDoes ==
    ASSUME NEW S, IsFiniteSet(S)
    PROVE  SetToSeq(S) \in Seq(S) /\ IsInjective(SetToSeq(S))
<1>1. Cardinality(S) \in Nat /\ ExistsBijection(1 .. Cardinality(S), S)
  <2>1. PICK n \in Nat : ExistsBijection(1 .. n, S)
    BY FS_NatBijection
  <2>2. n = Cardinality(S)
    BY <2>1, FS_CountingElements
  <2> QED BY <2>1, <2>2
<1>2. \E f \in [1 .. Cardinality(S) -> S] : IsInjective(f)
  BY <1>1 DEF ExistsBijection, Bijection, Injection
<1>3. SetToSeq(S) \in [1 .. Cardinality(S) -> S] /\ IsInjective(SetToSeq(S))
  BY <1>2 DEF SetToSeq
<1> QED BY <1>1, <1>3

LEMMA ReadingsInitially == Init => RInv
<1> SUFFICES ASSUME Init PROVE RInv
  OBVIOUS
<1>1. Traited(traits)
  <2>1. PICK w \in Traits \ {"good"} : traits = [j \in Postings |-> IF j \in Flawed THEN w ELSE "good"]
    BY DEF Init
  <2>2. "good" \in Traits
    BY DEF Traits
  <2> QED BY <2>1, <2>2 DEF Traited
<1>2. Boards
  <2>1. ASSUME NEW t \in Targets
        PROVE  /\ SetToSeq({j \in Open : OnBoard[j] = t}) \in Seq(Postings)
               /\ IsInjective(SetToSeq({j \in Open : OnBoard[j] = t}))
    <3> DEFINE up == {j \in Open : OnBoard[j] = t}
    <3>1. up \in SUBSET Postings /\ IsFiniteSet(Postings)
      BY PostingsAssumption
    <3> HIDE DEF up
    <3>2. IsFiniteSet(up)
      BY <3>1, FS_Subset
    <3>3. SetToSeq(up) \in Seq(up) /\ IsInjective(SetToSeq(up))
      BY <3>2, SetToSeqDoes
    <3>4. SetToSeq(up) \in Seq(Postings)
      BY <3>1, <3>3
    <3> QED BY <3>3, <3>4 DEF up
  <2> QED BY <2>1 DEF Boards, Init
<1>3. ReadingsSound
  BY DEF ReadingsSound, Init, Idle
<1> QED BY <1>1, <1>2, <1>3 DEF RInv

\* A step that touches neither boards nor readings.
LEMMA ReadingsStay ==
    ASSUME RInv, UNCHANGED <<source, traits, board>>,
           \A p \in Profiles : proc'[p].pc = "fetch" =>
               proc[p].pc = "fetch" /\ proc'[p].readings = proc[p].readings
    PROVE  RInv'
BY DEF RInv, Boards, ReadingsSound, ReadingSound, TargetsOf, Visible

LEMMA FirstReadingSound ==
    ASSUME NEW t \in Targets, Boards
    PROVE  FirstReading(t) \in Readings /\ ReadingSound(FirstReading(t), source[t], board[t])
<1>1. CASE source[t] \in Adapters
  <2>1. /\ NewReading.page = 1 /\ NewReading.raws = <<>> /\ NewReading.before = <<>>
        /\ NewReading.jobs = <<>> /\ NewReading.query = 1 /\ NewReading.end = "more"
    BY DEF NewReading
  <2>2. Top(board[t], 0) = {}
    <3>1. board[t] \in Seq(Postings)
      BY DEF Boards
    <3> QED BY <3>1 DEF Top
  <2>3. 1 <= MaxPages /\ Len(<<>>) = 0
    BY PagingAssumption
  <2>4. ReadSoFar(source[t], board[t], traits, NewReading)
    BY <2>1, <2>2, <2>3, EmptyRange, Multiples DEF ReadSoFar
  <2> QED BY <1>1, <2>1, <2>4, NewIs DEF FirstReading, ReadingSound, Sound
<1>2. CASE source[t] \notin Adapters
  BY <1>2, NewIs, LostIs DEF FirstReading, ReadingSound, Sound
<1> QED BY <1>1, <1>2

LEMMA StartReads ==
    ASSUME IInv, RInv, NEW p \in Profiles, Start(p) PROVE RInv'
<1> DEFINE readings == [t \in TargetsOf(p) |-> FirstReading(t)]
<1>1. /\ \A q \in Profiles : q # p => proc'[q] = proc[q]
      /\ proc'[p].readings = readings
      /\ UNCHANGED <<source, traits, board>>
  BY DEF Start, IInv, Shape
<1>2. \A t \in TargetsOf(p) : t \in Targets
  BY DEF TargetsOf
<1>3. \A t \in TargetsOf(p) : /\ readings[t] \in Readings
                             /\ ReadingSound(readings[t], source[t], board[t])
  BY <1>2, FirstReadingSound DEF RInv
<1>4. readings \in [TargetsOf(p) -> Readings]
  BY <1>3
<1> HIDE DEF readings
<1>5. ReadingsSound'
  BY <1>1, <1>3, <1>4 DEF RInv, ReadingsSound, ReadingSound
<1> QED BY <1>1, <1>5 DEF RInv, Boards

LEMMA RequestReads ==
    ASSUME FewFlawed, IInv, RInv, NEW p \in Profiles, NEW t \in Targets, NEW answer, NEW again,
           Request(p, t, answer, again)
    PROVE  RInv'
<1> DEFINE r == proc[p].readings[t]
           q == Requested(source[t], r, board[t], answer, traits, again)
           d == Discovered(source[t], q, traits)
           w == [d EXCEPT !.quiet = d.quiet /\ answer = "ok"]
<1>1. /\ proc[p].pc = "fetch" /\ t \in TargetsOf(p) /\ r.end = "more"
      /\ proc' = [proc EXCEPT ![p].readings[t] = w]
      /\ UNCHANGED <<source, traits, board>>
  BY DEF Request
<1>2. /\ proc[p].readings \in [TargetsOf(p) -> Readings] /\ r \in Readings
      /\ source[t] \in Adapters /\ (r.quiet => Sound(source[t], board[t], traits, r))
  BY <1>1 DEF RInv, ReadingsSound, ReadingSound
<1>3. Traited(traits) /\ board[t] \in Seq(Postings) /\ IsInjective(board[t])
  BY DEF RInv, Boards
<1>4. w \in Readings /\ (w.quiet => Sound(source[t], board[t], traits, w))
  <2> HIDE DEF r
  <2> QED BY <1>1, <1>2, <1>3, RequestSound DEF r
<1> HIDE DEF w
<1>5. /\ \A o \in Profiles : o # p => proc'[o] = proc[o]
      /\ proc'[p].readings = [proc[p].readings EXCEPT ![t] = w]
  BY <1>1 DEF IInv, Shape, Scanning
<1>6. /\ proc'[p].readings \in [TargetsOf(p) -> Readings]
      /\ \A o \in TargetsOf(p) : proc'[p].readings[o] = IF o = t THEN w ELSE proc[p].readings[o]
  BY <1>2, <1>4, <1>5
<1>7. \A o \in TargetsOf(p) : ReadingSound(proc'[p].readings[o], source[o], board[o])
  BY <1>1, <1>2, <1>4, <1>6 DEF RInv, ReadingsSound, ReadingSound
<1>8. ReadingsSound'
  BY <1>1, <1>5, <1>6, <1>7 DEF RInv, ReadingsSound, ReadingSound
<1> QED BY <1>1, <1>8 DEF RInv, Boards

\* What a posting that comes or goes leaves of the readings.
LEMMA BoardReads ==
    ASSUME IInv, RInv, NEW t, NEW shown,
           board' = [board EXCEPT ![t] = shown], proc' = Disturbed(t), UNCHANGED <<source, traits>>,
           t \in Targets => shown \in Seq(Postings) /\ IsInjective(shown)
    PROVE  RInv'
<1>1. board' \in [Targets -> Seq(Postings)] /\ \A o \in Targets : IsInjective(board'[o])
                                            /\ (o # t => board'[o] = board[o])
  BY DEF RInv, Boards
<1>2. ASSUME NEW p \in Profiles, proc'[p].pc = "fetch"
      PROVE  /\ proc'[p].readings \in [TargetsOf(p) -> Readings]
             /\ \A o \in TargetsOf(p) : ReadingSound(proc'[p].readings[o], source[o], board'[o])
  <2>1. proc[p] = Scanning(proc[p])
    BY DEF IInv, Shape
  <2>2. \A o \in TargetsOf(p) : o \in Targets
    BY DEF TargetsOf
  <2>3. CASE proc[p].pc = "fetch" /\ t \in TargetsOf(p)
    <3> DEFINE r == proc[p].readings[t]
               w == [r EXCEPT !.quiet = FALSE]
    <3>1. proc'[p] = [proc[p] EXCEPT !.readings[t].quiet = FALSE]
      BY <2>3 DEF Disturbed
    <3>2. proc'[p].readings = [proc[p].readings EXCEPT ![t] = w]
      BY <2>1, <3>1 DEF Scanning
    <3>3. proc[p].readings \in [TargetsOf(p) -> Readings] /\ r \in Readings
          /\ (r.end # "lost" => source[t] \in Adapters)
      BY <2>3 DEF RInv, ReadingsSound, ReadingSound
    <3>4. w \in Readings /\ w.end = r.end /\ ~w.quiet
      <4>1. FALSE \in Flags
        BY DEF Flags
      <4>2. ASSUME NEW flag \in Flags
            PROVE  LET v == [r EXCEPT !.quiet = flag] IN v \in Readings /\ v.end = r.end /\ v.quiet = flag
        <5> HIDE DEF Flags, r
        <5> QED BY <3>3 DEF Readings
      <4>3. w \in Readings /\ w.end = r.end /\ w.quiet = FALSE
        <5> HIDE DEF r, Flags
        <5> QED BY Zenon, <4>1, <4>2
      <4> QED BY <4>3
    <3> HIDE DEF w
    <3>5. \A o \in TargetsOf(p) : proc'[p].readings[o] = IF o = t THEN w ELSE proc[p].readings[o]
      BY <3>2, <3>3
    <3>6. \A o \in TargetsOf(p) : ReadingSound(proc'[p].readings[o], source[o], board'[o])
      BY <1>1, <2>2, <2>3, <3>3, <3>4, <3>5 DEF RInv, ReadingsSound, ReadingSound
    <3> QED BY <3>2, <3>3, <3>4, <3>6
  <2>4. CASE ~(proc[p].pc = "fetch" /\ t \in TargetsOf(p))
    <3>1. proc'[p] = proc[p]
      BY <2>4 DEF Disturbed
    <3> QED BY <1>1, <1>2, <2>2, <2>4, <3>1 DEF RInv, ReadingsSound
  <2> QED BY <2>3, <2>4
<1>3. ReadingsSound'
  BY <1>2 DEF ReadingsSound, ReadingSound
<1> QED BY <1>1, <1>3 DEF RInv, Boards

LEMMA PostedReads ==
    ASSUME IInv, RInv, NEW j \in Postings, Posted(j) PROVE RInv'
<1> DEFINE t == OnBoard[j]
           old == board[t]
           shown == <<j>> \o old
<1>1. t \in Targets => old \in Seq(Postings) /\ IsInjective(old)
  BY DEF RInv, Boards
<1>2. ~Contains(old, j)
  BY DEF Posted
<1>3. ASSUME t \in Targets PROVE shown \in Seq(Postings) /\ IsInjective(shown)
  <2> HIDE DEF old
  <2>1. /\ shown \in Seq(Postings) /\ Len(shown) = Len(old) + 1 /\ shown[1] = j
        /\ \A i \in 2 .. Len(shown) : i - 1 \in 1 .. Len(old) /\ shown[i] = old[i - 1]
        /\ DOMAIN shown = 1 .. Len(shown) /\ DOMAIN old = 1 .. Len(old) /\ Len(old) \in Nat
    BY <1>1, <1>3
  <2>2. \A i \in 2 .. Len(shown) : shown[i] # j
    BY <1>2, <2>1 DEF Contains
  <2> HIDE DEF shown
  <2>3. ASSUME NEW i \in DOMAIN shown, NEW k \in DOMAIN shown, shown[i] = shown[k] PROVE i = k
    <3>1. CASE i = 1 \/ k = 1
      BY <2>1, <2>2, <2>3, <3>1
    <3>2. CASE i # 1 /\ k # 1
      <4>1. i \in 2 .. Len(shown) /\ k \in 2 .. Len(shown)
        BY <2>1, <3>2
      <4>2. i - 1 = k - 1
        BY <1>1, <1>3, <2>1, <2>3, <4>1 DEF IsInjective
      <4> QED BY <4>1, <4>2
    <3> QED BY <3>1, <3>2
  <2> QED BY <2>1, <2>3 DEF IsInjective
<1> HIDE DEF shown
<1>4. /\ board' = [board EXCEPT ![t] = shown] /\ proc' = Disturbed(t)
      /\ UNCHANGED <<source, traits>>
  BY DEF Posted, shown
<1> QED BY <1>3, <1>4, BoardReads

LEMMA RemovedReads ==
    ASSUME IInv, RInv, NEW j \in Postings, Removed(j) PROVE RInv'
<1> DEFINE t == OnBoard[j]
           shown == Only(board[t], Postings \ {j})
<1>1. t \in Targets => shown \in Seq(Postings) /\ IsInjective(shown)
  BY OnlyDoes DEF RInv, Boards
<1>2. /\ board' = [board EXCEPT ![t] = shown] /\ proc' = Disturbed(t)
      /\ UNCHANGED <<source, traits>>
  BY DEF Removed
<1> HIDE DEF shown
<1> QED BY <1>1, <1>2, BoardReads

LEMMA EndReads ==
    ASSUME IInv, RInv, NEW p \in Profiles, NEW dryRun,
           Merge(p, dryRun) \/ SavePool(p) \/ SaveLedger(p) \/ Backfill(p) \/ Crash(p)
    PROVE  RInv'
<1>1. /\ \A q \in Profiles : q # p => proc'[q] = proc[q]
      /\ UNCHANGED <<source, traits, board>>
  BY DEF Merge, SavePool, SaveLedger, Backfill, Crash, IInv, Shape
<1>2. proc[p] = Scanning(proc[p])
  BY DEF IInv, Shape
<1>3. Idle.pc = "idle"
  BY DEF Idle
<1>4. proc'[p].pc = "fetch" => proc[p].pc = "fetch" /\ proc'[p].readings = proc[p].readings
  <2>1. CASE Merge(p, dryRun)
    BY <1>2, <1>3, <2>1 DEF Merge, IInv, Shape, Scanning
  <2>2. CASE SavePool(p)
    BY <1>2, <2>2 DEF SavePool, IInv, Shape, Scanning
  <2>3. CASE SaveLedger(p) \/ Crash(p)
    BY <1>3, <2>3 DEF SaveLedger, Crash, IInv, Shape
  <2>4. CASE Backfill(p)
    BY <2>4 DEF Backfill
  <2> QED BY <2>1, <2>2, <2>3, <2>4
<1> QED BY <1>1, <1>4, ReadingsStay

LEMMA ReadingsStepwise == FewFlawed /\ IInv /\ RInv /\ [Next]_vars => RInv'
<1> SUFFICES ASSUME FewFlawed, IInv, RInv, [Next]_vars PROVE RInv'
  OBVIOUS
<1>1. ASSUME NEW p \in Profiles, Command(p) PROVE RInv'
  BY <1>1, StartReads, RequestReads, EndReads DEF Command
<1>2. ASSUME NEW p \in Profiles, Backfill(p) \/ Crash(p) PROVE RInv'
  BY <1>2, EndReads
<1>3. ASSUME NEW j \in Postings, Posted(j) \/ Removed(j) PROVE RInv'
  BY <1>3, PostedReads, RemovedReads
<1>4. CASE UNCHANGED vars
  BY <1>4, ReadingsStay DEF vars
<1> QED BY <1>1, <1>2, <1>3, <1>4 DEF Next

\* The invariant of the readings: while the board stands still and answers, a
\* search has exactly the records of its pages so far, the jobs of the searches
\* before it are all there are, and so they are at its end.
THEOREM ReadingsInductive ==
    ASSUME FewFlawed PROVE Spec => []RInv
<1>1. Init => RInv
  BY ReadingsInitially
<1>2. IInv /\ RInv /\ [Next]_vars => RInv'
  BY FewFlawed, ReadingsStepwise
<1> QED BY <1>1, <1>2, Inductive, PTL DEF Spec

\* As long as no page of a board is flawed from top to bottom, every adapter
\* that ends the reading of a board which stood still and answered has found
\* all the postings it may read (ReadingComplete): no loop over pages or
\* searches stops before its end, whatever it takes for the end.
THEOREM ReadingsComplete ==
    ASSUME FewFlawed PROVE Spec => []ReadingComplete
<1>1. RInv => ReadingComplete
  <2>1. SUFFICES ASSUME RInv, NEW p \in Profiles, proc[p].pc = "fetch", NEW t \in TargetsOf(p),
                        proc[p].readings[t].end = "done", proc[p].readings[t].quiet
                 PROVE  {proc[p].readings[t].jobs[i] : i \in DOMAIN proc[p].readings[t].jobs}
                           = Findable(source[t], board[t], traits)
    BY DEF ReadingComplete
  <2>2. Range(proc[p].readings[t].jobs) = Findable(source[t], board[t], traits)
    BY <2>1 DEF RInv, ReadingsSound, ReadingSound, Sound
  <2> QED BY <2>2 DEF Range
<1>2. Spec => []RInv
  BY FewFlawed, ReadingsInductive
<1> QED BY <1>1, <1>2, PTL
=============================================================================
