--------------------------- MODULE TrackerProofs ---------------------------
(***************************************************************************)
(* What the commands of module Tracker keep of the ledger when they run    *)
(* one at a time: every posting and every date anchor whose key is no      *)
(* other row's, and an artifact path that names the file.  A copy held     *)
(* over an await is as good as the file as long as nobody else saves; the  *)
(* run lets TLC walk the same.                                             *)
(***************************************************************************)
EXTENDS Tracker, FiniteSetTheorems, SequenceTheorems, WellFoundedInduction,
        NaturalsInduction, TLAPS

-----------------------------------------------------------------------------
(* Places in a file *)

\* A set of natural numbers has a least element.
LEMMA Least ==
    ASSUME NEW T \in SUBSET Nat, T # {}
    PROVE  \E n \in T : \A m \in T : n <= m
<1>1. PICK n \in T : \A m \in T : <<m, n>> \notin OpToRel(<, Nat)
  BY WFMin, NatLessThanWellFounded, Zenon
<1>2. \A m \in T : ~(m < n)
  BY <1>1, Zenon DEF OpToRel
<1> QED BY <1>2

\* A set of places of a file has a last one.
LEMMA Greatest ==
    ASSUME NEW n \in Nat, NEW T \in SUBSET (1 .. n), T # {}
    PROVE  \E i \in T : \A j \in T : j <= i
<1> DEFINE far == {d \in Nat : \E i \in T : d + i = n}
<1>1. \A i \in 1 .. n : n - i \in Nat /\ (n - i) + i = n
  OBVIOUS
<1>2. \A i \in T : n - i \in far
  BY <1>1
<1>3. far # {} /\ far \in SUBSET Nat
  BY <1>2
<1>4. PICK d \in far : \A e \in far : d <= e
  BY <1>3, Least
<1>5. PICK i \in T : d + i = n
  BY <1>4
<1>6. ASSUME NEW j \in T PROVE j <= i
  <2>1. d <= n - j
    BY <1>2, <1>4
  <2>2. d \in Nat /\ i \in Nat /\ j \in Nat
    BY <1>4
  <2> QED BY <1>5, <2>1, <2>2
<1> QED BY <1>6

\* Counting a set of places up to each of its members numbers them 1, 2, ...
LEMMA RanksNumber ==
    ASSUME NEW n \in Nat, NEW S \in SUBSET (1 .. n)
    PROVE  /\ Cardinality(S) \in Nat
           /\ [i \in S |-> Cardinality({j \in S : j <= i})] \in Bijection(S, 1 .. Cardinality(S))
<1> DEFINE upto(i) == {j \in S : j <= i}
           rank == [i \in S |-> Cardinality(upto(i))]
<1>1. IsFiniteSet(S) /\ Cardinality(S) \in Nat
  <2>1. IsFiniteSet(1 .. n)
    BY FS_Interval
  <2>2. IsFiniteSet(S)
    BY <2>1, FS_Subset
  <2> QED BY <2>2, FS_CardinalityType
<1>2. ASSUME NEW i \in S PROVE IsFiniteSet(upto(i)) /\ Cardinality(upto(i)) \in 1 .. Cardinality(S)
  <2>1. i \in upto(i) /\ upto(i) \in SUBSET S
    OBVIOUS
  <2> HIDE DEF upto
  <2>2. IsFiniteSet(upto(i)) /\ Cardinality(upto(i)) <= Cardinality(S)
    BY <1>1, <2>1, FS_Subset
  <2>3. Cardinality(upto(i)) \in Nat
    BY <2>2, FS_CardinalityType
  <2>4. Cardinality(upto(i)) # 0
    BY <2>1, <2>2, FS_EmptySet
  <2> QED BY <1>1, <2>2, <2>3, <2>4
<1>3. rank \in [S -> 1 .. Cardinality(S)]
  BY <1>2
<1>4. ASSUME NEW i \in S, NEW k \in S, i < k, rank[i] = rank[k] PROVE FALSE
  <2>1. upto(i) \in SUBSET upto(k)
    <3>1. \A j \in S : j <= i => j <= k
      BY <1>4
    <3> QED BY <3>1
  <2>2. Cardinality(upto(i)) = Cardinality(upto(k))
    BY <1>4
  <2>3. upto(i) = upto(k)
    BY <1>2, <2>1, <2>2, FS_Subset
  <2>4. k \in upto(k) /\ k \notin upto(i)
    BY <1>4
  <2> QED BY <2>3, <2>4
<1>5. \A i, k \in S : i # k => i < k \/ k < i
  OBVIOUS
<1>6. rank \in Injection(S, 1 .. Cardinality(S))
  <2> HIDE DEF rank
  <2> QED BY <1>3, <1>4, <1>5 DEF Injection, IsInjective
<1>7. IsFiniteSet(1 .. Cardinality(S)) /\ Cardinality(1 .. Cardinality(S)) = Cardinality(S)
  BY <1>1, FS_Interval
<1>8. rank \in Surjection(S, 1 .. Cardinality(S))
  <2> HIDE DEF rank
  <2> QED BY <1>6, <1>7, FS_Injection
<1> QED BY <1>1, <1>6, <1>8 DEF Bijection

\* The n-th place is one, and every place is the n-th for some n.
LEMMA NthPlace ==
    ASSUME NEW n \in Nat, NEW S \in SUBSET (1 .. n)
    PROVE  /\ \A m \in 1 .. Cardinality(S) :
                /\ Nth(S, m) \in S
                /\ Cardinality({j \in S : j <= Nth(S, m)}) = m
           /\ \A i \in S : \E m \in 1 .. Cardinality(S) : Nth(S, m) = i
<1> DEFINE rank == [i \in S |-> Cardinality({j \in S : j <= i})]
<1>1. rank \in Bijection(S, 1 .. Cardinality(S))
  BY RanksNumber
<1>2. \A i \in S : rank[i] = Cardinality({j \in S : j <= i})
  OBVIOUS
<1> HIDE DEF rank
<1>3. /\ rank \in [S -> 1 .. Cardinality(S)]
      /\ \A i, k \in S : rank[i] = rank[k] => i = k
      /\ \A m \in 1 .. Cardinality(S) : \E i \in S : rank[i] = m
  BY <1>1 DEF Bijection, Injection, Surjection, IsInjective
<1>4. ASSUME NEW m \in 1 .. Cardinality(S)
      PROVE  Nth(S, m) \in S /\ Cardinality({j \in S : j <= Nth(S, m)}) = m
  <2>1. \E i \in S : Cardinality({j \in S : j <= i}) = m
    BY <1>2, <1>3
  <2> QED BY <2>1 DEF Nth
<1>5. ASSUME NEW i \in S PROVE Nth(S, rank[i]) = i
  <2>1. rank[i] \in 1 .. Cardinality(S)
    BY <1>3
  <2>2. Nth(S, rank[i]) \in S /\ rank[Nth(S, rank[i])] = rank[i]
    BY <1>2, <1>4, <2>1
  <2> QED BY <1>3, <2>2
<1> QED BY <1>3, <1>4, <1>5

-----------------------------------------------------------------------------
(* The inductive invariant *)

\* Of a job's rows one at most names an artifact.
LoneArt(rows) ==
    \A i, j \in DOMAIN rows :
        TitleOf(rows[i]) = TitleOf(rows[j]) /\ rows[i].art # "none" /\ rows[j].art # "none" => i = j

\* Nothing is called archived before it was moved.
Archived(rows, disk) ==
    \A i \in DOMAIN rows : rows[i].art = "arch" => disk[TitleOf(rows[i])] = "arch"

\* What is called unmoved was not, but for the files of certain jobs.
InPlace(rows, disk, but) ==
    \A i \in DOMAIN rows :
        rows[i].art = "hot" => disk[TitleOf(rows[i])] = "hot" \/ TitleOf(rows[i]) \in but

Good(rows, disk) == rows \in Seq(Row) /\ LoneArt(rows) /\ Archived(rows, disk)

\* The rows of a copy that differ from those of the file in what a sweep, or
\* an archive move, may change only.
SameAnchors(a, b) ==
    DOMAIN a = DOMAIN b /\ \A i \in DOMAIN b : a[i].key = b[i].key /\ a[i].adate = b[i].adate

SameArts(a, b) == \A i \in DOMAIN b : a[i].art = b[i].art

\* What one save owes to the file it replaces.
Saves(old, new) ==
    /\ JobsIn(old) \subseteq JobsIn(new) \cup Doubled(old)
    /\ \A i \in DOMAIN old : \A j \in DOMAIN new :
         old[i].key = new[j].key /\ Alone(old, i) /\ Alone(new, j) /\ old[i].adate # 0
         => new[j].adate = old[i].adate

\* Where a command is when it holds nothing of the file.
Free == {"idle", "pull", "screen", "collapse", "enter"}

Places == Free \cup {"sweep", "fetch", "reconcile", "archive", "sweepOut", "push", "write"}

\* What a command holds of the file, where it is.
Holds(p) ==
    LET buf == proc[p].buf
    IN /\ proc[p].pc \in Free => buf = <<>>
       /\ At(p, "sweep") => SameAnchors(buf, tsv) /\ SameArts(buf, tsv)
       /\ proc[p].pc \in {"fetch", "reconcile", "sweepOut", "push", "write"} => buf = tsv
       /\ At(p, "archive") =>
            /\ Good(buf, file) /\ Saves(tsv, buf)
            /\ InPlace(buf, file, strayed)
            /\ ~proc[p].moved => InPlace(tsv, file, strayed)
            /\ \A i \in proc[p].todo : buf[i].art = "hot"
       /\ proc[p].pc \in {"push", "write"} =>
            \E row \in Row : proc[p].new = <<row>> /\ row.art = "none" /\ row.status \in PageStatuses

\* The jobs whose path in the file may be behind.
Behind == strayed \cup UNION {Unsaved(p) : p \in Procs}

Pages == {NoPage} \cup [status: PageStatuses, outreach: Outreach]

Flags == BOOLEAN

Processes ==
    [cmd: Commands \cup {"none"}, pc: Places, buf: Seq(Row), todo: SUBSET Nat,
     pages: [Keys -> Pages], moved: Flags, new: Seq(Row)]

IInv ==
    /\ TypeOK
    /\ proc \in [Procs -> Processes]
    /\ Good(tsv, file)
    /\ InPlace(tsv, file, Behind)
    /\ \A p \in Procs : Holds(p)

\* The commands run one after the other, as the night run starts them; two
\* whose saves overlap lose each other's rows.
OneAtATime == \A p, q \in Procs : p = q

-----------------------------------------------------------------------------
(* The merge of sync *)

LEMMA RowsOfSeq ==
    ASSUME NEW rows \in Seq(Row)
    PROVE  /\ Len(rows) \in Nat /\ DOMAIN rows = 1 .. Len(rows)
           /\ rows \in [1 .. Len(rows) -> Row]
           /\ \A i \in DOMAIN rows : rows[i] \in Row /\ rows[i].key \in Keys /\ TitleOf(rows[i]) \in Jobs
<1>1. Len(rows) \in Nat /\ DOMAIN rows = 1 .. Len(rows) /\ rows \in [1 .. Len(rows) -> Row]
  BY LenProperties
<1>2. \A row \in Row : row.key \in Keys
  BY DEF Row
<1>3. \A key \in Keys : key[1] \in Jobs
  BY DEF Keys
<1>4. ASSUME NEW i \in DOMAIN rows
      PROVE  rows[i] \in Row /\ rows[i].key \in Keys /\ TitleOf(rows[i]) \in Jobs
  BY <1>1, <1>2, <1>3 DEF TitleOf
<1> QED BY <1>1, <1>4

\* The key alone says which posting, and which job, a row is of.
LEMMA KeyNames ==
    ASSUME NEW a, NEW b
    PROVE  /\ a.key = b.key => JobOf(a) = JobOf(b)
           /\ JobOf(a) = JobOf(b) => TitleOf(a) = TitleOf(b)
<1>1. JobOf(a)[1] = TitleOf(a) /\ JobOf(b)[1] = TitleOf(b)
  BY DEF JobOf, TitleOf
<1> QED BY <1>1 DEF JobOf

\* The map by key holds, of every key, one row that was pulled under it.
LEMMA KeyedRowsKeep ==
    ASSUME NEW rows \in Seq(Row), NEW pulled \in Seq(Row), DOMAIN pulled = DOMAIN rows,
           \A i \in DOMAIN rows : pulled[i].key = rows[i].key
    PROVE  LET keyed == KeyedRows(rows, pulled)
           IN  /\ keyed \in Seq(Row)
               /\ \A m \in DOMAIN keyed : \E i \in DOMAIN rows : keyed[m] = pulled[i]
               /\ \A m, n \in DOMAIN keyed : keyed[m].key = keyed[n].key => m = n
               /\ KeysIn(rows) \subseteq KeysIn(keyed)
<1> DEFINE first == {i \in DOMAIN rows : \A j \in 1 .. i - 1 : rows[j].key # rows[i].key}
           same(k) == {i \in DOMAIN rows : rows[i].key = k}
           set(k) == {i \in same(k) : pulled[i] # rows[i]}
           final(k) == IF set(k) = {} THEN same(k) ELSE set(k)
           last(k) == CHOOSE i \in final(k) : \A j \in final(k) : j <= i
           c == Cardinality(first)
           keyed == KeyedRows(rows, pulled)
<1>1. Len(rows) \in Nat /\ DOMAIN rows = 1 .. Len(rows)
  BY RowsOfSeq
<1>2. keyed = [m \in 1 .. c |-> pulled[last(rows[Nth(first, m)].key)]]
  BY DEF KeyedRows
<1>3. first \in SUBSET (1 .. Len(rows)) /\ first \subseteq DOMAIN rows
  BY <1>1
<1>4. ASSUME NEW k \in KeysIn(rows)
      PROVE  last(k) \in DOMAIN rows /\ rows[last(k)].key = k
  <2>1. same(k) # {} /\ same(k) \subseteq DOMAIN rows
    BY DEF KeysIn
  <2>2. final(k) # {} /\ final(k) \subseteq same(k)
    BY <2>1
  <2>3. final(k) \in SUBSET (1 .. Len(rows))
    BY <1>1, <2>1, <2>2
  <2>4. \E i \in final(k) : \A j \in final(k) : j <= i
    BY <1>1, <2>2, <2>3, Greatest
  <2>5. last(k) \in final(k)
    BY <2>4
  <2> QED BY <2>2, <2>5
<1>5. ASSUME NEW i \in first, NEW j \in first, rows[i].key = rows[j].key
      PROVE  i = j
  <2>1. i \in 1 .. Len(rows) /\ j \in 1 .. Len(rows)
    BY <1>3
  <2>2. ~(i < j) /\ ~(j < i)
    BY <1>1, <1>5, <2>1
  <2> QED BY <1>1, <2>1, <2>2
<1>6. ASSUME NEW k \in KeysIn(rows) PROVE \E i \in first : rows[i].key = k
  <2>1. same(k) # {} /\ same(k) \subseteq Nat
    BY <1>1 DEF KeysIn
  <2>2. PICK i \in same(k) : \A j \in same(k) : i <= j
    BY <2>1, Least
  <2>3. i \in 1 .. Len(rows) /\ rows[i].key = k
    BY <1>1, <2>2
  <2>4. ASSUME NEW j \in 1 .. i - 1 PROVE rows[j].key # k
    <3>1. j \in DOMAIN rows /\ j < i
      BY <1>1, <2>3
    <3> QED BY <1>1, <2>2, <2>3, <3>1
  <2> QED BY <1>1, <2>3, <2>4
<1>7. /\ \A m \in 1 .. c : Nth(first, m) \in first /\ Cardinality({j \in first : j <= Nth(first, m)}) = m
      /\ \A i \in first : \E m \in 1 .. c : Nth(first, m) = i
  BY <1>1, <1>3, NthPlace
<1>8. c \in Nat
  BY <1>1, <1>3, RanksNumber
<1> HIDE DEF first, c, keyed, last
<1>9. ASSUME NEW m \in 1 .. c
      PROVE  LET i == Nth(first, m)
             IN  /\ i \in first /\ keyed[m].key = rows[i].key
                 /\ \E j \in DOMAIN rows : keyed[m] = pulled[j]
  <2> DEFINE i == Nth(first, m)
             k == rows[i].key
  <2>1. i \in first /\ i \in DOMAIN rows /\ k \in KeysIn(rows)
    BY <1>3, <1>7 DEF KeysIn
  <2>2. keyed[m] = pulled[last(k)]
    BY <1>2
  <2> HIDE DEF i, k
  <2>3. last(k) \in DOMAIN rows /\ rows[last(k)].key = k
    BY <1>4, <2>1
  <2>4. keyed[m].key = k
    BY <2>2, <2>3
  <2> QED BY <2>1, <2>2, <2>3, <2>4 DEF i, k
<1>10. DOMAIN keyed = 1 .. c /\ keyed \in Seq(Row)
  <2>1. \A j \in DOMAIN rows : pulled[j] \in Row
    BY RowsOfSeq
  <2>2. DOMAIN keyed = 1 .. c
    BY <1>2
  <2>3. keyed \in [1 .. c -> Row]
    BY <1>2, <1>9, <2>1, <2>2
  <2> QED BY <1>8, <2>2, <2>3, SeqDef
<1>11. ASSUME NEW m \in 1 .. c, NEW n \in 1 .. c, keyed[m].key = keyed[n].key
       PROVE  m = n
  <2>1. Nth(first, m) = Nth(first, n)
    BY <1>5, <1>9, <1>11
  <2> QED BY <1>7, <2>1
<1>12. ASSUME NEW k \in KeysIn(rows) PROVE k \in KeysIn(keyed)
  <2>1. PICK i \in first : rows[i].key = k
    BY <1>6
  <2>2. PICK m \in 1 .. c : Nth(first, m) = i
    BY <1>7, <2>1
  <2>3. keyed[m].key = k
    BY <1>9, <2>1, <2>2
  <2> QED BY <1>10, <2>3 DEF KeysIn
<1> QED BY <1>9, <1>10, <1>11, <1>12 DEF keyed

LEMMA PulledRowKeeps ==
    ASSUME NEW row \in Row, NEW page \in Pages, page # NoPage, today \in Days
    PROVE  /\ PulledRow(row, page) \in Row
           /\ PulledRow(row, page).key = row.key
           /\ PulledRow(row, page).art = row.art
           /\ row.adate # 0 => PulledRow(row, page).adate = row.adate
<1>1. page.status \in PageStatuses /\ page.outreach \in Outreach
  BY DEF Pages
<1>2. /\ AppliedDate(page.status, row.adate) \in Days
      /\ row.adate # 0 => AppliedDate(page.status, row.adate) = row.adate
  BY DEF AppliedDate, Row
<1>3. OutreachDate(page.outreach, row.odate) \in Days
  <2>1. row.odate \in Days
    BY DEF Row
  <2>2. 0 \in Days
    BY MaxDayAssumption DEF Days
  <2> QED BY <2>1, <2>2 DEF OutreachDate
<1>4. page.status \in RowStatuses
  BY <1>1 DEF PageStatuses, RowStatuses
<1>5. ASSUME NEW flags, NEW yes \in flags, NEW s \in RowStatuses, NEW a \in Days,
             NEW u \in Outreach, NEW o \in Days,
             row \in [key: Keys, status: RowStatuses, paged: flags, adate: Days,
                      outreach: Outreach, odate: Days, art: {"none", "hot", "arch"},
                      updated: {0}, company: {"same"}, url: {"none", "here", "there"}]
      PROVE  LET new == [row EXCEPT !.paged = yes, !.status = s, !.adate = a,
                                    !.outreach = u, !.odate = o]
             IN  /\ new \in [key: Keys, status: RowStatuses, paged: flags, adate: Days,
                             outreach: Outreach, odate: Days, art: {"none", "hot", "arch"},
                             updated: {0}, company: {"same"}, url: {"none", "here", "there"}]
                 /\ new.key = row.key /\ new.art = row.art /\ new.adate = a
  BY <1>5
<1> QED BY <1>1, <1>2, <1>3, <1>4, <1>5 DEF Row, PulledRow

LEMMA PulledRowsKeep ==
    ASSUME NEW rows \in Seq(Row), NEW pages \in [Keys -> Pages], today \in Days
    PROVE  /\ PulledRows(rows, pages) \in Seq(Row)
           /\ DOMAIN PulledRows(rows, pages) = DOMAIN rows
           /\ \A i \in DOMAIN rows :
                /\ PulledRows(rows, pages)[i].key = rows[i].key
                /\ PulledRows(rows, pages)[i].art = rows[i].art
                /\ rows[i].adate # 0 => PulledRows(rows, pages)[i].adate = rows[i].adate
<1>1. ASSUME NEW i \in DOMAIN rows
      PROVE  /\ PulledRows(rows, pages)[i] \in Row
             /\ PulledRows(rows, pages)[i].key = rows[i].key
             /\ PulledRows(rows, pages)[i].art = rows[i].art
             /\ rows[i].adate # 0 => PulledRows(rows, pages)[i].adate = rows[i].adate
  <2> DEFINE row == rows[i]
             page == pages[row.key]
  <2>1. row \in Row /\ row.key \in Keys
    BY RowsOfSeq
  <2>2. page \in Pages
    BY <2>1
  <2>3. PulledRows(rows, pages)[i] = IF page = NoPage THEN row ELSE PulledRow(row, page)
    BY DEF PulledRows
  <2> HIDE DEF row, page
  <2>4. CASE page = NoPage
    BY <2>1, <2>3, <2>4 DEF row
  <2>5. CASE page # NoPage
    BY <2>1, <2>2, <2>3, <2>5, PulledRowKeeps DEF row
  <2> QED BY <2>4, <2>5
<1>2. DOMAIN PulledRows(rows, pages) = DOMAIN rows
  BY DEF PulledRows
<1>3. PulledRows(rows, pages) \in [1 .. Len(rows) -> Row]
  BY <1>1, RowsOfSeq DEF PulledRows
<1>4. PulledRows(rows, pages) \in Seq(Row)
  BY <1>3, RowsOfSeq, SeqDef
<1> QED BY <1>1, <1>2, <1>4

LEMMA AddedRowIsRow ==
    ASSUME NEW key \in Keys, NEW page \in Pages, page # NoPage, today \in Days
    PROVE  /\ AddedRow(key, page) \in Row
           /\ AddedRow(key, page).key = key /\ AddedRow(key, page).art = "none"
<1>1. page.status \in RowStatuses /\ page.outreach \in Outreach
  BY DEF Pages, PageStatuses, RowStatuses
<1>2. 0 \in Days
  BY MaxDayAssumption DEF Days
<1>3. AppliedDate(page.status, 0) \in Days
  BY <1>2 DEF AppliedDate
<1> QED BY <1>1, <1>2, <1>3 DEF AddedRow, Row

\* A page without a row gets one, under a key the file does not have.
LEMMA AddedRowsNew ==
    ASSUME NEW rows \in Seq(Row), NEW pages \in [Keys -> Pages], today \in Days
    PROVE  LET added == AddedRows(rows, pages)
           IN  /\ added \in Seq(Row)
               /\ \A i, j \in DOMAIN added : added[i].key = added[j].key => i = j
               /\ \A i \in DOMAIN added : added[i].key \notin KeysIn(rows) /\ added[i].art = "none"
<1> DEFINE new == {k \in Keys : pages[k] # NoPage /\ k \notin KeysIn(rows)}
           n == Cardinality(new)
           Orders(s) == \A i, j \in DOMAIN s : s[i] = s[j] => i = j
           order == CHOOSE s \in [1 .. n -> new] : Orders(s)
           added == AddedRows(rows, pages)
<1>1. added = [i \in DOMAIN order |-> AddedRow(order[i], pages[order[i]])]
  BY DEF AddedRows
<1>2. IsFiniteSet(Keys)
  <2> DEFINE forms == {"plain"} \cup ({"legacy"} \cup {"manual"})
             dates == 0 .. MaxDay
             pairs == (Jobs \X forms) \X dates
             triples == Jobs \X forms \X dates
             f == [q \in pairs |-> <<q[1][1], q[1][2], q[2]>>]
  <2>1. IsFiniteSet(forms) /\ IsFiniteSet(dates)
    <3>1. IsFiniteSet({"plain"}) /\ IsFiniteSet({"legacy"}) /\ IsFiniteSet({"manual"})
      BY FS_Singleton
    <3>2. IsFiniteSet({"legacy"} \cup {"manual"})
      BY <3>1, FS_Union
    <3>3. IsFiniteSet(forms)
      BY <3>1, <3>2, FS_Union
    <3>4. 0 \in Int /\ MaxDay \in Int
      BY MaxDayAssumption
    <3> QED BY <3>3, <3>4, FS_Interval
  <2>2. Keys \subseteq triples
    BY MaxDayAssumption DEF Keys
  <2> HIDE DEF forms, dates
  <2>3. IsFiniteSet(Jobs \X forms)
    BY <2>1, JobsAssumption, FS_Product
  <2>4. IsFiniteSet(pairs)
    BY <2>1, <2>3, FS_Product
  <2>5. ASSUME NEW t \in triples PROVE \E q \in pairs : f[q] = t
    <3>1. <<<<t[1], t[2]>>, t[3]>> \in pairs
      OBVIOUS
    <3>2. f[<<<<t[1], t[2]>>, t[3]>>] = <<t[1], t[2], t[3]>>
      BY <3>1
    <3>3. t = <<t[1], t[2], t[3]>>
      OBVIOUS
    <3> QED BY <3>1, <3>2, <3>3
  <2>6. f \in [pairs -> triples]
    OBVIOUS
  <2>7. f \in Surjection(pairs, triples)
    BY <2>5, <2>6 DEF Surjection
  <2>8. IsFiniteSet(triples)
    BY <2>4, <2>7, FS_Surjection
  <2> QED BY <2>2, <2>8, FS_Subset
<1>3. IsFiniteSet(new)
  BY <1>2, FS_Subset
<1>4. n \in Nat /\ ExistsBijection(1 .. n, new)
  BY <1>3, FS_CardinalityType
<1> HIDE DEF new, n, added
<1>5. \E s \in [1 .. n -> new] : Orders(s)
  <2>1. PICK s \in Bijection(1 .. n, new) : TRUE
    BY <1>4 DEF ExistsBijection
  <2>2. s \in [1 .. n -> new] /\ IsInjective(s)
    BY <2>1 DEF Bijection, Injection
  <2> QED BY <2>2 DEF IsInjective
<1>6. order \in [1 .. n -> new] /\ Orders(order)
  BY <1>5
<1> HIDE DEF order
<1>7. ASSUME NEW i \in 1 .. n
      PROVE  /\ added[i] \in Row /\ added[i].key = order[i] /\ added[i].art = "none"
             /\ order[i] \notin KeysIn(rows)
  <2>1. order[i] \in new /\ added[i] = AddedRow(order[i], pages[order[i]])
    BY <1>1, <1>6
  <2>2. order[i] \in Keys /\ pages[order[i]] # NoPage /\ order[i] \notin KeysIn(rows)
    BY <2>1 DEF new
  <2>3. pages[order[i]] \in Pages
    BY <2>2
  <2> QED BY <2>1, <2>2, <2>3, AddedRowIsRow
<1>8. DOMAIN added = 1 .. n /\ added \in [1 .. n -> Row]
  BY <1>1, <1>6, <1>7
<1>9. added \in Seq(Row)
  BY <1>4, <1>8, SeqDef
<1>10. \A i, j \in DOMAIN added : added[i].key = added[j].key => i = j
  BY <1>6, <1>7, <1>8
<1> QED BY <1>7, <1>8, <1>9, <1>10 DEF added

\* What sync saves: one row of every key it loaded, with an anchor and a path
\* of that key, then the rows it added.
LEMMA MergedRowsKeep ==
    ASSUME NEW rows \in Seq(Row), NEW pages \in [Keys -> Pages], today \in Days
    PROVE  LET merged == MergedRows(rows, pages)
           IN  /\ merged \in Seq(Row)
               /\ \A m, n \in DOMAIN merged : merged[m].key = merged[n].key => m = n
               /\ \A m \in DOMAIN merged :
                    \/ \E i \in DOMAIN rows :
                         /\ merged[m].key = rows[i].key /\ merged[m].art = rows[i].art
                         /\ rows[i].adate # 0 => merged[m].adate = rows[i].adate
                    \/ merged[m].key \notin KeysIn(rows) /\ merged[m].art = "none"
               /\ KeysIn(rows) \subseteq KeysIn(merged)
<1> DEFINE pulled == PulledRows(rows, pages)
           keyed == KeyedRows(rows, pulled)
           added == AddedRows(rows, pages)
           merged == MergedRows(rows, pages)
           k == Len(keyed)
           n == Len(added)
<1>1. /\ pulled \in Seq(Row) /\ DOMAIN pulled = DOMAIN rows
      /\ \A i \in DOMAIN rows :
           /\ pulled[i].key = rows[i].key /\ pulled[i].art = rows[i].art
           /\ rows[i].adate # 0 => pulled[i].adate = rows[i].adate
  BY PulledRowsKeep
<1>2. /\ added \in Seq(Row)
      /\ \A i, j \in DOMAIN added : added[i].key = added[j].key => i = j
      /\ \A i \in DOMAIN added : added[i].key \notin KeysIn(rows) /\ added[i].art = "none"
  BY AddedRowsNew
<1>3. merged = keyed \o added
  BY DEF MergedRows
<1> HIDE DEF pulled, added, merged
<1>4. /\ keyed \in Seq(Row)
      /\ \A m \in DOMAIN keyed : \E i \in DOMAIN rows : keyed[m] = pulled[i]
      /\ \A i, j \in DOMAIN keyed : keyed[i].key = keyed[j].key => i = j
      /\ KeysIn(rows) \subseteq KeysIn(keyed)
  BY <1>1, KeyedRowsKeep
<1> HIDE DEF keyed
<1>5. k \in Nat /\ DOMAIN keyed = 1 .. k /\ n \in Nat /\ DOMAIN added = 1 .. n
  BY <1>2, <1>4, RowsOfSeq
<1>6. /\ merged \in Seq(Row) /\ Len(merged) = k + n
      /\ \A i \in 1 .. k + n : merged[i] = IF i <= k THEN keyed[i] ELSE added[i - k]
  BY <1>2, <1>3, <1>4, ConcatProperties
<1> HIDE DEF k, n
<1>7. DOMAIN merged = 1 .. k + n
  BY <1>6, RowsOfSeq
<1>8. ASSUME NEW m \in DOMAIN keyed
      PROVE  /\ m \in DOMAIN merged /\ merged[m] = keyed[m] /\ merged[m].key \in KeysIn(rows)
             /\ \E i \in DOMAIN rows :
                  /\ merged[m].key = rows[i].key /\ merged[m].art = rows[i].art
                  /\ rows[i].adate # 0 => merged[m].adate = rows[i].adate
  <2>1. m \in DOMAIN merged /\ merged[m] = keyed[m]
    BY <1>5, <1>6, <1>7
  <2>2. PICK i \in DOMAIN rows : keyed[m] = pulled[i]
    BY <1>4
  <2> QED BY <1>1, <2>1, <2>2 DEF KeysIn
<1>9. ASSUME NEW m \in DOMAIN merged \ DOMAIN keyed
      PROVE  m - k \in DOMAIN added /\ merged[m] = added[m - k]
  BY <1>5, <1>6, <1>7
<1>10. ASSUME NEW i \in DOMAIN merged, NEW j \in DOMAIN merged, merged[i].key = merged[j].key
       PROVE  i = j
  <2>1. CASE i \in DOMAIN keyed /\ j \in DOMAIN keyed
    BY <1>4, <1>8, <1>10, <2>1
  <2>2. CASE i \notin DOMAIN keyed /\ j \notin DOMAIN keyed
    <3>1. i - k = j - k
      BY <1>2, <1>9, <1>10, <2>2
    <3> QED BY <1>5, <1>7, <3>1
  <2>3. CASE i \in DOMAIN keyed /\ j \notin DOMAIN keyed
    BY <1>2, <1>8, <1>9, <1>10, <2>3
  <2>4. CASE i \notin DOMAIN keyed /\ j \in DOMAIN keyed
    BY <1>2, <1>8, <1>9, <1>10, <2>4
  <2> QED BY <2>1, <2>2, <2>3, <2>4
<1>11. ASSUME NEW m \in DOMAIN merged
       PROVE  \/ \E i \in DOMAIN rows :
                   /\ merged[m].key = rows[i].key /\ merged[m].art = rows[i].art
                   /\ rows[i].adate # 0 => merged[m].adate = rows[i].adate
              \/ merged[m].key \notin KeysIn(rows) /\ merged[m].art = "none"
  <2>1. CASE m \in DOMAIN keyed
    BY <1>8, <2>1
  <2>2. CASE m \notin DOMAIN keyed
    BY <1>2, <1>9, <2>2
  <2> QED BY <2>1, <2>2
<1>12. KeysIn(rows) \subseteq KeysIn(merged)
  <2>1. KeysIn(keyed) \subseteq KeysIn(merged)
    BY <1>8 DEF KeysIn
  <2> QED BY <1>4, <2>1
<1> QED BY <1>6, <1>10, <1>11, <1>12 DEF merged

-----------------------------------------------------------------------------
(* The dedup *)

\* How compareForWinner weighs a row.
Score(row) ==
    (IF row.paged THEN 32 ELSE 0) + 2 * (Rank[row.status] + 1) + (IF row.key[2] = "legacy" THEN 0 ELSE 1)

LEMMA BeatsByScore ==
    ASSUME NEW a \in Row, NEW b \in Row
    PROVE  Score(a) \in 0 .. 49 /\ Score(b) \in 0 .. 49 /\ (Beats(a, b) <=> Score(a) > Score(b))
<1>1. ASSUME NEW row \in Row
      PROVE  /\ Rank[row.status] \in -1 .. 7 /\ row.updated = 0
             /\ row.paged \in BOOLEAN
  <2>1. /\ row.status \in RowStatuses /\ row.updated = 0 /\ row.paged \in BOOLEAN
    BY <1>1 DEF Row
  <2>2. \A s \in RowStatuses : Rank[s] \in -1 .. 7
    BY DEF Rank
  <2> QED BY <2>1, <2>2
<1>2. /\ Rank[a.status] \in -1 .. 7 /\ Rank[b.status] \in -1 .. 7
      /\ a.updated = b.updated
      /\ a.paged \in BOOLEAN /\ b.paged \in BOOLEAN
  BY <1>1
<1> QED BY <1>2 DEF Score, Beats

LEMMA ShorterIsHigher ==
    \A x, y \in 0 .. 49 : \A z \in Nat : z <= 49 - x /\ y + z = 49 => x <= y
OBVIOUS

\* A group has a winner: the first of its rows with the highest score.
LEMMA WinnerIn ==
    ASSUME NEW rows \in Seq(Row), NEW group \in SUBSET DOMAIN rows, group # {}
    PROVE  Winner(rows, group) \in group
<1> DEFINE score == [i \in group |-> Score(rows[i])]
           short == {d \in Nat : \E i \in group : score[i] + d = 49}
<1>1. /\ group \subseteq Nat
      /\ \A i \in group : rows[i] \in Row /\ score[i] \in 0 .. 49
      /\ \A i, j \in group : Beats(rows[i], rows[j]) <=> score[i] > score[j]
  BY RowsOfSeq, BeatsByScore
<1> HIDE DEF score
<1>0. ASSUME NEW i \in group PROVE 49 - score[i] \in short
  <2>1. score[i] \in 0 .. 49
    BY <1>1
  <2>2. \A x \in 0 .. 49 : 49 - x \in Nat /\ x + (49 - x) = 49
    OBVIOUS
  <2> QED BY <2>1, <2>2
<1>2. short # {}
  <2>1. PICK i \in group : TRUE
    OBVIOUS
  <2>2. 49 - score[i] \in short
    BY <1>0, <2>1
  <2> QED BY <2>2
<1>3. PICK d \in short : \A e \in short : d <= e
  BY <1>2, Least
<1> DEFINE best == {i \in group : score[i] + d = 49}
<1>4. best # {} /\ best \subseteq Nat
  BY <1>1, <1>3
<1>5. PICK i \in best : \A j \in best : i <= j
  BY <1>4, Least
<1>6. ASSUME NEW j \in group
      PROVE  /\ ~Beats(rows[j], rows[i])
             /\ j < i => Beats(rows[i], rows[j])
  <2>1. 49 - score[j] \in short
    BY <1>0
  <2>2. d <= 49 - score[j] /\ score[i] + d = 49 /\ i \in group
    BY <1>3, <1>5, <2>1
  <2>3. score[j] \in 0 .. 49 /\ score[i] \in 0 .. 49 /\ d \in Nat
    BY <1>1, <1>3, <2>2
  <2>4. score[j] <= score[i]
    BY <2>2, <2>3, ShorterIsHigher
  <2>5. score[j] = score[i] => j \in best
    BY <2>2, <2>3
  <2>6. score[j] = score[i] => i <= j
    BY <1>5, <2>5
  <2>7. i \in Nat /\ j \in Nat
    BY <1>1, <2>2
  <2>8. \A x, y \in 0 .. 49, a, b \in Nat :
          x <= y /\ (x = y => b <= a) => ~(x > y) /\ (a < b => y > x)
    OBVIOUS
  <2> QED BY <1>1, <2>2, <2>3, <2>4, <2>6, <2>7, <2>8
<1>7. i \in group
  BY <1>5
<1> QED BY <1>6, <1>7 DEF Winner

\* The rows a row is collapsed with: its posting's, or itself alone.
LEMMA GroupOfRow ==
    ASSUME NEW rows \in Seq(Row), NEW i \in DOMAIN rows
    PROVE  /\ i \in Group(rows, i) /\ Group(rows, i) \subseteq DOMAIN rows
           /\ \A j \in Group(rows, i) : Group(rows, j) = Group(rows, i) /\ JobOf(rows[j]) = JobOf(rows[i])
           /\ Winner(rows, Group(rows, i)) \in Group(rows, i)
<1>1. i \in SameJob(rows, i) /\ SameJob(rows, i) \subseteq DOMAIN rows
  BY DEF SameJob
<1>2. \A j \in SameJob(rows, i) : SameJob(rows, j) = SameJob(rows, i) /\ JobOf(rows[j]) = JobOf(rows[i])
  BY DEF SameJob
<1>3. CASE Suspicious(rows, SameJob(rows, i))
  <2>1. Group(rows, i) = {i}
    BY <1>3 DEF Group
  <2>2. Winner(rows, Group(rows, i)) \in Group(rows, i)
    BY <2>1, WinnerIn
  <2> QED BY <2>1, <2>2
<1>4. CASE ~Suspicious(rows, SameJob(rows, i))
  <2>1. Group(rows, i) = SameJob(rows, i)
    BY <1>4 DEF Group
  <2>2. \A j \in SameJob(rows, i) : Group(rows, j) = SameJob(rows, i)
    BY <1>2, <1>4 DEF Group
  <2>3. Winner(rows, Group(rows, i)) \in Group(rows, i)
    BY <1>1, <2>1, WinnerIn
  <2> QED BY <1>1, <1>2, <2>1, <2>2, <2>3
<1> QED BY <1>3, <1>4

\* The winner's row is the one kept, with a path of its own group.
LEMMA MergedRowShape ==
    ASSUME NEW rows \in Seq(Row), NEW i \in DOMAIN rows, i = Winner(rows, Group(rows, i))
    PROVE  LET row == MergedRow(rows, Group(rows, i))
           IN  /\ row \in Row /\ row.key = rows[i].key
               /\ row.adate = rows[i].adate
               /\ \E j \in Group(rows, i) : row.art = rows[j].art
<1> DEFINE lifted == {j \in Group(rows, i) : rows[j].art # "none"}
           first == CHOOSE j \in lifted : \A k \in lifted : j <= k
           row == MergedRow(rows, Group(rows, i))
<1>1. i \in Group(rows, i) /\ Group(rows, i) \subseteq DOMAIN rows /\ DOMAIN rows \subseteq Nat
  BY GroupOfRow, RowsOfSeq
<1>2. rows[i] \in Row
  BY RowsOfSeq
<1>3. row = IF rows[i].art = "none" /\ lifted # {}
            THEN [rows[i] EXCEPT !.art = rows[first].art] ELSE rows[i]
  BY DEF MergedRow
<1>4. CASE row = rows[i]
  BY <1>1, <1>2, <1>4
<1>5. CASE lifted # {} /\ row = [rows[i] EXCEPT !.art = rows[first].art]
  <2>1. lifted \in SUBSET Nat
    BY <1>1
  <2>2. \E j \in lifted : \A k \in lifted : j <= k
    BY <1>5, <2>1, Least
  <2>3. first \in lifted
    BY <2>2
  <2>4. first \in Group(rows, i) /\ rows[first] \in Row
    BY <1>1, <2>3, RowsOfSeq
  <2> HIDE DEF first, row
  <2>5. rows[first].art \in {"none", "hot", "arch"}
    BY <2>4 DEF Row
  <2>6. row \in Row /\ row.key = rows[i].key /\ row.adate = rows[i].adate /\ row.art = rows[first].art
    BY <1>2, <1>5, <2>5 DEF Row
  <2> QED BY <2>4, <2>6 DEF row
<1> QED BY <1>3, <1>4, <1>5

\* Dedup keeps the winner of every group, under its key and with its anchor.
\* The final walk knows the losers by their keys: a posting is sure to be left
\* where no key of it is another row's.
LEMMA DedupedRowsKeep ==
    ASSUME NEW rows \in Seq(Row), LoneArt(rows)
    PROVE  LET left == DedupedRows(rows, DroppedKeys(rows))
           IN  /\ left \in Seq(Row)
               /\ \A m \in DOMAIN left : \E i \in DOMAIN rows :
                    left[m].key = rows[i].key /\ left[m].adate = rows[i].adate
               /\ \A m \in DOMAIN left : \E j \in DOMAIN rows :
                    TitleOf(left[m]) = TitleOf(rows[j]) /\ left[m].art = rows[j].art
               /\ LoneArt(left)
               /\ JobsIn(rows) \subseteq JobsIn(left) \cup Doubled(rows)
<1> DEFINE winner(i) == Winner(rows, Group(rows, i))
           dropped == DroppedKeys(rows)
           kept == {i \in DOMAIN rows :
                      /\ rows[i].key \notin dropped
                      /\ \A j \in Group(rows, i) : j < i => rows[j].key \in dropped}
           left == DedupedRows(rows, dropped)
           c == Cardinality(kept)
<1>1. ASSUME NEW i \in DOMAIN rows
      PROVE  /\ i \in Group(rows, i) /\ Group(rows, i) \subseteq DOMAIN rows
             /\ \A j \in Group(rows, i) : /\ Group(rows, j) = Group(rows, i)
                                          /\ JobOf(rows[j]) = JobOf(rows[i])
                                          /\ winner(j) = winner(i)
             /\ winner(i) \in Group(rows, i)
  BY GroupOfRow
<1>2. /\ \A i \in DOMAIN rows : i # winner(i) => rows[i].key \in dropped
      /\ \A k \in dropped : \E i \in DOMAIN rows : i # winner(i) /\ rows[i].key = k
  BY DEF DroppedKeys, Losers
<1>3. kept \subseteq DOMAIN rows /\ \A i \in kept : i = winner(i)
  BY <1>2
<1>4. left = [m \in 1 .. c |-> MergedRow(rows, Group(rows, Nth(kept, m)))]
  BY DEF DedupedRows
<1> HIDE DEF dropped, winner, left
<1>5. Len(rows) \in Nat /\ DOMAIN rows = 1 .. Len(rows) /\ kept \in SUBSET (1 .. Len(rows))
  BY RowsOfSeq
<1>6. c \in Nat
  BY <1>5, RanksNumber
<1>7. /\ \A m \in 1 .. c : Nth(kept, m) \in kept /\ Cardinality({j \in kept : j <= Nth(kept, m)}) = m
      /\ \A i \in kept : \E m \in 1 .. c : Nth(kept, m) = i
  BY <1>5, NthPlace
<1>8. ASSUME NEW i \in DOMAIN rows
      PROVE  winner(i) \in DOMAIN rows /\ JobOf(rows[winner(i)]) = JobOf(rows[i])
             /\ (Alone(rows, winner(i)) => winner(i) \in kept)
  <2> DEFINE w == winner(i)
  <2>1. w \in DOMAIN rows /\ JobOf(rows[w]) = JobOf(rows[i]) /\ winner(w) = w /\ Group(rows, w) \subseteq DOMAIN rows
    BY <1>1
  <2> HIDE DEF w
  <2>2. ASSUME Alone(rows, w) PROVE rows[w].key \notin dropped
    BY <1>2, <2>1, <2>2 DEF Alone
  <2>3. ASSUME NEW j \in Group(rows, w), j < w PROVE rows[j].key \in dropped
    <3>1. j \in DOMAIN rows /\ winner(j) = w
      BY <1>1, <2>1
    <3>2. j # w
      BY <1>5, <2>1, <2>3, <3>1
    <3> QED BY <1>2, <3>1, <3>2
  <2> QED BY <2>1, <2>2, <2>3 DEF w
<1> HIDE DEF kept, c
<1>9. ASSUME NEW m \in 1 .. c
      PROVE  LET i == Nth(kept, m)
             IN  /\ i \in DOMAIN rows /\ i = winner(i)
                 /\ left[m] \in Row /\ left[m].key = rows[i].key /\ left[m].adate = rows[i].adate
                 /\ \E j \in Group(rows, i) : left[m].art = rows[j].art
  <2> DEFINE i == Nth(kept, m)
  <2>1. i \in DOMAIN rows /\ i = winner(i) /\ left[m] = MergedRow(rows, Group(rows, i))
    BY <1>3, <1>4, <1>7
  <2> HIDE DEF i
  <2>2. i = Winner(rows, Group(rows, i))
    BY <2>1 DEF winner
  <2>3. /\ left[m] \in Row /\ left[m].key = rows[i].key /\ left[m].adate = rows[i].adate
        /\ \E j \in Group(rows, i) : left[m].art = rows[j].art
    BY <2>1, <2>2, MergedRowShape
  <2> QED BY <2>1, <2>3 DEF i
<1>10. DOMAIN left = 1 .. c /\ left \in Seq(Row)
  <2>1. DOMAIN left = 1 .. c
    BY <1>4
  <2>2. left \in [1 .. c -> Row]
    BY <1>4, <1>9, <2>1
  <2> QED BY <1>6, <2>1, <2>2, SeqDef
<1>11. ASSUME NEW m \in 1 .. c
       PROVE  \E j \in Group(rows, Nth(kept, m)) : /\ j \in DOMAIN rows /\ left[m].art = rows[j].art
                                                   /\ TitleOf(left[m]) = TitleOf(rows[j])
  <2> DEFINE i == Nth(kept, m)
  <2>1. i \in DOMAIN rows /\ left[m].key = rows[i].key
    BY <1>9
  <2>2. PICK j \in Group(rows, i) : left[m].art = rows[j].art
    BY <1>9
  <2> HIDE DEF i
  <2>3. j \in DOMAIN rows /\ JobOf(rows[j]) = JobOf(rows[i])
    BY <1>1, <2>1, <2>2
  <2>4. TitleOf(left[m]) = TitleOf(rows[i])
    BY <2>1 DEF TitleOf
  <2>5. TitleOf(rows[i]) = TitleOf(rows[j])
    BY <2>3, KeyNames
  <2> QED BY <2>2, <2>3, <2>4, <2>5 DEF i
<1>12. LoneArt(left)
  <2> SUFFICES ASSUME NEW m \in 1 .. c, NEW n \in 1 .. c, TitleOf(left[m]) = TitleOf(left[n]),
                      left[m].art # "none", left[n].art # "none"
               PROVE  m = n
    BY <1>10 DEF LoneArt
  <2> DEFINE a == Nth(kept, m)
             b == Nth(kept, n)
  <2>1. PICK i \in Group(rows, a) : /\ i \in DOMAIN rows /\ left[m].art = rows[i].art
                                     /\ TitleOf(left[m]) = TitleOf(rows[i])
    BY <1>11
  <2>2. PICK j \in Group(rows, b) : /\ j \in DOMAIN rows /\ left[n].art = rows[j].art
                                     /\ TitleOf(left[n]) = TitleOf(rows[j])
    BY <1>11
  <2>3. i = j
    BY <2>1, <2>2 DEF LoneArt
  <2>4. a \in DOMAIN rows /\ a = winner(a) /\ b \in DOMAIN rows /\ b = winner(b)
    BY <1>9
  <2>5. m = Cardinality({k \in kept : k <= a}) /\ n = Cardinality({k \in kept : k <= b})
    BY <1>7
  <2> HIDE DEF a, b
  <2>6. winner(i) = a /\ winner(j) = b
    BY <1>1, <2>1, <2>2, <2>4
  <2> QED BY <2>3, <2>5, <2>6
<1>13. JobsIn(rows) \subseteq JobsIn(left) \cup Doubled(rows)
  <2> SUFFICES ASSUME NEW i \in DOMAIN rows, JobOf(rows[i]) \notin Doubled(rows)
               PROVE  \E m \in DOMAIN left : JobOf(left[m]) = JobOf(rows[i])
    BY DEF JobsIn
  <2> DEFINE w == winner(i)
  <2>1. w \in DOMAIN rows /\ JobOf(rows[w]) = JobOf(rows[i]) /\ (Alone(rows, w) => w \in kept)
    BY <1>8
  <2>2. Alone(rows, w)
    BY <2>1 DEF Doubled
  <2>3. PICK m \in 1 .. c : Nth(kept, m) = w
    BY <1>7, <2>1, <2>2
  <2>4. left[m].key = rows[w].key
    BY <1>9, <2>3
  <2> HIDE DEF w
  <2>5. JobOf(left[m]) = JobOf(rows[w])
    BY <2>4, KeyNames
  <2>6. m \in DOMAIN left
    BY <1>10
  <2> QED BY <2>1, <2>5, <2>6
<1> QED BY <1>9, <1>10, <1>11, <1>12, <1>13 DEF left, dropped

-----------------------------------------------------------------------------
(* Copies of the file *)

\* A save of what was loaded, and none at all, owe nothing.
LEMMA SavesSame ==
    ASSUME NEW rows
    PROVE  Saves(rows, rows)
BY DEF Saves, JobsIn, Alone

LEMMA SavesCopy ==
    ASSUME NEW old, NEW b, NEW a, Saves(old, b), SameAnchors(a, b)
    PROVE  Saves(old, a)
<1>1. DOMAIN a = DOMAIN b /\ \A i \in DOMAIN b : a[i].key = b[i].key /\ a[i].adate = b[i].adate
  BY DEF SameAnchors
<1>2. \A i \in DOMAIN b : JobOf(a[i]) = JobOf(b[i])
  BY <1>1, KeyNames
<1>3. JobsIn(b) \subseteq JobsIn(a)
  BY <1>1, <1>2 DEF JobsIn
<1>4. \A i \in DOMAIN b : Alone(a, i) => Alone(b, i)
  BY <1>1 DEF Alone
<1> QED BY <1>1, <1>3, <1>4 DEF Saves

LEMMA InPlaceWider ==
    ASSUME NEW rows, NEW disk, NEW few, NEW more, few \subseteq more, InPlace(rows, disk, few)
    PROVE  InPlace(rows, disk, more)
BY DEF InPlace

LEMMA SaveOfCopy ==
    ASSUME NEW disk, NEW but, NEW b, NEW a \in Seq(Row), Good(b, disk), SameAnchors(a, b)
    PROVE  /\ Saves(b, a)
           /\ SameArts(a, b) => Good(a, disk) /\ (InPlace(b, disk, but) => InPlace(a, disk, but))
<1>1. DOMAIN a = DOMAIN b /\ \A i \in DOMAIN b : a[i].key = b[i].key
  BY DEF SameAnchors
<1>2. \A i \in DOMAIN b : TitleOf(a[i]) = TitleOf(b[i])
  BY <1>1 DEF TitleOf
<1>3. LoneArt(b) /\ Archived(b, disk)
  BY DEF Good
<1>4. Saves(b, a)
  BY SavesSame, SavesCopy
<1>5. ASSUME SameArts(a, b)
      PROVE  Good(a, disk) /\ (InPlace(b, disk, but) => InPlace(a, disk, but))
  <2>1. LoneArt(a)
    BY <1>1, <1>2, <1>3, <1>5 DEF LoneArt, SameArts
  <2>2. Archived(a, disk)
    BY <1>1, <1>2, <1>3, <1>5 DEF Archived, SameArts
  <2>3. InPlace(b, disk, but) => InPlace(a, disk, but)
    BY <1>1, <1>2, <1>5 DEF InPlace, SameArts
  <2> QED BY <2>1, <2>2, <2>3 DEF Good
<1> QED BY <1>4, <1>5

LEMMA CopyOfSelf ==
    ASSUME NEW rows
    PROVE  SameAnchors(rows, rows) /\ SameArts(rows, rows)
BY DEF SameAnchors, SameArts

\* A change of a row's status, or of its path.
LEMMA StatusChanged ==
    ASSUME NEW rows \in Seq(Row), NEW i \in DOMAIN rows, NEW s \in RowStatuses
    PROVE  LET new == [rows EXCEPT ![i].status = s]
           IN  new \in Seq(Row) /\ SameAnchors(new, rows) /\ SameArts(new, rows)
<1> DEFINE row == [rows[i] EXCEPT !.status = s]
           new == [rows EXCEPT ![i] = row]
<1>1. Len(rows) \in Nat /\ DOMAIN rows = 1 .. Len(rows) /\ rows[i] \in Row
  BY RowsOfSeq
<1>2. row \in Row /\ row.key = rows[i].key /\ row.adate = rows[i].adate /\ row.art = rows[i].art
  BY <1>1 DEF Row
<1> HIDE DEF row
<1>3. new \in Seq(Row) /\ Len(new) = Len(rows)
      /\ \A j \in 1 .. Len(rows) : new[j] = IF j = i THEN row ELSE rows[j]
  BY <1>1, <1>2, ExceptSeq
<1>4. DOMAIN new = DOMAIN rows
  BY DEF new
<1> HIDE DEF new
<1>5. SameAnchors(new, rows) /\ SameArts(new, rows)
  BY <1>1, <1>2, <1>3, <1>4 DEF SameAnchors, SameArts
<1> QED BY <1>3, <1>5 DEF new, row

LEMMA ArtChanged ==
    ASSUME NEW rows \in Seq(Row), NEW i \in DOMAIN rows
    PROVE  LET new == [rows EXCEPT ![i].art = "arch"]
           IN  /\ new \in Seq(Row) /\ SameAnchors(new, rows)
               /\ \A j \in DOMAIN rows : new[j].art = IF j = i THEN "arch" ELSE rows[j].art
<1> DEFINE row == [rows[i] EXCEPT !.art = "arch"]
           new == [rows EXCEPT ![i] = row]
<1>1. Len(rows) \in Nat /\ DOMAIN rows = 1 .. Len(rows) /\ rows[i] \in Row
  BY RowsOfSeq
<1>2. row \in Row /\ row.key = rows[i].key /\ row.adate = rows[i].adate /\ row.art = "arch"
  BY <1>1 DEF Row
<1> HIDE DEF row
<1>3. new \in Seq(Row) /\ Len(new) = Len(rows)
      /\ \A j \in 1 .. Len(rows) : new[j] = IF j = i THEN row ELSE rows[j]
  BY <1>1, <1>2, ExceptSeq
<1>4. DOMAIN new = DOMAIN rows
  BY DEF new
<1> HIDE DEF new
<1>5. SameAnchors(new, rows) /\ \A j \in DOMAIN rows : new[j].art = IF j = i THEN "arch" ELSE rows[j].art
  BY <1>1, <1>2, <1>3, <1>4 DEF SameAnchors
<1> QED BY <1>3, <1>5 DEF new, row

-----------------------------------------------------------------------------
(* The steps *)

LEMMA IdleTyped ==
    /\ Idle \in Processes /\ Idle.buf = <<>> /\ Idle.todo = {} /\ Idle.pages \in [Keys -> Pages]
    /\ \A cmd \in Commands \cup {"none"}, pc \in Places :
         LET idle == [Idle EXCEPT !.cmd = cmd, !.pc = pc]
         IN  idle \in Processes /\ idle.pc = pc /\ idle.buf = <<>> /\ idle.todo = {}
<1> DEFINE pages == [k \in Keys |-> NoPage]
           no == FALSE
           shape == [cmd: Commands \cup {"none"}, pc: Places, buf: Seq(Row), todo: SUBSET Nat,
                     pages: [Keys -> Pages], moved: Flags, new: Seq(Row)]
           idle == [cmd |-> "none", pc |-> "idle", buf |-> <<>>, todo |-> {},
                    pages |-> pages, moved |-> no, new |-> <<>>]
<1>1. pages \in [Keys -> Pages] /\ <<>> \in Seq(Row) /\ "idle" \in Places
  BY EmptySeq DEF Pages, Places, Free
<1>2. Idle = idle /\ Processes = shape
  BY DEF Idle, Processes
<1>3. no \in Flags
  BY DEF Flags
<1> HIDE DEF pages, no
<1>4. idle \in shape /\ idle.buf = <<>> /\ idle.todo = {} /\ idle.pages = pages
  BY <1>1, <1>3
<1>5. ASSUME NEW cmd \in Commands \cup {"none"}, NEW pc \in Places
      PROVE  LET r == [Idle EXCEPT !.cmd = cmd, !.pc = pc]
             IN  r \in Processes /\ r.pc = pc /\ r.buf = <<>> /\ r.todo = {}
  <2>1. Idle \in shape /\ Idle.buf = <<>> /\ Idle.todo = {}
    BY <1>2, <1>4
  <2> HIDE DEF idle
  <2> QED BY <1>2, <2>1
<1> HIDE DEF idle, shape
<1>6. Idle \in Processes /\ Idle.buf = <<>> /\ Idle.todo = {} /\ Idle.pages \in [Keys -> Pages]
  BY <1>1, <1>2, <1>4
<1> QED BY <1>5, <1>6

\* A command that lets its copy go holds nothing.
LEMMA Released ==
    ASSUME OneAtATime, proc \in [Procs -> Processes], NEW p \in Procs,
           NEW cmd \in Commands \cup {"none"}, NEW pc \in Free,
           \/ proc' = [proc EXCEPT ![p] = [Idle EXCEPT !.cmd = cmd, !.pc = pc]]
           \/ proc' = [proc EXCEPT ![p] = Idle]
    PROVE  /\ proc' \in [Procs -> Processes]
           /\ \A q \in Procs : /\ Holds(q)'
                               /\ proc'[q].buf \in Seq(Row) /\ proc'[q].todo \subseteq DOMAIN proc'[q].buf
                               /\ proc'[q].cmd \in Commands \cup {"none"}
<1>1. PICK r \in Processes : /\ proc' = [proc EXCEPT ![p] = r] /\ r.pc \in Free
                             /\ r.buf = <<>> /\ r.todo = {}
  <2>1. Idle.pc = "idle"
    BY DEF Idle
  <2>2. pc \in Places /\ "idle" \in Free
    BY DEF Places, Free
  <2>3. CASE proc' = [proc EXCEPT ![p] = [Idle EXCEPT !.cmd = cmd, !.pc = pc]]
    <3> DEFINE r == [Idle EXCEPT !.cmd = cmd, !.pc = pc]
    <3>1. r \in Processes /\ r.pc = pc /\ r.buf = <<>> /\ r.todo = {}
      BY <2>2, IdleTyped
    <3> HIDE DEF r
    <3> QED BY <2>3, <3>1 DEF r
  <2>4. CASE proc' = [proc EXCEPT ![p] = Idle]
    BY <2>1, <2>2, <2>4, IdleTyped
  <2> QED BY <2>3, <2>4
<1>2. proc' \in [Procs -> Processes] /\ proc'[p] = r
  BY <1>1
<1>3. \A q \in Procs : q = p
  BY DEF OneAtATime
<1>4. Holds(p)'
  BY <1>1, <1>2 DEF Holds, At, Free
<1>5. r.buf \in Seq(Row) /\ r.cmd \in Commands \cup {"none"} /\ r.todo \subseteq DOMAIN r.buf
  BY <1>1 DEF Processes
<1> QED BY <1>2, <1>3, <1>4, <1>5

\* The ledger is in order: what the invariant says of it, and what the save owes.
InOrder ==
    /\ Good(tsv', file') /\ Saves(tsv, tsv')
    /\ InPlace(tsv', file', Behind')

\* The rest of the state keeps its type.
OthersTyped ==
    /\ notion' \in [Keys -> Pages] /\ file' \in [Jobs -> {"none", "hot", "arch"}]
    /\ blocked' \subseteq Jobs /\ today' \in 1 .. MaxDay /\ upsets' \in 0 .. MaxUpsets
    /\ strayed' \subseteq Jobs

LEMMA Others ==
    ASSUME IInv
    PROVE  /\ notion \in [Keys -> Pages] /\ file \in [Jobs -> {"none", "hot", "arch"}]
           /\ blocked \subseteq Jobs /\ today \in 1 .. MaxDay /\ upsets \in 0 .. MaxUpsets
           /\ strayed \subseteq Jobs
           /\ today \in Days
           /\ proc \in [Procs -> Processes] /\ Good(tsv, file) /\ tsv \in Seq(Row)
           /\ \A p \in Procs : /\ Holds(p) /\ proc[p] \in Processes
                               /\ proc[p].buf \in Seq(Row) /\ proc[p].todo \subseteq DOMAIN proc[p].buf
                               /\ proc[p].cmd \in Commands \cup {"none"}
<1>1. /\ notion \in [Keys -> Pages] /\ file \in [Jobs -> {"none", "hot", "arch"}]
      /\ blocked \subseteq Jobs /\ today \in 1 .. MaxDay /\ upsets \in 0 .. MaxUpsets
      /\ strayed \subseteq Jobs
      /\ \A p \in Procs : /\ proc[p].buf \in Seq(Row) /\ proc[p].todo \subseteq DOMAIN proc[p].buf
                          /\ proc[p].cmd \in Commands \cup {"none"}
  BY DEF IInv, TypeOK, Pages
<1>2. today \in Days
  BY <1>1, MaxDayAssumption DEF Days
<1> QED BY <1>1, <1>2 DEF IInv, Good

\* What a step that releases its copy has to show.
LEMMA ReleaseKeeps ==
    ASSUME OneAtATime, proc \in [Procs -> Processes], NEW p \in Procs,
           NEW cmd \in Commands \cup {"none"}, NEW pc \in Free,
           \/ proc' = [proc EXCEPT ![p] = [Idle EXCEPT !.cmd = cmd, !.pc = pc]]
           \/ proc' = [proc EXCEPT ![p] = Idle],
           InOrder, OthersTyped
    PROVE  IInv'
<1>1. /\ proc' \in [Procs -> Processes]
      /\ \A q \in Procs : /\ Holds(q)'
                          /\ proc'[q].buf \in Seq(Row) /\ proc'[q].todo \subseteq DOMAIN proc'[q].buf
                          /\ proc'[q].cmd \in Commands \cup {"none"}
  BY Released
<1>2. Good(tsv, file)' /\ InPlace(tsv, file, Behind)'
  BY DEF InOrder
<1>3. tsv' \in Seq(Row)
  BY DEF InOrder, Good
<1>4. TypeOK'
  BY <1>1, <1>3 DEF TypeOK, OthersTyped, Pages
<1> QED BY <1>1, <1>2, <1>4 DEF IInv

\* What a step of a command that holds on has to show.
LEMMA HoldKeeps ==
    ASSUME OneAtATime, NEW p \in Procs, proc' \in [Procs -> Processes], Holds(p)',
           proc'[p].todo \subseteq DOMAIN proc'[p].buf, InOrder, OthersTyped
    PROVE  IInv'
<1>1. \A q \in Procs : q = p
  BY DEF OneAtATime
<1>2. Good(tsv, file)' /\ InPlace(tsv, file, Behind)'
  BY DEF InOrder
<1>3. tsv' \in Seq(Row) /\ proc'[p] \in Processes
  BY DEF InOrder, Good
<1>4. proc'[p].buf \in Seq(Row) /\ proc'[p].cmd \in Commands \cup {"none"}
  BY <1>3 DEF Processes
<1>5. TypeOK'
  BY <1>1, <1>3, <1>4 DEF TypeOK, OthersTyped, Pages
<1> QED BY <1>1, <1>2, <1>5 DEF IInv

\* Between the archives every path names its file, but for what a death left.
LEMMA PathsBetween ==
    ASSUME OneAtATime, IInv, NEW p \in Procs, ~At(p, "archive")
    PROVE  InPlace(tsv, file, strayed)
<1>1. \A q \in Procs : Unsaved(q) = {}
  BY DEF OneAtATime, Unsaved
<1>2. Behind = strayed
  BY <1>1 DEF Behind
<1> QED BY <1>2 DEF IInv

\* What a step has to show that ends, or does not begin, an archive.
LEMMA OrderBetween ==
    ASSUME Good(tsv', file'), Saves(tsv, tsv'), InPlace(tsv', file', strayed')
    PROVE  InOrder
<1>1. strayed' \subseteq Behind'
  BY DEF Behind
<1> QED BY <1>1, InPlaceWider DEF InOrder

\* A step that writes no file leaves the ledger in order.
LEMMA NothingSaved ==
    ASSUME OneAtATime, IInv, NEW p \in Procs, ~At(p, "archive"),
           UNCHANGED <<tsv, file, strayed>>
    PROVE  InOrder
<1>1. Good(tsv, file) /\ Saves(tsv, tsv)
  BY Others, SavesSame
<1>2. InPlace(tsv, file, strayed)
  BY PathsBetween
<1> QED BY <1>1, <1>2, OrderBetween

LEMMA AfterSweepsFree ==
    ASSUME NEW cmd
    PROVE  AfterSweeps(cmd) \in Free
BY DEF AfterSweeps, Free

LEMMA StartKeeps ==
    ASSUME OneAtATime, IInv, NEW p \in Procs, NEW cmd \in Commands, Start(p, cmd)
    PROVE  IInv' /\ Saves(tsv, tsv')
<1>1. DeadSwept(tsv) = tsv
  <2>1. \A i \in DOMAIN tsv : tsv[i].status # "In flight"
    BY Others, RowsOfSeq DEF Row, RowStatuses
  <2>2. StaleInFlight(tsv, today) = {}
    BY <2>1 DEF StaleInFlight
  <2>3. DeadSwept(tsv) = [i \in DOMAIN tsv |-> tsv[i]]
    BY <2>2 DEF DeadSwept
  <2>4. tsv = [i \in 1 .. Len(tsv) |-> tsv[i]]
    BY Others, RowsOfSeq
  <2> QED BY <2>3, <2>4, Others, RowsOfSeq
<1>2. /\ At(p, "idle") /\ tsv' = tsv /\ UNCHANGED <<notion, file, blocked, today, upsets, strayed>>
      /\ proc' = [proc EXCEPT ![p] =
            IF StaleApplied(tsv, today) = {}
            THEN [Idle EXCEPT !.cmd = cmd, !.pc = AfterSweeps(cmd)]
            ELSE [Idle EXCEPT !.cmd = cmd, !.pc = "sweep", !.buf = tsv,
                              !.todo = StaleApplied(tsv, today)]]
  BY <1>1 DEF Start
<1>3. OthersTyped
  BY <1>2, Others DEF OthersTyped
<1>4. InOrder
  BY <1>2, NothingSaved DEF At
<1>5. CASE StaleApplied(tsv, today) = {}
  BY <1>2, <1>3, <1>4, <1>5, AfterSweepsFree, ReleaseKeeps, Others DEF InOrder
<1>6. CASE StaleApplied(tsv, today) # {}
  <2> DEFINE stale == StaleApplied(tsv, today)
             r == [Idle EXCEPT !.cmd = cmd, !.pc = "sweep", !.buf = tsv, !.todo = stale]
  <2>1. stale \subseteq DOMAIN tsv /\ DOMAIN tsv \subseteq Nat
    BY Others, RowsOfSeq DEF StaleApplied
  <2> HIDE DEF stale
  <2>2. r \in Processes /\ r.pc = "sweep" /\ r.buf = tsv /\ r.todo = stale
    BY <2>1, IdleTyped, Others DEF Processes, Places
  <2>3. proc' = [proc EXCEPT ![p] = r]
    BY <1>2, <1>6 DEF stale
  <2> HIDE DEF r
  <2>4. proc' \in [Procs -> Processes] /\ proc'[p] = r
    BY <2>2, <2>3, Others
  <2>5. Holds(p)'
    BY <1>2, <2>2, <2>4, CopyOfSelf DEF Holds, At, Free
  <2> QED BY <1>3, <1>4, <2>1, <2>2, <2>4, <2>5, HoldKeeps DEF InOrder
<1> QED BY <1>5, <1>6

LEMMA SweepRowKeeps ==
    ASSUME OneAtATime, IInv, NEW p \in Procs, NEW ok \in BOOLEAN, SweepRow(p, ok)
    PROVE  IInv' /\ Saves(tsv, tsv')
<1>1. PICK i \in proc[p].todo :
        /\ proc' = [proc EXCEPT ![p].todo = @ \ {i}, ![p].buf[i].status = "No Response"]
        /\ notion' = IF ok /\ proc[p].buf[i].paged
                     THEN [notion EXCEPT ![proc[p].buf[i].key].status = "No Response"]
                     ELSE notion
  BY DEF SweepRow
<1>2. At(p, "sweep") /\ UNCHANGED <<tsv, file, blocked, today, upsets, strayed>>
  BY DEF SweepRow
<1> DEFINE buf == proc[p].buf
           new == [buf EXCEPT ![i].status = "No Response"]
<1>3. proc[p] \in Processes /\ buf \in Seq(Row) /\ i \in DOMAIN buf /\ buf[i].key \in Keys
  BY <1>1, Others, RowsOfSeq
<1>4. new \in Seq(Row) /\ SameAnchors(new, buf) /\ SameArts(new, buf)
  BY <1>3, StatusChanged DEF RowStatuses
<1>5. SameAnchors(buf, tsv) /\ SameArts(buf, tsv)
  BY <1>2, Others DEF Holds
<1>6. SameAnchors(new, tsv) /\ SameArts(new, tsv)
  BY <1>4, <1>5 DEF SameAnchors, SameArts
<1> HIDE DEF new
<1>7. /\ proc' \in [Procs -> Processes] /\ proc'[p].pc = "sweep"
      /\ proc'[p].buf = new /\ proc'[p].todo = proc[p].todo \ {i}
  <2> DEFINE r == [proc[p] EXCEPT !.todo = @ \ {i}, !.buf = new]
  <2>1. r \in Processes /\ r.pc = proc[p].pc /\ r.buf = new /\ r.todo = proc[p].todo \ {i}
    BY <1>3, <1>4 DEF Processes
  <2>2. proc' = [proc EXCEPT ![p] = r]
    BY <1>1, <1>3, Others DEF new, Processes
  <2> HIDE DEF r
  <2> QED BY <1>2, <2>1, <2>2, Others DEF At
<1>8. notion' \in [Keys -> Pages]
  <2> DEFINE k == buf[i].key
             page == [notion[k] EXCEPT !.status = "No Response"]
  <2>1. notion[k] \in Pages
    BY <1>3, Others
  <2>2. page \in Pages
    <3> DEFINE wide == [status: PageStatuses \cup {"none"}, outreach: Outreach]
    <3>1. NoPage \in wide
      BY DEF NoPage, Outreach
    <3>2. notion[k] \in [status: PageStatuses, outreach: Outreach] => notion[k] \in wide
      OBVIOUS
    <3>3. notion[k] \in wide
      BY <2>1, <3>1, <3>2 DEF Pages
    <3>4. page \in [status: PageStatuses, outreach: Outreach]
      BY <3>3 DEF PageStatuses
    <3> QED BY <3>4 DEF Pages
  <2>3. notion' = [notion EXCEPT ![k] = page] \/ notion' = notion
    BY <1>1
  <2> HIDE DEF k, page
  <2> QED BY <2>2, <2>3, Others
<1>9. OthersTyped
  BY <1>2, <1>8, Others DEF OthersTyped
<1>10. InOrder
  BY <1>2, NothingSaved DEF At
<1>11. Holds(p)'
  BY <1>2, <1>6, <1>7 DEF Holds, At, Free
<1>12. proc'[p].todo \subseteq DOMAIN proc'[p].buf
  BY <1>4, <1>7, Others DEF SameAnchors
<1> QED BY <1>7, <1>9, <1>10, <1>11, <1>12, HoldKeeps DEF InOrder

LEMMA SweepSaveKeeps ==
    ASSUME OneAtATime, IInv, NEW p \in Procs, SweepSave(p)
    PROVE  IInv' /\ Saves(tsv, tsv')
<1>1. /\ At(p, "sweep") /\ tsv' = proc[p].buf /\ Drop(p, AfterSweeps(proc[p].cmd))
      /\ UNCHANGED <<notion, file, blocked, today, upsets, strayed>>
  BY DEF SweepSave
<1>2. /\ proc[p].buf \in Seq(Row) /\ SameAnchors(proc[p].buf, tsv) /\ SameArts(proc[p].buf, tsv)
      /\ Good(tsv, file)
  BY <1>1, Others DEF Holds
<1>3. InPlace(tsv, file, strayed)
  BY <1>1, PathsBetween DEF At
<1>4. Good(tsv', file') /\ Saves(tsv, tsv') /\ InPlace(tsv', file', strayed')
  BY <1>1, <1>2, <1>3, SaveOfCopy
<1>5. OthersTyped
  BY <1>1, Others DEF OthersTyped
<1> QED BY <1>1, <1>4, <1>5, OrderBetween, AfterSweepsFree, ReleaseKeeps, Others DEF Drop

LEMMA PullLoadKeeps ==
    ASSUME OneAtATime, IInv, NEW p \in Procs, PullLoad(p) \/ ScreenLoad(p)
    PROVE  IInv' /\ Saves(tsv, tsv')
<1>1. PICK pc \in {"fetch", "sweepOut"} : proc' = [proc EXCEPT ![p].pc = pc, ![p].buf = tsv]
  BY DEF PullLoad, ScreenLoad
<1>2. proc[p].pc \in {"pull", "screen"} /\ UNCHANGED <<tsv, notion, file, blocked, today, upsets, strayed>>
  BY DEF PullLoad, ScreenLoad, At
<1>3. /\ proc' \in [Procs -> Processes] /\ proc'[p].pc = pc
      /\ proc'[p].buf = tsv /\ proc'[p].todo = proc[p].todo
  BY <1>1, Others DEF Processes, Places
<1>4. OthersTyped
  BY <1>2, Others DEF OthersTyped
<1>5. InOrder
  BY <1>2, NothingSaved DEF At
<1>6. Holds(p)'
  BY <1>2, <1>3 DEF Holds, At, Free
<1>7. proc[p].todo = {}
  <2>1. proc[p].buf = <<>> /\ proc[p].todo \subseteq DOMAIN proc[p].buf
    BY <1>2, Others DEF Holds, Free
  <2>2. DOMAIN <<>> = {}
    OBVIOUS
  <2> QED BY <2>1, <2>2
<1> QED BY <1>3, <1>4, <1>5, <1>6, <1>7, HoldKeeps DEF InOrder

LEMMA FetchKeeps ==
    ASSUME OneAtATime, IInv, NEW p \in Procs, NEW ok \in BOOLEAN, Fetch(p, ok)
    PROVE  IInv' /\ Saves(tsv, tsv')
<1>1. PICK pages \in [Keys -> Pages] :
        proc' = [proc EXCEPT ![p].pc = "reconcile", ![p].pages = pages]
  <2>1. proc[p].pages \in [Keys -> Pages] /\ notion \in [Keys -> Pages]
    BY Others DEF Processes
  <2> DEFINE pages == IF ok THEN notion ELSE proc[p].pages
  <2>2. proc' = [proc EXCEPT ![p].pc = "reconcile", ![p].pages = pages]
    BY DEF Fetch
  <2> QED BY <2>1, <2>2
<1>2. At(p, "fetch") /\ UNCHANGED <<tsv, notion, file, blocked, today, upsets, strayed>>
  BY DEF Fetch
<1>3. /\ proc' \in [Procs -> Processes] /\ proc'[p].pc = "reconcile"
      /\ proc'[p].buf = proc[p].buf /\ proc'[p].todo = proc[p].todo
  BY <1>1, Others DEF Processes, Places
<1>4. OthersTyped
  BY <1>2, Others DEF OthersTyped
<1>5. InOrder
  BY <1>2, NothingSaved DEF At
<1>6. proc[p].buf = tsv
  BY <1>2, Others DEF Holds, At
<1>7. Holds(p)'
  BY <1>2, <1>3, <1>6 DEF Holds, At, Free
<1> QED BY <1>3, <1>4, <1>5, <1>7, Others, HoldKeeps DEF InOrder

LEMMA ReconcileKeeps ==
    ASSUME OneAtATime, IInv, NEW p \in Procs, Reconcile(p)
    PROVE  IInv' /\ Saves(tsv, tsv')
<1> DEFINE pages == proc[p].pages
           merged == MergedRows(tsv, pages)
<1>1. At(p, "reconcile") /\ UNCHANGED <<notion, file, blocked, today, upsets, strayed>>
  BY DEF Reconcile
<1>2. proc[p].buf = tsv /\ pages \in [Keys -> Pages]
  BY <1>1, Others DEF Holds, At, Processes
<1>3. /\ tsv' = IF PulledRows(tsv, pages) # tsv \/ AddedRows(tsv, pages) # <<>> THEN merged ELSE tsv
      /\ proc' = [proc EXCEPT ![p].pc = "archive", ![p].buf = merged,
                              ![p].pages = Idle.pages, ![p].todo = Movable(merged)]
  BY <1>2 DEF Reconcile
<1>4. LoneArt(tsv) /\ Archived(tsv, file) /\ Good(tsv, file) /\ today \in Days /\ tsv \in Seq(Row)
  BY Others DEF Good
<1>5. /\ merged \in Seq(Row)
      /\ \A m, n \in DOMAIN merged : merged[m].key = merged[n].key => m = n
      /\ \A m \in DOMAIN merged :
           \/ \E i \in DOMAIN tsv :
                /\ merged[m].key = tsv[i].key /\ merged[m].art = tsv[i].art
                /\ tsv[i].adate # 0 => merged[m].adate = tsv[i].adate
           \/ merged[m].key \notin KeysIn(tsv) /\ merged[m].art = "none"
      /\ KeysIn(tsv) \subseteq KeysIn(merged)
  BY <1>2, <1>4, MergedRowsKeep
<1>6. tsv' = merged \/ tsv' = tsv
  BY <1>3
<1> HIDE DEF merged
<1>7. Good(merged, file) /\ InPlace(merged, file, strayed) /\ InPlace(tsv, file, strayed)
  <2>1. ASSUME NEW m \in DOMAIN merged, merged[m].art # "none"
        PROVE  \E i \in DOMAIN tsv : /\ merged[m].key = tsv[i].key /\ merged[m].art = tsv[i].art
                                      /\ TitleOf(merged[m]) = TitleOf(tsv[i])
    BY <1>5, <2>1 DEF TitleOf
  <2>2. LoneArt(merged)
    <3> SUFFICES ASSUME NEW m \in DOMAIN merged, NEW n \in DOMAIN merged,
                        TitleOf(merged[m]) = TitleOf(merged[n]),
                        merged[m].art # "none", merged[n].art # "none"
                 PROVE  m = n
      BY DEF LoneArt
    <3>1. PICK i \in DOMAIN tsv : /\ merged[m].key = tsv[i].key /\ merged[m].art = tsv[i].art
                                   /\ TitleOf(merged[m]) = TitleOf(tsv[i])
      BY <2>1
    <3>2. PICK j \in DOMAIN tsv : /\ merged[n].key = tsv[j].key /\ merged[n].art = tsv[j].art
                                   /\ TitleOf(merged[n]) = TitleOf(tsv[j])
      BY <2>1
    <3>3. i = j
      BY <1>4, <3>1, <3>2 DEF LoneArt
    <3> QED BY <1>5, <3>1, <3>2, <3>3
  <2>3. InPlace(tsv, file, strayed)
    BY <1>1, PathsBetween DEF At
  <2>4. Archived(merged, file) /\ InPlace(merged, file, strayed)
    BY <1>4, <2>1, <2>3 DEF Archived, InPlace
  <2> QED BY <1>5, <2>2, <2>3, <2>4 DEF Good
<1>8. Saves(tsv, merged) /\ Saves(tsv, tsv)
  <2>1. JobsIn(tsv) \subseteq JobsIn(merged)
    <3> SUFFICES ASSUME NEW i \in DOMAIN tsv PROVE \E m \in DOMAIN merged : JobOf(merged[m]) = JobOf(tsv[i])
      BY DEF JobsIn
    <3>1. PICK m \in DOMAIN merged : merged[m].key = tsv[i].key
      BY <1>5 DEF KeysIn
    <3> QED BY <3>1, KeyNames
  <2>2. ASSUME NEW i \in DOMAIN tsv, NEW m \in DOMAIN merged, tsv[i].key = merged[m].key,
               Alone(tsv, i), tsv[i].adate # 0
        PROVE  merged[m].adate = tsv[i].adate
    <3>1. merged[m].key \in KeysIn(tsv)
      BY <2>2 DEF KeysIn
    <3>2. PICK j \in DOMAIN tsv : merged[m].key = tsv[j].key /\ (tsv[j].adate # 0 => merged[m].adate = tsv[j].adate)
      BY <1>5, <3>1
    <3>3. i = j
      BY <2>2, <3>2 DEF Alone
    <3> QED BY <2>2, <3>2, <3>3
  <2> QED BY <2>1, <2>2, SavesSame DEF Saves
<1>9. Movable(merged) \in SUBSET Nat /\ Movable(merged) \subseteq DOMAIN merged
      /\ \A i \in Movable(merged) : merged[i].art = "hot"
  <2>1. DOMAIN merged \subseteq Nat
    BY <1>5, RowsOfSeq
  <2> QED BY <2>1 DEF Movable
<1> DEFINE todo == Movable(merged)
<1> HIDE DEF todo
<1>10. /\ proc' \in [Procs -> Processes] /\ proc'[p].pc = "archive"
       /\ proc'[p].buf = merged /\ proc'[p].todo = todo
  <2>1. todo \in SUBSET Nat /\ Idle.pages \in [Keys -> Pages]
    BY <1>9, IdleTyped DEF todo
  <2>2. proc' = [proc EXCEPT ![p].pc = "archive", ![p].buf = merged,
                             ![p].pages = Idle.pages, ![p].todo = todo]
    BY <1>3 DEF todo, merged
  <2> DEFINE r == [proc[p] EXCEPT !.pc = "archive", !.buf = merged,
                                  !.pages = Idle.pages, !.todo = todo]
  <2>3. r \in Processes /\ r.pc = "archive" /\ r.buf = merged /\ r.todo = todo
    BY <1>5, <2>1, Others DEF Processes, Places
  <2>4. proc' = [proc EXCEPT ![p] = r]
    BY <2>2, Others DEF Processes
  <2> HIDE DEF r
  <2> QED BY <2>3, <2>4, Others
<1>11. OthersTyped
  BY <1>1, Others DEF OthersTyped
<1>12. Good(tsv', file') /\ Saves(tsv, tsv') /\ InPlace(tsv', file', strayed')
  BY <1>1, <1>4, <1>6, <1>7, <1>8
<1>13. InOrder
  BY <1>12, OrderBetween
<1>14. Holds(p)'
  <2>1. Saves(tsv', merged)
    BY <1>6, <1>8, SavesSame
  <2>2. \A i \in todo : merged[i].art = "hot"
    BY <1>9 DEF todo
  <2> QED BY <1>1, <1>7, <1>10, <1>12, <2>1, <2>2 DEF Holds, At, Free
<1> QED BY <1>8, <1>9, <1>10, <1>11, <1>12, <1>13, <1>14, HoldKeeps DEF todo

LEMMA ArchiveMoveKeeps ==
    ASSUME OneAtATime, IInv, NEW p \in Procs, NEW ok \in BOOLEAN, ArchiveMove(p, ok)
    PROVE  IInv' /\ Saves(tsv, tsv')
<1> DEFINE buf == proc[p].buf
<1>1. At(p, "archive") /\ UNCHANGED <<tsv, notion, blocked, today, upsets, strayed>>
  BY DEF ArchiveMove
<1>2. PICK i \in proc[p].todo :
        LET j == TitleOf(buf[i])
            done == ok /\ file[j] = "hot"
        IN  /\ file' = IF done THEN [file EXCEPT ![j] = "arch"] ELSE file
            /\ proc' = [proc EXCEPT ![p].todo = @ \ {i}, ![p].moved = @ \/ done,
                                    ![p].buf[i].art = IF done THEN "arch" ELSE @]
  BY DEF ArchiveMove
<1> DEFINE j == TitleOf(buf[i])
           done == ok /\ file[j] = "hot"
           moved == proc[p].moved \/ done
           new == IF done THEN [buf EXCEPT ![i].art = "arch"] ELSE buf
<1>3. /\ proc[p] \in Processes /\ buf \in Seq(Row) /\ i \in DOMAIN buf /\ DOMAIN buf \subseteq Nat
      /\ j \in Jobs /\ Good(tsv, file)
  BY <1>2, Others, RowsOfSeq
<1>4. /\ Good(buf, file) /\ Saves(tsv, buf)
      /\ InPlace(buf, file, strayed)
      /\ ~proc[p].moved => InPlace(tsv, file, strayed)
      /\ \A k \in proc[p].todo : buf[k].art = "hot"
  BY <1>1, Others DEF Holds
<1>5. /\ new \in Seq(Row) /\ SameAnchors(new, buf) /\ DOMAIN new = DOMAIN buf
      /\ \A k \in DOMAIN buf : new[k].art = IF done /\ k = i THEN "arch" ELSE buf[k].art
      /\ ~done => new = buf
  BY <1>3, ArtChanged, CopyOfSelf DEF SameAnchors
<1>6. /\ proc' \in [Procs -> Processes] /\ proc'[p].pc = "archive"
      /\ proc'[p].buf = new /\ proc'[p].todo = proc[p].todo \ {i} /\ proc'[p].moved = moved
  <2> DEFINE art == IF done THEN "arch" ELSE buf[i].art
             r == [proc[p] EXCEPT !.todo = @ \ {i}, !.moved = @ \/ done, !.buf[i].art = art]
  <2>1. proc' = [proc EXCEPT ![p] = r]
    BY <1>2 DEF r
  <2>2. [buf EXCEPT ![i].art = art] = new
    <3>1. CASE done
      BY <3>1
    <3>2. CASE ~done
      <4>1. buf[i] \in Row
        BY <1>3, RowsOfSeq
      <4>2. [buf[i] EXCEPT !.art = buf[i].art] = buf[i]
        BY <4>1 DEF Row
      <4>3. [buf EXCEPT ![i] = buf[i]] = buf
        BY <1>3, RowsOfSeq
      <4> QED BY <3>2, <4>2, <4>3
    <3> QED BY <3>1, <3>2
  <2> HIDE DEF art, new, moved
  <2>3. r = [proc[p] EXCEPT !.todo = proc[p].todo \ {i}, !.moved = moved, !.buf = new]
    BY <2>2 DEF r, moved
  <2>4. moved \in Flags
    BY DEF moved, Flags
  <2> HIDE DEF r
  <2>5. r \in Processes /\ r.pc = proc[p].pc /\ r.buf = new /\ r.todo = proc[p].todo \ {i} /\ r.moved = moved
    BY <1>3, <1>5, <2>3, <2>4 DEF Processes
  <2> QED BY <1>1, <2>1, <2>5, Others DEF At
<1>7. file' = IF done THEN [file EXCEPT ![j] = "arch"] ELSE file
  BY <1>2
<1> HIDE DEF new, moved
<1>8. file' \in [Jobs -> {"none", "hot", "arch"}] /\ \A k \in Jobs : file[k] = "arch" => file'[k] = "arch"
  BY <1>3, <1>7, Others
<1>9. Good(tsv, file')
  BY <1>3, <1>8, RowsOfSeq DEF Good, Archived
<1>10. Good(new, file') /\ InPlace(new, file', strayed)
  <2>1. \A k \in DOMAIN buf : TitleOf(new[k]) = TitleOf(buf[k]) /\ TitleOf(buf[k]) \in Jobs
    BY <1>3, <1>5, RowsOfSeq DEF SameAnchors, TitleOf
  <2>2. CASE ~done
    BY <1>4, <1>5, <1>7, <2>2
  <2>3. CASE done
    <3>1. file' = [file EXCEPT ![j] = "arch"] /\ buf[i].art = "hot"
      BY <1>2, <1>4, <1>7, <2>3
    <3>2. \A k \in DOMAIN buf : k # i /\ buf[k].art # "none" => TitleOf(buf[k]) # j
      BY <1>3, <1>4, <3>1 DEF Good, LoneArt
    <3>3. LoneArt(new)
      BY <1>4, <1>5, <2>1, <3>1 DEF Good, LoneArt
    <3>4. Archived(new, file')
      BY <1>3, <1>4, <1>5, <1>8, <2>1, <2>3, <3>1, Others DEF Good, Archived
    <3>5. InPlace(new, file', strayed)
      BY <1>3, <1>4, <1>5, <2>1, <2>3, <3>1, <3>2, Others DEF InPlace
    <3> QED BY <1>5, <3>3, <3>4, <3>5 DEF Good
  <2> QED BY <2>2, <2>3
<1>11. Saves(tsv, new)
  BY <1>4, <1>5, SavesCopy
<1>12. OthersTyped
  BY <1>1, <1>8, Others DEF OthersTyped
\* The file's path is behind as soon as the copy's is ahead.
<1>13. InPlace(tsv, file', Behind') /\ (~moved => InPlace(tsv, file', strayed))
  <2>1. Behind = strayed \cup Unsaved(p) /\ Behind' = strayed' \cup Unsaved(p)'
    BY DEF Behind, OneAtATime
  <2>2. Unsaved(p) = {TitleOf(buf[k]) : k \in {l \in DOMAIN buf : buf[l].art = "arch"}}
    BY <1>1 DEF Unsaved
  <2>3. Unsaved(p)' = {TitleOf(new[k]) : k \in {l \in DOMAIN new : new[l].art = "arch"}}
    BY <1>6 DEF Unsaved, At
  <2>4. \A k \in DOMAIN buf : TitleOf(new[k]) = TitleOf(buf[k])
    BY <1>5 DEF SameAnchors, TitleOf
  <2>5. Unsaved(p) \subseteq Unsaved(p)'
    BY <1>5, <2>2, <2>3, <2>4
  <2>6. done => j \in Unsaved(p)'
    BY <1>3, <1>5, <2>3, <2>4
  <2>7. InPlace(tsv, file, Behind)
    BY DEF IInv
  <2>8. \A k \in DOMAIN tsv : TitleOf(tsv[k]) \in Jobs
    BY <1>3, RowsOfSeq DEF Good
  <2>9. CASE done
    <3>1. \A k \in Jobs : k # j => file'[k] = file[k]
      BY <1>3, <1>7, <2>9, Others
    <3> QED BY <1>1, <2>1, <2>5, <2>6, <2>7, <2>8, <2>9, <3>1 DEF InPlace, moved
  <2>10. CASE ~done
    BY <1>1, <1>4, <1>7, <2>1, <2>5, <2>7, <2>10 DEF InPlace, moved
  <2> QED BY <2>9, <2>10
<1>14. InOrder
  BY <1>1, <1>9, <1>13, SavesSame DEF InOrder
<1>15. Holds(p)'
  <2>1. \A k \in proc[p].todo \ {i} : new[k].art = "hot"
    BY <1>4, <1>5, Others
  <2> QED BY <1>1, <1>6, <1>10, <1>11, <1>13, <2>1 DEF Holds, At, Free
<1>16. proc'[p].todo \subseteq DOMAIN proc'[p].buf
  BY <1>5, <1>6, Others
<1> QED BY <1>1, <1>6, <1>12, <1>14, <1>15, <1>16, SavesSame, HoldKeeps DEF InOrder

LEMMA ArchiveSaveKeeps ==
    ASSUME OneAtATime, IInv, NEW p \in Procs, ArchiveSave(p)
    PROVE  IInv' /\ Saves(tsv, tsv')
<1>1. /\ At(p, "archive") /\ tsv' = (IF proc[p].moved THEN proc[p].buf ELSE tsv)
      /\ UNCHANGED <<notion, file, blocked, today, upsets, strayed>>
  BY DEF ArchiveSave
<1>2. PICK pc \in Free :
        \/ proc' = [proc EXCEPT ![p] = [Idle EXCEPT !.cmd = proc[p].cmd, !.pc = pc]]
        \/ proc' = [proc EXCEPT ![p] = Idle]
  BY DEF ArchiveSave, Drop, Finish, Free
<1>3. /\ Good(proc[p].buf, file) /\ Saves(tsv, proc[p].buf)
      /\ InPlace(proc[p].buf, file, strayed)
      /\ ~proc[p].moved => InPlace(tsv, file, strayed)
  BY <1>1, Others DEF Holds
<1>4. Good(tsv', file') /\ Saves(tsv, tsv') /\ InPlace(tsv', file', strayed')
  BY <1>1, <1>3, SavesSame, Others
<1>5. InOrder
  BY <1>4, OrderBetween
<1>6. OthersTyped
  BY <1>1, Others DEF OthersTyped
<1> QED BY <1>2, <1>4, <1>5, <1>6, ReleaseKeeps, Others

LEMMA ScreenSaveKeeps ==
    ASSUME OneAtATime, IInv, NEW p \in Procs, ScreenSave(p)
    PROVE  IInv' /\ Saves(tsv, tsv')
<1>1. At(p, "sweepOut") /\ Finish(p) /\ UNCHANGED <<notion, file, blocked, today, upsets, strayed>>
  BY DEF ScreenSave
<1>2. proc[p].buf = tsv
  BY <1>1, Others DEF Holds, At
<1>3. PICK hit : tsv' = IF hit = {} THEN tsv
                        ELSE [i \in DOMAIN tsv |-> IF tsv[i].key \in hit
                                                   THEN [tsv[i] EXCEPT !.status = "Archived"]
                                                   ELSE tsv[i]]
  BY <1>2, Zenon DEF ScreenSave
<1>4. tsv' \in Seq(Row) /\ SameAnchors(tsv', tsv) /\ SameArts(tsv', tsv)
  <2>1. CASE tsv' = tsv
    BY <2>1, Others, CopyOfSelf
  <2>2. CASE tsv' = [i \in DOMAIN tsv |-> IF tsv[i].key \in hit
                                          THEN [tsv[i] EXCEPT !.status = "Archived"]
                                          ELSE tsv[i]]
    <3>1. ASSUME NEW i \in DOMAIN tsv
          PROVE  /\ tsv'[i] \in Row
                 /\ tsv'[i].key = tsv[i].key /\ tsv'[i].adate = tsv[i].adate /\ tsv'[i].art = tsv[i].art
      <4>1. tsv[i] \in Row
        BY Others, RowsOfSeq
      <4>2. LET row == [tsv[i] EXCEPT !.status = "Archived"]
            IN  row \in Row /\ row.key = tsv[i].key /\ row.adate = tsv[i].adate /\ row.art = tsv[i].art
        BY <4>1 DEF Row, RowStatuses
      <4>3. tsv'[i] = tsv[i] \/ tsv'[i] = [tsv[i] EXCEPT !.status = "Archived"]
        BY <2>2
      <4> QED BY <4>1, <4>2, <4>3
    <3>2. DOMAIN tsv' = DOMAIN tsv /\ tsv' \in [1 .. Len(tsv) -> Row]
      BY <2>2, <3>1, Others, RowsOfSeq
    <3>3. tsv' \in Seq(Row)
      <4>1. Len(tsv) \in Nat
        BY Others, RowsOfSeq
      <4> QED BY <3>2, <4>1, SeqDef
    <3> QED BY <3>1, <3>2, <3>3 DEF SameAnchors, SameArts
  <2> QED BY <1>3, <2>1, <2>2
<1>5. Good(tsv', file') /\ Saves(tsv, tsv') /\ InPlace(tsv', file', strayed')
  <2>1. InPlace(tsv, file, strayed)
    BY <1>1, PathsBetween DEF At
  <2> QED BY <1>1, <1>4, <2>1, SaveOfCopy, Others
<1>6. InOrder
  BY <1>5, OrderBetween
<1>7. OthersTyped
  BY <1>1, Others DEF OthersTyped
<1> QED BY <1>1, <1>5, <1>6, <1>7, ReleaseKeeps, Others DEF Finish, Free

LEMMA CollapseKeeps ==
    ASSUME OneAtATime, IInv, NEW p \in Procs, Collapse(p)
    PROVE  IInv' /\ Saves(tsv, tsv')
<1>1. /\ At(p, "collapse") /\ Finish(p) /\ UNCHANGED <<notion, file, blocked, today, upsets, strayed>>
      /\ tsv' = tsv \/ tsv' = DedupedRows(tsv, DroppedKeys(tsv))
  BY DEF Collapse
<1>2. Good(tsv, file) /\ tsv \in Seq(Row) /\ LoneArt(tsv) /\ Archived(tsv, file)
  BY Others DEF Good
<1>3. InPlace(tsv, file, strayed)
  BY <1>1, PathsBetween DEF At
<1>4. Good(tsv', file') /\ Saves(tsv, tsv') /\ InPlace(tsv', file', strayed')
  <2>1. CASE tsv' = tsv
    BY <1>1, <1>2, <1>3, <2>1, SavesSame
  <2>2. CASE tsv' = DedupedRows(tsv, DroppedKeys(tsv))
    <3>1. /\ tsv' \in Seq(Row)
          /\ \A m \in DOMAIN tsv' : \E i \in DOMAIN tsv :
               tsv'[m].key = tsv[i].key /\ tsv'[m].adate = tsv[i].adate
          /\ \A m \in DOMAIN tsv' : \E j \in DOMAIN tsv :
               TitleOf(tsv'[m]) = TitleOf(tsv[j]) /\ tsv'[m].art = tsv[j].art
          /\ LoneArt(tsv')
          /\ JobsIn(tsv) \subseteq JobsIn(tsv') \cup Doubled(tsv)
      BY <1>2, <2>2, DedupedRowsKeep
    <3>2. Archived(tsv', file') /\ InPlace(tsv', file', strayed')
      BY <1>1, <1>2, <1>3, <3>1 DEF Archived, InPlace
    <3>3. ASSUME NEW i \in DOMAIN tsv, NEW j \in DOMAIN tsv', tsv[i].key = tsv'[j].key, Alone(tsv, i)
          PROVE  tsv'[j].adate = tsv[i].adate
      <4>1. PICK k \in DOMAIN tsv : tsv'[j].key = tsv[k].key /\ tsv'[j].adate = tsv[k].adate
        BY <3>1
      <4>2. k = i
        BY <3>3, <4>1 DEF Alone
      <4> QED BY <4>1, <4>2
    <3> QED BY <3>1, <3>2, <3>3 DEF Good, Saves
  <2> QED BY <1>1, <2>1, <2>2
<1>5. InOrder
  BY <1>4, OrderBetween
<1>6. OthersTyped
  BY <1>1, Others DEF OthersTyped
<1> QED BY <1>1, <1>4, <1>5, <1>6, ReleaseKeeps, Others DEF Finish, Free

\* The row that add is about to write, with --force or without.
LEMMA ManualRowIsRow ==
    ASSUME NEW job \in Jobs, NEW entry \in Entries, today \in 1 .. MaxDay
    PROVE  /\ ManualRow(job, entry) \in Row /\ ManualRow(job, entry).art = "none"
           /\ ManualRow(job, entry).status \in PageStatuses
<1>1. <<job, "manual", today>> \in Keys
  BY DEF Keys
<1>2. entry[1] \in RowStatuses /\ entry[1] \in PageStatuses /\ entry[2] \in Days
  BY EntriesAssumption DEF PageStatuses, RowStatuses
<1>3. 0 \in Days
  BY MaxDayAssumption DEF Days
<1> DEFINE status == entry[1]
           adate == entry[2]
           key == <<job, "manual", today>>
           no == FALSE
<1>4. no \in BOOLEAN
  BY Zenon
<1>5. ManualRow(job, entry) = [key |-> key, status |-> status, paged |-> no, adate |-> adate,
                               outreach |-> "To do", odate |-> 0, art |-> "none",
                               updated |-> 0, company |-> "same", url |-> "none"]
  BY Zenon DEF ManualRow
<1>6. "To do" \in Outreach
  BY DEF Outreach
<1> HIDE DEF status, adate, key, no
<1>7. ASSUME NEW flags, no \in flags
      PROVE  LET row == [key |-> key, status |-> status, paged |-> no, adate |-> adate,
                         outreach |-> "To do", odate |-> 0, art |-> "none",
                         updated |-> 0, company |-> "same", url |-> "none"]
             IN  /\ row \in [key: Keys, status: RowStatuses, paged: flags, adate: Days,
                             outreach: Outreach, odate: Days, art: {"none", "hot", "arch"},
                             updated: {0}, company: {"same"}, url: {"none", "here", "there"}]
                 /\ row.art = "none" /\ row.status \in PageStatuses
  BY <1>1, <1>2, <1>3, <1>6, <1>7 DEF key, status, adate
<1> QED BY <1>4, <1>5, <1>7, Zenon DEF Row

LEMMA EnterKeeps ==
    ASSUME OneAtATime, IInv, NEW p \in Procs, NEW job \in Jobs, NEW entry \in Entries,
           NEW force \in BOOLEAN, Enter(p, ManualRow(job, entry), force)
    PROVE  IInv' /\ Saves(tsv, tsv')
<1> DEFINE new == ManualRow(job, entry)
<1>1. At(p, "enter") /\ UNCHANGED <<tsv, notion, file, blocked, today, strayed>>
  BY DEF Enter
<1>2. OthersTyped
  <2>1. upsets' = upsets \/ (upsets < MaxUpsets /\ upsets' = upsets + 1)
    BY DEF Enter
  <2>2. upsets' \in 0 .. MaxUpsets
    BY <2>1, Others, MaxUpsetsAssumption
  <2> QED BY <1>1, <2>2, Others DEF OthersTyped
<1>3. InOrder
  BY <1>1, NothingSaved DEF At
<1>4. CASE Finish(p)
  BY <1>2, <1>3, <1>4, ReleaseKeeps, Others DEF Finish, Free, InOrder
<1>5. CASE proc' = [proc EXCEPT ![p].pc = "push", ![p].buf = tsv, ![p].new = <<new>>]
  <2>1. new \in Row /\ new.art = "none" /\ new.status \in PageStatuses
    BY ManualRowIsRow, Others
  <2> HIDE DEF new
  <2>2. /\ proc' \in [Procs -> Processes] /\ proc'[p].pc = "push" /\ proc'[p].new = <<new>>
        /\ proc'[p].buf = tsv /\ proc'[p].todo = proc[p].todo
    <3> DEFINE r == [proc[p] EXCEPT !.pc = "push", !.buf = tsv, !.new = <<new>>]
    <3>1. <<new>> \in Seq(Row)
      BY <2>1
    <3>2. r \in Processes /\ r.pc = "push" /\ r.new = <<new>> /\ r.buf = tsv /\ r.todo = proc[p].todo
      BY <3>1, Others DEF Processes, Places
    <3>3. proc' = [proc EXCEPT ![p] = r]
      BY <1>5, Others DEF Processes
    <3> HIDE DEF r
    <3> QED BY <3>2, <3>3, Others
  <2>3. proc[p].todo = {}
    <3>1. proc[p].buf = <<>> /\ proc[p].todo \subseteq DOMAIN proc[p].buf
      BY <1>1, Others DEF Holds, At, Free
    <3>2. DOMAIN <<>> = {}
      OBVIOUS
    <3> QED BY <3>1, <3>2
  <2>4. Holds(p)'
    BY <1>1, <2>1, <2>2 DEF Holds, At, Free
  <2> QED BY <1>2, <1>3, <2>2, <2>3, <2>4, HoldKeeps DEF InOrder
<1> QED BY <1>4, <1>5 DEF Enter

LEMMA PushKeeps ==
    ASSUME OneAtATime, IInv, NEW p \in Procs, NEW ok \in BOOLEAN, Push(p, ok)
    PROVE  IInv' /\ Saves(tsv, tsv')
<1> DEFINE new == Head(proc[p].new)
           page == [status |-> new.status, outreach |-> "To do"]
<1>1. /\ At(p, "push") /\ UNCHANGED <<tsv, file, blocked, today, upsets, strayed>>
      /\ \/ /\ Goto(p, "write")
            /\ \/ UNCHANGED notion
               \/ notion' = [notion EXCEPT ![new.key] = page]
         \/ Finish(p) /\ UNCHANGED notion
  BY DEF Push
<1>2. proc[p].buf = tsv
  BY <1>1, Others DEF Holds, At
<1>3. PICK row \in Row : /\ proc[p].new = <<row>> /\ row.art = "none"
                         /\ row.status \in PageStatuses
  BY <1>1, Others DEF Holds, At
<1>4. notion' \in [Keys -> Pages]
  <2>1. Head(<<row>>) = row
    OBVIOUS
  <2>2. [status |-> row.status, outreach |-> "To do"] \in Pages /\ row.key \in Keys
    BY <1>3 DEF Pages, Outreach, Row
  <2> QED BY <1>1, <1>3, <2>1, <2>2, Others
<1>5. OthersTyped
  BY <1>1, <1>4, Others DEF OthersTyped
<1>6. InOrder
  BY <1>1, NothingSaved DEF At
<1>7. CASE Finish(p)
  BY <1>5, <1>6, <1>7, ReleaseKeeps, Others DEF Finish, Free, InOrder
<1>8. CASE Goto(p, "write")
  <2>1. /\ proc' \in [Procs -> Processes] /\ proc'[p].pc = "write" /\ proc'[p].new = proc[p].new
        /\ proc'[p].buf = proc[p].buf /\ proc'[p].todo = proc[p].todo
    BY <1>8, Others DEF Goto, Processes, Places
  <2>2. Holds(p)'
    BY <1>1, <1>2, <1>3, <2>1 DEF Holds, At, Free
  <2> QED BY <1>5, <1>6, <2>1, <2>2, Others, HoldKeeps DEF InOrder
<1> QED BY <1>1, <1>7, <1>8

LEMMA PagedRowIsRow ==
    ASSUME NEW row \in Row
    PROVE  /\ [row EXCEPT !.paged = TRUE] \in Row
           /\ [row EXCEPT !.paged = TRUE].art = row.art
<1> DEFINE yes == TRUE
<1>1. yes \in BOOLEAN
  BY Zenon
<1> HIDE DEF yes
<1>2. ASSUME NEW flags, yes \in flags,
             row \in [key: Keys, status: RowStatuses, paged: flags, adate: Days,
                      outreach: Outreach, odate: Days, art: {"none", "hot", "arch"},
                      updated: {0}, company: {"same"}, url: {"none", "here", "there"}]
      PROVE  LET new == [row EXCEPT !.paged = yes]
             IN  /\ new \in [key: Keys, status: RowStatuses, paged: flags, adate: Days,
                             outreach: Outreach, odate: Days, art: {"none", "hot", "arch"},
                             updated: {0}, company: {"same"}, url: {"none", "here", "there"}]
                 /\ new.art = row.art
  BY <1>2
<1> QED BY <1>1, <1>2, Zenon DEF Row, yes

LEMMA WriteKeeps ==
    ASSUME OneAtATime, IInv, NEW p \in Procs, Write(p)
    PROVE  IInv' /\ Saves(tsv, tsv')
<1>1. /\ At(p, "write") /\ Finish(p) /\ UNCHANGED <<notion, file, blocked, today, upsets, strayed>>
      /\ tsv' = Append(proc[p].buf, [Head(proc[p].new) EXCEPT !.paged = TRUE])
  BY DEF Write
<1>2. PICK old \in Row : proc[p].buf = tsv /\ proc[p].new = <<old>> /\ old.art = "none"
  BY <1>1, Others DEF Holds, At
<1> DEFINE row == [old EXCEPT !.paged = TRUE]
<1>3. row \in Row /\ row.art = "none"
  BY <1>2, PagedRowIsRow
<1>4. tsv' = Append(tsv, row)
  <2>1. Head(<<old>>) = old
    OBVIOUS
  <2> QED BY <1>1, <1>2, <2>1
<1> HIDE DEF row
<1>5. /\ tsv' \in Seq(Row) /\ Len(tsv') = Len(tsv) + 1
      /\ \A i \in 1 .. Len(tsv) : tsv'[i] = tsv[i]
      /\ tsv'[Len(tsv) + 1] = row
  BY <1>3, <1>4, AppendProperties, Others
<1>6. Len(tsv) \in Nat /\ DOMAIN tsv = 1 .. Len(tsv) /\ DOMAIN tsv' = 1 .. Len(tsv) + 1
  BY <1>5, Others, RowsOfSeq
<1>7. /\ \A i \in DOMAIN tsv : i \in DOMAIN tsv' /\ tsv'[i] = tsv[i]
      /\ \A i \in DOMAIN tsv' : i \in DOMAIN tsv \/ (i = Len(tsv) + 1 /\ tsv'[i] = row)
  BY <1>5, <1>6
<1>8. LoneArt(tsv) /\ Archived(tsv, file) /\ InPlace(tsv, file, strayed)
  BY <1>1, Others, PathsBetween DEF Good, At
<1>9. LoneArt(tsv')
  BY <1>3, <1>7, <1>8 DEF LoneArt
<1>10. Archived(tsv', file') /\ InPlace(tsv', file', strayed')
  BY <1>1, <1>3, <1>7, <1>8 DEF Archived, InPlace
<1>11. Saves(tsv, tsv')
  <2>1. JobsIn(tsv) \subseteq JobsIn(tsv')
    BY <1>7 DEF JobsIn
  <2>2. ASSUME NEW i \in DOMAIN tsv, NEW j \in DOMAIN tsv', tsv[i].key = tsv'[j].key,
               Alone(tsv', j)
        PROVE  tsv'[j].adate = tsv[i].adate
    <3>1. i \in DOMAIN tsv' /\ tsv'[i] = tsv[i]
      BY <1>7
    <3>2. i = j
      BY <2>2, <3>1 DEF Alone
    <3> QED BY <3>1, <3>2
  <2> QED BY <2>1, <2>2 DEF Saves
<1>12. InOrder
  BY <1>5, <1>9, <1>10, <1>11, OrderBetween DEF Good
<1>13. OthersTyped
  BY <1>1, Others DEF OthersTyped
<1> QED BY <1>1, <1>11, <1>12, <1>13, ReleaseKeeps, Others DEF Finish, Free

LEMMA CrashKeeps ==
    ASSUME OneAtATime, IInv, NEW p \in Procs, Crash(p)
    PROVE  IInv' /\ Saves(tsv, tsv')
<1>1. /\ upsets < MaxUpsets /\ upsets' = upsets + 1 /\ Finish(p)
      /\ strayed' = strayed \cup Unsaved(p)
      /\ UNCHANGED <<tsv, notion, file, blocked, today>>
  BY DEF Crash
<1>2. Good(tsv', file') /\ Saves(tsv, tsv')
  BY <1>1, Others, SavesSame
<1>3. strayed' = Behind
  BY <1>1 DEF Behind, OneAtATime
<1>4. InOrder
  <2>1. InPlace(tsv, file, Behind)
    BY DEF IInv
  <2> QED BY <1>1, <1>2, <1>3, <2>1, OrderBetween
<1>5. OthersTyped
  <2>1. Unsaved(p) \subseteq Jobs
    BY Others, RowsOfSeq DEF Unsaved
  <2>2. upsets' \in 0 .. MaxUpsets
    BY <1>1, Others, MaxUpsetsAssumption
  <2> QED BY <1>1, <2>1, <2>2, Others DEF OthersTyped
<1> QED BY <1>1, <1>2, <1>4, <1>5, ReleaseKeeps, Others DEF Finish, Free

\* What goes on around the commands touches neither the file nor a copy.
LEMMA EnvironmentKeeps ==
    ASSUME IInv, Environment \/ UNCHANGED vars
    PROVE  IInv' /\ Saves(tsv, tsv')
<1>1. UNCHANGED <<tsv, file, strayed, proc>>
  BY DEF Environment, OperatorMoves, OperatorWrites, RulesChange, NextDay, vars
<1>2. upsets' \in 0 .. MaxUpsets
  <2>1. upsets' = upsets \/ (upsets < MaxUpsets /\ upsets' = upsets + 1)
    BY DEF Environment, OperatorMoves, OperatorWrites, RulesChange, NextDay, vars
  <2> QED BY <2>1, Others, MaxUpsetsAssumption
<1>3. blocked' \subseteq Jobs /\ today' \in 1 .. MaxDay
  <2>1. /\ blocked' = blocked \/ \E j \in Jobs : blocked' = blocked \cup {j}
        /\ today' = today \/ (today < MaxDay /\ today' = today + 1)
    BY DEF Environment, OperatorMoves, OperatorWrites, RulesChange, NextDay, vars
  <2>2. blocked' \subseteq Jobs
    BY <2>1, Others
  <2>3. today' \in 1 .. MaxDay
    BY <2>1, Others, MaxDayAssumption
  <2> QED BY <2>2, <2>3
<1>4. notion' \in [Keys -> Pages]
  <2>1. ASSUME NEW k \in Keys, NEW s \in PageStatuses, OperatorMoves(k, s)
        PROVE  notion' \in [Keys -> Pages]
    <3>1. notion[k] \in [status: PageStatuses, outreach: Outreach]
      BY <2>1, Others DEF OperatorMoves, Pages
    <3>2. [notion[k] EXCEPT !.status = s] \in Pages
      BY <3>1 DEF Pages
    <3> QED BY <2>1, <3>2, Others DEF OperatorMoves
  <2>2. ASSUME NEW k \in Keys, OperatorWrites(k)
        PROVE  notion' \in [Keys -> Pages]
    <3>1. notion[k] \in [status: PageStatuses, outreach: Outreach]
      BY <2>2, Others DEF OperatorWrites, Pages
    <3>2. [notion[k] EXCEPT !.outreach = "In flight"] \in Pages
      BY <3>1 DEF Pages, Outreach
    <3> QED BY <2>2, <3>2, Others DEF OperatorWrites
  <2>3. CASE UNCHANGED notion
    BY <2>3, Others
  <2> QED BY <2>1, <2>2, <2>3 DEF Environment, RulesChange, NextDay, vars
<1>5. Good(tsv', file') /\ Saves(tsv, tsv')
  BY <1>1, Others, SavesSame
<1>6. \A p \in Procs : Holds(p)'
  BY <1>1, Others DEF Holds, At
<1>7. InPlace(tsv, file, Behind)'
  <2>1. Behind' = Behind
    BY <1>1 DEF Behind, Unsaved, At
  <2> QED BY <1>1, <2>1 DEF IInv
<1>8. TypeOK'
  BY <1>1, <1>2, <1>3, <1>4, Others DEF TypeOK, Pages
<1> QED BY <1>1, <1>5, <1>6, <1>7, <1>8, Others DEF IInv

LEMMA InitHolds ==
    ASSUME Init
    PROVE  IInv
<1>1. 0 \in Days
  BY MaxDayAssumption DEF Days
<1>2. ASSUME NEW k \in Keys, NEW st \in {"To Apply", "Inbox"}, NEW u \in {"here", "there", "none"}
      PROVE  LET row == StartRow(k, st, u)
             IN  /\ row \in Row /\ row.key = k /\ row.art # "arch"
                 /\ st = "Inbox" => row.art = "none"
  <2> DEFINE paged == st # "Inbox"
             art == IF st = "Inbox" THEN "none" ELSE "hot"
  <2>1. st \in RowStatuses /\ "To do" \in Outreach
    BY Zenon DEF RowStatuses, Outreach
  <2>2. art \in {"none", "hot", "arch"} /\ art # "arch" /\ (st = "Inbox" => art = "none")
    OBVIOUS
  <2>3. paged \in BOOLEAN
    BY Zenon
  <2>4. StartRow(k, st, u) = [key |-> k, status |-> st, paged |-> paged, adate |-> 0,
                              outreach |-> "To do", odate |-> 0, art |-> art,
                              updated |-> 0, company |-> "same", url |-> u]
    BY Zenon DEF StartRow
  <2> DEFINE todo == "To do"
  <2> HIDE DEF paged, art, todo
  <2>5. ASSUME NEW flags, paged \in flags
        PROVE  LET row == [key |-> k, status |-> st, paged |-> paged, adate |-> 0,
                           outreach |-> todo, odate |-> 0, art |-> art,
                           updated |-> 0, company |-> "same", url |-> u]
               IN  /\ row \in [key: Keys, status: RowStatuses, paged: flags, adate: Days,
                               outreach: Outreach, odate: Days, art: {"none", "hot", "arch"},
                               updated: {0}, company: {"same"}, url: {"none", "here", "there"}]
                   /\ row.key = k /\ row.art = art
    <3>1. todo \in Outreach
      BY <2>1 DEF todo
    <3> QED BY <1>1, <2>1, <2>2, <2>5, <3>1
  <2>6. StartRow(k, st, u) \in Row /\ StartRow(k, st, u).key = k /\ StartRow(k, st, u).art = art
    BY <2>3, <2>4, <2>5, Zenon DEF Row, todo
  <2> QED BY <2>2, <2>6
<1>3. \/ tsv = <<>>
      \/ \E j \in Jobs : tsv = <<StartRow(<<j, "plain", 0>>, "To Apply", "here")>>
      \/ \E j \in Jobs, form \in {"plain", "legacy"}, u \in {"none", "there"} : tsv = TwoForms(j, form, u)
  BY Zenon DEF Init, StartFile
<1>4. \A j \in Jobs, form \in {"plain", "legacy"} : <<j, form, 0>> \in Keys
  BY DEF Keys
<1>5. tsv \in Seq(Row) /\ LoneArt(tsv) /\ Archived(tsv, file)
  <2>1. CASE tsv = <<>>
    <3>1. tsv \in Seq(Row) /\ DOMAIN tsv = {}
      BY <2>1
    <3> QED BY <3>1 DEF LoneArt, Archived
  <2>2. ASSUME NEW j \in Jobs, tsv = <<StartRow(<<j, "plain", 0>>, "To Apply", "here")>>
        PROVE  tsv \in Seq(Row) /\ LoneArt(tsv) /\ Archived(tsv, file)
    <3> DEFINE k == <<j, "plain", 0>>
               row == StartRow(k, "To Apply", "here")
    <3>1. k \in Keys /\ tsv = <<row>>
      BY <1>4, <2>2
    <3> HIDE DEF k
    <3>2. row \in Row /\ row.art # "arch"
      BY <1>2, <3>1
    <3> HIDE DEF row
    <3>3. tsv \in Seq(Row) /\ DOMAIN tsv = {1} /\ tsv[1] = row
      BY <3>1, <3>2
    <3> QED BY <3>2, <3>3 DEF LoneArt, Archived
  <2>3. ASSUME NEW j \in Jobs, NEW form \in {"plain", "legacy"}, NEW u \in {"none", "there"},
               tsv = TwoForms(j, form, u)
        PROVE  tsv \in Seq(Row) /\ LoneArt(tsv) /\ Archived(tsv, file)
    <3> DEFINE k == <<j, form, 0>>
               l == <<j, OtherForm[form], 0>>
               row == StartRow(k, "To Apply", "here")
               late == StartRow(l, "Inbox", u)
    <3>1. k \in Keys /\ l \in Keys /\ tsv = <<row, late>>
      <4>1. OtherForm["plain"] = "legacy" /\ OtherForm["legacy"] = "plain"
        BY DEF OtherForm
      <4>2. OtherForm[form] \in {"plain", "legacy"}
        BY <4>1
      <4> QED BY <1>4, <2>3, <4>2, Zenon DEF TwoForms
    <3> HIDE DEF k, l
    <3>2. row \in Row /\ row.art # "arch"
      BY <1>2, <3>1
    <3>3. u \in {"here", "there", "none"} /\ "Inbox" \in {"To Apply", "Inbox"}
      OBVIOUS
    <3>4. late \in Row /\ late.art = "none"
      BY <1>2, <3>1, <3>3, Zenon
    <3> HIDE DEF row, late
    <3>5. tsv \in Seq(Row) /\ DOMAIN tsv = {1, 2} /\ tsv[1] = row /\ tsv[2] = late
      BY <3>1, <3>2, <3>4
    <3> QED BY <3>2, <3>4, <3>5 DEF LoneArt, Archived
  <2> QED BY <1>3, <2>1, <2>2, <2>3
<1>6. strayed = {}
  BY Zenon DEF Init
<1>7. InPlace(tsv, file, Behind)
  <2>1. \A i \in DOMAIN tsv : TitleOf(tsv[i]) \in Jobs
    BY <1>5, RowsOfSeq
  <2> QED BY <2>1 DEF Init, InPlace
<1>8. proc = [p \in Procs |-> Idle] /\ Idle \in Processes /\ Idle.pc = "idle" /\ Idle.buf = <<>>
      /\ Idle.todo = {}
  BY IdleTyped DEF Init, Idle
<1>9. proc \in [Procs -> Processes] /\ \A p \in Procs : Holds(p)
  BY <1>8 DEF Holds, At, Free
<1>10. \A p \in Procs : /\ proc[p].buf \in Seq(Row) /\ proc[p].todo \subseteq DOMAIN proc[p].buf
                        /\ proc[p].cmd \in Commands \cup {"none"}
  BY <1>8 DEF Processes
<1>11. notion \in [Keys -> Pages]
  <2>1. [status |-> "To Apply", outreach |-> "To do"] \in Pages /\ NoPage \in Pages
    BY DEF Pages, PageStatuses, Outreach
  <2> DEFINE Paged(k) == \E i \in DOMAIN tsv : tsv[i].key = k /\ tsv[i].paged
             applied == [status |-> "To Apply", outreach |-> "To do"]
  <2>2. notion = [k \in Keys |-> IF Paged(k) THEN applied ELSE NoPage]
    BY Zenon DEF Init
  <2> HIDE DEF Paged, applied
  <2>3. applied \in Pages /\ NoPage \in Pages
    BY <2>1 DEF applied
  <2> QED BY <2>2, <2>3
<1>12. /\ file \in [Jobs -> {"none", "hot", "arch"}]
       /\ blocked \subseteq Jobs /\ today \in 1 .. MaxDay /\ upsets \in 0 .. MaxUpsets
       /\ strayed \subseteq Jobs
  <2>1. file \in [Jobs -> {"none", "hot", "arch"}]
    <3> DEFINE Hot(job) == \E i \in DOMAIN tsv : TitleOf(tsv[i]) = job /\ tsv[i].art = "hot"
    <3>1. file = [job \in Jobs |-> IF Hot(job) THEN "hot" ELSE "none"]
      BY Zenon DEF Init
    <3> HIDE DEF Hot
    <3> QED BY <3>1
  <2>2. blocked = {} /\ today = 1 /\ upsets = 0
    BY Zenon DEF Init
  <2> QED BY <1>6, <2>1, <2>2, MaxDayAssumption, MaxUpsetsAssumption
<1>13. TypeOK
  BY <1>5, <1>10, <1>11, <1>12 DEF TypeOK, Pages
<1> QED BY <1>5, <1>7, <1>9, <1>13 DEF IInv, Good

LEMMA NextKeeps ==
    ASSUME OneAtATime, IInv, [Next]_vars
    PROVE  IInv' /\ Saves(tsv, tsv')
<1>1. ASSUME NEW p \in Procs, Step(p) PROVE IInv' /\ Saves(tsv, tsv')
  <2>1. ASSUME NEW j \in Jobs, NEW e \in Entries, NEW force \in BOOLEAN,
               Enter(p, ManualRow(j, e), force)
        PROVE  IInv' /\ Saves(tsv, tsv')
    BY <2>1, EnterKeeps
  <2> QED BY <1>1, <2>1, SweepRowKeeps, SweepSaveKeeps, PullLoadKeeps, FetchKeeps, ReconcileKeeps,
             ArchiveMoveKeeps, ArchiveSaveKeeps, ScreenSaveKeeps, CollapseKeeps,
             PushKeeps, WriteKeeps
             DEF Step
<1>2. ASSUME NEW p \in Procs, NEW cmd \in Commands, Start(p, cmd) PROVE IInv' /\ Saves(tsv, tsv')
  BY <1>2, StartKeeps
<1>3. ASSUME NEW p \in Procs, Crash(p) PROVE IInv' /\ Saves(tsv, tsv')
  BY <1>3, CrashKeeps
<1>4. CASE Environment \/ UNCHANGED vars
  BY <1>4, EnvironmentKeeps
<1> QED BY <1>1, <1>2, <1>3, <1>4 DEF Next

-----------------------------------------------------------------------------
(* The theorems *)

\* The inductive invariant: with one command at a time the copy a command holds
\* is the file's rows, changed only in what its own steps changed; of a job's
\* rows one at most has an artifact, and a path is behind its file only for
\* the moves a running sync has in memory and those that died with one.
THEOREM Inductive ==
    ASSUME OneAtATime
    PROVE  Spec => []IInv
<1>1. Init => IInv
  BY InitHolds
<1>2. IInv /\ [Next]_vars => IInv'
  BY NextKeeps
<1> QED BY <1>1, <1>2, PTL DEF Spec

\* With one command at a time, whatever the commands do in whatever order, add
\* --force included, and wherever one of them dies, the state keeps its type:
\* in particular a copy never has a row the file's readers would not accept.
THEOREM TrackerTyped ==
    ASSUME OneAtATime
    PROVE  Spec => []TypeOK
<1>1. IInv => TypeOK
  BY DEF IInv
<1> QED BY <1>1, Inductive, PTL

\* A row's artifact path names the file, with one command at a time: dedup may
\* lift a path to the winner and sync may move the file, but no save leaves a
\* path behind its file.  The one way to such a path is a sync that dies after
\* a move and before its save, and it stays so for that job only
\* (archive_artifacts.js moves the file first, and the path only after it).
THEOREM PathsNameFiles ==
    ASSUME OneAtATime
    PROVE  Spec => []PathNamesFile
<1>1. IInv => PathNamesFile
  <2> SUFFICES ASSUME IInv PROVE PathNamesFile
    OBVIOUS
  <2>1. Archived(tsv, file) /\ InPlace(tsv, file, Behind)
    BY DEF IInv, Good
  <2> QED BY <2>1 DEF PathNamesFile, Archived, InPlace, Behind
<1> QED BY <1>1, Inductive, PTL

\* With one command at a time no save loses a posting that stands once under
\* each of its keys: not sync's merge through its map by key, not the final
\* walk of dedup, not a sweep's or a screen's save of an older copy.  The final
\* walk does lose one that add --force has entered twice on a day.
THEOREM PostingsStay ==
    ASSUME OneAtATime
    PROVE  Spec => PostingKept
<1>1. IInv /\ [Next]_vars => [JobsIn(tsv) \subseteq JobsIn(tsv') \cup Doubled(tsv)]_tsv
  BY NextKeeps DEF Saves
<1> QED BY <1>1, Inductive, PTL DEF Spec, PostingKept

\* With one command at a time no save moves a date anchor: under its key a row
\* that has one, and that key to itself, keeps it.
THEOREM AnchorsStay ==
    ASSUME OneAtATime
    PROVE  Spec => AnchorKept
<1> DEFINE Anchors == \A i \in DOMAIN tsv : \A j \in DOMAIN tsv' :
                        (/\ tsv[i].key = tsv'[j].key
                         /\ Alone(tsv, i) /\ Alone(tsv', j)
                         /\ tsv[i].adate # 0
                         /\ tsv'[j].status = "Applied") => tsv'[j].adate = tsv[i].adate
<1>1. IInv /\ [Next]_vars => [Anchors]_tsv
  BY NextKeeps DEF Saves
<1> QED BY <1>1, Inductive, PTL DEF Spec, AnchorKept
=============================================================================
