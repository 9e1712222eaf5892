--------------------------- MODULE RegistryProofs ---------------------------
(***************************************************************************)
(* Proofs about Registry: first its board, for any boards, requests and    *)
(* answers, then its file, for any old files, tables and edits.            *)
(***************************************************************************)
EXTENDS Registry, FiniteSetTheorems, SequenceTheorems, WellFoundedInduction,
        NaturalsInduction, TLAPS

-----------------------------------------------------------------------------
(* The inductive invariant *)

Stars == 0..5
Entry == [id : BankIds, stars : 1 .. 5]

Settled == [pc : {"new", "over"}]
Asking == [pc : {"bank", "again", "found"}, board : Boards, id : BankIds, stars : Stars]
Writing == [pc : {"writing"}, board : Boards, id : BankIds, stars : Stars,
            read : Seq(Entry)]

Typed ==
    /\ board \in [Boards -> [pc : {"off", "probing", "starting", "up", "locked", "gone"},
                             seen : Boards \cup {NoBoard}]]
    /\ lock \in Boards \cup {NoBoard}
    /\ overlapped \in BOOLEAN
    /\ request \in [Requests -> Settled \cup Asking \cup Writing]
    /\ ratings \in Seq(Entry)
    /\ given \in [BankIds -> Stars]

\* A request under way is one of a board that is up, and of a board's requests
\* one at most is between its read and its write of the ratings.
Served ==
    /\ \A q \in Requests : request[q].pc \notin {"new", "over"} => request[q].board \in Up
    /\ \A q, r \in Requests :
         request[q].pc = "writing" /\ request[r].pc = "writing" /\ request[q].board = request[r].board
         => q = r

OneBoard == \A b, c \in Up : b = c

\* What a request read is what the file still says.
Read == \A q \in Requests : request[q].pc = "writing" => request[q].read = ratings

\* The file has for every id the rating it was last given, if one stands.
RatedFor(id) ==
    /\ \A r \in Range(ratings) : r.id = id => r.stars = given[id]
    /\ given[id] # 0 => \E r \in Range(ratings) : r.id = id

Rated == \A id \in BankIds : RatedFor(id)

Apart == ~overlapped => OneBoard /\ Read /\ Rated

IInv == Typed /\ Served /\ Apart

ratedVars == <<board, lock, overlapped, request, ratings, given>>

-----------------------------------------------------------------------------
(* Ratings set and cleared in the file *)

\* A set of natural numbers has a least element.
LEMMA Least ==
    ASSUME NEW T \in SUBSET Nat, T # {}
    PROVE  \E n \in T : \A m \in T : n <= m
<1>1. PICK n \in T : \A m \in T : <<m, n>> \notin OpToRel(<, Nat)
  BY WFMin, NatLessThanWellFounded, Zenon
<1>2. \A m \in T : ~(m < n)
  BY <1>1, Zenon DEF OpToRel
<1> QED BY <1>2

\* Counting a set of places up to each of its members numbers them 1, 2, ...
LEMMA RanksNumber ==
    ASSUME NEW n \in Nat, NEW S \in SUBSET (1 .. n)
    PROVE  /\ Cardinality(S) \in Nat
           /\ [i \in S |-> Cardinality({j \in S : j <= i})] \in Bijection(S, 1 .. Cardinality(S))
<1> DEFINE upto(i) == {j \in S : j <= i}
           rank == [i \in S |-> Cardinality(upto(i))]
<1>1. IsFiniteSet(S) /\ Cardinality(S) \in Nat
  <2>1. IsFiniteSet(1 .. n)
    BY FS_Interval
  <2>2. IsFiniteSet(S)
    BY <2>1, FS_Subset
  <2> QED BY <2>2, FS_CardinalityType
<1>2. ASSUME NEW i \in S PROVE IsFiniteSet(upto(i)) /\ Cardinality(upto(i)) \in 1 .. Cardinality(S)
  <2>1. i \in upto(i) /\ upto(i) \in SUBSET S
    OBVIOUS
  <2> HIDE DEF upto
  <2>2. IsFiniteSet(upto(i)) /\ Cardinality(upto(i)) <= Cardinality(S)
    BY <1>1, <2>1, FS_Subset
  <2>3. Cardinality(upto(i)) \in Nat
    BY <2>2, FS_CardinalityType
  <2>4. Cardinality(upto(i)) # 0
    BY <2>1, <2>2, FS_EmptySet
  <2> QED BY <1>1, <2>2, <2>3, <2>4
<1>3. rank \in [S -> 1 .. Cardinality(S)]
  BY <1>2
<1>4. ASSUME NEW i \in S, NEW k \in S, i < k, rank[i] = rank[k] PROVE FALSE
  <2>1. upto(i) \in SUBSET upto(k)
    <3>1. \A j \in S : j <= i => j <= k
      BY <1>4
    <3> QED BY <3>1
  <2>2. Cardinality(upto(i)) = Cardinality(upto(k))
    BY <1>4
  <2>3. upto(i) = upto(k)
    BY <1>2, <2>1, <2>2, FS_Subset
  <2>4. k \in upto(k) /\ k \notin upto(i)
    BY <1>4
  <2> QED BY <2>3, <2>4
<1>5. \A i, k \in S : i # k => i < k \/ k < i
  OBVIOUS
<1>6. rank \in Injection(S, 1 .. Cardinality(S))
  <2> HIDE DEF rank
  <2> QED BY <1>3, <1>4, <1>5 DEF Injection, IsInjective
<1>7. IsFiniteSet(1 .. Cardinality(S)) /\ Cardinality(1 .. Cardinality(S)) = Cardinality(S)
  BY <1>1, FS_Interval
<1>8. rank \in Surjection(S, 1 .. Cardinality(S))
  <2> HIDE DEF rank
  <2> QED BY <1>6, <1>7, FS_Injection
<1> QED BY <1>1, <1>6, <1>8 DEF Bijection

\* The n-th place is one, and every place is the n-th for some n.
LEMMA NthPlace ==
    ASSUME NEW n \in Nat, NEW S \in SUBSET (1 .. n)
    PROVE  /\ \A m \in 1 .. Cardinality(S) :
                /\ Nth(S, m) \in S
                /\ Cardinality({j \in S : j <= Nth(S, m)}) = m
           /\ \A i \in S : \E m \in 1 .. Cardinality(S) : Nth(S, m) = i
<1> DEFINE rank == [i \in S |-> Cardinality({j \in S : j <= i})]
<1>1. rank \in Bijection(S, 1 .. Cardinality(S))
  BY RanksNumber
<1>2. \A i \in S : rank[i] = Cardinality({j \in S : j <= i})
  OBVIOUS
<1> HIDE DEF rank
<1>3. /\ rank \in [S -> 1 .. Cardinality(S)]
      /\ \A i, k \in S : rank[i] = rank[k] => i = k
      /\ \A m \in 1 .. Cardinality(S) : \E i \in S : rank[i] = m
  BY <1>1 DEF Bijection, Injection, Surjection, IsInjective
<1>4. ASSUME NEW m \in 1 .. Cardinality(S)
      PROVE  Nth(S, m) \in S /\ Cardinality({j \in S : j <= Nth(S, m)}) = m
  <2>1. \E i \in S : Cardinality({j \in S : j <= i}) = m
    BY <1>2, <1>3
  <2> QED BY <2>1 DEF Nth
<1>5. ASSUME NEW i \in S PROVE Nth(S, rank[i]) = i
  <2>1. rank[i] \in 1 .. Cardinality(S)
    BY <1>3
  <2>2. Nth(S, rank[i]) \in S /\ rank[Nth(S, rank[i])] = rank[i]
    BY <1>2, <1>4, <2>1
  <2> QED BY <1>3, <2>2
<1> QED BY <1>3, <1>4, <1>5

\* A filter keeps the wanted entries.
LEMMA OnlyDoes ==
    ASSUME NEW S, NEW s \in Seq(S), NEW W
    PROVE  /\ Only(s, W) \in Seq(S)
           /\ Range(Only(s, W)) = Range(s) \cap W
<1> DEFINE places == {i \in DOMAIN s : s[i] \in W}
           c == Cardinality(places)
           at == [m \in 1 .. c |-> Nth(places, m)]
           only == [m \in 1 .. c |-> s[Nth(places, m)]]
<1>1. Len(s) \in Nat /\ DOMAIN s = 1 .. Len(s) /\ \A i \in DOMAIN s : s[i] \in S
  OBVIOUS
<1>2. places \in SUBSET (1 .. Len(s))
  BY <1>1
<1>3. /\ \A i \in places : i \in DOMAIN s /\ s[i] \in W /\ s[i] \in S
      /\ \A i \in DOMAIN s : s[i] \in W => i \in places
  BY <1>1
<1>4. \A m \in DOMAIN only : only[m] = s[Nth(places, m)]
  OBVIOUS
<1>5. DOMAIN only = 1 .. c /\ only = Only(s, W)
  BY DEF Only
<1> HIDE DEF places, only
<1>6. c \in Nat
  BY <1>1, <1>2, RanksNumber
<1>7. /\ \A m \in 1 .. c : /\ Nth(places, m) \in places
                          /\ Cardinality({j \in places : j <= Nth(places, m)}) = m
      /\ \A i \in places : \E m \in 1 .. c : Nth(places, m) = i
  BY <1>1, <1>2, NthPlace
<1> HIDE DEF c
<1>8. only \in Seq(S) /\ Len(only) = c
  <2>1. only = [m \in 1 .. c |-> only[m]]
    BY <1>5 DEF only
  <2>2. \A m \in 1 .. c : only[m] \in S
    BY <1>3, <1>4, <1>5, <1>7
  <2> QED BY <1>6, <2>1, <2>2
<1>9. Range(only) = Range(s) \cap W
  <2>1. ASSUME NEW m \in DOMAIN only PROVE only[m] \in Range(s) \cap W
    BY <1>3, <1>4, <1>5, <1>7 DEF Range
  <2>2. ASSUME NEW i \in DOMAIN s, s[i] \in W PROVE s[i] \in Range(only)
    BY <1>3, <1>4, <1>5, <1>7, <2>2 DEF Range
  <2> QED BY <2>1, <2>2 DEF Range
<1> QED BY <1>5, <1>8, <1>9

\* An id's rating set or cleared: of the others none comes or goes.
LEMMA SetRatingDoes ==
    ASSUME NEW read \in Seq(Entry), NEW id \in BankIds, NEW stars \in Stars
    PROVE  LET new == SetRating(id, stars, read)
           IN  /\ new \in Seq(Entry)
               /\ \A r \in Range(new) : \/ r \in Range(read) /\ r.id # id
                                        \/ r.id = id /\ r.stars = stars /\ stars # 0
               /\ \A r \in Range(read) : r.id # id => r \in Range(new)
               /\ stars # 0 => \E r \in Range(new) : r.id = id
<1> DEFINE new == SetRating(id, stars, read)
           entry == [id |-> id, stars |-> stars]
<1>1. CASE stars = 0
  <2> DEFINE others == {r \in Range(read) : r.id # id}
  <2>1. new = Only(read, others)
    BY <1>1 DEF SetRating
  <2>2. new \in Seq(Entry) /\ Range(new) = Range(read) \cap others
    BY <2>1, OnlyDoes
  <2>3. \A r : r \in others <=> r \in Range(read) /\ r.id # id
    OBVIOUS
  <2> HIDE DEF others
  <2> QED BY <1>1, <2>2, <2>3
<1>2. CASE stars # 0 /\ \E r \in Range(read) : r.id = id
  <2>1. new = [i \in DOMAIN read |-> IF read[i].id = id THEN entry ELSE read[i]]
    BY <1>2 DEF SetRating
  <2>2. entry \in Entry /\ entry.id = id /\ entry.stars = stars
    BY <1>2 DEF Entry, Stars
  <2>3. Len(read) \in Nat /\ DOMAIN read = 1 .. Len(read) /\ \A i \in DOMAIN read : read[i] \in Entry
    OBVIOUS
  <2> HIDE DEF entry, new
  <2>4. /\ DOMAIN new = DOMAIN read
        /\ \A i \in DOMAIN read : new[i] = IF read[i].id = id THEN entry ELSE read[i]
    BY <2>1
  <2>5. new \in Seq(Entry)
    <3>1. new = [i \in 1 .. Len(read) |-> new[i]]
      BY <2>1, <2>3
    <3>2. \A i \in 1 .. Len(read) : new[i] \in Entry
      BY <2>2, <2>3, <2>4
    <3> QED BY <2>3, <3>1, <3>2
  <2>6. \A r \in Range(new) : (r \in Range(read) /\ r.id # id) \/ r = entry
    BY <2>4 DEF Range
  <2>7. \A r \in Range(read) : r.id # id => r \in Range(new)
    BY <2>4 DEF Range
  <2>8. \E r \in Range(new) : r.id = id
    <3>1. PICK i \in DOMAIN read : read[i].id = id
      BY <1>2 DEF Range
    <3>2. new[i] = entry /\ i \in DOMAIN new
      BY <2>4, <3>1
    <3>3. entry \in Range(new)
      BY <3>2, Zenon DEF Range
    <3> QED BY <2>2, <3>3
  <2> QED BY <1>2, <2>2, <2>5, <2>6, <2>7, <2>8 DEF new
<1>3. CASE stars # 0 /\ ~\E r \in Range(read) : r.id = id
  <2>1. new = Append(read, entry)
    BY <1>3 DEF SetRating
  <2>2. entry \in Entry /\ entry.id = id /\ entry.stars = stars
    BY <1>3 DEF Entry, Stars
  <2> HIDE DEF entry, new
  <2>3. /\ new \in Seq(Entry) /\ DOMAIN read = 1 .. Len(read) /\ Len(read) \in Nat
        /\ DOMAIN new = 1 .. Len(read) + 1 /\ new[Len(read) + 1] = entry
        /\ \A i \in 1 .. Len(read) : new[i] = read[i]
    BY <2>1, <2>2, AppendProperties
  <2>4. \A r \in Range(new) : r \in Range(read) \/ r = entry
    BY <2>3 DEF Range
  <2>5. \A r \in Range(read) : r \in Range(new)
    BY <2>3 DEF Range
  <2>6. entry \in Range(new)
    <3>1. Len(read) + 1 \in DOMAIN new
      BY <2>3
    <3> QED BY <2>3, <3>1, Zenon DEF Range
  <2> QED BY <1>3, <2>2, <2>3, <2>4, <2>5, <2>6 DEF new
<1> QED BY <1>1, <1>2, <1>3

\* The first rating of some ids is the rating of one of them.
LEMMA FirstIsOne ==
    ASSUME ratings \in Seq(Entry), NEW ids, RatedAt(ids) # {}
    PROVE  \E r \in Range(ratings) : r.id \in ids /\ FirstRating(RatedAt(ids)) = r.stars
<1> DEFINE places == RatedAt(ids)
           first == CHOOSE i \in places : \A j \in places : i <= j
<1>1. places \in SUBSET Nat /\ places \in SUBSET DOMAIN ratings
      /\ \A i \in places : ratings[i].id \in ids
  BY DEF RatedAt
<1> HIDE DEF places
<1>2. \E i \in places : \A j \in places : i <= j
  BY <1>1, Least DEF places
<1>3. first \in places
  BY <1>2
<1>4. FirstRating(places) = ratings[first].stars
  BY DEF FirstRating, places
<1> HIDE DEF first
<1> QED BY <1>1, <1>3, <1>4 DEF Range, places

-----------------------------------------------------------------------------
(* The steps *)

THEOREM Initially == Init => IInv
<1> SUFFICES ASSUME Init PROVE IInv
  OBVIOUS
<1>1. Typed
  <2>1. board \in [Boards -> [pc : {"off", "probing", "starting", "up", "locked", "gone"},
                             seen : Boards \cup {NoBoard}]]
    BY DEF Init
  <2>2. lock \in Boards \cup {NoBoard} /\ overlapped \in BOOLEAN
    BY DEF Init
  <2>3. request \in [Requests -> Settled \cup Asking \cup Writing]
    <3>1. [pc |-> "new"] \in Settled
      BY DEF Settled
    <3> QED BY <3>1 DEF Init
  <2>4. ratings \in Seq(Entry) /\ given \in [BankIds -> Stars]
    BY DEF Init, Stars
  <2> QED BY <2>1, <2>2, <2>3, <2>4 DEF Typed
<1>2. Up = {} /\ \A q \in Requests : request[q].pc = "new"
  BY DEF Init, Up
<1>3. Served /\ OneBoard /\ Read
  BY <1>2 DEF Served, OneBoard, Read
<1>4. Rated
  BY DEF Init, Rated, RatedFor, Range
<1> QED BY <1>1, <1>3, <1>4 DEF IInv, Apart

LEMMA OthersKeep == IInv /\ UNCHANGED ratedVars => IInv'
BY DEF IInv, ratedVars, Typed, Served, Apart, OneBoard, Read, Rated, RatedFor, Up

\* A board command on its way to its lock, or at the lock file.
LEMMA BoardMoves ==
    ASSUME IInv, NEW b \in Boards, FindLock(b) \/ Probe(b) \/ WriteLock(b)
    PROVE  IInv'
<1>1. Typed'
  BY DEF IInv, Typed, FindLock, Probe, WriteLock, rateVars
<1>2. Up' = Up
  BY DEF IInv, Typed, Up, FindLock, Probe, WriteLock
<1>3. UNCHANGED <<request, ratings, given, overlapped>>
  BY DEF FindLock, Probe, WriteLock, rateVars
<1> QED BY <1>1, <1>2, <1>3 DEF IInv, Served, Apart, OneBoard, Read, Rated, RatedFor

LEMMA ListenKeeps ==
    ASSUME IInv, NEW b \in Boards, Listen(b) PROVE IInv'
<1>1. Typed'
  BY DEF IInv, Typed, Listen, rateVars
<1>2. Up' = Up \cup {b} /\ UNCHANGED <<request, ratings, given>>
  BY DEF IInv, Typed, Up, Listen, rateVars
<1>3. ~overlapped' => ~overlapped /\ Up = {}
  BY DEF Listen, IInv, Typed
<1>4. Served'
  BY <1>2 DEF IInv, Served
<1>5. Apart'
  BY <1>2, <1>3 DEF IInv, Apart, OneBoard, Read, Rated, RatedFor
<1> QED BY <1>1, <1>4, <1>5 DEF IInv

\* A board that ends takes its requests with it.
LEMMA StopKeeps ==
    ASSUME IInv, NEW b \in Boards, Quit(b) \/ CrashBoard(b) PROVE IInv'
<1>1. /\ \A q \in Requests : request'[q] = [pc |-> "over"]
                          \/ (request'[q] = request[q] /\ q \notin Mine(b))
      /\ request' \in [Requests -> Settled \cup Asking \cup Writing]
      /\ UNCHANGED <<ratings, given, overlapped>>
      /\ lock' \in {lock, NoBoard}
      /\ board' = [board EXCEPT ![b] = [pc |-> "gone", seen |-> NoBoard]]
  <2>1. UNCHANGED <<ratings, given, overlapped>> /\ lock' \in {lock, NoBoard}
    BY DEF Quit, CrashBoard
  <2>2. Stop(b)
    BY DEF Quit, CrashBoard
  <2>3. board' = [board EXCEPT ![b] = [pc |-> "gone", seen |-> NoBoard]]
    BY <2>2 DEF Stop
  <2>4. request' = [q \in Requests |-> IF q \in Mine(b) THEN [pc |-> "over"] ELSE request[q]]
    BY <2>2 DEF Stop
  <2>5. [pc |-> "over"] \in Settled
    BY DEF Settled
  <2>6. request \in [Requests -> Settled \cup Asking \cup Writing]
    BY DEF IInv, Typed
  <2> HIDE DEF Settled, Asking, Writing
  <2>7. request' \in [Requests -> Settled \cup Asking \cup Writing]
    BY <2>4, <2>5, <2>6
  <2>8. \A q \in Requests : request'[q] = [pc |-> "over"]
                            \/ (request'[q] = request[q] /\ q \notin Mine(b))
    BY <2>4
  <2> QED BY <2>1, <2>3, <2>7, <2>8
<1>2. Typed'
  BY <1>1 DEF IInv, Typed
<1>3. Up' = Up \ {b}
  BY <1>1 DEF IInv, Typed, Up
<1>4. Served'
  BY <1>1, <1>3 DEF IInv, Served, Mine
<1>5. Apart'
  BY <1>1, <1>3 DEF IInv, Apart, OneBoard, Read, Rated, RatedFor
<1> QED BY <1>2, <1>4, <1>5 DEF IInv

\* Requests that ask, are found or are turned down.
LEMMA AskingKeeps ==
    ASSUME IInv, request' \in [Requests -> Settled \cup Asking \cup Writing],
           \A q \in Requests : \/ request'[q] = request[q]
                               \/ request'[q] \in Settled
                               \/ request'[q] \in Asking /\ request'[q].board \in Up,
           UNCHANGED <<lock, board, overlapped, ratings, given>>
    PROVE  IInv'
<1>1. Typed' /\ Up' = Up
  BY DEF IInv, Typed, Up
<1>2. \A q \in Requests : request'[q].pc = "writing" => request'[q] = request[q]
  BY DEF Settled, Asking
<1>3. Served'
  BY <1>1, <1>2 DEF IInv, Served, Settled
<1>4. Apart'
  BY <1>1, <1>2 DEF IInv, Apart, OneBoard, Read, Rated, RatedFor
<1> QED BY <1>1, <1>3, <1>4 DEF IInv

LEMMA SendKeeps ==
    ASSUME IInv, NEW q \in Requests, NEW b \in Boards, Send(q, b) PROVE IInv'
<1>1. PICK r : /\ r \in Settled \cup Asking
               /\ r \in Asking => r.board = b
               /\ request' = [request EXCEPT ![q] = r]
  BY DEF Send, Settled, Asking, ValidRatingInput, Stars
<1>2. b \in Up /\ UNCHANGED <<lock, board, overlapped, ratings, given>>
  BY DEF Send, Free, lockVars
<1> QED BY <1>1, <1>2, AskingKeeps DEF IInv, Typed

LEMMA FoundDoes ==
    ASSUME IInv, NEW q \in Requests, NEW ids, request[q].pc \in {"bank", "again"}
    PROVE  /\ Found(q, ids) \in Settled \cup Asking
           /\ Found(q, ids) \in Asking => Found(q, ids).board \in Up
<1>1. request[q] \in Asking /\ request[q].board \in Up
  BY DEF IInv, Typed, Served, Settled, Asking, Writing
<1>2. /\ [request[q] EXCEPT !.pc = "found"] \in Asking
      /\ [request[q] EXCEPT !.pc = "found"].board = request[q].board
      /\ [request[q] EXCEPT !.pc = "again"] \in Asking
      /\ [request[q] EXCEPT !.pc = "again"].board = request[q].board
  BY <1>1 DEF Asking
<1>3. [pc |-> "over"] \in Settled /\ [pc |-> "over"] \notin Asking
  BY DEF Settled, Asking
<1> QED BY <1>1, <1>2, <1>3 DEF Found

LEMMA FetchKeeps ==
    ASSUME IInv, NEW b \in Boards, Fetched(b) \/ FetchFails(b) PROVE IInv'
<1>1. CASE Fetched(b)
  <2>1. PICK ids :
          request' = [q \in Requests |->
                        IF q \in Mine(b) /\ request[q].pc \in {"bank", "again"}
                        THEN Found(q, ids) ELSE request[q]]
    BY <1>1 DEF Fetched
  <2>2. UNCHANGED <<lock, board, overlapped, ratings, given>>
    BY <1>1 DEF Fetched, lockVars
  <2> QED BY <2>1, <2>2, FoundDoes, AskingKeeps DEF IInv, Typed
<1>2. CASE FetchFails(b)
  <2>1. UNCHANGED <<lock, board, overlapped, ratings, given>>
    BY <1>2 DEF FetchFails, lockVars
  <2> QED BY <1>2, <2>1, AskingKeeps DEF FetchFails, IInv, Typed, Settled
<1> QED BY <1>1, <1>2

LEMMA FromCacheKeeps ==
    ASSUME IInv, NEW q \in Requests, FromCache(q) PROVE IInv'
<1>1. PICK ids : request' = [request EXCEPT ![q] = Found(q, ids)]
  BY DEF FromCache
<1>2. request[q].pc = "bank" /\ UNCHANGED <<lock, board, overlapped, ratings, given>>
  BY DEF FromCache, lockVars
<1> QED BY <1>1, <1>2, FoundDoes, AskingKeeps DEF IInv, Typed

\* A request that reads the ratings: its board does nothing else.
LEMMA ReadKeeps ==
    ASSUME IInv, NEW q \in Requests, ReadRatings(q) PROVE IInv'
<1> DEFINE b == request[q].board
           r == [pc |-> "writing", board |-> b, id |-> request[q].id,
                 stars |-> request[q].stars, read |-> ratings]
<1>1. request[q] \in Asking /\ b \in Up
  BY DEF ReadRatings, IInv, Typed, Served, Settled, Asking, Writing
<1>2. /\ request' = [request EXCEPT ![q] = r]
      /\ UNCHANGED <<lock, board, overlapped, ratings, given>>
      /\ \A x \in Requests : x \in Mine(b) => request[x].pc # "writing"
  BY DEF ReadRatings, Free, lockVars
<1>3. r \in Writing /\ r.board = b /\ r.pc = "writing" /\ r.read = ratings
  BY <1>1 DEF Writing, Asking, IInv, Typed
<1> HIDE DEF r, b
<1>4. Typed' /\ Up' = Up
  BY <1>2, <1>3 DEF IInv, Typed, Up
<1>5. \A x \in Requests : request[x].pc = "writing" => request[x].board # b
  BY <1>2 DEF Mine
<1>6. Served'
  BY <1>1, <1>2, <1>3, <1>4, <1>5 DEF IInv, Served, Typed
<1>7. Apart'
  BY <1>2, <1>3, <1>4 DEF IInv, Apart, OneBoard, Read, Rated, RatedFor, Typed
<1> QED BY <1>4, <1>6, <1>7 DEF IInv

\* A request that writes them: with one board up, no other is about to.
LEMMA WriteKeeps ==
    ASSUME IInv, NEW q \in Requests, WriteRatings(q) PROVE IInv'
<1> DEFINE id == request[q].id
           stars == request[q].stars
<1>1. /\ request[q] \in Writing /\ request[q].pc = "writing"
      /\ request' = [request EXCEPT ![q] = [pc |-> "over"]]
      /\ UNCHANGED <<lock, board, overlapped>>
  BY DEF WriteRatings, IInv, Typed, Settled, Asking, lockVars
<1>2. id \in BankIds /\ stars \in Stars /\ request[q].read \in Seq(Entry)
  BY <1>1 DEF Writing
<1>3. /\ ratings' = SetRating(id, stars, request[q].read)
      /\ given' = [given EXCEPT ![id] = stars]
  BY DEF WriteRatings
<1> HIDE DEF id, stars
<1>4. /\ ratings' \in Seq(Entry)
      /\ \A r \in Range(ratings') : \/ r \in Range(request[q].read) /\ r.id # id
                                    \/ r.id = id /\ r.stars = stars /\ stars # 0
      /\ \A r \in Range(request[q].read) : r.id # id => r \in Range(ratings')
      /\ stars # 0 => \E r \in Range(ratings') : r.id = id
  BY <1>2, <1>3, SetRatingDoes
<1>5. Typed' /\ Up' = Up
  BY <1>1, <1>2, <1>3, <1>4 DEF IInv, Typed, Up, Settled
<1>6. Served'
  BY <1>1, <1>5 DEF IInv, Served, Typed
<1>7. ASSUME ~overlapped PROVE OneBoard' /\ Read' /\ Rated'
  <2>1. OneBoard' /\ request[q].read = ratings
    BY <1>1, <1>5, <1>7 DEF IInv, Apart, OneBoard, Read
  <2>2. Read'
    BY <1>1, <1>7 DEF IInv, Apart, OneBoard, Served, Read, Typed
  <2>3. ASSUME NEW c \in BankIds PROVE RatedFor(c)'
    <3>1. RatedFor(c)
      BY <1>7 DEF IInv, Apart, Rated
    <3>2. given'[c] = IF c = id THEN stars ELSE given[c]
      BY <1>3 DEF IInv, Typed
    <3> QED BY <1>4, <2>1, <3>1, <3>2 DEF RatedFor
  <2> QED BY <2>1, <2>2, <2>3 DEF Rated
<1> QED BY <1>1, <1>5, <1>6, <1>7 DEF IInv, Apart

THEOREM Stepwise == IInv /\ [Next]_vars => IInv'
<1> SUFFICES ASSUME IInv, [Next]_vars PROVE IInv'
  OBVIOUS
<1>1. CASE File \/ BackUp \/ PushAnswer
  BY <1>1, OthersKeep DEF File, WriteTmp, Rename, CrashSaving, Sheet, BackUp, PushAnswer, ratedVars,
                          lockVars, rateVars
<1>2. ASSUME NEW b \in Boards, Command(b) PROVE IInv'
  BY <1>2, BoardMoves, ListenKeeps, StopKeeps DEF Command
<1>3. ASSUME NEW b \in Boards, Server(b) PROVE IInv'
  <2>1. CASE Fetch(b) \/ CacheExpires(b) \/ ShowPage(b) \/ OpenForm(b)
    BY <2>1, OthersKeep DEF Fetch, CacheExpires, ShowPage, OpenForm, ratedVars, lockVars, rateVars
  <2> QED BY <1>3, <2>1, FetchKeeps DEF Server
<1>4. ASSUME NEW q \in Requests, Rate(q) PROVE IInv'
  BY <1>4, FromCacheKeeps, ReadKeeps, WriteKeeps DEF Rate
<1>5. ASSUME NEW q \in Requests, NEW b \in Boards, Send(q, b) PROVE IInv'
  BY <1>5, SendKeeps
<1>6. CASE UNCHANGED vars
  BY <1>6, OthersKeep DEF vars, ratedVars, lockVars, rateVars
<1> QED BY <1>1, <1>2, <1>3, <1>4, <1>5, <1>6 DEF Next

-----------------------------------------------------------------------------
\* The invariant of the board: requests belong to boards that are up, one of a
\* board is writing, and with one board up what it read is what the file says.
THEOREM Inductive == Spec => []IInv
<1> QED BY Initially, Stepwise, PTL DEF Spec

\* With one board up at a time, the bot and the board rate an answer as its
\* page was last rated, or else as the one local copy of it was that has a
\* rating, whichever copies its pushes left, and in any order of ratings,
\* clearings, fetches and failures (RatingsKept).
THEOREM RatingsStay == Spec => []RatingsKept
<1>1. IInv => RatingsKept
  <2> SUFFICES ASSUME IInv, ~overlapped, NEW a \in Answers
               PROVE  /\ given[PageId(a)] # 0 => RatingFor(a) = given[PageId(a)]
                      /\ given[PageId(a)] = 0 => \A id \in CopyIds(a) :
                            (\A other \in CopyIds(a) \ {id} : given[other] = 0)
                               => RatingFor(a) = given[id]
    BY DEF RatingsKept
  <2>1. ratings \in Seq(Entry) /\ \A id \in BankIds : RatedFor(id)
    BY DEF IInv, Apart, Rated, Typed
  <2>2. PageId(a) \in BankIds /\ CopyIds(a) \in SUBSET BankIds
    BY DEF PageId, CopyIds, BankIds
  <2>3. \A ids : RatedAt(ids) = {} <=> \A r \in Range(ratings) : r.id \notin ids
    BY DEF RatedAt, Range
  <2>4. \A r \in Range(ratings) : r.id \in BankIds /\ r.stars # 0 /\ r.stars = given[r.id]
    <3>1. \A r \in Range(ratings) : r \in Entry
      BY <2>1 DEF Range
    <3>2. \A r \in Entry : r.id \in BankIds /\ r.stars # 0
      BY DEF Entry
    <3> QED BY <2>1, <3>1, <3>2 DEF RatedFor
  <2>5. \A id \in BankIds : given[id] # 0 => \E r \in Range(ratings) : r.id = id
    BY <2>1 DEF RatedFor
  <2>6. CASE given[PageId(a)] # 0
    <3>1. PICK r \in Range(ratings) : r.id = PageId(a)
      BY <2>2, <2>5, <2>6
    <3>2. RatedAt({PageId(a)}) # {}
      BY <2>3, <3>1
    <3>3. RatingFor(a) = FirstRating(RatedAt({PageId(a)}))
      BY <3>2 DEF RatingFor
    <3>4. PICK one \in Range(ratings) : /\ one.id \in {PageId(a)}
                                       /\ FirstRating(RatedAt({PageId(a)})) = one.stars
      BY <2>1, <3>2, FirstIsOne
    <3> QED BY <2>4, <2>6, <3>3, <3>4
  <2>7. CASE given[PageId(a)] = 0
    <3> SUFFICES ASSUME NEW id \in CopyIds(a), \A other \in CopyIds(a) \ {id} : given[other] = 0
                 PROVE  RatingFor(a) = given[id]
      BY <2>7
    <3>1. RatingFor(a) = FirstRating(RatedAt(CopyIds(a)))
      BY <2>3, <2>4, <2>7 DEF RatingFor
    <3>2. CASE RatedAt(CopyIds(a)) = {}
      BY <2>2, <2>3, <2>5, <3>1, <3>2 DEF FirstRating
    <3>3. CASE RatedAt(CopyIds(a)) # {}
      <4>1. PICK r \in Range(ratings) : /\ r.id \in CopyIds(a)
                                       /\ FirstRating(RatedAt(CopyIds(a))) = r.stars
        BY <2>1, <3>3, FirstIsOne
      <4> QED BY <2>4, <3>1, <4>1
    <3> QED BY <3>2, <3>3
  <2> QED BY <2>6, <2>7
<1> QED BY <1>1, Inductive, PTL
-----------------------------------------------------------------------------
(* The columns *)

LEMMA SeqDomain ==
    ASSUME NEW s, IsSeq(s) PROVE DOMAIN s = 1 .. Len(s) /\ Len(s) \in Nat
BY DEF IsSeq

LEMMA JoinDoes ==
    ASSUME NEW s, NEW t, IsSeq(s), IsSeq(t)
    PROVE  /\ IsSeq(s \o t)
           /\ Len(s \o t) = Len(s) + Len(t)
           /\ Range(s \o t) = Range(s) \cup Range(t)
           /\ \A i \in DOMAIN s : (s \o t)[i] = s[i]
           /\ \A i \in DOMAIN t : (s \o t)[Len(s) + i] = t[i]
<1>1. /\ s \o t \in Seq(Range(s) \cup Range(t)) /\ Len(s \o t) = Len(s) + Len(t)
      /\ \A i \in 1 .. Len(s) + Len(t) :
            (s \o t)[i] = IF i <= Len(s) THEN s[i] ELSE t[i - Len(s)]
      /\ Len(s) \in Nat /\ Len(t) \in Nat
      /\ DOMAIN s = 1 .. Len(s) /\ DOMAIN t = 1 .. Len(t) /\ DOMAIN (s \o t) = 1 .. Len(s) + Len(t)
  <2>1. s \in Seq(Range(s) \cup Range(t)) /\ t \in Seq(Range(s) \cup Range(t))
    BY DEF IsSeq
  <2> QED BY <2>1
<1>2. \A i \in DOMAIN s : i \in DOMAIN (s \o t) /\ (s \o t)[i] = s[i]
  BY <1>1
<1>3. \A i \in DOMAIN t : Len(s) + i \in DOMAIN (s \o t) /\ (s \o t)[Len(s) + i] = t[i]
  BY <1>1
<1>4. Range(s \o t) \subseteq Range(s) \cup Range(t)
  <2> SUFFICES ASSUME NEW i \in DOMAIN (s \o t) PROVE (s \o t)[i] \in Range(s) \cup Range(t)
    BY DEF Range
  <2>1. CASE i <= Len(s)
    BY <1>1, <2>1 DEF Range
  <2>2. CASE i > Len(s)
    <3>1. i - Len(s) \in DOMAIN t /\ (s \o t)[i] = t[i - Len(s)]
      BY <1>1, <2>2
    <3> QED BY <3>1 DEF Range
  <2> QED BY <1>1, <2>1, <2>2
<1>5. Range(s) \cup Range(t) \subseteq Range(s \o t)
  BY <1>2, <1>3 DEF Range
<1>6. Range(s \o t) = Range(s) \cup Range(t)
  BY <1>4, <1>5
<1> QED BY <1>1, <1>2, <1>3, <1>6 DEF IsSeq

Joined(u, s, t) == u = s \o t

LEMMA JoinedCells ==
    ASSUME NEW s, NEW t, NEW u, IsSeq(s), IsSeq(t), Joined(u, s, t)
    PROVE  /\ \A i \in DOMAIN s : u[i] = s[i]
           /\ \A i \in DOMAIN t : u[Len(s) + i] = t[i]
BY JoinDoes DEF Joined

\* The length and the columns of a part of a header.
Sized(s, n, names) == IsSeq(s) /\ Len(s) = n /\ Range(s) = names

LEMMA SizedJoin ==
    ASSUME NEW s, NEW t, NEW n \in Nat, NEW m \in Nat, NEW S, NEW T,
           Sized(s, n, S), Sized(t, m, T)
    PROVE  Sized(s \o t, n + m, S \cup T)
BY JoinDoes DEF Sized

LEMMA PartsAre ==
    /\ Sized(Posting, 6, {"key", "source", "jobId", "companyName", "title", "url"})
    /\ Sized(Documents, 3, {"notion_page_id", "resume_ver", "cl_key"})
    /\ Sized(Salary, 3, {"salary_min", "salary_max", "cl_path"})
    /\ Sized(Stamps, 2, {"createdAt", "updatedAt"})
    /\ Sized(Fit, 4, {"fit_score", "fit_rationale", "fit_evaluated_at", "skip_reason"})
    /\ Sized(Outreach, 6, {"company_people_search_url", "outreach_type", "contact_name",
                           "contact_linkedin", "hm_outreach_status", "hm_outreach_date"})
    /\ Sized(AppliedDate, 1, {"applied_date"})
    /\ Sized(ApplyState, 3, {"applied_by", "apply_state", "apply_note"})
<1>1. /\ IsSeq(Posting) /\ Len(Posting) = 6
      /\ Range(Posting) = {"key", "source", "jobId", "companyName", "title", "url"}
  <2>1. /\ DOMAIN Posting = {1, 2, 3, 4, 5, 6} /\ Len(Posting) = 6
        /\ Posting \in Seq({"key", "source", "jobId", "companyName", "title", "url"})
    BY DEF Posting
  <2>2. Range(Posting) = {"key", "source", "jobId", "companyName", "title", "url"}
    BY <2>1 DEF Range, Posting
  <2> QED BY <2>1, <2>2 DEF IsSeq
<1>2. /\ IsSeq(Documents) /\ Len(Documents) = 3
      /\ Range(Documents) = {"notion_page_id", "resume_ver", "cl_key"}
  <2>1. /\ DOMAIN Documents = {1, 2, 3} /\ Len(Documents) = 3
        /\ Documents \in Seq({"notion_page_id", "resume_ver", "cl_key"})
    BY DEF Documents
  <2>2. Range(Documents) = {"notion_page_id", "resume_ver", "cl_key"}
    BY <2>1 DEF Range, Documents
  <2> QED BY <2>1, <2>2 DEF IsSeq
<1>3. /\ IsSeq(Salary) /\ Len(Salary) = 3
      /\ Range(Salary) = {"salary_min", "salary_max", "cl_path"}
  <2>1. /\ DOMAIN Salary = {1, 2, 3} /\ Len(Salary) = 3
        /\ Salary \in Seq({"salary_min", "salary_max", "cl_path"})
    BY DEF Salary
  <2>2. Range(Salary) = {"salary_min", "salary_max", "cl_path"}
    BY <2>1 DEF Range, Salary
  <2> QED BY <2>1, <2>2 DEF IsSeq
<1>4. /\ IsSeq(Stamps) /\ Len(Stamps) = 2
      /\ Range(Stamps) = {"createdAt", "updatedAt"}
  <2>1. /\ DOMAIN Stamps = {1, 2} /\ Len(Stamps) = 2
        /\ Stamps \in Seq({"createdAt", "updatedAt"})
    BY DEF Stamps
  <2>2. Range(Stamps) = {"createdAt", "updatedAt"}
    BY <2>1 DEF Range, Stamps
  <2> QED BY <2>1, <2>2 DEF IsSeq
<1>5. /\ IsSeq(Fit) /\ Len(Fit) = 4
      /\ Range(Fit) = {"fit_score", "fit_rationale", "fit_evaluated_at",
                   "skip_reason"}
  <2>1. /\ DOMAIN Fit = {1, 2, 3, 4} /\ Len(Fit) = 4
        /\ Fit \in Seq({"fit_score", "fit_rationale", "fit_evaluated_at",
                   "skip_reason"})
    BY DEF Fit
  <2>2. Range(Fit) = {"fit_score", "fit_rationale", "fit_evaluated_at",
                   "skip_reason"}
    BY <2>1 DEF Range, Fit
  <2> QED BY <2>1, <2>2 DEF IsSeq
<1>6. /\ IsSeq(Outreach) /\ Len(Outreach) = 6
      /\ Range(Outreach) = {"company_people_search_url", "outreach_type", "contact_name",
                        "contact_linkedin", "hm_outreach_status", "hm_outreach_date"}
  <2>1. /\ DOMAIN Outreach = {1, 2, 3, 4, 5, 6} /\ Len(Outreach) = 6
        /\ Outreach \in Seq({"company_people_search_url", "outreach_type", "contact_name",
                        "contact_linkedin", "hm_outreach_status", "hm_outreach_date"})
    BY DEF Outreach
  <2>2. Range(Outreach) = {"company_people_search_url", "outreach_type", "contact_name",
                        "contact_linkedin", "hm_outreach_status", "hm_outreach_date"}
    BY <2>1 DEF Range, Outreach
  <2> QED BY <2>1, <2>2 DEF IsSeq
<1>7. /\ IsSeq(AppliedDate) /\ Len(AppliedDate) = 1
      /\ Range(AppliedDate) = {"applied_date"}
  <2>1. /\ DOMAIN AppliedDate = {1} /\ Len(AppliedDate) = 1
        /\ AppliedDate \in Seq({"applied_date"})
    BY DEF AppliedDate
  <2>2. Range(AppliedDate) = {"applied_date"}
    BY <2>1 DEF Range, AppliedDate
  <2> QED BY <2>1, <2>2 DEF IsSeq
<1>8. /\ IsSeq(ApplyState) /\ Len(ApplyState) = 3
      /\ Range(ApplyState) = {"applied_by", "apply_state", "apply_note"}
  <2>1. /\ DOMAIN ApplyState = {1, 2, 3} /\ Len(ApplyState) = 3
        /\ ApplyState \in Seq({"applied_by", "apply_state", "apply_note"})
    BY DEF ApplyState
  <2>2. Range(ApplyState) = {"applied_by", "apply_state", "apply_note"}
    BY <2>1 DEF Range, ApplyState
  <2> QED BY <2>1, <2>2 DEF IsSeq
<1> QED BY <1>1, <1>2, <1>3, <1>4, <1>5, <1>6, <1>7, <1>8 DEF Sized

\* Each version has the columns of the one before and some more.
LEMMA HeadersAre ==
    /\ Sized(HEADER_V1, 12, Range(Posting) \cup {"status"} \cup Range(Documents) \cup Range(Stamps))
    /\ Sized(HEADER_V2, 15, Range(HEADER_V1) \cup Range(Salary))
    /\ Sized(HEADER_V3, 16, Range(HEADER_V2) \cup {"location"})
    /\ Sized(HEADER_V4, 20, Range(HEADER_V3) \cup Range(Fit))
    /\ Sized(HEADER_V5, 20, Range(HEADER_V2) \cup {"locations"} \cup Range(Fit))
    /\ Sized(HEADER_V6, 26, Range(HEADER_V5) \cup Range(Outreach))
    /\ Sized(HEADER_V7, 27, Range(HEADER_V6) \cup Range(AppliedDate))
    /\ Sized(HEADER_V8, 30, Range(HEADER_V7) \cup Range(ApplyState))
<1> DEFINE one == <<"status">>
           two == <<"location", "status">>
           many == <<"locations", "status">>
           P == Range(Posting)
           D == Range(Documents)
           S == Range(Salary)
           T == Range(Stamps)
<1>1. Sized(one, 1, {"status"}) /\ Sized(two, 2, {"location", "status"})
      /\ Sized(many, 2, {"locations", "status"})
  <2>1. /\ DOMAIN one = {1} /\ Len(one) = 1 /\ one \in Seq({"status"})
        /\ DOMAIN two = {1, 2} /\ Len(two) = 2 /\ two \in Seq({"location", "status"})
        /\ DOMAIN many = {1, 2} /\ Len(many) = 2 /\ many \in Seq({"locations", "status"})
    OBVIOUS
  <2>2. /\ Range(one) = {"status"} /\ Range(two) = {"location", "status"}
        /\ Range(many) = {"locations", "status"}
    BY <2>1 DEF Range
  <2> QED BY <2>1, <2>2 DEF IsSeq, Sized
<1>2. /\ HEADER_V1 = ((Posting \o one) \o Documents) \o Stamps
      /\ HEADER_V2 = (((Posting \o one) \o Documents) \o Salary) \o Stamps
      /\ HEADER_V3 = (((Posting \o two) \o Documents) \o Salary) \o Stamps
      /\ HEADER_V4 = HEADER_V3 \o Fit
      /\ HEADER_V5 = ((((Posting \o many) \o Documents) \o Salary) \o Stamps) \o Fit
      /\ HEADER_V6 = HEADER_V5 \o Outreach
      /\ HEADER_V7 = HEADER_V6 \o AppliedDate
      /\ HEADER_V8 = HEADER_V7 \o ApplyState
  BY DEF HEADER_V1, HEADER_V2, HEADER_V3, HEADER_V4, HEADER_V5, HEADER_V6, HEADER_V7, HEADER_V8
<1>3. /\ Sized(Posting, 6, P) /\ Sized(Documents, 3, D) /\ Sized(Salary, 3, S) /\ Sized(Stamps, 2, T)
      /\ Sized(Fit, 4, Range(Fit)) /\ Sized(Outreach, 6, Range(Outreach))
      /\ Sized(AppliedDate, 1, Range(AppliedDate)) /\ Sized(ApplyState, 3, Range(ApplyState))
  BY PartsAre DEF Sized
<1>4. \A s, n, names : Sized(s, n, names) => Range(s) = names /\ Sized(s, n, Range(s))
  BY DEF Sized
<1> HIDE DEF one, two, many, P, D, S, T
<1>5. Sized(HEADER_V1, 12, P \cup {"status"} \cup D \cup T)
  <2>1. Sized(Posting \o one, 7, P \cup {"status"})
    BY <1>1, <1>3, SizedJoin
  <2>2. Sized((Posting \o one) \o Documents, 10, P \cup {"status"} \cup D)
    BY <1>3, <2>1, SizedJoin
  <2>3. Sized(((Posting \o one) \o Documents) \o Stamps, 12, P \cup {"status"} \cup D \cup T)
    BY <1>3, <2>2, SizedJoin
  <2> QED BY <1>2, <2>3
<1>6. Range(HEADER_V1) = P \cup {"status"} \cup D \cup T
  BY <1>4, <1>5
<1>7. Sized(HEADER_V2, 15, Range(HEADER_V1) \cup S)
  <2>1. Sized(Posting \o one, 7, P \cup {"status"})
    BY <1>1, <1>3, SizedJoin
  <2>2. Sized((Posting \o one) \o Documents, 10, P \cup {"status"} \cup D)
    BY <1>3, <2>1, SizedJoin
  <2>3. Sized(((Posting \o one) \o Documents) \o Salary, 13, P \cup {"status"} \cup D \cup S)
    BY <1>3, <2>2, SizedJoin
  <2>4. Sized((((Posting \o one) \o Documents) \o Salary) \o Stamps, 15,
        P \cup {"status"} \cup D \cup S \cup T)
    BY <1>3, <2>3, SizedJoin
  <2>5. P \cup {"status"} \cup D \cup S \cup T = Range(HEADER_V1) \cup S
    BY <1>6
  <2> QED BY <1>2, <2>4, <2>5
<1>8. Range(HEADER_V2) = Range(HEADER_V1) \cup S
  BY <1>4, <1>7
<1>9. Sized(HEADER_V3, 16, Range(HEADER_V2) \cup {"location"})
  <2>1. Sized(Posting \o two, 8, P \cup {"location", "status"})
    BY <1>1, <1>3, SizedJoin
  <2>2. Sized((Posting \o two) \o Documents, 11, P \cup {"location", "status"} \cup D)
    BY <1>3, <2>1, SizedJoin
  <2>3. Sized(((Posting \o two) \o Documents) \o Salary, 14, P \cup {"location", "status"} \cup D \cup S)
    BY <1>3, <2>2, SizedJoin
  <2>4. Sized((((Posting \o two) \o Documents) \o Salary) \o Stamps, 16,
        P \cup {"location", "status"} \cup D \cup S \cup T)
    BY <1>3, <2>3, SizedJoin
  <2>5. P \cup {"location", "status"} \cup D \cup S \cup T = Range(HEADER_V2) \cup {"location"}
    BY <1>6, <1>8
  <2> QED BY <1>2, <2>4, <2>5
<1>10. Sized(HEADER_V4, 20, Range(HEADER_V3) \cup Range(Fit))
  <2>1. Sized(HEADER_V3, 16, Range(HEADER_V3))
    BY <1>4, <1>9
  <2> QED BY <1>2, <1>3, <2>1, SizedJoin
<1>11. Sized(HEADER_V5, 20, Range(HEADER_V2) \cup {"locations"} \cup Range(Fit))
  <2>1. Sized(Posting \o many, 8, P \cup {"locations", "status"})
    BY <1>1, <1>3, SizedJoin
  <2>2. Sized((Posting \o many) \o Documents, 11, P \cup {"locations", "status"} \cup D)
    BY <1>3, <2>1, SizedJoin
  <2>3. Sized(((Posting \o many) \o Documents) \o Salary, 14, P \cup {"locations", "status"} \cup D \cup S)
    BY <1>3, <2>2, SizedJoin
  <2>4. Sized((((Posting \o many) \o Documents) \o Salary) \o Stamps, 16,
        P \cup {"locations", "status"} \cup D \cup S \cup T)
    BY <1>3, <2>3, SizedJoin
  <2>5. Sized(((((Posting \o many) \o Documents) \o Salary) \o Stamps) \o Fit, 20,
        P \cup {"locations", "status"} \cup D \cup S \cup T \cup Range(Fit))
    BY <1>3, <2>4, SizedJoin
  <2>6. P \cup {"locations", "status"} \cup D \cup S \cup T \cup Range(Fit) =
        Range(HEADER_V2) \cup {"locations"} \cup Range(Fit)
    BY <1>6, <1>8
  <2> QED BY <1>2, <2>5, <2>6
<1>12. Sized(HEADER_V6, 26, Range(HEADER_V5) \cup Range(Outreach))
  <2>1. Sized(HEADER_V5, 20, Range(HEADER_V5))
    BY <1>4, <1>11
  <2> QED BY <1>2, <1>3, <2>1, SizedJoin
<1>13. Sized(HEADER_V7, 27, Range(HEADER_V6) \cup Range(AppliedDate))
  <2>1. Sized(HEADER_V6, 26, Range(HEADER_V6))
    BY <1>4, <1>12
  <2> QED BY <1>2, <1>3, <2>1, SizedJoin
<1>14. Sized(HEADER_V8, 30, Range(HEADER_V7) \cup Range(ApplyState))
  <2>1. Sized(HEADER_V7, 27, Range(HEADER_V7))
    BY <1>4, <1>13
  <2> QED BY <1>2, <1>3, <2>1, SizedJoin
<1> QED BY <1>5, <1>7, <1>9, <1>10, <1>11, <1>12, <1>13, <1>14 DEF P, D, S, T

LEMMA HeadersSound == \A header \in Range(Headers) : IsSeq(header) /\ Len(header) > 0
<1>1. /\ DOMAIN Headers = {1, 2, 3, 4, 5, 6, 7, 8}
      /\ Headers[1] = HEADER_V1 /\ Headers[2] = HEADER_V2 /\ Headers[3] = HEADER_V3
      /\ Headers[4] = HEADER_V4 /\ Headers[5] = HEADER_V5 /\ Headers[6] = HEADER_V6
      /\ Headers[7] = HEADER_V7 /\ Headers[8] = HEADER_V8
  BY DEF Headers
<1> SUFFICES ASSUME NEW v \in {1, 2, 3, 4, 5, 6, 7, 8}
             PROVE  IsSeq(Headers[v]) /\ Len(Headers[v]) > 0
  BY <1>1 DEF Range
<1>2. IsSeq(Headers[1]) /\ Len(Headers[1]) > 0
  BY <1>1, HeadersAre DEF Sized
<1>3. IsSeq(Headers[2]) /\ Len(Headers[2]) > 0
  BY <1>1, HeadersAre DEF Sized
<1>4. IsSeq(Headers[3]) /\ Len(Headers[3]) > 0
  BY <1>1, HeadersAre DEF Sized
<1>5. IsSeq(Headers[4]) /\ Len(Headers[4]) > 0
  BY <1>1, HeadersAre DEF Sized
<1>6. IsSeq(Headers[5]) /\ Len(Headers[5]) > 0
  BY <1>1, HeadersAre DEF Sized
<1>7. IsSeq(Headers[6]) /\ Len(Headers[6]) > 0
  BY <1>1, HeadersAre DEF Sized
<1>8. IsSeq(Headers[7]) /\ Len(Headers[7]) > 0
  BY <1>1, HeadersAre DEF Sized
<1>9. IsSeq(Headers[8]) /\ Len(Headers[8]) > 0
  BY <1>1, HeadersAre DEF Sized
<1> QED BY <1>2, <1>3, <1>4, <1>5, <1>6, <1>7, <1>8, <1>9

LEMMA PlacesAre ==
    /\ {"location", "locations"} \cap Range(HEADER_V1) = {}
    /\ {"location", "locations"} \cap Range(HEADER_V2) = {}
    /\ {"location", "locations"} \cap Range(HEADER_V3) = {"location"}
    /\ {"location", "locations"} \cap Range(HEADER_V4) = {"location"}
    /\ {"location", "locations"} \cap Range(HEADER_V5) = {"locations"}
    /\ {"location", "locations"} \cap Range(HEADER_V6) = {"locations"}
    /\ {"location", "locations"} \cap Range(HEADER_V7) = {"locations"}
    /\ {"location", "locations"} \cap Names = {"locations"}
<1>1. /\ Range(HEADER_V1) = Range(Posting) \cup {"status"} \cup Range(Documents) \cup Range(Stamps)
      /\ Range(HEADER_V2) = Range(HEADER_V1) \cup Range(Salary)
      /\ Range(HEADER_V3) = Range(HEADER_V2) \cup {"location"}
      /\ Range(HEADER_V4) = Range(HEADER_V3) \cup Range(Fit)
      /\ Range(HEADER_V5) = Range(HEADER_V2) \cup {"locations"} \cup Range(Fit)
      /\ Range(HEADER_V6) = Range(HEADER_V5) \cup Range(Outreach)
      /\ Range(HEADER_V7) = Range(HEADER_V6) \cup Range(AppliedDate)
      /\ Names = Range(HEADER_V7) \cup Range(ApplyState)
  BY HeadersAre DEF Sized, Names
<1>2. /\ {"location", "locations"} \cap Range(Posting) = {}
      /\ {"location", "locations"} \cap Range(Documents) = {}
      /\ {"location", "locations"} \cap Range(Salary) = {}
      /\ {"location", "locations"} \cap Range(Stamps) = {}
      /\ {"location", "locations"} \cap Range(Fit) = {}
      /\ {"location", "locations"} \cap Range(Outreach) = {}
      /\ {"location", "locations"} \cap Range(AppliedDate) = {}
      /\ {"location", "locations"} \cap Range(ApplyState) = {}
  BY PartsAre DEF Sized
<1>3. {"location", "locations"} \cap Range(HEADER_V1) = {}
  BY <1>1, <1>2
<1>4. {"location", "locations"} \cap Range(HEADER_V2) = {}
  BY <1>1, <1>2, <1>3
<1>5. {"location", "locations"} \cap Range(HEADER_V3) = {"location"}
  BY <1>1, <1>4
<1>6. {"location", "locations"} \cap Range(HEADER_V4) = {"location"}
  BY <1>1, <1>2, <1>5
<1>7. {"location", "locations"} \cap Range(HEADER_V5) = {"locations"}
  BY <1>1, <1>2, <1>4
<1>8. {"location", "locations"} \cap Range(HEADER_V6) = {"locations"}
  BY <1>1, <1>2, <1>7
<1>9. {"location", "locations"} \cap Range(HEADER_V7) = {"locations"}
  BY <1>1, <1>2, <1>8
<1>10. {"location", "locations"} \cap Names = {"locations"}
  BY <1>1, <1>2, <1>9
<1> QED BY <1>3, <1>4, <1>5, <1>6, <1>7, <1>8, <1>9, <1>10

-----------------------------------------------------------------------------
(* The readers *)

Defaults(d, names) == DOMAIN d = names /\ \A c \in names : d[c] = Default(c)

\* A row in memory has in these columns what the row has, or that in quotes.
Reads(r, names, row) ==
    /\ r = [c \in names |-> r[c]]
    /\ \A c \in names : Bared(c, r[c]) = row[c]

LEMMA DefaultsPad ==
    ASSUME NEW d, NEW e, NEW S, NEW T, Defaults(d, S), Defaults(e, T)
    PROVE  Defaults(Padded(d, e), S \cup T)
BY DEF Defaults, Padded

LEMMA DefaultsBared == \A c : Bared(c, Default(c)) = Default(c)
<1>1. UnwrapCsvQuoted(Blank) = Blank /\ UnwrapCsvQuoted(Text("To do")) = Text("To do")
  BY DEF UnwrapCsvQuoted, Blank, Text
<1> QED BY <1>1 DEF Bared, Default

LEMMA ReadsPad ==
    ASSUME NEW r, NEW d, NEW S, NEW T, NEW row, Reads(r, S, row), Defaults(d, T),
           \A c \in T \ S : row[c] = Default(c)
    PROVE  Reads(Padded(r, d), S \cup T, row)
<1>1. DOMAIN r = S /\ DOMAIN d = T
  BY DEF Reads, Defaults
<1> QED BY <1>1, DefaultsBared DEF Reads, Defaults, Padded

LEMMA ReadsAll ==
    ASSUME NEW r, NEW S, NEW row, Reads(r, S, row), S = Names, IsRow(row)
    PROVE  Bare(r) = row
BY DEF Reads, IsRow, Bare

LEMMA DefaultsAre ==
    /\ Defaults(Located(<<>>), {"locations"})
    /\ Defaults(Seeded(Fit), Range(Fit))
    /\ Defaults(Seeded(Salary \o Fit), Range(Salary) \cup Range(Fit))
    /\ Defaults(ApplyStateDefaults, Range(ApplyState))
    /\ Defaults(Padded(AppliedDateDefaults, ApplyStateDefaults), Range(AppliedDate) \cup Range(ApplyState))
    /\ Defaults(LaterDefaults, Range(Outreach) \cup (Range(AppliedDate) \cup Range(ApplyState)))
<1>1. Defaults(Located(<<>>), {"locations"})
  BY DEF Defaults, Located, Default
<1>2. ASSUME NEW names, \A c \in Range(names) : c \notin {"locations", "hm_outreach_status"}
      PROVE  Defaults(Seeded(names), Range(names))
  BY <1>2 DEF Defaults, Seeded, Default
<1>3. \A c \in Range(Fit) : c \notin {"locations", "hm_outreach_status"}
  BY PartsAre DEF Sized
<1>4. \A c \in Range(Salary) : c \notin {"locations", "hm_outreach_status"}
  BY PartsAre DEF Sized
<1>5. \A c \in Range(AppliedDate) \cup Range(ApplyState) : c \notin {"locations", "hm_outreach_status"}
  BY PartsAre DEF Sized
<1>6. Range(Salary \o Fit) = Range(Salary) \cup Range(Fit)
  BY PartsAre, JoinDoes DEF Sized
<1>7. Defaults(Seeded(Fit), Range(Fit)) /\ Defaults(Seeded(Salary \o Fit), Range(Salary) \cup Range(Fit))
  BY <1>2, <1>3, <1>4, <1>6
<1>8. Defaults(AppliedDateDefaults, Range(AppliedDate)) /\ Defaults(ApplyStateDefaults, Range(ApplyState))
  BY <1>2, <1>5 DEF AppliedDateDefaults, ApplyStateDefaults
<1>9. Defaults(Padded(AppliedDateDefaults, ApplyStateDefaults), Range(AppliedDate) \cup Range(ApplyState))
  BY <1>8, DefaultsPad
<1>10. Defaults(OutreachDefaults, Range(Outreach))
  <2>1. \A c \in Range(Outreach) : c # "locations"
    BY PlacesAre, PartsAre DEF Sized
  <2> QED BY <2>1 DEF OutreachDefaults, Defaults, Seeded, Default
<1>11. Defaults(LaterDefaults, Range(Outreach) \cup (Range(AppliedDate) \cup Range(ApplyState)))
  BY <1>9, <1>10, DefaultsPad DEF LaterDefaults
<1> QED BY <1>1, <1>7, <1>8, <1>9, <1>11

\* The cells of a line under its columns.
LEMMA ColumnsRead ==
    ASSUME NEW names, NEW cells, NEW row,
           \A i \in DOMAIN names : Says(names[i], cells[i], row)
    PROVE  /\ {"location", "locations"} \cap Range(names) = {} =>
                  Reads(Columns(names, cells), Range(names), row)
           /\ {"location", "locations"} \cap Range(names) = {"location"} =>
                  Reads(SinglePlace(Columns(names, cells)),
                        (Range(names) \ {"location"}) \cup {"locations"}, row)
           /\ {"location", "locations"} \cap Range(names) = {"locations"} =>
                  Reads(ManyPlaces(Columns(names, cells)), Range(names), row)
<1> DEFINE r == Columns(names, cells)
<1>1. r = [c \in Range(names) |-> r[c]]
  BY DEF Columns
<1>2. ASSUME NEW c \in Range(names) PROVE Says(c, r[c], row)
  <2> DEFINE i == CHOOSE i \in DOMAIN names : names[i] = c
  <2>1. i \in DOMAIN names /\ names[i] = c
    BY DEF Range
  <2>2. r[c] = cells[i]
    BY DEF Columns
  <2> QED BY <2>1, <2>2
<1> HIDE DEF r
<1>3. \A c \in Range(names) \ {"location", "locations"} : Bared(c, r[c]) = row[c]
  BY <1>2 DEF Says
<1>4. ASSUME {"location", "locations"} \cap Range(names) = {}
      PROVE  Reads(r, Range(names), row)
  BY <1>1, <1>3, <1>4 DEF Reads
<1>5. ASSUME {"location", "locations"} \cap Range(names) = {"location"}
      PROVE  Reads(SinglePlace(r), (Range(names) \ {"location"}) \cup {"locations"}, row)
  <2>1. row["locations"] = IF r["location"] = Blank THEN <<>> ELSE <<r["location"]>>
    BY <1>2, <1>5 DEF Says
  <2>2. DOMAIN r = Range(names)
    BY <1>1
  <2> DEFINE head == Located(row["locations"])
             rest == [c \in DOMAIN r \ {"location"} |-> r[c]]
  <2>3. SinglePlace(r) = Padded(head, rest)
    BY <2>1 DEF SinglePlace
  <2>4. /\ DOMAIN head = {"locations"} /\ head["locations"] = row["locations"]
        /\ DOMAIN rest = Range(names) \ {"location"}
        /\ \A c \in Range(names) \ {"location"} : Bared(c, rest[c]) = row[c]
    BY <1>3, <1>5, <2>2 DEF Located
  <2> HIDE DEF head, rest
  <2>5. Bared("locations", row["locations"]) = row["locations"]
    BY DEF Bared
  <2> QED BY <2>3, <2>4, <2>5 DEF Reads, Padded
<1>6. ASSUME {"location", "locations"} \cap Range(names) = {"locations"}
      PROVE  Reads(ManyPlaces(r), Range(names), row)
  <2>1. row["locations"] = DecodeLocations(r["locations"])
    BY <1>2, <1>6 DEF Says
  <2>2. Bared("locations", row["locations"]) = row["locations"]
    BY DEF Bared
  <2> QED BY <1>1, <1>3, <1>6, <2>1, <2>2 DEF ManyPlaces, Reads
<1> QED BY <1>4, <1>5, <1>6 DEF r

LEMMA ReadsOver ==
    ASSUME NEW r, NEW q, NEW S, NEW T, NEW row, Reads(r, S, row), Reads(q, T, row)
    PROVE  Reads(Padded(r, q), S \cup T, row)
<1>1. DOMAIN r = S /\ DOMAIN q = T
  BY DEF Reads
<1> QED BY <1>1 DEF Reads, Padded

\* What a line of a version says of the row.
IsLine(cells, names, row) ==
    /\ \A i \in DOMAIN names : Says(names[i], cells[i], row)
    /\ \A c \in Names \ Range(names) :
          \/ c = "locations" /\ "location" \in Range(names)
          \/ row[c] = Default(c)

LEMMA NamesAre ==
    /\ Names = Range(HEADER_V1) \cup ({"locations"} \cup ((Range(Salary) \cup Range(Fit))
                  \cup (Range(Outreach) \cup (Range(AppliedDate) \cup Range(ApplyState)))))
    /\ Names = Range(HEADER_V2) \cup ({"locations"} \cup (Range(Fit)
                  \cup (Range(Outreach) \cup (Range(AppliedDate) \cup Range(ApplyState)))))
    /\ Names = ((Range(HEADER_V3) \ {"location"}) \cup {"locations"}) \cup (Range(Fit)
                  \cup (Range(Outreach) \cup (Range(AppliedDate) \cup Range(ApplyState))))
    /\ Names = ((Range(HEADER_V4) \ {"location"}) \cup {"locations"})
                  \cup (Range(Outreach) \cup (Range(AppliedDate) \cup Range(ApplyState)))
    /\ Names = Range(HEADER_V5) \cup (Range(Outreach) \cup (Range(AppliedDate) \cup Range(ApplyState)))
    /\ Names = Range(HEADER_V6) \cup (Range(AppliedDate) \cup Range(ApplyState))
    /\ Names = Range(HEADER_V7) \cup Range(ApplyState)
<1>1. /\ Range(HEADER_V2) = Range(HEADER_V1) \cup Range(Salary)
      /\ Range(HEADER_V3) = Range(HEADER_V2) \cup {"location"}
      /\ Range(HEADER_V4) = Range(HEADER_V3) \cup Range(Fit)
      /\ Range(HEADER_V5) = Range(HEADER_V2) \cup {"locations"} \cup Range(Fit)
      /\ Range(HEADER_V6) = Range(HEADER_V5) \cup Range(Outreach)
      /\ Range(HEADER_V7) = Range(HEADER_V6) \cup Range(AppliedDate)
      /\ Names = Range(HEADER_V7) \cup Range(ApplyState)
  BY HeadersAre DEF Sized, Names
<1>2. "location" \notin Range(HEADER_V2) /\ "location" \notin Range(Fit)
  BY PlacesAre, <1>1
<1>3. Names = Range(HEADER_V6) \cup (Range(AppliedDate) \cup Range(ApplyState))
  BY <1>1
<1>4. Names = Range(HEADER_V5) \cup (Range(Outreach) \cup (Range(AppliedDate) \cup Range(ApplyState)))
  BY <1>1, <1>3
<1> DEFINE later == Range(Outreach) \cup (Range(AppliedDate) \cup Range(ApplyState))
<1>5. Names = Range(HEADER_V2) \cup {"locations"} \cup Range(Fit) \cup later
  BY <1>1, <1>4
<1> HIDE DEF later
<1>6. Names = ((Range(HEADER_V4) \ {"location"}) \cup {"locations"}) \cup later
  BY <1>1, <1>2, <1>5
<1>7. Names = ((Range(HEADER_V3) \ {"location"}) \cup {"locations"}) \cup (Range(Fit) \cup later)
  BY <1>1, <1>2, <1>5
<1>8. Names = Range(HEADER_V2) \cup ({"locations"} \cup (Range(Fit) \cup later))
  BY <1>5
<1>9. Names = Range(HEADER_V1) \cup ({"locations"} \cup ((Range(Salary) \cup Range(Fit)) \cup later))
  BY <1>1, <1>5
<1> QED BY <1>1, <1>3, <1>4, <1>6, <1>7, <1>8, <1>9 DEF later

\* Each version's reader finds in a line the row it was written from, but for
\* the quotes of a spreadsheet.
LEMMA VersionsRead ==
    ASSUME NEW cells, NEW row, IsRow(row)
    PROVE  /\ IsLine(cells, HEADER_V1, row) => Bare(RowToAppV1(cells)) = row
           /\ IsLine(cells, HEADER_V2, row) => Bare(RowToAppV2(cells)) = row
           /\ IsLine(cells, HEADER_V3, row) => Bare(RowToAppV3(cells)) = row
           /\ IsLine(cells, HEADER_V4, row) => Bare(RowToAppV4(cells)) = row
           /\ IsLine(cells, HEADER_V5, row) => Bare(RowToAppV5(cells)) = row
           /\ IsLine(cells, HEADER_V6, row) => Bare(RowToAppV6(cells)) = row
           /\ IsLine(cells, HEADER_V7, row) => Bare(RowToAppV7(cells)) = row
<1> DEFINE later == Range(Outreach) \cup (Range(AppliedDate) \cup Range(ApplyState))
<1>1. ASSUME NEW names, IsLine(cells, names, row)
      PROVE  \A i \in DOMAIN names : Says(names[i], cells[i], row)
  BY <1>1 DEF IsLine
<1>2. ASSUME NEW names, IsLine(cells, names, row), NEW r, NEW S, NEW d, NEW T,
             Reads(r, S, row), Defaults(d, T), S \cup T = Names,
             S = Range(names) \/ S = (Range(names) \ {"location"}) \cup {"locations"}
      PROVE  Bare(Padded(r, d)) = row
  <2>1. ASSUME NEW c \in T \ S PROVE row[c] = Default(c)
    <3>1. c \in Names
      BY <1>2
    <3>2. CASE c \notin Range(names)
      <4>1. ~(c = "locations" /\ "location" \in Range(names))
        BY <1>2, <2>1, <3>2, PlacesAre
      <4> QED BY <1>2, <3>1, <3>2, <4>1 DEF IsLine
    <3>3. CASE c \in Range(names)
      BY <1>2, <2>1, <3>1, <3>3, PlacesAre
    <3> QED BY <3>2, <3>3
  <2>2. Reads(Padded(r, d), S \cup T, row)
    BY <1>2, <2>1, ReadsPad
  <2> QED BY <1>2, <2>2, ReadsAll
<1>3. Defaults(LaterDefaults, later)
  BY DefaultsAre
<1> HIDE DEF later
<1>4. IsLine(cells, HEADER_V1, row) => Bare(RowToAppV1(cells)) = row
  <2>1. Defaults(Padded(Seeded(Salary \o Fit), LaterDefaults), (Range(Salary) \cup Range(Fit)) \cup later)
    BY <1>3, DefaultsAre, DefaultsPad
  <2>2. Defaults(Padded(Located(<<>>), Padded(Seeded(Salary \o Fit), LaterDefaults)),
                 {"locations"} \cup ((Range(Salary) \cup Range(Fit)) \cup later))
    BY <2>1, DefaultsAre, DefaultsPad
  <2>3. Names = Range(HEADER_V1) \cup ({"locations"} \cup ((Range(Salary) \cup Range(Fit)) \cup later))
    BY NamesAre DEF later
  <2>4. IsLine(cells, HEADER_V1, row) => Reads(Columns(HEADER_V1, cells), Range(HEADER_V1), row)
    BY <1>1, PlacesAre, ColumnsRead
  <2> QED BY <1>2, <2>2, <2>3, <2>4 DEF RowToAppV1
<1>5. IsLine(cells, HEADER_V2, row) => Bare(RowToAppV2(cells)) = row
  <2>1. Defaults(Padded(Seeded(Fit), LaterDefaults), Range(Fit) \cup later)
    BY <1>3, DefaultsAre, DefaultsPad
  <2>2. Defaults(Padded(Located(<<>>), Padded(Seeded(Fit), LaterDefaults)),
                 {"locations"} \cup (Range(Fit) \cup later))
    BY <2>1, DefaultsAre, DefaultsPad
  <2>3. Names = Range(HEADER_V2) \cup ({"locations"} \cup (Range(Fit) \cup later))
    BY NamesAre DEF later
  <2>4. IsLine(cells, HEADER_V2, row) => Reads(Columns(HEADER_V2, cells), Range(HEADER_V2), row)
    BY <1>1, PlacesAre, ColumnsRead
  <2> QED BY <1>2, <2>2, <2>3, <2>4 DEF RowToAppV2
<1>6. IsLine(cells, HEADER_V3, row) => Bare(RowToAppV3(cells)) = row
  <2>1. Defaults(Padded(Seeded(Fit), LaterDefaults), Range(Fit) \cup later)
    BY <1>3, DefaultsAre, DefaultsPad
  <2>2. Names = ((Range(HEADER_V3) \ {"location"}) \cup {"locations"}) \cup (Range(Fit) \cup later)
    BY NamesAre DEF later
  <2>3. IsLine(cells, HEADER_V3, row) =>
           Reads(SinglePlace(Columns(HEADER_V3, cells)),
                 (Range(HEADER_V3) \ {"location"}) \cup {"locations"}, row)
    BY <1>1, PlacesAre, ColumnsRead
  <2> QED BY <1>2, <2>1, <2>2, <2>3 DEF RowToAppV3
<1>7. IsLine(cells, HEADER_V4, row) => Bare(RowToAppV4(cells)) = row
  <2>1. Names = ((Range(HEADER_V4) \ {"location"}) \cup {"locations"}) \cup later
    BY NamesAre DEF later
  <2>2. IsLine(cells, HEADER_V4, row) =>
           Reads(SinglePlace(Columns(HEADER_V4, cells)),
                 (Range(HEADER_V4) \ {"location"}) \cup {"locations"}, row)
    BY <1>1, PlacesAre, ColumnsRead
  <2> QED BY <1>2, <1>3, <2>1, <2>2 DEF RowToAppV4
<1>8. IsLine(cells, HEADER_V5, row) => Bare(RowToAppV5(cells)) = row
  <2>1. Names = Range(HEADER_V5) \cup later
    BY NamesAre DEF later
  <2>2. IsLine(cells, HEADER_V5, row) =>
           Reads(ManyPlaces(Columns(HEADER_V5, cells)), Range(HEADER_V5), row)
    BY <1>1, PlacesAre, ColumnsRead
  <2> QED BY <1>2, <1>3, <2>1, <2>2 DEF RowToAppV5
<1>9. IsLine(cells, HEADER_V6, row) => Bare(RowToAppV6(cells)) = row
  <2>1. IsLine(cells, HEADER_V6, row) =>
           Reads(ManyPlaces(Columns(HEADER_V6, cells)), Range(HEADER_V6), row)
    BY <1>1, PlacesAre, ColumnsRead
  <2> QED BY <1>2, <2>1, DefaultsAre, NamesAre DEF RowToAppV6
<1>10. IsLine(cells, HEADER_V7, row) => Bare(RowToAppV7(cells)) = row
  <2>1. IsLine(cells, HEADER_V7, row) =>
           Reads(ManyPlaces(Columns(HEADER_V7, cells)), Range(HEADER_V7), row)
    BY <1>1, PlacesAre, ColumnsRead
  <2> QED BY <1>2, <2>1, DefaultsAre, NamesAre DEF RowToAppV7
<1> QED BY <1>4, <1>5, <1>6, <1>7, <1>8, <1>9, <1>10

\* The reader of version 8 takes the three last columns by their places.
LEMMA VersionEightReads ==
    ASSUME NEW cells, NEW row, IsRow(row), IsSeq(cells), Len(cells) >= Len(HEADER_V8),
           IsLine(cells, HEADER_V8, row)
    PROVE  Bare(RowToAppV8(cells)) = row
<1>1. /\ IsSeq(HEADER_V7) /\ Len(HEADER_V7) = 27 /\ IsSeq(ApplyState) /\ Len(ApplyState) = 3
      /\ Len(HEADER_V8) = 30 /\ HEADER_V8 = HEADER_V7 \o ApplyState
  BY HeadersAre, PartsAre DEF Sized, HEADER_V8
<1>2. /\ DOMAIN HEADER_V7 = 1 .. 27 /\ DOMAIN ApplyState = 1 .. 3 /\ DOMAIN HEADER_V8 = 1 .. 30
      /\ \A i \in 1 .. 27 : HEADER_V8[i] = HEADER_V7[i]
      /\ \A i \in 1 .. 3 : HEADER_V8[27 + i] = ApplyState[i]
  <2>1. IsSeq(HEADER_V8)
    BY HeadersAre DEF Sized
  <2>2. DOMAIN HEADER_V7 = 1 .. 27 /\ DOMAIN ApplyState = 1 .. 3 /\ DOMAIN HEADER_V8 = 1 .. 30
    BY <1>1, <2>1, SeqDomain
  <2>3. /\ \A i \in DOMAIN HEADER_V7 : HEADER_V8[i] = HEADER_V7[i]
        /\ \A i \in DOMAIN ApplyState : HEADER_V8[Len(HEADER_V7) + i] = ApplyState[i]
    <3>1. IsSeq(HEADER_V7) /\ IsSeq(ApplyState) /\ Joined(HEADER_V8, HEADER_V7, ApplyState)
      BY <1>1 DEF Joined
    <3> QED BY <3>1, JoinedCells
  <2> QED BY <1>1, <2>2, <2>3
<1> DEFINE tail == SubSeq(cells, 28, 30)
<1>3. \A i \in 1 .. 3 : tail[i] = cells[27 + i]
  BY <1>1 DEF IsSeq
<1>4. \A i \in 1 .. 30 : Says(HEADER_V8[i], cells[i], row)
  BY <1>2 DEF IsLine
<1>5. \A i \in DOMAIN HEADER_V7 : Says(HEADER_V7[i], cells[i], row)
  <2> SUFFICES ASSUME NEW i \in 1 .. 27 PROVE Says(HEADER_V7[i], cells[i], row)
    BY <1>2
  <2>1. i \in 1 .. 30
    OBVIOUS
  <2>2. HEADER_V8[i] = HEADER_V7[i]
    BY <1>2, Zenon
  <2> QED BY <1>4, <2>1, <2>2
<1>6. \A i \in DOMAIN ApplyState : Says(ApplyState[i], tail[i], row)
  <2> SUFFICES ASSUME NEW i \in 1 .. 3 PROVE Says(ApplyState[i], tail[i], row)
    BY <1>2
  <2>1. 27 + i \in 1 .. 30
    OBVIOUS
  <2>2. HEADER_V8[27 + i] = ApplyState[i] /\ tail[i] = cells[27 + i]
    BY <1>2, <1>3, Zenon
  <2>3. Says(HEADER_V8[27 + i], cells[27 + i], row)
    BY <1>4, <2>1
  <2> QED BY <2>2, <2>3
<1>7. RowToAppV8(cells) = Padded(Columns(ApplyState, tail), RowToAppV7(cells))
  BY <1>1 DEF RowToAppV8
<1> HIDE DEF tail
<1>8. Reads(Columns(ApplyState, tail), Range(ApplyState), row)
  <2>1. {"location", "locations"} \cap Range(ApplyState) = {}
    BY PartsAre DEF Sized
  <2> QED BY <1>6, <2>1, ColumnsRead
<1>9. Reads(ManyPlaces(Columns(HEADER_V7, cells)), Range(HEADER_V7), row)
  BY <1>5, PlacesAre, ColumnsRead
<1> DEFINE base == ManyPlaces(Columns(HEADER_V7, cells))
<1>10. RowToAppV8(cells) = Padded(Columns(ApplyState, tail), Padded(base, ApplyStateDefaults))
  BY <1>7 DEF RowToAppV7
<1>11. DOMAIN Columns(ApplyState, tail) = Range(ApplyState) /\ DOMAIN base = Range(HEADER_V7)
       /\ DOMAIN ApplyStateDefaults = Range(ApplyState)
  BY <1>8, <1>9, DefaultsAre DEF Reads, Defaults
<1> HIDE DEF base
<1>12. RowToAppV8(cells) = Padded(Columns(ApplyState, tail), base)
  BY <1>10, <1>11 DEF Padded
<1>13. Reads(RowToAppV8(cells), Range(ApplyState) \cup Range(HEADER_V7), row)
  BY <1>8, <1>9, <1>12, ReadsOver DEF base
<1> QED BY <1>13, NamesAre, ReadsAll

LEMMA RowsRead ==
    ASSUME NEW v \in DOMAIN Headers, NEW cells, NEW row, IsRow(row), IsLineOf(cells, Headers[v], row)
    PROVE  Bare(RowToApp(v, cells)) = row
<1>1. DOMAIN Headers = 1 .. 8
  BY DEF Headers
<1>2. IsLine(cells, Headers[v], row) /\ IsSeq(cells) /\ Len(cells) >= Len(Headers[v])
  BY DEF IsLine, IsLineOf
<1>3. /\ Headers[1] = HEADER_V1 /\ Headers[2] = HEADER_V2 /\ Headers[3] = HEADER_V3
      /\ Headers[4] = HEADER_V4 /\ Headers[5] = HEADER_V5 /\ Headers[6] = HEADER_V6
      /\ Headers[7] = HEADER_V7 /\ Headers[8] = HEADER_V8
  BY DEF Headers
<1>4. CASE v = 1
  <2>1. v # 2 /\ v # 3 /\ v # 4 /\ v # 5 /\ v # 6 /\ v # 7 /\ v # 8
    BY <1>4
  <2>2. RowToApp(v, cells) = RowToAppV1(cells)
    BY <1>4, <2>1, Zenon DEF RowToApp
  <2> QED BY <1>2, <1>3, <1>4, <2>2, VersionsRead
<1>5. CASE v = 2
  <2>1. v # 1 /\ v # 3 /\ v # 4 /\ v # 5 /\ v # 6 /\ v # 7 /\ v # 8
    BY <1>5
  <2>2. RowToApp(v, cells) = RowToAppV2(cells)
    BY <1>5, <2>1, Zenon DEF RowToApp
  <2> QED BY <1>2, <1>3, <1>5, <2>2, VersionsRead
<1>6. CASE v = 3
  <2>1. v # 1 /\ v # 2 /\ v # 4 /\ v # 5 /\ v # 6 /\ v # 7 /\ v # 8
    BY <1>6
  <2>2. RowToApp(v, cells) = RowToAppV3(cells)
    BY <1>6, <2>1, Zenon DEF RowToApp
  <2> QED BY <1>2, <1>3, <1>6, <2>2, VersionsRead
<1>7. CASE v = 4
  <2>1. v # 1 /\ v # 2 /\ v # 3 /\ v # 5 /\ v # 6 /\ v # 7 /\ v # 8
    BY <1>7
  <2>2. RowToApp(v, cells) = RowToAppV4(cells)
    BY <1>7, <2>1, Zenon DEF RowToApp
  <2> QED BY <1>2, <1>3, <1>7, <2>2, VersionsRead
<1>8. CASE v = 5
  <2>1. v # 1 /\ v # 2 /\ v # 3 /\ v # 4 /\ v # 6 /\ v # 7 /\ v # 8
    BY <1>8
  <2>2. RowToApp(v, cells) = RowToAppV5(cells)
    BY <1>8, <2>1, Zenon DEF RowToApp
  <2> QED BY <1>2, <1>3, <1>8, <2>2, VersionsRead
<1>9. CASE v = 6
  <2>1. v # 1 /\ v # 2 /\ v # 3 /\ v # 4 /\ v # 5 /\ v # 7 /\ v # 8
    BY <1>9
  <2>2. RowToApp(v, cells) = RowToAppV6(cells)
    BY <1>9, <2>1, Zenon DEF RowToApp
  <2> QED BY <1>2, <1>3, <1>9, <2>2, VersionsRead
<1>10. CASE v = 7
  <2>1. v # 1 /\ v # 2 /\ v # 3 /\ v # 4 /\ v # 5 /\ v # 6 /\ v # 8
    BY <1>10
  <2>2. RowToApp(v, cells) = RowToAppV7(cells)
    BY <1>10, <2>1, Zenon DEF RowToApp
  <2> QED BY <1>2, <1>3, <1>10, <2>2, VersionsRead
<1>11. CASE v = 8
  <2>1. v # 1 /\ v # 2 /\ v # 3 /\ v # 4 /\ v # 5 /\ v # 6 /\ v # 7
    BY <1>11
  <2>2. RowToApp(v, cells) = RowToAppV8(cells)
    BY <1>11, <2>1, Zenon DEF RowToApp
  <2> QED BY <1>2, <1>3, <1>11, <2>2, VersionEightReads
<1> QED BY <1>1, <1>4, <1>5, <1>6, <1>7, <1>8, <1>9, <1>10, <1>11

-----------------------------------------------------------------------------
(* The places of a row, to their cell and back *)

LEMMA FunctionIsSeq ==
    ASSUME NEW n \in Nat, NEW s, s = [i \in 1 .. n |-> s[i]]
    PROVE  IsSeq(s) /\ Len(s) = n
<1>1. DOMAIN s = 1 .. n /\ \A i \in 1 .. n : s[i] \in Range(s)
  BY DEF Range
<1> HIDE DEF Range
<1>2. s \in [1 .. n -> Range(s)]
  BY <1>1
<1> QED BY <1>1, <1>2 DEF IsSeq

\* A filter that lets everything pass.
LEMMA OnlyAll ==
    ASSUME NEW s, NEW W, IsSeq(s), \A i \in DOMAIN s : s[i] \in W
    PROVE  Only(s, W) = s
<1> DEFINE n == Len(s)
<1>1. n \in Nat /\ DOMAIN s = 1 .. n
  BY SeqDomain
<1> HIDE DEF n
<1>2. {i \in DOMAIN s : s[i] \in W} = 1 .. n
  BY <1>1
<1>3. \A m \in 0 .. n : Cardinality(1 .. m) = m
  BY <1>1, FS_Interval
<1>4. ASSUME NEW i \in 1 .. n PROVE {j \in 1 .. n : j <= i} = 1 .. i /\ i \in 0 .. n
  BY <1>1
<1>5. \A i \in 1 .. n : Cardinality({j \in 1 .. n : j <= i}) = i
  BY <1>3, <1>4
<1>6. \A m \in 1 .. n : Nth(1 .. n, m) = m
  BY <1>5 DEF Nth
<1>7. Cardinality(1 .. n) = n
  BY <1>1, <1>3
<1>8. Only(s, W) = [m \in 1 .. n |-> s[m]]
  BY <1>2, <1>6, <1>7 DEF Only
<1>9. s = [m \in DOMAIN s |-> s[m]]
  BY DEF IsSeq
<1> QED BY <1>1, <1>8, <1>9

\* A list of single entries, put together.
LEMMA FlattenSingles ==
    ASSUME NEW s, IsSeq(s), NEW f, f = [i \in DOMAIN s |-> <<s[i]>>]
    PROVE  FlattenSeq(f) = s
<1> DEFINE n == Len(s)
           Parts(g) == g = [i \in 1 .. n |-> IF i = 1 THEN f[i] ELSE g[i - 1] \o f[i]]
           p == [i \in 1 .. n |-> SubSeq(s, 1, i)]
           g == CHOOSE h : Parts(h)
<1>1. n \in Nat /\ DOMAIN s = 1 .. n /\ s \in Seq(Range(s))
  BY DEF IsSeq
<1>2. f \in Seq(Seq(Range(s))) /\ Len(f) = n /\ \A i \in 1 .. n : f[i] = <<s[i]>>
  BY <1>1
<1>3. CASE n = 0
  BY <1>1, <1>2, <1>3 DEF FlattenSeq
<1>4. CASE n # 0
  <2>1. FlattenSeq(f) = g[n]
    BY <1>2, <1>4 DEF FlattenSeq
  <2>2. ASSUME NEW i \in 1 .. n, i # 1 PROVE SubSeq(s, 1, i - 1) \o <<s[i]>> = SubSeq(s, 1, i)
    BY <1>1, <2>2
  <2>3. SubSeq(s, 1, 1) = <<s[1]>>
    <3>1. /\ SubSeq(s, 1, 1) \in Seq(Range(s)) /\ Len(SubSeq(s, 1, 1)) = 1
          /\ SubSeq(s, 1, 1)[1] = s[1]
      BY <1>1, <1>4
    <3>2. <<s[1]>> \in Seq(Range(s)) /\ Len(<<s[1]>>) = 1 /\ <<s[1]>>[1] = s[1]
      BY <1>1, <1>4
    <3>3. ASSUME NEW a \in Seq(Range(s)), NEW b \in Seq(Range(s)), Len(a) = 1, Len(b) = 1, a[1] = b[1]
          PROVE  a = b
      BY <3>3, SeqEqual
    <3> QED BY <3>1, <3>2, <3>3
  <2>4. SubSeq(s, 1, n) = s
    <3>1. /\ SubSeq(s, 1, n) \in Seq(Range(s)) /\ Len(SubSeq(s, 1, n)) = n
          /\ \A i \in 1 .. n : SubSeq(s, 1, n)[i] = s[i]
      BY <1>1, <1>4
    <3> QED BY <1>1, <3>1, SeqEqual
  <2>5. Parts(p)
    <3>1. \A i \in 1 .. n : p[i] = IF i = 1 THEN f[i] ELSE p[i - 1] \o f[i]
      <4> SUFFICES ASSUME NEW i \in 1 .. n PROVE p[i] = IF i = 1 THEN f[i] ELSE p[i - 1] \o f[i]
        OBVIOUS
      <4>1. CASE i = 1
        BY <1>2, <2>3, <4>1
      <4>2. CASE i # 1
        <5>1. i - 1 \in 1 .. n
          BY <1>1, <4>2
        <5> QED BY <1>2, <2>2, <4>2, <5>1
      <4> QED BY <4>1, <4>2
    <3> QED BY <3>1
  <2>6. Parts(g)
    BY <2>5
  <2> HIDE DEF g
  <2>7. \A i \in 1 .. n : g[i] = IF i = 1 THEN f[i] ELSE g[i - 1] \o f[i]
    BY <2>6
  <2> DEFINE wrong == {i \in 1 .. n : g[i] # SubSeq(s, 1, i)}
  <2>8. wrong = {}
    <3> SUFFICES ASSUME wrong # {} PROVE FALSE
      OBVIOUS
    <3>1. PICK i \in wrong : \A j \in wrong : i <= j
      <4>1. wrong \subseteq Nat
        BY <1>1
      <4> HIDE DEF wrong
      <4> QED BY <4>1, Least
    <3>2. CASE i = 1
      BY <1>1, <1>2, <2>3, <2>7, <3>1, <3>2
    <3>3. CASE i # 1
      <4>1. i - 1 \in 1 .. n /\ i - 1 \notin wrong
        BY <1>1, <3>1, <3>3
      <4>2. g[i - 1] = SubSeq(s, 1, i - 1)
        BY <4>1
      <4> QED BY <1>2, <2>2, <2>7, <3>1, <3>3, <4>2
    <3> QED BY <3>2, <3>3
  <2>9. g[n] = SubSeq(s, 1, n)
    BY <1>1, <1>4, <2>8
  <2> QED BY <2>1, <2>4, <2>9
<1> QED BY <1>3, <1>4

LEMMA DeeperKeeps ==
    ASSUME NEW places, ArePlaces(places) PROVE Deeper(places) = places
<1> DEFINE f == [i \in DOMAIN places |->
                   IF LooksLikeEncodedArray(places[i]) THEN DecodeLocationsAt(places[i])
                   ELSE <<places[i]>>]
<1>1. \A i \in DOMAIN places : ~LooksLikeEncodedArray(places[i])
  BY DEF ArePlaces, LooksLikeEncodedArray
<1>2. f = [i \in DOMAIN places |-> <<places[i]>>]
  BY <1>1
<1>3. IsSeq(places)
  BY DEF ArePlaces
<1> HIDE DEF f
<1>4. FlattenSeq(f) = places
  BY <1>2, <1>3, FlattenSingles
<1> QED BY <1>4 DEF Deeper, f

\* Places come back from their cell as they went in.
LEMMA PlacesReturn ==
    ASSUME NEW places, ArePlaces(places)
    PROVE  DecodeLocations(EncodeLocations(places)) = places
<1>1. EncodeLocations(places) = Array(places)
  <2>1. IsSeq(places) /\ \A i \in DOMAIN places : places[i] \in Range(places) \ {Blank}
    BY DEF ArePlaces, Range
  <2> QED BY <2>1, OnlyAll DEF EncodeLocations
<1>2. DecodeLocationsAt(Array(places)) = places
  <2>1. Array(places).kind = "array" /\ Array(places).of = places /\ Blank.kind = "text"
    BY DEF Array, Blank, Text
  <2>2. Array(places) # Blank
    BY <2>1
  <2> QED BY <2>1, <2>2 DEF DecodeLocationsAt, UnwrapCsvQuoted
<1> QED BY <1>1, <1>2, DeeperKeeps DEF DecodeLocations

\* A spreadsheet's quotes are taken off again.
LEMMA QuotesGo ==
    ASSUME NEW cell, cell.kind = "array"
    PROVE  DecodeLocations(Quoted(cell)) = DecodeLocations(cell)
<1>1. Quoted(cell).kind = "quoted" /\ Quoted(cell).of = cell
  BY DEF Quoted
<1>2. UnwrapCsvQuoted(Quoted(cell)) = UnwrapCsvQuoted(cell)
  BY <1>1 DEF UnwrapCsvQuoted
<1>3. DecodeLocationsAt(Quoted(cell)) = DecodeLocationsAt(cell)
  BY <1>2 DEF DecodeLocationsAt
<1> QED BY <1>3 DEF DecodeLocations

-----------------------------------------------------------------------------
(* The file *)

AreRows(rows) == IsSeq(rows) /\ \A i \in DOMAIN rows : IsRow(rows[i])

\* The file has the rows, and a temporary file is one of rows, but for quotes.
FileInv == IsFileOf(disk, table) /\ AreRows(Bares(tmp))

\* A reader finds the rows of a file.
LEMMA FileReads ==
    ASSUME NEW file, NEW rows, IsFileOf(file, rows)
    PROVE  Readable(file) /\ Bares(Load(file)) = rows
<1>1. CASE file.header = <<>>
  <2>1. rows = <<>>
    <3>1. \A header \in Range(Headers) : Len(header) > 0
      BY HeadersSound
    <3> QED BY <1>1, <3>1 DEF IsFileOf
  <2>2. Load(file) = <<>>
    BY <1>1 DEF Load
  <2>3. Bares(<<>>) = <<>>
    BY DEF Bares
  <2> QED BY <1>1, <2>1, <2>2, <2>3 DEF Readable
<1>2. CASE file.header # <<>>
  <2>1. /\ file.header \in Range(Headers)
        /\ \A i \in DOMAIN rows : IsRow(rows[i]) /\ IsLineOf(file.lines[i], file.header, rows[i])
        /\ IsSeq(rows) /\ IsSeq(file.lines) /\ Len(rows) = Len(file.lines)
    BY <1>2 DEF IsFileOf
  <2>2. DOMAIN rows = DOMAIN file.lines /\ rows = [i \in DOMAIN rows |-> rows[i]]
    BY <2>1, SeqDomain DEF IsSeq
  <2> DEFINE v == CHOOSE v \in Versions(file) : TRUE
  <2>3. v \in DOMAIN Headers /\ Headers[v] = file.header /\ Versions(file) # {}
    BY <2>1 DEF Versions, Range
  <2>4. Load(file) = [i \in DOMAIN file.lines |-> RowToApp(v, file.lines[i])]
    BY <1>2 DEF Load
  <2> HIDE DEF v
  <2>5. \A i \in DOMAIN rows : Bare(RowToApp(v, file.lines[i])) = rows[i]
    BY <2>1, <2>3, RowsRead
  <2>6. Bares(Load(file)) = rows
    BY <2>2, <2>4, <2>5 DEF Bares
  <2>7. \A i \in DOMAIN file.lines : Len(file.lines[i]) >= Len(file.header)
    BY <2>1, <2>2 DEF IsLineOf
  <2> QED BY <2>3, <2>6, <2>7 DEF Readable
<1> QED BY <1>1, <1>2

\* The line written for a row, which keeps the quotes the row came with.
LEMMA LineWritten ==
    ASSUME NEW row, IsRow(Bare(row)) PROVE IsLineOf(RowFor(row), HEADER_V8, Bare(row))
<1> DEFINE line == RowFor(row)
<1>1. IsSeq(HEADER_V8) /\ Len(HEADER_V8) = 30 /\ DOMAIN HEADER_V8 = 1 .. 30
  BY HeadersAre, SeqDomain DEF Sized
<1>2. /\ line = [i \in 1 .. 30 |-> line[i]]
      /\ \A i \in 1 .. 30 : line[i] = IF HEADER_V8[i] = "locations"
                                      THEN EncodeLocations(row["locations"]) ELSE row[HEADER_V8[i]]
  BY <1>1 DEF RowFor
<1> HIDE DEF line
<1>3. IsSeq(line) /\ Len(line) = 30
  BY <1>2, FunctionIsSeq
<1>4. /\ DOMAIN row = Names /\ \A c \in Names : Bare(row)[c] = Bared(c, row[c])
      /\ ArePlaces(Bare(row)["locations"])
  <2>1. DOMAIN Bare(row) = Names /\ ArePlaces(Bare(row)["locations"])
    BY DEF IsRow
  <2> QED BY <2>1 DEF Bare
<1>5. /\ \A i \in 1 .. 30 : HEADER_V8[i] \in Names /\ HEADER_V8[i] # "location"
      /\ "locations" \in Names
  <2>1. \A i \in 1 .. 30 : HEADER_V8[i] \in Names
    BY <1>1 DEF Names, Range
  <2> QED BY <2>1, PlacesAre
<1>6. Bare(row)["locations"] = row["locations"]
  BY <1>4, <1>5 DEF Bared
<1>7. DecodeLocations(EncodeLocations(row["locations"])) = row["locations"]
  BY <1>4, <1>6, PlacesReturn
<1>8. \A i \in 1 .. 30 : Says(HEADER_V8[i], line[i], Bare(row))
  BY <1>2, <1>4, <1>5, <1>6, <1>7 DEF Says
<1> QED BY <1>1, <1>3, <1>8 DEF IsLineOf, Names, line

LEMMA SavedFile ==
    ASSUME NEW rows, AreRows(Bares(rows)) PROVE IsFileOf(Saved(rows), Bares(rows))
<1> DEFINE bares == Bares(rows)
           lines == [i \in DOMAIN rows |-> RowFor(rows[i])]
<1>1. /\ IsSeq(bares) /\ DOMAIN bares = 1 .. Len(bares) /\ Len(bares) \in Nat
      /\ \A i \in DOMAIN bares : IsRow(bares[i])
  BY SeqDomain DEF AreRows
<1>2. DOMAIN rows = DOMAIN bares /\ \A i \in DOMAIN rows : bares[i] = Bare(rows[i])
  BY DEF Bares
<1> HIDE DEF bares
<1>3. Saved(rows) = [header |-> HEADER_V8, lines |-> lines]
  BY DEF Saved
<1>4. /\ lines = [i \in 1 .. Len(bares) |-> lines[i]]
      /\ \A i \in DOMAIN rows : lines[i] = RowFor(rows[i])
  BY <1>1, <1>2
<1> HIDE DEF lines
<1>5. IsSeq(lines) /\ Len(lines) = Len(bares)
  BY <1>1, <1>4, FunctionIsSeq
<1>6. \A i \in DOMAIN bares : IsLineOf(lines[i], HEADER_V8, bares[i])
  BY <1>1, <1>2, <1>4, LineWritten
<1>7. HEADER_V8 \in Range(Headers)
  <2>1. 8 \in DOMAIN Headers /\ Headers[8] = HEADER_V8
    BY DEF Headers
  <2> QED BY <2>1 DEF Range
<1>8. Saved(rows).header = HEADER_V8 /\ Saved(rows).lines = lines
  BY <1>3
<1> QED BY <1>1, <1>3, <1>5, <1>6, <1>7, <1>8 DEF IsFileOf, bares

\* A cell that a spreadsheet puts in quotes says what it said.
LEMMA QuotedSays ==
    ASSUME NEW name, NEW cell, NEW row, HoldsQuotes(name, cell), Says(name, cell, row)
    PROVE  Says(name, Quoted(cell), row)
<1>1. CASE name = "locations" /\ cell.kind = "array"
  BY <1>1, QuotesGo DEF Says
<1>2. CASE name \notin {"location", "locations"} /\ cell \in WithQuotes
  <2>1. UnwrapCsvQuoted(cell) = cell
    BY <1>2, WithQuotesAssumption DEF UnwrapCsvQuoted
  <2>2. Quoted(cell).kind = "quoted" /\ Quoted(cell).of = cell
    BY DEF Quoted
  <2>3. UnwrapCsvQuoted(Quoted(cell)) = cell
    BY <2>2 DEF UnwrapCsvQuoted
  <2> QED BY <1>2, <2>1, <2>3 DEF Says, Bared
<1> QED BY <1>1, <1>2 DEF HoldsQuotes

\* A spreadsheet that quotes cells leaves the file one of the same rows.
LEMMA SheetKeepsFile ==
    ASSUME IsFileOf(disk, table), Sheet PROVE IsFileOf(disk', table)
<1> DEFINE lines == [i \in DOMAIN disk.lines |-> SheetLine(disk.lines[i])]
<1>1. /\ IsSeq(disk.lines) /\ IsSeq(table) /\ Len(disk.lines) = Len(table)
      /\ disk = [header |-> disk.header, lines |-> disk.lines]
      /\ \A i \in DOMAIN table : IsRow(table[i])
  BY DEF IsFileOf
<1>2. DOMAIN disk.lines = 1 .. Len(table) /\ DOMAIN table = 1 .. Len(table) /\ Len(table) \in Nat
  BY <1>1, SeqDomain
<1>3. disk' = [disk EXCEPT !.lines = lines]
  BY DEF Sheet
<1>4. /\ lines = [i \in 1 .. Len(table) |-> lines[i]]
      /\ \A i \in DOMAIN table : lines[i] = SheetLine(disk.lines[i])
  BY <1>2
<1> HIDE DEF lines
<1>5. IsSeq(lines) /\ Len(lines) = Len(table)
  BY <1>2, <1>4, FunctionIsSeq
<1>6. disk'.header = disk.header /\ disk'.lines = lines /\ disk' = [header |-> disk.header, lines |-> lines]
  BY <1>1, <1>3
<1>7. CASE disk.header = <<>> /\ table = <<>>
  BY <1>1, <1>5, <1>6, <1>7 DEF IsFileOf
<1>8. CASE disk.header \in Range(Headers)
           /\ \A i \in DOMAIN table : IsLineOf(disk.lines[i], disk.header, table[i])
  <2>1. ASSUME NEW i \in DOMAIN table PROVE IsLineOf(lines[i], disk.header, table[i])
    <3> DEFINE cells == disk.lines[i]
               new == SheetLine(cells)
    <3>1. IsLineOf(cells, disk.header, table[i]) /\ lines[i] = new
      BY <1>4, <1>8
    <3>2. /\ IsSeq(cells) /\ Len(cells) >= Len(disk.header)
          /\ \A k \in DOMAIN disk.header : Says(disk.header[k], cells[k], table[i])
      BY <3>1 DEF IsLineOf
    <3> HIDE DEF cells
    <3>3. DOMAIN cells = 1 .. Len(cells) /\ Len(cells) \in Nat
      BY <3>2, SeqDomain
    <3>4. /\ new = [k \in 1 .. Len(cells) |-> new[k]]
          /\ \A k \in 1 .. Len(cells) :
                new[k] = IF k \in DOMAIN disk.header /\ HoldsQuotes(disk.header[k], cells[k])
                         THEN Quoted(cells[k]) ELSE cells[k]
      BY <3>3 DEF SheetLine
    <3> HIDE DEF new
    <3>5. IsSeq(new) /\ Len(new) = Len(cells)
      BY <3>3, <3>4, FunctionIsSeq
    <3>6. DOMAIN disk.header \subseteq 1 .. Len(cells)
      <4>1. IsSeq(disk.header)
        BY <1>8, HeadersSound
      <4>2. DOMAIN disk.header = 1 .. Len(disk.header) /\ Len(disk.header) \in Nat
        BY <4>1, SeqDomain
      <4> QED BY <3>2, <3>3, <4>2
    <3>7. \A k \in DOMAIN disk.header : Says(disk.header[k], new[k], table[i])
      BY <3>2, <3>4, <3>6, QuotedSays
    <3> QED BY <3>1, <3>2, <3>5, <3>7 DEF IsLineOf
  <2> QED BY <1>1, <1>5, <1>6, <1>8, <2>1 DEF IsFileOf
<1> QED BY <1>7, <1>8 DEF IsFileOf

LEMMA NewRowIsRow == IsRow(NewRow)
<1> DEFINE mine == [key |-> Text("new"), status |-> Text("Inbox"), locations |-> <<Text("US")>>]
           early == Posting \o Documents \o Salary \o Stamps \o Fit
<1>1. DOMAIN mine = {"key", "status", "locations"} /\ mine["locations"] = <<Text("US")>>
  OBVIOUS
<1>2. Range(early) = Range(Posting) \cup Range(Documents) \cup Range(Salary) \cup Range(Stamps)
                     \cup Range(Fit)
  <2>1. /\ IsSeq(Posting \o Documents)
        /\ Range(Posting \o Documents) = Range(Posting) \cup Range(Documents)
    BY PartsAre, JoinDoes DEF Sized
  <2>2. /\ IsSeq(Posting \o Documents \o Salary)
        /\ Range(Posting \o Documents \o Salary) =
              Range(Posting) \cup Range(Documents) \cup Range(Salary)
    BY <2>1, PartsAre, JoinDoes DEF Sized
  <2>3. /\ IsSeq(Posting \o Documents \o Salary \o Stamps)
        /\ Range(Posting \o Documents \o Salary \o Stamps) =
              Range(Posting) \cup Range(Documents) \cup Range(Salary) \cup Range(Stamps)
    BY <2>2, PartsAre, JoinDoes DEF Sized
  <2> QED BY <2>3, PartsAre, JoinDoes DEF Sized
<1> HIDE DEF mine, early
<1>3. /\ NewRow = Padded(mine, Padded(Seeded(early), LaterDefaults))
      /\ DOMAIN Seeded(early) = Range(early)
      /\ DOMAIN LaterDefaults = Range(Outreach) \cup (Range(AppliedDate) \cup Range(ApplyState))
  BY DefaultsAre DEF NewRow, mine, early, Seeded, Defaults
<1>4. "key" \in Range(Posting)
  BY PartsAre DEF Sized
<1>5. DOMAIN mine \cup (DOMAIN Seeded(early) \cup DOMAIN LaterDefaults) = Names
  <2>1. Range(HEADER_V1) = Range(Posting) \cup {"status"} \cup Range(Documents) \cup Range(Stamps)
    BY HeadersAre DEF Sized
  <2>2. Names = Range(HEADER_V1) \cup ({"locations"} \cup ((Range(Salary) \cup Range(Fit))
                   \cup (Range(Outreach) \cup (Range(AppliedDate) \cup Range(ApplyState)))))
    BY NamesAre
  <2> QED BY <1>1, <1>2, <1>3, <1>4, <2>1, <2>2
<1>6. NewRow = [c \in Names |-> NewRow[c]]
  <2>1. DOMAIN Padded(Seeded(early), LaterDefaults) = DOMAIN Seeded(early) \cup DOMAIN LaterDefaults
    BY DEF Padded
  <2> QED BY <1>3, <1>5, <2>1 DEF Padded
<1>7. NewRow["locations"] = <<Text("US")>>
  BY <1>1, <1>3 DEF Padded
<1>8. ArePlaces(<<Text("US")>>)
  <2>1. Text("US").kind = "text" /\ Text("US") # Blank
    BY DEF Text, Blank
  <2>2. IsSeq(<<Text("US")>>) /\ DOMAIN <<Text("US")>> = {1} /\ <<Text("US")>>[1] = Text("US")
    BY DEF IsSeq, Range
  <2> QED BY <2>1, <2>2 DEF ArePlaces
<1> QED BY <1>6, <1>7, <1>8 DEF IsRow

LEMMA NewRowBare == IsRow(Bare(NewRow))
<1>1. DOMAIN NewRow = Names /\ ArePlaces(NewRow["locations"]) /\ "locations" \in Names
  BY NewRowIsRow, PlacesAre DEF IsRow
<1>2. Bare(NewRow)["locations"] = NewRow["locations"]
  BY <1>1 DEF Bare, Bared
<1>3. Bare(NewRow) = [c \in Names |-> Bare(NewRow)[c]]
  BY <1>1 DEF Bare
<1> QED BY <1>1, <1>2, <1>3 DEF IsRow

\* An edit sets a column, whatever the others have around them.
LEMMA EditedRowIsRow ==
    ASSUME NEW row, IsRow(Bare(row)), NEW e \in Edits
    PROVE  IsRow(Bare([row EXCEPT ![e[1]] = e[2]]))
<1> DEFINE new == [row EXCEPT ![e[1]] = e[2]]
<1>1. DOMAIN Bare(row) = Names /\ ArePlaces(Bare(row)["locations"])
  BY DEF IsRow
<1>2. DOMAIN row = Names /\ "locations" \in Names
  BY <1>1, PlacesAre DEF Bare
<1>3. Bare(row)["locations"] = row["locations"]
  BY <1>2 DEF Bare, Bared
<1>4. DOMAIN new = Names /\ new["locations"] = IF e[1] = "locations" THEN e[2] ELSE row["locations"]
  BY <1>2
<1>5. ArePlaces(new["locations"])
  BY <1>1, <1>3, <1>4, EditsAssumption
<1> HIDE DEF new
<1>6. Bare(new)["locations"] = new["locations"]
  BY <1>2, <1>4 DEF Bare, Bared
<1>7. Bare(new) = [c \in Names |-> Bare(new)[c]]
  BY <1>4 DEF Bare
<1> QED BY <1>5, <1>6, <1>7 DEF IsRow, new

LEMMA WriteTmpKeeps ==
    ASSUME FileInv, WriteTmp PROVE AreRows(Bares(tmp'))
<1> DEFINE rows == Load(disk)
<1>1. Bares(rows) = table /\ AreRows(table)
  BY FileReads DEF FileInv, AreRows, IsFileOf
<1>2. IsSeq(table) /\ DOMAIN table = 1 .. Len(table) /\ Len(table) \in Nat
      /\ \A i \in DOMAIN table : IsRow(table[i])
  BY <1>1, SeqDomain DEF AreRows
<1>3. DOMAIN rows = 1 .. Len(table) /\ \A i \in 1 .. Len(table) : IsRow(Bare(rows[i]))
  <2>1. DOMAIN Bares(rows) = DOMAIN rows /\ \A i \in DOMAIN rows : Bares(rows)[i] = Bare(rows[i])
    BY DEF Bares
  <2> QED BY <1>1, <1>2, <2>1
<1>4. rows = [i \in 1 .. Len(table) |-> rows[i]]
  <2>1. CASE disk.header = <<>>
    <3>1. rows = <<>>
      BY <2>1 DEF Load
    <3> QED BY <1>3, <3>1
  <2>2. CASE disk.header # <<>>
    <3>1. rows = [i \in DOMAIN disk.lines |-> rows[i]]
      BY <2>2 DEF Load
    <3> HIDE DEF rows
    <3> QED BY <1>3, <3>1
  <2> QED BY <2>1, <2>2
<1> HIDE DEF rows
<1>5. ASSUME NEW n \in Nat, NEW t, t = [k \in 1 .. n |-> t[k]], \A k \in 1 .. n : IsRow(Bare(t[k]))
      PROVE  AreRows(Bares(t))
  <2>1. Bares(t) = [k \in 1 .. n |-> Bares(t)[k]] /\ \A k \in 1 .. n : Bares(t)[k] = Bare(t[k])
    BY <1>5 DEF Bares
  <2>2. IsSeq(Bares(t)) /\ Len(Bares(t)) = n
    BY <1>5, <2>1, FunctionIsSeq
  <2> QED BY <1>5, <2>1, <2>2, SeqDomain DEF AreRows
<1>6. ASSUME NEW i \in DOMAIN rows, NEW e \in Edits, tmp' = [rows EXCEPT ![i][e[1]] = e[2]]
      PROVE  AreRows(Bares(tmp'))
  <2>1. /\ tmp' = [k \in 1 .. Len(table) |-> tmp'[k]]
        /\ \A k \in 1 .. Len(table) :
              tmp'[k] = IF k = i THEN [rows[i] EXCEPT ![e[1]] = e[2]] ELSE rows[k]
    BY <1>3, <1>6
  <2>2. \A k \in 1 .. Len(table) : IsRow(Bare(tmp'[k]))
    BY <1>3, <2>1, EditedRowIsRow
  <2> QED BY <1>2, <1>5, <2>1, <2>2
<1>7. ASSUME tmp' = Append(rows, NewRow) PROVE AreRows(Bares(tmp'))
  <2> DEFINE n == Len(table) + 1
  <2>1. /\ tmp' = [k \in 1 .. n |-> tmp'[k]]
        /\ \A k \in 1 .. n : tmp'[k] = IF k = n THEN NewRow ELSE rows[k]
        /\ n \in Nat
    <3>1. IsSeq(rows) /\ Len(rows) = Len(table)
      BY <1>2, <1>4, FunctionIsSeq
    <3>2. rows \in Seq(Range(rows) \cup {NewRow}) /\ NewRow \in Range(rows) \cup {NewRow}
      BY <3>1 DEF IsSeq
    <3> HIDE DEF IsSeq
    <3>3. /\ tmp' \in Seq(Range(rows) \cup {NewRow})
          /\ Len(tmp') = n
      BY <1>7, <3>1, <3>2, AppendProperties
    <3>4. \A k \in 1 .. n : tmp'[k] = IF k = n THEN NewRow ELSE rows[k]
      BY <1>2, <1>7, <3>1, <3>2, AppendProperties
    <3> QED BY <1>2, <3>3, <3>4
  <2>2. \A k \in 1 .. n : IsRow(Bare(tmp'[k]))
    BY <1>2, <1>3, <2>1, NewRowBare
  <2> HIDE DEF n
  <2> QED BY <1>5, <2>1, <2>2
<1> QED BY <1>6, <1>7 DEF WriteTmp, rows

LEMMA EmptyIsRows == AreRows(Bares(<<>>))
<1>1. Bares(<<>>) = <<>>
  BY DEF Bares
<1>2. AreRows(<<>>)
  BY DEF AreRows, IsSeq, Range
<1> QED BY <1>1, <1>2

THEOREM FileInitially == Init => FileInv
BY OldFilesAssumption, EmptyIsRows DEF Init, FileInv, NoTmp

THEOREM FileStepwise == FileInv /\ [Next]_vars => FileInv'
<1> SUFFICES ASSUME FileInv, [Next]_vars PROVE FileInv'
  OBVIOUS
<1>1. CASE WriteTmp
  BY <1>1, WriteTmpKeeps DEF FileInv, WriteTmp
<1>2. CASE Rename
  BY <1>2, SavedFile, EmptyIsRows DEF FileInv, Rename, NoTmp
<1>3. CASE CrashSaving
  BY <1>3, EmptyIsRows DEF FileInv, CrashSaving, NoTmp
<1>4. CASE Sheet
  BY <1>4, SheetKeepsFile DEF FileInv, Sheet
<1>5. CASE UNCHANGED <<disk, table, tmp>>
  BY <1>5 DEF FileInv
<1>6. ASSUME NEW b \in Boards, Command(b) \/ Server(b) PROVE UNCHANGED <<disk, table, tmp>>
  BY <1>6 DEF Command, FindLock, Probe, Listen, WriteLock, Quit, CrashBoard, Server, Fetch,
              Fetched, FetchFails, CacheExpires, ShowPage, OpenForm, fileVars
<1>7. ASSUME NEW q \in Requests, Rate(q) \/ \E b \in Boards : Send(q, b)
      PROVE  UNCHANGED <<disk, table, tmp>>
  BY <1>7 DEF Rate, FromCache, ReadRatings, WriteRatings, Send, fileVars
<1>8. CASE BackUp \/ PushAnswer \/ UNCHANGED vars
  BY <1>5, <1>8 DEF BackUp, PushAnswer, vars, fileVars
<1> QED BY <1>1, <1>2, <1>3, <1>4, <1>5, <1>6, <1>7, <1>8 DEF Next, File

\* A reader finds the rows last written, their places with no quotes and the
\* other columns but for quotes, whichever version of the file the commands
\* began with, however often a spreadsheet that quotes arrays and texts, or a
\* save cut short, came between (RowsKept).
THEOREM RowsStay == Spec => []RowsKept
<1>1. FileInv => RowsKept
  BY FileReads DEF FileInv, RowsKept
<1>2. Spec => []FileInv
  BY FileInitially, FileStepwise, PTL DEF Spec
<1> QED BY <1>1, <1>2, PTL
=============================================================================
