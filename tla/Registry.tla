------------------------------ MODULE Registry ------------------------------
(***************************************************************************)
(* The registry of a profile on its disk and the board that shows it.      *)
(* Commands load, change and save applications.tsv while its owner opens   *)
(* it in a spreadsheet and the board reads it; the board command starts at *)
(* most one server per profile through a lock file, and the server writes  *)
(* the owner's ratings of the answer bank into ratings.json.               *)
(***************************************************************************)
EXTENDS TsvSchema

CONSTANTS
    OldFiles,      \* the files an engine of this or an earlier version left
    OldTable,      \* such a file -> the rows that were written to it
    Edits,         \* <<column, value>>: what a command sets in a row
    MaxEdits,      \* bound: rows changed or added
    WithQuotes,    \* the texts that hold quotation marks
    Boards,        \* processes of the board command
    Requests,      \* ratings the owner sends: bound
    Answers,       \* answers the bank can hold
    Banked,        \* those it holds at the start, each with one local copy
    MaxCopies,     \* bound: local copies of an answer
    Sent           \* what the owner sends as a rating; 0 clears one

\* A file an earlier engine left has the rows it wrote, cell by cell.
ASSUME OldFilesAssumption == \A f \in OldFiles : IsFileOf(f, OldTable[f])

\* Commands set columns the file has, and the places to a list of texts.
ASSUME EditsAssumption ==
    \A e \in Edits : e[1] \in Names /\ (e[1] = "locations" => ArePlaces(e[2]))

ASSUME WithQuotesAssumption == \A t \in WithQuotes : t.kind = "text"

ASSUME MaxCopiesAssumption == MaxCopies \in Nat

VARIABLES
    disk,          \* applications.tsv
    tmp,           \* the rows of the temporary file a command has written
    table,         \* history: the rows as the commands meant them
    edits,
    lock,          \* the board whose lock file stands, or NoBoard
    board,         \* board -> [pc, seen]
    bank,          \* board -> [cache, fetch]: the ids it holds, the pages it fetches
    stored,        \* [pages, copies, pushing]: answers with a page, how many local
                   \* copies each has, those a push has copied and not yet pushed
    request,       \* request -> [pc, board, id, stars, read]
    ratings,       \* ratings.json: the ids rated, in the order of the file
    given,         \* history: id -> the stars it was last given
    overlapped,    \* history: two boards were up at once
    page           \* the registry page the owner has open, and the forms opened from it

fileVars == <<disk, tmp, table, edits>>
lockVars == <<lock, board, overlapped>>
rateVars == <<bank, request, ratings, given>>
vars == <<fileVars, lockVars, rateVars, stored, page>>

NoBoard == "no board"
NoTmp == <<>>
PostApplyStatuses == {Text(t) : t \in {"Applied", "Interview", "Offer", "Rejected", "No Response", "Closed"}}
None == {<<"none", NoBoard, 0>>}

\* The ids of an answer: of its page in Notion, and of the local copies that
\* the pushes of it wrote; all of them stand under one question.
PageId(a) == <<"page", a, 0>>
CopyIds(a) == {<<"local", a, n>> : n \in 1 .. MaxCopies}
BankIds == ({"page"} \X Answers \X {0}) \cup ({"local"} \X Answers \X (1 .. MaxCopies))

Up == {b \in Boards : board[b].pc \in {"up", "locked"}}

Init ==
    /\ \E f \in OldFiles : disk = f /\ table = OldTable[f]
    /\ tmp = NoTmp /\ edits = 0
    /\ lock = NoBoard /\ overlapped = FALSE
    /\ board = [b \in Boards |-> [pc |-> "off", seen |-> NoBoard]]
    /\ bank = [b \in Boards |-> [cache |-> None, fetch |-> None]]
    /\ stored = [pages |-> Banked, pushing |-> {},
                 copies |-> [a \in Answers |-> IF a \in Banked THEN 1 ELSE 0]]
    /\ request = [q \in Requests |-> [pc |-> "new"]]
    /\ ratings = <<>>
    /\ given = [id \in BankIds |-> 0]
    /\ page = [todo |-> {}, responses |-> {}, opened |-> {}]

-----------------------------------------------------------------------------
(* applications.tsv: load, save, appendNew; the spreadsheet *)

\* A row as a scan adds it.
NewRow ==
    Padded([key |-> Text("new"), status |-> Text("Inbox"), locations |-> <<Text("US")>>],
           Padded(Seeded(Posting \o Documents \o Salary \o Stamps \o Fit), LaterDefaults))

Bares(rows) == [i \in DOMAIN rows |-> Bare(rows[i])]

\* A command writes the whole file next to it, then puts it in its place.
WriteTmp ==
    /\ tmp = NoTmp /\ edits < MaxEdits /\ Readable(disk)
    /\ \/ \E i \in DOMAIN Load(disk), e \in Edits :
            tmp' = [Load(disk) EXCEPT ![i][e[1]] = e[2]]
       \/ tmp' = Append(Load(disk), NewRow)
    /\ edits' = edits + 1
    /\ UNCHANGED <<disk, table, lockVars, rateVars, stored, page>>

Rename ==
    /\ tmp # NoTmp
    /\ disk' = Saved(tmp) /\ table' = Bares(tmp) /\ tmp' = NoTmp
    /\ UNCHANGED <<edits, lockVars, rateVars, stored, page>>

CrashSaving ==
    /\ tmp # NoTmp /\ tmp' = NoTmp
    /\ UNCHANGED <<disk, table, edits, lockVars, rateVars, stored, page>>

\* A spreadsheet saves the file: it quotes every cell that holds quotation
\* marks, an array of places or a text (a place's name holds none).
HoldsQuotes(name, cell) ==
    \/ name = "locations" /\ cell.kind = "array"
    \/ name \notin {"location", "locations"} /\ cell \in WithQuotes

SheetLine(cells) ==
    [k \in DOMAIN cells |->
        IF k \in DOMAIN disk.header /\ HoldsQuotes(disk.header[k], cells[k])
        THEN Quoted(cells[k]) ELSE cells[k]]

Sheet ==
    /\ disk' = [disk EXCEPT !.lines = [i \in DOMAIN @ |-> SheetLine(@[i])]]
    /\ UNCHANGED <<tmp, table, edits, lockVars, rateVars, stored, page>>

-----------------------------------------------------------------------------
(* The board command and its lock *)

FindLock(b) ==
    /\ board[b].pc = "off"
    /\ board' = [board EXCEPT ![b] =
            [pc |-> IF lock = NoBoard THEN "starting" ELSE "probing", seen |-> lock]]
    /\ UNCHANGED <<fileVars, lock, overlapped, rateVars, stored, page>>

\* A board that answers in time is reused; otherwise the lock file, whoever
\* wrote it by then, is removed.
Probe(b) ==
    /\ board[b].pc = "probing"
    /\ \E late \in BOOLEAN :
        IF board[b].seen \in Up /\ ~late
        THEN board' = [board EXCEPT ![b].pc = "gone"] /\ UNCHANGED lock
        ELSE board' = [board EXCEPT ![b].pc = "starting"] /\ lock' = NoBoard
    /\ UNCHANGED <<fileVars, overlapped, rateVars, stored, page>>

Listen(b) ==
    /\ board[b].pc = "starting"
    /\ board' = [board EXCEPT ![b].pc = "up"]
    /\ overlapped' = (overlapped \/ Up # {})
    /\ UNCHANGED <<fileVars, lock, rateVars, stored, page>>

WriteLock(b) ==
    /\ board[b].pc = "up"
    /\ board' = [board EXCEPT ![b].pc = "locked"] /\ lock' = b
    /\ UNCHANGED <<fileVars, overlapped, rateVars, stored, page>>

Mine(b) == {q \in Requests : request[q].pc \notin {"new", "over"} /\ request[q].board = b}

Stop(b) ==
    /\ board' = [board EXCEPT ![b] = [pc |-> "gone", seen |-> NoBoard]]
    /\ bank' = [bank EXCEPT ![b] = [cache |-> None, fetch |-> None]]
    /\ request' = [q \in Requests |-> IF q \in Mine(b) THEN [pc |-> "over"] ELSE request[q]]

\* From its page, by a signal or after 30 idle minutes; the lock goes if it
\* is still this board's.
Quit(b) ==
    /\ board[b].pc = "locked" /\ Stop(b)
    /\ lock' = IF lock = b THEN NoBoard ELSE lock
    /\ UNCHANGED <<fileVars, overlapped, ratings, given, stored, page>>

CrashBoard(b) ==
    /\ b \in Up /\ Stop(b)
    /\ UNCHANGED <<fileVars, lock, overlapped, ratings, given, stored, page>>

-----------------------------------------------------------------------------
(* The server: the answer bank, its ratings, the rows to finish by hand *)

Free(b) == b \in Up /\ \A q \in Mine(b) : request[q].pc # "writing"

\* The body of a rating: a known kind of id, one to five stars or none.
ValidRatingInput(stars) == stars \in 0..5

Send(q, b) ==
    /\ request[q].pc = "new" /\ Free(b)
    /\ \E id \in BankIds, s \in Sent :
        request' = [request EXCEPT ![q] =
            IF ValidRatingInput(s)
            THEN [pc |-> "bank", board |-> b, id |-> id, stars |-> s]
            ELSE [pc |-> "over"]]
    /\ UNCHANGED <<fileVars, lockVars, bank, ratings, given, stored, page>>

\* Nothing fresh in the cache: all who wait share one fetch.
Fetch(b) ==
    /\ Free(b) /\ bank[b].fetch = None
    /\ \E q \in Mine(b) :
        \/ request[q].pc = "bank" /\ bank[b].cache = None
        \/ request[q].pc = "again"
    /\ bank' = [bank EXCEPT ![b].fetch = {PageId(a) : a \in stored.pages}]
    /\ UNCHANGED <<fileVars, lockVars, request, ratings, given, stored, page>>

\* The local copies, which are read when Notion does not answer.
Copies == {id \in BankIds : id[1] = "local" /\ id[3] <= stored.copies[id[2]]}

\* An id not among them is looked for once more.
Found(q, ids) ==
    IF request[q].id \in ids THEN [request[q] EXCEPT !.pc = "found"]
    ELSE IF request[q].pc = "bank" THEN [request[q] EXCEPT !.pc = "again"]
    ELSE [pc |-> "over"]

Fetched(b) ==
    /\ Free(b) /\ bank[b].fetch # None
    /\ \E ids \in {bank[b].fetch, Copies} :
        /\ bank' = [bank EXCEPT ![b] = [cache |-> ids, fetch |-> None]]
        /\ request' = [q \in Requests |->
                IF q \in Mine(b) /\ request[q].pc \in {"bank", "again"}
                THEN Found(q, ids) ELSE request[q]]
    /\ UNCHANGED <<fileVars, lockVars, ratings, given, stored, page>>

FetchFails(b) ==
    /\ Free(b) /\ bank[b].fetch # None
    /\ bank' = [bank EXCEPT ![b].fetch = None]
    /\ request' = [q \in Requests |->
            IF q \in Mine(b) /\ request[q].pc \in {"bank", "again"}
            THEN [pc |-> "over"] ELSE request[q]]
    /\ UNCHANGED <<fileVars, lockVars, ratings, given, stored, page>>

FromCache(q) ==
    /\ request[q].pc = "bank" /\ Free(request[q].board)
    /\ bank[request[q].board].cache # None
    /\ request' = [request EXCEPT ![q] = Found(q, bank[request[q].board].cache)]
    /\ UNCHANGED <<fileVars, lockVars, bank, ratings, given, stored, page>>

CacheExpires(b) ==
    /\ bank[b].cache # None
    /\ bank' = [bank EXCEPT ![b].cache = None]
    /\ UNCHANGED <<fileVars, lockVars, request, ratings, given, stored, page>>

\* Read, set, write: this process does nothing else in between.
ReadRatings(q) ==
    /\ request[q].pc = "found" /\ Free(request[q].board)
    /\ request' = [request EXCEPT ![q] =
            [pc |-> "writing", board |-> @.board, id |-> @.id, stars |-> @.stars,
             read |-> ratings]]
    /\ UNCHANGED <<fileVars, lockVars, bank, ratings, given, stored, page>>

\* The ratings with an id rated, in its place if it has one, or cleared.
SetRating(id, stars, read) ==
    IF stars = 0 THEN Only(read, {r \in Range(read) : r.id # id})
    ELSE IF \E r \in Range(read) : r.id = id
    THEN [i \in DOMAIN read |-> IF read[i].id = id THEN [id |-> id, stars |-> stars] ELSE read[i]]
    ELSE Append(read, [id |-> id, stars |-> stars])

WriteRatings(q) ==
    /\ request[q].pc = "writing"
    /\ ratings' = SetRating(request[q].id, request[q].stars, request[q].read)
    /\ given' = [given EXCEPT ![request[q].id] = request[q].stars]
    /\ request' = [request EXCEPT ![q] = [pc |-> "over"]]
    /\ UNCHANGED <<fileVars, lockVars, bank, stored, page>>

\* answer --phase push, of a new answer or of one to update: a local copy
\* first, another file each time, then its page in Notion.
BackUp ==
    /\ \E a \in Answers \ stored.pushing :
        /\ stored.copies[a] < MaxCopies
        /\ stored' = [stored EXCEPT !.copies[a] = @ + 1, !.pushing = @ \cup {a}]
    /\ UNCHANGED <<fileVars, lockVars, rateVars, page>>

\* Notion answers, or the push fails.
PushAnswer ==
    /\ \E a \in stored.pushing, pushed \in BOOLEAN :
        stored' = [stored EXCEPT !.pushing = @ \ {a},
                                 !.pages = IF pushed THEN @ \cup {a} ELSE @]
    /\ UNCHANGED <<fileVars, lockVars, rateVars, page>>

\* The places in the file of the ratings of some ids, and the first rating.
RatedAt(ids) == {i \in DOMAIN ratings : ratings[i].id \in ids}

FirstRating(places) ==
    IF places = {} THEN 0
    ELSE ratings[CHOOSE i \in places : \A j \in places : i <= j].stars

\* Mutant: the ratings of local copies are left out.
RatingForPageOnly(a) == FirstRating(RatedAt({PageId(a)}))

\* The rating a page of the bank has for the bot and for the board: its own,
\* or that of the first of its local copies in the file.
RatingFor(a) ==
    IF RatedAt({PageId(a)}) # {} THEN FirstRating(RatedAt({PageId(a)}))
    ELSE FirstRating(RatedAt(CopyIds(a)))

\* The registry page: the applications sent and the jobs to finish by hand.
Responses(rows) ==
    {i \in DOMAIN rows : \/ rows[i]["status"] \in PostApplyStatuses
                         \/ rows[i]["applied_date"] # Blank}
Todo(rows) ==
    {i \in DOMAIN rows : rows[i]["apply_state"] \in {Text("manual"), Text("failed")}}

Keys(rows, indices) == {rows[i]["key"] : i \in indices}

ShowPage(b) ==
    /\ Free(b) /\ Readable(disk)
    /\ \E rows \in {Load(disk)} :
        page' = [page EXCEPT !.responses = Keys(rows, Responses(rows)),
                             !.todo = Keys(rows, Todo(rows))]
    /\ UNCHANGED <<fileVars, lockVars, rateVars, stored>>

\* The filled form of a job on the page's list opens if the file, read again,
\* still has the job on it.
OpenForm(b) ==
    /\ Free(b) /\ Readable(disk)
    /\ \E key \in page.todo \cap Keys(Load(disk), Todo(Load(disk))) :
        page' = [page EXCEPT !.opened = @ \cup {key}]
    /\ UNCHANGED <<fileVars, lockVars, rateVars, stored>>

-----------------------------------------------------------------------------

File == WriteTmp \/ Rename \/ CrashSaving \/ Sheet

Command(b) == FindLock(b) \/ Probe(b) \/ Listen(b) \/ WriteLock(b) \/ Quit(b) \/ CrashBoard(b)

Server(b) == Fetch(b) \/ Fetched(b) \/ FetchFails(b) \/ CacheExpires(b)
             \/ ShowPage(b) \/ OpenForm(b)

Rate(q) == FromCache(q) \/ ReadRatings(q) \/ WriteRatings(q)

Next ==
    \/ File \/ BackUp \/ PushAnswer
    \/ \E b \in Boards : Command(b) \/ Server(b)
    \/ \E q \in Requests : Rate(q) \/ \E b \in Boards : Send(q, b)

Spec == Init /\ [][Next]_vars

-----------------------------------------------------------------------------

\* Whatever version of the file a command finds, and however often it was
\* saved by a spreadsheet or a save was cut short, a reader finds the rows that
\* were last written to it, their places unquoted again.  Of another column a
\* spreadsheet quoted, the readers keep the quotes for good: there the rows are
\* those written but for these quotes.
RowsKept == Readable(disk) /\ Bares(Load(disk)) = table

\* While no second board was ever up, an answer whose page was rated has the
\* rating the page was last given, and one of which a local copy was, while
\* Notion did not answer, has the copy's: none is lost to another request or
\* does not reach the page.  Of two copies that both have a rating the one in
\* the file first has its rating shown: there a later one may not reach the page.
RatingsKept ==
    ~overlapped => \A a \in Answers :
        /\ given[PageId(a)] # 0 => RatingFor(a) = given[PageId(a)]
        /\ given[PageId(a)] = 0 => \A id \in CopyIds(a) :
              (\A other \in CopyIds(a) \ {id} : given[other] = 0) => RatingFor(a) = given[id]
=============================================================================
