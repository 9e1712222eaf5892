------------------------------ MODULE Discovery ------------------------------
(***************************************************************************)
(* The discovery adapters: how each of them reads a job board that may     *)
(* change between two of its requests, and which of the records it gets    *)
(* become jobs. A board is the sequence of its postings, newest first; an  *)
(* adapter has a reading of it in progress and extends it by one request.  *)
(***************************************************************************)
EXTENDS Integers, Subsequences, SequencesExt

CONSTANTS PageSize,    \* records a board serves per request, scaled
          MaxPages,    \* MAX_PAGES, or MAX_JOBS_PER_TENANT / PAGE_SIZE, scaled
          MaxQueries,  \* searches of one target (searchTexts, keywords, ...)
          MaxTries     \* retries + 1 of defaultFetch

ASSUME PagingAssumption ==
    /\ PageSize \in Nat \ {0}
    /\ MaxPages \in Nat \ {0}
    /\ MaxQueries \in Nat \ {0}
    /\ MaxTries \in Nat \ {0}

\* What can be wrong with a record: it lacks a title or url (torn) or its id
\* (anon), or lies outside what the adapter itself lets through (far): the
\* target's locationAllow; title and country at remoteok.
Traits == {"good", "torn", "anon", "far"}

-----------------------------------------------------------------------------
(* One HTTP request *)

\* What a single attempt may come to.
Attempts == {"ok", "gone", "fail", "busy", "error"}

\* defaultFetch: 5xx, 429 and network errors are tried again; the last attempt
\* counts as it is. For its callers a 5xx and an exception are both a failure.
Fetched(attempts) ==
    LET final(i) == attempts[i] \notin {"busy", "error"} \/ i = MaxTries
        last == CHOOSE i \in 1 .. MaxTries : final(i) /\ \A j \in 1 .. i - 1 : ~final(j)
    IN IF attempts[last] \in {"busy", "error"} THEN "fail" ELSE attempts[last]

Outcomes == {Fetched(attempts) : attempts \in [1 .. MaxTries -> Attempts]}

-----------------------------------------------------------------------------
(* Records: "job", "skip" (dropped alone) or "throws" *)

\* assertJob
Asserted(trait) == IF trait = "torn" THEN "throws" ELSE "job"

\* mapJob of the JSON boards without a check of their own: String(undefined) is
\* an id like any other.
GreenhouseJob(trait) == Asserted(trait)
LeverJob(trait) == Asserted(trait)
AshbyJob(trait) == Asserted(trait)
SmartrecruitersJob(trait) == Asserted(trait)

\* usajobs: the search's own id beside the record lets it through, and mapJob
\* then has none.
UsajobsJob(trait) == IF trait = "anon" THEN "throws" ELSE Asserted(trait)

\* mapJob with the id checked first.
WorkableJob(trait) == IF trait = "anon" THEN "skip" ELSE Asserted(trait)
UltiproJob(trait) == IF trait = "anon" THEN "skip" ELSE Asserted(trait)
CalcareersRow(trait) == IF trait = "anon" THEN "skip" ELSE Asserted(trait)

\* ... and then the location.
WorkdayJob(trait) == IF trait \in {"anon", "far"} THEN "skip" ELSE Asserted(trait)
OracleJob(trait) == IF trait \in {"anon", "far"} THEN "skip" ELSE Asserted(trait)
JobsynJob(trait) == IF trait \in {"anon", "far"} THEN "skip" ELSE Asserted(trait)

\* HTML rows: one without anchor, title or id is no row at all.
IcimsRow(trait) == trait \notin {"torn", "anon"}
TalentbrewRow(trait) == trait \notin {"torn", "anon"}
TaleoRow(trait) == trait \notin {"torn", "anon"}
IcimsJob(trait) == IF trait = "far" THEN "skip" ELSE "job"
TaleoJob(trait) == IF trait = "far" THEN "skip" ELSE "job"

\* Feeds: whatever mapJob throws is caught record by record.
MuseJob(trait) == IF trait \in {"torn", "anon"} THEN "skip" ELSE "job"
AdzunaJob(trait) == IF trait \in {"torn", "anon"} THEN "skip" ELSE "job"
RemoteokJob(trait) == IF trait \in {"torn", "anon", "far"} THEN "skip" ELSE "job"
IndeedEntry(trait) == IF trait \in {"torn", "anon"} THEN "skip" ELSE "job"

Adapters ==
    {"greenhouse", "lever", "ashby", "smartrecruiters", "workable", "remoteok", "indeed",
     "workday", "oracle_cloud", "jobsyn", "icims", "talentbrew", "taleo", "ultipro",
     "usajobs", "the_muse", "adzuna", "calcareers"}

\* The mapJob of an adapter (the registry of index.js).
Mapped(source, trait) ==
    CASE source = "greenhouse" -> GreenhouseJob(trait)
      [] source = "lever" -> LeverJob(trait)
      [] source = "ashby" -> AshbyJob(trait)
      [] source = "smartrecruiters" -> SmartrecruitersJob(trait)
      [] source = "workable" -> WorkableJob(trait)
      [] source = "ultipro" -> UltiproJob(trait)
      [] source = "usajobs" -> UsajobsJob(trait)
      [] source = "calcareers" -> CalcareersRow(trait)
      [] source = "workday" -> WorkdayJob(trait)
      [] source = "oracle_cloud" -> OracleJob(trait)
      [] source = "jobsyn" -> JobsynJob(trait)
      [] source = "icims" -> IF IcimsRow(trait) THEN IcimsJob(trait) ELSE "skip"
      [] source = "talentbrew" -> IF TalentbrewRow(trait) THEN IcimsJob(trait) ELSE "skip"
      [] source = "taleo" -> IF TaleoRow(trait) THEN TaleoJob(trait) ELSE "skip"
      [] source = "the_muse" -> MuseJob(trait)
      [] source = "adzuna" -> AdzunaJob(trait)
      [] source = "remoteok" -> RemoteokJob(trait)
      [] source = "indeed" -> IndeedEntry(trait)

\* The adapters that send several searches for one target.
Searching == {"workday", "taleo", "adzuna"}

-----------------------------------------------------------------------------
(* Pages *)

\* A reading starts with the first page of the first search.
\* `quiet` remembers whether the board has stood still and answered since.
NewReading == [query |-> 1, page |-> 1, raws |-> <<>>, before |-> <<>>, total |-> 0,
               jobs |-> <<>>, end |-> "more", quiet |-> TRUE]

\* The board's answer to a request for one page.
Served(board, page) ==
    SubSeq(board, (page - 1) * PageSize + 1,
           IF page * PageSize <= Len(board) THEN page * PageSize ELSE Len(board))

Pages(board) == (Len(board) + PageSize - 1) \div PageSize

\* An exception leaves runTargets nothing of the target.
Lost(r) == [NewReading EXCEPT !.end = "lost", !.quiet = r.quiet]

\* The page is kept; the search goes on unless this was its last page.
Kept(r, got, last) ==
    [r EXCEPT !.raws = @ \o got, !.page = @ + 1,
              !.end = IF last \/ r.page = MaxPages THEN "done" ELSE "more"]

Ended(r) == [r EXCEPT !.end = "done"]

New(r, got) == Only(got, Range(got) \ Range(r.raws))

\* fetchAllPages of workday: a short page, or as many as the reported total.
WorkdayPage(r, board, answer) ==
    LET got == Served(board, r.page)
    IN IF answer # "ok" THEN Lost(r)
       ELSE Kept(r, got, Len(got) < PageSize \/ Len(r.raws \o got) >= Len(board))

\* Asking for more records than the board serves makes every page short.
OraclePageOverask(r, board, answer) ==
    LET got == Served(board, r.page)
    IN IF answer # "ok" THEN Lost(r)
       ELSE Kept(r, got, Len(got) < PageSize + 1 \/ Len(r.raws \o got) >= Len(board))

OraclePage(r, board, answer) ==
    LET got == Served(board, r.page)
    IN IF answer # "ok" THEN Lost(r)
       ELSE Kept(r, got, Len(got) < PageSize \/ Len(r.raws \o got) >= Len(board))

\* jobsyn goes by has_more_pages alone.
JobsynPage(r, board, answer) ==
    LET got == Served(board, r.page)
    IN IF answer # "ok" THEN Lost(r)
       ELSE Kept(r, got, r.page >= Pages(board) \/ got = <<>>)

\* icims: the first page without a row ends it, or a 404 after the first.
IcimsPage(r, board, answer, rows) ==
    LET got == Only(Served(board, r.page), rows)
    IN IF answer = "gone" /\ r.page > 1 THEN Ended(r)
       ELSE IF answer = "ok" /\ got = <<>> THEN Ended(r)
       ELSE IF answer = "ok" THEN Kept(r, got, FALSE)
       ELSE Lost(r)

\* taleo: past its end the site may serve the last page again; a page like the
\* one before, or without a new id, ends the search.
TaleoPage(r, board, answer, traits, again) ==
    LET page == IF again /\ r.page > Pages(board) /\ board # <<>> THEN Pages(board) ELSE r.page
        rows == {j \in DOMAIN traits : TaleoRow(traits[j])}
        got == Only(Served(board, page), rows)
        new == Only(Served(board, page), rows \ Range(r.raws))
    IN IF answer = "gone" /\ r.page > 1 THEN Ended(r)
       ELSE IF answer = "ok" /\ (got = <<>> \/ got = r.before \/ new = <<>>) THEN Ended(r)
       ELSE IF answer = "ok" THEN [Kept(r, new, FALSE) EXCEPT !.before = got]
       ELSE Lost(r)

\* ultipro counts the jobs it mapped against the reported total.
UltiproPage(r, board, answer, traits) ==
    LET got == Served(board, r.page)
        mapped == Only(r.raws \o got, {j \in DOMAIN traits : UltiproJob(traits[j]) = "job"})
    IN IF answer # "ok" THEN Lost(r)
       ELSE IF got = <<>> THEN Ended(r)
       ELSE Kept(r, got, Len(mapped) >= Len(board) \/ Len(got) < PageSize)

\* usajobs: ids seen before are dropped, a short page is the last.
UsajobsPage(r, board, answer) ==
    LET got == Served(board, r.page)
    IN IF answer # "ok" THEN Lost(r)
       ELSE Kept(r, New(r, got), Len(got) < PageSize)

\* the_muse keeps what it has when a request fails.
MusePage(r, board, answer) ==
    LET got == Served(board, r.page)
    IN IF answer # "ok" \/ got = <<>> THEN Ended(r)
       ELSE Kept(r, New(r, got), r.page >= Pages(board))

\* calcareers: the search itself, then pages while the pager has a button for
\* them; the total is the one the search reported.
CalcareersPage(r, board, answer) ==
    LET got == Served(board, r.page)
        total == IF r.page = 1 THEN Pages(board) ELSE r.total
    IN IF answer # "ok" THEN Lost(r)
       ELSE IF got = <<>> THEN Ended(r)
       ELSE [Kept(r, New(r, got), r.page >= total \/ r.page >= Pages(board))
                EXCEPT !.total = total]

\* adzuna: one page per keyword; a keyword that fails finds nothing.
AdzunaPage(r, board, answer) ==
    IF answer # "ok" THEN Ended(r) ELSE Kept(r, New(r, Served(board, 1)), TRUE)

\* One request for everything: greenhouse, lever, ashby, workable; the feed of
\* remoteok and the file of indeed, which answer [] to a failure.
WholeBoard(r, board, answer) == IF answer # "ok" THEN Lost(r) ELSE Kept(r, board, TRUE)
FeedBoard(r, board, answer) == IF answer # "ok" THEN Ended(r) ELSE Kept(r, board, TRUE)

\* smartrecruiters reads the first page of its board.
SmartrecruitersBoard(r, board, answer) ==
    IF answer # "ok" THEN Lost(r) ELSE Kept(r, Served(board, 1), TRUE)

\* The next request of a reading.
Requested(source, r, board, answer, traits, again) ==
    CASE source = "workday" -> WorkdayPage(r, board, answer)
      [] source = "oracle_cloud" -> OraclePage(r, board, answer)
      [] source = "jobsyn" -> JobsynPage(r, board, answer)
      [] source = "icims" ->
           IcimsPage(r, board, answer, {j \in DOMAIN traits : IcimsRow(traits[j])})
      [] source = "talentbrew" ->
           IcimsPage(r, board, answer, {j \in DOMAIN traits : TalentbrewRow(traits[j])})
      [] source = "taleo" -> TaleoPage(r, board, answer, traits, again)
      [] source = "ultipro" -> UltiproPage(r, board, answer, traits)
      [] source = "usajobs" -> UsajobsPage(r, board, answer)
      [] source = "the_muse" -> MusePage(r, board, answer)
      [] source = "calcareers" -> CalcareersPage(r, board, answer)
      [] source = "adzuna" -> AdzunaPage(r, board, answer)
      [] source \in {"remoteok", "indeed"} -> FeedBoard(r, board, answer)
      [] source = "smartrecruiters" -> SmartrecruitersBoard(r, board, answer)
      [] OTHER -> WholeBoard(r, board, answer)

-----------------------------------------------------------------------------
(* Targets: discover *)

\* A record that is no job takes the target with it.
DiscoveredOrNothing(source, r, traits) ==
    LET jobs == {j \in DOMAIN traits : Mapped(source, traits[j]) = "job"}
        new == Only(r.raws, jobs \ Range(r.jobs))
    IN IF r.end # "done" THEN r
       ELSE IF ~(Range(r.raws) \subseteq jobs) THEN Lost(r)
       ELSE IF source \in Searching /\ r.query < MaxQueries
            THEN [r EXCEPT !.query = @ + 1, !.page = 1, !.end = "more",
                           !.jobs = @ \o new, !.raws = <<>>, !.before = <<>>]
       ELSE [NewReading EXCEPT !.jobs = r.jobs \o new, !.end = "done",
                                 !.quiet = r.quiet]

\* A search is over: its records become jobs, those of earlier searches kept
\* once. A record that throws takes the target with it (runTargets).
Discovered(source, r, traits) ==
    LET jobs == {j \in DOMAIN traits : Mapped(source, traits[j]) = "job"}
        new == Only(r.raws, jobs \ Range(r.jobs))
    IN IF r.end # "done" THEN r
       ELSE IF \E i \in DOMAIN r.raws : Mapped(source, traits[r.raws[i]]) = "throws" THEN Lost(r)
       ELSE IF source \in Searching /\ r.query < MaxQueries
            THEN [r EXCEPT !.query = @ + 1, !.page = 1, !.end = "more",
                           !.jobs = @ \o new, !.raws = <<>>, !.before = <<>>]
       ELSE [NewReading EXCEPT !.jobs = r.jobs \o new, !.end = "done",
                                 !.quiet = r.quiet]

\* What an adapter should find on a board that stands still and answers: the
\* postings on the pages it may read that are fit to be jobs.
Findable(source, board, traits) ==
    LET limit == CASE source \in {"smartrecruiters", "adzuna"} -> PageSize
                   [] source \in {"greenhouse", "lever", "ashby", "workable", "remoteok", "indeed"} ->
                        Len(board)
                   [] OTHER -> MaxPages * PageSize
    IN {board[i] : i \in {k \in DOMAIN board : /\ k <= limit
                                              /\ Mapped(source, traits[board[k]]) = "job"}}
=============================================================================
