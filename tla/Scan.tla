-------------------------------- MODULE Scan --------------------------------
(***************************************************************************)
(* The scan command of several profiles over the one pool data/jobs.tsv:   *)
(* each profile reads the boards of its targets, takes what is not in the  *)
(* pool, writes the pool and then its own applications.tsv.                *)
(*                                                                         *)
(* A scan loads the pool before its first request and its ledger after the *)
(* last one, and writes both at the end.                                   *)
(***************************************************************************)
EXTENDS Discovery, FiniteSets, Integers

CONSTANTS Profiles,    \* profiles scanned, each by one process at a time
          Targets,     \* rows of data/companies.tsv
          Postings,    \* what the boards ever show
          OnBoard,     \* the target whose board a posting appears on
          Open,        \* the postings on the boards at the start
          Role,        \* company and title of a posting, as fuzzyKey sees them
          Owners,      \* the profile column of a target; {} when public
          Disabled,    \* targets switched off in the file or blacklisted
          Rejects,     \* roles the filter rules of a profile turn down
          Sources,     \* per target, the adapters it may be of
          Flawed,      \* postings whose record may not be as it should be
          MaxUpsets    \* bound: postings that come or go, requests that
                       \* fail, and processes that die

ASSUME PostingsAssumption ==
    IsFiniteSet(Postings) /\ Open \subseteq Postings /\ Flawed \subseteq Postings

VARIABLES source,    \* the adapter of each target
          traits,    \* what is wrong with each posting's record
          board,     \* the boards
          pool,      \* data/jobs.tsv
          ledger,    \* per profile, the rows scan made: key and status
          proc,      \* per profile, the scan under way
          cut,       \* postings pooled by a scan that died before its second write
          upsets     \* counts the changes, failures and deaths so far

vars == <<source, traits, board, pool, ledger, proc, cut, upsets>>

Idle == [pc |-> "idle", pool |-> {}, readings |-> <<>>, fresh |-> {}]

\* filterByProfile, then modules and blacklist.
Visible(p, t) == Owners[t] = {} \/ p \in Owners[t]
TargetsOf(p) == {t \in Targets : Visible(p, t) /\ t \notin Disabled}

Roles(postings) == {Role[j] : j \in postings}

RowsOf(p) == {row.job : row \in ledger[p]}

-----------------------------------------------------------------------------
(* Dedup *)

\* dedupeJobs and dedupeAgainst: a posting is fresh when neither its key nor
\* its role is in the pool, and the first of its role in this batch.
Fresh(collected, pooled) ==
    LET first(role) == CHOOSE i \in DOMAIN collected :
                          /\ Role[collected[i]] = role
                          /\ \A n \in 1 .. i - 1 : Role[collected[n]] # role
    IN {j \in Range(collected) :
           /\ j \notin pooled
           /\ Role[j] \notin Roles(pooled)
           /\ j = collected[first(Role[j])]}

\* ... matched by key alone.
AppendedByKey(rows, jobs, status) ==
    rows \cup {[job |-> j, status |-> status] : j \in {k \in jobs : \A row \in rows : row.job # k}}

\* appendNew, for jobs of different roles: no second row of a key or a role.
Appended(rows, jobs, status) ==
    rows \cup {[job |-> j, status |-> status] :
                 j \in {k \in jobs : \A row \in rows : Role[row.job] # Role[k]}}

\* The rejected ones left out.
WithFreshPassed(p, rows, fresh) ==
    Appended(rows, {j \in fresh : Role[j] \notin Rejects[p]}, "Inbox")

\* filterJobs: the passed jobs as Inbox, then the rejected ones as Archived.
WithFresh(p, rows, fresh) ==
    LET passed == {j \in fresh : Role[j] \notin Rejects[p]}
    IN Appended(Appended(rows, passed, "Inbox"), fresh \ passed, "Archived")

-----------------------------------------------------------------------------
(* The command *)

\* A source without an adapter is an error of the scan, and read by none.
FirstReading(t) == IF source[t] \in Adapters THEN NewReading ELSE Lost(NewReading)

\* No visible target: nothing to scan.
Start(p) ==
    /\ proc[p].pc = "idle"
    /\ TargetsOf(p) # {}
    /\ proc' = [proc EXCEPT ![p] =
            [pc |-> "fetch", pool |-> pool, fresh |-> {},
             readings |-> [t \in TargetsOf(p) |-> FirstReading(t)]]]
    /\ UNCHANGED <<source, traits, board, pool, ledger, cut, upsets>>

\* One request of one target; the targets of a source are read side by side.
Request(p, t, answer, again) ==
    /\ proc[p].pc = "fetch"
    /\ t \in TargetsOf(p)
    /\ proc[p].readings[t].end = "more"
    /\ again => source[t] = "taleo"
    /\ answer # "ok" => upsets < MaxUpsets
    /\ upsets' = IF answer # "ok" THEN upsets + 1 ELSE upsets
    /\ \E r \in {Requested(source[t], proc[p].readings[t], board[t], answer, traits, again)} :
        \E d \in {Discovered(source[t], r, traits)} :
            proc' = [proc EXCEPT ![p].readings[t] =
                        [d EXCEPT !.quiet = d.quiet /\ answer = "ok"]]
    /\ UNCHANGED <<source, traits, board, pool, ledger, cut>>

Collected(p) ==
    LET order == SetToSeq(TargetsOf(p))
    IN FoldLeft(LAMBDA all, t : all \o proc[p].readings[t].jobs, <<>>, order)

\* Everything was read: the fresh postings, when there are any, are to be
\* written. (The health log written here is read by the reports alone.)
Merge(p, dryRun) ==
    LET fresh == Fresh(Collected(p), proc[p].pool)
    IN /\ proc[p].pc = "fetch"
       /\ \A t \in TargetsOf(p) : proc[p].readings[t].end # "more"
       /\ proc' = IF dryRun \/ fresh = {} THEN [proc EXCEPT ![p] = Idle]
                  ELSE [proc EXCEPT ![p].pc = "pool", ![p].fresh = fresh, ![p].readings = <<>>]
       /\ UNCHANGED <<source, traits, board, pool, ledger, cut, upsets>>

\* saveJobs: the pool as it was at the start, and the fresh postings.
SavePool(p) ==
    /\ proc[p].pc = "pool"
    /\ pool' = proc[p].pool \cup proc[p].fresh
    /\ proc' = [proc EXCEPT ![p].pc = "ledger"]
    /\ UNCHANGED <<source, traits, board, ledger, cut, upsets>>

\* saveApplications
SaveLedger(p) ==
    /\ proc[p].pc = "ledger"
    /\ ledger' = [ledger EXCEPT ![p] = WithFresh(p, @, proc[p].fresh)]
    /\ proc' = [proc EXCEPT ![p] = Idle]
    /\ UNCHANGED <<source, traits, board, pool, cut, upsets>>

\* scripts/backfill_apps_from_pool: the pooled postings of companies that name
\* the profile, not yet in its ledger, through the same filter.
Backfill(p) ==
    LET missing == {j \in pool : p \in Owners[OnBoard[j]] /\ j \notin RowsOf(p)}
        passed == {j \in missing : Role[j] \notin Rejects[p]}
        rows == Appended(ledger[p], passed, "To Apply")
    IN /\ proc[p].pc = "idle"
       /\ missing # {}
       /\ ledger' = [ledger EXCEPT ![p] = Appended(rows, missing \ passed, "Archived")]
       /\ UNCHANGED <<source, traits, board, pool, proc, cut, upsets>>

-----------------------------------------------------------------------------
(* Around the command *)

Crash(p) ==
    /\ proc[p].pc # "idle"
    /\ upsets < MaxUpsets
    /\ upsets' = upsets + 1
    /\ cut' = IF proc[p].pc = "ledger" THEN cut \cup proc[p].fresh ELSE cut
    /\ proc' = [proc EXCEPT ![p] = Idle]
    /\ UNCHANGED <<source, traits, board, pool, ledger>>

\* The readings of a board that changes are no longer quiet.
Disturbed(t) ==
    [p \in Profiles |-> IF proc[p].pc = "fetch" /\ t \in TargetsOf(p)
                        THEN [proc[p] EXCEPT !.readings[t].quiet = FALSE] ELSE proc[p]]

\* A posting goes up, on top, or comes down.
Posted(j) ==
    /\ upsets < MaxUpsets
    /\ ~Contains(board[OnBoard[j]], j)
    /\ board' = [board EXCEPT ![OnBoard[j]] = <<j>> \o @]
    /\ proc' = Disturbed(OnBoard[j])
    /\ upsets' = upsets + 1
    /\ UNCHANGED <<source, traits, pool, ledger, cut>>

Removed(j) ==
    /\ upsets < MaxUpsets
    /\ Contains(board[OnBoard[j]], j)
    /\ board' = [board EXCEPT ![OnBoard[j]] = Only(@, Postings \ {j})]
    /\ proc' = Disturbed(OnBoard[j])
    /\ upsets' = upsets + 1
    /\ UNCHANGED <<source, traits, pool, ledger, cut>>

-----------------------------------------------------------------------------
\* Adapters of the targets' kinds, and one flaw among the records.
Init ==
    /\ source \in {f \in [Targets -> Adapters \cup {"retired"}] :
                     \A t \in Targets : f[t] \in Sources[t]}
    /\ traits \in {[j \in Postings |-> IF j \in Flawed THEN w ELSE "good"] : w \in Traits \ {"good"}}
    /\ board = [t \in Targets |-> SetToSeq({j \in Open : OnBoard[j] = t})]
    /\ pool = {}
    /\ ledger = [p \in Profiles |-> {}]
    /\ proc = [p \in Profiles |-> Idle]
    /\ cut = {}
    /\ upsets = 0

Command(p) ==
    \/ Start(p)
    \/ \E t \in Targets : \E answer \in Outcomes : \E again \in BOOLEAN : Request(p, t, answer, again)
    \/ \E dryRun \in BOOLEAN : Merge(p, dryRun)
    \/ SavePool(p)
    \/ SaveLedger(p)

Next ==
    \/ \E p \in Profiles : Command(p) \/ Backfill(p) \/ Crash(p)
    \/ \E j \in Postings : Posted(j) \/ Removed(j)

\* A process goes on until it ends, scans are started again and again, and of
\* those that come to their end some are no dry runs.
Fairness ==
    \A p \in Profiles :
        /\ WF_vars(Start(p))
        /\ WF_vars(\E t \in Targets : \E answer \in Outcomes : \E again \in BOOLEAN :
                      Request(p, t, answer, again))
        /\ SF_vars(Merge(p, FALSE))
        /\ WF_vars(SavePool(p) \/ SaveLedger(p))

Spec == Init /\ [][Next]_vars /\ Fairness

-----------------------------------------------------------------------------
(* Properties *)

ReadingType ==
    [query : 1 .. MaxQueries, page : 1 .. MaxPages + 1, raws : Seq(Postings),
     before : Seq(Postings), total : Nat, jobs : Seq(Postings),
     end : {"more", "done", "lost"}, quiet : BOOLEAN]

\* Every variable keeps its type; a scan holds readings of its own targets, and
\* postings that were not in the pool it loaded.
TypeOK ==
    /\ \A t \in Targets : board[t] \in Seq(Postings)
    /\ pool \subseteq Postings /\ cut \subseteq Postings
    /\ \A p \in Profiles :
        /\ ledger[p] \subseteq [job : Postings, status : {"Inbox", "Archived", "To Apply"}]
        /\ proc[p].pc \in {"idle", "fetch", "pool", "ledger"}
        /\ proc[p].pc = "fetch" => proc[p].readings \in [TargetsOf(p) -> ReadingType]
        /\ proc[p].fresh \subseteq Postings \ proc[p].pool

\* A company's role has one row in a profile's ledger, whichever source, repost
\* or overwritten pool brings it up again (core/dedup.js fuzzyKey,
\* applications_tsv.js appendNew).
OneRowPerRole ==
    \A p \in Profiles : \A x, y \in ledger[p] : Role[x.job] = Role[y.job] => x = y

\* What is in the shared pool, and so never fresh again, has its row in some
\* ledger; the exceptions are a scan between its two writes, and postings whose
\* scan died there (scan.js 433-434).
PooledHasRow ==
    \A j \in pool :
        \/ \E p \in Profiles : Role[j] \in Roles(RowsOf(p))
        \/ \E p \in Profiles : proc[p].pc = "ledger" /\ j \in proc[p].fresh
        \/ Role[j] \in Roles(cut)

\* An adapter that finishes a board which stood still and answered has found
\* all there is to find: no page loop stops early (discovery/*.js).
ReadingComplete ==
    \A p \in Profiles : proc[p].pc = "fetch" =>
        \A t \in TargetsOf(p) :
            LET r == proc[p].readings[t]
            IN r.end = "done" /\ r.quiet =>
                 {r.jobs[i] : i \in DOMAIN r.jobs} = Findable(source[t], board[t], traits)

\* On a board an adapter can read: no record of it takes the target down.
Listed(j) ==
    LET target == OnBoard[j]
        shown == board[target]
    IN /\ source[target] \in Adapters
       /\ j \in Findable(source[target], shown, traits)
       /\ \A i \in DOMAIN shown : Mapped(source[target], traits[shown[i]]) # "throws"

\* A posting that stays up has in the end its role in a ledger and keeps it,
\* however boards change under the readings, requests fail and scans die or
\* overwrite each other's pool. Two things the code does with the shared pool:
\* the ledger may be that of another profile, whose scan had the role first,
\* and its row an Archived one; and what a scan pooled that died before its
\* second write (scan.js 433-434) has no row for as long as it is in the pool.
ListedGetsRow ==
    \A j \in Postings :
        <>[]Listed(j) => <>[](\/ \E p \in Profiles : Role[j] \in Roles(RowsOf(p))
                             \/ Role[j] \in Roles(cut \cap pool))
=============================================================================
