# Verification of ai-job-searcher

A TLA+ model of the program in `src/`: what its commands do to the files and
the Notion database they share, model-checked with TLC and, where it matters
most, proved with TLAPS.

## The system

A Node.js command-line program helps one person look for jobs. Each command is
a process of its own; the commands never call one another. They meet in files
of the profile directory (above all `applications.tsv`, one row per job), in
the person's Notion database, in a mailbox and in lock files. There is no
daemon and no database transaction: each command loads a file, awaits network
or browser work, and writes the file back.

| component | code | state it keeps | operations |
|---|---|---|---|
| ledger | `core/applications_tsv.js` | `applications.tsv`, in eight versions of its header | load, save of the whole file |
| apply | `commands/apply.js`, `modules/apply/` | ledger rows, `apply_context.json`, results files | phases `pre`, `submit`, `open` |
| form URLs, adapters, answers, mails | `modules/apply/`, `modules/answer/`, `core/answer_bank.js` | the page of a form, the answer bank, the apply mailbox | find the form, read it, answer it, type it, wait for the outcome |
| sync, sweeps | `commands/sync.js`, `core/auto_*`, `cli.js` | ledger rows, archived artifacts | pull Notion, No Response and Dead sweeps before commands |
| mail check | `commands/check.js`, `core/email_*` | ledger rows, processed ids, context, logs | `prepare` and `apply` phases, `auto` |
| night run | `commands/night.js`, `core/night_plan.js` | lock file, batch files, run log | start, check, fan-out, collect, finish |
| scan, discovery adapters | `commands/scan.js`, `core/scan.js`, `core/dedup.js`, `modules/discovery/` | job pool, ledger rows | read boards, dedup, two saves |
| posting rules | `core/evaluate_job.js`, `core/geo_enforcer.js`, `core/jd_workplace.js`, `core/*_blockers.js`, `core/published_salary.js` | none | verdict on a posting and on its description |
| prepare | `commands/prepare.js`, `core/jd_cache.js`, `core/url_check.js` | ledger rows, context, results, cached descriptions | filter, check URLs, fetch, judge, commit |
| validate, dedup | `commands/validate.js`, `core/tsv_dedup.js` | ledger rows | retro sweep, collapse of double rows |
| board | `commands/board.js`, `core/bank_ratings.js` | lock file, ratings, bank cache | HTTP API over the ledger and the bank |
| manual entry | `commands/add.js` | ledger row, Notion page | one job by hand |
| companies, reclassify, tailoring, generators, reports, migrations | `commands/`, `modules/`, `scripts/` | none shared | one-shot edits, text and documents |

**How they interact.** Through whole-file rewrites of the ledger
(`loadApplications` ... awaits ... `saveApplications`), through Notion pages
(status pushed by apply, prepare, check and the sweeps; pulled by sync, where
Notion wins), through the shared pool of jobs (scans of several profiles), and
through hand-over files (`apply_context.json`, `check_context.json`,
`prepare_context.json`, the night batches). Inside one process, the submit
phase runs a worker pool whose workers share the ledger under an in-process
mutex, the scan reads the boards of a source side by side, and the board's
server answers requests that share one fetch of the answer bank.

**What is hard.** A command may die at any await, and two of its effects are
not atomic: the Submit click in the employer's form and the row that records
it; the Notion push and the row. Rows are read before an await and used after
it. Commands may be run in any order and again. Pushes to Notion fail and are
only logged, and sync then pulls the old value. Nothing but habit keeps two
commands from running at once. `PROJECT.json` lists these hazards at their
lines.

**What makes each component correct.**

- ledger: a row written under any version of the file is the row read.
- apply: no application goes out twice; what was sent is never lost; dry runs
  change nothing; the pool respects its limits and ends.
- forms: what goes out is what was planned, and true; what is recorded as sent
  was received.
- sync and sweeps: no loss of rows or local columns; statuses move as Notion or
  the timers say, and only so; a path names its file.
- mail check: each mail acted on once, a rejected or closed row not reopened.
- night run: one night at a time, logged once; it ends.
- scan: a board is read to its end; a role enters the ledger once, and what
  stays listed does enter it.
- posting rules: no job at home and none that pays enough is turned down for its
  place or its pay; the commands that judge a posting agree.
- prepare: a row is evaluated and committed once; the company cap holds.
- board: one server; no rating is lost.

## Modules

**`Ledger`** — a row of `applications.tsv` as a record of the five columns the
commands decide on, the guards that read it (`MaySubmit` is
`alreadyApplied(row) === null`, `PassesGates` is gates 1 to 3 of `buildQueue`)
and one operator per rewrite the code makes. No state of its own.

**`Pool`** — the abstract worker pool: the promise in the comment at the top of
`pool.js`, as a specification of its own.

**`ApplyBot`** — the apply command, `sync`, and a human in Notion.

| state | code |
|---|---|
| `rows` | `applications.tsv`, one `Ledger` row per job |
| `notion` | the Status property of each job's Notion page |
| `running` | which commands' processes exist |
| `prePhase`, `preSnap`, `preFound` | `runPre`: where it stands, the `apps` it loaded, what `preparePreJob` returned |
| `context` | jobs in `apply_context.json` |
| `pc`, `result`, `dry` | `runSubmit`: where each worker stands in `submitOne` / `recordOutcome`, the outcome, `--dry-run` |
| `openJob`, `openStatus` | `runOpen` |
| `syncSnap` | the rows `sync` loaded |
| `used`, `clicked`, `reclicked`, `rerun`, `released` | history only: no action's guard reads them |

Actions are cut at the awaits. `pre` is load (`StartPre`), read the forms and
save all rows (`SavePre`), push (`PushPre`), write the context
(`WriteContext`). A submit worker goes through the deadline, the answers, the
first guard, the form, the final guard, the mark on disk, the click, the
mailed code, the mailbox check, the record and the Notion push; every stop and
every throw on the way is an action or a disjunct. `open` and `sync` are cut
the same way. `CrashPre`, `CrashSubmit`, `AbandonOpen` and `AbandonSync` take
a process away at any of these points; the file system keeps what was written.

Whether every required question of a form has an answer is a choice in each run
(`NoHonestAnswer` or what follows it); so is what the posting and the page do. Notes are kept as far as guards tell them
apart (`submitting` is the prefix the code tests for). Dates are "set" or
"not set". The statuses after an application act alike and are one value.
The company cap and `--limit` are as in `buildQueue` ("taking candidates newest
first"); the rolling window of the cap is not modelled (every row is in it).

**`ApplyBotProofs`** — the theorems. **`MCApplyBot`** — values for TLC.
**`MCCrashes`** — the same with a history variable more, `interrupted`: the jobs
whose submit died on the mark, which only the run `apply_rerun_crashed` asks for.

**`MailCheck`** — the check command: `--auto`, and `--prepare` / `--apply`
with an assistant reading the mails in between.

| state | code |
|---|---|
| `status`, `inbox` | `applications.tsv`: the Status column, the rows made from recruiters' leads |
| `notion` | the Status property of each job's page |
| `contacted` | the leads file `recruiter_leads.md` |
| `processed`, `lastCheck` | `processed_messages.json` |
| `context`, `raw` | `check_context.json`, `raw_emails.json` |
| `phase`, `now`, `epoch`, `reprocess`, `savedIds`, `active` | `runAuto` / `runApply`: where the run stands, its time, window, flags, and what it loaded |
| `batch`, `bound`, `todo`, `fresh`, `contacts` | `processEmailsLoop`: the new mails, the job each was matched to, the planned Notion calls, new rows, new leads |
| `half`, `pushed` | `applyMutations`: between the status call and the comment; `appliedStatusByAppKey` |
| `clock`, `arrived` | time, and when each mail came |
| the rest | history only, except `mishaps`, which bounds crashes |

Actions are cut at the awaits (the mailboxes, each of the two Notion calls of
an action) and between the files, which `applyMutations` writes in a fixed
order: `SaveTsv`, `WriteLogs`, `SaveProcessed`. `Crash` ends a run at any of
these points; a throw of the mailbox or of a file write ends it the same way.
A Notion error is counted and the loop goes on (`NotionError`); a missing
token with actions to do ends the run (`RefuseWithoutToken`). A dry run
changes nothing and is a stuttering step.

What a mail says and which row it goes to is **`Mailroom`**'s: the senders'
filters (`IsJobAlert`, `IsNonPipelineSender`, `IsATS`), the branch of
`processEmailsLoop` (`Route`), `classify` with its guard for acknowledgments,
`findCompany` with scores, tie-break and short words, `findRole`, and the leads
of `processRecruiter` with `isTSVDup`. A mail is the set of patterns and tokens
that the code's tests find in it (`Mail`), a job its employer's names, its place
in the file and the telling words of its title (`Row`); words of one letter are
left out. The matcher's operators answer with sets of at most one member, as
`OneMatch` proves. A query of the mailbox (`Queries`) surely finds the first
`MaxResults` mails it asks for, as `listUidsForQuery` cuts its answer; of the
rest, and of what nobody asked for, it may find any. Mails a query was for and
left out are in the history `cut`. The employers of a model are one query; of a
reading by the assistant, whose paging is not in `src/`, an answer longer than
the limit may lack any mails. The date of a mail is its
arrival. `MAX_DAYS` and the clock are in ticks of one day or less. Comments
are counted, not written; the heartbeat and the other logs are left out. One
check runs at a time and no other command beside it; `Sync` is the auto-sync
in front of a command.

**`MailCheckProofs`** — the theorems. **`MCMailCheck`** — values for TLC.

**`NightRun`** — the unattended night: a session that follows the runbook
`skills/job-pipeline/night-apply.md`, the `night` command it calls, and what
scan, prepare and apply do to a row as far as the night's decisions see it.

| state | code |
|---|---|
| `lock`, `deadline` | `night.lock`; the deadline is also what the session passes to submit |
| `log` | `apply_runs.jsonl`, as the number of lines of each night |
| `stage` | a row of the ledger: not discovered, Inbox, in the apply queue, or none of the night's business any more |
| `ctx` | `prepare_context.json`: batch, `inboxExhausted`, and the nights its stamp counts for |
| `good` | rows with a valid result file |
| `jobs` | `apply_context.json` |
| `started`, `seen`, `sent` | what the stamps of `apply_pre-*` and `apply_results-*` say of each night |
| `pc`, `took`, `closing`, `logRead`, `collected`, `noPrepare` | each session: its step, whether its start took the lock, what it has read, its results file, "no more prepare rounds tonight" |
| `clock` | time |
| `disturbed`, `torn`, `deaths` | history; `deaths` bounds `Die` |

`RunStart` is the read and the judgement of the lock; `ReadLog`, `WriteLog`,
`DropLock` close a night (an abandoned one, or at finish) and `TakeLock` writes
the lock: a session may die, or another start come, between any two.
`DecideNextStep` is the function of that name, with a tick of the clock for
`minutesLeft`. A round is cut at its commands. Row workers, forms and the
evaluator are choices: any rows are judged, filtered, sent, left to the human. Repeating a fan-out within
a round and retrying a failed command are choices of the same action. The
session may also stop by itself (usage, a step that failed twice). Left
out: the company cap's effect on the queue, rows moved by a human or by sync
during the night, wrong flags, and the pruning of the log after 180 days.

**`NightRunProofs`** — the theorems. **`MCNightRun`** — a constraint for TLC.

**`Prepare`** — the life of a job from the scan that found it to To Apply.

| state | code |
|---|---|
| `rows` | `applications.tsv`: status, whether the row has a `notion_page_id`, `fit_score`, whether its letter is there. The status `ToApply` is the code's To Apply |
| `ctx` | `prepare_context.json`: `batch`, `deferredQueue` (`queue`), `alreadyEvaluated` (`carry`) |
| `results` | the last `prepare_results_*.json` |
| `pages` | Notion: how many pages carry the job's key |
| `draft`, `mem`, `todo`, `pc` | what a command has in memory: the context a pre is about to write, the rows of a commit, those it has yet to push |
| `lost`, `unplanned` | history: pages no run recorded; rows made To Apply other than out of the batch |

`Scan`, `Sync`, `FreshPre` / `Topup` followed by `WriteContext`, `Judge`
(fan-out, workers, collect) and `StartCommit`, one push a row, `SaveCommit`.
A pre writes the ledger, then the context; a commit makes pages one by one and
writes the ledger once: `Crash` may come at any of these points.
`FilteredAndFilled` is the filter and the fill-up in any order of the rows: it
says which fates of the rows (refused, over the cap, dead, blocked, batched,
queued) some order gives. Rules, URLs, JDs and verdicts are choices.

Left out: dry runs; auto-dedup; commands beside one another (`ApplyBot` has
what whole-file saves then do); a human or another command moving rows past
To Apply, so that a cap counts To Apply alone; rows outside the cap's window;
the chunks in which URLs are checked; more than the last results file, and a
commit of it after the next fan-out; a Weak result with an unknown archetype,
and a Good one without letter paragraphs. A query to Notion sees every page
created before it.

**`PipelineProofs`** — the theorems of `Prepare` and of `FormDesk`: a row's way
to its application. **`MCPrepare`** — companies, caps, symmetry.

**`Answers`**, **`AtsForms`**, **`FormDesk`** — the form itself, which
`ApplyBot` leaves at "answered or not": three layers.

`Answers` has the pure part: the chain of matchers for standard questions, in
the code's order (the first that does not `Pass` answers), `PickOption`, the
salary, the search of the answer bank with the owner's ratings, and the fill
plan of a form. A label is known by the topics its words name (`Says`), an
option or answer by what it begins with and contains (`Opens`, `Holds`): what
the regular expressions see. `AtsForms` has the addresses (which row leads to
which form, over five redirects or pages at most: `Resolve` is `Follow` five
times), how each adapter reads a form, what typing into a control can come to
(`FillOne`), and how the page after the click is read (`DetectBlocker`,
`WaitForOutcome`).

| state of `FormDesk` | code |
|---|---|
| `bank`, `ratings` | the answer bank in Notion and its local backup; `ratings.json` |
| `version`, `open`, `accepted`, `mails` | the employer: the form on the site, which postings are open, whose application arrived, the mailbox |
| `entry`, `llm` | the job in `apply_context.json`, the answers file |
| `desk`, `reason`, `row` | where the form stands, its outcome, the row |
| `plan`, `held`, `parser`, `signs` | the open page: planned texts, what its controls hold, Lever's resume parser, what the page shows after the click |

No process dies here and the jobs do not meet in the ledger: that is
`ApplyBot`. The 20 seconds by which a mail may precede its click are a choice
(`Click`'s `recent`), question texts are not cut at 120 characters. Two
questions of the bank are one when their labels are; the code compares words.

What texts mean is a table (`Means`, `Truth`), so `FormDesk` names what it takes
for granted of them, and TLC evaluates it on each run. `FormsAssumption`: the
controls of a form have ids of their own and are of kinds its ATS has.
`OptionsAssumption`: an option that opens with a text or contains it does not
contradict it. `FactsAssumption`: each fact and each policy of the applicant is
true of the questions that ask for it. What a question asks for (`AsksFor`) is one
thing, the topics its words name (`Says`) another, and the matchers see only the
words: `MixesTopics` says of a label whether its words give a matcher a turn
before the one whose topic is asked for. `BankAssumption`: what the bank holds is true of its own job's
questions, and a page of a reusable category that does not name its company is
about the applicant. `WordsAssumption`: the language model answers honestly.
None of them says which matcher takes a question, which page of the bank is
found or which answer is typed: that is the code's part, and the properties'.

**`MCFormDesk`** — a Greenhouse job of a known board, a Lever job behind an
aggregator whose form is edited between `pre` and `submit`, an Ashby job, all
of one employer, and a bank with an answer written about another.

**`TsvDedup`**, **`Tracker`** — the upkeep of the ledger against Notion.
`TsvDedup` is `planDedup`: groups, winner, merge, and the final walk that drops
by key. `Tracker` has the sweeps every command starts with, `sync` (pull,
merge, archive of used artifacts), the retro sweep and the dedup of
`validate`, and `add`.

| state of `Tracker` | code |
|---|---|
| `tsv` | the rows of one posting: key, status, page, dates, outreach, artifact |
| `notion` | each key's page |
| `file` | where the artifact is on disk |
| `blocked` | what the profile's blocklists match |
| `proc` | a command: its step, the copy of the file it holds, calls to do |
| `today`, `upsets` | the date; a bound |
| `strayed` | history: jobs whose file a sync moved that died before it saved the path |

Each command is cut where it loads, at each Notion call, at each rename of a
file and at its save. `Crash` may come between any two, a human moves pages
at any time. `Procs` may hold several commands; the run uses one (see Bounds).
A row `add` makes has a key of its own kind, with the day, and the status and
applied date the operator gives (`Entries`); `--force` goes past the duplicate
guard.
The sweep of rows in flight selects by the main status, as the code does, and
so selects nothing. The callout that `sync` writes on the Notion hub is left
out: nothing reads it. What the code collects in file order (sync's map, dedup's
final walk) is a set of places and its walk (`Nth` of **`Subsequences`**: the
n-th of a set of places).

**`TrackerProofs`** — the theorems.

**`Discovery`**, **`Scan`** — the scan of several profiles over one pool.
`Discovery` has the eighteen adapters: each one's page loop and stop
conditions, the retries of `defaultFetch`, and what a flawed record does to it
(dropped alone, or taking the whole target down). An adapter extends its
`reading` of a board by one request, and the board may change between two.
What a filter keeps of a list is `Only` of `Subsequences`, written with `Nth`
where the library has `SelectSeq`, which the provers cannot look into.

| state of `Scan` | code |
|---|---|
| `source`, `traits` | the adapter of each target, what is wrong with a record: chosen once |
| `board` | what the sites list |
| `pool` | `data/jobs.tsv`, shared by the profiles |
| `ledger` | per profile, the rows scan made |
| `proc` | per profile, the scan: the pool it loaded, its readings, its fresh postings |
| `cut`, `upsets` | history: postings whose scan died between the two saves; a bound |

A scan loads the pool before its first request and writes it after its last:
`Merge`, `SavePool`, `SaveLedger` are steps of their own, and two profiles
overwrite each other's pool. `Backfill` is the script that gives pooled
postings their rows. `Fresh` and `Appended` are the two dedups.

**`ScanProofs`** — the theorems. **`MCScan`** — the two boards.

**`Geo`**, **`Screening`**, **`Judgement`** — what the posting rules say, and
what becomes of a row under them. `Geo` is `geo_enforcer.js` and
`jd_workplace.js`, `Screening` the evaluator with the three shapes in which
scan, prepare and validate call it and the passes over a description
(blockers, requirements, pay). Strings are forms: `Marks` says what each
expression of the code finds in a location of that form, a sentence is what
it says and the places it names. `Judgement` has the scan of a posting,
`pre` in four steps (filter, chunks of URLs, texts through the cache, write),
the commit of a batch, the retro sweep and edits of the rules.

| state of `Judgement` | code |
|---|---|
| `posting`, `rules` | the posting, fixed; the profile's rules, edited between commands |
| `row` | status and `skip_reason` |
| `cache` | `jd_cache`: the text under each key |
| `run` | the `pre` under way: queue, live rows, reasons so far |
| `batch` | `prepare_context.json` |
| `why` | history: the last verdict that archived the row, and the geo policy it was made under, whichever command it was |
| `kept`, `edits`, `crashes` | rows that scan let in under the rules in force; bounds |

The lists of a run are sets, in the ledger's order (`First` takes the head of
one): each is a part of the ledger in its order, and so is what is done with it.
One command at a time: `Prepare` has the overlaps, deaths between saves and
Notion. The description of a posting is what its page says at the fetch, and
may differ from an earlier one.

**`JudgementProofs`** — the theorems. **`MCJudgement`** — every form of location, titles, flags and sources, twelve
descriptions, four rule sets.

**`TsvSchema`**, **`Registry`** — the file under everything, and the board
that shows it. `TsvSchema` reads the eight versions of the header and writes
the newest; the cell of a row's places is an array that a spreadsheet may have
quoted, up to the depth the code unwraps. `Padded` is the object spread by which a
reader puts the columns of a line over the defaults of those its version does not
have. The last section of `TsvSchema`, "What a line says", translates no code: it is
the reading of a line cell by cell that the readers are proved against, and
`Registry` assumes it of the files earlier engines left.

| state of `Registry` | code |
|---|---|
| `disk`, `tmp` | `applications.tsv` and the temporary file of a save under way |
| `table`, `edits` | history: the rows as meant; a bound |
| `lock`, `board`, `overlapped` | the board's lock file, its processes, whether two were ever up |
| `bank` | per board: the cached answers and the fetch that requests share |
| `stored` | the answers that have a page in Notion, how many local copies each has, those a push has copied and not yet pushed |
| `request`, `ratings`, `given` | ratings on their way, `ratings.json` in its order, history: the stars each id was last given |
| `page` | the lists the owner looks at, the forms opened from them |

A board probes the lock, listens and writes the lock in three steps; a slow
answer to the probe makes a second board possible, as in the code. The
server's handler is cut at its awaits: bank, second look, read, write. A push of
an answer leaves one more local copy each time (`BackUp`) before Notion is asked
(`PushAnswer`), so that one answer has several ids under one question.

**`RegistryProofs`** — the theorems. **`MCRegistry`** — a file of each version.

## Runs

| run | expects | shows |
|---|---|---|
| `apply_bot` | pass | two jobs of one board through all four commands, `submit` and `open` also side by side, a human setting Applied in Notion: the invariants and step properties below; the submit phase implements `Pool`, and each run ends |
| `apply_rerun_crashed` | violation | a `no_honest_answer` outcome erases the mark of an interrupted submit, the next run clicks |
| `forms` | pass | a Greenhouse and a Lever form from their addresses to their outcomes, edited and closed meanwhile, with the bank, its ratings and the mails |
| `thanks_mail` | violation | with two jobs of one employer, the mail that thanks for one confirms the other |
| `mail_auto` | pass | daily checks with `--reprocess-since`, queries that stop at their first mail, two mails about one job that has a neighbour at the same employer, a crash anywhere, failing Notion calls, a human in Notion |
| `mail_two_phase` | pass | the two-phase check mixed with the daily one, also with `--since`, contexts used twice or late |
| `night` | pass | two nights on one profile, the first dying anywhere: the second waits for the grace, logs it as abandoned and takes over rows, results and lock |
| `prepare` | pass | two jobs of one company and one of another through scans, pres, topups, judgements, commits and syncs, each dying anywhere, Notion refusing or not answering |
| `judgement` | pass | every form of location, title and description under four rule sets, edited at any time: from the scan to the batch |
| `intake` | pass | two profiles scan a board of any adapter and a second one, with a flawed record and one upset: a posting that comes or goes, a request that fails, a death |
| `tracker` | pass | sync, sweeps, validate, dedup and add over the rows of one job, a human in Notion, failing calls, one death or `add --force` |
| `registry` | pass | files of eight versions, saved, cut short and requoted; two boards, two ratings and pushes of the rated answer at once |

Properties of `apply_bot`, in the order of their importance:

- `NeverRequeued`: once the bot pressed Submit for a job, its row passes the
  queue's gates never again, whatever crashed, was not confirmed, was lost on
  its way to Notion or was pulled back from it. The exception is `released`: a
  human's `open` found the posting closed and cleared the bot's state. If the
  Closed push then fails, `sync` makes such a row eligible again.
- `SecondClickOnlyOnRerun`: the bot clicks a second time only if `submit` was
  run again on a context that had been submitted (or after a release).
- `AppliedDateKept`: no step takes an application date away.
- `ClickOnUnrecorded`: what the final guard read still holds at the click: the
  row has not become a recorded application in between, unless a human applied
  in an `open` window beside the run. The code does not exclude that case: the
  mark of a submit in flight and that of a crashed one look alike, and `open`
  lets a human open a row that carries it. Two workers of a run, which share the
  file, are kept apart by the mutex.
- `SubmitEnds`, `SubmitKeepsPoolPromise`: the pool hands out every job once, one
  form of a board at a time, and the run ends although `pump` stops while a
  pending job waits for its board.

Properties of the mail runs:

- `ProcessedWasHandled`: an id reaches `processed_messages.json` only after its
  mail was dealt with, wherever a run died. A mail whose Notion call failed
  counts as dealt with: the code counts the error and remembers the mail.
- `CommentsBounded`: a mail is commented on once, and once more for each run
  cut short, each reprocessing, and each apply phase on a context that was
  used or superseded. Three mechanisms hold this together: the ids, the window
  and the pruning of ids as old as the longest window.
- `NoMailSkipped`: the cursor passes only mails a run looked at, or was right
  to leave out: outside every query, outside the operator's `--since`, older
  than `MAX_DAYS`, or, and these the code does let through, come between the
  reading of the mails and the apply phase (`late`) or left out by a query that
  had older mails up to its limit (`cut`). With the limit an exception, the
  property is about everything else that moves the cursor.
- `LedgerAgrees`: between runs a row has its page's status, two mails about
  one job in one run included, unless a human moved the page, the comment
  failed after the page had moved, or the run died; sync repairs these.
- `MailsHandled`: every mail is looked at in the end, or was left out by the
  limit of a query.

Properties of the night run. All but the last two speak of nights that nothing
`disturbed`: no two starts overlapped, and no session ran on past its deadline
and the grace. The code excludes neither: the lock is read and written in two
steps, and nothing stops a machine that slept through its deadline. In both
cases two sessions work on one profile, and a `finish` then closes whichever
night the lock names.

- `OneNight`: one session works on the profile at a time.
- `NoNightLost`: a night that took the lock has its line or still its lock,
  wherever it and the starts after it died.
- `LoggedOnce`: one line a night, one more only if a session died between the
  line and the removal of the lock.
- `CommitsInboxRows`: what a session commits are rows still in Inbox, although
  result files outlive rounds and nights and the commit does not look.
- `PreLeavesNothingFresh`: after an apply pre no row is fresh for that night.
- `NightEnds`: a night that took the lock ends, by a decision or by dying.
  Only the deadline gives this: a row worker that never answers leaves the
  Inbox not exhausted, and the loop goes round.

Properties of the prepare run:

- `PageBacked`: the saved ledger says To Apply only of rows with a page id, and
  the page is there. A commit promotes first and pushes later, so this hangs on
  the revert of every failure and on the one save at the end.
- `OnePage`: no job has two pages, although a commit that dies before its save
  leaves pages nobody knows of, and a lost answer does too.
- `CapHolds`: rows promoted out of the batch stay within their company's cap.
  No commit looks at the cap; the room was counted by the pre, a topup counts
  the batch as well, and a pre that dies leaves the older batch in force.
  Carry-overs, rows of older batches and pages found by sync are `unplanned`
  and come on top: the code lets them.
- `ReadyIsComplete`: a To Apply row has its verdict and, unless Weak, its
  letter. The exception is a page that was made and not recorded: sync
  promotes its row without either, and such a row enters the apply queue.
- `WeakNotRejudged`: a row known as Weak is not handed to a worker again.

Properties of the form runs:

- `AnswersHonest`: what `pre` puts into the context is true of the question it
  answers, a standard answer as well as one from the bank, and nothing written
  about another employer is offered to this one. The order of the matchers and
  the search of the bank carry this. The exception is a standard answer to a
  question that `MixesTopics`: the run has one ("authorized without
  sponsorship"), which the code answers with the fact about sponsorship. A label
  that only gives a later matcher's topic as an example ("authorized, e.g. a
  citizen") is not excepted.
- `SentAsPlanned`: at the click each required control holds what was planned
  for the question the form then asks. It takes the right entry for an edited
  form, the files before the wait for Lever's parser, and the check before the
  click. Left out, because the code lets them go: a suggestion picked from a
  search, and fields rewritten by a parser that outlived the 25 s wait.

Properties of the judgement run:

- `PlaceKept`: a job is archived for its place only where the rules say so.
  Its first half, `HomeKept`, is about scan, `pre` and `validate` alike and about
  each of the nine verdicts they give on a place (`PlaceReasons`): under
  `home_state_or_remote` a job with a location in the home state is not archived
  for any of them. The exceptions are what the code does: a place the owner
  blocks; "Ontario, CA", read as Canada (`homeTwin`); a county, whose text says
  home but not the country, next to a place of the location blocklist; and a
  title tied to another region. Its second half is about the text: archived for
  its description (`geo_jd_not_remote`) means that the text's header does not say
  remote, that it does not outright say so, and that it names an office outside
  its small talk, in whatever order its sentences come and whichever posting the
  cached text was fetched for.
- `PayKept`: archived for its pay means that the text publishes some and each
  yearly range of it tops out below a floor the owner has set.
- `StagesAgree`: scan, `pre` and `validate` judge a posting through three
  shapes with different columns; while the rules stand, what scan let in is not
  archived by the others for its company, title or place. The source's own
  remote flag, which only scan sees, is the exception.
- `RowsSettle`: no row stays in Inbox for good.

Properties of the intake run:

- `ReadingComplete`: an adapter that finishes a board which stood still has
  found all there is to find: short pages, totals and flawed records end no
  page loop early.
- `OneRowPerRole`: a role has one row in a profile's ledger, whichever source,
  repost or overwritten pool brings it up again.
- `PooledHasRow`: a pooled posting, never fresh again, has its row, unless its
  scan died between the two saves.
- `ListedGetsRow`: a posting that stays listed on a board its adapter can read
  has in the end its role in a ledger. Two things the code lets happen with the
  shared pool are excepted in the formula: the ledger may be the other profile's,
  whose scan had the role first, and the row an Archived one; and a posting
  pooled by a scan that died before its second save is fresh for nobody, and has
  no row for as long as it is in the pool. An overwrite of the pool, a repost or
  the backfill script ends that.

Properties of the tracker run:

- `PostingKept`: no command loses a posting, whatever it merges or collapses. The
  exception is a posting that stands twice under one key, which two forced adds
  of a day make: dedup's last walk drops both rows (see Findings). One command
  runs at a time.
- `AnchorKept`: a row that stays Applied keeps the date it was stamped with; of
  two rows under one key, sync keeps the one it comes to last.
- `PathNamesFile`: a row's artifact path names the file, through failing moves and
  deaths anywhere. A sync moves files and saves their paths after the last, so
  while it runs the saved path of a moved file is the old one, and it stays that
  if the sync dies (`strayed`, for that file alone): no later sync finds the file
  at its old place.
- `OverdueLeaves`, `LedgerFollowsNotion`: again and again no overdue row is
  Applied in Notion, and the file agrees with Notion on every row with a page. They
  do not speak of what is lost on the way: a sweep that loaded Applied and finds
  the page at Interview when its call gets through writes No Response over it
  (`auto_no_response_sweep.js:115`), and both then agree.

Properties of the registry run:

- `RowsKept`: whatever version of the file a command finds, and however saves
  were cut short or a spreadsheet quoted its cells, a reader finds the rows
  that were last written, their places unquoted again. Cells of other columns
  keep the quotes a spreadsheet gave them, for good: there the rows are compared
  without them (`Bares`).
- `RatingsKept`: while no second board was ever up, an answer whose page was rated
  has the rating the page was last given, and one of which only a local copy was
  rated, while Notion did not answer, has that copy's, although requests share a
  cached fetch, rewrite one file, and pushes add copies meanwhile. The exception
  is an answer with two rated copies: the first of them in the file is shown,
  whichever was rated later. With two boards a rating can be lost.

**Bounds of `apply_bot`.** Two jobs of one company and one ATS board, both
eligible: both are queued in one run, the second waits for the board of the
first, and while one is in flight the other's row may be rewritten. What the run
does not bind: the cap (two) and `--limit` (five) never cut the queue, and the
slots (two) are never all taken, since the board is; the pool theorem has them.
No job is out of area here (that branch of `pre` is in `apply_rerun_crashed` and
in the proofs), and the human opens and edits `j1` only (`ByHand`), to keep the
space within reach of a run (1.8 million states, with liveness). The human edits
only Applied; the theorems cover To Apply as well, and any number of jobs. Runs of
commands are not bounded: the reachable states are finite as they are.

**Fairness** (`FairSpec`, used by `apply_bot`): weak fairness of the submit run as
a whole: while some worker has a step or the run can end, one of these is taken
in the end. Each worker has finitely many steps, so that is all the run needs. Browser steps carry timeouts in
the adapters, the mailbox wait has a deadline, file writes are synchronous,
and the pool's `pump` runs after each worker. Nothing is assumed of the
operator, of Notion or of a human at the form. The process may still die.

**Bounds and fairness of the mail runs.** Two mails about one job, or a lead
and a mail: two mails meet in one batch, in two runs, or on both sides of a
window. `MaxResults` 1 makes a query of two hits leave one out, as 1000 do with
1001. `MaxClock` 3 with `MaxDays` 2 lets a mail arrive, be handled, and its
id be pruned; `MaxMishaps` 1 gives one crash, reprocessing or stale context.
The theorems hold for any number of each. `FairSpec` (used by `mail_auto`):
cron starts a check every day (`StartAuto`), and a started one goes on: the
mailbox and Notion calls answer or throw, the writes are synchronous. That
crashes are bounded is part of the claim: a check that dies every day handles
nothing.

**Bounds and fairness of the night run.** Two nights, one death: enough for a
night to die, be closed by the next, and for that one to die in turn or be
refused. Two rows with a minimal batch of two and a target of two: fewer rows
than the batch, a batch, a target reached. A deadline one tick away, a grace
of one tick and four ticks of clock give one takeover with time left. TLC
follows behaviours up to the disturbance (`CONSTRAINT Undisturbed`), since
what comes after is not what the invariants speak of and would double the
states; the theorems have no such limit. `NightEnds` is therefore checked for
undisturbed behaviours. `FairSpec`: time passes, and a session that is not
dead takes its next step: each command ends or is cut off, and the runbook
gives the step after it.

**Bounds of the prepare run.** Two jobs of one company with a cap of one meet
at the cap, a third makes the batch of one full and the queue non-empty, so
that topups come. Nothing else is bounded: commands and deaths come in any
number (5.3 million states). The jobs of `c1` are symmetric: `MCCompanyOf` and
`MCCap` treat them alike, and no property names a job.

**Bounds of the form runs.** Two jobs in the middle of everything: one job with
a bank shows the answers, two show the mails. `forms` has Greenhouse and Lever,
whose page and form differ most; `thanks_mail` Greenhouse and Ashby. The labels
are of one topic, of a topic with another as its example, and of two; of the
bank's pages one names its company in a reusable category. One rating.
Everything else is finite.

**Bounds of the judgement run.** Job `a` takes every form there is, job `b` is
another of the same company, for the cap and the chunks (`ChunkFloor` 2,
`Target` 1); one edit of the rules and one death (785 thousand states). `FairSpec`: the operator keeps
running `prepare` and commits batches; a page may stay unreachable for ever.

**Bounds of the intake run.** The eighteen adapters, and a source without one,
take turns on board `t`, which has two pages and a role posted twice; board `u`
shows a role of `t` to the other profile. `PageSize`, `MaxPages`, `MaxQueries` and `MaxTries`
are 2: a full page, a last one, a second search and a retry. Two profiles at
once overwrite each other's pool. One upset (158 thousand states).
Fairness: a process goes on until it ends, scans are started again and again,
and of those that come to their end some are no dry runs; requests are answered
or fail, which is up to the sites.

**Bounds of the tracker run.** The keys of one job: a scanned posting's in both
spellings, which dedup and sync can confuse, and those of entry by hand on each
day. `add` enters it as Applied with a date of the operator's, or as Archived, which
the duplicate guard lets pass a second time. A threshold of one day, two days; one
upset: a death, an edit of the rules, an outreach message or an `add --force`.
136 thousand states. One command at a time
(`Procs = {1}`): the eight workers of its Notion calls run one after the other,
and what whole-file saves beside one another do is in `ApplyBot`. Fairness: a
command goes on, `sync` is started again and again, and a Notion call made
again and again gets through some day.

**Bounds of the registry run.** A file of each version and none; one edit, in
each state of the file; the title holds quotation marks. Two boards and two
ratings of one answer, which has a page or not and up to two local copies
(`MaxCopies`): a rating of the page and of a copy, of both copies, of one id
twice with other stars, one cleared, one refused; a push while they wait.
The file and the board meet where the board reads the file, and reading one
version of it is as reading another (`OneFileAtTheBoard`); after two boards were
up at once nothing is said of the ratings and TLC goes no further
(`UntilOverlap`); boards and requests are symmetric, and the properties are
invariants. 672 thousand states.

**Which commands run alone.** `Alone` is the set of commands that start only
when no other runs and let no other start. The code enforces nothing of the
kind; the night skill's sequence and one operator do. The passing runs and the
safety theorems assume `{"pre", "sync"} \subseteq Alone`: the two commands
that save the whole file they loaded run beside nothing. `submit` and `open`
read and write single rows and may overlap. Type correctness and the pool
theorem do not need the assumption; without it a `pre` beside an `open`
overwrites a recorded application. Of one
command there is one process at a time: two `submit` processes at once (the
mutex is inside one process) are not modelled.

## Proofs

`ApplyBotProofs` is checked by TLAPS for every value of the constants that
satisfies `ConstantsAssumption`.

- `TypeCorrect`: `Spec => []TypeOK`.
- `Inductive`: under `WholeFileSavers \subseteq Alone`, `Spec => []IInv`. None of the properties is
  inductive by itself. `NeverRequeued` speaks of the current status, which
  `sync` may change at any time, so the invariant says more: the row of a
  clicked job is `Held`, whatever its status (a date, a final bot state, or the
  interrupted-submit mark). That a click lands on a held row is because the
  mark is on disk before it (`ClicksOnRecord`). That `pre` and `sync` put no
  older row back is because their snapshots equal the file (`FreshSnapshots`),
  which is where the two savers must be apart from the rest (`KeptApart`). For
  `SecondClickOnlyOnRerun` the invariant follows the jobs from the queue over
  the context to the worker (`ClicksAhead`, `RunsCounted`).
- `ClickedStaysOut`, `OneClickPerContext`, `GuardStillHolds`, `DatesKept`: the
  properties of `apply_bot`, from `IInv`. `DryRunIsDry`: no step of a dry submit
  run writes a row or clicks (`DryRunTouchesNothing`, which is only proved).
- `SubmitImplementsPool`: `Spec => SubmitKeepsPoolPromise`, each step of the
  submit phase a step of `Pool` or a stutter; commands may overlap.

The proof of `ApplyBot` looks at a worker's fifteen steps once, in `WorkerEffects`: a worker
moves on, writes the mark, clicks or settles its row; the invariants then have
four cases.

`MailCheckProofs` proves `TypeCorrect`, `HandledBeforeRemembered`,
`CommentsStayBounded`, `CursorSkipsNothing` and `RowsFollowPages`, the four
safety properties of the mail runs, from one invariant with no assumption but
those on the constants. Before them come two theorems on the matcher itself:
`OneMatch` (no two rows match one mail; that is where the file's finite number of
rows and their distinct places are used) and `MatchNamesEmployer`. None of the four is inductive: what is true between
runs depends on what a run in progress still has in hand. So the invariant
says, for each phase, what that is (`RunShape`), and restates each property
for a run in the middle: a mail of the batch is handled or one of the
remaining steps will handle it (`BatchAhead`); up to the time the cursor is
about to be set to, each mail is seen or in the batch (`Covered`); a mail with
no comment left to it is out of reach of the window, of the ids and of the
hand-over (`CommentsAhead`); the status a row is about to get is its page's
(`PagesAgree`). Each part is kept by each action (one lemma a part, one step
an action).

`NightRunProofs` proves `TypeCorrect`, `OneNightAtATime`,
`EveryNightAccountedFor`, `OneLinePerNight`, `OnlyInboxCommitted` and
`NoRowTwice`, for any nights and rows, with no assumption but
`ConstantsAssumption`. The invariant behind them: while nothing is disturbed,
at most one session is under way, in its start, its loop or its finish
(`Alone`); it is within its deadline and the grace (`InTime`); so what it read
of the lock and of the log is what they still say (`Holds`); the lock's night
has no line yet, but for torn deaths (`Lines`); and the batch in hand is in
Inbox (`Batches`). That a start finds nobody under way (`StartsAlone`) is where
the staleness test and the grace are needed.

The first half of `PipelineProofs` proves the six properties of `prepare` (`TypeCorrect`,
`PagesBacked`, `OnePagePerJob`, `CapsHold`, `ReadyRowsComplete`,
`WeakStaysJudged`) for any rows, companies, caps and batch size. The invariant:
a row, saved or in the hands of a commit, is To Apply exactly if it has its
page or is still to be pushed (`RowsSound`); a page the ledger does not know of
is on its way there, or lost (`Accounted`), so that a second create always
finds the first; a carried-over row is Weak and stays it (`Carried`); rows of a
batch or with a verdict are rows of the ledger (`Known`). For the cap it is not
enough to count To Apply rows: the batch promises the rest, so the invariant
bounds the two together, for the context in force and for the one being
written (`CapRoom`). The proof first shows what a step does to the rows
(`PreSteps`, `StartCommitDoes`, `PushSteps`), then one lemma an action; the cap
comes last, from a lemma on the cardinality of unions (`CountBound`): only a
pre claims rows (`PreRoom`), every other step claims none (`Unclaimed`).

The second half of `PipelineProofs` is about `FormDesk`, for any forms, options,
facts, banks, ratings and mails that meet the five assumptions above.
`MatchQuestionTrue`: whatever options a question has, the first matcher that
takes it gives an answer that is true of it, unless the question mixes topics.
What it asks is not assumed to be what its matcher answers: `FactsAssumption`
speaks of the topic asked for (`AsksFor`), the matchers see the words, and the
theorem shows that the order of the chain brings the two together for every
label in which no earlier matcher's word stands. No
matcher is right by itself: each is shown right for the questions that those
before it let pass (`Passed`, `NotPassed`), and the order of the chain is what
the proof uses. `DeskAnswersHonest` carries that to the context, with the search
of the bank (`SearchBankFinds`, `BankIsTrue`: a page of another job is
found only in a reusable category and if it does not name its company).
`DeskSentAsPlanned` needs to know, step by step, what is on the page: `DeskInv`
says of an open form that each field has its planned text, which fits the options
and is not missing where it is required (`Laid`); that what is typed holds the
plan or nothing (`Filled`: the files while the parser may run, everything once
it is done); and that from `checked` on it holds the plan, since a required
control that holds nothing does not pass the check. A parser that is running has
the form at `typing`, so a late one is `outrun`. Under it lies what the tables
of the three systems do: fields of one form have ids of their own
(`FieldsApart`), and typing a fitting text into a control that is not a search
leaves that text or nothing (`GreenhouseHolds`, `LeverHolds`, `AshbyHolds`). An
address followed over its redirects ends at a form or at a reason
(`ResolveIsForm`).

Three more follow from `DeskInv` and are proved, not run. `DeskPlansHonest`:
each text planned for a control is true of the question above it, if that does
not mix topics and an edit of the form leaves ids with their questions
(`StableIds`). The hypothesis is
needed: `buildFillPlan` looks for an answer by id first, and on a form whose
edit puts another question under an old id TLC finds the answer of the old one
planned. `DeskSubmittedToCompany`: a row says submitted only if some job of its
company has an application, by `Thanked`: a page or a mail says thanks only for
one that is in. `DeskSubmittedWasAccepted`: where no two jobs share a company,
what `thanks_mail` refutes holds, so the shared first word is its only way.

`ScanProofs` proves `RolesHaveOneRow` and `PoolsHaveRows` for any profiles,
targets, postings and adapters, whatever the adapters read. The invariant: the
pool has each role once, and so has what any scan is about to write over it
(`PoolsDistinct`, from what `Fresh` lets through); and what a scan loaded stays
accounted for (`SnapshotsAccounted`), since it may put back the pool of its
start over that of another profile. The helpers come first: `FreshDistinct`,
`AppendedDoes`, `FreshGetRows`.

It also proves `ReadingComplete`, for any boards, page size and page caps, under
`FewFlawed`: fewer records with a flaw than a page holds. Three of the adapters
that read HTML (iCIMS, Talentbrew, Taleo) stop at a page on which they can read
no row, and a page full of flawed rows would end them early; with fewer there is
a row on every page but those past the end (`SomeRow`). A search is a conversation of
many requests, so the property is inductive only with what is true half-way
(`RInv`, theorem `ReadingsInductive`): a board has each posting once, and while it
stands still and answers, a search has read exactly the records of the pages it
asked for so far (`ReadSoFar`), at its end all that the adapter may read
(`ReadThrough`), and what it has of the searches before is all there is
(`Sound`). The proof goes from slices and filters of sequences (`ServedDoes`,
`OnlyDoes`) to pages (`PagesDoes`), to one lemma for each adapter (`WorkdayReads`
to `TaleoReads`, together `RequestedReads`), to the steps of a scan.

`RegistryProofs` proves the two properties of the registry run: `RatingsStay` for
any boards, requests, answers and number of copies, and `RowsStay` for any old
files, tables, edits and texts with quotes. The invariant of the board: a request under way belongs to a board that is up, and one of
a board is between its read and its write (`Served`); while no second board was
up, what it read is what the file says (`Read`), and the file has for each id,
page or copy, the rating it was last given (`Rated`): setting one rating neither
brings nor takes another (`SetRatingDoes`). What a reader of the bank then sees
of an answer with one rated id is that id's (`FirstIsOne`).

The invariant of the file (`FileInv`): the file on the disk has the rows of
`table` by the reference reading, `IsFileOf`, and a temporary file holds rows. Each
cell says what its column says of the row, under the header's own names and but for a
spreadsheet's quotes, and a column the version lacks has its default. From there:

1. Sizes and names of the eight headers (`HeadersAre`) give that each reader returns
   the row its line was written from (`VersionsRead`, and `VersionEightReads`, which
   reads the last three columns by position after version 7's reader), so loading
   the file gives `table`, texts without a spreadsheet's quotes (`FileReads`).
2. Places that are texts and not blank survive their cell (`PlacesReturn`: the three
   levels of unwrapping leave a flat list alone), and a spreadsheet's quotes on them
   go (`QuotesGo`). So the writer's line says the row (`LineWritten`, `SavedFile`),
   and a cell put in quotes says what it said (`QuotedSays`, `SheetKeepsFile`).
3. An added or edited row is a row (`NewRowIsRow`, `EditedRowIsRow`), and a save that
   dies changes nothing on the disk.

Three assumptions of weight, which TLC evaluates in the registry run: `OldFilesAssumption`, that
an old file has the rows of its table cell by cell (the run has one for each
version, and version 8 with places wrapped twice); `EditsAssumption`, that a
command sets columns the file has, and the places to texts that are not blank; and
`WithQuotesAssumption`, that what holds quotation marks is a plain text.
In the reference reading, what a places cell says is what `DecodeLocations` makes of
it: for files this engine wrote, `PlacesReturn` says that these are the places that
were put in, and for older ones the assumption does.

`JudgementProofs` proves the three safety properties of the judgement run
(`StagesAlwaysAgree`, `PlaceStaysKept`, `PayStaysKept`) and, of the second,
the half on places at home by itself (`HomeStaysKept`), for any postings, descriptions,
rules, batch size, number of rows, edits and deaths. `ConstantsAssumption` says
what a posting, a profile's rules and a description are made of; a description
has any sentences and any finite number of amounts. The first half is about the
evaluator alone: a posting that passes with an adapter's flag that does not say
remote passes without it (`FlagOnlyHinders`), so what passes in scan's shape
passes in validate's and, but for prepare's own reasons, in the two shapes of
prepare (`ShapesAgree`); a place in the home state, but for the exceptions of
`HomeKept`, is enough for the policy (`HomePasses`), is on no list
(`HomeNotListed`), and so no command's verdict is one of the nine on places, nor
the text's (`HomeNotTurnedDown`); a text that drops a job does as its module
promises (`DropsAsPromised`); and the
highest amount a text publishes is there to be compared (`Greatest`, by induction
on the size of a set). The second half carries that through the runs: the jobs in
`kept` passed scan under the rules that hold (`KeptPassed`: the rules change only
between commands, and then `kept` is emptied), and what a `pre` has skipped so
far it skipped for an allowed reason (`SkipsAllowed`). What archived a row is
remembered with the policy of its time (`HomeRecorded`), since the rules may have
changed by the time somebody looks.

`TrackerProofs` proves `PathsNameFiles`, `PostingsStay` and `AnchorsStay`, the
safety properties of the tracker run, and `TrackerTyped`, for any jobs,
threshold, number of days, entries and bounds, under one hypothesis, `OneAtATime`: at most
one command is under way; two whose saves overlap put each other's rows back.
`add --force` is part of what is proved: it may put a key into the file twice, and
what dedup's final walk, which drops by key alone, then takes is exactly what
`PostingKept` excepts (`Doubled`). What a step owes
to the file is one fact, `Saves`: no posting goes that stands once under its keys,
and no anchor moves of a row that has its key to itself. It holds
of a step only because of what the invariant `IInv` says besides. Of a
job's rows at most one names an artifact (`LoneArt`), so that moving a file
settles the only path that names it; a path is behind its file only for what a
running sync has in memory or died with (`InPlace`, `Behind`). Nothing is called archived that was not
moved (`Archived`), also in the copy of a command that is half through its moves.
And the copy a command holds is the file's rows, changed only in what the steps
since its load may change (`Holds`). The proof takes the operators first, each
with what it keeps of the rows (`KeyedRowsKeep`, `PulledRowsKeep`, `AddedRowsNew`,
`MergedRowsKeep`, `WinnerIn`, `MergedRowShape`, `DedupedRowsKeep`), then each
action.

The type invariants of `MailCheck`, `NightRun`, `Prepare` and `Tracker` are proved
and not run; `TypeOK` of `Scan` and `Judgement` documents the state.

Each safety invariant and each action property of a passing run that can be
violated in finite time is now a theorem. Only model-checked are the liveness
properties (`SubmitEnds`, `MailsHandled`, `NightEnds`, `RowsSettle`,
`ListedGetsRow`, `OverdueLeaves`, `LedgerFollowsNotion`): they rest on fairness,
out of this prover's reach.

## Findings

1. The mark of an interrupted submit can be erased: `no_honest_answer` is
   decided before the guard and written over the note (`apply_rerun_crashed`).
   The same path sets `apply_state` manual on a row that is already Applied.
2. A mail of the employer that thanks for an application confirms every job of
   the company that waits (`thanks_mail`): `findConfirmation` knows a mail by
   the first word of the company, and unlike a code it is not used up.

Seen while modelling, and not given a run of its own. Apply:

- `alreadyApplied` does not look at `apply_state` failed or manual: a second
  submit on one context clicks a failed row again (`apply.js:28` says never
  retried).
- `pre` saves the rows it loaded before the browser work (`apply.js:710`; the
  comment at 39 says the file is read again each time).
- A standard question that names two topics gets the fact of the first matcher
  that takes it: "authorized to work in the US without visa sponsorship?" goes to
  `matchSponsorship` and is answered "No" (`question_match.js:151`).
- An answer is placed by field id before its label (`buildFillPlan`; see
  `DeskPlansHonest`); "No"
  matches the option "Not sure" (`pickOption`); an Ashby combobox takes the
  first suggestion; `lever.js` says the pre-submit check catches a field the
  parser clears, but nothing is checked after a parser that is late.
- The skip for a salary below the floor is not written to the row, which stays
  in the queue.
- The first ATS link of a careers page is taken, and an aggregator's 404 behind
  a blocked browser stays `url_dead`.

Mail check:

- Of the patterns of an invitation "schedule an interview" is tried first, so an
  acknowledgment with a condition is demoted even if it also says "your
  interview is on ..." (`classifier.js:14` says such mails never are).
- With one active row of an employer left, any mail of that employer moves it,
  whatever role the mail names (`findRole`).
- `email_matcher.js:8` says all tokens of a name must appear; one is enough
  (`scoreSynonyms`).
- `check --apply` filters by the ids of its context, never by
  `processed_messages.json`: run twice it posts everything twice.
- A missing `raw_emails.json` reads as "no mails" and the cursor moves on.
- `--reprocess-since` repeats the comment of an invitation, since Interview is
  an active status; an invitation handled after a rejection in the same run
  reopens the job; the guard on `SKIP_STATUSES` never fires; a query stops at
  its first 1000 mails (`gmail_imap.js:271`) and the cursor passes the rest
  (`cut` in `NoMailSkipped`).

Prepare and the posting rules:

- An escalated row, saved "so the row doesn't re-enter the SKILL", does
  re-enter it: `filterAlreadyEvaluated` drops Weak rows only.
- A network outage archives rows as `url_dead`; `company_cap` archives for good;
  live pages beyond the target are checked and left.
- "Ontario, CA", a city of the home state, reads as Canada
  (`geo_enforcer.js:401`), a county named without its country is dropped by the
  location blocklist if a blocked place stands beside it, and "Remote in Germany" as Indiana; the
  structured remote flag that `geo_enforcer.js:591` calls authoritative is not
  a column, so `prepare` judges without it (`prepare.js:272`).
- Descriptions of Workable are never fetched, since only three boards' URLs
  give a slug; a description of Greenhouse or Lever without text is cached as
  a header and never fetched again.

Scan, sync, upkeep, board:

- A flawed record of Greenhouse, Lever, Ashby or SmartRecruiters loses the
  whole target; SmartRecruiters reads its first page only; a missing id becomes
  the string "undefined".
- A scan that dies between its two saves leaves pooled postings without rows.
  The pool is kept unfiltered since "a job rejected by this profile may be valid
  for another" (`commands/scan.js:319`), but what is pooled is fresh for nobody
  (`core/scan.js:75`); `backfill_apps_from_pool` mends it where a target names
  the profile, as To Apply.
- The sweep of rows in flight tests the main status (`cli.js:457`), which never
  holds In flight; sweeps run before a dry run change the files; the sweep of
  `validate` archives To Apply rows in the file and leaves their pages.
- The sweep pushes No Response to the page of a row it loaded as Applied without
  looking at the page: an Interview set meanwhile is overwritten, and the next
  pull brings that back (`auto_no_response_sweep.js:115`).
- The final walk of `tsv_dedup.js` (266) drops by key alone. `add --force` twice on
  a day makes two rows of one key (`cli.js:77`, `manual_job.js:133`), and
  the next dedup drops both.
- A sync that dies between a move and its save leaves the row on the old path for
  good: `planArchiveMoves` then finds no file there.
- Two boards can be up when the probe is slow; a fresh fetch of the bank joins
  an older one; a rating of a local copy is not seen once the page is rated, and of two
  rated copies the first in the file counts, whichever is later: `answer_bank.js:92`
  says such ratings are kept "so they still reach the Notion row".
- Cells of text other than the places, once a spreadsheet has quoted them, are
  read with their quotes.

## Not modelled

- Resume tailoring and fit scoring: prompts to a language model; their results
  are choices in `Prepare`.
- Document generators, reports, weekly statistics, health logs: read state and
  write text that no command reads back.
- Profile loading and configuration: read once at the start; the order in which
  `cli.js` runs sweeps, pre-hooks and the handler is in `Tracker`.
- Migrations, legacy import, the Notion hub layout and other one-off scripts:
  run by hand once over data of an older version.
- `companies_upsert` and `reclassify`: one-shot edits of files that the other
  commands only read. `validate`'s reports of URLs, hygiene and documents.
- The text level everywhere: regular expressions are tables of the forms they
  tell apart, selectors and HTML are what they find.

## How the modules fit together

`Ledger` and `Pool` are extended and instantiated by `ApplyBot`. `Answers`,
`AtsForms`, `FormDesk`; `TsvDedup`, `Tracker`; `Discovery`, `Scan`;
`TsvSchema`, `Registry` (these three over `Subsequences`); `Geo`,
`Screening`, `Judgement`; `Mailroom`, `MailCheck` are
chains of EXTENDS, the pure part first. What one module leaves as a choice, another decides: the
forms and mails of `ApplyBot` in `FormDesk`; the fates of rows in `Prepare` in
`Judgement`; the rows that `Prepare`'s scan finds in `Scan`; the save of a
ledger, one step everywhere, in `Registry`; the commands of a night in
`ApplyBot` and `Prepare`.

What would come next: two commands side by side in `Tracker`; deaths in
`FormDesk`, as a refinement of the worker of `ApplyBot`; `companies_upsert` beside a scan.
