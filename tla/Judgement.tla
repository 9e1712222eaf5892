----------------------------- MODULE Judgement -----------------------------
(***************************************************************************)
(* The way of a posting from the scan to the batch a human works through:  *)
(* judged by scan, by every prepare --phase pre over its row, its page and *)
(* its description, and again by validate, under rules the operator edits. *)
(* One command at a time; the commit of a batch stands for all of          *)
(* prepare's second half, the overlaps of commands are in Prepare.         *)
(***************************************************************************)
EXTENDS Screening, SequencesExt

CONSTANTS
  Order,        \* the jobs, in the order of the ledger's rows
  Postings,     \* [job -> what its posting may be]
  Descriptions, \* [job -> what its page may say of the job]
  RuleSets,     \* the rules the operator may set
  Target,       \* batchSize
  ChunkFloor,   \* the least chunk of urls, 5 in the code
  MaxEdits,     \* bound: edits of the rules
  MaxCrashes,   \* bound: deaths of a prepare
  NoText, Nobody

Jobs == ToSet(Order)

PostingType ==
  [source : STRING, locs : SUBSET Forms, flag : {"remote", "nonRemote", "none"},
   title : SUBSET STRING, company : STRING, id : STRING \X STRING, url : BOOLEAN]

RulesType ==
  [companies : SUBSET STRING, require : BOOLEAN, unwanted : BOOLEAN, listed : BOOLEAN,
   cap : Nat, remoteOk : BOOLEAN, floor : Nat,
   mode : {"unrestricted", "metro", "us-wide", "remote-only", "home_state_or_remote"},
   demands : [minYears : Nat, maxYears : Nat, certs : BOOLEAN, fields : SUBSET SUBSET STRING]]

Said == [says : SUBSET STRING, places : SUBSET STRING]

TextType ==
  [schedule : {"none", "remote", "hybrid", "onsite"}, location : Said, sentences : SUBSET Said,
   lines : Seq([says : SUBSET STRING, years : Nat]), hits : SUBSET STRING,
   amounts : SUBSET [top : Nat, kind : {"range", "single", "other"}, section : BOOLEAN],
   body : BOOLEAN]

ASSUME ConstantsAssumption ==
  /\ IsInjective(Order) /\ Target \in Nat \ {0} /\ ChunkFloor \in Nat \ {0}
  /\ MaxEdits \in Nat /\ MaxCrashes \in Nat
  /\ \A j \in Jobs : Postings[j] \subseteq PostingType
  /\ RuleSets \subseteq RulesType
  /\ \A j \in Jobs : Descriptions[j] \subseteq {d \in TextType : IsFiniteSet(d.amounts)}

VARIABLES
  posting, \* what each job's posting says, fixed from the start
  rules,   \* the profile's rules
  row,     \* applications.tsv: [status, reason] of each job, "unseen" before its scan
  cache,   \* jd_cache: the text under each key and, for reading only, whose it is
  run,     \* the prepare under way
  batch,   \* prepare_context.json: the jobs of the last batch
  kept,    \* history: the jobs a scan let in under the rules that still hold
  why,     \* history: the [verdict, mode] each job was last archived by, whichever command did
  edits, crashes

vars == <<posting, rules, row, cache, run, batch, kept, why, edits, crashes>>

Idle == [at |-> "idle", queue |-> {}, skip |-> [j \in Jobs |-> "none"], alive |-> {}]

-----------------------------------------------------------------------------
(* The company is in the url of these boards only; the ledger keeps no     *)
(* other trace of it, and the key of the cache none without it.            *)
ParseSlugFromUrl(p) == IF p.source \in {"greenhouse", "lever", "ashby"} THEN p.company ELSE "none"

(* An id is its first sixty characters and the rest.                       *)
CacheKey(p) == <<p.source, ParseSlugFromUrl(p), p.id[1]>>
Keys == {CacheKey(p) : p \in UNION {Postings[j] : j \in Jobs}}

Supported ==
  {"greenhouse", "lever", "workday", "icims", "taleo", "workable", "ashby", "ultipro"}

(* The address of a workable description takes the slug.                   *)
BuildWorkableApiUrl(p) == ParseSlugFromUrl(p) # "none"

(* The two apis whose empty description still makes a file.                *)
FormatGreenhouse(d) == [d EXCEPT !.schedule = "none"]
FormatLever(d) == [d EXCEPT !.schedule = "none"]

(* The sources whose header line tells remote from hybrid and onsite, when *)
(* the posting has a body at all.                                          *)
FormatWorkable(d) == IF d.body THEN d ELSE NoText
FormatAshby(d) == IF d.body THEN d ELSE NoText

(* The others: their header line, if any, holds the hours only.            *)
FormatWorkday(d) == IF d.body THEN [d EXCEPT !.schedule = "none"] ELSE NoText
FormatTaleo(d) == IF d.body THEN [d EXCEPT !.schedule = "none"] ELSE NoText
FormatIcims(d) == IF d.body THEN [d EXCEPT !.schedule = "none"] ELSE NoText
FormatUltipro(d) == IF d.body THEN [d EXCEPT !.schedule = "none"] ELSE NoText

(* fetchJd on a missing file: the text the page gives, NoText when it does *)
(* not answer (d is NoText) or has none.                                   *)
Fetched(p, d) ==
  IF p.source \notin Supported \/ d = NoText THEN NoText
  ELSE IF p.source = "greenhouse" THEN FormatGreenhouse(d)
  ELSE IF p.source = "lever" THEN FormatLever(d)
  ELSE IF p.source = "workable" THEN IF BuildWorkableApiUrl(p) THEN FormatWorkable(d) ELSE NoText
  ELSE IF p.source = "ashby" THEN FormatAshby(d)
  ELSE IF p.source = "workday" THEN FormatWorkday(d)
  ELSE IF p.source = "taleo" THEN FormatTaleo(d)
  ELSE IF p.source = "icims" THEN FormatIcims(d)
  ELSE FormatUltipro(d)

-----------------------------------------------------------------------------
(* Is a page alive?  head and get are its two answers: "ok", "root" (a     *)
(* redirect to the board), "forbidden", "error" or "down"; api what the    *)
(* posting api of its board says.                                          *)
SkipUrlCheckSources == {"linkedin", "indeed", "custom"}
AtsPostingState(p) ==
  IF p.source \in {"greenhouse", "lever", "ashby"} THEN {"open", "closed", "unknown"} ELSE {"unknown"}

Answers == {"ok", "root", "forbidden", "error", "down"}

(* A get is tried when the head failed, and heard when it is better.       *)
Landing(head, get) ==
  IF head \in {"ok", "root"} THEN head
  ELSE IF get \in {"ok", "root", "forbidden"} \/ head = "down" THEN get ELSE head

CheckOne(p, api, head, get) ==
  \/ p.source \in SkipUrlCheckSources
  \/ p.url /\ api # "closed" /\ Landing(head, get) \in {"ok", "forbidden"}

MayBeAlive(j, alive) ==
  \E api \in AtsPostingState(posting[j]) : \E head \in Answers : \E get \in Answers :
    alive = CheckOne(posting[j], api, head, get)

-----------------------------------------------------------------------------
(* An archive's verdict and the mode it was given under.                   *)
NotArchived == [verdict |-> "none", mode |-> "none"]
Because(verdict) == [verdict |-> verdict, mode |-> rules.mode]

Init ==
  /\ posting \in {f \in [Jobs -> UNION {Postings[j] : j \in Jobs}] :
                    \A j \in Jobs : f[j] \in Postings[j]}
  /\ rules \in RuleSets
  /\ row = [j \in Jobs |-> [status |-> "unseen", reason |-> "none"]]
  /\ cache = [k \in Keys |-> [text |-> NoText, of |-> Nobody]]
  /\ run = Idle /\ batch = {} /\ kept = {} /\ why = [j \in Jobs |-> NotArchived]
  /\ edits = 0 /\ crashes = 0

(* scan finds the posting; a rejected one is archived without a reason in  *)
(* its row.                                                                *)
ScanJob(j) ==
  /\ run.at = "idle" /\ row[j].status = "unseen"
  /\ LET verdict == ScanVerdict(posting[j], rules)
         in == verdict = "keep"
     IN /\ row' = [row EXCEPT ![j].status = IF in THEN "Inbox" ELSE "Archived"]
        /\ kept' = IF in THEN kept \cup {j} ELSE kept
        /\ why' = IF in THEN why ELSE [why EXCEPT ![j] = Because(verdict)]
  /\ UNCHANGED <<posting, rules, cache, run, batch, edits, crashes>>

(* The operator edits the profile's rules.                                 *)
EditRules ==
  /\ run.at = "idle" /\ edits < MaxEdits
  /\ rules' \in RuleSets \ {rules}
  /\ edits' = edits + 1 /\ kept' = {}
  /\ UNCHANGED <<posting, row, cache, run, batch, why, crashes>>

ActiveCount(company) ==
  Cardinality({j \in Jobs : row[j].status = "To Apply" /\ posting[j].company = company})

Inbox == {j \in Jobs : row[j].status = "Inbox"}

Before(k, j) == \E m, n \in DOMAIN Order : Order[m] = k /\ Order[n] = j /\ m < n

(* The lists of a run are always in the ledger's order: sets stand for     *)
(* them, and this is the head of one.                                      *)
First(n, jobs) == {j \in jobs : Cardinality({k \in jobs : Before(k, j)}) < n}

(* applyPrepareFilter on one row: the rows in front of it that passed      *)
(* count to the cap.                                                       *)
FilterVerdict(j, passed) ==
  LET company == posting[j].company
      before == Cardinality({k \in passed : posting[k].company = company /\ Before(k, j)})
  IN PrepareVerdict(posting[j], rules, ActiveCount(company) + before)

(* pre begins: the rows in Inbox, filtered.                                *)
PreFilter ==
  /\ run.at = "idle" /\ Inbox # {}
  /\ \E passed \in SUBSET Inbox :
       /\ \A j \in Inbox : j \in passed <=> FilterVerdict(j, passed) = "keep"
       /\ run' = [at |-> "urls", queue |-> passed, alive |-> {},
                  skip |-> [j \in Jobs |-> IF j \in Inbox \ passed THEN FilterVerdict(j, passed)
                                                                   ELSE "none"]]
  /\ UNCHANGED <<posting, rules, row, cache, batch, kept, why, edits, crashes>>

(* fillUpAliveBatch, one chunk: what is still needed but at least the      *)
(* floor; live pages beyond the target are left for another run.           *)
CheckUrls ==
  /\ run.at = "urls" /\ Cardinality(run.alive) < Target /\ run.queue # {}
  /\ LET chunk == First(Max({Target - Cardinality(run.alive), ChunkFloor}), run.queue)
     IN \E alive \in SUBSET chunk :
          /\ \A j \in chunk : MayBeAlive(j, j \in alive)
          /\ run' = [run EXCEPT
               !.queue = @ \ chunk,
               !.alive = First(Target, @ \cup alive),
               !.skip = [j \in Jobs |-> IF j \in chunk \ alive THEN "url_dead" ELSE @[j]]]
  /\ UNCHANGED <<posting, rules, row, cache, batch, kept, why, edits, crashes>>

UrlsChecked ==
  /\ run.at = "urls" /\ (Cardinality(run.alive) = Target \/ run.queue = {})
  /\ run' = [run EXCEPT !.at = "texts", !.queue = run.alive]
  /\ UNCHANGED <<posting, rules, row, cache, batch, kept, why, edits, crashes>>

(* fetchJd, one row after the other: a file that is there is read and      *)
(* never fetched again; d is what the page gives now.                      *)
FetchText ==
  /\ run.at = "texts"
  /\ \E j \in First(1, run.queue) : \E d \in Descriptions[j] \cup {NoText} :
       LET key == CacheKey(posting[j])
           text == Fetched(posting[j], d)
       IN /\ cache' = IF cache[key].text # NoText THEN cache
                      ELSE [cache EXCEPT ![key] =
                              [text |-> text, of |-> IF text = NoText THEN Nobody ELSE j]]
          /\ run' = [run EXCEPT !.queue = @ \ {j}]
  /\ UNCHANGED <<posting, rules, row, batch, kept, why, edits, crashes>>

TextOf(j) == cache[CacheKey(posting[j])].text

(* The passes over a row's text; without a text it passes them all.        *)
JudgeText(j) ==
  IF TextOf(j) = NoText THEN "keep"
  ELSE TextVerdict(TextOf(j), GeoResult(posting[j], rules).by, rules)

(* archiveSkippedRows: a row already archived keeps its first reason.      *)
ArchivedRow(j, reason) ==
  IF /\ IsEngineSkipReason(reason)
     /\ ~(row[j].status = "Archived" /\ row[j].reason # "none")
    THEN [status |-> "Archived", reason |-> reason]
    ELSE row[j]

(* The end of pre: the texts are judged, the rows skipped anywhere are     *)
(* archived, the ledger and the context are written.                       *)
PreWrite ==
  /\ run.at = "texts" /\ run.queue = {}
  /\ LET verdict == [j \in Jobs |-> IF j \in run.alive THEN JudgeText(j) ELSE run.skip[j]]
     IN /\ row' = [j \in Jobs |-> ArchivedRow(j, verdict[j])]
        /\ batch' = {j \in run.alive : verdict[j] = "keep"}
        /\ why' = [j \in Jobs |-> IF IsEngineSkipReason(verdict[j]) THEN Because(verdict[j])
                                                                   ELSE why[j]]
  /\ run' = Idle
  /\ UNCHANGED <<posting, rules, cache, kept, edits, crashes>>

(* The batch is judged, tailored and committed.                            *)
CommitBatch ==
  /\ run.at = "idle" /\ batch # {}
  /\ row' = [j \in Jobs |-> IF j \in batch /\ row[j].status = "Inbox"
                              THEN [row[j] EXCEPT !.status = "To Apply"] ELSE row[j]]
  /\ batch' = {}
  /\ UNCHANGED <<posting, rules, cache, run, kept, why, edits, crashes>>

(* validate --apply: the rows not applied to yet, judged again.            *)
RetroSweep ==
  /\ run.at = "idle"
  /\ LET swept == {j \in Jobs : /\ row[j].status \in {"Inbox", "To Apply"}
                                 /\ SweepVerdict(posting[j], rules) # "keep"}
     IN /\ row' = [j \in Jobs |-> IF j \in swept THEN [row[j] EXCEPT !.status = "Archived"]
                                                 ELSE row[j]]
        /\ why' = [j \in Jobs |-> IF j \in swept THEN Because(SweepVerdict(posting[j], rules))
                                                 ELSE why[j]]
  /\ UNCHANGED <<posting, rules, cache, run, batch, kept, edits, crashes>>

Crash ==
  /\ run.at # "idle" /\ crashes < MaxCrashes
  /\ run' = Idle /\ crashes' = crashes + 1
  /\ UNCHANGED <<posting, rules, row, cache, batch, kept, why, edits>>

Next ==
  \/ \E j \in Jobs : ScanJob(j)
  \/ EditRules \/ PreFilter \/ CheckUrls \/ UrlsChecked \/ FetchText \/ PreWrite
  \/ CommitBatch \/ RetroSweep \/ Crash

Spec == Init /\ [][Next]_vars

(* The operator keeps running prepare and working through its batches.     *)
FairSpec ==
  /\ Spec
  /\ WF_vars(PreFilter \/ CheckUrls \/ UrlsChecked \/ FetchText \/ PreWrite) /\ SF_vars(CommitBatch)

-----------------------------------------------------------------------------
Reasons == {"none", "hard_blocker", "requirement_blocker", "salary_below_floor", "url_dead",
            "source_excluded_from_prepare", "company_cap", "company_blocklist", "title_blocklist",
            "title_requirelist", "location_blocklist", "geo_title_excluded", "geo_blocklist",
            "geo_no_location", "geo_metro_miss", "geo_country_miss", "geo_remote_only_miss",
            "geo_not_home_state_or_remote", "geo_jd_not_remote"}

TextReasons == {"geo_jd_not_remote", "hard_blocker", "requirement_blocker", "salary_below_floor"}

(* What prepare alone looks at; for any other reason scan looked first.    *)
PrepareOnly == TextReasons \cup
  {"source_excluded_from_prepare", "company_cap", "geo_title_excluded", "url_dead"}

TypeOK ==
  /\ rules \in RuleSets
  /\ row \in [Jobs -> [status : {"unseen", "Inbox", "To Apply", "Archived"}, reason : Reasons]]
  /\ run.at \in {"idle", "urls", "texts"} /\ run.skip \in [Jobs -> Reasons]
  /\ Cardinality(run.alive) <= Target /\ batch \subseteq Jobs

PlaceReasons ==
  {"location_blocklist", "geo_title_excluded", "geo_blocklist", "geo_no_location", "geo_metro_miss",
   "geo_country_miss", "geo_remote_only_miss", "geo_not_home_state_or_remote", "geo_jd_not_remote"}

HomeForms == {"home", "homeMetro", "homeNamed", "homeBlocked", "homeTwin", "county"}

(* Under home_state_or_remote no command, scan, prepare or validate,       *)
(* archives a job for its place when one of its locations is in the home   *)
(* state, whatever other locations it has and whatever offices the cached  *)
(* text names.  What the code does archive: a job whose only home          *)
(* locations are places the owner blocks or share their name with a        *)
(* Canadian one; one known by its county alone beside a location of the    *)
(* blocklist; and one whose title ties it to another region.               *)
HomeKept ==
  \A j \in Jobs :
    LET home == posting[j].locs \cap HomeForms
    IN why[j].mode = "home_state_or_remote" /\ why[j].verdict \in PlaceReasons =>
         \/ home \subseteq {"homeBlocked", "homeTwin"}
         \/ home = {"county"} /\ "abroad" \in posting[j].locs
         \/ "region" \in posting[j].title

(* What jd_workplace.js promises of a text that drops a job: its header    *)
(* does not say remote, nor does it, without a header, say outright and    *)
(* nowhere deny that the role is; and an office is named, small talk left  *)
(* out.                                                                    *)
NamesItsOffice(text) ==
  LET about == {s \in text.sentences : "noise" \notin s.says}
  IN /\ text.schedule # "remote"
     /\ text.schedule = "none" =>
          ~ /\ "remote" \in text.location.says \/ \E s \in about : "remoteStrong" \in s.says
            /\ ~\E s \in about : "notRemote" \in s.says
     /\ \E s \in about \cup {text.location} : s.places # {}

(* A job is kept where its place allows it: HomeKept, and no text archives *)
(* a job but as its module promises, whatever order its sentences come in, *)
(* whatever the page says later and whichever posting the text in the      *)
(* cache was fetched for.                                                  *)
PlaceKept ==
  /\ HomeKept
  /\ \A j \in Jobs : row[j].reason = "geo_jd_not_remote" => NamesItsOffice(TextOf(j))

(* A job is archived for its pay only when its description publishes some  *)
(* and every yearly range of it tops out below a floor the owner has set,  *)
(* however the ranges are spread over the text.                            *)
PayKept ==
  \A j \in Jobs : row[j].reason = "salary_below_floor" =>
    /\ \E a \in TextOf(j).amounts : a.kind # "other"
    /\ \E r \in RuleSets : \A a \in TextOf(j).amounts : a.kind = "range" => a.top < r.floor

(* scan, prepare and validate judge one posting through three shapes and   *)
(* must agree: while the rules stay, a row that scan let in is not         *)
(* archived for its company, its title or its place by the others, unless  *)
(* the source's own remote flag let it in.                                 *)
StagesAgree ==
  \A j \in kept :
    row[j].status = "Archived" /\ posting[j].flag # "remote" => row[j].reason \in PrepareOnly

(* No row stays in Inbox for good: the chunks of urls, the rows left over  *)
(* beyond the target, dead runs and missing texts included, each is        *)
(* archived or handed to the operator in the end.                          *)
RowsSettle == \A j \in Jobs : []<>(row[j].status # "Inbox")
=============================================================================
