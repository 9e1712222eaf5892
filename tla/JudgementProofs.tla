-------------------------- MODULE JudgementProofs --------------------------
(***************************************************************************)
(* Proofs about Judgement, for any postings made of the forms of location, *)
(* any descriptions, any rules and any number of rows, edits and deaths:   *)
(* the shapes in which scan, prepare and validate hand a posting to the    *)
(* evaluator agree, and a place in the home state is enough.               *)
(***************************************************************************)
EXTENDS Judgement, TLAPS, FiniteSetTheorems

-----------------------------------------------------------------------------
(* Finite sets of numbers *)

\* A set of naturals has a least element: what takes the place of induction.
LEMMA Least ==
    ASSUME NEW T \in SUBSET Nat, T # {}
    PROVE  \E n \in T : \A m \in T : n <= m
<1>1. PICK n \in T : \A m \in T : <<m, n>> \notin OpToRel(<, Nat)
  BY WFMin, NatLessThanWellFounded, Zenon
<1>2. \A m \in T : ~(m < n)
  BY <1>1, Zenon DEF OpToRel
<1> QED BY <1>2

\* A finite one has a greatest: the smallest set without one would have one
\* as soon as an element is taken out.
LEMMA Greatest ==
    ASSUME NEW S \in SUBSET Nat, IsFiniteSet(S), S # {}
    PROVE  \E x \in S : \A y \in S : y <= x
<1> DEFINE Topped(T) == \E x \in T : \A y \in T : y <= x
           topless == {n \in Nat : \E T \in SUBSET S : T # {} /\ Cardinality(T) = n /\ ~Topped(T)}
<1>1. ASSUME ~Topped(S) PROVE FALSE
  <2>1. Cardinality(S) \in Nat
    BY FS_CardinalityType
  <2>2. topless # {}
    BY <1>1, <2>1
  <2>3. PICK n \in topless : \A m \in topless : n <= m
    BY <2>2, Least
  <2>4. PICK T \in SUBSET S : T # {} /\ Cardinality(T) = n /\ ~Topped(T)
    OBVIOUS
  <2>5. PICK a : a \in T
    BY <2>4
  <2>6. IsFiniteSet(T)
    BY FS_Subset
  <2>7. /\ IsFiniteSet(T \ {a}) /\ Cardinality(T \ {a}) = n - 1
        /\ Cardinality(T \ {a}) \in Nat
    BY <2>4, <2>5, <2>6, FS_RemoveElement, FS_CardinalityType
  <2>8. CASE T \ {a} = {}
    BY <2>4, <2>5, <2>8
  <2>9. CASE T \ {a} # {}
    <3>1. n - 1 \notin topless
      BY <2>3, <2>7
    <3>2. Topped(T \ {a})
      BY <2>7, <2>9, <3>1
    <3>3. PICK g \in T \ {a} : \A y \in T \ {a} : y <= g
      BY <3>2
    <3>4. \A y \in T : y <= IF a <= g THEN g ELSE a
      BY <2>5, <3>3
    <3> QED BY <2>4, <2>5, <3>3, <3>4
  <2> QED BY <2>8, <2>9
<1> QED BY <1>1

LEMMA MaxBounds ==
    ASSUME NEW S \in SUBSET Nat, IsFiniteSet(S), S # {}
    PROVE  Max(S) \in S /\ \A y \in S : y <= Max(S)
<1>1. \E x \in S : \A y \in S : x >= y
  BY Greatest
<1> QED BY <1>1 DEF Max

-----------------------------------------------------------------------------
(* The evaluator *)

\* Without the adapter's flag a posting passes where it passed with one that
\* did not say remote.
LEMMA FlagOnlyHinders ==
    ASSUME NEW locs, NEW mode, NEW remoteOk, NEW flag, NEW title, flag # "remote",
           EnforceGeo(locs, mode, remoteOk, flag, title).ok
    PROVE  EnforceGeo(locs, mode, remoteOk, "none", title).ok
BY DEF EnforceGeo, EnforceHomeStateOrRemote, Pass, Miss

\* A policy that turns a posting down says why.
LEMMA MissesHaveReasons ==
    ASSUME NEW locs, NEW mode \in {"metro", "us-wide", "remote-only", "home_state_or_remote"},
           NEW remoteOk, NEW flag, NEW title, ~EnforceGeo(locs, mode, remoteOk, flag, title).ok
    PROVE  EnforceGeo(locs, mode, remoteOk, flag, title).reason \in
             {"geo_blocklist", "geo_no_location", "geo_not_home_state_or_remote",
              "geo_metro_miss", "geo_country_miss", "geo_remote_only_miss"}
BY DEF EnforceGeo, EnforceHomeStateOrRemote, Pass, Miss, MissReason

\* What JobFromTsv keeps of a posting.
LEMMA TsvShape ==
    ASSUME NEW p \in PostingType
    PROVE  LET job == JobFromTsv(p)
           IN  /\ job.company = p.company /\ job.title = p.title
               /\ job.locs = p.locs /\ job.flag = "none"
BY DEF PostingType, JobFromTsv

LEMMA RulesShapes ==
    ASSUME NEW r \in RulesType
    PROVE  /\ LET w == WithoutCap(r)
              IN  /\ w.companies = r.companies /\ w.require = r.require /\ w.floor = r.floor
                  /\ w.unwanted = r.unwanted /\ w.listed = r.listed /\ w.cap = NoCap
                  /\ w.mode = r.mode /\ w.remoteOk = r.remoteOk
           /\ LET w == WithoutGeo(r)
              IN  /\ w.companies = r.companies /\ w.require = r.require /\ w.floor = 0
                  /\ w.unwanted = r.unwanted /\ w.listed = r.listed
                  /\ w.mode = "unrestricted"
           /\ LET w == OnlyGeo(r)
              IN  /\ w.companies = {} /\ w.require = FALSE /\ w.unwanted = FALSE
                  /\ w.listed = FALSE /\ w.floor = 0
                  /\ w.mode = r.mode /\ w.remoteOk = r.remoteOk
<1>1. /\ WithoutCap(r) = [r EXCEPT !.cap = NoCap]
      /\ WithoutGeo(r) = [r EXCEPT !.mode = "unrestricted", !.floor = 0]
      /\ OnlyGeo(r) = [[r EXCEPT !.cap = NoCap] EXCEPT !.companies = {}, !.require = FALSE,
                                                    !.unwanted = FALSE, !.listed = FALSE, !.floor = 0]
  BY DEF WithoutCap, WithoutGeo, OnlyGeo
<1> QED BY <1>1 DEF RulesType

\* A posting scan lets in is turned down neither by validate nor, but for the
\* reasons that are prepare's own, by prepare, whatever the company's count.
LEMMA ShapesAgree ==
    ASSUME NEW p \in PostingType, NEW r \in RulesType, NEW count,
           p.flag # "remote", ScanVerdict(p, r) = "keep"
    PROVE  /\ SweepVerdict(p, r) = "keep"
           /\ PrepareVerdict(p, r, count) \in PrepareOnly \cup {"keep"}
<1> DEFINE job == JobFromTsv(p)
           scan == WithoutCap(r)
           blocks == WithoutGeo(r)
           places == OnlyGeo(r)
           passes(flag) == EnforceGeo(p.locs, r.mode, r.remoteOk, flag, p.title).ok
<1>1. job.company = p.company /\ job.title = p.title /\ job.locs = p.locs /\ job.flag = "none"
  BY TsvShape
<1>2. /\ scan.companies = r.companies /\ scan.require = r.require /\ scan.floor = r.floor
      /\ scan.unwanted = r.unwanted /\ scan.listed = r.listed /\ scan.cap = 99
      /\ scan.mode = r.mode /\ scan.remoteOk = r.remoteOk
      /\ blocks.companies = r.companies /\ blocks.require = r.require /\ blocks.floor = 0
      /\ blocks.unwanted = r.unwanted /\ blocks.listed = r.listed
      /\ blocks.mode = "unrestricted"
      /\ places.companies = {} /\ places.require = FALSE /\ places.unwanted = FALSE
      /\ places.listed = FALSE /\ places.floor = 0
      /\ places.mode = r.mode /\ places.remoteOk = r.remoteOk
  BY RulesShapes DEF NoCap
<1>3. EvaluateJob(p, scan, 0, 0, "scan") = "keep"
  BY DEF ScanVerdict, JobFromAdapterScan
<1> HIDE DEF job, scan, blocks, places
<1>4. /\ p.company \notin r.companies
      /\ ~(r.require /\ ~TitlePassesRequirelist(p.title))
      /\ ~(r.unwanted /\ "unwanted" \in p.title)
      /\ ~(r.listed /\ LocationBlocked(p.locs))
      /\ r.mode = "unrestricted" \/ passes(p.flag)
  <2>1. r.mode \in {"unrestricted", "metro", "us-wide", "remote-only", "home_state_or_remote"}
    BY DEF RulesType
  <2>2. r.mode = "unrestricted" \/ passes(p.flag)
        \/ EnforceGeo(p.locs, r.mode, r.remoteOk, p.flag, p.title).reason # "keep"
    BY <2>1, MissesHaveReasons
  <2> QED BY <1>2, <1>3, <2>2 DEF EvaluateJob, Discovering, NormalizeTitleBlocklist
<1>5. r.mode = "unrestricted" \/ passes("none")
  BY <1>4, FlagOnlyHinders
<1>6. EvaluateJob(job, scan, 0, 0, "scan") = "keep"
  BY <1>1, <1>2, <1>4, <1>5 DEF EvaluateJob, Discovering, NormalizeTitleBlocklist
<1>7. EvaluateJob(job, blocks, count, 0, "prepare") \in {"keep", "company_cap"}
  BY <1>1, <1>2, <1>4
  DEF EvaluateJob, Discovering, NormalizeTitleBlocklist, CheckSalaryFloor
<1>8. EvaluateJob(job, places, count, 0, "prepare") \in {"keep", "company_cap"}
  BY <1>1, <1>2, <1>5
  DEF EvaluateJob, Discovering, NormalizeTitleBlocklist, CheckSalaryFloor
<1>9. SweepVerdict(p, r) = "keep"
  BY <1>6 DEF SweepVerdict, job, scan
<1>10. PrepareVerdict(p, r, count) \in PrepareOnly \cup {"keep"}
  BY <1>7, <1>8 DEF PrepareVerdict, PrepareOnly, job, blocks, places
<1> QED BY <1>9, <1>10

\* What HomeKept lets go of the jobs that are not at home or not plainly so.
Excused(p) ==
  LET home == p.locs \cap HomeForms
  IN \/ home \subseteq {"homeBlocked", "homeTwin"}
     \/ home = {"county"} /\ "abroad" \in p.locs
     \/ "region" \in p.title

\* Any other place in the home state is enough for the policy, ...
LEMMA HomePasses ==
    ASSUME NEW p \in PostingType, ~Excused(p), NEW flag, NEW title
    PROVE  /\ EnforceHomeStateOrRemote(p.locs, flag, title).ok
           /\ EnforceHomeStateOrRemote(p.locs, flag, title).by = "home_state"
<1>1. PICK l \in p.locs : l \in {"home", "homeMetro", "homeNamed", "county"}
  BY DEF Excused, HomeForms
<1>2. /\ Marks["home"] = {"us", "home", "word"}
      /\ Marks["homeMetro"] = {"us", "home", "city", "word"}
      /\ Marks["homeNamed"] = {"us", "home", "named", "canada", "word"}
      /\ Marks["county"] = {"county", "word"}
  BY DEF Marks
<1>3. ~LocInBlocklist(l) /\ LocInHomeState(l)
  BY <1>1, <1>2 DEF LocInBlocklist, LocInHomeState, LocContainsState, LocInHomeStateCounty
<1> DEFINE usable == {k \in p.locs : ~LocInBlocklist(k)}
<1>4. /\ ~(p.locs # {} /\ usable = {})
      /\ \E k \in usable : LocInHomeState(k)
  BY <1>3
<1> QED BY <1>4 DEF EnforceHomeStateOrRemote, Pass, Miss

\* ... and for the list of locations, which no US location is on.
LEMMA HomeNotListed ==
    ASSUME NEW p \in PostingType, ~Excused(p) PROVE ~LocationBlocked(p.locs)
<1>1. p.locs \subseteq Forms
  BY DEF PostingType
<1>2. \A l \in Forms : "listed" \in Marks[l] => l = "abroad"
  BY DEF Forms, Marks
<1>3. \A l \in HomeForms \ {"county"} : "us" \in Marks[l]
  BY DEF HomeForms, Marks
<1>4. CASE "abroad" \notin p.locs
  BY <1>1, <1>2, <1>4 DEF LocationBlocked
<1>5. CASE "abroad" \in p.locs
  <2>1. PICK l \in p.locs \cap HomeForms : l # "county"
    BY <1>5 DEF Excused
  <2> QED BY <1>3, <2>1 DEF LocationBlocked, HasUsMarker
<1> QED BY <1>4, <1>5

\* The evaluator has no other reason that is about the place.
LEMMA EvaluatedByPlace ==
    ASSUME NEW job, NEW r, NEW count, NEW top, NEW context,
           ~LocationBlocked(job.locs),
           r.mode # "unrestricted" =>
             EnforceGeo(job.locs, r.mode, r.remoteOk, job.flag, job.title).ok
    PROVE  EvaluateJob(job, r, count, top, context) \notin PlaceReasons
BY DEF EvaluateJob, PlaceReasons

\* So none of the commands, nor a text, turns such a job down for its place.
LEMMA HomeNotTurnedDown ==
    ASSUME NEW p \in PostingType, NEW r \in RulesType, r.mode = "home_state_or_remote",
           ~Excused(p), NEW count, NEW text
    PROVE  /\ ScanVerdict(p, r) \notin PlaceReasons
           /\ SweepVerdict(p, r) \notin PlaceReasons
           /\ PrepareVerdict(p, r, count) \notin PlaceReasons
           /\ TextVerdict(text, GeoResult(p, r).by, r) \notin PlaceReasons
<1> DEFINE job == JobFromTsv(p)
           scan == WithoutCap(r)
           blocks == WithoutGeo(r)
           places == OnlyGeo(r)
           Geo(flag) == EnforceGeo(p.locs, r.mode, r.remoteOk, flag, p.title)
<1>1. job.title = p.title /\ job.locs = p.locs /\ job.flag = "none"
  BY TsvShape
<1>2. /\ scan.mode = r.mode /\ scan.remoteOk = r.remoteOk
      /\ blocks.mode = "unrestricted"
      /\ places.mode = r.mode /\ places.remoteOk = r.remoteOk
  BY RulesShapes
<1>3. \A flag : Geo(flag).ok /\ Geo(flag).by = "home_state"
  BY HomePasses DEF EnforceGeo
<1>4. ~LocationBlocked(p.locs)
  BY HomeNotListed
<1>5. GeoResult(p, r).by = "home_state"
  BY <1>1, <1>3 DEF GeoResult
<1> HIDE DEF job, scan, blocks, places
<1>6. EvaluateJob(p, scan, 0, 0, "scan") \notin PlaceReasons
  BY <1>2, <1>3, <1>4, EvaluatedByPlace
<1>7. /\ EvaluateJob(job, scan, 0, 0, "scan") \notin PlaceReasons
      /\ EvaluateJob(job, blocks, count, 0, "prepare") \notin PlaceReasons
      /\ EvaluateJob(job, places, count, 0, "prepare") \notin PlaceReasons
  <2>1. Geo("none").ok
    BY <1>3
  <2> HIDE DEF Geo
  <2>2. EnforceGeo(job.locs, r.mode, r.remoteOk, job.flag, job.title).ok
    BY <1>1, <2>1 DEF Geo
  <2> QED BY <1>1, <1>2, <1>4, <2>2, EvaluatedByPlace
<1>8. SweepVerdict(p, r) \notin PlaceReasons
  BY <1>7 DEF SweepVerdict, PlaceReasons, job, scan
<1>9. PrepareVerdict(p, r, count) \notin PlaceReasons
  <2>1. ~ExtractTitleGeo(p.title)
    BY DEF Excused, ExtractTitleGeo
  <2> QED BY <1>7, <2>1 DEF PrepareVerdict, PlaceReasons, job, blocks, places
<1>10. TextVerdict(text, GeoResult(p, r).by, r) \notin PlaceReasons
  BY <1>5 DEF TextVerdict, NeedsJdWorkplaceCheck, PlaceReasons
<1> QED BY <1>6, <1>8, <1>9, <1>10 DEF ScanVerdict, JobFromAdapterScan, scan

\* A text drops a job only as its module promises.
LEMMA DropsAsPromised ==
    ASSUME NEW text, JdWorkplaceDrops(text) PROVE NamesItsOffice(text)
<1> DEFINE c == ClassifyJdWorkplace(text)
           about == Telling(text)
<1>1. about = {s \in text.sentences : "noise" \notin s.says}
  BY DEF Telling
<1>2. c.workplace \in {"hybrid", "onsite"} /\ ExtractPlaces(text) # {}
  BY DEF JdWorkplaceDrops, ClassifyJdWorkplace
<1>3. text.schedule # "remote"
  BY <1>2 DEF ClassifyJdWorkplace
<1>4. text.schedule = "none" => ~(RemoteStrong(text) /\ ~NonRemote(text))
  BY <1>2 DEF ClassifyJdWorkplace
<1> HIDE DEF about
<1>5. text.schedule = "none" =>
        ~ /\ "remote" \in text.location.says \/ \E s \in about : "remoteStrong" \in s.says
          /\ ~\E s \in about : "notRemote" \in s.says
  BY <1>4 DEF RemoteStrong, NonRemote, about
<1>6. \E s \in about \cup {text.location} : s.places # {}
  BY <1>2 DEF ExtractPlaces, about
<1> QED BY <1>1, <1>3, <1>5, <1>6 DEF NamesItsOffice

LEMMA TopsFinite ==
    ASSUME NEW A, IsFiniteSet(A) PROVE IsFiniteSet({a.top : a \in A})
<1> DEFINE f == [a \in A |-> a.top]
<1>1. f \in Surjection(A, {a.top : a \in A})
  BY DEF Surjection
<1> QED BY <1>1, FS_Surjection

\* Below the floor, a text publishes some pay and no range that reaches it.
LEMMA BelowFloor ==
    ASSUME NEW text \in TextType, IsFiniteSet(text.amounts),
           NEW floor \in Nat, CheckSalaryFloor(PublishedSalaryFromJd(text), floor)
    PROVE  /\ \E a \in text.amounts : a.kind # "other"
           /\ \A a \in text.amounts : a.kind = "range" => a.top < floor
<1> DEFINE section == {a \in text.amounts : a.section}
           fromSection == IF FindRanges(section) # {} THEN FindRanges(section) ELSE FindSingles(section)
           all == FindRanges(text.amounts)
           tops == {0} \cup {a.top : a \in fromSection} \cup {a.top : a \in all}
<1>1. PublishedSalaryFromJd(text) = Max(tops)
  BY DEF PublishedSalaryFromJd, MergeRanges
<1>2. /\ fromSection \subseteq text.amounts /\ all \subseteq text.amounts
      /\ \A a \in fromSection \cup all : a.kind # "other"
      /\ \A a \in text.amounts : a.kind = "range" => a \in all
  BY DEF FindRanges, FindSingles
<1> HIDE DEF fromSection, all
<1>3. tops \subseteq Nat
  BY <1>2 DEF TextType
<1>4. IsFiniteSet(tops)
  <2>1. IsFiniteSet(fromSection) /\ IsFiniteSet(all)
    BY <1>2, FS_Subset
  <2>2. IsFiniteSet({a.top : a \in fromSection}) /\ IsFiniteSet({a.top : a \in all})
    BY <2>1, TopsFinite
  <2>3. IsFiniteSet({0})
    BY FS_Singleton
  <2> QED BY <2>2, <2>3, FS_Union
<1>5. Max(tops) \in tops /\ \A y \in tops : y <= Max(tops)
  BY <1>3, <1>4, MaxBounds
<1>6. Max(tops) > 0 /\ Max(tops) < floor
  BY <1>1 DEF CheckSalaryFloor
<1>7. \E a \in text.amounts : a.kind # "other"
  BY <1>2, <1>5, <1>6
<1>8. ASSUME NEW a \in text.amounts, a.kind = "range" PROVE a.top < floor
  <2>1. a.top \in tops
    BY <1>2, <1>8
  <2> HIDE DEF tops
  <2>2. a.top \in Nat /\ Max(tops) \in Nat /\ a.top <= Max(tops)
    BY <1>3, <1>5, <2>1
  <2> QED BY <1>6, <2>2
<1> QED BY <1>7, <1>8

\* What prepare says of a row before it has read a text is none of these.
LEMMA NoTextReasonBefore ==
    ASSUME NEW p \in PostingType, NEW r \in RulesType, NEW count
    PROVE  PrepareVerdict(p, r, count) \notin {"geo_jd_not_remote", "salary_below_floor"}
<1> DEFINE job == JobFromTsv(p)
           blocks == WithoutGeo(r)
           places == OnlyGeo(r)
           geo == EnforceGeo(p.locs, r.mode, r.remoteOk, "none", p.title)
           said == {"geo_jd_not_remote", "salary_below_floor"}
<1>1. job.company = p.company /\ job.title = p.title /\ job.locs = p.locs /\ job.flag = "none"
  BY TsvShape
<1>2. /\ blocks.mode = "unrestricted" /\ blocks.floor = 0
      /\ places.mode = r.mode /\ places.remoteOk = r.remoteOk /\ places.floor = 0
  BY RulesShapes
<1>3. r.mode # "unrestricted" => geo.ok \/ geo.reason \notin said
  <2>1. r.mode \in {"unrestricted", "metro", "us-wide", "remote-only", "home_state_or_remote"}
    BY DEF RulesType
  <2> QED BY <2>1, MissesHaveReasons
<1> HIDE DEF job, blocks, places, geo
<1>4. EvaluateJob(job, blocks, count, 0, "prepare") \notin said
  BY <1>1, <1>2 DEF EvaluateJob, Discovering, NormalizeTitleBlocklist, CheckSalaryFloor
<1>5. EvaluateJob(job, places, count, 0, "prepare") \notin said
  BY <1>1, <1>2, <1>3
  DEF EvaluateJob, Discovering, NormalizeTitleBlocklist, CheckSalaryFloor, geo
<1> QED BY <1>4, <1>5 DEF PrepareVerdict, job, blocks, places

\* The passes over a text have these reasons, and an archived row one of those
\* the archive knows.
LEMMA TextReasonsOnly ==
    ASSUME NEW text, NEW by, NEW r
    PROVE  TextVerdict(text, by, r) \in TextReasons \cup {"keep"}
BY DEF TextVerdict, TextReasons

LEMMA NoReasonNoArchive ==
    ASSUME NEW reason, reason \in {"none", "keep"}
    PROVE  ~IsEngineSkipReason(reason)
BY DEF IsEngineSkipReason

Known == Reasons \cup {"geo_unknown_mode"}

LEMMA ReasonsAreKnown ==
    ASSUME NEW reason, IsEngineSkipReason(reason)
    PROVE  reason \in Known
BY DEF IsEngineSkipReason, Known, Reasons

-----------------------------------------------------------------------------
(* The invariant.  Of the jobs let in under the rules that hold, the scan  *)
(* had said "keep"; and the prepare under way has turned no row down for a *)
(* reason the two invariants forbid to archive it for.                     *)
Rows == [status : {"unseen", "Inbox", "To Apply", "Archived"}, reason : Known]

Typed ==
  /\ posting \in [Jobs -> PostingType] /\ rules \in RulesType /\ kept \subseteq Jobs
  /\ rules \in RuleSets
  /\ row \in [Jobs -> Rows] /\ why = [j \in Jobs |-> why[j]]
  /\ run = [at |-> run.at, queue |-> run.queue, skip |-> run.skip, alive |-> run.alive]
  /\ run.queue \subseteq Jobs /\ run.alive \subseteq Jobs

\* The text of a job has its place in the cache.
Texts ==
  /\ cache = [k \in Keys |-> [text |-> cache[k].text, of |-> cache[k].of]]
  /\ \A k \in Keys : cache[k].text # NoText =>
       cache[k].text \in TextType /\ IsFiniteSet(cache[k].text.amounts)
  /\ \A j \in Jobs : CacheKey(posting[j]) \in Keys

KeptPassed == \A j \in kept : ScanVerdict(posting[j], rules) = "keep"

\* A row archived for its text was archived for the one that is still there.
JudgedBy(reason, text) ==
  /\ reason = "geo_jd_not_remote" => text # NoText /\ NamesItsOffice(text)
  /\ reason = "salary_below_floor" =>
       /\ text # NoText
       /\ \E a \in text.amounts : a.kind # "other"
       /\ \E r \in RuleSets : \A a \in text.amounts : a.kind = "range" => a.top < r.floor

Judged == \A j \in Jobs : JudgedBy(row[j].reason, TextOf(j))

\* While the rules stay home_state_or_remote.
NotForItsPlace(j, reason) ==
  rules.mode = "home_state_or_remote" /\ ~Excused(posting[j]) => reason \notin PlaceReasons

SkipAllowed(j, reason) ==
  /\ reason \notin {"geo_jd_not_remote", "salary_below_floor"}
  /\ j \in kept /\ posting[j].flag # "remote" => reason \in PrepareOnly \cup {"none", "keep"}
  /\ NotForItsPlace(j, reason)

SkipsAllowed == run.at # "idle" => \A j \in Jobs : SkipAllowed(j, run.skip[j])

IInv == Typed /\ Texts /\ KeptPassed /\ SkipsAllowed /\ StagesAgree /\ HomeKept /\ Judged

\* What a page once gave for a key stays, and so does what was judged by it.
LEMMA TextsStay ==
    ASSUME Texts, Judged, UNCHANGED <<posting, cache>>,
           \A j \in Jobs : row'[j].reason = row[j].reason
    PROVE  Texts' /\ Judged'
BY DEF Texts, Judged, TextOf

\* What a step records of the verdicts it archives by.
LEMMA HomeRecorded ==
    ASSUME HomeKept, UNCHANGED <<posting, rules>>,
           \A j \in Jobs : \/ why'[j] = why[j]
                           \/ \E v : why'[j] = Because(v) /\ NotForItsPlace(j, v)
    PROVE  HomeKept'
<1> SUFFICES ASSUME NEW j \in Jobs, why'[j].mode = "home_state_or_remote",
                    why'[j].verdict \in PlaceReasons
             PROVE  Excused(posting[j])
  BY DEF HomeKept, Excused
<1>1. CASE why'[j] = why[j]
  BY <1>1 DEF HomeKept, Excused
<1>2. ASSUME NEW v, why'[j] = Because(v), NotForItsPlace(j, v) PROVE Excused(posting[j])
  BY <1>2 DEF Because, NotForItsPlace
<1> QED BY <1>1, <1>2

LEMMA InitIInv == Init => IInv
<1> SUFFICES ASSUME Init PROVE IInv
  OBVIOUS
<1>1. Typed
  <2>1. posting \in [Jobs -> PostingType]
    BY ConstantsAssumption DEF Init
  <2>2. rules \in RulesType
    BY ConstantsAssumption DEF Init
  <2>3. row \in [Jobs -> Rows]
    BY DEF Init, Rows, Known, Reasons
  <2>4. why = [j \in Jobs |-> why[j]]
    BY DEF Init
  <2> QED BY <2>1, <2>2, <2>3, <2>4 DEF Init, Typed, Idle
<1>2. KeptPassed /\ SkipsAllowed /\ StagesAgree
  BY DEF Init, Idle, KeptPassed, SkipsAllowed, StagesAgree
<1>3. HomeKept
  BY DEF Init, HomeKept, NotArchived
<1>4. Texts
  <2>1. \A j \in Jobs : CacheKey(posting[j]) \in Keys
    BY DEF Init, Keys
  <2> QED BY <2>1 DEF Init, Texts
<1>5. Judged
  BY DEF Init, Judged, JudgedBy
<1> QED BY <1>1, <1>2, <1>3, <1>4, <1>5 DEF IInv

LEMMA ScanJobKeeps ==
    ASSUME IInv, NEW j \in Jobs, ScanJob(j) PROVE IInv'
<1> DEFINE status == IF ScanVerdict(posting[j], rules) = "keep" THEN "Inbox" ELSE "Archived"
           judged == [status |-> status, reason |-> row[j].reason]
<1>a. row \in [Jobs -> Rows]
  BY DEF IInv, Typed
<1>b. [row[j] EXCEPT !.status = status] = judged /\ judged \in Rows
  <2>1. status \in {"Inbox", "Archived"}
    OBVIOUS
  <2> HIDE DEF status
  <2>2. row[j] \in Rows /\ row[j] = [status |-> row[j].status, reason |-> row[j].reason]
    BY <1>a DEF Rows
  <2>3. judged \in Rows
    BY <2>1, <2>2 DEF Rows
  <2>4. [row[j] EXCEPT !.status = status] = judged
    BY <2>2
  <2> QED BY <2>3, <2>4
<1>c. row' = [row EXCEPT ![j] = judged]
  BY <1>b DEF ScanJob
<1>1. /\ run' = run /\ posting' = posting /\ rules' = rules /\ run.at = "idle"
      /\ \A k \in Jobs \ {j} : row'[k] = row[k]
      /\ row'[j].reason = row[j].reason
      /\ row' \in [Jobs -> Rows]
  BY <1>a, <1>b, <1>c DEF ScanJob
<1>2. \/ ScanVerdict(posting[j], rules) = "keep" /\ kept' = kept \cup {j} /\ row'[j].status = "Inbox"
      \/ ScanVerdict(posting[j], rules) # "keep" /\ kept' = kept
  BY <1>a, <1>c DEF ScanJob
<1>3. Typed'
  <2>1. why' = [k \in Jobs |-> why'[k]]
    BY DEF IInv, Typed, ScanJob
  <2> QED BY <1>1, <1>2, <2>1 DEF IInv, Typed
<1>4. KeptPassed'
  BY <1>1, <1>2 DEF IInv, KeptPassed
<1>5. SkipsAllowed'
  BY <1>1 DEF SkipsAllowed
<1>6. StagesAgree'
  BY <1>1, <1>2 DEF IInv, Typed, KeptPassed, StagesAgree
<1>7. HomeKept'
  <2>1. \/ why' = why
        \/ why' = [why EXCEPT ![j] = Because(ScanVerdict(posting[j], rules))]
    BY DEF ScanJob
  <2>2. why = [k \in Jobs |-> why[k]]
    BY DEF IInv, Typed
  <2>3. ASSUME NEW k \in Jobs
        PROVE  why'[k] = why[k] \/ (k = j /\ why'[k] = Because(ScanVerdict(posting[j], rules)))
    BY <2>1, <2>2
  <2>4. NotForItsPlace(j, ScanVerdict(posting[j], rules))
    BY HomeNotTurnedDown DEF IInv, Typed, NotForItsPlace
  <2> QED BY <1>1, <2>3, <2>4, HomeRecorded DEF IInv
<1>8. Texts' /\ Judged'
  BY <1>1, TextsStay DEF IInv, ScanJob
<1> QED BY <1>3, <1>4, <1>5, <1>6, <1>7, <1>8 DEF IInv

LEMMA EditRulesKeeps ==
    ASSUME IInv, EditRules PROVE IInv'
<1>1. rules' \in RulesType /\ rules' \in RuleSets
  BY ConstantsAssumption DEF EditRules
<1>2. /\ kept' = {} /\ run' = run /\ posting' = posting /\ row' = row /\ run.at = "idle"
      /\ why' = why
  BY DEF EditRules
<1>3. Texts' /\ Judged'
  BY TextsStay DEF IInv, EditRules
<1> QED BY <1>1, <1>2, <1>3 DEF IInv, Typed, KeptPassed, SkipsAllowed, StagesAgree, HomeKept

LEMMA PreFilterKeeps ==
    ASSUME IInv, PreFilter PROVE IInv'
<1>1. PICK passed \in SUBSET Inbox :
        run' = [at |-> "urls", queue |-> passed, alive |-> {},
                skip |-> [j \in Jobs |-> IF j \in Inbox \ passed THEN FilterVerdict(j, passed)
                                                                 ELSE "none"]]
  BY DEF PreFilter
<1>2. posting' = posting /\ rules' = rules /\ row' = row /\ kept' = kept /\ why' = why
  BY DEF PreFilter
<1>3. ASSUME NEW j \in Jobs PROVE SkipAllowed(j, run'.skip[j])
  <2>1. run'.skip[j] = "none" \/ run'.skip[j] = FilterVerdict(j, passed)
    BY <1>1
  <2>2. CASE run'.skip[j] = "none"
    BY <2>2 DEF SkipAllowed, NotForItsPlace, PlaceReasons
  <2>3. CASE run'.skip[j] = FilterVerdict(j, passed)
    <3>1. posting[j] \in PostingType /\ rules \in RulesType
      BY DEF IInv, Typed
    <3>2. PICK count : FilterVerdict(j, passed) = PrepareVerdict(posting[j], rules, count)
      BY DEF FilterVerdict
    <3>3. j \in kept => ScanVerdict(posting[j], rules) = "keep"
      BY DEF IInv, KeptPassed
    <3>4. j \in kept /\ posting[j].flag # "remote"
            => PrepareVerdict(posting[j], rules, count) \in PrepareOnly \cup {"keep"}
      BY <3>1, <3>3, ShapesAgree
    <3>5. NotForItsPlace(j, PrepareVerdict(posting[j], rules, count))
      BY <3>1, HomeNotTurnedDown DEF NotForItsPlace
    <3>6. PrepareVerdict(posting[j], rules, count) \notin {"geo_jd_not_remote", "salary_below_floor"}
      BY <3>1, NoTextReasonBefore
    <3> QED BY <2>3, <3>2, <3>4, <3>5, <3>6 DEF SkipAllowed
  <2> QED BY <2>1, <2>2, <2>3
<1>4. SkipsAllowed'
  BY <1>2, <1>3 DEF SkipsAllowed, SkipAllowed, NotForItsPlace
<1>5. Typed'
  BY <1>1, <1>2 DEF IInv, Typed, Inbox
<1>6. Texts' /\ Judged'
  BY <1>2, TextsStay DEF IInv, PreFilter
<1> QED BY <1>2, <1>4, <1>5, <1>6 DEF IInv, KeptPassed, StagesAgree, HomeKept

LEMMA CheckUrlsKeeps ==
    ASSUME IInv, CheckUrls PROVE IInv'
<1> DEFINE chunk == First(Max({Target - Cardinality(run.alive), ChunkFloor}), run.queue)
<1>1. PICK alive \in SUBSET chunk :
        run' = [run EXCEPT !.queue = @ \ chunk,
                           !.alive = First(Target, @ \cup alive),
                           !.skip = [j \in Jobs |-> IF j \in chunk \ alive THEN "url_dead" ELSE @[j]]]
  BY DEF CheckUrls
<1> DEFINE queue == run.queue \ chunk
           lives == First(Target, run.alive \cup alive)
           dead == chunk \ alive
<1>0. queue \subseteq Jobs /\ lives \subseteq Jobs
  BY DEF IInv, Typed, First
<1> HIDE DEF chunk, queue, lives, dead
<1>2. run' = [at |-> run.at, queue |-> queue, alive |-> lives,
              skip |-> [j \in Jobs |-> IF j \in dead THEN "url_dead" ELSE run.skip[j]]]
  BY <1>1 DEF IInv, Typed, queue, lives, dead
<1>3. /\ posting' = posting /\ rules' = rules /\ row' = row /\ kept' = kept /\ run.at # "idle"
      /\ why' = why
  BY DEF CheckUrls
<1>4. ASSUME NEW j \in Jobs PROVE SkipAllowed(j, run'.skip[j])
  <2>1. SkipAllowed(j, run.skip[j])
    BY <1>3 DEF IInv, SkipsAllowed
  <2>2. SkipAllowed(j, "url_dead")
    BY DEF SkipAllowed, NotForItsPlace, PrepareOnly, PlaceReasons
  <2> QED BY <1>2, <2>1, <2>2
<1>5. SkipsAllowed'
  BY <1>3, <1>4 DEF SkipsAllowed, SkipAllowed, NotForItsPlace
<1>6. Typed'
  BY <1>0, <1>2, <1>3 DEF IInv, Typed
<1>7. Texts' /\ Judged'
  BY <1>3, TextsStay DEF IInv, CheckUrls
<1> QED BY <1>3, <1>5, <1>6, <1>7 DEF IInv, KeptPassed, StagesAgree, HomeKept

\* The steps of a run that leave the rows and what it skipped alone.
LEMMA RunStepKeeps ==
    ASSUME IInv, UNCHANGED <<posting, rules, row, kept, why>>, Texts' /\ Judged',
           run'.at = "idle" \/ (run'.skip = run.skip /\ run.at # "idle"),
           run' = [at |-> run'.at, queue |-> run'.queue, skip |-> run'.skip, alive |-> run'.alive],
           run'.queue \subseteq Jobs /\ run'.alive \subseteq Jobs
    PROVE  IInv'
<1>1. SkipsAllowed'
  BY DEF IInv, SkipsAllowed, SkipAllowed, NotForItsPlace
<1> QED BY <1>1 DEF IInv, Typed, KeptPassed, StagesAgree, HomeKept

LEMMA UrlsCheckedKeeps ==
    ASSUME IInv, UrlsChecked PROVE IInv'
<1>1. /\ run' = [at |-> "texts", queue |-> run.alive, skip |-> run.skip, alive |-> run.alive]
      /\ run.alive \subseteq Jobs
  BY DEF UrlsChecked, IInv, Typed
<1>2. Texts' /\ Judged'
  BY TextsStay DEF IInv, UrlsChecked
<1> QED BY <1>1, <1>2, RunStepKeeps DEF UrlsChecked

\* What a page gives is a text, or none.
LEMMA FetchedTyped ==
    ASSUME NEW p, NEW d, d = NoText \/ (d \in TextType /\ IsFiniteSet(d.amounts)),
           Fetched(p, d) # NoText
    PROVE  Fetched(p, d) \in TextType /\ IsFiniteSet(Fetched(p, d).amounts)
<1>1. d \in TextType /\ IsFiniteSet(d.amounts)
  BY DEF Fetched
<1> DEFINE plain == [d EXCEPT !.schedule = "none"]
<1>2. plain \in TextType /\ plain.amounts = d.amounts
  BY <1>1 DEF TextType
<1> HIDE DEF plain
<1>3. Fetched(p, d) \in {d, plain}
  BY DEF Fetched, FormatGreenhouse, FormatLever, FormatWorkable, FormatAshby, FormatWorkday,
         FormatTaleo, FormatIcims, FormatUltipro, plain
<1> QED BY <1>1, <1>2, <1>3

\* A text that is there is never fetched again.
LEMMA FetchTextStays ==
    ASSUME IInv, FetchText
    PROVE  Texts' /\ Judged'
<1>1. UNCHANGED <<posting, row>>
  BY DEF FetchText
<1>2. PICK j \in First(1, run.queue) : \E d \in Descriptions[j] \cup {NoText} :
        cache' = IF cache[CacheKey(posting[j])].text # NoText THEN cache
                 ELSE [cache EXCEPT ![CacheKey(posting[j])] =
                         [text |-> Fetched(posting[j], d),
                          of |-> IF Fetched(posting[j], d) = NoText THEN Nobody ELSE j]]
  BY DEF FetchText
<1> DEFINE key == CacheKey(posting[j])
<1>3. CASE UNCHANGED cache
  BY <1>1, <1>3, TextsStay DEF IInv
<1>4. CASE ~UNCHANGED cache
  <2>1. j \in Jobs
    BY DEF First, IInv, Typed
  <2>2. PICK d \in Descriptions[j] \cup {NoText} :
          cache' = [cache EXCEPT ![key] =
            [text |-> Fetched(posting[j], d),
             of |-> IF Fetched(posting[j], d) = NoText THEN Nobody ELSE j]]
    BY <1>2, <1>4
  <2> DEFINE text == Fetched(posting[j], d)
             new == [text |-> text, of |-> IF text = NoText THEN Nobody ELSE j]
  <2>3. text # NoText => text \in TextType /\ IsFiniteSet(text.amounts)
    BY <2>1, ConstantsAssumption, FetchedTyped
  <2>4. cache[key].text = NoText
    BY <1>2, <1>4
  <2> HIDE DEF text, key
  <2>5. cache' = [k \in Keys |-> IF k = key THEN new ELSE cache[k]]
    BY <2>2 DEF IInv, Texts, text, key
  <2>6. \A k \in Keys : cache[k].text # NoText => cache'[k] = cache[k]
    BY <2>4, <2>5
  <2>7. Texts'
    <3>1. cache' = [k \in Keys |-> [text |-> cache'[k].text, of |-> cache'[k].of]]
      BY <2>5 DEF IInv, Texts
    <3>2. ASSUME NEW k \in Keys, cache'[k].text # NoText
          PROVE  cache'[k].text \in TextType /\ IsFiniteSet(cache'[k].text.amounts)
      BY <2>3, <2>5, <3>2 DEF IInv, Texts
    <3> QED BY <1>1, <3>1, <3>2 DEF IInv, Texts
  <2>8. Judged'
    <3> SUFFICES ASSUME NEW i \in Jobs PROVE JudgedBy(row[i].reason, TextOf(i)')
      BY <1>1 DEF Judged, JudgedBy
    <3>1. JudgedBy(row[i].reason, TextOf(i)) /\ CacheKey(posting[i]) \in Keys
      BY DEF IInv, Judged, Texts
    <3>2. TextOf(i) # NoText => TextOf(i)' = TextOf(i)
      BY <1>1, <2>6, <3>1 DEF TextOf
    <3> QED BY <3>1, <3>2 DEF JudgedBy
  <2> QED BY <2>7, <2>8
<1> QED BY <1>3, <1>4

LEMMA FetchTextKeeps ==
    ASSUME IInv, FetchText PROVE IInv'
<1>1. PICK j : run' = [at |-> run.at, queue |-> run.queue \ {j}, skip |-> run.skip, alive |-> run.alive]
  BY DEF FetchText, IInv, Typed
<1>2. run.at # "idle" /\ UNCHANGED <<posting, rules, row, kept, why>>
  BY DEF FetchText
<1>3. run.queue \subseteq Jobs /\ run.alive \subseteq Jobs
  BY DEF IInv, Typed
<1> QED BY <1>1, <1>2, <1>3, FetchTextStays, RunStepKeeps

LEMMA CrashKeeps ==
    ASSUME IInv, Crash PROVE IInv'
<1>1. Texts' /\ Judged'
  BY TextsStay DEF IInv, Crash
<1> QED BY <1>1, RunStepKeeps DEF Crash, Idle

\* A reason read off a text is true of it.
LEMMA JudgedAsWritten ==
    ASSUME NEW j \in Jobs, rules \in RulesType, rules \in RuleSets,
           TextOf(j) # NoText => TextOf(j) \in TextType /\ IsFiniteSet(TextOf(j).amounts)
    PROVE  JudgedBy(JudgeText(j), TextOf(j))
<1> DEFINE text == TextOf(j)
           verdict == TextVerdict(text, GeoResult(posting[j], rules).by, rules)
<1>1. CASE text = NoText
  BY <1>1 DEF JudgeText, JudgedBy
<1>2. CASE text # NoText
  <2>1. JudgeText(j) = verdict
    BY <1>2 DEF JudgeText
  <2>2. verdict = "geo_jd_not_remote" => JdWorkplaceDrops(text)
    BY DEF TextVerdict
  <2>3. verdict = "salary_below_floor" => CheckSalaryFloor(PublishedSalaryFromJd(text), rules.floor)
    BY DEF TextVerdict
  <2> HIDE DEF verdict
  <2>4. rules.floor \in Nat
    BY DEF RulesType
  <2>5. verdict = "salary_below_floor" =>
          /\ \E a \in text.amounts : a.kind # "other"
          /\ \A a \in text.amounts : a.kind = "range" => a.top < rules.floor
    BY <1>2, <2>3, <2>4, BelowFloor
  <2> QED BY <1>2, <2>1, <2>2, <2>5, DropsAsPromised DEF JudgedBy
<1> QED BY <1>1, <1>2

LEMMA PreWriteKeeps ==
    ASSUME IInv, PreWrite PROVE IInv'
<1> DEFINE live == run.alive
           verdict == [j \in Jobs |-> IF j \in live THEN JudgeText(j) ELSE run.skip[j]]
<1>1. /\ row' = [j \in Jobs |-> ArchivedRow(j, verdict[j])]
      /\ run' = Idle /\ run.at # "idle"
      /\ posting' = posting /\ rules' = rules /\ kept' = kept
  BY DEF PreWrite
<1>2. ASSUME NEW j \in Jobs
      PROVE  /\ j \in kept /\ posting[j].flag # "remote" => verdict[j] \in PrepareOnly \cup {"none", "keep"}
             /\ NotForItsPlace(j, verdict[j])
             /\ JudgedBy(verdict[j], TextOf(j))
  <2>1. CASE j \notin live
    BY <1>1, <2>1 DEF IInv, SkipsAllowed, SkipAllowed, NotForItsPlace, JudgedBy
  <2>2. CASE j \in live
    <3>1. posting[j] \in PostingType /\ rules \in RulesType
      BY DEF IInv, Typed
    <3>2. PICK text :
            JudgeText(j) = "keep" \/ JudgeText(j) = TextVerdict(text, GeoResult(posting[j], rules).by, rules)
      BY DEF JudgeText
    <3>3. JudgeText(j) \in TextReasons \cup {"keep"}
      BY <3>2, TextReasonsOnly
    <3>4. NotForItsPlace(j, JudgeText(j))
      BY <3>1, <3>2, HomeNotTurnedDown DEF NotForItsPlace, PlaceReasons
    <3>5. JudgedBy(JudgeText(j), TextOf(j))
      <4>1. rules \in RulesType /\ rules \in RuleSets
        BY DEF IInv, Typed
      <4>2. TextOf(j) # NoText => TextOf(j) \in TextType /\ IsFiniteSet(TextOf(j).amounts)
        BY DEF IInv, Texts, TextOf
      <4> QED BY <4>1, <4>2, JudgedAsWritten
    <3> QED BY <2>2, <3>3, <3>4, <3>5 DEF PrepareOnly
  <2> QED BY <2>1, <2>2
<1> HIDE DEF verdict
<1>3. ASSUME NEW j \in Jobs
      PROVE  \/ row'[j] = row[j]
             \/ /\ row'[j] \in Rows /\ row'[j].reason = verdict[j]
                /\ verdict[j] \notin {"none", "keep"}
  <2>1. \/ row'[j] = row[j]
        \/ IsEngineSkipReason(verdict[j]) /\ row'[j] = [status |-> "Archived", reason |-> verdict[j]]
    BY <1>1 DEF ArchivedRow
  <2>2. CASE IsEngineSkipReason(verdict[j]) /\ row'[j] = [status |-> "Archived", reason |-> verdict[j]]
    <3>1. verdict[j] \in Known /\ verdict[j] \notin {"none", "keep"}
      BY <2>2, ReasonsAreKnown, NoReasonNoArchive
    <3>2. row'[j] \in Rows /\ row'[j].reason = verdict[j]
      BY <2>2, <3>1 DEF Rows
    <3> QED BY <3>1, <3>2
  <2> QED BY <2>1, <2>2
<1>4. Typed'
  <2>1. row' \in [Jobs -> Rows]
    <3>1. ASSUME NEW j \in Jobs PROVE row'[j] \in Rows
      BY <1>3 DEF IInv, Typed, Rows
    <3> QED BY <1>1, <3>1
  <2>2. why' = [j \in Jobs |-> why'[j]]
    BY DEF PreWrite
  <2> QED BY <1>1, <2>1, <2>2 DEF IInv, Typed, Idle
<1>5. KeptPassed' /\ SkipsAllowed'
  BY <1>1 DEF IInv, KeptPassed, SkipsAllowed, Idle
<1>6. StagesAgree'
  <2> SUFFICES ASSUME NEW j \in kept, posting[j].flag # "remote", row'[j].status = "Archived"
               PROVE  row'[j].reason \in PrepareOnly
    BY <1>1 DEF StagesAgree
  <2>1. j \in Jobs
    BY DEF IInv, Typed
  <2>2. CASE row'[j] = row[j]
    BY <2>2 DEF IInv, StagesAgree
  <2>3. CASE row'[j] # row[j]
    BY <1>2, <1>3, <2>1, <2>3
  <2> QED BY <2>2, <2>3
<1>7. HomeKept'
  <2>1. ASSUME NEW j \in Jobs PROVE why'[j] = why[j] \/ why'[j] = Because(verdict[j])
    BY DEF PreWrite, verdict, live
  <2> QED BY <1>1, <1>2, <2>1, HomeRecorded DEF IInv
<1>8. Texts'
  BY DEF IInv, Texts, PreWrite
<1>9. Judged'
  <2> SUFFICES ASSUME NEW j \in Jobs PROVE JudgedBy(row'[j].reason, TextOf(j))
    BY DEF Judged, TextOf, PreWrite
  <2> QED BY <1>2, <1>3 DEF IInv, Judged
<1> QED BY <1>4, <1>5, <1>6, <1>7, <1>8, <1>9 DEF IInv

LEMMA CommitBatchKeeps ==
    ASSUME IInv, CommitBatch PROVE IInv'
<1>1. UNCHANGED <<posting, rules, run, kept>>
  BY DEF CommitBatch
<1>2. ASSUME NEW j \in Jobs
      PROVE  /\ row'[j] \in Rows
             /\ row'[j].reason = row[j].reason
             /\ row'[j].status \in {row[j].status, "To Apply"}
  BY DEF CommitBatch, IInv, Typed, Rows
<1>3. Typed'
  BY <1>1, <1>2 DEF IInv, Typed, CommitBatch
<1>4. StagesAgree'
  BY <1>1, <1>2 DEF IInv, Typed, StagesAgree
<1>5. HomeKept'
  BY DEF IInv, HomeKept, CommitBatch
<1>6. Texts' /\ Judged'
  BY <1>2, TextsStay DEF IInv, CommitBatch
<1> QED BY <1>1, <1>3, <1>4, <1>5, <1>6 DEF IInv, KeptPassed, SkipsAllowed, SkipAllowed, NotForItsPlace

LEMMA RetroSweepKeeps ==
    ASSUME IInv, RetroSweep PROVE IInv'
<1>1. UNCHANGED <<posting, rules, run, kept>>
  BY DEF RetroSweep
<1>2. ASSUME NEW j \in Jobs
      PROVE  /\ row'[j] \in Rows
             /\ row'[j].reason = row[j].reason
             /\ row'[j].status # row[j].status => SweepVerdict(posting[j], rules) # "keep"
  BY DEF RetroSweep, IInv, Typed, Rows
<1>3. Typed'
  BY <1>1, <1>2 DEF IInv, Typed, RetroSweep
<1>4. StagesAgree'
  <2> SUFFICES ASSUME NEW j \in kept, row'[j].status = "Archived", posting[j].flag # "remote"
               PROVE  row'[j].reason \in PrepareOnly
    BY <1>1 DEF StagesAgree
  <2>1. j \in Jobs /\ posting[j] \in PostingType /\ rules \in RulesType
    BY DEF IInv, Typed
  <2>2. SweepVerdict(posting[j], rules) = "keep"
    BY <2>1, ShapesAgree DEF IInv, KeptPassed
  <2> QED BY <1>2, <2>1, <2>2 DEF IInv, StagesAgree
<1>5. HomeKept'
  <2>1. ASSUME NEW j \in Jobs
        PROVE  why'[j] = why[j] \/ why'[j] = Because(SweepVerdict(posting[j], rules))
    BY DEF RetroSweep
  <2>2. ASSUME NEW j \in Jobs PROVE NotForItsPlace(j, SweepVerdict(posting[j], rules))
    BY HomeNotTurnedDown DEF IInv, Typed, NotForItsPlace
  <2> QED BY <1>1, <2>1, <2>2, HomeRecorded DEF IInv
<1>6. Texts' /\ Judged'
  BY <1>2, TextsStay DEF IInv, RetroSweep
<1> QED BY <1>1, <1>3, <1>4, <1>5, <1>6 DEF IInv, KeptPassed, SkipsAllowed, SkipAllowed, NotForItsPlace

\* The invariant is inductive.
THEOREM Inductive == IInv /\ [Next]_vars => IInv'
<1> SUFFICES ASSUME IInv, [Next]_vars PROVE IInv'
  OBVIOUS
<1>1. CASE \E j \in Jobs : ScanJob(j)
  BY <1>1, ScanJobKeeps
<1>2. CASE EditRules \/ PreFilter \/ CheckUrls
  BY <1>2, EditRulesKeeps, PreFilterKeeps, CheckUrlsKeeps
<1>3. CASE UrlsChecked \/ FetchText \/ PreWrite
  BY <1>3, UrlsCheckedKeeps, FetchTextKeeps, PreWriteKeeps
<1>4. CASE CommitBatch \/ RetroSweep \/ Crash
  BY <1>4, CommitBatchKeeps, RetroSweepKeeps, CrashKeeps
<1>5. CASE UNCHANGED vars
  <2>1. Texts' /\ Judged'
    BY <1>5, TextsStay DEF IInv, vars
  <2> QED BY <1>5, <2>1
          DEF vars, IInv, Typed, KeptPassed, SkipsAllowed, SkipAllowed, NotForItsPlace, StagesAgree,
              HomeKept
<1> QED BY <1>1, <1>2, <1>3, <1>4, <1>5 DEF Next

\* While the rules stay, prepare and validate never archive a row for a rule
\* that scan judged it by and let it pass, whatever the posting, unless the
\* source's remote flag, which the ledger does not hold, let it in.
THEOREM StagesAlwaysAgree == Spec => []StagesAgree
<1>1. IInv => StagesAgree
  BY DEF IInv
<1> QED BY InitIInv, Inductive, <1>1, PTL DEF Spec

\* Under home_state_or_remote no command archives a job for its place that has
\* a location in the home state, except for places the owner blocks, names that
\* are Canadian ones too, a county beside a place of the location blocklist and
\* titles tied to another region.
THEOREM HomeStaysKept == Spec => []HomeKept
<1>1. IInv => HomeKept
  BY DEF IInv
<1> QED BY InitIInv, Inductive, <1>1, PTL DEF Spec

\* Nor does a text archive one but as its module promises: the text a row was
\* archived for is still in the cache, under any sharing of keys, any answers
\* of its page and any deaths of a prepare.
THEOREM PlaceStaysKept == Spec => []PlaceKept
<1>1. IInv => PlaceKept
  BY DEF IInv, Judged, JudgedBy, PlaceKept
<1> QED BY InitIInv, Inductive, <1>1, PTL DEF Spec

\* A row is archived for its pay only on a text that publishes some, every
\* range of which tops out below a floor the owner has set.
THEOREM PayStaysKept == Spec => []PayKept
<1>1. IInv => PayKept
  BY DEF IInv, Judged, JudgedBy, PayKept
<1> QED BY InitIInv, Inductive, <1>1, PTL DEF Spec
=============================================================================
