----------------------------- MODULE Screening -----------------------------
(***************************************************************************)
(* The verdict on a posting: the one evaluator every command calls         *)
(* (core/evaluate_job.js) through a shape of its own (core/filter.js,      *)
(* commands/prepare.js, core/email_filters.js), and the passes over the    *)
(* text of the description (core/hard_blockers.js,                         *)
(* core/requirement_blockers.js, core/published_salary.js).                *)
(***************************************************************************)
EXTENDS Geo, Sequences, FiniteSetsExt

(* A posting is [company, title, locs, flag, source]; "required" of a      *)
(* title says that some part of it matches the requirelist, "unwanted"     *)
(* that the blocklist hits it.  The rules of a profile are [companies,     *)
(* require, unwanted, listed, cap, mode, remoteOk, floor, demands]; a list *)
(* a profile lacks is FALSE, a floor 0, a cap beyond any count.            *)
NoCap == 99

(* company_cap with neither an override nor max_active.                    *)
WithoutCap(rules) == [rules EXCEPT !.cap = NoCap]

NormalizeTitleBlocklist(rules) == rules.unwanted
TitlePassesRequirelist(title) == "required" \in title

(* Mutant: one foreign location is enough, whatever else is listed.        *)
LocationBlockedAnywhere(locs) == \E l \in locs : "listed" \in Marks[l]

(* A US marker in any location suppresses the whole list.                  *)
LocationBlocked(locs) ==
  /\ locs # {} /\ ~HasUsMarker(locs)
  /\ \E l \in locs : "listed" \in Marks[l]

(* top is the highest published amount, 0 when none was published.         *)
CheckSalaryFloor(top, floor) == floor > 0 /\ top > 0 /\ top < floor

Discovering(context) == context \in {"scan", "prepare"}

(* evaluateJob: "keep" or the first reason to skip.                        *)
EvaluateJob(job, rules, count, top, context) ==
  LET geo == EnforceGeo(job.locs, rules.mode, rules.remoteOk, job.flag, job.title)
  IN IF job.company \in rules.companies THEN "company_blocklist"
     ELSE IF Discovering(context) /\ rules.require /\ ~TitlePassesRequirelist(job.title)
               THEN "title_requirelist"
     ELSE IF NormalizeTitleBlocklist(rules) /\ "unwanted" \in job.title THEN "title_blocklist"
     ELSE IF Discovering(context) /\ count >= rules.cap THEN "company_cap"
     ELSE IF Discovering(context) /\ rules.listed /\ LocationBlocked(job.locs)
               THEN "location_blocklist"
     ELSE IF context = "prepare" /\ CheckSalaryFloor(top, rules.floor) THEN "salary_below_floor"
     ELSE IF Discovering(context) /\ rules.mode # "unrestricted" /\ ~geo.ok THEN geo.reason
     ELSE "keep"

(* What scan hands to the evaluator: the posting as its source told it.    *)
JobFromAdapterScan(posting) == posting

(* filterJobs with the cap taken out of the rules.                         *)
ScanVerdict(posting, rules) ==
  EvaluateJob(JobFromAdapterScan(posting), WithoutCap(rules), 0, 0, "scan")

(* Mutant: the location column is not handed to the evaluator.             *)
JobFromTsvWithoutPlaces(posting) == [posting EXCEPT !.flag = "none", !.locs = {}]

(* A ledger row has no column for the structured signal.                   *)
JobFromTsv(posting) == [posting EXCEPT !.flag = "none"]

(* matchBlocklists, over rows: no cap, and only when some rule but the     *)
(* requirelist is set.                                                     *)
HasBlocklistRules(rules) ==
  rules.companies # {} \/ rules.unwanted \/ rules.listed \/ rules.mode # "unrestricted"

SweepVerdict(posting, rules) ==
  IF HasBlocklistRules(rules)
    THEN EvaluateJob(JobFromTsv(posting), WithoutCap(rules), 0, 0, "scan")
    ELSE "keep"

(* Sources whose rows scan keeps and prepare archives.                     *)
PrepareSourceExclude == {"calcareers"}

WithoutGeo(rules) == [rules EXCEPT !.mode = "unrestricted", !.floor = 0]
OnlyGeo(rules) ==
  [WithoutCap(rules) EXCEPT !.companies = {}, !.require = FALSE, !.unwanted = FALSE,
                            !.listed = FALSE, !.floor = 0]

GeoResult(posting, rules) ==
  LET job == JobFromTsv(posting)
  IN EnforceGeo(job.locs, rules.mode, rules.remoteOk, job.flag, job.title)

(* The verdict of applyPrepareFilter on one row, count being the company's *)
(* active rows and those passed before it.                                 *)
PrepareVerdict(posting, rules, count) ==
  LET first == EvaluateJob(JobFromTsv(posting), WithoutGeo(rules), count, 0, "prepare")
  IN IF posting.source \in PrepareSourceExclude THEN "source_excluded_from_prepare"
     ELSE IF first # "keep" THEN first
     ELSE IF /\ rules.mode # "unrestricted"
             /\ ExtractTitleGeo(posting.title) /\ ~TitleMentionsCandidateGeo(posting.title)
               THEN "geo_title_excluded"
     ELSE EvaluateJob(JobFromTsv(posting), OnlyGeo(rules), count, 0, "prepare")

-----------------------------------------------------------------------------
(* lines are the requirements of a description, each [says, years]: it     *)
(* names an excluded skill, a certificate, a strong or a soft word, and    *)
(* the years it asks for.                                                  *)
Window == 3

LineHasRequiredQualifier(lines, i, minYears) ==
  /\ "nice" \notin lines[i].says
  /\ \E j \in DOMAIN lines :
       /\ j \in (i - Window)..(i + Window)
       /\ "strong" \in lines[j].says \/ lines[j].years >= minYears

(* demands is [minYears, maxYears, certs, fields]; the codes of one text.  *)
FindHardBlockers(text, demands) ==
  LET lines == text.lines
  IN {code \in {"required_skill_excluded", "years_required_max_exceeded", "cert_required"} :
        \E i \in DOMAIN lines :
          CASE code = "required_skill_excluded" ->
                 "skill" \in lines[i].says
                   /\ LineHasRequiredQualifier(lines, i, demands.minYears)
            [] code = "years_required_max_exceeded" -> lines[i].years > demands.maxYears
            [] OTHER -> demands.certs /\ "cert" \in lines[i].says}

(* Patterns with an unknown label, a bad expression or no known field are  *)
(* dropped; the others look only at the fields they name.                  *)
AllowedMatchIn == {"requirements", "responsibilities", "full_text_excerpt"}

CompilePatterns(patterns) ==
  {fields \cap AllowedMatchIn : fields \in patterns} \ {{}}

ApplyRequirementBlockers(text, patterns) ==
  \E fields \in CompilePatterns(patterns) : fields \cap text.hits # {}

(* Amounts are [top, kind, section]: a range, a lone amount, or one that   *)
(* is hourly or no plausible salary; section says it stands in the line on *)
(* compensation, where lone amounts count unless a range is there too.     *)
FindRanges(amounts) == {a \in amounts : a.kind = "range"}
FindSingles(amounts) == {a \in amounts : a.kind = "single"}

MergeRanges(a, b) == Max({0} \cup a \cup b)

(* Mutant: the line on compensation, once there, is all that is read.      *)
PublishedSalaryOfSection(text) ==
  LET section == {a \in text.amounts : a.section}
      read == IF section # {} THEN section ELSE text.amounts
  IN MergeRanges({a.top : a \in FindRanges(read)}, {a.top : a \in FindSingles(section)})

PublishedSalaryFromJd(text) ==
  LET section == {a \in text.amounts : a.section}
      fromSection == IF FindRanges(section) # {} THEN FindRanges(section) ELSE FindSingles(section)
      Tops(amounts) == {a.top : a \in amounts}
  IN MergeRanges(Tops(fromSection), Tops(FindRanges(text.amounts)))

(* The passes over a text, in the order runPre makes them: "keep" or the   *)
(* reason.  by is how the row passed the check of its locations.           *)
TextVerdict(text, by, rules) ==
  IF /\ rules.mode = "home_state_or_remote" /\ NeedsJdWorkplaceCheck(by)
     /\ JdWorkplaceDrops(text) THEN "geo_jd_not_remote"
  ELSE IF FindHardBlockers(text, rules.demands) # {} THEN "hard_blocker"
  ELSE IF ApplyRequirementBlockers(text, rules.demands.fields) THEN "requirement_blocker"
  ELSE IF CheckSalaryFloor(PublishedSalaryFromJd(text), rules.floor) THEN "salary_below_floor"
  ELSE "keep"

(* Mutant: a reason is missing from the list.                              *)
IsEngineSkipReasonWithoutSources(reason) == reason \in
  {"company_blocklist", "title_blocklist", "title_requirelist", "company_cap",
   "location_blocklist", "geo_no_location", "geo_blocklist", "geo_metro_miss",
   "geo_country_miss", "geo_remote_only_miss", "geo_not_home_state_or_remote",
   "geo_jd_not_remote", "salary_below_floor", "geo_title_excluded", "url_dead",
   "hard_blocker", "requirement_blocker"}

(* The reasons the archive writes of a row; any other leaves it in Inbox.  *)
IsEngineSkipReason(reason) == reason \in
  {"company_blocklist", "title_blocklist", "title_requirelist", "company_cap",
   "location_blocklist", "geo_no_location", "geo_blocklist", "geo_metro_miss",
   "geo_country_miss", "geo_remote_only_miss", "geo_unknown_mode",
   "geo_not_home_state_or_remote", "geo_jd_not_remote", "salary_below_floor",
   "geo_title_excluded", "url_dead", "source_excluded_from_prepare",
   "hard_blocker", "requirement_blocker"}
=============================================================================
