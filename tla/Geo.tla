-------------------------------- MODULE Geo --------------------------------
(***************************************************************************)
(* Where a job may be done, as the code reads it off a posting             *)
(* (core/geo_enforcer.js) and off the text of its description              *)
(* (core/jd_workplace.js).  A location string is a form standing for all   *)
(* strings the code's expressions cannot tell apart; Marks says what each  *)
(* of them finds in it.  The home state is California.                     *)
(***************************************************************************)
EXTENDS Integers, FiniteSets

(* What the tables and expressions find in a location of each form.  "us"  *)
(* is US_MARKERS or a state, "home" the home state's code or name, "word"  *)
(* something left over once markers and filler words are removed.  "in" of *)
(* "Remote in Germany" reads as the code of Indiana.                       *)
Marks == [
  home          |-> {"us", "home", "word"},                    \* San Diego, CA
  homeMetro     |-> {"us", "home", "city", "word"},            \* Roseville, CA
  homeNamed     |-> {"us", "home", "named", "canada", "word"}, \* California or Ontario
  homeBlocked   |-> {"us", "home", "blocked", "word"},         \* Napa, CA
  county        |-> {"county", "word"},                        \* Vista, San Diego County
  countyAway    |-> {"us", "county", "otherState", "word"},    \* Orange County, NY
  canada        |-> {"us", "home", "canada", "word"},          \* Toronto, ON, CA
  homeTwin      |-> {"us", "home", "canada", "word"},          \* Ontario, CA, read the same
  bareCity      |-> {"city", "word"},                          \* Roseville
  away          |-> {"us", "word"},                            \* Austin, TX
  awaySameCity  |-> {"us", "city", "word"},                    \* Roseville, MN
  country       |-> {"us", "country"},                         \* United States
  remote        |-> {"remote"},                                \* Remote
  remoteUs      |-> {"remote", "us", "word"},                  \* Remote, TX
  remoteAbroad  |-> {"remote", "word"},                        \* Remote - UK
  remoteIn      |-> {"remote", "us", "word"},                  \* Remote in Germany
  abroad        |-> {"listed", "word"}]                        \* London, UK

Forms == DOMAIN Marks

(* The marks a policy acts on are those of the profile: cities, blocklist. *)
IsRemoteLoc(l) == "remote" \in Marks[l]
HasUsMarker(ls) == \E l \in ls : "us" \in Marks[l]
LocContainsCity(l) == "city" \in Marks[l]
LocContainsState(l) == "home" \in Marks[l]
LocInBlocklist(l) == "blocked" \in Marks[l]

(* A county of the home state, unless another state is named.              *)
LocInHomeStateCounty(l) == "county" \in Marks[l] /\ "otherState" \notin Marks[l]

(* CA also stands for Canada, unless the state is written out.             *)
LocInHomeState(l) ==
  IF LocContainsState(l)
    THEN "named" \in Marks[l] \/ "canada" \notin Marks[l]
    ELSE LocInHomeStateCounty(l)

(* A remote posting for the whole US, or for nowhere in particular.        *)
IsUsCompatibleRemoteLoc(l) ==
  IsRemoteLoc(l) /\ (HasUsMarker({l}) \/ "word" \notin Marks[l])

IsForeignOnlyLoc(l) ==
  ~HasUsMarker({l}) /\ (IsRemoteLoc(l) => ~IsUsCompatibleRemoteLoc(l))

IsUsCountryOnlyLoc(l) == "country" \in Marks[l] /\ "word" \notin Marks[l]

(* A title's marks: "remote", "region" (a region other than the US that    *)
(* excludes the rest: "(UK)", "Remote - EMEA"), "us" (a US marker, or a    *)
(* country the profile accepts), and those of the title lists.             *)
ExtractTitleGeo(title) == "region" \in title
TitleMentionsCandidateGeo(title) == "us" \in title

(* A verdict: the clause that let the job pass, or the reason it did not.  *)
Pass(by) == [ok |-> TRUE, reason |-> "none", by |-> by]
Miss(reason) == [ok |-> FALSE, reason |-> reason, by |-> "none"]

(* The modes that look at one location at a time.                          *)
CheckOneLocation(l, mode, remoteOk) ==
  /\ ~LocInBlocklist(l)
  /\ \/ mode = "unrestricted"
     \/ mode = "remote-only" /\ IsRemoteLoc(l)
     \/ mode \in {"metro", "us-wide"} /\ remoteOk /\ IsRemoteLoc(l)
     \/ mode = "metro" /\ LocContainsCity(l) /\ (LocContainsState(l) \/ ~HasUsMarker({l}))
     \/ mode = "us-wide" /\ HasUsMarker({l})

(* flag is the adapter's structured signal: "remote", "nonRemote", "none". *)
EnforceHomeStateOrRemote(locs, flag, title) ==
  LET usable == {l \in locs : ~LocInBlocklist(l)}
  IN IF locs # {} /\ usable = {} THEN Miss("geo_blocklist")
     ELSE IF \E l \in usable : LocInHomeState(l) THEN Pass("home_state")
     ELSE IF flag = "remote" THEN Pass("remote:structured")
     ELSE IF usable = {} THEN Miss("geo_no_location")
     ELSE IF flag = "nonRemote" THEN Miss("geo_not_home_state_or_remote")
     ELSE IF \E l \in usable : IsUsCompatibleRemoteLoc(l) THEN Pass("remote:location")
     ELSE IF /\ "remote" \in title /\ ~ExtractTitleGeo(title)
             /\ ~\E l \in usable : IsForeignOnlyLoc(l) THEN Pass("remote:title")
     ELSE IF \A l \in usable : IsUsCountryOnlyLoc(l) THEN Pass("us_unspecified")
     ELSE Miss("geo_not_home_state_or_remote")

MissReason(mode) == CASE mode = "metro" -> "geo_metro_miss"
                      [] mode = "us-wide" -> "geo_country_miss"
                      [] mode = "remote-only" -> "geo_remote_only_miss"

(* enforceGeo: one location that fits is enough; a blocked one neither     *)
(* passes nor fails the job, unless all are.                               *)
EnforceGeo(locs, mode, remoteOk, flag, title) ==
  IF mode = "home_state_or_remote" THEN EnforceHomeStateOrRemote(locs, flag, title)
  ELSE IF locs = {} /\ mode # "unrestricted" THEN Miss("geo_no_location")
  ELSE IF locs = {} \/ \E l \in locs : CheckOneLocation(l, mode, remoteOk) THEN Pass("location")
  ELSE IF \A l \in locs : LocInBlocklist(l) THEN Miss("geo_blocklist")
  ELSE Miss(MissReason(mode))

-----------------------------------------------------------------------------
(* The description's text.  schedule is its structured header line,        *)
(* location what its location line says (marks and places), sentences what *)
(* each further sentence says of the work format and which offices it      *)
(* names: "home", "away" or "abroad".                                      *)
Sentence(says, places) == [says |-> says, places |-> places]

(* Perks, interviews, events and pay ranges say nothing of this role.      *)
Telling(text) == {s \in text.sentences : "noise" \notin s.says}

NonRemote(text) == \E s \in Telling(text) : "notRemote" \in s.says

RemoteStrong(text) ==
  \/ "remote" \in text.location.says
  \/ \E s \in Telling(text) : "remoteStrong" \in s.says /\ "notRemote" \notin s.says

RemoteWeak(text) ==
  \/ "remoteElsewhere" \in text.location.says
  \/ \E s \in Telling(text) : "remoteWeak" \in s.says

(* Days per week in the office count as hybrid, all five as onsite.        *)
DaysSignal(s) == IF "fiveDays" \in s.says THEN "onsite"
                 ELSE IF "someDays" \in s.says THEN "hybrid"
                 ELSE "none"

SaysHybrid(s) == DaysSignal(s) = "hybrid" \/ "hybrid" \in s.says
SaysOnsite(s) == ~SaysHybrid(s) /\ (DaysSignal(s) = "onsite" \/ "onsite" \in s.says)
SaysPinned(s) == "pinned" \in s.says /\ s.places # {}

OfficeUnit(s) == \/ "notRemote" \in s.says \/ SaysHybrid(s) \/ SaysOnsite(s) \/ SaysPinned(s)
                 \/ "office" \in s.says

ExtractPlaces(text) ==
  text.location.places \cup UNION {s.places : s \in {u \in Telling(text) : OfficeUnit(u)}}

ClassifyJdWorkplace(text) ==
  [offices |-> ExtractPlaces(text),
   workplace |->
     IF text.schedule # "none" THEN text.schedule
     ELSE IF RemoteStrong(text) /\ ~NonRemote(text) THEN "remote"
     ELSE IF "hybrid" \in text.location.says \/ \E s \in Telling(text) : SaysHybrid(s) THEN "hybrid"
     ELSE IF \/ "onsite" \in text.location.says \/ NonRemote(text)
             \/ \E s \in Telling(text) : SaysOnsite(s) \/ SaysPinned(s) THEN "onsite"
     ELSE IF RemoteWeak(text) THEN "remote"
     ELSE "unknown"]

(* Only a hybrid or onsite role with named offices, none at home, drops.   *)
JdWorkplaceDrops(text) ==
  LET c == ClassifyJdWorkplace(text)
  IN c.workplace \in {"hybrid", "onsite"} /\ c.offices # {} /\ "home" \notin c.offices

(* The check is for jobs that passed without a location at home.           *)
NeedsJdWorkplaceCheck(by) == by \in {"us_unspecified", "remote:location", "remote:title"}
=============================================================================
