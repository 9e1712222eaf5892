---------------------------- MODULE MCJudgement ----------------------------
\* Values for TLC: the postings, the descriptions and the rules.
EXTENDS Judgement

CONSTANTS a, b

MCOrder == <<a, b>>

Demands == [minYears |-> 3, maxYears |-> 9, certs |-> TRUE, fields |-> {{"requirements", "title"}}]

Rules(mode) ==
  [companies |-> {}, require |-> TRUE, unwanted |-> TRUE, listed |-> TRUE, cap |-> 1, mode |-> mode,
   remoteOk |-> TRUE, floor |-> 10, demands |-> Demands]

MCRules ==
  {Rules("home_state_or_remote"), Rules("metro"),
   Rules("remote-only"), [Rules("us-wide") EXCEPT !.companies = {"c"}, !.remoteOk = FALSE]}

Posting(source, locs, flag, title, company, id) ==
  [source |-> source, locs |-> locs, flag |-> flag, title |-> title \cup {"required"},
   company |-> company, id |-> id, url |-> TRUE]

Places ==
  {{f} : f \in Forms} \cup
  {{}, {"away", "home"}, {"homeBlocked", "abroad"}, {"county", "away"}, {"remote", "abroad"},
   {"country", "away"}, {"homeBlocked", "home"}, {"home", "abroad"}, {"county", "abroad"}}

Of(id, company) ==
  {Posting("ashby", locs, "none", {}, company, id) : locs \in Places} \cup
  {Posting("greenhouse", {"country"}, "none", title, company, id) :
     title \in {{"region"}, {"region", "us"}, {"remote"}, {"remote", "region"}, {"unwanted"}}} \cup
  {Posting("oracle_cloud", {"remote"}, "nonRemote", {}, company, id),
   [Posting("custom", {"home"}, "none", {}, company, id) EXCEPT !.title = {}],
   Posting("icims", {"homeMetro"}, "none", {"region"}, company, id),
   Posting("calcareers", {"home"}, "none", {}, company, id),
   Posting("indeed", {"away"}, "none", {"remote"}, company, id),
   Posting("workable", {"country"}, "none", {}, company, id)}

MCPostings == (a :> Of(<<"1", "">>, "c") @@
               b :> {Posting("lever", {"remoteUs"}, "none", {}, "c", <<"2", "">>)})

Line(says, years) == [says |-> says, years |-> years]
Amount(top, kind, section) == [top |-> top, kind |-> kind, section |-> section]

Text(schedule, line, sentences) ==
  [schedule |-> schedule, location |-> line, sentences |-> sentences, lines |-> <<>>, hits |-> {},
   amounts |-> {}, body |-> TRUE]

Nowhere == [says |-> {}, places |-> {}]
In(place) == [says |-> {}, places |-> {place}]

Hybrid == Text("none", In("away"), {Sentence({"hybrid", "office"}, {"away"})})
Pinned == Text("none", Nowhere, {Sentence({"pinned"}, {"abroad"}), Sentence({"remoteWeak"}, {})})
RemoteTeam == Text("none", In("away"), {Sentence({"remoteStrong"}, {}), Sentence({"pinned", "office"}, {"away"})})
Header == Text("remote", In("away"), {Sentence({"fiveDays", "office"}, {"away"})})
Retreats == Text("none", Nowhere, {Sentence({"someDays", "noise"}, {"away"}), Sentence({"remoteWeak"}, {})})
HomeOffice == Text("none", Nowhere, {Sentence({"someDays"}, {"away"}), Sentence({"office"}, {"home"})})

Asks(lines, amounts) ==
  [Text("none", Nowhere, {}) EXCEPT !.lines = lines, !.amounts = amounts]

Tiers == Asks(<<>>, {Amount(8, "range", TRUE), Amount(12, "range", FALSE)})
Low == Asks(<<>>, {Amount(9, "range", FALSE), Amount(50, "other", FALSE)})
Skill == Asks(<<Line({"skill"}, 0), Line({}, 0), Line({}, 0), Line({"strong"}, 0)>>, {})
Soft == Asks(<<Line({"skill", "nice"}, 0), Line({"strong"}, 5), Line({"cert"}, 0)>>, {})
Degree == [Asks(<<>>, {}) EXCEPT !.hits = {"requirements"}]
Empty == [Asks(<<>>, {}) EXCEPT !.body = FALSE]

MCDescriptions ==
  (a :> {Hybrid, Pinned, RemoteTeam, Header, Retreats, HomeOffice, Tiers, Low, Skill, Soft, Degree,
         Empty} @@
   b :> {Header, Tiers})
=============================================================================
