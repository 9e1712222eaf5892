------------------------------ MODULE Answers ------------------------------
(***************************************************************************)
(* How a question of an application form gets its answer: the matchers     *)
(* that know the standard questions, the bank of earlier answers with the  *)
(* owner's ratings, and the plan that lays both on the form as it is at    *)
(* submit.  A label is known by the topics its words name, a text by how   *)
(* it begins and what it contains.                                         *)
(***************************************************************************)
EXTENDS Naturals, Sequences, FiniteSets, FiniteSetsExt, TLC

CONSTANTS
    Texts,        \* options and answers
    Opens,        \* <<t, w>>: the text t begins with w
    Holds,        \* <<t, w>>: t contains w as a whole phrase
    Length,       \* text -> its length
    Declines,     \* texts that decline to say
    Affirms,      \* texts that agree or confirm
    Denies,       \* texts that say no
    Says,         \* label -> topics its words name
    Facts,        \* the applicant's identity and apply_defaults
    Category      \* label -> category of its question

NoText == "no answer"
Pass == "not mine"    \* undefined: the question belongs to a later matcher

ASSUME AnswersAssumption ==
    /\ Opens \subseteq Texts \X Texts /\ Holds \subseteq Texts \X Texts
    /\ Length \in [Texts -> Nat]
    /\ Declines \cup Affirms \cup Denies \subseteq Texts
    /\ {NoText, Pass} \cap Texts = {}

\* apply_defaults.json is only used when it validates: work authorization,
\* relocation, the EEO policy and the source of the application are there,
\* the other facts may be missing.
ValidDefaults(facts) ==
    /\ facts.authorized \in {"Yes", "No"} /\ facts.sponsorship \in {"Yes", "No"}
    /\ facts.relocate \in {"Yes", "No"}
    /\ facts.status # NoText /\ facts.heard # NoText
    /\ facts.floor \in Nat /\ facts.desired \in Nat /\ facts.desired >= facts.floor

-----------------------------------------------------------------------------
(* Options *)

Shortest(ts) == CHOOSE t \in ts : \A u \in ts : Length[t] <= Length[u]

\* The same text, else one that begins with it, else one that contains it.
PickOption(options, wanted) ==
    LET begins == {o \in options : <<o, wanted>> \in Opens}
        holds  == {o \in options : Length[wanted] >= 4 /\ <<o, wanted>> \in Holds}
    IN  IF wanted \notin Texts THEN NoText
        ELSE IF wanted \in options THEN wanted
        ELSE IF begins # {} THEN Shortest(begins)
        ELSE IF holds # {} THEN Shortest(holds) ELSE NoText

AnyOf(options, fit) == IF options \cap fit = {} THEN NoText ELSE Shortest(options \cap fit)

IsChoice(f) == f.type \in {"select", "radio", "checkbox"}
HasOptions(f) == f.options # {}
IsText(f) == f.type \in {"text", "textarea"}

ResolveValue(f, v) == IF v # NoText /\ IsChoice(f) /\ HasOptions(f)
                      THEN PickOption(f.options, v) ELSE v

PickChoice(f, v) == IF v = NoText \/ ~IsChoice(f) THEN v ELSE PickOption(f.options, v)

-----------------------------------------------------------------------------
(* The matchers: Pass for a question that is not theirs, NoText for one    *)
(* that is and that they cannot answer.                                    *)

About(f, topic) == topic \in Says[f.label]

MatchFile(f) ==
    IF f.type # "file" THEN Pass
    ELSE IF About(f, "cover letter") THEN "cover_letter"
    ELSE IF About(f, "resume") THEN "resume" ELSE NoText

MatchCountry(f) ==
    IF ~About(f, "country") THEN Pass
    ELSE IF HasOptions(f) THEN PickOption(f.options, Facts.country) ELSE Facts.country

MatchAddress(f) ==
    IF ~About(f, "address") THEN Pass
    ELSE IF PickChoice(f, Facts.address) # NoText \/ ~IsChoice(f)
         THEN PickChoice(f, Facts.address) ELSE PickChoice(f, Facts.stateName)

MatchIdentity(f) ==
    IF ~About(f, "identity") THEN Pass ELSE PickChoice(f, Facts.identity)

MatchEeo(f) ==
    IF ~About(f, "eeo") THEN Pass
    ELSE IF Facts.eeo # "decline" THEN NoText
    ELSE IF HasOptions(f) THEN AnyOf(f.options, Declines)
    ELSE IF IsText(f) THEN "Decline to self-identify" ELSE NoText

MatchPronouns(f) ==
    IF ~About(f, "pronouns") THEN Pass
    ELSE IF HasOptions(f) THEN AnyOf(f.options, Declines) ELSE NoText

MatchSponsorship(f) ==
    IF ~About(f, "visa") THEN Pass ELSE ResolveValue(f, Facts.sponsorship)

MatchWorkAuth(f) ==
    IF ~About(f, "authorized") THEN Pass
    ELSE IF ~IsChoice(f) /\ About(f, "status") THEN Facts.status
    ELSE IF About(f, "abroad") THEN NoText ELSE ResolveValue(f, Facts.authorized)

MatchCitizenship(f) ==
    IF ~About(f, "citizen") \/ Facts.citizenships = NoText
    THEN IF About(f, "citizen") THEN NoText ELSE Pass
    ELSE IF About(f, "embargo") THEN ResolveValue(f, Facts.embargoed)
    ELSE IF About(f, "resident") THEN ResolveValue(f, Facts.residentOrCitizen)
    ELSE IF About(f, "us citizen") THEN ResolveValue(f, Facts.citizen)
    ELSE IF ~IsChoice(f) THEN Facts.citizenships ELSE NoText

MatchLegal(f) ==
    IF (~About(f, "legal") /\ ~About(f, "marketing")) \/ About(f, "job terms") THEN Pass
    ELSE IF ~About(f, "legal")
    THEN IF HasOptions(f) THEN AnyOf(f.options, Denies)
         ELSE IF f.type = "checkbox" THEN "No" ELSE Pass
    ELSE IF Facts.legal # "accept" THEN Pass
    ELSE IF HasOptions(f) THEN AnyOf(f.options, Affirms \ Denies)
    ELSE IF f.type = "checkbox" THEN "Yes" ELSE Pass

\* Where the applicant lives decides first; that needs the posting.
MatchRelocation(f) ==
    IF ~About(f, "relocation") THEN Pass
    ELSE IF About(f, "lives now") THEN NoText ELSE ResolveValue(f, Facts.relocate)

MatchRelatives(f) ==
    IF ~About(f, "relatives") THEN Pass
    ELSE IF Facts.relatives = NoText THEN NoText
    ELSE IF About(f, "if yes")
    THEN IF Facts.relatives = "Yes" \/ ~f.required THEN NoText ELSE "N/A"
    ELSE IF ~HasOptions(f) THEN Facts.relatives
    ELSE IF Facts.relatives = "Yes" THEN PickOption(f.options, "Yes") ELSE AnyOf(f.options, Denies)

MatchStartDate(f) ==
    IF ~About(f, "start") THEN Pass
    ELSE IF f.type = "date" THEN NoText
    ELSE IF HasOptions(f) THEN PickOption(f.options, Facts.start) ELSE Facts.start

MatchHowHeard(f) ==
    IF ~About(f, "heard") THEN Pass
    ELSE IF About(f, "why") THEN NoText
    ELSE IF ~HasOptions(f) THEN Facts.heard
    ELSE LET buckets == <<Facts.heard, "Website", "Other">>
             hits == {i \in DOMAIN buckets : PickOption(f.options, buckets[i]) # NoText}
         IN  IF hits = {} THEN NoText ELSE PickOption(f.options, buckets[Min(hits)])

MatchSalary(f) ==
    IF ~About(f, "salary") THEN Pass ELSE IF IsChoice(f) THEN NoText ELSE "desired salary"

\* The first matcher whose question it is.
Replies(f) ==
    <<MatchFile(f), MatchCountry(f), MatchAddress(f), MatchIdentity(f), MatchEeo(f),
      MatchPronouns(f), MatchSponsorship(f), MatchWorkAuth(f), MatchCitizenship(f),
      MatchLegal(f), MatchRelocation(f), MatchRelatives(f), MatchStartDate(f),
      MatchHowHeard(f), MatchSalary(f)>>

FirstOf(replies) ==
    LET mine == {i \in DOMAIN replies : replies[i] # Pass}
    IN  IF mine = {} THEN NoText ELSE replies[Min(mine)]

\* Work authorization comes before citizenship: "authorized to work (e.g.
\* a citizen)" is a question about the former.
MatchQuestion(f) == FirstOf(Replies(f))

\* The top of the published range, never under the floor.
ComputeDesiredSalary(range) ==
    IF range = {} THEN [value |-> Facts.desired, belowFloor |-> FALSE]
    ELSE [value |-> Max(range \cup {Facts.floor}), belowFloor |-> Max(range) < Facts.floor]

-----------------------------------------------------------------------------
(* The answer bank: pages [id, job, company, label, text, category, names, *)
(* age]; names: the text names its company, age: larger is newer.          *)

Reusable == {"Logistics", "Technical", "Experience"}

NeutralRating == 3
LowRating == 2

\* A rating of the page itself wins over one given to its local copy.
RatingFor(p, ratings) == IF ratings[p].page # 0 THEN ratings[p].page ELSE ratings[p].copy

Score(p, ratings) == IF RatingFor(p, ratings) = 0 THEN NeutralRating ELSE RatingFor(p, ratings)

RankBank(bank, ratings) == {p \in bank : Score(p, ratings) > LowRating}

Ahead(p, q, ratings) ==
    \/ Score(p, ratings) > Score(q, ratings)
    \/ Score(p, ratings) = Score(q, ratings) /\ p.age > q.age

First(ps, ratings) == {p \in ps : \A q \in ps \ {p} : Ahead(p, q, ratings)}

BankValue(f, p) == IF IsChoice(f) THEN PickOption(f.options, p.text) ELSE p.text

\* A page without a category has that of its question.
CategoryOf(p) == IF p.category = "" THEN Category[p.label] ELSE p.category

\* Mutant: any earlier answer to the same question will do.
SearchBankAnyCategory(bank, ratings, job, f) ==
    First({p \in RankBank(bank, ratings) : p.label = f.label /\ BankValue(f, p) # NoText}, ratings)

\* The same question of the same job, else the best-ranked answer to the
\* same question that is about the applicant and not about the employer.
SearchBank(bank, ratings, job, f) ==
    LET kept  == RankBank(bank, ratings)
        exact == {p \in First({p \in kept : p.job = job /\ p.label = f.label}, ratings) :
                    BankValue(f, p) # NoText}
        portable == {p \in kept : /\ p.job # job /\ p.label = f.label
                                  /\ CategoryOf(p) \in Reusable /\ ~p.names
                                  /\ BankValue(f, p) # NoText}
    IN  IF exact # {} THEN exact ELSE First(portable, ratings)

-----------------------------------------------------------------------------
(* A form's answers at pre, and the plan at submit *)

Given(f, text, source) == [id |-> f.id, label |-> f.label, text |-> text, source |-> source]

\* files: those of "resume" and "cover_letter" that are on disk.
FieldAnswer(f, job, files, bank, ratings) ==
    LET m == MatchQuestion(f)
        found == SearchBank(bank, ratings, job, f)
    IN  IF f.type = "file" THEN IF m \in files THEN {Given(f, m, "file")} ELSE {}
        ELSE IF m # NoText THEN {Given(f, m, "defaults")}
        ELSE {Given(f, BankValue(f, p), "bank") : p \in found}

ResolveFields(fields, job, files, bank, ratings) ==
    LET answersTo(f) == FieldAnswer(f, job, files, bank, ratings)
        open == {f \in fields : answersTo(f) = {}}
    IN  [answers    |-> UNION {answersTo(f) : f \in fields},
         unanswered |-> {f \in open : f.type # "file"},
         blocked    |-> \E f \in open : f.type = "file" /\ f.required]

\* What the answer of the context or of the language model becomes on the
\* live field: the field's id decides first, then its label.
Planned(f, answers, llm) ==
    LET byId    == {a \in answers : a.id = f.id}
        byLabel == {a \in answers : a.label = f.label}
        byModel == {a \in llm : a.label = f.label}
        chosen  == IF byId # {} THEN byId ELSE IF byLabel # {} THEN byLabel ELSE byModel
        fitted(t) == IF ~IsChoice(f) \/ ~HasOptions(f) THEN t
                     ELSE IF PickOption(f.options, t) = NoText /\ f.partial THEN t
                     ELSE PickOption(f.options, t)
        texts == {fitted(a.text) : a \in chosen}
    IN  IF texts = {} THEN NoText ELSE CHOOSE t \in texts : TRUE

BuildFillPlan(fields, answers, llm) == [f \in fields |-> Planned(f, answers, llm)]

MissingRequired(plan) == {f \in DOMAIN plan : f.required /\ plan[f] = NoText}
=============================================================================
