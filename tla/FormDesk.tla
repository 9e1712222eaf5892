------------------------------ MODULE FormDesk ------------------------------
(***************************************************************************)
(* A form from its first reading to its outcome, in the detail the model   *)
(* of the apply command (ApplyBot) leaves open: pre reads the form and     *)
(* answers what it can, the language model answers the rest and the        *)
(* answers are pushed to the bank, the owner rates them on the board,      *)
(* submit lays everything on the form as it then is, types, checks, clicks *)
(* and reads the page, the emailed code and the employer's mail.           *)
(* Meanwhile the employer edits or closes the form, the ATS parses the     *)
(* resume, and mails are sent. Some names say Desk or desk so that the     *)
(* proofs of this module and of Prepare can stand in one module.           *)
(***************************************************************************)
EXTENDS AtsForms

CONSTANTS
    Jobs,
    Company,       \* job -> the first word of its company's name
    Forms,         \* job -> <<the form, the form after an edit>>
    Files,         \* job -> its files on disk
    Pay,           \* job -> its published salary range, or {}
    Pages,         \* the pages the answer bank can hold
    Banked,        \* those it holds at the start
    OwnWords,      \* <<job, label>> -> what the language model answers
    Means,         \* text -> "yes", "no", another company's name, or "-"
    Truth,         \* label -> "yes", "no" or "-"
    AsksFor,       \* label -> the topic its question is about, whatever it names
    Stars,         \* the ratings the owner gives, of 1 to 5
    MaxRatings     \* bound: ratings given on the board

\* The controls of a form have ids of their own and are of the kinds that its
\* ATS has.
ASSUME FormsAssumption ==
    /\ \A job \in Jobs, v \in 1..2 : \A c \in Forms[job][v] :
        /\ \A d \in Forms[job][v] : c.id = d.id => c = d
        /\ JobUrl(job).reason = "ok" => c.element \in DOMAIN Kinds(JobUrl(job).at)
        /\ c.label \in DOMAIN Says
    /\ \A job \in Jobs : Files[job] \subseteq {"resume", "cover_letter"}

\* A text says nothing that could be false, or what is true of the question.
TrueOf(label, text) == Means[text] \in {"-", Truth[label]}

\* ... or, of one employer's question, something about that employer.
TrueFor(job, label, text) == Means[text] \in {"-", Company[job], Truth[label]}

\* An option that begins with a text or contains it says the same or nothing.
ASSUME OptionsAssumption ==
    \A pair \in Opens \cup Holds : Means[pair[1]] \in {"-", Means[pair[2]]}

\* Facts, and texts of the matchers, that are no answer to a yes or no.
PlainTexts ==
    {Facts.country, Facts.address, Facts.stateName, Facts.identity, Facts.status,
     Facts.citizenships, Facts.start, Facts.heard, "Website", "Other", "desired salary",
     "N/A", "Decline to self-identify", "resume", "cover_letter"} \cup Declines

\* The topics whose matchers say yes or no, in their order: of the first three
\* each takes every question that names it.
Standing == {"visa", "authorized", "citizen"}
YesNoTopics == Standing \cup {"legal", "marketing", "relocation", "relatives"}

\* The applicant's facts and policies are true of the questions that ask for
\* them.
ASSUME FactsAssumption ==
    /\ ValidDefaults(Facts)
    /\ Pass \notin PlainTexts \cup {Facts.embargoed, Facts.residentOrCitizen, Facts.citizen}
    /\ \A text \in PlainTexts : Means[text] = "-"
    /\ \A label \in DOMAIN Says :
        LET names == Says[label]
            asks == AsksFor[label]
        IN  /\ asks = "visa" => TrueOf(label, Facts.sponsorship)
            /\ asks = "authorized" /\ "abroad" \notin names => TrueOf(label, Facts.authorized)
            /\ asks = "citizen" =>
                    TrueOf(label, IF "embargo" \in names THEN Facts.embargoed
                                  ELSE IF "resident" \in names THEN Facts.residentOrCitizen
                                  ELSE IF "us citizen" \in names THEN Facts.citizen
                                  ELSE Facts.citizenships)
            /\ asks = "legal" => \A text \in (Affirms \ Denies) \cup {"Yes"} : TrueOf(label, text)
            /\ asks = "marketing" => \A text \in Denies \cup {"No"} : TrueOf(label, text)
            /\ asks = "relocation" /\ "lives now" \notin names => TrueOf(label, Facts.relocate)
            /\ asks = "relatives" /\ "if yes" \notin names =>
                    /\ TrueOf(label, Facts.relatives)
                    /\ Facts.relatives # "Yes" => \A text \in Denies : TrueOf(label, text)

\* A question whose words name, with or instead of the topic it asks for, one
\* whose matcher may take it: "authorized to work without visa sponsorship"
\* names the visa first and gets the answer about that.
MixesTopics(label) ==
    LET names == Says[label] \cap YesNoTopics
        asks == AsksFor[label]
    IN  /\ names # {}
        /\ \/ asks \notin names
           \/ asks = "authorized" /\ "visa" \in names
           \/ asks = "citizen" /\ names \cap {"visa", "authorized"} # {}
           \/ asks \notin Standing /\ names # {asks}

\* What the bank holds at the start is true of its job's questions, and a page
\* of a reusable category that does not name its company is about the
\* applicant.
ASSUME BankAssumption ==
    /\ Banked \subseteq Pages
    /\ \A p \in Banked : p.job \in Jobs => TrueFor(p.job, p.label, p.text)
    /\ \A p \in Pages : CategoryOf(p) \in Reusable /\ ~p.names => TrueOf(p.label, p.text)

\* The language model answers honestly.
ASSUME WordsAssumption ==
    \A job \in Jobs, label \in DOMAIN Says : TrueFor(job, label, OwnWords[<<job, label>>])

VARIABLES
    bank,          \* [notion, backup]: pages in Notion, pages with a local copy
    ratings,       \* page -> [page, copy]: the owner's ratings, 0 for none
    version,       \* job -> 1 or 2: the form on the site
    open,          \* jobs whose posting is open
    entry,         \* job -> its answers and open questions in the context
    llm,           \* job -> answers of the language model
    desk,          \* job -> where its form stands
    plan,          \* job -> the text for each control of the open form
    held,          \* job -> what its controls hold
    parser,        \* job -> the ATS's parsing of the resume
    signs,         \* job -> what the page after the click shows
    accepted,      \* jobs whose application the employer has
    mails,         \* the apply mailbox
    reason,        \* job -> why the form ended
    row            \* job -> its row of the TSV

bankVars == <<bank, ratings>>
jobVars  == <<desk, reason, row>>
contextVars == <<entry, llm>>
pageVars == <<plan, held, parser, signs>>
siteVars == <<version, open, accepted, mails>>
deskVars == <<bankVars, jobVars, contextVars, pageVars, siteVars>>

Steps == {"idle", "found", "read", "answered", "files", "typing", "typed", "checked",
          "waiting", "code", "resent", "mail", "ended"}

Clicked == {"waiting", "code", "resent", "mail"}

\* A form is read the same way each time it looks the same.
Schema == [job \in Jobs |-> [ats \in Adapters |->
            [v \in 1..2 |-> ReadSchema(ats, Forms[job][v])]]]

Fields(job, v) == Schema[job][entry[job].ats][v]
Control(job, v, f) == CHOOSE c \in Forms[job][v] : c.id = f.id

NoEntry == [ats |-> NoUrl, answers |-> {}, unanswered |-> {}, version |-> 1]

DeskInit ==
    /\ bank = [notion |-> Banked, backup |-> Banked]
    /\ ratings = [p \in Pages |-> [page |-> 0, copy |-> 0]]
    /\ version = [j \in Jobs |-> 1] /\ open = Jobs
    /\ entry = [j \in Jobs |-> NoEntry] /\ llm = [j \in Jobs |-> {}]
    /\ desk = [j \in Jobs |-> "idle"]
    /\ plan = [j \in Jobs |-> <<>>] /\ held = [j \in Jobs |-> <<>>]
    /\ parser = [j \in Jobs |-> "off"] /\ signs = [j \in Jobs |-> {}]
    /\ accepted = {} /\ mails = {}
    /\ reason = [j \in Jobs |-> ""] /\ row = [j \in Jobs |-> "To Apply"]

\* The page is closed whatever the outcome.
End(job, state, why) ==
    /\ desk' = [desk EXCEPT ![job] = "ended"]
    /\ row' = [row EXCEPT ![job] = state]
    /\ reason' = [reason EXCEPT ![job] = why]
    /\ plan' = [plan EXCEPT ![job] = <<>>] /\ held' = [held EXCEPT ![job] = <<>>]
    /\ parser' = [parser EXCEPT ![job] = "off"]
    /\ signs' = [signs EXCEPT ![job] = {}]

Move(job, step) == desk' = [desk EXCEPT ![job] = step] /\ UNCHANGED <<row, reason>>

Goto(job, step) == Move(job, step) /\ UNCHANGED pageVars

-----------------------------------------------------------------------------
(* apply --phase pre: preparePreJob *)

\* Notion may be down, or the ratings unreadable: then there is no bank.
Banks == {bank.notion, {}}

FindForm(job) ==
    /\ desk[job] = "idle"
    /\ \E where \in {JobUrl(job)} : \E known \in PostingStates(where.at, job \in open) :
        IF where.reason = "manual" THEN End(job, "manual", "no_form") /\ UNCHANGED entry
        ELSE IF where.reason = "skip" THEN End(job, "To Apply", "url_dead") /\ UNCHANGED entry
        ELSE IF known = "closed" THEN End(job, "archived", "closed") /\ UNCHANGED entry
        ELSE IF "resume" \notin Files[job]
        THEN End(job, "manual", "resume_missing") /\ UNCHANGED entry
        ELSE IF ComputeDesiredSalary(Pay[job]).belowFloor
        THEN End(job, "To Apply", "salary_below_floor") /\ UNCHANGED entry
        ELSE entry' = [entry EXCEPT ![job].ats = where.at] /\ Goto(job, "found")
    /\ UNCHANGED <<bankVars, llm, siteVars>>

ReadForm(job) ==
    /\ desk[job] = "found"
    /\ \E pages \in Banks :
        \E found \in {ResolveFields(Fields(job, version[job]), job, Files[job], pages, ratings)} :
            IF job \notin open THEN End(job, "archived", "closed") /\ UNCHANGED entry
            ELSE IF found.blocked THEN End(job, "manual", "file_missing") /\ UNCHANGED entry
            ELSE /\ entry' = [entry EXCEPT ![job] =
                        [@ EXCEPT !.answers = found.answers, !.unanswered = found.unanswered,
                                  !.version = version[job]]]
                 /\ Goto(job, "read")
    /\ UNCHANGED <<bankVars, llm, siteVars>>

\* A page that shows no form, a login or a captcha stops the job.
ReadBlocked(job) ==
    /\ desk[job] = "found"
    /\ \E page \in {{"captcha"}, {"login_required"}, {}} :
        End(job, "manual", WaitForForm(page))
    /\ UNCHANGED <<bankVars, contextVars, siteVars>>

\* The language model answers what it honestly can.
AnswerRest(job) ==
    /\ desk[job] = "read"
    /\ \E known \in SUBSET entry[job].unanswered :
        llm' = [llm EXCEPT ![job] =
                    {Given(f, OwnWords[<<job, f.label>>], "llm") : f \in known}]
    /\ Goto(job, "answered")
    /\ UNCHANGED <<bankVars, entry, siteVars>>

\* answer --phase push: the backup is written before Notion is asked.
Push(job) ==
    /\ \E a \in llm[job], p \in Pages : \E up \in BOOLEAN :
        /\ p.job = job /\ p.label = a.label /\ p.text = a.text /\ p \notin bank.backup
        /\ bank' = [notion |-> IF up THEN bank.notion \cup {p} ELSE bank.notion,
                    backup |-> bank.backup \cup {p}]
    /\ UNCHANGED <<ratings, jobVars, contextVars, pageVars, siteVars>>

\* The board shows Notion's pages, or the local copies when it is down; a
\* rating is kept under the id shown.
Rate(p) ==
    /\ \E r \in Stars, shown \in {"page", "copy"} :
        /\ p \in IF shown = "page" THEN bank.notion ELSE bank.backup
        /\ Cardinality({q \in Pages : ratings[q] # [page |-> 0, copy |-> 0]}) < MaxRatings
        /\ \E j \in Jobs : desk[j] = "idle"
        /\ ratings' = [ratings EXCEPT ![p][shown] = r]
    /\ UNCHANGED <<bank, jobVars, contextVars, pageVars, siteVars>>

-----------------------------------------------------------------------------
(* apply --phase submit: submitOne, the adapters *)

Plan(job, v) == BuildFillPlan(Fields(job, v), entry[job].answers, llm[job])

Tenant(job) == <<entry[job].ats, Company[job]>>

Blank(job, v) == [i \in {f.id : f \in Fields(job, v)} |-> Empty]

\* Two forms of one board are never open at once.
OpenForm(job) ==
    /\ desk[job] = "answered"
    /\ \A k \in Jobs \ {job} : Tenant(k) = Tenant(job) =>
            desk[k] \in {"idle", "found", "read", "answered", "ended"}
    /\ LET before == entry[job].version
           now == version[job]
       IN  IF MissingRequired(Plan(job, before)) # {}
           THEN End(job, "manual", "no_honest_answer")
           ELSE IF job \notin open
           THEN End(job, "manual", "job_closed")
           ELSE IF MissingRequired(Plan(job, now)) # {}
           THEN End(job, "manual", "schema_changed")
           ELSE /\ plan' = [plan EXCEPT ![job] = Plan(job, now)]
                /\ held' = [held EXCEPT ![job] = Blank(job, now)]
                /\ Move(job, "files") /\ UNCHANGED <<parser, signs>>
    /\ UNCHANGED <<bankVars, contextVars, siteVars>>

\* What typing the planned texts into some of the fields can come to.
Typed(job, fields) ==
    LET wanted == {f \in fields : plan[job][f] # NoText}
        results == [f \in wanted |->
            FillOne(entry[job].ats, f, Control(job, version[job], f).options, plan[job][f])]
        outcomes == {t \in [wanted -> UNION {results[f] : f \in wanted}] :
                        \A f \in wanted : t[f] \in results[f]}
        now(t, i) == {t[f].holds : f \in {g \in wanted : g.id = i}}
    IN  {[holds |-> [i \in DOMAIN held[job] |->
                        IF now(t, i) = {} THEN held[job][i] ELSE CHOOSE h \in now(t, i) : TRUE],
          failed |-> {f \in wanted : ~t[f].ok}] : t \in outcomes}

FileFields(job) == {f \in Fields(job, version[job]) : f.type = "file"}

\* Mutant: the files come in the form's order, here last.
EarlyFieldsInOrder(job) == Fields(job, version[job]) \ FileFields(job)

\* What is typed before the wait for the parser: the files.
EarlyFields(job) == FileFields(job)

\* Lever's fields are typed files first; its parser then starts.
TypeFiles(job) ==
    /\ desk[job] = "files"
    /\ \E t \in Typed(job, EarlyFields(job)) :
        held' = [held EXCEPT ![job] = t.holds]
    /\ parser' = [parser EXCEPT ![job] =
            IF entry[job].ats = "lever" /\ FileFields(job) # {} THEN "running" ELSE "off"]
    /\ Move(job, "typing")
    /\ UNCHANGED <<bankVars, contextVars, plan, signs, siteVars>>

\* The parser writes over what it read from the resume, or clears it.
Rewritten(job) ==
    LET mine == {f \in Fields(job, version[job]) : f.kind = "text" /\ f.type \in ParsedTypes}
    IN  {[i \in DOMAIN held[job] |->
            IF \E f \in mine : f.id = i THEN t ELSE held[job][i]] : t \in {Empty, "from the resume"}}

ParserDone(job) ==
    /\ parser[job] \in {"running", "outrun"} /\ desk[job] \in {"typing", "typed", "checked"}
    /\ \E h \in Rewritten(job) : held' = [held EXCEPT ![job] = h]
    /\ parser' = [parser EXCEPT ![job] = IF @ = "running" THEN "done" ELSE "late"]
    /\ UNCHANGED <<bankVars, jobVars, contextVars, plan, signs, siteVars>>

\* The rest is typed when the parser is done or its 25 s are over; a field
\* that could not be filled stops the job when it is required.
TypeRest(job) ==
    /\ desk[job] = "typing"
    /\ \E t \in Typed(job, Fields(job, version[job]) \ EarlyFields(job)) :
        IF \E f \in t.failed : f.required
        THEN End(job, "manual", "fill_error")
        ELSE /\ held' = [held EXCEPT ![job] = t.holds]
             /\ parser' = [parser EXCEPT ![job] = IF @ = "running" THEN "outrun" ELSE @]
             /\ Move(job, "typed") /\ UNCHANGED <<plan, signs>>
    /\ UNCHANGED <<bankVars, contextVars, siteVars>>

Check(job) ==
    /\ desk[job] = "typed"
    /\ IF CheckFilled(Fields(job, version[job]), held[job]) # {}
       THEN End(job, "manual", "presubmit_check") ELSE Goto(job, "checked")
    /\ UNCHANGED <<bankVars, contextVars, siteVars>>

\* A mail counts for a click if it is dated after it, or up to 20 s before.
Click(job) ==
    /\ desk[job] = "checked"
    /\ \E recent \in SUBSET mails :
        mails' = {IF m \in recent THEN [m EXCEPT !.after = @ \cup {job}] ELSE m : m \in mails}
    /\ Goto(job, "waiting")
    /\ UNCHANGED <<bankVars, contextVars, version, open, accepted>>

-----------------------------------------------------------------------------
(* After the click: waitForOutcome, passEmailCode, confirmed, recordOutcome *)

\* Where a form goes that is not confirmed on the page.
NotConfirmed(job, why) ==
    IF why \in CheckMailReasons THEN
        /\ desk' = [desk EXCEPT ![job] = "mail"] /\ reason' = [reason EXCEPT ![job] = why]
        /\ UNCHANGED <<row, pageVars>>
    ELSE End(job, IF why \in ManualReasons THEN "manual" ELSE "failed", why)

Ignored(job) == IF desk[job] = "resent" THEN {"email_verification"} ELSE {}

\* Still asked for the code after it was typed: it was refused.
Refused(job, why) ==
    IF desk[job] = "resent" /\ DetectBlocker(signs[job]) = "email_verification"
    THEN "email_code_rejected" ELSE why

Look(job) ==
    LET seen == WaitForOutcome(signs[job], Ignored(job))
    IN  /\ desk[job] \in {"waiting", "resent"} /\ seen # "wait"
        /\ IF seen = "ok" THEN End(job, "submitted", "")
           ELSE IF seen = "email_verification" /\ TakesCode(entry[job].ats)
           THEN Goto(job, "code")
           ELSE NotConfirmed(job, Refused(job, seen))
        /\ UNCHANGED <<bankVars, contextVars, siteVars>>

\* 75 s and nothing on the page.
Deadline(job) ==
    /\ desk[job] \in {"waiting", "resent"}
    /\ WaitForOutcome(signs[job], Ignored(job)) = "wait"
    /\ NotConfirmed(job, Refused(job, "no_confirmation"))
    /\ UNCHANGED <<bankVars, contextVars, siteVars>>

Recent(job, m) == job \in m.after /\ Company[m.job] = Company[job]

CodeMails(job) == {m \in mails : m.kind = "code" /\ ~m.used /\ Recent(job, m)}

\* The newest unused code is typed and Submit pressed again.
EnterCode(job) ==
    /\ desk[job] = "code" /\ CodeMails(job) # {}
    /\ \E m \in CodeMails(job) :
        /\ \A n \in CodeMails(job) : n.nth <= m.nth
        /\ mails' = (mails \ {m}) \cup {[m EXCEPT !.used = TRUE]}
        /\ IF m.job = job
           THEN /\ accepted' = accepted \cup {job}
                /\ \E after \in {{"thanks"}, {}} : signs' = [signs EXCEPT ![job] = after]
           ELSE UNCHANGED <<accepted, signs>>
    /\ Move(job, "resent")
    /\ UNCHANGED <<bankVars, contextVars, plan, held, parser, version, open>>

CodeLost(job) ==
    /\ desk[job] = "code"
    /\ End(job, "manual", "email_code_missing")
    /\ UNCHANGED <<bankVars, contextVars, siteVars>>

\* The first word of the company's name is all a confirmation is known by.
Confirmation(job, m) == m.kind = "thanks" /\ Recent(job, m)

ReadMail(job) ==
    /\ desk[job] = "mail"
    /\ \E m \in mails : Confirmation(job, m)
    /\ End(job, "submitted", "")
    /\ UNCHANGED <<bankVars, contextVars, siteVars>>

NoMail(job) ==
    /\ desk[job] = "mail"
    /\ ~\E m \in mails : Confirmation(job, m)
    /\ End(job, IF reason[job] \in ManualReasons THEN "manual" ELSE "failed", reason[job])
    /\ UNCHANGED <<bankVars, contextVars, siteVars>>

-----------------------------------------------------------------------------
(* The employer and the ATS *)

BeforeOpening == {"idle", "found", "read", "answered"}

Edit(job) ==
    /\ desk[job] \in BeforeOpening /\ version[job] = 1
    /\ Forms[job][1] # Forms[job][2]
    /\ version' = [version EXCEPT ![job] = 2]
    /\ UNCHANGED <<bankVars, jobVars, contextVars, pageVars, open, accepted, mails>>

Close(job) ==
    /\ desk[job] \in BeforeOpening /\ job \in open
    /\ open' = open \ {job}
    /\ UNCHANGED <<bankVars, jobVars, contextVars, pageVars, version, accepted, mails>>

ClickedJobs == {j \in Jobs : desk[j] \in Clicked}

Mail(kind, job) ==
    [kind |-> kind, job |-> job, after |-> ClickedJobs, used |-> FALSE, nth |-> Cardinality(mails)]

\* The page after the click; a code is asked for only by Greenhouse.
Respond(job) ==
    /\ desk[job] = "waiting" /\ signs[job] = {} /\ job \notin accepted
    /\ \/ /\ \E page \in {{"thanks"}, {}} : signs' = [signs EXCEPT ![job] = page]
          /\ accepted' = accepted \cup {job}
          /\ UNCHANGED mails
       \/ /\ \E page \in {{"captcha"}, {"error"}} : signs' = [signs EXCEPT ![job] = page]
          /\ UNCHANGED <<accepted, mails>>
       \/ /\ TakesCode(entry[job].ats)
          /\ signs' = [signs EXCEPT ![job] = {"code field"}]
          /\ mails' = mails \cup {Mail("code", job)}
          /\ UNCHANGED accepted
    /\ UNCHANGED <<bankVars, jobVars, contextVars, plan, held, parser, version, open>>

ThankYou(job) ==
    /\ job \in accepted /\ ~\E m \in mails : m.kind = "thanks" /\ m.job = job
    /\ mails' = mails \cup {Mail("thanks", job)}
    /\ UNCHANGED <<bankVars, jobVars, contextVars, pageVars, version, open, accepted>>

Pre(job) == FindForm(job) \/ ReadForm(job) \/ ReadBlocked(job) \/ AnswerRest(job)

Submit(job) ==
    \/ TypeFiles(job) \/ TypeRest(job) \/ Check(job) \/ Click(job)
    \/ Look(job) \/ Deadline(job) \/ EnterCode(job) \/ CodeLost(job)
    \/ ReadMail(job) \/ NoMail(job)

Ats(job) ==
    \/ ParserDone(job) \/ Edit(job) \/ Close(job) \/ Respond(job) \/ ThankYou(job)

DeskNext ==
    \/ \E job \in Jobs : Pre(job) \/ OpenForm(job) \/ Submit(job) \/ Ats(job) \/ Push(job)
    \/ \E p \in Pages : Rate(p)

DeskSpec == DeskInit /\ [][DeskNext]_deskVars

-----------------------------------------------------------------------------

\* Every answer pre puts in the context is true of the question it answers,
\* but for a standard answer to a question that mixes topics: nothing written
\* about another employer is offered to this one, and a question that gives a
\* later matcher's topic as an example gets the answer it asks for.
AnswersHonest ==
    \A job \in Jobs : \A a \in entry[job].answers :
        TrueFor(job, a.label, a.text) \/ (a.source = "defaults" /\ MixesTopics(a.label))

\* A form goes out as it was planned: every required control holds, at the
\* click, the text chosen for the question the form then asks, unless it was
\* picked from a search or the resume parser outlived the wait for it.
SentAsPlanned ==
    \A job \in ClickedJobs : parser[job] \in {"off", "done"} =>
        \A f \in Fields(job, version[job]) :
            f.required /\ f.kind \notin {"async-select", "location", "combo"} =>
                held[job][f.id] = plan[job][f]

\* An application recorded as submitted is one the employer has.
SubmittedWasAccepted == \A job \in Jobs : row[job] = "submitted" => job \in accepted
==========================================================================================
