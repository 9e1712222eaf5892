------------------------------ MODULE AtsForms ------------------------------
(***************************************************************************)
(* The three application forms the bot knows (Greenhouse, Lever, Ashby):   *)
(* how a row of the TSV becomes the address of a form, what the adapters   *)
(* read off the page, what typing into a control can come to, and how the  *)
(* page after the click is read.                                           *)
(***************************************************************************)
EXTENDS Answers

CONSTANTS
    RowOf,          \* job -> [source, idOk, slug, url] of its TSV row
    Web,           \* url -> what fetch gets: [status, at]; see Resolve
    Shown,         \* url -> what a browser gets, the same way
    Aggregators,   \* urls on an aggregator's host
    Links          \* url -> the next address its page leads to, or NoUrl

NoUrl == "no url"
Adapters == {"greenhouse", "lever", "ashby"}

\* A url is known by what stands there: the form of a job at an ATS, an ATS
\* page that is no job (the board), or another page.
IsForm(url) == url \in Adapters
DetectAts(url) == IF IsForm(url) THEN url ELSE NoUrl

-----------------------------------------------------------------------------
(* Where is the form?  resolveUrl, resolveViaPage, resolveJobUrl *)

\* One fetch: what the address comes to, or the next address.
FetchHop(url) ==
    LET page == Web[url]
    IN  IF page.status = "error" THEN [reason |-> "fetch_error", at |-> url]
        ELSE IF IsForm(page.at) /\ page.status # "gone" THEN [reason |-> "ok", at |-> page.at]
        ELSE IF page.status = "gone" \/ page.at = "board" THEN [reason |-> "dead", at |-> page.at]
        ELSE IF page.status = "blocked" THEN [reason |-> "blocked", at |-> page.at]
        ELSE IF Links[page.at] = NoUrl THEN [reason |-> "no_ats", at |-> page.at]
        ELSE [reason |-> "hop", at |-> Links[page.at]]

\* The pursuit of an address when it has come to another.
Reached(was, why, url) == [reason |-> why, at |-> url, seen |-> was.seen \cup {was.at}]

\* Only a hop leads on, and not to an address already seen.
Onward(was, now) ==
    IF was.reason # "hop" THEN was
    ELSE IF IsForm(was.at) THEN Reached(was, "ok", was.at)
    ELSE IF now.reason = "hop" /\ now.at \in was.seen \cup {was.at}
    THEN Reached(was, "no_ats", was.at)
    ELSE Reached(was, now.reason, now.at)

Follow(was) == Onward(was, FetchHop(was.at))

\* Redirects and pages that lead on are followed: maxHops is 4 after the first
\* fetch.
Resolve(url) ==
    LET start == [reason |-> "hop", at |-> url, seen |-> {}]
        last == Follow(Follow(Follow(Follow(Follow(start)))))
    IN  [reason |-> IF last.reason = "hop" THEN "no_ats" ELSE last.reason, at |-> last.at]

\* A browser runs the page's scripts; a page that is gone but has moved on
\* is not taken for dead.
ResolveViaPage(url) ==
    LET page == Shown[url]
        next == Links[page.at]
    IN  IF page.status = "error" THEN [reason |-> "fetch_error", at |-> url]
        ELSE IF IsForm(page.at) THEN [reason |-> "ok", at |-> page.at]
        ELSE IF page.status = "gone" /\ page.at = url THEN [reason |-> "dead", at |-> url]
        ELSE IF IsForm(next) THEN [reason |-> "ok", at |-> next]
        ELSE IF page.status = "blocked" THEN [reason |-> "blocked", at |-> page.at]
        ELSE [reason |-> "no_ats", at |-> IF next = NoUrl THEN page.at ELSE next]

\* Aggregators block fetch, so what fetch says of them is asked again in a
\* browser; a blocked browser does not overrule fetch.
ResolveRow(url) ==
    LET fetched == Resolve(url)
        page == ResolveViaPage(url)
    IN  IF fetched.reason = "ok" \/ url \notin Aggregators THEN fetched
        ELSE IF page.reason = "ok" THEN page
        ELSE IF page.reason = "no_ats" /\ page.at \notin Aggregators THEN Resolve(page.at)
        ELSE IF fetched.reason # "dead" \/ page.reason = "no_ats" THEN page ELSE fetched

\* A row of a known board has its form's address in itself.
CanonicalFormUrl(job) ==
    IF RowOf[job].source \in Adapters /\ RowOf[job].idOk /\ RowOf[job].slug
    THEN RowOf[job].source ELSE NoUrl

\* What the posting API knows: Ashby has none, errors are no answer.
PostingStates(ats, open) ==
    IF ats = "ashby" THEN {"unknown"}
    ELSE {"unknown", IF open THEN "open" ELSE "closed"}

\* The form's ATS, or the reason there is none.
JobUrl(job) ==
    LET canon == CanonicalFormUrl(job)
        found == ResolveRow(RowOf[job].url)
    IN  IF canon # NoUrl THEN [reason |-> "ok", at |-> canon]
        ELSE IF RowOf[job].url = NoUrl THEN [reason |-> "manual", at |-> NoUrl]
        ELSE IF found.reason = "ok" THEN found
        ELSE IF found.reason = "dead" THEN [reason |-> "skip", at |-> found.at]
        ELSE [reason |-> "manual", at |-> found.at]

-----------------------------------------------------------------------------
(* Reading the form: controls [id, label, element, required, options] *)

Inputs == {"text", "email", "tel", "url", "textarea", "file"}

\* Controls other than inputs -> <<type of the question, kind the adapter
\* types into>>.
GreenhouseKinds ==
    [select |-> <<"select", "native-select">>, combobox |-> <<"select", "react-select">>,
     location |-> <<"text", "async-select">>, radio |-> <<"radio", "radio-group">>,
     checkbox |-> <<"checkbox", "checkbox-single">>, checkboxes |-> <<"checkbox", "checkbox-group">>]

LeverKinds ==
    [select |-> <<"select", "select">>, location |-> <<"text", "location">>,
     radio |-> <<"radio", "radio-group">>, checkbox |-> <<"checkbox", "checkbox-single">>,
     checkboxes |-> <<"checkbox", "checkbox-group">>]

AshbyKinds ==
    [select |-> <<"select", "select">>, location |-> <<"text", "combo">>,
     combobox |-> <<"text", "combo">>, yesno |-> <<"radio", "yesno">>,
     radio |-> <<"radio", "radio">>, checkbox |-> <<"checkbox", "checkbox-single">>,
     checkboxes |-> <<"checkbox", "checkbox">>]

OwnKinds(ats) == IF ats = "greenhouse" THEN GreenhouseKinds
                 ELSE IF ats = "lever" THEN LeverKinds ELSE AshbyKinds

Kinds(ats) ==
    [e \in Inputs \cup DOMAIN OwnKinds(ats) |->
        IF e \in Inputs
        THEN <<IF e = "tel" THEN "phone" ELSE e, IF e = "file" THEN "file" ELSE "text">>
        ELSE OwnKinds(ats)[e]]

\* A combobox of Ashby shows no options; a menu of Greenhouse shows its
\* first hundred.
ReadSchema(ats, form) ==
    {[id |-> c.id, label |-> c.label, required |-> c.required,
      type |-> Kinds(ats)[c.element][1], kind |-> Kinds(ats)[c.element][2],
      options |-> IF Kinds(ats)[c.element][2] \in {"combo", "checkbox-single"} THEN {} ELSE c.options,
      partial |-> c.long /\ Kinds(ats)[c.element][2] = "react-select"] : c \in form}

-----------------------------------------------------------------------------
(* Typing: what the control then holds, "" when it holds nothing *)

Empty == ""

Ticked == {"Yes", "true", "checked", "1"}

Held(v) == [ok |-> TRUE, holds |-> v]
Missed == [ok |-> FALSE, holds |-> Empty]

\* A single box is only ticked for a yes.
Tick(v) == {Held(IF v \in Ticked THEN v ELSE Empty)}

\* These choices must be there word for word.
Listed(options, v) == {IF v \in options THEN Held(v) ELSE Missed}

\* A place is picked from what the search suggests: the best match, or else
\* the first.
Searched(v) == {Held(v), Held("first suggestion"), Missed}

\* The upload may not have come through when its wait is over.
FillGreenhouse(f, options, v) ==
    CASE f.kind = "text" -> {Held(v)}
      [] f.kind = "file" -> {Held(v), Held(Empty)}
      [] f.kind = "react-select" ->
            {IF o = NoText THEN Missed ELSE Held(o) : o \in {PickOption(options, v)}}
      [] f.kind = "async-select" -> Searched(v)
      [] f.kind = "checkbox-single" -> Tick(v)
      [] f.kind \in {"native-select", "radio-group", "checkbox-group"} -> Listed(options, v)

FillLever(f, options, v) ==
    CASE f.kind \in {"text", "file"} -> {Held(v)}
      [] f.kind = "location" -> Searched(v)
      [] f.kind = "checkbox-single" -> Tick(v)
      [] f.kind \in {"select", "radio-group", "checkbox-group"} -> Listed(options, v)

\* Any combobox of Ashby takes the first suggestion.
FillAshby(f, options, v) ==
    CASE f.kind \in {"text", "file"} -> {Held(v)}
      [] f.kind = "combo" -> Searched(v)
      [] f.kind = "checkbox-single" -> Tick(v)
      [] f.kind \in {"yesno", "radio", "checkbox", "select"} -> Listed(options, v)

FillOne(ats, f, options, v) ==
    CASE ats = "greenhouse" -> FillGreenhouse(f, options, v)
      [] ats = "lever"      -> FillLever(f, options, v)
      [] ats = "ashby"      -> FillAshby(f, options, v)

\* Lever reads an uploaded resume and rewrites these from it.
ParsedTypes == {"text", "email", "phone"}

\* The required controls that hold nothing.
CheckFilled(fields, held) == {f \in fields : f.required /\ held[f.id] = Empty}

-----------------------------------------------------------------------------
(* The page: an opened address, and the page after the click *)

\* The form first, then what blocks it, then the words of a closed posting;
\* a page that shows none of them in time is unknown.
WaitForForm(signs) ==
    IF "form" \in signs THEN "form"
    ELSE IF signs \cap {"captcha", "login_required", "email_verification"} # {} THEN "blocked"
    ELSE IF "closed" \in signs THEN "closed" ELSE "unknown"

DetectBlocker(signs) ==
    IF "captcha" \in signs THEN "captcha"
    ELSE IF "login_required" \in signs THEN "login_required"
    ELSE IF "code field" \in signs THEN "email_verification" ELSE "none"

\* Success is looked for first, then a blocker, then, after a grace, an
\* error shown on the form; "wait" goes round again until the deadline.
WaitForOutcome(signs, ignore) ==
    IF "thanks" \in signs THEN "ok"
    ELSE IF DetectBlocker(signs) \notin {"none"} \cup ignore THEN DetectBlocker(signs)
    ELSE IF "error" \in signs THEN "validation_error" ELSE "wait"

ManualReasons == {"captcha", "login_required", "email_verification", "email_code_missing",
                  "email_code_field_missing", "email_code_rejected", "unknown_page", "job_closed"}

CheckMailReasons == {"no_confirmation", "email_code_rejected"}

\* Only Greenhouse's adapter knows the code's field.
TakesCode(ats) == ats = "greenhouse"
=============================================================================
