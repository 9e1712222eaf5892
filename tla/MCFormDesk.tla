----------------------------- MODULE MCFormDesk -----------------------------
\* Three forms of one employer: a Greenhouse job of a known board, a Lever
\* job behind an aggregator, an Ashby job.
EXTENDS FormDesk

CONSTANTS gh, lv, as, past

MCTexts == {"Yes", "No", "Not sure", "I decline", "I agree", "Careers page", "me@mail",
            "Sacramento", "a platform", "their toys", "for Acme"}
MCOpens == {<<"Not sure", "No">>}
MCHolds == {}
MCLength == [t \in MCTexts |-> IF t \in {"Yes", "No"} THEN 3 ELSE 8]

MCSays ==
    [l \in {"experience", "why us"} |-> {}] @@ ("resume" :> {"resume"})
    @@ ("email" :> {"identity"}) @@ ("city" :> {"identity"})
    @@ ("authorized, e.g. a citizen" :> {"authorized", "citizen", "us citizen"})
    @@ ("authorized without sponsorship" :> {"authorized", "visa"})
    @@ ("sponsorship" :> {"visa"}) @@ ("gender" :> {"eeo"}) @@ ("terms" :> {"legal"})
    @@ ("live here or relocate" :> {"relocation", "lives now"})

MCFacts == [country |-> "USA", address |-> "no answer", stateName |-> "no answer",
            identity |-> "me@mail", eeo |-> "decline", sponsorship |-> "No",
            status |-> "resident", authorized |-> "Yes", embargoed |-> "No",
            residentOrCitizen |-> "Yes", citizen |-> "No", citizenships |-> "none",
            legal |-> "accept", relocate |-> "No", relatives |-> "No", start |-> "two weeks",
            heard |-> "Careers page", floor |-> 2, desired |-> 3]

ASSUME ValidDefaults(MCFacts)

MCTruth == [l \in DOMAIN MCSays |->
    IF l \in {"authorized, e.g. a citizen", "authorized without sponsorship",
              "live here or relocate", "terms"} THEN "yes"
    ELSE IF l = "sponsorship" THEN "no" ELSE "-"]

MCAsksFor == [l \in DOMAIN MCSays |->
    IF l \in {"authorized, e.g. a citizen", "authorized without sponsorship"} THEN "authorized"
    ELSE IF MCSays[l] = {} THEN "other"
    ELSE CHOOSE t \in MCSays[l] : t # "lives now"]

MCMeans == [t \in MCTexts \cup {MCFacts[x] : x \in DOMAIN MCFacts \ {"floor", "desired"}}
                    \cup {"Website", "Other", "desired salary", "N/A", "resume", "cover_letter",
                          "Decline to self-identify"} |->
    IF t \in {"Yes", "I agree"} THEN "yes" ELSE IF t = "No" THEN "no"
    ELSE IF t = "their toys" THEN "Globex" ELSE "-"]

MCCategory == [l \in DOMAIN MCSays |-> IF l = "why us" THEN "Motivation" ELSE "Experience"]

Ask(id, label, element, required, options) ==
    [id |-> id, label |-> label, element |-> element, required |-> required,
     options |-> options, long |-> FALSE]

YesNo == {"Yes", "No"}

Common == {Ask(0, "resume", "file", TRUE, {}), Ask(1, "email", "email", TRUE, {})}

MCForms == [j \in Jobs |->
    IF j = gh THEN
        LET form == Common \cup
                {Ask(2, "authorized, e.g. a citizen", "combobox", TRUE, YesNo),
                 Ask(3, "why us", "textarea", TRUE, {}),
                 Ask(5, "authorized without sponsorship", "combobox", TRUE, YesNo),
                 Ask(4, "gender", "combobox", FALSE, {"I decline"})}
        IN  <<form, form>>
    ELSE IF j = lv THEN
        <<Common \cup {Ask(2, "sponsorship", "radio", TRUE, YesNo), Ask(3, "experience", "textarea", FALSE, {})},
          Common \cup {Ask(2, "sponsorship", "select", TRUE, {"Yes", "Not sure"}),
                       Ask(3, "live here or relocate", "radio", TRUE, YesNo)}>>
    ELSE <<{Ask(0, "resume", "file", TRUE, {}), Ask(1, "city", "location", TRUE, {})},
           {Ask(0, "resume", "file", TRUE, {}), Ask(1, "terms", "checkbox", TRUE, {}),
            Ask(2, "why us", "textarea", FALSE, {})}>>]

MCOwnWords == [x \in {gh, lv, as} \X DOMAIN MCSays |->
    IF x[2] = "live here or relocate" THEN "Yes" ELSE IF x[2] = "why us" THEN "for Acme" ELSE "a platform"]

Page(id, job, company, label, text, category, names, age) ==
    [id |-> id, job |-> job, company |-> company, label |-> label, text |-> text,
     category |-> category, names |-> names, age |-> age]

\* One of the earlier answers about the applicant names the company it was for.
MCBanked == {Page(1, past, "Globex", "why us", "their toys", "", FALSE, 1),
             Page(2, past, "Globex", "experience", "a platform", "Experience", FALSE, 2),
             Page(4, past, "Globex", "experience", "their toys", "Experience", TRUE, 4)}
MCPages == MCBanked
    \cup {Page(3, gh, "Acme", "why us", "for Acme", "Motivation", FALSE, 3)}

MCRowOf == [j \in Jobs |->
    IF j = lv THEN [source |-> "adzuna", idOk |-> FALSE, slug |-> FALSE, url |-> "ad"]
    ELSE IF j = gh THEN [source |-> "greenhouse", idOk |-> TRUE, slug |-> TRUE, url |-> "careers"]
    ELSE [source |-> "ashby", idOk |-> TRUE, slug |-> TRUE, url |-> "no url"]]

MCWeb == ("ad" :> [status |-> "gone", at |-> "ad"]) @@ ("careers" :> [status |-> "ok", at |-> "careers"])
MCShown == [u \in DOMAIN MCWeb |-> [status |-> "ok", at |-> "careers"]]
MCLinks == ("ad" :> "no url") @@ ("careers" :> "lever")

MCCompany == [j \in Jobs |-> "Acme"]
MCFiles == [j \in Jobs |-> {"resume"}]
MCPay == [j \in Jobs |-> IF j = gh THEN {2, 4} ELSE {}]
=============================================================================
