------------------------------ MODULE Mailroom ------------------------------
(***************************************************************************)
(* What check makes of one mail: which of the mailbox queries asks for it, *)
(* which filter drops it, what the classifier calls it, and which row it   *)
(* is matched to.  The texts are abstract: a mail is the set of patterns   *)
(* and of names that a regular expression or a substring test finds in it. *)
(***************************************************************************)
EXTENDS Integers, FiniteSets

CONSTANTS
    Jobs,          \* rows of applications.tsv with a Notion page
    NoJob,         \* no job
    Mails,         \* mails that may arrive
    Mail,          \* mail -> what it says
    Row            \* job -> its employer, its title and its place in the file

\* What is found in the address of the sender, in the subject, and in the text.
\* "sought" is a phrase of the recruiters' query, "pitch" one of the patterns of
\* matchesRecruiterSubject: the lists differ.
Addresses == {"linkedin", "linkedin_alerts", "alerts", "board", "unrelated", "ats"}

Subjects == {"digest", "jobs_wording", "pitch", "sought"}

Patterns == {"closed", "rejection", "schedule", "invite", "info", "ack", "strong_ack",
             "if_selected"}

\* The names of an employer: its own and its aliases, as companyTokens (long)
\* and tieBreakTokens (long and short) cut them.
Tokens(employer) == UNION {name.long \cup name.short : name \in employer.names}

ASSUME MailroomAssumption ==
    /\ IsFiniteSet(Jobs) /\ NoJob \notin Jobs
    /\ \A m \in Mails :
        /\ Mail[m].from \subseteq Addresses
        /\ Mail[m].subject \subseteq Subjects
        /\ Mail[m].says \subseteq Patterns
        /\ Mail[m].titles \subseteq Jobs
        /\ Mail[m].role \in {"unread", "blocked", "open"}
        /\ Mail[m].client \in BOOLEAN
    /\ \A j \in Jobs : Row[j].place \in Nat
    /\ \A j, k \in Jobs : Row[j].place = Row[k].place => j = k

-----------------------------------------------------------------------------
(* The filters and the classifier *)

IsATS(mail) == "ats" \in mail.from

\* The boards' senders only with the wording of a digest, the alert senders and
\* the generic subjects alone.
IsJobAlert(mail) ==
    \/ mail.from \cap {"alerts", "linkedin_alerts"} # {}
    \/ "board" \in mail.from /\ "jobs_wording" \in mail.subject
    \/ "digest" \in mail.subject

\* Banks and the like, and Notion's notice of our own comment.
IsNonPipelineSender(mail) == "unrelated" \in mail.from

\* classify: the first kind in ORDER with a pattern in the text.  Of the
\* patterns of an invitation "schedule an interview" is tried first, and what
\* it finds in an acknowledgment under a condition counts as acknowledgment.
Classify(says) ==
    IF "closed" \in says THEN "closed"
    ELSE IF "rejection" \in says THEN "rejection"
    ELSE IF {"schedule", "strong_ack", "if_selected"} \subseteq says THEN "ack"
    ELSE IF says \cap {"schedule", "invite"} # {} THEN "invite"
    ELSE IF "info" \in says THEN "info"
    ELSE IF "ack" \in says THEN "ack"
    ELSE "other"

Kinds == {"rejection", "closed", "invite", "info", "ack", "other", "lead", "skipped"}

\* processEmailsLoop, up to the branch a mail takes.
Route(mail) ==
    IF IsJobAlert(mail) \/ IsNonPipelineSender(mail) THEN "skipped"
    ELSE IF ~IsATS(mail) /\ "pitch" \in mail.subject THEN "lead"
    ELSE Classify(mail.says)

Kind == [m \in Mails |-> Route(Mail[m])]

-----------------------------------------------------------------------------
(* The matcher: the answers are sets with at most one member *)

Employers(jobs) == {Row[j].employer : j \in jobs}

\* scoreSynonyms: some name of the employer has that many tokens in the text.
Scores(employer, text) == {Cardinality(name.long \cap text) : name \in employer.names}

Beats(e, f, text) == \E s \in Scores(e, text) : \A t \in Scores(f, text) : s > t

\* The employers with the best score, if any scores at all.
Best(employers, text) ==
    {e \in employers :
        /\ \E name \in e.names : name.long \cap text # {}
        /\ \A f \in employers : ~Beats(f, e, text)}

\* pickBestWithTieBreak: of several only one that is named by a token the
\* others do not have.
PickBest(employers, text) ==
    LET best == Best(employers, text)
        own(e) == Tokens(e) \ UNION {Tokens(f) : f \in best \ {e}}
        named == {e \in best : own(e) \cap text # {}}
    IN  {e \in named : named = {e}}

\* hasShortDiscriminatorMatch: a name with short words must show one of them.
ShortNamed(employer, text) ==
    \E name \in employer.names : name.short = {} \/ name.short \cap text # {}

Named(employers, text) == {e \in PickBest(employers, text) : ShortNamed(e, text)}

\* findCompany: the sender and the subject, and only then the body.
FindCompany(mail, employers) ==
    IF Named(employers, mail.head) # {} THEN Named(employers, mail.head)
    ELSE Named(employers, mail.body)

FirstRow(jobs) == {j \in jobs : \A k \in jobs : Row[j].place <= Row[k].place}

\* findRole: an only row wins whatever the mail says; else the first whose title
\* the mail has, else the first with a telling word of its title, else none
\* (LOW confidence).
FindRole(mail, jobs) ==
    LET titled == jobs \cap mail.titles
        worded == {j \in jobs : Row[j].words \cap mail.words # {}}
    IN  IF Cardinality(jobs) = 1 THEN jobs
        ELSE IF titled # {} THEN FirstRow(titled)
        ELSE FirstRow(worded)

\* processPipeline: the row a mail is matched to among those of activeJobsMap.
Matched(mail, jobs) ==
    FindRole(mail, {j \in jobs : Row[j].employer \in FindCompany(mail, Employers(jobs))})

\* The matches of a batch; skipped mails and leads are not matched.
Bindings(mails, jobs) ==
    [m \in Mails |->
        IF m \in mails /\ Kind[m] \notin {"lead", "skipped"} /\ Matched(Mail[m], jobs) # {}
        THEN CHOOSE j \in Matched(Mail[m], jobs) : TRUE
        ELSE NoJob]

-----------------------------------------------------------------------------
(* The mailbox queries and the recruiters' leads *)

\* buildBatches: the mails each query finds.  The employers' one asks for the first
\* token of their own names in the sender or the subject (of ten employers at a
\* time, all of a model's); the others for LinkedIn's alerts, the recruiters'
\* phrases and the ATS senders.
Queries(jobs) ==
    { {m \in Mails : \E j \in jobs : Row[j].employer.query \cap Mail[m].head # {}},
      {m \in Mails : "linkedin_alerts" \in Mail[m].from},
      {m \in Mails : "sought" \in Mail[m].subject
                        /\ Mail[m].from \cap {"linkedin", "ats"} = {}},
      {m \in Mails : IsATS(Mail[m])} }

Queried(jobs) == UNION Queries(jobs)

\* processRecruiter reads on only if the role can be read and no filter blocks it.
Leads(mails) == {m \in mails : Kind[m] = "lead" /\ Mail[m].role = "open"}

\* A lead with no client named gets a line in the leads file.
Contacts(mails) == {m \in Leads(mails) : ~Mail[m].client}

\* isTSVDup: the company and the role of a row there is already.
TsvDup(m, inbox) ==
    Mail[m].post \in {Row[j].post : j \in Jobs} \cup {Mail[n].post : n \in inbox}

\* The leads that get a row: a client is named, and of the same role the first
\* one only.
LeadRows(mails, inbox) ==
    LET new == {m \in Leads(mails) : Mail[m].client /\ ~TsvDup(m, inbox)}
    IN  {rows \in SUBSET new :
            \A m \in new : \E n \in rows :
                {k \in rows : Mail[k].post = Mail[m].post} = {n}}
=============================================================================
