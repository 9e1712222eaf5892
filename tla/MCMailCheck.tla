---------------------------- MODULE MCMailCheck ----------------------------
\* Values for TLC: two rows of one employer, and what the mails say.
EXTENDS MailCheck, TLC

CONSTANTS j1, j2, m1, m2, m3, m4

Acme == [query |-> {"acme"},
         names |-> {[long |-> {"acme", "health"}, short |-> {}],
                    [long |-> {"hinge"}, short |-> {"md"}]}]

MCRow == j1 :> [employer |-> Acme, place |-> 1, words |-> {"growth"}, post |-> "growth"]
      @@ j2 :> [employer |-> Acme, place |-> 2, words |-> {"data"}, post |-> "data"]

Plain == [from |-> {}, subject |-> {}, says |-> {}, head |-> {}, body |-> {}, titles |-> {},
          words |-> {}, role |-> "unread", client |-> FALSE, post |-> "none"]

\* A rejection sent by an ATS, with the employer's brand in its text; an
\* invitation sent by it too, which the employers' query finds as well and which
\* tells the row by a word of its title; a recruiter's lead with its client, which
\* names the employer; and an invitation from the employer's own address.
MCMail ==
       m1 :> [Plain EXCEPT !.from = {"ats"}, !.says = {"rejection", "ack"},
                           !.body = {"hinge", "md"}, !.titles = {j1}]
    @@ m2 :> [Plain EXCEPT !.from = {"ats"}, !.head = {"acme"},
                           !.says = {"schedule", "ack", "strong_ack"}, !.words = {"growth"}]
    @@ m3 :> [Plain EXCEPT !.subject = {"pitch", "sought"}, !.head = {"acme"},
                           !.role = "open", !.client = TRUE, !.post = "lead"]
    @@ m4 :> [Plain EXCEPT !.head = {"acme"}, !.says = {"schedule", "ack", "strong_ack"},
                           !.words = {"growth"}]
=============================================================================
