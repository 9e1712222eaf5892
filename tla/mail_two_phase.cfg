SPECIFICATION Spec
CONSTANTS
  j1 = j1
  j2 = j2
  m1 = m1
  m2 = m2
  m3 = m3
  m4 = m4
  NoJob = NoJob
  NoMail = NoMail
  Jobs = {j1}
  Mails = {m3, m4}
  Mail <- MCMail
  Row <- MCRow
  MaxDays = 2
  MaxResults = 1
  MaxClock = 3
  MaxMishaps = 1
  Modes = {"cursor", "since", "two_phase"}
  Moves = {"Applied"}
INVARIANTS CommentsBounded NoMailSkipped
