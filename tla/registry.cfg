SPECIFICATION Spec
CONSTANTS
  b1 = b1
  b2 = b2
  q1 = q1
  q2 = q2
  a1 = a1
  OldFiles <- MCOldFiles
  OldTable <- MCOldTable
  Edits <- MCEdits
  MaxEdits = 1
  WithQuotes <- MCWithQuotes
  Boards = {b1, b2}
  Requests = {q1, q2}
  Answers = {a1}
  Banked = {a1}
  MaxCopies = 2
  Sent = {0, 4, 5, 6}
INVARIANTS RowsKept RatingsKept
SYMMETRY MCSymmetry
CONSTRAINTS OneFileAtTheBoard UntilOverlap
CHECK_DEADLOCK FALSE
