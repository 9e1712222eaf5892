SPECIFICATION FairSpec
CONSTANTS
  NoNight = NoNight
  Nights = {n1, n2}
  Rows = {r1, r2}
  Target = 2
  MinBatch = 2
  MaxLength = 1
  Grace = 1
  MaxClock = 4
  MaxDeaths = 1
CONSTRAINT Undisturbed
INVARIANTS OneNight NoNightLost LoggedOnce CommitsInboxRows
PROPERTIES PreLeavesNothingFresh NightEnds
CHECK_DEADLOCK FALSE
