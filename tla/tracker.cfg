SPECIFICATION Spec
CONSTANTS
    Jobs = {j1}
    Procs = {1}
    Threshold = 1
    MaxDay = 2
    MaxUpsets = 1
    Entries <- MCEntries
INVARIANTS PathNamesFile
PROPERTIES PostingKept AnchorKept OverdueLeaves LedgerFollowsNotion
