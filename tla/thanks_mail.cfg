CONSTANTS
    gh = gh
    lv = lv
    as = as
    past = past
    Jobs = {gh, as}
    Texts <- MCTexts
    Opens <- MCOpens
    Holds <- MCHolds
    Length <- MCLength
    Declines = {"I decline"}
    Affirms = {"I agree", "Yes"}
    Denies = {"No"}
    Says <- MCSays
    Facts <- MCFacts
    Category <- MCCategory
    RowOf <- MCRowOf
    Web <- MCWeb
    Shown <- MCShown
    Aggregators = {"ad"}
    Links <- MCLinks
    Company <- MCCompany
    Forms <- MCForms
    Files <- MCFiles
    Pay <- MCPay
    Pages <- MCPages
    Banked <- MCBanked
    OwnWords <- MCOwnWords
    Means <- MCMeans
    Truth <- MCTruth
    AsksFor <- MCAsksFor
    Stars = {1}
    MaxRatings = 0
SPECIFICATION DeskSpec
INVARIANTS SubmittedWasAccepted
CHECK_DEADLOCK FALSE
