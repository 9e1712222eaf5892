SPECIFICATION FairSpec
CONSTANTS
  j1 = j1
  j2 = j2
  c1 = c1
  NoJob = NoJob
  Jobs = {j1, j2}
  Tenant <- MCTenant
  Company <- MCCompany
  Cap <- MCCap
  Rank <- MCRank
  FitOk = {j1, j2}
  OutOfArea = {}
  Limit = 5
  Concurrency = 2
  Alone = {"pre", "sync"}
  Operated = {"pre", "submit", "open", "sync"}
  ByHand = {j1}
  NotionEdits = {"Applied"}
INVARIANTS TypeOK NeverRequeued SecondClickOnlyOnRerun ClickOnUnrecorded
PROPERTIES AppliedDateKept SubmitEnds SubmitKeepsPoolPromise
