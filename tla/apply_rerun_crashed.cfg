SPECIFICATION WatchSpec
CONSTANTS
  j1 = j1
  j2 = j2
  c1 = c1
  NoJob = NoJob
  Jobs = {j1, j2}
  Tenant <- MCTenant
  Company <- MCCompany
  Cap <- MCCap
  Rank <- MCRank
  FitOk = {j1, j2}
  OutOfArea = {j2}
  Limit = 5
  Concurrency = 2
  Alone = {"pre", "sync"}
  Operated = {"pre", "submit"}
  ByHand = {}
  NotionEdits = {}
INVARIANTS CrashNeverRetried
