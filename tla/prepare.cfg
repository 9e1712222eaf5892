SPECIFICATION Spec
CONSTANTS
  r1 = r1
  r2 = r2
  r3 = r3
  c1 = c1
  c2 = c2
  Rows = {r1, r2, r3}
  Companies = {c1, c2}
  CompanyOf <- MCCompanyOf
  Cap <- MCCap
  BatchSize = 1
INVARIANTS PageBacked OnePage CapHolds ReadyIsComplete WeakNotRejudged
SYMMETRY MCSymmetry
CHECK_DEADLOCK FALSE
