CONSTANTS
  Mutations = {m1}
  Reads = {}
  Requests = {r1, r2}
  ResumeKeys = {k1}
  OwnKey = own
  None = None
  d1 = d1
  d2 = d2
  DataValues = {d1}
  Verdict <- ApprovalPolicy
  MaxVersion = 1
  MaxApprovals = 2
  Revocable = FALSE
SPECIFICATION Spec
SYMMETRY RequestSymmetry
CHECK_DEADLOCK FALSE
INVARIANT LedgerInv
INVARIANT AtMostOneEffect
INVARIANT RefusedHasNoEffect
PROPERTY ImplementsPromise
