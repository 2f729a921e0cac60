CONSTANTS
  Mutations = {m1}
  Reads = {}
  Requests = {r1}
  ResumeKeys = {k1}
  OwnKey = own
  None = None
  d1 = d1
  d2 = d2
  DataValues = {d1, d2}
  Verdict <- ApprovalPolicy
  MaxVersion = 1
  MaxApprovals = 1
  Revocable = FALSE
SPECIFICATION Spec
INVARIANT ApprovalCoversCommittedData
CHECK_DEADLOCK FALSE
