CONSTANTS
  Mutations = {m1}
  Reads = {q1}
  Requests = {r1}
  ResumeKeys = {k1}
  OwnKey = own
  None = None
  d1 = d1
  d2 = d2
  DataValues = {d1, d2}
  Verdict <- MixedPolicy
  MaxVersion = 2
  MaxApprovals = 1
  Revocable = TRUE
SPECIFICATION FairSpec
CONSTRAINT OneKindOfTool
CHECK_DEADLOCK FALSE
INVARIANT EffectIsAuthorised
PROPERTY OutcomesStand
PROPERTY NoGrantedActionHangs
