CONSTANTS
  Followups = {j1}
  Workers = {w1, w2}
  MaxAttempts = 2
  MaxClaims = 4
  None = None
SPECIFICATION PartSpec
CHECK_DEADLOCK FALSE
INVARIANT FollowUpInv
INVARIANT NoLateReminder
INVARIANT OneSender
PROPERTY FollowUpsSettleWhenCalm
