SPECIFICATION MCSpec
CONSTANTS
  Threads = {t1}
  Tasks = {k1}
  Prices = {3, 4}
  Offers = {1, 2}
  Floor = 2
  AutoLimit = 1
  Large = {4}
  Near = {{3, 4}}
  Rows = {r1, r2}
  Stock <- RowStock
  Quantity = 2
  Departments = 2
  MaxRequests = 3
  MaxCuts = 0
  None = None
  Impossible = Impossible
  Parts = {"requests"}
  Unknown = Unknown
  LargeOrder = 4000
  Inquiries <- MCInquiries
  Deals <- MCDeals
  Named <- MCNamed
  Values <- MCValues
  Delays <- MCDelays
  Used <- MCUsed
  Most = 10
INVARIANT PendingNamed
CHECK_DEADLOCK FALSE
