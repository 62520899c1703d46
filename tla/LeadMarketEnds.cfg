\* Every transaction ends: one account, two orders whose places an edit swaps, two leads.
SPECIFICATION FairSpec
CONSTANTS
  u1 = u1  u2 = u2  l1 = l1  l2 = l2  s1 = s1  s2 = s2  s3 = s3
  Leads = {l1, l2}
  Users = {u1}
  Orders = {1, 2}
  OwnerOf <- OwnsOrders
  Coverages <- Everything
  Prices = {1, 2}
  LeadPrice = 1
  Packs = {}
  Corrections = {}
  Sessions = {s1, s2}
  NoSession = NoSession
  Reporters = {}
  MaxAge = 0
  MaxFunded = 0
  MaxTouches = 1
INVARIANTS OnlyAllocationsDeadlock
PROPERTIES EveryTransactionEnds
CHECK_DEADLOCK FALSE
