SPECIFICATION Spec
CONSTANTS
  s1 = s1  s2 = s2
  Subs = {s1, s2}
  Listings = {l1, l2}
  Sessions = {k1}
  Interval = 4
  Window = 1
  Grace = 1
  Dated <- NoticesOfOneChargesOfTwo
  Bare <- ChargesOfOneNoticesOfTwo
  MaxRedemptions = 1
  MaxBilled = 1
  MaxWire = 1
  MaxTime = 5
INVARIANTS CouponCounted BilledIsRecorded NeverAPeriodAhead
CHECK_DEADLOCK FALSE
PROPERTIES LapseReachesListing
