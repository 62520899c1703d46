\* A read-back that fails marks a paid order failed, and the webhook then ignores it.
SPECIFICATION FairSpec
CONSTANTS
  MaxCrashes = 1
  Topups = {o1}
  Sessions = {s1, s2}
  NoSession = NoSession
  Kinds = {"own"}
  ReadBackMayFail = TRUE
PROPERTIES PaidIsCredited
