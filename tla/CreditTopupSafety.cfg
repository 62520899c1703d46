\* Three sessions on one order: reloaded return pages, redelivered and foreign events, crashes.
SPECIFICATION FairSpec
CONSTANTS
  MaxCrashes = 2
  Topups = {o1}
  Sessions = {s1, s2, s3}
  NoSession = NoSession
  Kinds = {"own", "other order", "other amount"}
  ReadBackMayFail = TRUE
INVARIANTS CreditedOnceIfPaid MismatchesOnRecord
PROPERTIES PaidIsSettled
