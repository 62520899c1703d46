\* Two requests of one person, one of them perhaps left by a previous release; two clicks at once.
SPECIFICATION FairSpec
CONSTANTS
  r1 = r1  r2 = r2  s1 = s1  s2 = s2  x = x
  Requests = {r1, r2}
  Legacy = {r2}
  Alike <- OnePerson
  Unsound = {}
  Listings = {x}
  Clicks = {s1, s2}
  Lifetime = 1
  Window = 1
  MaxTime = 1
  MaxCrashes = 1
  MaxTurns = 1
INVARIANTS OneLeadPerRequest DuplicatesOnlyTogether
PROPERTIES FlaggedGoesNowhere RequestEnds ConfirmedIsDelivered
CHECK_DEADLOCK FALSE
