\* Two sessions, two accounts with an order each, two leads: sales, allocations, an edit and corrections race.
SPECIFICATION Spec
CONSTANTS
  u1 = u1  u2 = u2  l1 = l1  l2 = l2  s1 = s1  s2 = s2  s3 = s3
  Leads = {l1, l2}
  Users = {u1, u2}
  Orders = {1, 2}
  OwnerOf <- EachOwnsOne
  Coverages <- Everything
  Prices = {1, 2}
  LeadPrice = 1
  Packs = {2}
  Corrections <- TakeBack
  Sessions = {s1, s2}
  NoSession = NoSession
  Reporters = {}
  MaxAge = 0
  MaxFunded = 2
  MaxTouches = 1
SYMMETRY Sym
INVARIANTS BalanceNeverNegative WinnerIsCurrent MailedOncePerShortfall BestPayingUnlessEdited
PROPERTIES ImplementsIdealMarket
CHECK_DEADLOCK FALSE
