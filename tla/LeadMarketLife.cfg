\* One lead from its sale to its purge: reports, decisions, the sweep and the admin race with buyers.
SPECIFICATION Spec
CONSTANTS
  u1 = u1  u2 = u2  l1 = l1  l2 = l2  s1 = s1  s2 = s2  s3 = s3
  Leads = {l1}
  Users = {u1, u2}
  Orders = {1}
  OwnerOf <- OwnsOrders
  Coverages <- OnlyLead
  Prices = {2}
  LeadPrice = 2
  Packs = {2}
  Corrections <- TakeOne
  Sessions = {s1, s2}
  NoSession = NoSession
  Reporters = {u1, u2}
  MaxAge = 3
  MaxFunded = 2
  MaxTouches = 2
SYMMETRY Sym
INVARIANTS SoldIffPurchased ContactsKeptForDecision BooksBalance
