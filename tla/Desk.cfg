\* Job posts, claims and reviews, each with its admin, on small instances.
SPECIFICATION DeskSpec
CONSTANTS
  Posts = {p1}  Visits = {v1, v2}  Duration = 3  ReminderDays = 1  MaxTime = 4
  Users = {u1, u2}  ClaimIds = {c1, c2}  Keys = {k1, k2}
  LinkLife = 0  Retention = 1  MaxStarts = 2  MaxDays = 1
  Ids = {r1, r2}  Wary = {r2}  MaxLinks = 2  MaxDecisions = 1
  Sessions = {s1, s2}
INVARIANTS AdminToldOnce CapturesAccountedFor PosterToldTruly ApprovedOwns RatingTrueUnlessRaced
PROPERTIES PaidIsMarked RecordedIsErased ClickNeverOverrules
CHECK_DEADLOCK FALSE
