\* Two listings, closing, expiry and one late notification: who is shown, and where.
SPECIFICATION Spec
CONSTANTS
    Sessions = {s1}
    Spots = {p1}
    Listings = {x, y}
    NoListing = none
    Positions = 1
    Floor = 1
    Amounts = {1, 6}
    MaxBids = 3
    MaxSubs = 3
    MaxEdits = 3
    Silent = {"ACTIVATED", "UPDATED"}
    Lag = 1
    Ages = {"approval_pending", "active", "past_due", "paused"}
    Closable = {p1}
    p1 = p1
    s1 = s1
    x = x
    y = y
CHECK_DEADLOCK FALSE
INVARIANTS RankedAsBid FeaturedOnlyWhilePaid
SYMMETRY Alike
