\* Two listings, two spots: what PayPal bills and what was agreed to.
SPECIFICATION Spec
CONSTANTS
    Sessions = {s1}
    Spots = {p1, p2}
    Listings = {x, y}
    NoListing = none
    Positions = 1
    Floor = 1
    Amounts = {1, 6, 12}
    MaxBids = 3
    MaxSubs = 2
    MaxEdits = 3
    Silent = {"ACTIVATED"}
    Lag = 0
    Ages = {"approval_pending", "active", "past_due", "paused"}
    Closable = {p1, p2}
    p1 = p1
    p2 = p2
    s1 = s1
    x = x
    y = y
CHECK_DEADLOCK FALSE
PROPERTIES OneSpotIsConsented
INVARIANTS PaysForWhatItHolds
SYMMETRY AllAlike
