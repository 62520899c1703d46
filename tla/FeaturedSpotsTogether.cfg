\* One listing, two sessions: the transactions of a subscription meet, and end.
SPECIFICATION FairSpec
CONSTANTS
    Sessions = {s1, s2}
    Spots = {p1}
    Listings = {x}
    NoListing = none
    Positions = 1
    Floor = 1
    Amounts = {1, 6}
    MaxBids = 1
    MaxSubs = 1
    MaxEdits = 2
    Silent = {"ACTIVATED"}
    Lag = 0
    Ages = {"approval_pending", "active", "past_due", "paused"}
    Closable = {}
    p1 = p1
    s1 = s1
    s2 = s2
    x = x
CHECK_DEADLOCK FALSE
PROPERTIES TransactionsEnd PendingSettles
