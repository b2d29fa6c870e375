SPECIFICATION Spec
CONSTANTS
    b1 = b1  b2 = b2  c1 = c1  c2 = c2  c3 = c3
    Bids = {b1, b2}
    Clicks = {c1, c2, c3}
    BidOf <- MCBidOf
    Quote <- MCQuote
    MaxCrashes = 1
INVARIANT SpendKept
CHECK_DEADLOCK FALSE
