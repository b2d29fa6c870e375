SPECIFICATION LifeSpec
CONSTANTS
    b1 = b1  b2 = b2  c1 = c1  c2 = c2  c3 = c3  alpha = alpha  beta = beta
    Bids = {b1, b2}
    Clicks = {c1, c2, c3}
    BidOf <- MCBidOf
    Quote <- MCQuote
    MaxCrashes = 2
    Names = {alpha, beta}
    Listed <- MCListed
    PluginTypes = {"plugin"}
    Configurations <- MCConfigurations
    Replies <- MCReplies
INVARIANT LifeTypeOK NothingLost UpToDate SpendKeptUncut ServesAsConfigured HealthFits ClosedInOrder
PROPERTY StartsAndStopsEnd
CHECK_DEADLOCK FALSE
