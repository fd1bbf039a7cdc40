CONSTANTS
    x = x
    y = y
    Clients = {c, d}
    Consumers <- Both
    Stuck = {x}
    NewBlockBuffer = 1
    EventerBuffer = 1
    MaxHeight = 2
    MaxFaults = 1
SPECIFICATION FeedSpec
INVARIANTS
    OneSubscription
    FeedConserves
PROPERTIES
    FetchedIsSeen
    CancelEnds
CHECK_DEADLOCK FALSE
