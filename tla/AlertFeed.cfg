\* Three alerts, two connections, one restart.
SPECIFICATION FairFeedSpec
CONSTANTS
    Alerts = {a1, a2, a3}
    Conns = {b1, b2}
    MaxCrashes = 1
INVARIANTS
    FeedTypeOK
    ReceivedIsStretch
    OpenIsServed
PROPERTIES
    FeedImplementsLog
    EveryListenerIsSent
CHECK_DEADLOCK FALSE
