SPECIFICATION FairSpec
CONSTANTS
    p1 = p1
    p2 = p2
    g1 = g1
    Pins <- MCPins
    Commands <- MCCommands
    PingThreads = {p1, p2}
    GuardThreads = {g1}
PROPERTY EmergencyEnds
PROPERTY PortReleased
PROPERTY SilenceCloses
INVARIANT TypeOK
INVARIANT EmergencyHasOwner
INVARIANT WatchedUnlessLost
INVARIANT LedMeansGuarded
INVARIANT RecordIsCurrent
