SPECIFICATION FairSpec
CONSTANTS
    None = None
    b = b
    k1 = k1
    Key = {k1}
    Session = {}
    Event <- OneItem
    DefaultMaxEntries = 1
    Handler = {h1}
    Source = {s1}
    Poller = {p1, p2}
    Object = {1, 2}
    MaxEntries = 0
    PersistOutcomes = {TRUE, FALSE}
    MaxRequests = 4
    MaxCrashes = 1
INVARIANTS
    TypeOK
    AcknowledgedSurvives
    OnePollerPerSource

PROPERTIES
    UnchangedDrivesNothing
    EventsReachHandlers
    PollersEnd
CHECK_DEADLOCK FALSE
