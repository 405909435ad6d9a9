SPECIFICATION FairSpec
CONSTANTS
    None = None
    i1 = i1
    i2 = i2
    i3 = i3
    k1 = k1
    k2 = k2
    pr = pr
    Key = {k1}
    Session = {s1, s2, s3}
    Event <- HopEvents
    DefaultMaxEntries = 2
    MaxEntries = 0
    Worker = {w1, w2}
    Handler = {"routed", "stateless"}
    Policy <- NameIsPolicy
    Matches <- SecondMatchesFirst
    Silent <- SecondSilent
    MaxHop = 1
    MaxCandidates = 2
    Targets <- RetrySubject
    FreshChoices = {FALSE}
    Faults = {"create", "summary", "rejected", "lost_reply"}
    Removable = {}
    Object = {o1}
    MaxCrashes = 0
    MaxCalls = 2
INVARIANTS
    TypeOK
    SessionIsolation
    NothingDropped
    StatelessSessionsAreFresh
PROPERTY CallsReturn
CHECK_DEADLOCK FALSE
