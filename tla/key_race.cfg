SPECIFICATION Spec
CONSTANTS
    None = None
    i1 = i1
    i2 = i2
    i3 = i3
    k1 = k1
    k2 = k2
    pr = pr
    Key = {k1}
    Session = {s1, s2}
    Event <- SameKey
    DefaultMaxEntries = 2
    MaxEntries = 0
    Worker = {w1, w2}
    Handler = {"keyed"}
    Policy <- NameIsPolicy
    Matches <- AllMatch
    Silent <- NeverSilent
    MaxHop = 1
    MaxCandidates = 1
    Targets = {}
    FreshChoices = {FALSE}
    Faults = {}
    Removable = {}
    Object = {o1}
    MaxCrashes = 0
    MaxCalls = 2
INVARIANT OneSessionPerKey
CHECK_DEADLOCK FALSE
