SPECIFICATION Spec
CONSTANTS
    None = None
    i1 = i1
    i2 = i2
    i3 = i3
    k1 = k1
    k2 = k2
    pr = pr
    Key = {k1, k2}
    Session = {s1, s2}
    Event <- TwoKeys
    DefaultMaxEntries = 1024
    MaxEntries = 1
    Worker = {w1, w2}
    Handler = {"keyed"}
    Policy <- NameIsPolicy
    Matches <- AllMatch
    Silent <- NeverSilent
    MaxHop = 1
    MaxCandidates = 1
    Targets <- RetryFirst
    FreshChoices = {TRUE, FALSE}
    Faults = {"create", "rejected", "lost_reply", "death"}
    Removable = {"keyed"}
    Object = {o1, o2}
    MaxCrashes = 1
    MaxCalls = 3
INVARIANTS
    BindingsOwned
    CreatedSessionsKnown
    DedupWindowResumes
    KeySplitsAlone
PROPERTY AtMostOnce
SYMMETRY Symmetries
CHECK_DEADLOCK FALSE
