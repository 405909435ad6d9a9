SPECIFICATION Spec
CONSTANTS
    None = None
    Event <- MCEvent
    a = a
    b = b
    c = c
    pr = pr
    k1 = k1
    Key = {k1}
    Session = {s1}
    Caller = {c1, c2}
    DefaultMaxEntries = 2
    MaxEntriesChoices = {1}
    TTL = 1
    PersistOutcomes = {TRUE}
    MaxTime = 0
    MaxAdmissions = 2
    MaxCreated = 0
INVARIANT EverySeenIsRetryable
SYMMETRY Symmetries
CHECK_DEADLOCK FALSE
