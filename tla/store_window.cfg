SPECIFICATION Spec
CONSTANTS
    None = None
    Event <- MCEvent
    a = a
    b = b
    c = c
    pr = pr
    k1 = k1
    Key = {k1}
    Session = {s1}
    Caller = {c1, c2}
    DefaultMaxEntries = 2
    MaxEntriesChoices = {0, 1}
    TTL = 1
    PersistOutcomes = {TRUE, FALSE}
    MaxTime = 2
    MaxAdmissions = 3
    MaxCreated = 1
INVARIANTS
    TypeOK
    IndexMatchesWindow
    ReloadAnswersAlike
    ReplayWindowBounded
    SeenIsRetryable
    RefusesOnlyTheWindow
PROPERTY OncePerWindow
SYMMETRY Symmetries
CHECK_DEADLOCK FALSE
