SPECIFICATION FairSpec
CONSTANTS
    Session = {w, t}
    Work = {w}
    Caller = {c}
    None = None
    PageSize = 2
    MaxLog = 5
INVARIANTS
    ReplyIsWholeTurn
    ThrowawaysDeleted
    SummaryRecent
PROPERTY CallsReturn
CHECK_DEADLOCK FALSE
