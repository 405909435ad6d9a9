SPECIFICATION FairSpec
CONSTANTS
    Item = {1}
    Nameless = {}
    Drafts = {}
    Date = {1}
    Sources <- ConflictSource
    MatchSpecs <- FixerOnly
    None = None
    Handler = {h}
    PageSize = 1
    Changing = {1}
    MaxChanges = 3
INVARIANT ConflictFires
CHECK_DEADLOCK FALSE
