SPECIFICATION FairSpec
CONSTANTS
    Item = {1, 2}
    Nameless = {2}
    Drafts = {1}
    Date = {1, 2}
    Sources <- AllSources
    MatchSpecs <- AllMatches
    None = None
    Handler = {h}
    PageSize = 1
    Changing = {1}
    MaxChanges = 3
INVARIANTS
    TypeOK
    SettledFires
    TurnsBoundedByChanges
PROPERTY CurrentVersionReaches
CHECK_DEADLOCK FALSE
