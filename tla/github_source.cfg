SPECIFICATION FairSpec
CONSTANTS
    Number = {1, 2, 3}
    PullRequest = {2, 3}
    Wanted = {1, 2}
    OwnersIssues = {}
    Comment <- LoopComments
    IssuesPerPage = 1
    CommentsPerPage = 2
    MaxPages = 2
    Recent = {3}
    Earlier = {1, 2}
    Changing = {1, 2}
    MaxClock = 3
    MaxChanges = 2
    MaxRestarts = 1
INVARIANTS
    TypeOK
    PushesFire
    VerdictsFire
    IssuesFire
    BuildsFire
    AgentRepliesDriveNothing
PROPERTY PushReaches
CHECK_DEADLOCK FALSE
