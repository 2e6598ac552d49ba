CONSTANTS
    Methods = {"GET", "POST"}
    Patterns <- MCPatterns
    GroupPrefixes <- MCPrefixes
    Folders <- MCFolders
    Names = {"n"}
    NoName = "none"
    Priorities = {0, 5}
    Paths <- MCPaths
    MaxRoutes = 2
    Requests <- MCRequests
    Opens <- MCOpens
    Dotted = {".."}
SPECIFICATION Spec
INVARIANTS TypeOK  ParamsAgree AnswerIsMeant 
CHECK_DEADLOCK FALSE
