CONSTANTS
    Registered <- MCRegistered
    Groups <- MCGroups
    Own <- MCOwn
    Requests <- MCRequests
    Keys = {"key"}
    Token = "token"
    MaxGlobals = 2
    MaxRequests = 2
SPECIFICATION Spec
INVARIANTS TypeOK HandlerIsGated  
CHECK_DEADLOCK FALSE
