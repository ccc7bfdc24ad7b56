CONSTANTS
    Node = {n1, n2}
    Slot = {s1, s2}
    FailureThreshold = 1
    SuccessThreshold = 2
    OpenDuration = 1
    MaxOpenDuration = 2
    Chat = {chat}
    Requester = {requester}
    Worker = {worker}
    Nobody = nobody
    OwnerOf <- OneOwner
    Length = 2
    MaxRounds = 2
    Root = {root}
    Sub = {sub}
    ParentOf <- OneParent
    MaxSteps = 1
    Buffer = 1
    Joiner = {far, near}
    Coord = coord
    Token = {token}
    Near = {near}
    Paths <- NearByHttp
    MaxRestart = 1
SPECIFICATION ServiceSpec
INVARIANTS
    TypesOK
    ClosedIsClean
    
    RunningCanBeStopped
PROPERTIES
    OpenWaitsForCooldown
    OpenIsProbedAgain
    ChatEnds
    WaitEnds
    
CHECK_DEADLOCK FALSE
