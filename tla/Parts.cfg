CONSTANTS
    Task = {t1, t2}
    Node = {n1, n2}
    Self = n1
    NoNode = NoNode
    Local = Local
    Preferred <- MCPreferred
    Critical = {t2}
    MaxInFlight = 1
    MaxRuns = 2
    Evictable = {n2}
    LogFails = {t2}
    NestedRLock = FALSE
    t1 = t1
    n1 = n1
    n2 = n2
    lender = lender
    segA = segA
    segB = segB
    Caller = {c1, c2}
    Toggle = {flip}
    MaxStarts = 2
    Command = {t1}
    Given <- MCGiven
    Timeout = 300
    Token = {k1, k2}
    Attempt = {a1, a2}
    Wasm = {t1}
    Chunks = 2
    Capacity = 2
    Enabling = {1, 2}
    Disabling = {d1}
    Relay = {r1, r2}
    Userspace = TRUE
    LastOctet = 3
    Guess = {g1, g2, g3}
    MaxTries = 1
    MaxPins = 1
    MaxVersion = 2
    MaxCrash = 1
    MaxId = 3
    Sync = {s1}
    Writer = {n1}
    Reader = {n2}
    MaxUploads = 3
    MaxFileCrashes = 2
    Handler = {h1, h2}
    Limit = {1, 2}
    Policies = {q1, q2}
    MaxStamp = 2
    GpuTask = {1, 2, 3}
    Devices = 1
    Llm = {1, 2}
    Bytes <- MCBytes
    Priority <- MCPriority
    Total = 4
    Margin = 1
    LowMemory = 1
    Temps = {0, 3}
    MaxOther = 1
    Peer = {peer}
    Coord = coord
    Topo = {topA, topB}
    Requests = {request}
    MaxHistory = 1
    MaxRestart = 1
    Name = {c1, c2}
    MaxKeys = 3
    MaxFaults = 3
    Rules = 2
    Insight = {1, 2}
    RuleOf <- MCRuleOf
    Content = {1, 2, 3}
    Similar <- MCSimilar
    MaxCount = 2
    MaxAdds = 3
    TopK = 1
    Rotations = 2
    Full = 2
    MaxEvents = 9
    Lender = {lender}
    Reports <- MCReports
    MaxOutcomes = 2
    Segment = {segA, segB}
    Rates = {0, 2}
    Policy <- MCPolicy
    MaxPolicies = 2
    Sweeper = {p1, p2}
    ChanSize = 2
    Space = 16
    MaxSize = 4
    Subnets <- MCSubnets
    Knowing = {n2, lender}
    BestK = 3
    MaxTopK = 2
    Indexes <- MCIndexes
SPECIFICATION PartsSpec
INVARIANTS
    TypesOK
    AdmissionBalanced
    CancelReachesNewestRun
    NodeLoadExactUntilEvicted
    CommittedWasExecuted
    ProcessesAreSound
    RemoteWorkIsSound
    
    
    RulesAreSound
    RecordsAreKept
PROPERTY CancelledWhileRunningStays
CHECK_DEADLOCK FALSE
