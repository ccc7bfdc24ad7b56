------------------------------- MODULE MCParts -------------------------------
(***************************************************************************)
(* Safety of the task scheduler, and of nineteen more parts of a node      *)
(* that share no state with it or with each other: the variable part says  *)
(* which of them a behaviour is about, and the others stay as they begin.  *)
(* The constants of the parts are constants here, so that what is said of  *)
(* a part is said for all their values; the definitions that begin with MC *)
(* are the values TLC takes for those a .cfg cannot write.                 *)
(***************************************************************************)
EXTENDS Scheduler

CONSTANTS
    t1, n1, n2, lender, segA, segB,                     \* for the values below
    Caller, Toggle, MaxStarts,                          \* Mcp
    Command, Given, Timeout,                            \* Worker
    Token, Attempt, Wasm,                               \* Lending
    Chunks, Capacity,                                   \* Pipeline and Files
    Enabling, Disabling, Relay, Userspace, LastOctet,   \* Tunnel
    Guess, MaxTries, MaxPins,                           \* BrowserPin
    MaxVersion, MaxCrash,                               \* Brain, Settings and Sdn
    MaxId, Sync,                                        \* Brain
    Writer, Reader, MaxUploads, MaxFileCrashes,         \* Files
    Handler, Limit, Policies, MaxStamp,                 \* Settings
    GpuTask, Devices, Llm, Bytes, Priority, Total,      \* Gpu
    Margin, LowMemory, Temps, MaxOther,
    Peer, Coord, Topo, Requests, MaxHistory, MaxRestart, \* Sdn
    Name, MaxKeys, MaxFaults,                           \* Vault, Pulse and Audit
    Rules, Insight, RuleOf,                             \* Pulse
    Content, Similar, MaxCount, MaxAdds, TopK,          \* Memory
    Rotations, Full, MaxEvents,                         \* Audit
    Lender, Reports, MaxOutcomes,                       \* Placement
    Segment, Rates, Policy, MaxPolicies,                \* SdnRules
    Sweeper, ChanSize, Space, MaxSize, Subnets,         \* Sweep
    Knowing, BestK, MaxTopK, Indexes                    \* Search

VARIABLES
    part,
    \* Mcp
    cCfg, cDisk, cCur, cInst, cCall, cToggle, cLoops,
    \* Worker
    wSandboxed, wRun, wAlive, wForked, wReaped, wEnded, wWatcher, wLimiter, wLimits,
    wCgroup,
    \* Lending
    lToken, lSession, lOwn, lPeer, lBorrowed, lGone, lAsks, lServes,
    \* Pipeline
    pAudio, pStep, pServer, pHeard, pTokens, pPrompt, pChannel, pShown, pRun,
    \* Tunnel
    xState, xId, xRelay, xTunnels, xOctet, xWg, xServer, xListening, xEn, xDis, xSevered,
    \* BrowserPin
    bPin, bPins, bSessions, bTries, bDecays, bSub,
    \* Brain
    kFile, kEvent, kIndex, kSync, kGraph, kMeta, kLastID, kSave, kDisk, kCrashes,
    \* Files
    fFile, fPending, fUpload, fVersion, fFailed, fKnown, fGet, fClean, fDoubtful, fCrashes,
    \* Settings
    eMemory, eDisk, eEngine, eWire, eHandler, eUsed, eEchoed, eUnsure, eCrashes,
    \* Gpu
    gTask, gFns, gOther, gThermal, gLastTemp, gSampling, gWatch,
    \* Sdn
    dCtl, dHistory, dActive, dLock, dOp, dWire, dLast, dKernel, dConfirmed, dHalfway, dRestarts,
    \* Vault
    vKeyFile, vMaster, vFile, vOp, vMade, vFaults, vStored, vExcused,
    \* Pulse
    uInsights, uCooling, uDisk, uStep, uFaults, uAnnounced, uGone, uUnsaved, uFailed, uExcused,
    \* Memory
    mMems, mUsed, mDisk, mCreated, mCaller,
    \* Audit
    aFiles, aOpen, aWritten, aRotation, aNext, aEvents, aFaults, aGlued, aUnshifted,
    \* Placement
    tReport, tOnline, tBlocked, tLent, tInFlight, tHealth, tOutcomes,
    \* SdnRules
    rSetting, rNode, rPolicies, rCompiled, rRuleSet,
    \* Sweep
    sTodo, sWalk, sScan, sIpChan, sWorker, sOpened, sSwept, sCancelled,
    \* Search
    qIndex, qSearch, qResults, qSeen, qQuery, qHeard, qRaced

gateway == <<cCfg, cDisk, cCur, cInst, cCall, cToggle, cLoops>>
tasks == <<wSandboxed, wRun, wAlive, wForked, wReaped, wEnded, wWatcher, wLimiter,
           wLimits, wCgroup>>
lending == <<lToken, lSession, lOwn, lPeer, lBorrowed, lGone, lAsks, lServes>>
pipelines == <<pAudio, pStep, pServer, pHeard, pTokens, pPrompt, pChannel, pShown, pRun>>
tunnels == <<xState, xId, xRelay, xTunnels, xOctet, xWg, xServer, xListening, xEn, xDis,
             xSevered>>
pinned == <<bPin, bPins, bSessions, bTries, bDecays, bSub>>
brain == <<kFile, kEvent, kIndex, kSync, kGraph, kMeta, kLastID, kSave, kDisk, kCrashes>>
files == <<fFile, fPending, fUpload, fVersion, fFailed, fKnown, fGet, fClean, fDoubtful,
           fCrashes>>
settings == <<eMemory, eDisk, eEngine, eWire, eHandler, eUsed, eEchoed, eUnsure,
              eCrashes>>
gpus == <<gTask, gFns, gOther, gThermal, gLastTemp, gSampling, gWatch>>
sdn == <<dCtl, dHistory, dActive, dLock, dOp, dWire, dLast, dKernel, dConfirmed, dHalfway,
         dRestarts>>
credentials == <<vKeyFile, vMaster, vFile, vOp, vMade, vFaults, vStored, vExcused>>
pulsing == <<uInsights, uCooling, uDisk, uStep, uFaults, uAnnounced, uGone, uUnsaved, uFailed,
             uExcused>>
memories == <<mMems, mUsed, mDisk, mCreated, mCaller>>
auditing == <<aFiles, aOpen, aWritten, aRotation, aNext, aEvents, aFaults, aGlued, aUnshifted>>
placing == <<tReport, tOnline, tBlocked, tLent, tInFlight, tHealth, tOutcomes>>
compiling == <<rSetting, rNode, rPolicies, rCompiled, rRuleSet>>
sweeping == <<sTodo, sWalk, sScan, sIpChan, sWorker, sOpened, sSwept, sCancelled>>
searching == <<qIndex, qSearch, qResults, qSeen, qQuery, qHeard, qRaced>>

\* The first request of the scheduler asks for the node that gets evicted, the others for n1.
MCPreferred == [t \in Task |-> IF t = t1 THEN n2 ELSE n1]
NoPreference == [t \in Task |-> NoNode]

\* Two calls, one toggle and two instances.
C == INSTANCE Mcp WITH
    cfg <- cCfg, disk <- cDisk, cur <- cCur, inst <- cInst, call <- cCall,
    toggle <- cToggle, loops <- cLoops

\* One task, with the limits of a caller that sets none and of one that sets memory.
W == INSTANCE Worker WITH
    Task <- Command,
    sandboxed <- wSandboxed, run <- wRun, alive <- wAlive, forked <- wForked,
    reaped <- wReaped, ended <- wEnded, watcher <- wWatcher, limiter <- wLimiter,
    limits <- wLimits, cgroup <- wCgroup
MCGiven == {[memory |-> m, cpu |-> 0, procs |-> 0] : m \in {0, 128}}

\* Two tokens, two handshakes, and a task of each kind.
L == INSTANCE Lending WITH
    None <- NoNode,
    token <- lToken, session <- lSession, own <- lOwn, peer <- lPeer, borrowed <- lBorrowed,
    gone <- lGone, asks <- lAsks, serves <- lServes

\* Answers of two pieces and a channel of two events.
P == INSTANCE Pipeline WITH
    audio <- pAudio, step <- pStep, server <- pServer, heard <- pHeard, tokens <- pTokens,
    prompt <- pPrompt, channel <- pChannel, shown <- pShown, run <- pRun

\* Two requests to enable and one to disable, two relays of two addresses.
T == INSTANCE Tunnel WITH
    state <- xState, id <- xId, relay <- xRelay, tunnels <- xTunnels, octet <- xOctet,
    wg <- xWg, server <- xServer, listening <- xListening, en <- xEn, dis <- xDis,
    severed <- xSevered

\* Three submissions, refused after one failure.
B == INSTANCE BrowserPin WITH
    pin <- bPin, pins <- bPins, sessions <- bSessions, tries <- bTries, decays <- bDecays,
    sub <- bSub

\* Two versions of a file, a synchronisation and a crash.
K == INSTANCE Brain WITH
    file <- kFile, event <- kEvent, index <- kIndex, sync <- kSync, graph <- kGraph,
    meta <- kMeta, lastID <- kLastID, save <- kSave, disk <- kDisk, crashes <- kCrashes

\* A writer and a reader, three uploads and two crashes.
F == INSTANCE Files WITH
    MaxVersion <- MaxUploads, MaxCrash <- MaxFileCrashes,
    file <- fFile, pending <- fPending, upload <- fUpload, version <- fVersion,
    failed <- fFailed, known <- fKnown, get <- fGet, clean <- fClean, doubtful <- fDoubtful,
    crashes <- fCrashes

\* Two nodes, two handlers or synchronisations and two stamps.
E == INSTANCE Settings WITH
    memory <- eMemory, disk <- eDisk, engine <- eEngine, wire <- eWire, handler <- eHandler,
    used <- eUsed, echoed <- eEchoed, unsure <- eUnsure, crashes <- eCrashes

\* One device of four units and three calls for it: two models, one of low priority, and
\* an image.
G == INSTANCE Gpu WITH
    Task <- GpuTask, Critical <- LowMemory,
    task <- gTask, fns <- gFns, other <- gOther, thermal <- gThermal,
    lastTemp <- gLastTemp, sampling <- gSampling, watch <- gWatch
MCBytes == <<2, 1, 1>>
MCPriority == <<1, 2, 1>>

\* A coordinator, a peer, two topologies and up to two versions.
D == INSTANCE Sdn WITH
    None <- NoNode, Op <- Requests,
    ctl <- dCtl, history <- dHistory, active <- dActive, lock <- dLock, op <- dOp,
    wire <- dWire, last <- dLast, kernel <- dKernel, confirmed <- dConfirmed,
    halfway <- dHalfway, restarts <- dRestarts

\* Two credentials; keys, crashes and faults enough for three starts.
V == INSTANCE Vault WITH
    keyFile <- vKeyFile, master <- vMaster, file <- vFile, op <- vOp, made <- vMade,
    faults <- vFaults, stored <- vStored, excused <- vExcused

\* Two rules with one insight each.
U == INSTANCE Pulse WITH
    insights <- uInsights, cooling <- uCooling, disk <- uDisk, step <- uStep,
    faults <- uFaults, announced <- uAnnounced, gone <- uGone, unsaved <- uUnsaved,
    failed <- uFailed, excused <- uExcused
MCRuleOf == [x \in Insight |-> x]

\* Two callers and three contents, the second of which is similar to the others.
M == INSTANCE Memory WITH
    mems <- mMems, used <- mUsed, disk <- mDisk, created <- mCreated, caller <- mCaller
MCSimilar == {<<1, 2>>, <<2, 3>>}

\* Two old files of two events each.
A == INSTANCE Audit WITH
    files <- aFiles, open <- aOpen, written <- aWritten, rotation <- aRotation,
    next <- aNext, events <- aEvents, faults <- aFaults, glued <- aGlued,
    unshifted <- aUnshifted

\* Two members, which report together, and a lender.
N == INSTANCE Placement WITH
    Member <- Node,
    report <- tReport, online <- tOnline, blocked <- tBlocked, lent <- tLent,
    inFlight <- tInFlight, health <- tHealth, outcomes <- tOutcomes
Report(used, idle, vram, seen) == [used |-> used, idle |-> idle, vram |-> vram, seen |-> seen]
Both(x, y) == [n \in Node |-> IF n = n1 THEN x ELSE y]
MCReports == {Both(Report(0, 90, 4, TRUE), Report(2, 50, 4, TRUE)),
              Both(Report(1, 30, 0, TRUE), Report(3, 15, 0, TRUE)),
              Both(Report(2, 80, 0, TRUE), Report(5, 60, 4, TRUE)),
              Both(Report(0, 10, 0, TRUE), Report(1, 90, 4, FALSE))}

\* Two segments, and policies that deny and allow all kinds of things.
X == INSTANCE SdnRules WITH
    None <- NoNode,
    setting <- rSetting, node <- rNode, policies <- rPolicies, compiled <- rCompiled,
    ruleSet <- rRuleSet
Match(host, port, seg, proto, internet, action, applyTo, band, rate) ==
    [host |-> host, port |-> port, seg |-> seg, proto |-> proto, internet |-> internet,
     action |-> action, applyTo |-> applyTo, band |-> band, rate |-> rate]
MCPolicy == {Match(FALSE, 4892, FALSE, "tcp", FALSE, "deny", {}, 0, 0),
             Match(FALSE, 0, FALSE, "", FALSE, "deny", {segA}, 0, 0),
             Match(TRUE, 0, FALSE, "", FALSE, "deny", {}, 0, 0),
             Match(TRUE, 5353, TRUE, "udp", TRUE, "deny", {segB}, 0, 0),
             Match(FALSE, 80, FALSE, "", TRUE, "allow", {}, 1, 3),
             Match(FALSE, 11434, FALSE, "tcp", FALSE, "allow", {segA}, 1, 1),
             Match(FALSE, 0, TRUE, "udp", FALSE, "allow", {}, 4, 2)}

\* Two workers, and subnets of two, four and eight addresses, the last too large.
Y == INSTANCE Sweep WITH
    Worker <- Sweeper, Capacity <- ChanSize,
    todo <- sTodo, walk <- sWalk, scan <- sScan, ipChan <- sIpChan, worker <- sWorker,
    opened <- sOpened, swept <- sSwept, cancelled <- sCancelled
MCSubnets == {[host |-> 5, size |-> 4], [host |-> 3, size |-> 4], [host |-> 8, size |-> 2],
              [host |-> 12, size |-> 8]}

\* Three nodes that share chunks; one has lost the text of one, one has another twice.
Z == INSTANCE Search WITH
    Peer <- Knowing, TopK <- BestK,
    index <- qIndex, search <- qSearch, results <- qResults, seen <- qSeen,
    query <- qQuery, heard <- qHeard, raced <- qRaced
Chunk(id, chunk, score) == [id |-> id, chunk |-> chunk, score |-> score, known |-> TRUE]
Forgotten(id, chunk, score) == [Chunk(id, chunk, score) EXCEPT !.known = FALSE]
Have(x, y, z) == [n \in Knowing \cup {Self} |-> CASE n = Self -> x [] n = n2 -> y [] OTHER -> z]
MCIndexes ==
    {Have({Chunk(1, 1, 5), Chunk(2, 2, 3)}, {Chunk(1, 1, 5), Chunk(2, 3, 4), Chunk(3, 4, 2)},
          {Chunk(1, 5, 3)}),
     Have({}, {Chunk(1, 1, 2), Chunk(2, 2, 2), Chunk(3, 3, 1)}, {Chunk(1, 1, 4), Chunk(2, 2, 1)}),
     Have({Chunk(1, 1, 1), Forgotten(2, 2, 5)}, {Chunk(1, 2, 5), Chunk(2, 2, 5), Chunk(3, 1, 3)},
          {Chunk(1, 3, 1), Chunk(2, 1, 3)})}

ASSUME PartsAssumption ==
    /\ K!BrainAssumption /\ B!PinAssumption /\ P!PipelineAssumption /\ T!TunnelAssumption
    /\ G!GpuAssumption /\ D!SdnAssumption /\ C!McpAssumption /\ L!LendingAssumption
    /\ E!SettingsAssumption /\ V!VaultAssumption /\ U!PulseAssumption /\ F!FilesAssumption
    /\ M!MemoryAssumption /\ A!AuditAssumption /\ N!PlacementAssumption
    /\ X!RulesAssumption /\ Y!SweepAssumption /\ Z!SearchAssumption

all == <<part, vars, gateway, tasks, lending, pipelines, tunnels, pinned, brain, files, settings,
         gpus, sdn, credentials, pulsing, memories, auditing, placing, compiling, sweeping, searching>>

Parts == {"scheduler", "mcp", "task", "lending", "pipeline", "tunnel", "pin", "brain",
          "files", "settings", "gpu", "sdn", "vault", "pulse", "memory", "audit",
          "placement", "rules", "sweep", "search"}

\* A part with several initial states has one of them while it is not looked at.
PartsInit ==
    /\ part \in Parts
    /\ part # "rules" => /\ rSetting = CHOOSE s \in X!Setting : TRUE
                         /\ rNode = NoNode /\ rPolicies = <<>>
    /\ part # "search" => qIndex = CHOOSE f \in Indexes : TRUE
    /\ part # "placement" => tReport = CHOOSE r \in Reports : TRUE
    /\ Init /\ C!Init /\ W!Init /\ L!Init /\ P!Init /\ T!Init /\ B!Init /\ K!Init /\ F!Init
    /\ E!Init /\ G!Init /\ D!Init /\ V!Init /\ U!Init /\ M!Init /\ A!Init
    /\ N!Init /\ X!Init /\ Y!Init /\ Z!Init
    /\ part # "task" => wSandboxed = {}
    /\ part # "tunnel" => xRelay = CHOOSE r \in Relay : TRUE

PartsNext ==
    /\ UNCHANGED part
    /\ \/ part = "scheduler" /\ Next
          /\ UNCHANGED <<gateway, tasks, lending, pipelines, tunnels, pinned, brain, files,
                         settings, gpus, sdn, credentials, pulsing, memories, auditing,
                         placing, compiling, sweeping, searching>>
       \/ part = "mcp" /\ C!Next
          /\ UNCHANGED <<vars, tasks, lending, pipelines, tunnels, pinned, brain, files,
                         settings, gpus, sdn, credentials, pulsing, memories, auditing,
                         placing, compiling, sweeping, searching>>
       \/ part = "task" /\ W!Next
          /\ UNCHANGED <<vars, gateway, lending, pipelines, tunnels, pinned, brain, files,
                         settings, gpus, sdn, credentials, pulsing, memories, auditing,
                         placing, compiling, sweeping, searching>>
       \/ part = "lending" /\ L!Next
          /\ UNCHANGED <<vars, gateway, tasks, pipelines, tunnels, pinned, brain, files,
                         settings, gpus, sdn, credentials, pulsing, memories, auditing,
                         placing, compiling, sweeping, searching>>
       \/ part = "pipeline" /\ P!Next
          /\ UNCHANGED <<vars, gateway, tasks, lending, tunnels, pinned, brain, files,
                         settings, gpus, sdn, credentials, pulsing, memories, auditing,
                         placing, compiling, sweeping, searching>>
       \/ part = "tunnel" /\ T!Next
          /\ UNCHANGED <<vars, gateway, tasks, lending, pipelines, pinned, brain, files,
                         settings, gpus, sdn, credentials, pulsing, memories, auditing,
                         placing, compiling, sweeping, searching>>
       \/ part = "pin" /\ B!Next
          /\ UNCHANGED <<vars, gateway, tasks, lending, pipelines, tunnels, brain, files,
                         settings, gpus, sdn, credentials, pulsing, memories, auditing,
                         placing, compiling, sweeping, searching>>
       \/ part = "brain" /\ K!Next
          /\ UNCHANGED <<vars, gateway, tasks, lending, pipelines, tunnels, pinned, files,
                         settings, gpus, sdn, credentials, pulsing, memories, auditing,
                         placing, compiling, sweeping, searching>>
       \/ part = "files" /\ F!Next
          /\ UNCHANGED <<vars, gateway, tasks, lending, pipelines, tunnels, pinned, brain,
                         settings, gpus, sdn, credentials, pulsing, memories, auditing,
                         placing, compiling, sweeping, searching>>
       \/ part = "settings" /\ E!Next
          /\ UNCHANGED <<vars, gateway, tasks, lending, pipelines, tunnels, pinned, brain,
                         files, gpus, sdn, credentials, pulsing, memories, auditing, placing,
                         compiling, sweeping, searching>>
       \/ part = "gpu" /\ G!Next
          /\ UNCHANGED <<vars, gateway, tasks, lending, pipelines, tunnels, pinned, brain,
                         files, settings, sdn, credentials, pulsing, memories, auditing,
                         placing, compiling, sweeping, searching>>
       \/ part = "sdn" /\ D!Next
          /\ UNCHANGED <<vars, gateway, tasks, lending, pipelines, tunnels, pinned, brain,
                         files, settings, gpus, credentials, pulsing, memories, auditing,
                         placing, compiling, sweeping, searching>>
       \/ part = "vault" /\ V!Next
          /\ UNCHANGED <<vars, gateway, tasks, lending, pipelines, tunnels, pinned, brain,
                         files, settings, gpus, sdn, pulsing, memories, auditing, placing,
                         compiling, sweeping, searching>>
       \/ part = "pulse" /\ U!Next
          /\ UNCHANGED <<vars, gateway, tasks, lending, pipelines, tunnels, pinned, brain,
                         files, settings, gpus, sdn, credentials, memories, auditing, placing,
                         compiling, sweeping, searching>>
       \/ part = "memory" /\ M!Next
          /\ UNCHANGED <<vars, gateway, tasks, lending, pipelines, tunnels, pinned, brain,
                         files, settings, gpus, sdn, credentials, pulsing, auditing, placing,
                         compiling, sweeping, searching>>
       \/ part = "audit" /\ A!Next
          /\ UNCHANGED <<vars, gateway, tasks, lending, pipelines, tunnels, pinned, brain,
                         files, settings, gpus, sdn, credentials, pulsing, memories, placing,
                         compiling, sweeping, searching>>
       \/ part = "placement" /\ N!Next
          /\ UNCHANGED <<vars, gateway, tasks, lending, pipelines, tunnels, pinned, brain,
                         files, settings, gpus, sdn, credentials, pulsing, memories, auditing,
                         compiling, sweeping, searching>>
       \/ part = "rules" /\ X!Next
          /\ UNCHANGED <<vars, gateway, tasks, lending, pipelines, tunnels, pinned, brain,
                         files, settings, gpus, sdn, credentials, pulsing, memories, auditing,
                         placing, sweeping, searching>>
       \/ part = "sweep" /\ Y!Next
          /\ UNCHANGED <<vars, gateway, tasks, lending, pipelines, tunnels, pinned, brain,
                         files, settings, gpus, sdn, credentials, pulsing, memories, auditing,
                         placing, compiling, searching>>
       \/ part = "search" /\ Z!Next
          /\ UNCHANGED <<vars, gateway, tasks, lending, pipelines, tunnels, pinned, brain,
                         files, settings, gpus, sdn, credentials, pulsing, memories, auditing,
                         placing, compiling, sweeping>>

PartsSpec == PartsInit /\ [][PartsNext]_all

\* The scheduler, with the fairness of its steps.
SchedulerSpec == PartsSpec /\ part = "scheduler" /\ Fairness

-----------------------------------------------------------------------------
(* The properties of the parts *)

\* Every variable of every part stays in its type.
TypesOK ==
    /\ part = "scheduler" => TypeOK
    /\ part = "mcp" => C!TypeOK
    /\ part = "task" => W!TypeOK
    /\ part = "lending" => L!TypeOK
    /\ part = "pipeline" => P!TypeOK
    /\ part = "tunnel" => T!TypeOK
    /\ part = "pin" => B!TypeOK
    /\ part = "brain" => K!TypeOK
    /\ part = "files" => F!TypeOK
    /\ part = "settings" => E!TypeOK
    /\ part = "gpu" => G!TypeOK
    /\ part = "sdn" => D!TypeOK
    /\ part = "vault" => V!TypeOK
    /\ part = "pulse" => U!TypeOK
    /\ part = "memory" => M!TypeOK
    /\ part = "audit" => A!TypeOK
    /\ part = "placement" => N!TypeOK
    /\ part = "sweep" => Y!TypeOK
    /\ part = "search" => Z!TypeOK

\* An MCP server has one process and a caller the answer to its own call (Mcp), a sandboxed
\* task leaves neither processes nor control groups behind (Worker).
ProcessesAreSound ==
    /\ part = "mcp" => C!OneProcess /\ C!AnswerIsOwn
    /\ part = "task" => W!NothingOutlivesSandbox /\ W!CgroupsAreRemoved

\* A borrowed node is one that serves (Lending), an image is of a whole prompt (Pipeline), a
\* connected tunnel is served (Tunnel), a refused browser will be let in again (BrowserPin), a
\* scan sends to the hosts of the small subnets and to nothing else (Sweep), and a search
\* leaves no chunk out for a worse one (Search).
RemoteWorkIsSound ==
    /\ part = "lending" => L!BorrowedIsServed
    /\ part = "pipeline" => P!ImageOfWholePrompt
    /\ part = "tunnel" => T!ConnectedIsServed
    /\ part = "pin" => B!RefusalPasses
    /\ part = "sweep" => Y!SweptAreHosts
    /\ part = "search" => Z!NoBetterLeftOut

\* What is kept twice agrees, also after a crash: a vector and its text (Brain), a file and
\* its copies (Files), the settings of two nodes, and those that are shown and enforced
\* (Settings), a credential and its key (Vault), an insight and the list of them (Pulse).
StoresAreSound ==
    /\ part = "brain" => K!VectorIsOfItsText /\ K!OneVersionIndexed
    /\ part = "files" => F!CopyIsWhole /\ F!NoHalfIsLeft
    /\ part = "settings" => E!SameStampSameSettings /\ E!ShownIsEnforced
    /\ part = "vault" => V!StoredIsKept
    /\ part = "pulse" => U!InsightsAreTold

\* What runs, runs where it should: a call under a reservation of its own, and the
\* reservations and what preempted calls still hold fit the device (Gpu); a task on no
\* member that another one beats, and on the node its caller prefers (Placement).
PlacementsAreSound ==
    /\ part = "gpu" => G!WorkIsReserved /\ G!NotOvercommitted
    /\ part = "placement" => N!NoBetterPassedOver /\ N!PreferredIsTaken

\* A peer enforces the rules it last confirmed (Sdn), and no rules lock the administrator
\* out or let a band exceed its segment (SdnRules).
RulesAreSound ==
    /\ part = "sdn" => D!ConfirmedIsEnforced
    /\ part = "rules" => X!NoLockout /\ X!WithinSegment

\* What is recorded is kept: memories are told apart, counted and ordered as they are used
\* (Memory), and the audit log keeps its newest events in order (Audit).
RecordsAreKept ==
    /\ part = "memory" => M!MemoriesAreDistinct
    /\ part = "audit" => A!LogIsInOrder /\ A!OldestAreDropped /\ A!EnoughIsKept

=============================================================================
