----------------------------- MODULE MCProgress -----------------------------
(***************************************************************************)
(* Liveness of failure detection, of the scheduler and of the GPU's        *)
(* reservations, which share no state here: the variable part says which   *)
(* of them a behaviour is about, and the others stay as they begin.  Each  *)
(* keeps its own fairness.                                                 *)
(***************************************************************************)
EXTENDS Membership

CONSTANTS task, self, other, NoNode, Local, MaxRuns

ASSUME MembershipAssumption

VARIABLES
    part,
    \* Scheduler
    sCall, sStatus, sAssigned, sGen, sCancels, sPc, sKilled, sOn, sOkay, sJournal,
    sInFlight, sNodeLoad, sOnline, sMu, sEvicting, sTodo,
    \* Gpu
    gTask, gFns, gOther, gThermal, gLastTemp, gSampling, gWatch

scheduler == <<sCall, sStatus, sAssigned, sGen, sCancels, sPc, sKilled, sOn, sOkay, sJournal,
               sInFlight, sNodeLoad, sOnline, sMu, sEvicting, sTodo>>
gpu == <<gTask, gFns, gOther, gThermal, gLastTemp, gSampling, gWatch>>

\* One task, submitted at one of two nodes; the other one may be evicted.
S == INSTANCE Scheduler WITH
    Task <- {task}, Node <- {self, other}, Self <- self, NoNode <- NoNode, Local <- Local,
    Preferred <- [t \in {task} |-> NoNode], Critical <- {}, MaxInFlight <- 1,
    MaxRuns <- MaxRuns, Evictable <- {other}, LogFails <- {task}, NestedRLock <- FALSE,
    call <- sCall, status <- sStatus, assigned <- sAssigned, gen <- sGen, cancels <- sCancels,
    pc <- sPc, killed <- sKilled, on <- sOn, okay <- sOkay, journal <- sJournal,
    inFlight <- sInFlight, nodeLoad <- sNodeLoad, online <- sOnline, mu <- sMu,
    evicting <- sEvicting, todo <- sTodo

\* One device of three units, and a model and an image that ask for it.
G == INSTANCE Gpu WITH
    Devices <- 1, Task <- 1 .. 2, Llm <- {1}, Bytes <- <<1, 1>>, Priority <- <<1, 2>>,
    Total <- 3, Margin <- 1, Critical <- 1, Temps <- {0}, MaxOther <- 0,
    task <- gTask, fns <- gFns, other <- gOther, thermal <- gThermal,
    lastTemp <- gLastTemp, sampling <- gSampling, watch <- gWatch

all == <<part, vars, scheduler, gpu>>

ProgressInit ==
    /\ part \in {"membership", "scheduler", "gpu"}
    /\ Init /\ S!Init /\ G!Init
    /\ place = [n \in Node |-> IF n = 1 THEN Nowhere ELSE 1]

ProgressNext ==
    /\ UNCHANGED part
    /\ \/ part = "membership" /\ Next /\ UNCHANGED <<scheduler, gpu>>
       \/ part = "scheduler" /\ S!Next /\ UNCHANGED <<vars, gpu>>
       \/ part = "gpu" /\ G!Next /\ UNCHANGED <<vars, scheduler>>

MembershipFairness ==
    /\ \A n \in Node : WF_vars(part = "membership" /\ Check(n))
    /\ \A n, m \in Node : /\ WF_vars(part = "membership" /\ Heartbeat(m, n))
                         /\ WF_vars(part = "membership" /\ EvictReceived(n, m))
    \* Only others are late, or crashed and silent.
    /\ \A n \in Node : \A m \in Node \ {n} :
         /\ WF_vars(part = "membership" /\ LateHeartbeat(m, n))
         /\ WF_vars(part = "membership" /\ m \notin up /\ Silence(m, n))

SchedulerFairness ==
    /\ SF_scheduler(part = "scheduler" /\ S!Submit(task))
    /\ SF_scheduler(part = "scheduler" /\ S!Eviction(other))
    /\ \A r \in S!Run :
         /\ SF_scheduler(part = "scheduler"
                         /\ (S!RunStart(r) \/ S!RunReject(r) \/ S!RunMark(r) \/ S!RunFinalize(r)))
         /\ WF_scheduler(part = "scheduler"
                         /\ (S!Launch(r) \/ S!RunAppend(r) \/ S!RunCount(r)
                             \/ S!RunJournal(r) \/ S!RunRelease(r)))
         /\ WF_scheduler(part = "scheduler" /\ S!OnThisNode(r) /\ S!RunExecuted(r))

GpuFairness ==
    /\ \A t \in 1 .. 2 : WF_gpu(part = "gpu" /\ G!Age(t))
    /\ WF_gpu(part = "gpu" /\ G!Expire(1))

ProgressSpec == /\ ProgressInit /\ [][ProgressNext]_all
                /\ MembershipFairness /\ SchedulerFairness /\ GpuFairness

-----------------------------------------------------------------------------
(* The properties of the scheduler and of the GPU *)

\* A task that was submitted settles, however it is cancelled, evicted and re-queued
\* (Scheduler!TaskSettles), and memory that was reserved and never used is given back
\* (Gpu!PendingSettles).
WorkSettles == /\ part = "scheduler" => S!TaskSettles
               /\ part = "gpu" => G!PendingSettles

=============================================================================
