------------------------------ MODULE Scheduler ------------------------------
(***************************************************************************)
(* The task scheduler of one agent (internal/scheduler/scheduler.go): the  *)
(* Submit, Cancel, Shutdown and HandleNodeEvicted calls and the goroutine  *)
(* runLocally that executes a task, at the granularity of the critical     *)
(* sections of s.mu and of the atomic counters in between.                 *)
(*                                                                         *)
(* A task is started once by Submit and once more by every eviction of the *)
(* node it is assigned to; each start is a run, a goroutine with a context *)
(* of its own.  All runs of a task share the *Task record.                 *)
(***************************************************************************)
EXTENDS Integers, FiniteSets

CONSTANTS
    Task,          \* the Submit calls, each creating one task
    Node,          \* the nodes the cluster manager lists
    Self,          \* the node this scheduler runs on (localNodeID)
    NoNode,        \* AssignedNode / PreferredNode = ""
    Local,         \* the name pickNodeFallback returns when nothing is online
    Preferred,     \* PreferredNode of each request
    Critical,      \* tasks the classifier gives PriorityCritical
    MaxInFlight,   \* AdmissionConfig.MaxInFlightTotal
    MaxRuns,       \* bound: runs of one task (one plus the evictions explored)
    Evictable,     \* bound: the nodes whose eviction is explored
    LogFails,      \* bound: the tasks whose writes of the log may fail
    NestedRLock    \* TRUE: selectNode takes s.mu.RLock to read remoteNodesFunc, as
                   \* the code does although both callers hold s.mu;
                   \* FALSE: it reads it without the lock, so that it returns

ASSUME SchedulerAssumption ==
    /\ IsFiniteSet(Task)
    /\ Self \in Node
    /\ NoNode \notin Node \cup Task /\ Local \notin Node \cup {NoNode}
    /\ Task \cap Node = {}
    /\ Preferred \in [Task -> Node \cup {NoNode}]
    /\ Critical \subseteq Task
    /\ Evictable \subseteq Node
    /\ LogFails \subseteq Task
    /\ MaxInFlight \in Nat
    /\ MaxRuns \in Nat /\ MaxRuns >= 2
    /\ NestedRLock \in BOOLEAN

VARIABLES
    call,       \* progress of the Submit call of each task
    status,     \* Task.Status ("none" before the task exists)
    assigned,   \* Task.AssignedNode
    gen,        \* how many runs of the task were created
    cancels,    \* s.cancels: the run whose context the entry cancels, 0 if none
    pc,         \* where each run (goroutine runLocally) is
    killed,     \* runs whose context is cancelled
    on,         \* the node an executing run was counted on in s.inFlight
    okay,       \* runs whose execution returned without error
    journal,    \* the write-ahead-log entry of each run
    inFlight,   \* admission.inFlight, the cluster-wide counter
    nodeLoad,   \* s.inFlight, the per-node counters
    online,     \* nodes the cluster manager has as StatusOnline
    mu,         \* holder of s.mu across steps: Free, a task's Submit, a node's eviction
    evicting,   \* the node whose eviction is called and not yet returned, or NoNode
    todo        \* tasks the eviction holding s.mu still has to re-queue

vars == <<call, status, assigned, gen, cancels, pc, killed, on, okay, journal,
          inFlight, nodeLoad, online, mu, evicting, todo>>

Run == Task \X (1..MaxRuns)
Free == NoNode
NodeName == Node \cup {Local}

Active == {"pending", "running"}
Settled == {"completed", "failed", "cancelled"}

\* A run holds one unit of the cluster-wide counter from IncrementInFlight to
\* the DecrementInFlight on whichever path it leaves by.
Admitted == {"start", "validate", "append", "count", "exec", "release"}
\* A run that may still execute, or is executing, the command.
Live == {"made", "requeued", "start", "validate", "append", "count", "exec"}

-----------------------------------------------------------------------------
Init ==
    /\ call = [t \in Task |-> "idle"]
    /\ status = [t \in Task |-> "none"]
    /\ assigned = [t \in Task |-> NoNode]
    /\ gen = [t \in Task |-> 0]
    /\ cancels = [t \in Task |-> 0]
    /\ pc = [r \in Run |-> "unborn"]
    /\ killed = {}
    /\ on = [r \in Run |-> NoNode]
    /\ okay = {}
    /\ journal = [r \in Run |-> "none"]
    /\ inFlight = 0
    /\ nodeLoad = [n \in NodeName |-> 0]
    /\ online = Node
    /\ mu = Free
    /\ evicting = NoNode
    /\ todo = {}

\* What selectNode can return: the scorer honours a preferred node that is
\* online (the fallback too); otherwise any online node may score best, and
\* Local is returned when no node is online or none has reported any RAM.
Candidates(t) ==
    IF Preferred[t] \in online THEN {Preferred[t]} ELSE online \cup {Local}

\* selectNode takes s.mu.RLock, which blocks while anyone holds s.mu.
SelectNodeReturns == NestedRLock => mu = Free

-----------------------------------------------------------------------------
(* Submit *)

\* Admission is decided before s.mu is taken and counted after it is released.
SubmitAdmit(t) ==
    /\ call[t] = "idle"
    /\ call' = [call EXCEPT ![t] =
                  IF t \in Critical \/ inFlight < MaxInFlight
                  THEN "admitted" ELSE "rejected"]
    /\ UNCHANGED <<status, assigned, gen, cancels, pc, killed, on, okay, journal,
                   inFlight, nodeLoad, online, mu, evicting, todo>>

SubmitLock(t) ==
    /\ call[t] = "admitted"
    /\ mu = Free
    /\ call' = [call EXCEPT ![t] = "locked"]
    /\ mu' = t
    /\ UNCHANGED <<status, assigned, gen, cancels, pc, killed, on, okay, journal,
                   inFlight, nodeLoad, online, evicting, todo>>

\* A fresh context for task t; run takes the program counter where.
MakeRun(t, where) ==
    /\ gen' = [gen EXCEPT ![t] = @ + 1]
    /\ cancels' = [cancels EXCEPT ![t] = gen[t] + 1]
    /\ pc' = [pc EXCEPT ![<<t, gen[t] + 1>>] = where]

SubmitCreate(t) ==
    /\ call[t] = "locked"
    /\ SelectNodeReturns
    /\ \E n \in Candidates(t) : assigned' = [assigned EXCEPT ![t] = n]
    /\ status' = [status EXCEPT ![t] = "pending"]
    /\ MakeRun(t, "made")
    /\ call' = [call EXCEPT ![t] = "created"]
    /\ mu' = Free
    /\ UNCHANGED <<killed, on, okay, journal, inFlight, nodeLoad, online, evicting, todo>>

\* admission.IncrementInFlight and the go statement, outside s.mu (Submit and
\* HandleNodeEvicted end with the same two statements).
Launch(r) ==
    /\ pc[r] = "made"
    /\ pc' = [pc EXCEPT ![r] = "start"]
    /\ inFlight' = inFlight + 1
    /\ UNCHANGED <<call, status, assigned, gen, cancels, killed, on, okay, journal,
                   nodeLoad, online, mu, evicting, todo>>

-----------------------------------------------------------------------------
(* runLocally *)

\* The guard against a cancellation that came before the goroutine started.
RunStart(r) ==
    /\ pc[r] = "start"
    /\ mu = Free
    /\ pc' = [pc EXCEPT ![r] =
                IF status[r[1]] = "cancelled" THEN "release" ELSE "validate"]
    /\ UNCHANGED <<call, status, assigned, gen, cancels, killed, on, okay, journal,
                   inFlight, nodeLoad, online, mu, evicting, todo>>

\* Fault: a refused command leaves the status of its task alone.
RunRejectSilently(r) ==
    /\ pc[r] = "validate"
    /\ mu = Free
    /\ cancels' = [cancels EXCEPT ![r[1]] = 0]
    /\ pc' = [pc EXCEPT ![r] = "release"]
    /\ UNCHANGED <<call, status, assigned, gen, killed, on, okay, journal,
                   inFlight, nodeLoad, online, mu, evicting, todo>>

\* ValidateCommand refuses the command.
RunReject(r) ==
    /\ pc[r] = "validate"
    /\ mu = Free
    /\ status' = [status EXCEPT ![r[1]] = "failed"]
    /\ cancels' = [cancels EXCEPT ![r[1]] = 0]
    /\ pc' = [pc EXCEPT ![r] = "release"]
    /\ UNCHANGED <<call, assigned, gen, killed, on, okay, journal,
                   inFlight, nodeLoad, online, mu, evicting, todo>>

\* ValidateCommand accepts it and the task is marked running.
RunMark(r) ==
    /\ pc[r] = "validate"
    /\ mu = Free
    /\ status' = [status EXCEPT ![r[1]] = "running"]
    /\ pc' = [pc EXCEPT ![r] = "append"]
    /\ UNCHANGED <<call, assigned, gen, cancels, killed, on, okay, journal,
                   inFlight, nodeLoad, online, mu, evicting, todo>>

\* The write-ahead log entry; an append that fails is only logged.
RunAppend(r) ==
    /\ pc[r] = "append"
    /\ pc' = [pc EXCEPT ![r] = "count"]
    /\ \/ journal' = [journal EXCEPT ![r] = "pending"]
       \/ r[1] \in LogFails /\ UNCHANGED journal
    /\ UNCHANGED <<call, status, assigned, gen, cancels, killed, on, okay,
                   inFlight, nodeLoad, online, mu, evicting, todo>>

\* AssignedNode is read again here, without s.mu.
RunCount(r) ==
    /\ pc[r] = "count"
    /\ pc' = [pc EXCEPT ![r] = "exec"]
    /\ on' = [on EXCEPT ![r] = assigned[r[1]]]
    /\ nodeLoad' = [nodeLoad EXCEPT ![assigned[r[1]]] = @ + 1]
    /\ UNCHANGED <<call, status, assigned, gen, cancels, killed, okay, journal,
                   inFlight, online, mu, evicting, todo>>

\* Fault: the per-node counter is decremented without looking whether it is zero.
RunExecutedUnclamped(r) ==
    /\ pc[r] = "exec"
    /\ pc' = [pc EXCEPT ![r] = "finalize"]
    /\ \E ok \in BOOLEAN : okay' = IF ok THEN okay \cup {r} ELSE okay
    /\ nodeLoad' = [nodeLoad EXCEPT ![assigned[r[1]]] = @ - 1]
    /\ on' = [on EXCEPT ![r] = NoNode]
    /\ inFlight' = inFlight - 1
    /\ UNCHANGED <<call, status, assigned, gen, cancels, killed, journal,
                   online, mu, evicting, todo>>

\* Fault: the counter of this node is decremented wherever the run executed.
RunExecutedHere(r) ==
    /\ pc[r] = "exec"
    /\ pc' = [pc EXCEPT ![r] = "finalize"]
    /\ \E ok \in BOOLEAN : okay' = IF ok THEN okay \cup {r} ELSE okay
    /\ nodeLoad' = [nodeLoad EXCEPT ![Self] = IF @ > 0 THEN @ - 1 ELSE 0]
    /\ on' = [on EXCEPT ![r] = NoNode]
    /\ inFlight' = inFlight - 1
    /\ UNCHANGED <<call, status, assigned, gen, cancels, killed, journal,
                   online, mu, evicting, todo>>

\* The execution returns (a run whose context is cancelled may still have
\* succeeded) and AssignedNode is read once more to choose the counter.
RunExecuted(r) ==
    /\ pc[r] = "exec"
    /\ pc' = [pc EXCEPT ![r] = "finalize"]
    /\ \E ok \in BOOLEAN : okay' = IF ok THEN okay \cup {r} ELSE okay
    /\ nodeLoad' = [nodeLoad EXCEPT ![assigned[r[1]]] = IF @ > 0 THEN @ - 1 ELSE 0]
    /\ on' = [on EXCEPT ![r] = NoNode]
    /\ inFlight' = inFlight - 1
    /\ UNCHANGED <<call, status, assigned, gen, cancels, killed, journal,
                   online, mu, evicting, todo>>

\* Fault: the final status is written whatever the status is now.
RunFinalizeOverwrites(r) ==
    /\ pc[r] = "finalize"
    /\ mu = Free
    /\ status' = [status EXCEPT ![r[1]] = IF r \in okay THEN "completed" ELSE "failed"]
    /\ cancels' = [cancels EXCEPT ![r[1]] = 0]
    /\ pc' = [pc EXCEPT ![r] = "journal"]
    /\ UNCHANGED <<call, assigned, gen, killed, on, okay, journal,
                   inFlight, nodeLoad, online, mu, evicting, todo>>

\* The final status, unless the task was cancelled meanwhile.
RunFinalize(r) ==
    /\ pc[r] = "finalize"
    /\ mu = Free
    /\ status' = [status EXCEPT ![r[1]] =
                    IF @ = "cancelled" THEN @
                    ELSE IF r \in okay THEN "completed" ELSE "failed"]
    /\ cancels' = [cancels EXCEPT ![r[1]] = 0]
    /\ pc' = [pc EXCEPT ![r] = "journal"]
    /\ UNCHANGED <<call, assigned, gen, killed, on, okay, journal,
                   inFlight, nodeLoad, online, mu, evicting, todo>>

\* Fault: everything that is not failed is committed.
RunJournalCommitsCancelled(r) ==
    /\ pc[r] = "journal"
    /\ pc' = [pc EXCEPT ![r] = "done"]
    /\ journal' = [journal EXCEPT ![r] =
                     IF @ # "pending" THEN @
                     ELSE IF status[r[1]] # "failed" THEN "committed" ELSE "aborted"]
    /\ UNCHANGED <<call, status, assigned, gen, cancels, killed, on, okay,
                   inFlight, nodeLoad, online, mu, evicting, todo>>

\* Commit or Abort by the status read after s.mu was released; a write that
\* fails leaves the entry pending.  The outcome is then recorded for the node
\* (CircuitBreaker models that) and the goroutine ends.
RunJournal(r) ==
    /\ pc[r] = "journal"
    /\ pc' = [pc EXCEPT ![r] = "done"]
    /\ \/ /\ journal[r] = "pending"
          /\ journal' = [journal EXCEPT ![r] =
                           IF status[r[1]] = "completed" THEN "committed" ELSE "aborted"]
       \/ /\ journal[r] = "pending" /\ r[1] \in LogFails
          /\ journal' = [journal EXCEPT ![r] = "stuck"]
       \/ /\ journal[r] = "none"
          /\ UNCHANGED journal
    /\ UNCHANGED <<call, status, assigned, gen, cancels, killed, on, okay,
                   inFlight, nodeLoad, online, mu, evicting, todo>>

\* Fault: an early return forgets DecrementInFlight.
RunReleaseForgets(r) ==
    /\ pc[r] = "release"
    /\ pc' = [pc EXCEPT ![r] = "done"]
    /\ UNCHANGED <<call, status, assigned, gen, cancels, killed, on, okay, journal,
                   inFlight, nodeLoad, online, mu, evicting, todo>>

\* DecrementInFlight on the two early returns.
RunRelease(r) ==
    /\ pc[r] = "release"
    /\ pc' = [pc EXCEPT ![r] = "done"]
    /\ inFlight' = inFlight - 1
    /\ UNCHANGED <<call, status, assigned, gen, cancels, killed, on, okay, journal,
                   nodeLoad, online, mu, evicting, todo>>

-----------------------------------------------------------------------------
(* Cancel and Shutdown *)

\* The runs whose contexts the entries of the tasks in T cancel.
Owned(T) == {<<t, cancels[t]>> : t \in {u \in T : cancels[u] # 0}}

\* Fault: the entry stays in s.cancels after its context is cancelled.
CancelKeepsEntry(t) ==
    /\ mu = Free
    /\ status[t] \in Active
    /\ status' = [status EXCEPT ![t] = "cancelled"]
    /\ killed' = killed \cup Owned({t})
    /\ UNCHANGED <<call, assigned, gen, cancels, pc, on, okay, journal,
                   inFlight, nodeLoad, online, mu, evicting, todo>>

Cancel(t) ==
    /\ mu = Free
    /\ status[t] \in Active
    /\ status' = [status EXCEPT ![t] = "cancelled"]
    /\ killed' = killed \cup Owned({t})
    /\ cancels' = [cancels EXCEPT ![t] = 0]
    /\ UNCHANGED <<call, assigned, gen, pc, on, okay, journal,
                   inFlight, nodeLoad, online, mu, evicting, todo>>

\* Contexts first, then the status of every active task, in one section.
Shutdown ==
    /\ mu = Free
    /\ \E t \in Task : status[t] \in Active
    /\ killed' = killed \cup Owned(Task)
    /\ cancels' = [t \in Task |-> 0]
    /\ status' = [t \in Task |-> IF status[t] \in Active THEN "cancelled" ELSE status[t]]
    /\ UNCHANGED <<call, assigned, gen, pc, on, okay, journal,
                   inFlight, nodeLoad, online, mu, evicting, todo>>

-----------------------------------------------------------------------------
(* HandleNodeEvicted *)

\* The cluster manager has marked n offline and calls the scheduler.  The bound
\* leaves every task a run to be re-queued with.
Evict(n) ==
    /\ n \in online \cap Evictable
    /\ \A t \in Task : gen[t] < MaxRuns
    /\ evicting = NoNode
    /\ online' = online \ {n}
    /\ evicting' = n
    /\ UNCHANGED <<call, status, assigned, gen, cancels, pc, killed, on, okay, journal,
                   inFlight, nodeLoad, mu, todo>>

Victims(n) == {t \in Task : assigned[t] = n /\ status[t] \in Active}

EvictLock(n) ==
    /\ evicting = n
    /\ mu = Free
    /\ mu' = n
    /\ todo' = Victims(n)
    /\ UNCHANGED <<call, status, assigned, gen, cancels, pc, killed, on, okay, journal,
                   inFlight, nodeLoad, online, evicting>>

\* One victim: cancel the old context, back to pending, a new node, a new context.
EvictRequeue(n, t) ==
    /\ mu = n
    /\ t \in todo
    /\ SelectNodeReturns
    /\ killed' = killed \cup Owned({t})
    /\ status' = [status EXCEPT ![t] = "pending"]
    /\ \E m \in Candidates(t) : assigned' = [assigned EXCEPT ![t] = m]
    /\ MakeRun(t, "requeued")
    /\ todo' = todo \ {t}
    /\ UNCHANGED <<call, on, okay, journal, inFlight, nodeLoad, online, mu, evicting>>

\* The restarts are launched only after the lock is released.
EvictUnlock(n) ==
    /\ mu = n
    /\ todo = {}
    /\ mu' = Free
    /\ evicting' = NoNode
    /\ pc' = [r \in Run |-> IF pc[r] = "requeued" THEN "made" ELSE pc[r]]
    /\ UNCHANGED <<call, status, assigned, gen, cancels, killed, on, okay, journal,
                   inFlight, nodeLoad, online, todo>>

\* A heartbeat puts an offline node back online.
NodeUp(n) ==
    /\ n \in Node \ online
    /\ evicting = NoNode
    /\ online' = online \cup {n}
    /\ UNCHANGED <<call, status, assigned, gen, cancels, pc, killed, on, okay, journal,
                   inFlight, nodeLoad, mu, evicting, todo>>

-----------------------------------------------------------------------------
Submit(t) == SubmitAdmit(t) \/ SubmitLock(t) \/ SubmitCreate(t)

RunStep(r) ==
    \/ Launch(r)    \/ RunStart(r)    \/ RunReject(r)   \/ RunMark(r)
    \/ RunAppend(r) \/ RunCount(r)    \/ RunExecuted(r) \/ RunFinalize(r)
    \/ RunJournal(r) \/ RunRelease(r)

Eviction(n) == EvictLock(n) \/ EvictUnlock(n) \/ \E t \in Task : EvictRequeue(n, t)

Next ==
    \/ \E t \in Task : Submit(t) \/ Cancel(t)
    \/ \E r \in Run : RunStep(r)
    \/ \E n \in Node : Evict(n) \/ Eviction(n) \/ NodeUp(n)
    \/ Shutdown

Spec == Init /\ [][Next]_vars

\* The Go runtime runs every goroutine that can run, and a sync.RWMutex does
\* not starve a waiter (strong fairness of the steps that wait for s.mu).  An
\* execution on this node is killed at its timeout; nothing bounds the answer
\* of a remote node, so a remote execution gets no fairness.
OnThisNode(r) == on[r] \in {Self, Local}

Fairness ==
    /\ \A t \in Task : SF_vars(Submit(t))
    /\ \A n \in Node : SF_vars(Eviction(n))
    /\ \A r \in Run :
         /\ SF_vars(RunStart(r) \/ RunReject(r) \/ RunMark(r) \/ RunFinalize(r))
         /\ WF_vars(Launch(r) \/ RunAppend(r) \/ RunCount(r) \/ RunJournal(r) \/ RunRelease(r))
         /\ WF_vars(OnThisNode(r) /\ RunExecuted(r))

FairSpec == Spec /\ Fairness

-----------------------------------------------------------------------------
(* Properties *)

\* Every variable stays in its type (the counters never go below zero).
TypeOK ==
    /\ call \in [Task -> {"idle", "admitted", "rejected", "locked", "created"}]
    /\ status \in [Task -> {"none"} \cup Active \cup Settled]
    /\ assigned \in [Task -> NodeName \cup {NoNode}]
    /\ gen \in [Task -> 0..MaxRuns]
    /\ cancels \in [Task -> 0..MaxRuns]
    /\ pc \in [Run -> Live \cup {"unborn", "release", "finalize", "journal", "done"}]
    /\ killed \subseteq Run
    /\ on \in [Run -> NodeName \cup {NoNode}]
    /\ okay \subseteq Run
    /\ journal \in [Run -> {"none", "pending", "committed", "aborted", "stuck"}]
    /\ inFlight \in Nat
    /\ nodeLoad \in [NodeName -> Nat]
    /\ online \subseteq Node
    /\ mu \in {Free} \cup Task \cup Node
    /\ evicting \in Node \cup {NoNode}
    /\ todo \subseteq Task

\* The cluster-wide counter equals the number of launched runs that have not
\* given their unit back, whichever of the five paths through runLocally each
\* one takes and however often its task is re-queued or cancelled.
AdmissionBalanced == inFlight = Cardinality({r \in Run : pc[r] \in Admitted})

\* The entry of s.cancels is never a leftover: it cancels the task's newest
\* run, that run has not written its final status, and its context is still
\* open, so a Cancel that finds an entry never hits a dead context.
CancelReachesNewestRun ==
    \A t \in Task : cancels[t] # 0 =>
        /\ cancels[t] = gen[t]
        /\ pc[<<t, gen[t]>>] \in Live \cup {"finalize"}
        /\ <<t, gen[t]>> \notin killed

\* Until the first eviction every per-node counter is exact: it counts the runs
\* executing on that node.  (An eviction breaks this: the evicted run gives back
\* the unit of the node its task was moved to, and its own is never returned.)
NodeLoadExactUntilEvicted ==
    (\A t \in Task : gen[t] <= 1) =>
        \A n \in NodeName :
            nodeLoad[n] = Cardinality({r \in Run : pc[r] = "exec" /\ on[r] = n})

\* An entry is committed only for a task one of whose runs succeeded, although
\* the status is read after s.mu is released and shared by all the runs.
CommittedWasExecuted ==
    \A r \in Run : journal[r] = "committed" =>
        \E k \in 1..MaxRuns : <<r[1], k>> \in okay

\* "If the task was already cancelled while running, keep the cancelled status":
\* only a run that passed the cancellation guard and is about to mark its task
\* running (or to reject its command) can take a task out of cancelled.
CancelledWhileRunningStays ==
    [][\A t \in Task :
         status[t] = "cancelled" /\ (\A k \in 1..MaxRuns : pc[<<t, k>>] # "validate")
           => status'[t] = "cancelled"]_vars

RemoteExecution(t) == \E k \in 1..MaxRuns :
    pc[<<t, k>>] = "exec" /\ ~OnThisNode(<<t, k>>)

\* A task that is pending or running settles, through any cancellation and
\* eviction, unless an execution of it waits for another node's answer.
TaskSettles ==
    \A t \in Task : status[t] \in Active ~> (status[t] \in Settled \/ RemoteExecution(t))

\* "Submit enqueues a new task and dispatches it immediately": an admitted
\* Submit call gets to dispatch the task.
SubmitReturns == \A t \in Task : call[t] = "admitted" ~> call[t] = "created"

=============================================================================
