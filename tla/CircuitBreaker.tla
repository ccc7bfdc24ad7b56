--------------------------- MODULE CircuitBreaker ---------------------------
(***************************************************************************)
(* The per-node circuit breakers (internal/scheduler/circuit_breaker.go),  *)
(* driven as the scheduler drives them: selectNode asks Allow of every     *)
(* online node, one breaker lock at a time, and sends the task to one of   *)
(* the nodes allowed (or, when there is none, to any online node); the end *)
(* of the task, and the eviction of a node, record the outcome.  Several   *)
(* tasks are under way at once, so an answer of Allow may be out of date   *)
(* when the node is chosen, and an outcome may come after the breaker has  *)
(* changed state.                                                          *)
(***************************************************************************)
EXTENDS Naturals, FiniteSets

CONSTANTS
    Node,              \* the online nodes
    Slot,              \* bound: the tasks under way at the same time
    FailureThreshold, SuccessThreshold,   \* BreakerConfig
    OpenDuration, MaxOpenDuration         \* BreakerConfig, in clock ticks

ASSUME BreakerAssumption ==
    /\ FailureThreshold \in Nat \ {0}
    /\ SuccessThreshold \in Nat \ {0}
    /\ OpenDuration \in Nat \ {0}
    /\ MaxOpenDuration \in Nat
    /\ OpenDuration <= MaxOpenDuration

VARIABLES
    state,      \* NodeBreaker.state
    fails,      \* consecutiveFails, up to FailureThreshold (only ">=" is asked of it)
    succs,      \* consecutiveSuccs, up to SuccessThreshold (likewise)
    openFor,    \* time.Since(openedAt), up to the current cooldown
    cooldown,   \* openDuration, which grows with the exponential backoff
    slot        \* the tasks: where each is, and what its selectNode found

vars == <<state, fails, succs, openFor, cooldown, slot>>

Idle == [at |-> "idle", ask |-> {}, allowed |-> {}]

Init ==
    /\ state = [n \in Node |-> "closed"]
    /\ fails = [n \in Node |-> 0]
    /\ succs = [n \in Node |-> 0]
    /\ openFor = [n \in Node |-> 0]
    /\ cooldown = [n \in Node |-> OpenDuration]
    /\ slot = [s \in Slot |-> Idle]

Lesser(a, b) == IF a < b THEN a ELSE b

-----------------------------------------------------------------------------
(* NodeBreaker *)

CooledDown(n) == openFor[n] >= cooldown[n]

Allowed(n) ==
    \/ state[n] = "closed"
    \/ state[n] = "open" /\ CooledDown(n)
    \/ state[n] = "half" /\ succs[n] = 0

\* Asking is not read-only: it takes a breaker whose cooldown is over to half-open.
Allow(n) ==
    /\ IF state[n] = "open" /\ CooledDown(n)
       THEN /\ state' = [state EXCEPT ![n] = "half"]
            /\ succs' = [succs EXCEPT ![n] = 0]
       ELSE UNCHANGED <<state, succs>>
    /\ UNCHANGED <<fails, openFor, cooldown>>

MoreSuccs(n) == Lesser(succs[n] + 1, SuccessThreshold)

\* Fault: any success closes the breaker, whatever state it is in.
RecordSuccessAnyState(n) ==
    /\ fails' = [fails EXCEPT ![n] = 0]
    /\ succs' = [succs EXCEPT ![n] = MoreSuccs(n)]
    /\ IF MoreSuccs(n) >= SuccessThreshold
       THEN /\ state' = [state EXCEPT ![n] = "closed"]
            /\ cooldown' = [cooldown EXCEPT ![n] = OpenDuration]
       ELSE UNCHANGED <<state, cooldown>>
    /\ UNCHANGED openFor

\* Fault: closing leaves the backoff where it was.
RecordSuccessKeepsBackoff(n) ==
    /\ fails' = [fails EXCEPT ![n] = 0]
    /\ succs' = [succs EXCEPT ![n] = MoreSuccs(n)]
    /\ IF state[n] = "half" /\ MoreSuccs(n) >= SuccessThreshold
       THEN state' = [state EXCEPT ![n] = "closed"]
       ELSE UNCHANGED state
    /\ UNCHANGED <<cooldown, openFor>>

RecordSuccess(n) ==
    /\ fails' = [fails EXCEPT ![n] = 0]
    /\ succs' = [succs EXCEPT ![n] = MoreSuccs(n)]
    /\ IF state[n] = "half" /\ MoreSuccs(n) >= SuccessThreshold
       THEN /\ state' = [state EXCEPT ![n] = "closed"]
            /\ cooldown' = [cooldown EXCEPT ![n] = OpenDuration]
       ELSE UNCHANGED <<state, cooldown>>
    /\ UNCHANGED openFor

MoreFails(n) == Lesser(fails[n] + 1, FailureThreshold)

\* Fault: the doubling has no ceiling.
RecordFailureUncapped(n) ==
    /\ succs' = [succs EXCEPT ![n] = 0]
    /\ IF state[n] = "half" \/ (state[n] = "closed" /\ MoreFails(n) >= FailureThreshold)
       THEN /\ state' = [state EXCEPT ![n] = "open"]
            /\ openFor' = [openFor EXCEPT ![n] = 0]
       ELSE UNCHANGED <<state, openFor>>
    /\ cooldown' = [cooldown EXCEPT ![n] = IF state[n] = "half" THEN @ * 2 ELSE @]
    /\ fails' = [fails EXCEPT ![n] = IF state[n] = "half" THEN 0 ELSE MoreFails(n)]

\* Fault: a failure while the breaker is open starts the cooldown again.
RecordFailureRestartsCooldown(n) ==
    /\ succs' = [succs EXCEPT ![n] = 0]
    /\ IF state[n] # "closed" \/ MoreFails(n) >= FailureThreshold
       THEN /\ state' = [state EXCEPT ![n] = "open"]
            /\ openFor' = [openFor EXCEPT ![n] = 0]
       ELSE UNCHANGED <<state, openFor>>
    /\ cooldown' = [cooldown EXCEPT ![n] =
                      IF state[n] = "half" THEN Lesser(@ * 2, MaxOpenDuration) ELSE @]
    /\ fails' = [fails EXCEPT ![n] = IF state[n] = "half" THEN 0 ELSE MoreFails(n)]

\* A failed probe re-opens the breaker and doubles the cooldown; a failure in the
\* open state is only counted.
RecordFailure(n) ==
    /\ succs' = [succs EXCEPT ![n] = 0]
    /\ IF state[n] = "half" \/ (state[n] = "closed" /\ MoreFails(n) >= FailureThreshold)
       THEN /\ state' = [state EXCEPT ![n] = "open"]
            /\ openFor' = [openFor EXCEPT ![n] = 0]
       ELSE UNCHANGED <<state, openFor>>
    /\ cooldown' = [cooldown EXCEPT ![n] =
                      IF state[n] = "half" THEN Lesser(@ * 2, MaxOpenDuration) ELSE @]
    /\ fails' = [fails EXCEPT ![n] = IF state[n] = "half" THEN 0 ELSE MoreFails(n)]

breakers == <<state, fails, succs, openFor, cooldown>>

-----------------------------------------------------------------------------
(* The scheduler around them *)

\* selectNode begins: every online node is to be asked.
SelectBegin(s) ==
    /\ slot[s].at = "idle"
    /\ slot' = [slot EXCEPT ![s] = [at |-> "select", ask |-> Node, allowed |-> {}]]
    /\ UNCHANGED breakers

SelectAsk(s, n) ==
    /\ slot[s].at = "select"
    /\ n \in slot[s].ask
    /\ Allow(n)
    /\ slot' = [slot EXCEPT ![s] =
                  [at |-> "select", ask |-> @.ask \ {n},
                   allowed |-> IF Allowed(n) THEN @.allowed \cup {n} ELSE @.allowed]]

\* The scorer picks among the allowed nodes, pickNodeFallback among all.
SelectPick(s, n) ==
    /\ slot[s].at = "select"
    /\ slot[s].ask = {}
    /\ n \in IF slot[s].allowed = {} THEN Node ELSE slot[s].allowed
    /\ slot' = [slot EXCEPT ![s] = [at |-> n, ask |-> {}, allowed |-> {}]]
    /\ UNCHANGED breakers

\* OutcomeRecorder.Record at the end of the task.
Succeed(s, n) ==
    /\ slot[s].at = n
    /\ RecordSuccess(n)
    /\ slot' = [slot EXCEPT ![s] = Idle]

\* A task that failed, and just as well one its user cancelled.
Fail(s, n) ==
    /\ slot[s].at = n
    /\ RecordFailure(n)
    /\ slot' = [slot EXCEPT ![s] = Idle]

\* HandleNodeEvicted, which counts a failure before anything else.  The node is
\* back online when it is next asked.
NodeEvicted(n) == RecordFailure(n) /\ UNCHANGED slot

\* Time passes for the breakers that are open.
Tick ==
    /\ \E n \in Node : state[n] = "open" /\ ~CooledDown(n)
    /\ openFor' = [n \in Node |->
                     IF state[n] = "open" THEN Lesser(openFor[n] + 1, cooldown[n])
                                          ELSE openFor[n]]
    /\ UNCHANGED <<state, fails, succs, cooldown, slot>>

SelectStep(s) == SelectBegin(s) \/ \E n \in Node : SelectAsk(s, n) \/ SelectPick(s, n)
End(s) == \E n \in Node : Succeed(s, n) \/ Fail(s, n)

Next ==
    \/ \E s \in Slot : SelectStep(s) \/ End(s)
    \/ \E n \in Node : NodeEvicted(n)
    \/ Tick

Spec == Init /\ [][Next]_vars

\* The clock runs, a started selectNode finishes, and tasks keep being submitted
\* (a breaker is only ever asked by a submission).
Fairness ==
    /\ WF_vars(Tick)
    /\ \A s \in Slot : WF_vars(SelectStep(s)) /\ WF_vars(End(s))

FairSpec == Spec /\ Fairness

\* Besides, every node the breakers keep allowing is picked again and again.
ProbingSpec == FairSpec /\ \A s \in Slot, n \in Node : SF_vars(SelectPick(s, n))

-----------------------------------------------------------------------------
(* Properties *)

\* Every variable stays in its type; the cooldown stays between its first value
\* and its ceiling however often probes fail.
TypeOK ==
    /\ state \in [Node -> {"closed", "open", "half"}]
    /\ fails \in [Node -> 0..FailureThreshold]
    /\ succs \in [Node -> 0..SuccessThreshold]
    /\ openFor \in [Node -> 0..MaxOpenDuration]
    /\ cooldown \in [Node -> OpenDuration..MaxOpenDuration]
    /\ slot \in [Slot -> [at : {"idle", "select"} \cup Node,
                          ask : SUBSET Node, allowed : SUBSET Node]]

\* "Recovery confirmed - close the breaker and reset exponential backoff": a
\* closed breaker is below its failure threshold and has its first cooldown
\* again, in whatever order the outcomes of concurrent tasks were recorded.
ClosedIsClean ==
    \A n \in Node : state[n] = "closed" =>
        fails[n] < FailureThreshold /\ cooldown[n] = OpenDuration

\* An open breaker is left only for half-open and only when its cooldown is over:
\* no outcome that arrives late, of a task sent before it opened, closes it.
OpenWaitsForCooldown ==
    [][\A n \in Node : state[n] = "open" /\ state'[n] # "open" =>
         state'[n] = "half" /\ CooledDown(n)]_vars

\* A node is not blocked for ever: its open breaker is probed again, however many
\* failures are still recorded while it is open.
OpenIsProbedAgain == \A n \in Node : state[n] = "open" ~> state[n] = "half"

\* "Closes after 2 consecutive successes from Half-Open": half-open is left, one
\* way or the other, when tasks are sent wherever the breakers allow and end.
HalfOpenResolves == \A n \in Node : state[n] = "half" ~> state[n] # "half"

=============================================================================
