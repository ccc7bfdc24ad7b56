---------------------------- MODULE ServiceProofs ----------------------------
(***************************************************************************)
(* Proofs, for any chats, workers, agents, joiners and tokens, about the   *)
(* parts of a node that serve others: every variable keeps its type, a     *)
(* closed breaker is as good as new and an open one waits for its          *)
(* cooldown, a running agent can be stopped, a token admits one node over  *)
(* the stream, and the answer that a chat ends with is whole.              *)
(***************************************************************************)
EXTENDS MCService, SequenceTheorems, FiniteSetTheorems, TLAPS

-----------------------------------------------------------------------------
(* Circuit breakers *)

\* The inductive invariant.
IInv == TypeOK /\ ClosedIsClean

\* Initially every breaker is closed.
LEMMA InitIInv == Init => IInv
BY BreakerAssumption DEF Init, IInv, TypeOK, ClosedIsClean, Idle

\* Allow leaves a breaker closed or opens the way for a probe.
LEMMA AllowKeeps ==
    ASSUME IInv, NEW n \in Node, Allow(n)
    PROVE  /\ state' \in [Node -> {"closed", "open", "half"}]
           /\ fails' \in [Node -> 0..FailureThreshold]
           /\ succs' \in [Node -> 0..SuccessThreshold]
           /\ openFor' \in [Node -> 0..MaxOpenDuration]
           /\ cooldown' \in [Node -> OpenDuration..MaxOpenDuration]
           /\ ClosedIsClean'
BY BreakerAssumption DEF IInv, TypeOK, ClosedIsClean, Allow

\* A success closes a breaker only with the backoff reset.
LEMMA SuccessKeeps ==
    ASSUME IInv, NEW n \in Node, RecordSuccess(n)
    PROVE  /\ state' \in [Node -> {"closed", "open", "half"}]
           /\ fails' \in [Node -> 0..FailureThreshold]
           /\ succs' \in [Node -> 0..SuccessThreshold]
           /\ openFor' \in [Node -> 0..MaxOpenDuration]
           /\ cooldown' \in [Node -> OpenDuration..MaxOpenDuration]
           /\ ClosedIsClean'
<1>1. MoreSuccs(n) \in 0 .. SuccessThreshold
  BY BreakerAssumption DEF IInv, TypeOK, MoreSuccs, Lesser
<1>2. /\ state' \in [Node -> {"closed", "open", "half"}]
      /\ fails' \in [Node -> 0..FailureThreshold]
      /\ succs' \in [Node -> 0..SuccessThreshold]
      /\ openFor' \in [Node -> 0..MaxOpenDuration]
      /\ cooldown' \in [Node -> OpenDuration..MaxOpenDuration]
  <2>1. CASE state[n] = "half" /\ MoreSuccs(n) >= SuccessThreshold
    BY <1>1, <2>1, BreakerAssumption DEF IInv, TypeOK, RecordSuccess
  <2>2. CASE ~(state[n] = "half" /\ MoreSuccs(n) >= SuccessThreshold)
    BY <1>1, <2>2, BreakerAssumption DEF IInv, TypeOK, RecordSuccess
  <2> QED BY <2>1, <2>2
<1>3. ClosedIsClean'
  BY BreakerAssumption DEF IInv, TypeOK, ClosedIsClean, RecordSuccess
<1> QED BY <1>2, <1>3

\* A failure opens a closed breaker that reaches the threshold, and no other closes.
LEMMA FailureKeeps ==
    ASSUME IInv, NEW n \in Node, RecordFailure(n)
    PROVE  /\ state' \in [Node -> {"closed", "open", "half"}]
           /\ fails' \in [Node -> 0..FailureThreshold]
           /\ succs' \in [Node -> 0..SuccessThreshold]
           /\ openFor' \in [Node -> 0..MaxOpenDuration]
           /\ cooldown' \in [Node -> OpenDuration..MaxOpenDuration]
           /\ ClosedIsClean'
<1>1. MoreFails(n) \in 0 .. FailureThreshold
  BY BreakerAssumption DEF IInv, TypeOK, MoreFails, Lesser
<1>2. Lesser(cooldown[n] * 2, MaxOpenDuration) \in OpenDuration .. MaxOpenDuration
  BY BreakerAssumption DEF IInv, TypeOK, Lesser
<1>3. /\ state' \in [Node -> {"closed", "open", "half"}]
      /\ fails' \in [Node -> 0..FailureThreshold]
      /\ succs' \in [Node -> 0..SuccessThreshold]
      /\ openFor' \in [Node -> 0..MaxOpenDuration]
      /\ cooldown' \in [Node -> OpenDuration..MaxOpenDuration]
  <2>1. succs' \in [Node -> 0..SuccessThreshold] /\ fails' \in [Node -> 0..FailureThreshold]
    BY <1>1, BreakerAssumption DEF IInv, TypeOK, RecordFailure
  <2>2. cooldown' \in [Node -> OpenDuration..MaxOpenDuration]
    BY <1>2 DEF IInv, TypeOK, RecordFailure
  <2>3. /\ state' \in [Node -> {"closed", "open", "half"}]
        /\ openFor' \in [Node -> 0..MaxOpenDuration]
    BY BreakerAssumption DEF IInv, TypeOK, RecordFailure
  <2> QED BY <2>1, <2>2, <2>3
<1>4. ASSUME NEW m \in Node, state'[m] = "closed"
      PROVE  fails'[m] < FailureThreshold /\ cooldown'[m] = OpenDuration
  <2>1. state[m] = "closed" /\ (m = n => MoreFails(n) < FailureThreshold)
    BY <1>1, <1>4, BreakerAssumption DEF IInv, TypeOK, RecordFailure
  <2>2. fails[m] < FailureThreshold /\ cooldown[m] = OpenDuration
    BY <2>1 DEF IInv, ClosedIsClean
  <2>3. /\ fails'[m] = IF m = n THEN MoreFails(n) ELSE fails[m]
        /\ cooldown'[m] = cooldown[m]
    BY <2>1 DEF IInv, TypeOK, RecordFailure
  <2> QED BY <2>1, <2>2, <2>3
<1> QED BY <1>3, <1>4 DEF ClosedIsClean

\* Every step keeps the invariant.
LEMMA NextIInv == IInv /\ [Next]_vars => IInv'
<1> SUFFICES ASSUME IInv, [Next]_vars PROVE IInv'
  OBVIOUS
<1>1. ASSUME NEW s \in Slot, SelectBegin(s) PROVE IInv'
  <2>1. slot' \in [Slot -> [at : {"idle", "select"} \cup Node,
                            ask : SUBSET Node, allowed : SUBSET Node]]
    BY <1>1 DEF IInv, TypeOK, SelectBegin
  <2> QED BY <1>1, <2>1 DEF IInv, TypeOK, ClosedIsClean, SelectBegin, breakers
<1>2. ASSUME NEW s \in Slot, NEW n \in Node, SelectAsk(s, n) PROVE IInv'
  <2>1. slot' \in [Slot -> [at : {"idle", "select"} \cup Node,
                            ask : SUBSET Node, allowed : SUBSET Node]]
    BY <1>2 DEF IInv, TypeOK, SelectAsk
  <2> QED BY <1>2, <2>1, AllowKeeps DEF IInv, TypeOK, SelectAsk
<1>3. ASSUME NEW s \in Slot, NEW n \in Node, SelectPick(s, n) PROVE IInv'
  <2>1. slot' \in [Slot -> [at : {"idle", "select"} \cup Node,
                            ask : SUBSET Node, allowed : SUBSET Node]]
    BY <1>3 DEF IInv, TypeOK, SelectPick
  <2> QED BY <1>3, <2>1 DEF IInv, TypeOK, ClosedIsClean, SelectPick, breakers
<1>4. ASSUME NEW s \in Slot, NEW n \in Node, Succeed(s, n) PROVE IInv'
  <2>1. slot' \in [Slot -> [at : {"idle", "select"} \cup Node,
                            ask : SUBSET Node, allowed : SUBSET Node]]
    BY <1>4 DEF IInv, TypeOK, Succeed, Idle
  <2> QED BY <1>4, <2>1, SuccessKeeps DEF IInv, TypeOK, Succeed
<1>5. ASSUME NEW s \in Slot, NEW n \in Node, Fail(s, n) PROVE IInv'
  <2>1. slot' \in [Slot -> [at : {"idle", "select"} \cup Node,
                            ask : SUBSET Node, allowed : SUBSET Node]]
    BY <1>5 DEF IInv, TypeOK, Fail, Idle
  <2> QED BY <1>5, <2>1, FailureKeeps DEF IInv, TypeOK, Fail
<1>6. ASSUME NEW n \in Node, NodeEvicted(n) PROVE IInv'
  BY <1>6, FailureKeeps DEF IInv, TypeOK, NodeEvicted
<1>7. ASSUME Tick PROVE IInv'
  <2>1. ASSUME NEW n \in Node
        PROVE  Lesser(openFor[n] + 1, cooldown[n]) \in 0 .. MaxOpenDuration
    BY BreakerAssumption DEF IInv, TypeOK, Lesser
  <2> QED BY <1>7, <2>1 DEF IInv, TypeOK, ClosedIsClean, Tick
<1>8. CASE UNCHANGED vars
  BY <1>8 DEF IInv, TypeOK, ClosedIsClean, vars
<1> QED
  BY <1>1, <1>2, <1>3, <1>4, <1>5, <1>6, <1>7, <1>8 DEF Next, SelectStep, End

\* So it holds always.
LEMMA Invariance == Spec => []IInv
BY InitIInv, NextIInv, PTL DEF Spec

\* Every variable stays in its type; the cooldown never passes its ceiling.
THEOREM BreakerTypeCorrect == Spec => []TypeOK
<1>1. IInv => TypeOK
  BY DEF IInv
<1> QED BY <1>1, Invariance, PTL

\* A closed breaker is below its threshold and has its first cooldown again
\* (circuit_breaker.go:130 and 166).
THEOREM ClosedAlwaysClean == Spec => []ClosedIsClean
<1>1. IInv => ClosedIsClean
  BY DEF IInv
<1> QED BY <1>1, Invariance, PTL

\* No outcome that arrives late closes an open breaker or cuts its cooldown short
\* (circuit_breaker.go:105).
THEOREM OpenAlwaysWaits == Spec => OpenWaitsForCooldown
<1>1. ASSUME IInv, [Next]_vars, NEW n \in Node, state[n] = "open", state'[n] # "open"
      PROVE  state'[n] = "half" /\ CooledDown(n)
  <2>1. ASSUME NEW m \in Node, Allow(m) PROVE state'[n] = "half" /\ CooledDown(n)
    BY <1>1, <2>1 DEF IInv, TypeOK, Allow
  <2>2. ASSUME NEW m \in Node, RecordSuccess(m) PROVE FALSE
    BY <1>1, <2>2 DEF IInv, TypeOK, RecordSuccess
  <2>3. ASSUME NEW m \in Node, RecordFailure(m) PROVE FALSE
    BY <1>1, <2>3 DEF IInv, TypeOK, RecordFailure
  <2>4. \/ \E m \in Node : Allow(m) \/ RecordSuccess(m) \/ RecordFailure(m)
        \/ UNCHANGED state
    BY <1>1 DEF Next, SelectStep, End, SelectBegin, SelectAsk, SelectPick, Succeed, Fail,
                NodeEvicted, Tick, breakers, vars
  <2> QED BY <1>1, <2>1, <2>2, <2>3, <2>4
<1>2. IInv /\ [Next]_vars =>
        [\A n \in Node : state[n] = "open" /\ state'[n] # "open" =>
             state'[n] = "half" /\ CooledDown(n)]_vars
  BY <1>1
<1> QED BY <1>2, Invariance, PTL DEF Spec, OpenWaitsForCooldown

-----------------------------------------------------------------------------
(* Agents *)

Agent == Root \cup Sub
LoopType == [pc : {"none", "emit", "check", "think", "tool", "wait", "result", "exit", "over"},
             next : {"none", "check", "think", "tool", "exit"}, step : 0 .. MaxSteps]
LoopTyped == aLoop \in [Agent -> LoopType]

\* The loop of an agent goes somewhere.
LEMMA GoTyped ==
    ASSUME LoopTyped, NEW x \in Agent,
           NEW pc \in {"none", "emit", "check", "think", "tool", "wait", "result", "exit", "over"}, Swarm!Go(x, pc)
    PROVE  /\ LoopTyped'
           /\ aLoop'[x].pc = pc
           /\ aLoop'[x].next = aLoop[x].next
           /\ \A y \in Agent \ {x} : aLoop'[y] = aLoop[y]
BY DEF LoopTyped, LoopType, Swarm!Go

\* What an agent does next is announced first, when it has a parent.
LEMMA EmitThenTyped ==
    ASSUME LoopTyped, NEW x \in Agent, NEW pc \in {"check", "think", "tool", "exit"},
           Swarm!EmitThen(x, pc)
    PROVE  /\ LoopTyped'
           /\ aLoop'[x].pc \in {pc, "emit"}
           /\ aLoop'[x].pc = "emit" => aLoop'[x].next = pc
           /\ \A y \in Agent \ {x} : aLoop'[y] = aLoop[y]
BY DEF LoopTyped, LoopType, Swarm!Go, Swarm!EmitThen

StatusTyped == aStatus \in [Agent -> {"none", "pending", "running"} \cup Swarm!Terminal]

\* Where an announcement of an agent leads.
Destined == \A x \in Agent : aLoop[x].pc = "emit" =>
                /\ aLoop[x].next # "none"
                /\ aLoop[x].next = "exit" => aStatus[x] # "running"

Control == StatusTyped /\ LoopTyped /\ Destined /\ Swarm!RunningCanBeStopped

\* Initially no agent has a loop.
LEMMA ControlInit == Swarm!Init => Control
BY ServiceAssumption DEF Swarm!Init, Control, StatusTyped, LoopTyped, LoopType, Destined, Agent,
    Swarm!Agent, Swarm!RunningCanBeStopped

\* Its loop ends an agent with a status.
LEMMA EndsKeep ==
    ASSUME Control, NEW x \in Agent, NEW s \in Swarm!Terminal, Swarm!Set(x, s),
           Swarm!EmitThen(x, "exit"), UNCHANGED aCancels
    PROVE  Control'
<1>1. LoopTyped'
  BY EmitThenTyped DEF Control
<1>2. aStatus' = [aStatus EXCEPT ![x] = s] /\ s # "running"
  BY DEF Swarm!Set, Swarm!Terminal
<1> QED
  BY <1>1, <1>2, EmitThenTyped
  DEF Control, StatusTyped, Destined, Agent, Swarm!Agent, Swarm!RunningCanBeStopped

\* An agent that is started is announced, and its loop begins.
LEMMA StartedKeeps == ASSUME Control, NEW x \in Agent, Swarm!Started(x) PROVE Control'
<1>1. /\ aStatus' = [aStatus EXCEPT ![x] = "running"] /\ aCancels' = aCancels \cup {x}
      /\ Swarm!EmitThen(x, "check")
  BY DEF Swarm!Started, Swarm!Set
<1> QED
  BY <1>1, EmitThenTyped
  DEF Control, StatusTyped, Destined, Agent, Swarm!Agent, Swarm!RunningCanBeStopped

\* The loop goes on without an announcement, or after one, while status and cancel function stay.
LEMMA GoesOnKeeps ==
    ASSUME Control, NEW x \in Agent, NEW pc \in {"check", "think", "tool", "wait", "result"},
           \/ Swarm!Go(x, pc)
           \/ pc \in {"check", "tool"} /\ Swarm!EmitThen(x, pc),
           UNCHANGED <<aStatus, aCancels>>
    PROVE  Control'
<1>1. CASE Swarm!Go(x, pc)
  BY <1>1, GoTyped
  DEF Control, StatusTyped, Destined, Agent, Swarm!Agent, Swarm!RunningCanBeStopped
<1>2. CASE pc \in {"check", "tool"} /\ Swarm!EmitThen(x, pc)
  BY <1>2, EmitThenTyped
  DEF Control, StatusTyped, Destined, Agent, Swarm!Agent, Swarm!RunningCanBeStopped
<1> QED BY <1>1, <1>2

\* The announcement leads where the loop was bound for.
LEMMA EmitControls == ASSUME Control, NEW x \in Agent, Swarm!Emit(x) PROVE Control'
<1>1. /\ aLoop[x].pc = "emit" /\ Swarm!Go(x, aLoop[x].next) /\ UNCHANGED <<aStatus, aCancels>>
      /\ aLoop[x].next \in {"none", "check", "think", "tool", "exit"}
  BY DEF Swarm!Emit, Swarm!At, Control, LoopTyped, LoopType
<1> QED
  BY <1>1, GoTyped
  DEF Control, StatusTyped, Destined, Agent, Swarm!Agent, Swarm!RunningCanBeStopped

\* A cancelled agent does not run.
LEMMA CancelKeeps ==
    ASSUME Control, NEW x \in Agent, NEW by \in {"user", "monitor"}, Swarm!CancelAgent(x, by),
           UNCHANGED aLoop
    PROVE  Control'
BY DEF Swarm!CancelAgent, Control, StatusTyped, LoopTyped, Destined, Agent, Swarm!Agent,
       Swarm!Terminal, Swarm!RunningCanBeStopped

\* The shutdown of a node cancels every agent of it that has not ended.
LEMMA ShutdownKeeps == ASSUME Control, Swarm!Shutdown PROVE Control'
BY DEF Swarm!Shutdown, Control, StatusTyped, LoopTyped, Destined, Agent, Swarm!Agent,
       Swarm!Terminal, Swarm!RunningCanBeStopped

\* A step begins, or the agent ends: by its steps, or cancelled.
LEMMA CheckKeeps == ASSUME Control, NEW x \in Agent, Swarm!CheckStep(x) PROVE Control'
<1>1. UNCHANGED aCancels /\ "failed" \in Swarm!Terminal /\ "cancelled" \in Swarm!Terminal
  BY DEF Swarm!CheckStep, Swarm!Terminal
<1>2. CASE Swarm!EmitThen(x, "exit") /\ (Swarm!Set(x, "failed") \/ Swarm!Set(x, "cancelled"))
  BY <1>1, <1>2, EndsKeep
<1>3. CASE /\ UNCHANGED aStatus
           /\ aLoop[x].step < MaxSteps
           /\ aLoop' = [aLoop EXCEPT ![x] = [pc |-> IF x \in Root THEN "think" ELSE "emit",
                                            next |-> "think", step |-> @.step + 1]]
  <2>1. aLoop[x].step + 1 \in 0 .. MaxSteps
    BY <1>3, ServiceAssumption DEF Control, LoopTyped, LoopType
  <2> QED
    BY <1>1, <1>3, <2>1 DEF Control, StatusTyped, LoopTyped, LoopType, Destined, Agent,
        Swarm!Agent, Swarm!RunningCanBeStopped, Swarm!CheckStep, Swarm!At
<1>4. aLoop[x].step = MaxSteps \/ aLoop[x].step < MaxSteps
  BY ServiceAssumption DEF Control, LoopTyped, LoopType
<1>5. CASE aLoop[x].step = MaxSteps
  BY <1>2, <1>5 DEF Swarm!CheckStep
<1>6. CASE aLoop[x].step # MaxSteps /\ x \in aCancelled
  BY <1>2, <1>4, <1>6 DEF Swarm!CheckStep
<1>7. CASE aLoop[x].step # MaxSteps /\ x \notin aCancelled
  BY <1>3, <1>4, <1>7 DEF Swarm!CheckStep
<1> QED BY <1>5, <1>6, <1>7

\* The model answers or fails.
LEMMA QueryKeeps == ASSUME Control, NEW x \in Agent, Swarm!QueryOllama(x) PROVE Control'
BY EndsKeep, GoesOnKeeps DEF Swarm!QueryOllama, Swarm!Terminal

\* A tool's result goes into the next step.
LEMMA ToolResultKeeps == ASSUME Control, NEW x \in Agent, Swarm!ToolResult(x) PROVE Control'
BY EndsKeep, GoesOnKeeps DEF Swarm!ToolResult, Swarm!Terminal

\* The deferred delete finds an agent that does not run.
LEMMA ExitControls == ASSUME Control, NEW x \in Agent, Swarm!Exit(x) PROVE Control'
BY GoTyped DEF Swarm!Exit, Swarm!At, Control, StatusTyped, Destined, Agent, Swarm!Agent,
       Swarm!RunningCanBeStopped

\* Every step of a loop.
LEMMA LoopKeeps == ASSUME Control, NEW x \in Agent, Swarm!Loop(x) PROVE Control'
BY EmitControls, CheckKeeps, QueryKeeps, ToolResultKeeps, ExitControls, GoesOnKeeps
   DEF Swarm!Loop, Swarm!ExecuteTool, Swarm!SpawnSubAgent

\* A parent hears how its sub-agent ended.
LEMMA ToldKeeps ==
    ASSUME Control, NEW c \in Sub, NEW s, Swarm!Told(c, s), UNCHANGED <<aStatus, aCancels>>
    PROVE  Control'
BY GoesOnKeeps, ServiceAssumption DEF Swarm!Told, Agent

\* A step of the calls between agents changes no agent.
LEMMA SameKeeps == ASSUME Control, UNCHANGED <<aStatus, aLoop, aCancels>> PROVE Control'
BY DEF Control, StatusTyped, LoopTyped, Destined, Swarm!RunningCanBeStopped

\* Every step of a call that spawns a sub-agent.
LEMMA SpawnKeeps == ASSUME Control, NEW c \in Sub, Swarm!Spawn(c) PROVE Control'
<1>1. c \in Agent
  BY DEF Agent
<1>2. CASE Swarm!SpawnCreate(c)
  <2>1. CASE Swarm!Set(c, "pending")
    BY <1>1, <1>2, <2>1 DEF Swarm!SpawnCreate, Swarm!Set, Control, StatusTyped, LoopTyped, Destined,
        Agent, Swarm!Agent, Swarm!RunningCanBeStopped
  <2> QED BY <1>2, <2>1, SameKeeps DEF Swarm!SpawnCreate
<1>3. CASE Swarm!SpawnStart(c)
  BY <1>1, <1>3, StartedKeeps DEF Swarm!SpawnStart
<1>4. CASE Swarm!SpawnListen(c) \/ Swarm!Forward(c)
  BY <1>4, SameKeeps DEF Swarm!SpawnListen, Swarm!Forward
<1>5. CASE Swarm!ReadLocally(c) \/ Swarm!CreateFailedLocally(c) \/ Swarm!StreamEnds(c)
  BY <1>5, ToldKeeps DEF Swarm!ReadLocally, Swarm!CreateFailedLocally, Swarm!StreamEnds
<1>6. CASE Swarm!ReadStream(c)
  BY <1>6, ToldKeeps, SameKeeps DEF Swarm!ReadStream
<1> QED BY <1>2, <1>3, <1>4, <1>5, <1>6 DEF Swarm!Spawn, Swarm!Served

\* Every step of the agents.
LEMMA ControlNext == Control /\ (Swarm!Next \/ UNCHANGED agents) => Control'
<1> SUFFICES ASSUME Control, Swarm!Next \/ UNCHANGED agents PROVE Control'
  OBVIOUS
<1>1. ASSUME NEW x \in Agent, Swarm!CreateAgent(x) PROVE Control'
  BY <1>1 DEF Swarm!CreateAgent, Swarm!Set, Control, StatusTyped, LoopTyped, Destined, Agent,
      Swarm!Agent, Swarm!RunningCanBeStopped
<1>2. ASSUME NEW x \in Agent, Swarm!StartAgent(x) PROVE Control'
  BY <1>2, StartedKeeps DEF Swarm!StartAgent
<1>3. ASSUME NEW x \in Agent, Swarm!CancelByUser(x) PROVE Control'
  BY <1>3, CancelKeeps DEF Swarm!CancelByUser
<1>4. ASSUME NEW c \in Sub, Swarm!CancelByMonitor(c) PROVE Control'
  BY <1>4, CancelKeeps DEF Swarm!CancelByMonitor, Agent
<1>5. ASSUME NEW c \in Sub, Swarm!StreamBreaks(c) PROVE Control'
  BY <1>5, SameKeeps DEF Swarm!StreamBreaks
<1>6. ASSUME NEW a \in Swarm!Calls, Swarm!EmitCancel(a) PROVE Control'
  BY <1>6, SameKeeps DEF Swarm!EmitCancel
<1>7. CASE UNCHANGED agents
  BY <1>7, SameKeeps DEF agents
<1> QED
  BY <1>1, <1>2, <1>3, <1>4, <1>5, <1>6, <1>7, LoopKeeps, SpawnKeeps, ShutdownKeeps
  DEF Swarm!Next, Agent, Swarm!Agent

-----------------------------------------------------------------------------
(* What agents tell each other                                                 *)

Events == {"running"} \cup Swarm!Terminal

CallsTyped == /\ aAsked \in [Swarm!Calls -> {"none", "emit", "done"}]
              /\ aCancelled \subseteq Agent /\ aCancels \subseteq Agent

\* An agent without a parent has no listener.
RootsSilent == /\ \A x \in Root : aLoop[x].pc # "emit"
               /\ \A a \in Swarm!Calls : aAsked[a] = "emit" => a[1] \in Sub

\* A listener on the same node notes only how the agent ended.
ChannelsTyped ==
    /\ aRemote \subseteq Sub /\ aPanicked \in BOOLEAN
    /\ aChannel \in [Sub -> [events : Seq(Events), on : BOOLEAN, closed : BOOLEAN]]
    /\ \A c \in Sub \ aRemote : aChannel[c].events \in Seq(Swarm!Terminal)

SpawnsTyped ==
    /\ aServing \in [Sub -> {"none", "create", "listen", "start", "serve", "over"}]
    /\ aStream \in [Sub -> [events : Seq(Events), is : {"open", "closed", "broken"}]]
    /\ aAnswer \in [Sub -> {"none"} \cup Swarm!Terminal]

Talk == CallsTyped /\ RootsSilent /\ ChannelsTyped /\ SpawnsTyped

\* Initially nobody calls.
LEMMA TalkInit == Swarm!Init => Talk
<1> SUFFICES ASSUME Swarm!Init PROVE Talk
  OBVIOUS
<1>1. CallsTyped /\ RootsSilent
  BY DEF Swarm!Init, CallsTyped, RootsSilent, Agent, Swarm!Agent
<1>2. ChannelsTyped
  <2>1. /\ aChannel = [c \in Sub |-> [events |-> <<>>, on |-> FALSE, closed |-> FALSE]]
        /\ aRemote = {} /\ aPanicked = FALSE
    BY DEF Swarm!Init
  <2>2. <<>> \in Seq(Events) /\ <<>> \in Seq(Swarm!Terminal)
    OBVIOUS
  <2> QED BY <2>1, <2>2 DEF ChannelsTyped
<1>3. SpawnsTyped
  BY DEF Swarm!Init, SpawnsTyped
<1> QED BY <1>1, <1>2, <1>3 DEF Talk

ChannelType(S) == [events : Seq(S), on : BOOLEAN, closed : BOOLEAN]

\* A channel keeps its type when an event is noted.
LEMMA NotedTyped ==
    ASSUME NEW S, NEW ch \in ChannelType(S), NEW s \in S, NEW c
    PROVE  Swarm!Noted(ch, c, s) \in ChannelType(S)
<1>1. /\ ch.events \in Seq(S) /\ ch.on \in BOOLEAN /\ ch.closed \in BOOLEAN
      /\ ch = [events |-> ch.events, on |-> ch.on, closed |-> ch.closed]
  BY DEF ChannelType
<1>2. Append(ch.events, s) \in Seq(S)
  BY <1>1
<1> DEFINE more == IF Len(ch.events) < Buffer THEN Append(ch.events, s) ELSE ch.events
           shut == ch.closed \/ (c \in aRemote /\ s \in Swarm!Terminal)
<1>3. more \in Seq(S) /\ shut \in BOOLEAN
  BY <1>1, <1>2
<1> HIDE DEF more, shut
<1>4. Swarm!Noted(ch, c, s) = [ch EXCEPT !.events = more, !.closed = shut]
  BY DEF Swarm!Noted, more, shut
<1> QED BY <1>1, <1>3, <1>4 DEF ChannelType

\* An announcement is noted, dropped, not of interest, or a panic.
LEMMA AnnounceKeeps ==
    ASSUME Control, ChannelsTyped, NEW x \in Sub, Swarm!Announce(x), UNCHANGED aRemote
    PROVE  ChannelsTyped'
<1>1. CASE UNCHANGED <<aChannel, aPanicked>>
  BY <1>1 DEF ChannelsTyped
<1>2. CASE /\ Swarm!Sends(x, aStatus[x])
           /\ aPanicked' = aChannel[x].closed
           /\ aChannel' = IF aChannel[x].closed THEN aChannel
                          ELSE [aChannel EXCEPT ![x] = Swarm!Noted(@, x, aStatus[x])]
  <2>1. aPanicked' \in BOOLEAN
    BY <1>2 DEF ChannelsTyped
  <2>2. CASE UNCHANGED aChannel
    BY <2>1, <2>2 DEF ChannelsTyped
  <2>3. CASE aChannel' = [aChannel EXCEPT ![x] = Swarm!Noted(@, x, aStatus[x])]
    <3> DEFINE new == Swarm!Noted(aChannel[x], x, aStatus[x])
    <3>1. /\ aStatus[x] \in Events /\ (x \notin aRemote => aStatus[x] \in Swarm!Terminal)
          /\ aChannel[x] \in [events : Seq(Events), on : BOOLEAN, closed : BOOLEAN]
          /\ x \notin aRemote => aChannel[x].events \in Seq(Swarm!Terminal)
      BY <1>2 DEF Swarm!Sends, Events, ChannelsTyped
    <3>2. /\ new \in [events : Seq(Events), on : BOOLEAN, closed : BOOLEAN]
          /\ x \notin aRemote => new.events \in Seq(Swarm!Terminal)
      BY <3>1, NotedTyped DEF ChannelType
    <3> QED BY <2>1, <2>3, <3>2 DEF ChannelsTyped
  <2> QED BY <1>2, <2>2, <2>3
<1> QED BY <1>1, <1>2 DEF Swarm!Announce

\* A root agent has no parent, and announces nothing to one.
LEMMA SilentKeeps ==
    ASSUME Control, RootsSilent, NEW x \in Agent, NEW pc \in {"check", "think", "tool", "wait",
           "result", "exit", "over"},
           Swarm!Go(x, pc) \/ (pc \in {"check", "tool", "exit"} /\ Swarm!EmitThen(x, pc))
    PROVE  \A y \in Root : aLoop'[y].pc # "emit"
<1>1. CASE Swarm!Go(x, pc)
  BY <1>1, GoTyped DEF RootsSilent, Control, Agent
<1>2. CASE x \notin Root /\ Swarm!EmitThen(x, pc) /\ pc \in {"check", "tool", "exit"}
  BY <1>2, EmitThenTyped DEF RootsSilent, Control, Agent
<1> QED BY <1>1, <1>2 DEF Swarm!EmitThen

\* Without a call, the calls keep their types.
LEMMA CallsSame == ASSUME CallsTyped, UNCHANGED <<aAsked, aCancelled, aCancels>> PROVE CallsTyped'
BY DEF CallsTyped

\* Without an event, so do the channels.
LEMMA ChannelsSame ==
    ASSUME ChannelsTyped, UNCHANGED <<aRemote, aChannel, aPanicked>> PROVE ChannelsTyped'
BY DEF ChannelsTyped

\* Without a step of a spawn, so do the spawns.
LEMMA SpawnsSame ==
    ASSUME SpawnsTyped, UNCHANGED <<aServing, aStream, aAnswer>> PROVE SpawnsTyped'
BY DEF SpawnsTyped

\* A step that leaves loops and calls alone.
LEMMA RootsSame == ASSUME RootsSilent, UNCHANGED <<aLoop, aAsked>> PROVE RootsSilent'
BY DEF RootsSilent

\* A step of a loop that touches nothing but status, loop and cancel function.
LEMMA PlainLoopTalks ==
    ASSUME Control, Talk, NEW x \in Agent,
           NEW pc \in {"check", "think", "tool", "wait", "result", "exit", "over"},
           Swarm!Go(x, pc) \/ (pc \in {"check", "tool", "exit"} /\ Swarm!EmitThen(x, pc)),
           aCancels' \in {aCancels, aCancels \ {x}},
           UNCHANGED <<aCancelled, aAsked, aRemote, aServing, aChannel, aStream, aAnswer, aPanicked>>
    PROVE  Talk'
<1>1. CallsTyped'
  BY DEF Talk, CallsTyped
<1>2. RootsSilent'
  BY SilentKeeps DEF Talk, RootsSilent
<1>3. ChannelsTyped' /\ SpawnsTyped'
  BY ChannelsSame, SpawnsSame DEF Talk
<1> QED BY <1>1, <1>2, <1>3 DEF Talk

\* An announcement goes to the channel of the parent.
LEMMA EmitTalks == ASSUME Control, Talk, NEW x \in Agent, Swarm!Emit(x) PROVE Talk'
<1>1. /\ aLoop[x].pc = "emit" /\ Swarm!Announce(x) /\ Swarm!Go(x, aLoop[x].next)
      /\ UNCHANGED <<aRemote, aStatus, aCancelled, aCancels, aAsked, aServing, aStream, aAnswer>>
  BY DEF Swarm!Emit, Swarm!At
<1>2. x \in Sub
  BY <1>1 DEF Talk, RootsSilent, Agent
<1>3. aLoop[x].next \in {"check", "think", "tool", "exit"}
  BY <1>1 DEF Control, LoopTyped, LoopType, Destined
<1>4. RootsSilent'
  BY <1>1, <1>3, SilentKeeps DEF Talk, RootsSilent
<1> QED
  BY <1>1, <1>2, <1>4, AnnounceKeeps, CallsSame, SpawnsSame DEF Talk

\* The check of a step announces what comes next.
LEMMA CheckTalks == ASSUME Control, Talk, NEW x \in Agent, Swarm!CheckStep(x) PROVE Talk'
<1>1. CASE Swarm!EmitThen(x, "exit")
  BY <1>1, PlainLoopTalks DEF Swarm!CheckStep, Swarm!links
<1>2. CASE aLoop' = [aLoop EXCEPT ![x] = [pc |-> IF x \in Root THEN "think" ELSE "emit",
                                        next |-> "think", step |-> @.step + 1]]
  <2>1. RootsSilent'
    BY <1>2 DEF Swarm!CheckStep, Talk, RootsSilent, Control, LoopTyped, Agent
  <2> QED
    BY <2>1, CallsSame, ChannelsSame, SpawnsSame DEF Swarm!CheckStep, Swarm!links, Talk
<1> QED
  BY <1>1, <1>2, ServiceAssumption DEF Swarm!CheckStep, Control, LoopTyped, LoopType

\* An agent that spawns waits for its call.
LEMMA SpawnSubAgentTalks ==
    ASSUME Control, Talk, NEW x \in Agent, NEW c \in Sub, Swarm!SpawnSubAgent(x, c) PROVE Talk'
<1>1. /\ Swarm!Go(x, "wait") /\ aServing' = [aServing EXCEPT ![c] = "create"]
      /\ aRemote' \in {aRemote, aRemote \cup {c}}
      /\ UNCHANGED <<aStatus, aCancelled, aCancels, aAsked, aChannel, aStream, aAnswer, aPanicked>>
  BY DEF Swarm!SpawnSubAgent
<1>2. RootsSilent'
  BY <1>1, SilentKeeps DEF Talk, RootsSilent
<1>3. ChannelsTyped'
  BY <1>1 DEF Talk, ChannelsTyped
<1>4. SpawnsTyped'
  BY <1>1 DEF Talk, SpawnsTyped
<1> QED BY <1>1, <1>2, <1>3, <1>4, CallsSame DEF Talk

\* Every step of a loop.
LEMMA LoopTalks == ASSUME Control, Talk, NEW x \in Agent, Swarm!Loop(x) PROVE Talk'
<1>1. CASE Swarm!QueryOllama(x) \/ Swarm!ToolResult(x) \/ Swarm!ExecuteTool(x) \/ Swarm!Exit(x)
  BY <1>1, PlainLoopTalks
  DEF Swarm!QueryOllama, Swarm!ToolResult, Swarm!ExecuteTool, Swarm!Exit, Swarm!links
<1> QED BY <1>1, EmitTalks, CheckTalks, SpawnSubAgentTalks DEF Swarm!Loop

\* A cancellation from outside.
LEMMA CancelTalks ==
    ASSUME Control, Talk, NEW x \in Agent, NEW by \in {"user", "monitor"},
           Swarm!CancelAgent(x, by), UNCHANGED <<aLoop, Swarm!links, aPanicked>>
    PROVE  Talk'
<1>1. <<x, by>> \in Swarm!Calls
  BY DEF Swarm!Calls, Swarm!Agent, Agent
<1>2. /\ aAsked' = [aAsked EXCEPT ![<<x, by>>] = Swarm!Announced(x)]
      /\ aCancelled' \subseteq Agent /\ aCancels' \subseteq Agent
      /\ Swarm!Announced(x) \in {"done", "emit"} /\ (x \in Root => Swarm!Announced(x) = "done")
  BY DEF Swarm!CancelAgent, Talk, CallsTyped, Swarm!Announced
<1>3. CallsTyped' /\ RootsSilent'
  BY <1>1, <1>2 DEF Talk, CallsTyped, RootsSilent, Agent
<1> QED BY <1>3, ChannelsSame, SpawnsSame DEF Talk, Swarm!links

\* The shutdown tells the parents of the agents it cancels.
LEMMA ShutdownTalks == ASSUME Control, Talk, Swarm!Shutdown PROVE Talk'
<1>1. CallsTyped' /\ RootsSilent' /\ SpawnsTyped'
  BY DEF Swarm!Shutdown, Talk, CallsTyped, RootsSilent, SpawnsTyped
<1>2. ChannelsTyped'
  <2>1. PICK told \in SUBSET Sub :
          /\ aPanicked' = \E c \in told : aChannel[c].closed
          /\ aChannel' = [c \in Sub |-> IF c \in told /\ ~aChannel[c].closed
                                        THEN Swarm!Noted(aChannel[c], c, "cancelled")
                                        ELSE aChannel[c]]
          /\ aRemote' = aRemote
    BY DEF Swarm!Shutdown
  <2>2. "cancelled" \in Events /\ "cancelled" \in Swarm!Terminal
    BY DEF Events, Swarm!Terminal
  <2>3. ASSUME NEW c \in Sub
        PROVE  /\ aChannel'[c] \in ChannelType(Events)
               /\ c \notin aRemote => aChannel'[c].events \in Seq(Swarm!Terminal)
    <3>1. /\ aChannel[c] \in ChannelType(Events)
          /\ c \notin aRemote => aChannel[c] \in ChannelType(Swarm!Terminal)
      BY DEF Talk, ChannelsTyped, ChannelType
    <3>2. /\ Swarm!Noted(aChannel[c], c, "cancelled") \in ChannelType(Events)
          /\ c \notin aRemote =>
               Swarm!Noted(aChannel[c], c, "cancelled") \in ChannelType(Swarm!Terminal)
      BY <2>2, <3>1, NotedTyped
    <3>3. /\ aChannel'[c] \in ChannelType(Events)
          /\ c \notin aRemote => aChannel'[c] \in ChannelType(Swarm!Terminal)
      BY <2>1, <3>1, <3>2
    <3> QED BY <3>3 DEF ChannelType
  <2>4. aPanicked' \in BOOLEAN
    BY <2>1
  <2>5. aChannel' \in [Sub -> ChannelType(Events)]
    BY <2>1, <2>3
  <2> QED BY <2>1, <2>3, <2>4, <2>5 DEF ChannelsTyped, ChannelType, Talk
<1> QED BY <1>1, <1>2 DEF Talk

\* What is first in a queue, and what is left, are of its kind.
LEMMA QueueTyped ==
    ASSUME NEW S, NEW q \in Seq(S), q # <<>>
    PROVE  Head(q) \in S /\ Tail(q) \in Seq(S)
OBVIOUS

\* A parent is told how the call ended.
LEMMA ToldTalks ==
    ASSUME Control, Talk, NEW c \in Sub, NEW s \in Swarm!Terminal, Swarm!Told(c, s),
           UNCHANGED aAsked
    PROVE  RootsSilent' /\ aAnswer' \in [Sub -> {"none"} \cup Swarm!Terminal]
<1>1. ParentOf[c] \in Agent
  BY ServiceAssumption DEF Agent
<1>2. RootsSilent'
  BY <1>1, SilentKeeps DEF Swarm!Told, Talk, RootsSilent
<1> QED BY <1>2 DEF Swarm!Told, Talk, SpawnsTyped

\* A call whose channel nobody reads any more.
LEMMA UnlistenedKeeps ==
    ASSUME ChannelsTyped, NEW c \in Sub, Swarm!Unlistened(c), UNCHANGED <<aRemote, aPanicked>>
    PROVE  ChannelsTyped'
<1> DEFINE shut == c \in aRemote
<1>1. shut \in BOOLEAN
  OBVIOUS
<1>2. aChannel' = [aChannel EXCEPT ![c].on = FALSE, ![c].closed = shut]
  BY DEF Swarm!Unlistened
<1> HIDE DEF shut
<1> QED BY <1>1, <1>2 DEF ChannelsTyped

\* The sub-agent is made, here or at another node.
LEMMA SpawnCreateTalks == ASSUME Control, Talk, NEW c \in Sub, Swarm!SpawnCreate(c) PROVE Talk'
<1>1. UNCHANGED <<aRemote, aLoop, aCancelled, aCancels, aAsked, aChannel, aAnswer, aPanicked>>
  BY DEF Swarm!SpawnCreate
<1>2. aServing' \in [Sub -> {"none", "create", "listen", "start", "serve", "over"}]
  BY DEF Swarm!SpawnCreate, Swarm!Served, Talk, SpawnsTyped
<1>3. aStream' \in [Sub -> [events : Seq(Events), is : {"open", "closed", "broken"}]]
  <2>1. CASE UNCHANGED aStream
    BY <2>1 DEF Talk, SpawnsTyped
  <2>2. CASE aStream' = [aStream EXCEPT ![c].events = Append(@, "failed"), ![c].is =
                             IF @ = "open" THEN "closed" ELSE @]
    <3>1. Append(aStream[c].events, "failed") \in Seq(Events)
      BY DEF Talk, SpawnsTyped, Events, Swarm!Terminal
    <3>2. (IF aStream[c].is = "open" THEN "closed" ELSE aStream[c].is)
            \in {"open", "closed", "broken"}
      BY DEF Talk, SpawnsTyped
    <3> QED BY <2>2, <3>1, <3>2 DEF Talk, SpawnsTyped
  <2> QED BY <2>1, <2>2 DEF Swarm!SpawnCreate
<1> QED
  BY <1>1, <1>2, <1>3, CallsSame, RootsSame, ChannelsSame DEF Talk, SpawnsTyped

\* Its listener is registered.
LEMMA SpawnListenTalks == ASSUME Control, Talk, NEW c \in Sub, Swarm!SpawnListen(c) PROVE Talk'
<1>1. ChannelsTyped'
  BY DEF Swarm!SpawnListen, Talk, ChannelsTyped
<1>2. SpawnsTyped'
  BY DEF Swarm!SpawnListen, Swarm!Served, Talk, SpawnsTyped
<1> QED BY <1>1, <1>2, CallsSame, RootsSame DEF Swarm!SpawnListen, Talk

\* Its loop is started.
LEMMA SpawnStartTalks == ASSUME Control, Talk, NEW c \in Sub, Swarm!SpawnStart(c) PROVE Talk'
<1>1. c \in Agent /\ c \notin Root
  BY ServiceAssumption DEF Agent
<1>2. CallsTyped'
  BY <1>1 DEF Swarm!SpawnStart, Swarm!Started, Talk, CallsTyped
<1>3. RootsSilent'
  BY <1>1, SilentKeeps DEF Swarm!SpawnStart, Swarm!Started, Swarm!EmitThen, Talk, RootsSilent,
     Control, LoopTyped
<1>4. SpawnsTyped'
  BY DEF Swarm!SpawnStart, Swarm!Served, Talk, SpawnsTyped
<1> QED BY <1>2, <1>3, <1>4, ChannelsSame DEF Swarm!SpawnStart, Talk

\* An event is read from the channel.
LEMMA ReadLocallyTalks == ASSUME Control, Talk, NEW c \in Sub, Swarm!ReadLocally(c) PROVE Talk'
<1>1. Head(aChannel[c].events) \in Swarm!Terminal
  BY QueueTyped DEF Swarm!ReadLocally, Talk, ChannelsTyped
<1>2. RootsSilent' /\ aAnswer' \in [Sub -> {"none"} \cup Swarm!Terminal]
  BY <1>1, ToldTalks DEF Swarm!ReadLocally
<1>3. ChannelsTyped'
  BY UnlistenedKeeps DEF Swarm!ReadLocally, Talk
<1>4. SpawnsTyped'
  BY <1>2 DEF Swarm!ReadLocally, Swarm!Served, Talk, SpawnsTyped
<1> QED BY <1>2, <1>3, <1>4, CallsSame DEF Swarm!ReadLocally, Talk

\* The call ends, and nothing else.
LEMMA ToldOnlyTalks ==
    ASSUME Control, Talk, NEW c \in Sub, Swarm!CreateFailedLocally(c) \/ Swarm!StreamEnds(c)
    PROVE  Talk'
<1>1. PICK s \in Swarm!Terminal : Swarm!Told(c, s)
  BY DEF Swarm!CreateFailedLocally, Swarm!StreamEnds, Swarm!Terminal
<1>2. UNCHANGED <<aRemote, aStatus, aCancelled, aCancels, aAsked, aServing, aChannel, aStream, aPanicked>>
  BY DEF Swarm!CreateFailedLocally, Swarm!StreamEnds
<1>3. RootsSilent' /\ aAnswer' \in [Sub -> {"none"} \cup Swarm!Terminal]
  BY <1>1, <1>2, ToldTalks
<1> QED BY <1>2, <1>3, CallsSame, ChannelsSame DEF Talk, SpawnsTyped

\* An event goes over the stream to the node that asked.
LEMMA ForwardTalks == ASSUME Control, Talk, NEW c \in Sub, Swarm!Forward(c) PROVE Talk'
<1>1. UNCHANGED <<aRemote, aLoop, aCancelled, aCancels, aAsked, aAnswer, aPanicked>> /\ c \in aRemote
  BY DEF Swarm!Forward
<1>2. CASE /\ aChannel[c].events # <<>>
           /\ aStream' = [aStream EXCEPT ![c].events = Append(@, Head(aChannel[c].events))]
           /\ aChannel' = [aChannel EXCEPT ![c].events = Tail(@)]
           /\ UNCHANGED aServing
  <2>1. Head(aChannel[c].events) \in Events /\ Tail(aChannel[c].events) \in Seq(Events)
    BY <1>2, QueueTyped DEF Talk, ChannelsTyped
  <2>2. Append(aStream[c].events, Head(aChannel[c].events)) \in Seq(Events)
    BY <2>1 DEF Talk, SpawnsTyped
  <2>3. ChannelsTyped'
    BY <1>1, <1>2, <2>1 DEF Talk, ChannelsTyped
  <2>4. SpawnsTyped'
    BY <1>1, <1>2, <2>2 DEF Talk, SpawnsTyped
  <2> QED BY <1>1, <2>3, <2>4, CallsSame, RootsSame DEF Talk
<1>3. CASE /\ Swarm!Served(c, "over") /\ Swarm!Unlistened(c)
           /\ aStream' = [aStream EXCEPT ![c].is = IF @ = "open" THEN "closed" ELSE @]
  <2>1. SpawnsTyped'
    BY <1>1, <1>3 DEF Talk, SpawnsTyped, Swarm!Served
  <2> QED BY <1>1, <1>3, <2>1, UnlistenedKeeps, CallsSame, RootsSame DEF Talk
<1> QED BY <1>2, <1>3 DEF Swarm!Forward

\* An event is read from the stream.
LEMMA ReadStreamTalks == ASSUME Control, Talk, NEW c \in Sub, Swarm!ReadStream(c) PROVE Talk'
<1> DEFINE s == Head(aStream[c].events)
<1>1. /\ aStream[c].events # <<>>
      /\ aStream' = [aStream EXCEPT ![c].events = Tail(@),
                        ![c].is = IF s \in {"failed", "cancelled"} THEN "closed" ELSE @]
      /\ UNCHANGED <<aRemote, aStatus, aCancelled, aCancels, aAsked, aServing, aChannel, aPanicked>>
  BY DEF Swarm!ReadStream
<1>2. s \in Events /\ Tail(aStream[c].events) \in Seq(Events)
  BY <1>1, QueueTyped DEF Talk, SpawnsTyped
<1>3. aStream' \in [Sub -> [events : Seq(Events), is : {"open", "closed", "broken"}]]
  BY <1>1, <1>2 DEF Talk, SpawnsTyped
<1>4. RootsSilent' /\ aAnswer' \in [Sub -> {"none"} \cup Swarm!Terminal]
  <2>1. CASE s = "running"
    BY <1>1, <2>1, RootsSame DEF Swarm!ReadStream, Talk, SpawnsTyped
  <2>2. CASE s = "completed"
    <3>1. aAnswer' = [aAnswer EXCEPT ![c] = "completed"] /\ UNCHANGED aLoop
      BY <2>2 DEF Swarm!ReadStream
    <3> QED BY <1>1, <3>1, RootsSame DEF Talk, SpawnsTyped, Swarm!Terminal
  <2>3. CASE s \notin {"running", "completed"}
    <3>1. Swarm!Told(c, s) /\ s \in Swarm!Terminal
      BY <1>2, <2>3 DEF Swarm!ReadStream, Events
    <3> QED BY <1>1, <3>1, ToldTalks
  <2> QED BY <2>1, <2>2, <2>3
<1> QED
  BY <1>1, <1>3, <1>4, CallsSame, ChannelsSame DEF Talk, SpawnsTyped

\* Every step of the agents, under Control.
LEMMA TalkNext == Control /\ Talk /\ (Swarm!Next \/ UNCHANGED agents) => Talk'
<1> SUFFICES ASSUME Control, Talk, Swarm!Next \/ UNCHANGED agents PROVE Talk'
  OBVIOUS
<1>1. ASSUME NEW x \in Agent, Swarm!CreateAgent(x) PROVE Talk'
  BY <1>1, CallsSame, RootsSame, ChannelsSame, SpawnsSame
  DEF Swarm!CreateAgent, Swarm!links, Talk
<1>2. ASSUME NEW x \in Agent, Swarm!StartAgent(x) PROVE Talk'
  <2>1. CallsTyped'
    BY <1>2 DEF Swarm!StartAgent, Swarm!Started, Talk, CallsTyped
  <2>2. RootsSilent'
    BY <1>2, SilentKeeps DEF Swarm!StartAgent, Swarm!Started, Talk, RootsSilent
  <2> QED BY <1>2, <2>1, <2>2, ChannelsSame, SpawnsSame DEF Swarm!StartAgent, Swarm!links, Talk
<1>3. ASSUME NEW x \in Agent, Swarm!CancelByUser(x) PROVE Talk'
  BY <1>3, CancelTalks DEF Swarm!CancelByUser
<1>4. ASSUME NEW c \in Sub, Swarm!CancelByMonitor(c) PROVE Talk'
  BY <1>4, CancelTalks DEF Swarm!CancelByMonitor, Agent
<1>5. ASSUME NEW c \in Sub, Swarm!StreamBreaks(c) PROVE Talk'
  <2>1. SpawnsTyped'
    BY <1>5 DEF Swarm!StreamBreaks, Talk, SpawnsTyped
  <2> QED BY <1>5, <2>1, CallsSame, RootsSame, ChannelsSame DEF Swarm!StreamBreaks, Talk
<1>6. ASSUME NEW a \in Swarm!Calls, Swarm!EmitCancel(a) PROVE Talk'
  <2>1. a[1] \in Sub
    BY <1>6 DEF Swarm!EmitCancel, Talk, RootsSilent
  <2>2. CallsTyped' /\ RootsSilent'
    BY <1>6 DEF Swarm!EmitCancel, Talk, CallsTyped, RootsSilent
  <2> QED BY <1>6, <2>1, <2>2, AnnounceKeeps, SpawnsSame DEF Swarm!EmitCancel, Talk
<1>7. CASE UNCHANGED agents
  BY <1>7, CallsSame, RootsSame, ChannelsSame, SpawnsSame DEF agents, Talk
<1>8. ASSUME NEW c \in Sub, Swarm!Spawn(c) PROVE Talk'
  BY <1>8, SpawnCreateTalks, SpawnListenTalks, SpawnStartTalks, ReadLocallyTalks, ToldOnlyTalks,
     ForwardTalks, ReadStreamTalks DEF Swarm!Spawn
<1> QED
  BY <1>1, <1>2, <1>3, <1>4, <1>5, <1>6, <1>7, <1>8, LoopTalks, ShutdownTalks
  DEF Swarm!Next, Agent, Swarm!Agent

\* The invariants give the type of every variable of the agents.
LEMMA AgentsTyped == Control /\ Talk => Swarm!TypeOK
BY DEF Control, StatusTyped, LoopTyped, LoopType, Talk, CallsTyped, ChannelsTyped, SpawnsTyped,
       Events, Agent, Swarm!Agent, Swarm!TypeOK

-----------------------------------------------------------------------------
(* Chats                                                                       *)

\* What a chat shows: a whole answer at its end; what a worker's run gave so far and nothing
\* else; the local server's part of an answer after that.
Tokens == {"worker", "local"} \X (1 .. Length)
EndsWhole(s) ==
    \E source \in {"worker", "local"} :
        Length <= Len(s) /\ \A i \in 1 .. Length : s[Len(s) - Length + i] = <<source, i>>
FromWorker(s) == Len(s) < Length /\ \A i \in 1 .. Len(s) : s[i] = <<"worker", i>>
LocalSoFar(s) ==
    \/ s = <<>>
    \/ s[Len(s)][1] = "worker"
    \/ /\ s[Len(s)][2] < Length /\ s[Len(s)][2] <= Len(s)
       /\ \A i \in 1 .. s[Len(s)][2] : s[Len(s) - s[Len(s)][2] + i] = <<"local", i>>

\* A worker's next token goes on with the answer, and the last one makes it whole.
LEMMA WorkerToken ==
    ASSUME NEW s \in Seq(Tokens), FromWorker(s)
    PROVE  LET k == Len(s) + 1
               t == Append(s, <<"worker", k>>)
           IN  /\ t \in Seq(Tokens)
               /\ k = Length => EndsWhole(t)
               /\ k # Length => FromWorker(t)
<1> DEFINE k == Len(s) + 1
           t == Append(s, <<"worker", k>>)
<1>1. k \in 1 .. Length /\ Len(t) = k /\ \A i \in 1 .. k : t[i] = <<"worker", i>>
  BY ServiceAssumption DEF FromWorker
<1>2. t \in Seq(Tokens)
  BY <1>1 DEF Tokens
<1>3. k = Length => EndsWhole(t)
  BY <1>1 DEF EndsWhole
<1>4. k # Length => FromWorker(t)
  BY <1>1, ServiceAssumption DEF FromWorker
<1> QED BY <1>2, <1>3, <1>4

\* So does the local server's, whatever a worker had shown before.
LEMMA LocalAppended ==
    ASSUME NEW s \in Seq(Tokens), LocalSoFar(s)
    PROVE  LET k == IF s = <<>> \/ Llm!Last(s)[1] = "worker" THEN 1 ELSE Llm!Last(s)[2] + 1
               t == Append(s, <<"local", k>>)
           IN  /\ k \in 1 .. Length /\ t \in Seq(Tokens)
               /\ k = Length => EndsWhole(t)
               /\ k # Length => LocalSoFar(t)
<1> DEFINE k == IF s = <<>> \/ Llm!Last(s)[1] = "worker" THEN 1 ELSE Llm!Last(s)[2] + 1
           t == Append(s, <<"local", k>>)
<1>1. Len(s) \in Nat /\ (s # <<>> => s[Len(s)] \in Tokens)
  OBVIOUS
<1>2. /\ k \in 1 .. Length /\ k <= Len(s) + 1
      /\ \A i \in 1 .. k - 1 : s[Len(s) - (k - 1) + i] = <<"local", i>>
  <2>1. CASE s = <<>> \/ s[Len(s)][1] = "worker"
    <3>1. k = 1
      BY <2>1 DEF Llm!Last
    <3> QED BY <1>1, <3>1, ServiceAssumption
  <2>2. CASE s # <<>> /\ s[Len(s)][1] # "worker"
    <3> DEFINE m == s[Len(s)][2]
    <3>1. k = m + 1
      BY <2>2 DEF Llm!Last
    <3>2. m < Length /\ m <= Len(s) /\ \A i \in 1 .. m : s[Len(s) - m + i] = <<"local", i>>
      BY <2>2 DEF LocalSoFar
    <3>3. m \in 1 .. Length
      BY <1>1, <2>2 DEF Tokens
    <3> HIDE DEF m, k
    <3>4. k \in 1 .. Length /\ k <= Len(s) + 1 /\ k - 1 = m
      BY <1>1, <3>1, <3>2, <3>3, ServiceAssumption
    <3> QED BY <3>2, <3>4
  <2> QED BY <2>1, <2>2
<1> HIDE DEF k
<1>3. /\ t \in Seq(Tokens) /\ Len(t) = Len(s) + 1 /\ t[Len(t)] = <<"local", k>>
      /\ \A i \in 1 .. Len(s) : t[i] = s[i]
  BY <1>2 DEF Tokens
<1>4. \A i \in 1 .. k : t[Len(t) - k + i] = <<"local", i>>
  <2> TAKE i \in 1 .. k
  <2>1. CASE i = k
    <3>1. Len(t) - k + i = Len(t)
      BY <1>1, <1>2, <1>3, <2>1, ServiceAssumption
    <3> QED BY <1>3, <2>1, <3>1
  <2>2. CASE i # k
    <3>1. /\ i \in 1 .. k - 1 /\ Len(t) - k + i = Len(s) - (k - 1) + i
          /\ Len(s) - (k - 1) + i \in 1 .. Len(s)
      BY <1>1, <1>2, <1>3, <2>2, ServiceAssumption
    <3> QED BY <1>2, <1>3, <3>1
  <2> QED BY <2>1, <2>2
<1>5. k = Length => EndsWhole(t)
  BY <1>2, <1>3, <1>4 DEF EndsWhole
<1>6. k # Length => LocalSoFar(t)
  <2> DEFINE m == t[Len(t)][2]
  <2>1. m = k /\ k <= Len(t)
    BY <1>1, <1>2, <1>3
  <2>2. \A i \in 1 .. m : t[Len(t) - m + i] = <<"local", i>>
    BY <1>4, <2>1
  <2>3. k # Length => m < Length
    BY <1>2, <2>1, ServiceAssumption
  <2>4. m <= Len(t)
    BY <2>1
  <2> QED BY <2>2, <2>3, <2>4 DEF LocalSoFar
<1> QED BY <1>2, <1>3, <1>5, <1>6 DEF k

\* EndsWhole is what AnswerIsWhole says by way of IsSuffix.
LEMMA WholeIsSuffix ==
    ASSUME NEW s \in Seq(Tokens), EndsWhole(s)
    PROVE  \E source \in {"worker", "local"} : Llm!IsSuffix(Llm!Whole(source), s)
<1>1. PICK source \in {"worker", "local"} :
        Length <= Len(s) /\ \A i \in 1 .. Length : s[Len(s) - Length + i] = <<source, i>>
  BY DEF EndsWhole
<1> DEFINE w == Llm!Whole(source)
<1>2. w \in Seq(Tokens) /\ Len(w) = Length /\ \A i \in 1 .. Length : w[i] = <<source, i>>
  BY ServiceAssumption DEF Llm!Whole, Tokens
<1> HIDE DEF w
<1> DEFINE rw == Llm!Reverse(w)
           rs == Llm!Reverse(s)
<1>3. /\ rw \in Seq(Tokens) /\ Len(rw) = Length
      /\ \A i \in 1 .. Length : rw[i] = w[(Length - i) + 1]
  BY <1>2, ServiceAssumption DEF Llm!Reverse
<1>4. /\ rs \in Seq(Tokens) /\ Len(rs) = Len(s)
      /\ \A i \in 1 .. Len(s) : rs[i] = s[(Len(s) - i) + 1]
  BY DEF Llm!Reverse
<1>5. \A i \in 1 .. Length : rw[i] = rs[i]
  <2> TAKE i \in 1 .. Length
  <2> DEFINE j == (Length - i) + 1
  <2>1. /\ j \in 1 .. Length /\ Len(s) - Length + j = (Len(s) - i) + 1
        /\ i \in 1 .. Len(s)
    BY <1>1, ServiceAssumption
  <2>2. rw[i] = w[j] /\ w[j] = <<source, j>>
    BY <1>2, <1>3, <2>1
  <2>3. rs[i] = s[Len(s) - Length + j] /\ s[Len(s) - Length + j] = <<source, j>>
    BY <1>1, <1>4, <2>1
  <2> QED BY <2>2, <2>3
<1> HIDE DEF rw, rs
<1>6. Llm!IsPrefix(rw, rs)
  BY <1>1, <1>3, <1>4, <1>5, ServiceAssumption DEF Llm!IsPrefix
<1> QED BY <1>6 DEF Llm!IsSuffix, rw, rs, w

\* The frames that a chat which shows n tokens has not read: the tokens that follow, and
\* what ended the run.
Frame == [type : {"token", "done", "error"}, k : 0 .. Length]
Frames(w, n) ==
    \A i \in 1 .. Len(w) :
        \/ w[i].type = "token" /\ w[i].k = n + i /\ n + i <= Length
        \/ w[i].type # "token" /\ i = Len(w)
OnlyTokens(w) == \A i \in 1 .. Len(w) : w[i].type = "token"
NoDone(w) == \A i \in 1 .. Len(w) : w[i].type # "done"

\* Reading the first frame leaves those that follow it.
LEMMA FrameRead ==
    ASSUME NEW w \in Seq(Frame), NEW n \in Nat, Frames(w, n), w # <<>>
    PROVE  /\ Head(w) \in Frame /\ Tail(w) \in Seq(Frame) /\ Len(w) = Len(Tail(w)) + 1
           /\ Head(w).type = "token" => /\ Head(w).k = n + 1 /\ n + 1 <= Length
                                       /\ Frames(Tail(w), n + 1)
           /\ OnlyTokens(w) => Head(w).type = "token" /\ OnlyTokens(Tail(w))
           /\ NoDone(w) => Head(w).type # "done" /\ NoDone(Tail(w))
<1> DEFINE v == Tail(w)
<1>1. /\ v \in Seq(Frame) /\ Len(w) = Len(v) + 1 /\ Head(w) = w[1] /\ Head(w) \in Frame
      /\ \A i \in 1 .. Len(v) : v[i] = w[i + 1] /\ i + 1 \in 1 .. Len(w)
      /\ 1 \in 1 .. Len(w) /\ Len(v) \in Nat
  OBVIOUS
<1> HIDE DEF v
<1>2. (OnlyTokens(w) => w[1].type = "token" /\ OnlyTokens(v))
  BY <1>1 DEF OnlyTokens
<1>3. (NoDone(w) => w[1].type # "done" /\ NoDone(v))
  BY <1>1 DEF NoDone
<1>4. ASSUME w[1].type = "token" PROVE w[1].k = n + 1 /\ n + 1 <= Length
  BY <1>1, <1>4 DEF Frames
<1>5. Frames(v, n + 1)
  <2> SUFFICES ASSUME NEW i \in 1 .. Len(v)
               PROVE  \/ v[i].type = "token" /\ v[i].k = (n + 1) + i /\ (n + 1) + i <= Length
                      \/ v[i].type # "token" /\ i = Len(v)
    BY DEF Frames
  <2>1. /\ i + 1 \in 1 .. Len(w) /\ v[i] = w[i + 1] /\ n + (i + 1) = (n + 1) + i
        /\ i + 1 = Len(w) => i = Len(v)
    BY <1>1
  <2>2. \/ w[i + 1].type = "token" /\ w[i + 1].k = n + (i + 1) /\ n + (i + 1) <= Length
        \/ w[i + 1].type # "token" /\ i + 1 = Len(w)
    BY <2>1 DEF Frames
  <2> QED BY <2>1, <2>2
<1> QED BY <1>1, <1>2, <1>3, <1>4, <1>5 DEF v

\* The next token, or what ends the run, is written behind tokens only.
LEMMA FrameWritten ==
    ASSUME NEW w \in Seq(Frame), NEW n \in Nat, Frames(w, n), OnlyTokens(w), NEW f \in Frame,
           f.type = "token" => f.k = n + Len(w) + 1
    PROVE  /\ Append(w, f) \in Seq(Frame) /\ Len(Append(w, f)) = Len(w) + 1
           /\ Frames(Append(w, f), n)
           /\ f.type = "token" => OnlyTokens(Append(w, f))
           /\ NoDone(w) /\ f.type # "done" => NoDone(Append(w, f))
<1> DEFINE v == Append(w, f)
<1>1. /\ v \in Seq(Frame) /\ Len(v) = Len(w) + 1 /\ v[Len(v)] = f
      /\ \A i \in 1 .. Len(w) : v[i] = w[i]
      /\ Len(w) \in Nat
  OBVIOUS
<1> HIDE DEF v
<1>2. \A i \in 1 .. Len(w) : w[i].type = "token" /\ w[i].k = n + i /\ n + i <= Length
  BY DEF Frames, OnlyTokens
<1>3. f.type = "token" => f.k <= Length /\ f.k = n + Len(v)
  BY <1>1 DEF Frame
<1>4. Frames(v, n)
  <2> SUFFICES ASSUME NEW i \in 1 .. Len(v)
               PROVE  \/ v[i].type = "token" /\ v[i].k = n + i /\ n + i <= Length
                      \/ v[i].type # "token" /\ i = Len(v)
    BY DEF Frames
  <2>1. CASE i = Len(v)
    BY <1>1, <1>3, <2>1
  <2>2. CASE i # Len(v)
    <3>1. i \in 1 .. Len(w)
      BY <1>1, <2>2
    <3> QED BY <1>1, <1>2, <3>1
  <2> QED BY <2>1, <2>2
<1>5. f.type = "token" => OnlyTokens(v)
  <2> SUFFICES ASSUME f.type = "token", NEW i \in 1 .. Len(v) PROVE v[i].type = "token"
    BY DEF OnlyTokens
  <2>1. i = Len(v) \/ i \in 1 .. Len(w)
    BY <1>1
  <2> QED BY <1>1, <1>2, <2>1
<1>6. NoDone(w) /\ f.type # "done" => NoDone(v)
  <2> SUFFICES ASSUME f.type # "done", NEW i \in 1 .. Len(v) PROVE v[i].type # "done"
    BY DEF NoDone
  <2>1. i = Len(v) \/ i \in 1 .. Len(w)
    BY <1>1
  <2> QED BY <1>1, <1>2, <2>1
<1> QED BY <1>1, <1>4, <1>5, <1>6 DEF v

-----------------------------------------------------------------------------
ChatType == [pc : {"new", "route", "remote", "local", "answered", "end", "closed"},
             id : Nat, round : 0 .. MaxRounds, shown : Seq(Tokens), tools : BOOLEAN,
             end : {"none", "done", "rounds"}, error : BOOLEAN]
RunType == [pc : {"none", "request", "generate", "exit"},
            at : Worker \cup {Nobody}, sent : 0 .. Length, cancelled : BOOLEAN]
Runs == Chat \X (0 .. MaxRounds - 1)

LlmTyped ==
    /\ iNextID \in [Requester -> Nat]
    /\ iChat \in [Chat -> ChatType]
    /\ iSessions \subseteq Chat /\ iGone \subseteq Chat
    /\ iServing \in [Runs -> RunType]
    /\ iActive \in [Worker -> SUBSET Runs]
    /\ iWire \in [Chat -> Seq(Frame)]

\* LlmTyped is the type invariant of the chats.
LEMMA SameTypes == LlmTyped <=> Llm!TypeOK
BY DEF LlmTyped, ChatType, RunType, Runs, Frame, Tokens, Llm!TypeOK, Llm!Run

\* A run that has ended gives no more tokens.
RunsShaped ==
    \A r \in Runs : /\ iServing[r].pc = "request" => iServing[r].sent = 0
                    /\ iServing[r].pc = "generate" => iServing[r].sent < Length

\* What a chat has shown, and what is on the way to it, at every step.
ChatShaped(c) ==
    /\ iChat[c].pc \in {"new", "route"} => iChat[c].shown = <<>>
    /\ iChat[c].pc = "new" => iChat[c].round = 0
    /\ iChat[c].pc \in {"route", "remote", "local", "answered"} => iChat[c].round < MaxRounds
    /\ iChat[c].pc = "local" => LocalSoFar(iChat[c].shown)
    /\ iChat[c].pc = "remote" =>
         /\ FromWorker(iChat[c].shown) /\ Frames(iWire[c], Len(iChat[c].shown))
         /\ iServing[<<c, iChat[c].round>>].pc = "request" =>
              iWire[c] = <<>> /\ iChat[c].shown = <<>>
         /\ iServing[<<c, iChat[c].round>>].pc = "generate" =>
              /\ OnlyTokens(iWire[c])
              /\ iServing[<<c, iChat[c].round>>].sent = Len(iChat[c].shown) + Len(iWire[c])

LlmShaped == LlmTyped /\ RunsShaped /\ \A c \in Chat : ChatShaped(c)

\* Sessions of a node have numbers of their own.
IdsSound ==
    /\ \A c \in Chat : iChat[c].pc # "new" => iChat[c].id <= iNextID[OwnerOf[c]]
    /\ \A c, d \in Chat : /\ c # d /\ OwnerOf[c] = OwnerOf[d]
                          /\ iChat[c].pc # "new" /\ iChat[d].pc # "new"
                          => iChat[c].id # iChat[d].id

\* The run that a chat reads is not cancelled, so that the worker does not end it as done.
ChatSound(c) ==
    /\ iChat[c].pc = "remote" => /\ ~iServing[<<c, iChat[c].round>>].cancelled
                                 /\ NoDone(iWire[c])
    /\ iChat[c].pc = "answered" /\ ~iChat[c].tools /\ ~iChat[c].error /\ c \notin iGone
         => EndsWhole(iChat[c].shown)
    /\ iChat[c].end = "done" =>
         /\ iChat[c].pc \in {"end", "closed"}
         /\ ~iChat[c].error /\ c \notin iGone => EndsWhole(iChat[c].shown)

LlmSound == IdsSound /\ \A c \in Chat : ChatSound(c)

\* Initially no chat has begun.
LEMMA LlmInit == Llm!Init => LlmShaped /\ LlmSound
<1> SUFFICES ASSUME Llm!Init PROVE LlmShaped /\ LlmSound
  OBVIOUS
<1>1. LlmTyped
  BY ServiceAssumption
  DEF Llm!Init, LlmTyped, ChatType, RunType, Runs, Llm!Run, Llm!NoRun
<1>2. RunsShaped /\ \A c \in Chat : ChatShaped(c)
  BY DEF Llm!Init, RunsShaped, ChatShaped, Runs, Llm!Run, Llm!NoRun
<1>3. IdsSound /\ \A c \in Chat : ChatSound(c)
  BY DEF Llm!Init, IdsSound, ChatSound
<1> QED BY <1>1, <1>2, <1>3 DEF LlmShaped, LlmSound

\* A chat is shaped as it was when nothing of it changed.
LEMMA SameShape ==
    ASSUME NEW c \in Chat, ChatShaped(c), iChat'[c] = iChat[c],
           iChat[c].pc = "remote" =>
              /\ iWire'[c] = iWire[c]
              /\ iServing'[<<c, iChat[c].round>>].pc = iServing[<<c, iChat[c].round>>].pc
              /\ iServing'[<<c, iChat[c].round>>].sent = iServing[<<c, iChat[c].round>>].sent
    PROVE  ChatShaped(c)'
BY DEF ChatShaped

\* A step of one chat leaves the others as they are.
LEMMA ChatMoved ==
    ASSUME LlmTyped, NEW c \in Chat, NEW x \in ChatType, iChat' = [iChat EXCEPT ![c] = x]
    PROVE  /\ iChat' \in [Chat -> ChatType] /\ iChat'[c] = x
           /\ \A d \in Chat \ {c} : iChat'[d] = iChat[d]
BY DEF LlmTyped

\* A chat is registered.
LEMMA ChatsShaped == ASSUME LlmShaped, NEW c \in Chat, Llm!Chats(c) PROVE LlmShaped'
<1> DEFINE n == iNextID[OwnerOf[c]]
           x == [iChat[c] EXCEPT !.pc = "route", !.id = n + 1]
<1>1. /\ iChat[c].pc = "new" /\ OwnerOf[c] \in Requester
      /\ iNextID' = [iNextID EXCEPT ![OwnerOf[c]] = @ + 1]
      /\ iChat' = [iChat EXCEPT ![c] = x]
      /\ iSessions' = iSessions \cup {c}
      /\ UNCHANGED <<iGone, iServing, iActive, iWire>>
  BY ServiceAssumption DEF Llm!Chats, Llm!At
<1>2. n \in Nat /\ iChat[c] \in ChatType
  BY <1>1 DEF LlmShaped, LlmTyped
<1>3. /\ x \in ChatType /\ x.pc = "route" /\ x.shown = iChat[c].shown
      /\ x.round = iChat[c].round
  <2>1. n + 1 \in Nat
    BY <1>2
  <2> HIDE DEF n
  <2> QED BY <1>2, <2>1 DEF ChatType
<1> HIDE DEF n, x
<1>4. iNextID' \in [Requester -> Nat]
  BY <1>1, <1>2 DEF LlmShaped, LlmTyped, n
<1>5. ChatShaped(c)'
  <2>1. iChat[c].shown = <<>> /\ iChat[c].round = 0
    BY <1>1 DEF LlmShaped, ChatShaped
  <2>2. iChat'[c].pc = "route" /\ iChat'[c].shown = <<>> /\ iChat'[c].round = 0
    BY <1>1, <1>3, <2>1, ChatMoved DEF LlmShaped
  <2> QED BY <2>2, ServiceAssumption DEF ChatShaped
<1>6. \A d \in Chat \ {c} : ChatShaped(d)'
  BY <1>1, <1>3, ChatMoved, SameShape DEF LlmShaped
<1> QED
  BY <1>1, <1>3, <1>4, <1>5, <1>6, ChatMoved DEF LlmShaped, LlmTyped, RunsShaped

\* A chat goes to a worker, with an empty stream.
LEMMA RouteToShaped ==
    ASSUME LlmShaped, NEW c \in Chat, NEW w \in Worker, Llm!RouteTo(c, w) PROVE LlmShaped'
<1> DEFINE r == <<c, iChat[c].round>>
           v == [Llm!NoRun EXCEPT !.pc = "request", !.at = w]
           x == [iChat[c] EXCEPT !.pc = "remote"]
<1>1. /\ iChat[c].pc = "route"
      /\ iChat' = [iChat EXCEPT ![c] = x]
      /\ iServing' = [iServing EXCEPT ![r] = v]
      /\ iWire' = [iWire EXCEPT ![c] = <<>>]
      /\ UNCHANGED <<iNextID, iSessions, iGone, iActive>>
  BY DEF Llm!RouteTo, Llm!At, Llm!Go, Llm!Current
<1>2. /\ iChat[c].round \in 0 .. MaxRounds - 1 /\ r \in Runs /\ iChat[c].shown = <<>>
      /\ iChat[c] \in ChatType
  BY <1>1, ServiceAssumption DEF LlmShaped, LlmTyped, ChatType, ChatShaped, Runs
<1>3. v \in RunType /\ v.pc = "request" /\ v.sent = 0
  <2>1. Llm!NoRun \in RunType /\ Llm!NoRun.sent = 0
    BY ServiceAssumption DEF Llm!NoRun, RunType
  <2> QED BY <2>1 DEF RunType
<1>4. /\ x \in ChatType /\ x.pc = "remote" /\ x.shown = iChat[c].shown
      /\ x.round = iChat[c].round
  BY <1>2 DEF ChatType
<1> HIDE DEF x, v
<1>5. /\ iServing' \in [Runs -> RunType] /\ iServing'[r] = v
      /\ \A q \in Runs \ {r} : iServing'[q] = iServing[q]
  BY <1>1, <1>2, <1>3 DEF LlmShaped, LlmTyped
<1>6. /\ iWire' \in [Chat -> Seq(Frame)] /\ iWire'[c] = <<>>
      /\ \A d \in Chat \ {c} : iWire'[d] = iWire[d]
  BY <1>1 DEF LlmShaped, LlmTyped
<1>7. LlmTyped' /\ RunsShaped'
  BY <1>1, <1>3, <1>4, <1>5, <1>6, ChatMoved DEF LlmShaped, LlmTyped, RunsShaped
<1>8. ChatShaped(c)'
  <2>1. FromWorker(<<>>) /\ Frames(<<>>, 0) /\ Len(iChat[c].shown) = 0
    BY <1>2, ServiceAssumption DEF FromWorker, Frames
  <2>2. iChat'[c] = x /\ iServing'[<<c, iChat'[c].round>>].pc = "request"
    BY <1>1, <1>3, <1>4, <1>5, ChatMoved DEF LlmShaped
  <2> QED BY <1>2, <1>4, <1>6, <2>1, <2>2, ServiceAssumption DEF ChatShaped
<1>9. ASSUME NEW d \in Chat \ {c} PROVE ChatShaped(d)'
  <2>1. iChat[d].pc = "remote" =>
          <<d, iChat[d].round>> \in Runs /\ <<d, iChat[d].round>> # r
    BY ServiceAssumption DEF LlmShaped, LlmTyped, ChatType, ChatShaped, Runs
  <2>2. iChat'[d] = iChat[d]
    BY <1>1, <1>4, ChatMoved DEF LlmShaped
  <2> QED BY <1>5, <1>6, <2>1, <2>2, SameShape DEF LlmShaped
<1> QED BY <1>7, <1>8, <1>9 DEF LlmShaped

\* A step of the chat alone, to a place where it reads no stream.
LEMMA AloneShaped ==
    ASSUME LlmShaped, NEW c \in Chat, NEW x \in ChatType, iChat' = [iChat EXCEPT ![c] = x],
           x.pc \notin {"new", "remote"},
           x.pc = "route" => x.shown = <<>>,
           x.pc \in {"route", "local", "answered"} => x.round < MaxRounds,
           x.pc = "local" => LocalSoFar(x.shown),
           iSessions' \subseteq Chat, iWire' \in [Chat -> Seq(Frame)],
           \A d \in Chat \ {c} : iWire'[d] = iWire[d],
           UNCHANGED <<iNextID, iGone, iServing, iActive>>
    PROVE  LlmShaped'
<1>1. ChatShaped(c)'
  BY ChatMoved DEF LlmShaped, ChatShaped
<1>2. \A d \in Chat \ {c} : ChatShaped(d)'
  BY ChatMoved, SameShape DEF LlmShaped
<1> QED BY <1>1, <1>2, ChatMoved DEF LlmShaped, LlmTyped, RunsShaped

\* What a worker has given is no hindrance to the local server.
LEMMA ToLocal == ASSUME NEW s, FromWorker(s) \/ s = <<>>, s \in Seq(Tokens) PROVE LocalSoFar(s)
<1>1. CASE s # <<>>
  <2>1. Len(s) \in 1 .. Len(s)
    BY <1>1
  <2>2. s[Len(s)] = <<"worker", Len(s)>>
    BY <1>1, <2>1 DEF FromWorker
  <2> QED BY <2>2 DEF LocalSoFar
<1> QED BY <1>1 DEF LocalSoFar

\* A chat is sound as it was when nothing of it changed.
LEMMA SameSound ==
    ASSUME NEW c \in Chat, ChatSound(c), iChat'[c] = iChat[c],
           c \in iGone => c \in iGone',
           iChat[c].pc = "remote" =>
              /\ iWire'[c] = iWire[c]
              /\ iServing'[<<c, iChat[c].round>>].cancelled = iServing[<<c, iChat[c].round>>].cancelled
    PROVE  ChatSound(c)'
BY DEF ChatSound

\* A chat that has its number goes on.
LEMMA AloneSound ==
    ASSUME LlmShaped, LlmSound, NEW c \in Chat, NEW x \in ChatType,
           iChat' = [iChat EXCEPT ![c] = x], iChat[c].pc # "new",
           x.pc # "new", x.id = iChat[c].id,
           x.pc = "remote" => /\ iChat[c].pc = "remote" /\ x.round = iChat[c].round
                              /\ NoDone(iWire'[c]),
           x.pc = "answered" /\ ~x.tools /\ ~x.error /\ c \notin iGone => EndsWhole(x.shown),
           x.end = "done" => /\ x.pc \in {"end", "closed"}
                             /\ ~x.error /\ c \notin iGone => EndsWhole(x.shown),
           \A d \in Chat \ {c} : iWire'[d] = iWire[d],
           UNCHANGED <<iNextID, iGone, iServing, iActive>>
    PROVE  LlmSound'
<1>1. iChat'[c] = x /\ \A d \in Chat \ {c} : iChat'[d] = iChat[d]
  BY ChatMoved DEF LlmShaped
<1>2. IdsSound'
  BY <1>1 DEF LlmSound, IdsSound
<1>4. ChatSound(c)'
  BY <1>1 DEF LlmSound, ChatSound
<1>5. \A d \in Chat \ {c} : ChatSound(d)'
  BY <1>1, SameSound DEF LlmSound
<1> QED BY <1>2, <1>4, <1>5 DEF LlmSound

\* The session takes a number that no other of its node has.
LEMMA ChatsSound == ASSUME LlmShaped, LlmSound, NEW c \in Chat, Llm!Chats(c) PROVE LlmSound'
<1> DEFINE n == iNextID[OwnerOf[c]]
           x == [iChat[c] EXCEPT !.pc = "route", !.id = n + 1]
<1>1. /\ iChat[c].pc = "new" /\ OwnerOf[c] \in Requester
      /\ iNextID' = [iNextID EXCEPT ![OwnerOf[c]] = @ + 1]
      /\ iChat' = [iChat EXCEPT ![c] = x]
      /\ UNCHANGED <<iGone, iServing, iActive, iWire>>
  BY ServiceAssumption DEF Llm!Chats, Llm!At
<1>2. n \in Nat /\ iChat[c] \in ChatType
  BY <1>1 DEF LlmShaped, LlmTyped
<1>3. /\ x \in ChatType /\ x.pc = "route" /\ x.id = n + 1 /\ x.end = iChat[c].end
  <2>1. n + 1 \in Nat
    BY <1>2
  <2> HIDE DEF n
  <2> QED BY <1>2, <2>1 DEF ChatType
<1> HIDE DEF n, x
<1>4. iChat'[c] = x /\ \A d \in Chat \ {c} : iChat'[d] = iChat[d]
  BY <1>1, <1>3, ChatMoved DEF LlmShaped
<1>5. iNextID'[OwnerOf[c]] = n + 1
      /\ \A m \in Requester \ {OwnerOf[c]} : iNextID'[m] = iNextID[m]
  BY <1>1 DEF LlmShaped, LlmTyped, n
<1>6. \A d \in Chat : OwnerOf[d] \in Requester /\ iChat[d].id \in Nat
  BY ServiceAssumption DEF LlmShaped, LlmTyped, ChatType
<1>7. \A d \in Chat : iChat[d].pc # "new" /\ OwnerOf[d] = OwnerOf[c] => iChat[d].id <= n
  BY DEF LlmSound, IdsSound, n
<1>8. IdsSound'
  <2>1. \A d \in Chat : iChat'[d].pc # "new" => iChat'[d].id <= iNextID'[OwnerOf[d]]
    <3> TAKE d \in Chat
    <3>1. CASE d = c
      BY <1>2, <1>3, <1>4, <1>5, <3>1
    <3>2. CASE d # c /\ OwnerOf[d] = OwnerOf[c]
      BY <1>2, <1>4, <1>5, <1>6, <1>7, <3>2
    <3>3. CASE OwnerOf[d] # OwnerOf[c]
      BY <1>4, <1>5, <1>6, <3>3 DEF LlmSound, IdsSound
    <3> QED BY <3>1, <3>2, <3>3
  <2>2. \A d \in Chat \ {c} : iChat[d].pc # "new" /\ OwnerOf[d] = OwnerOf[c]
                              => iChat[d].id # x.id
    BY <1>2, <1>3, <1>6, <1>7
  <2> QED BY <1>4, <2>1, <2>2 DEF LlmSound, IdsSound
<1>10. ChatSound(c)'
  BY <1>1, <1>3, <1>4 DEF LlmSound, ChatSound
<1>11. \A d \in Chat \ {c} : ChatSound(d)'
  BY <1>1, <1>4, SameSound DEF LlmSound
<1> QED BY <1>8, <1>10, <1>11 DEF LlmSound

\* The run that a worker begins is not cancelled.
LEMMA RouteToSound ==
    ASSUME LlmShaped, LlmSound, NEW c \in Chat, NEW w \in Worker, Llm!RouteTo(c, w) PROVE LlmSound'
<1> DEFINE r == <<c, iChat[c].round>>
           v == [Llm!NoRun EXCEPT !.pc = "request", !.at = w]
           x == [iChat[c] EXCEPT !.pc = "remote"]
<1>1. /\ iChat[c].pc = "route"
      /\ iChat' = [iChat EXCEPT ![c] = x]
      /\ iServing' = [iServing EXCEPT ![r] = v]
      /\ iWire' = [iWire EXCEPT ![c] = <<>>]
      /\ UNCHANGED <<iNextID, iSessions, iGone, iActive>>
  BY DEF Llm!RouteTo, Llm!At, Llm!Go, Llm!Current
<1>2. iChat[c].round \in 0 .. MaxRounds - 1 /\ r \in Runs /\ iChat[c] \in ChatType
  BY <1>1, ServiceAssumption DEF LlmShaped, LlmTyped, ChatType, ChatShaped, Runs
<1>3. v.cancelled = FALSE
  <2>1. Llm!NoRun \in RunType /\ Llm!NoRun.cancelled = FALSE
    BY ServiceAssumption DEF Llm!NoRun, RunType
  <2> QED BY <2>1 DEF RunType
<1>4. /\ x \in ChatType /\ x.pc = "remote" /\ x.id = iChat[c].id /\ x.end = iChat[c].end
      /\ x.round = iChat[c].round
  BY <1>2 DEF ChatType
<1> HIDE DEF x, v
<1>5. iServing'[r] = v /\ \A q \in Runs \ {r} : iServing'[q] = iServing[q]
  BY <1>1, <1>2 DEF LlmShaped, LlmTyped
<1>6. iWire'[c] = <<>> /\ \A d \in Chat \ {c} : iWire'[d] = iWire[d]
  BY <1>1 DEF LlmShaped, LlmTyped
<1>7. iChat'[c] = x /\ \A d \in Chat \ {c} : iChat'[d] = iChat[d]
  BY <1>1, <1>4, ChatMoved DEF LlmShaped
<1>8. IdsSound'
  BY <1>1, <1>4, <1>7 DEF LlmSound, IdsSound
<1>9. ChatSound(c)'
  <2>1. NoDone(<<>>)
    BY DEF NoDone
  <2>2. iServing'[<<c, iChat'[c].round>>].cancelled = FALSE
    BY <1>3, <1>4, <1>5, <1>7
  <2> QED BY <1>1, <1>4, <1>6, <1>7, <2>1, <2>2 DEF LlmSound, ChatSound
<1>10. ASSUME NEW d \in Chat \ {c} PROVE ChatSound(d)'
  <2>1. iChat[d].pc = "remote" =>
          <<d, iChat[d].round>> \in Runs /\ <<d, iChat[d].round>> # r
    BY ServiceAssumption DEF LlmShaped, LlmTyped, ChatType, ChatShaped, Runs
  <2> QED BY <1>1, <1>5, <1>6, <1>7, <2>1, SameSound DEF LlmSound
<1> QED BY <1>8, <1>9, <1>10 DEF LlmSound

Keeps == LlmShaped' /\ (LlmSound => LlmSound')

\* A frame is read.
LEMMA ReadFrameKeeps == ASSUME LlmShaped, NEW c \in Chat, Llm!ReadFrame(c) PROVE Keeps
<1> DEFINE s == iChat[c].shown
           f == Head(iWire[c])
           k == Len(s) + 1
           more == Append(s, <<"worker", k>>)
<1>1. /\ iChat[c].pc = "remote" /\ iWire[c] # <<>> /\ iWire' = [iWire EXCEPT ![c] = Tail(@)]
      /\ iChat[c] \in ChatType /\ s \in Seq(Tokens) /\ Len(s) \in Nat
      /\ UNCHANGED <<iNextID, iSessions, iGone, iServing, iActive>>
  BY DEF Llm!ReadFrame, Llm!At, LlmShaped, LlmTyped, ChatType
<1>2. /\ FromWorker(s) /\ Frames(iWire[c], Len(s)) /\ iWire[c] \in Seq(Frame)
      /\ iChat[c].round < MaxRounds
  BY <1>1 DEF LlmShaped, LlmTyped, ChatShaped
<1>3. /\ f \in Frame /\ Tail(iWire[c]) \in Seq(Frame) /\ Len(iWire[c]) = Len(Tail(iWire[c])) + 1
      /\ f.type = "token" => f.k = k /\ k <= Length /\ Frames(Tail(iWire[c]), k)
      /\ OnlyTokens(iWire[c]) => f.type = "token" /\ OnlyTokens(Tail(iWire[c]))
      /\ NoDone(iWire[c]) => f.type # "done" /\ NoDone(Tail(iWire[c]))
  BY <1>1, <1>2, FrameRead
<1>4. /\ iWire' \in [Chat -> Seq(Frame)] /\ iWire'[c] = Tail(iWire[c])
      /\ \A d \in Chat \ {c} : iWire'[d] = iWire[d]
  BY <1>1, <1>3 DEF LlmShaped, LlmTyped
<1>5. LlmSound => /\ ~iServing[<<c, iChat[c].round>>].cancelled /\ NoDone(iWire[c])
                  /\ iChat[c].end # "done"
  BY <1>1 DEF LlmSound, ChatSound
<1>6. CASE f.type = "token" /\ k # Length
  <2> DEFINE x == [iChat[c] EXCEPT !.shown = more, !.pc = "remote"]
  <2>1. iChat' = [iChat EXCEPT ![c] = x]
    BY <1>3, <1>6 DEF Llm!ReadFrame
  <2>2. more \in Seq(Tokens) /\ Len(more) = k /\ FromWorker(more)
    <3>1. more \in Seq(Tokens) /\ FromWorker(more)
      BY <1>1, <1>2, <1>6, WorkerToken
    <3> QED BY <1>1, <3>1
  <2> HIDE DEF more
  <2>3. /\ x \in ChatType /\ x.pc = "remote" /\ x.shown = more /\ x.round = iChat[c].round
        /\ x.id = iChat[c].id /\ x.end = iChat[c].end
    BY <1>1, <2>2 DEF ChatType
  <2> HIDE DEF x
  <2>4. iChat'[c] = x /\ \A d \in Chat \ {c} : iChat'[d] = iChat[d] /\ iChat' \in [Chat -> ChatType]
    BY <2>1, <2>3, ChatMoved DEF LlmShaped
  <2>5. ChatShaped(c)'
    <3> DEFINE r == <<c, iChat[c].round>>
    <3>1. iServing[r].pc # "request"
      BY <1>1 DEF LlmShaped, ChatShaped
    <3>2. iServing[r].pc = "generate" =>
            OnlyTokens(iWire[c]) /\ iServing[r].sent = Len(s) + Len(iWire[c])
      BY <1>1 DEF LlmShaped, ChatShaped
    <3>3. iServing[r].pc = "generate" =>
            OnlyTokens(iWire'[c]) /\ iServing[r].sent = Len(more) + Len(iWire'[c])
      BY <1>1, <1>3, <1>4, <2>2, <3>2
    <3> QED
      BY <1>1, <1>2, <1>3, <1>4, <1>6, <2>2, <2>3, <2>4, <3>1, <3>3 DEF ChatShaped
  <2>6. LlmShaped'
    BY <1>1, <1>4, <2>1, <2>3, <2>4, <2>5, ChatMoved, SameShape
    DEF LlmShaped, LlmTyped, RunsShaped
  <2>7. LlmSound => LlmSound'
    BY <1>1, <1>3, <1>4, <1>5, <2>1, <2>3, AloneSound
  <2> QED BY <2>6, <2>7 DEF Keeps
<1>7. CASE f.type = "token" /\ k = Length
  <2> DEFINE x == [iChat[c] EXCEPT !.shown = more, !.pc = "answered"]
  <2>1. iChat' = [iChat EXCEPT ![c] = x]
    BY <1>3, <1>7 DEF Llm!ReadFrame
  <2>2. more \in Seq(Tokens) /\ EndsWhole(more)
    BY <1>1, <1>2, <1>7, WorkerToken
  <2> HIDE DEF more
  <2>3. /\ x \in ChatType /\ x.pc = "answered" /\ x.shown = more /\ x.round = iChat[c].round
        /\ x.id = iChat[c].id /\ x.end = iChat[c].end
    BY <1>1, <2>2 DEF ChatType
  <2> HIDE DEF x
  <2>4. LlmShaped'
    BY <1>1, <1>2, <1>4, <2>1, <2>3, AloneShaped DEF LlmShaped, LlmTyped
  <2>5. LlmSound => LlmSound'
    BY <1>1, <1>4, <1>5, <2>1, <2>2, <2>3, AloneSound
  <2> QED BY <2>4, <2>5 DEF Keeps
<1>8. CASE f.type # "token"
  <2> DEFINE pc == IF f.type = "done" THEN "answered" ELSE "local"
             x == [iChat[c] EXCEPT !.pc = pc]
  <2>1. pc \in {"answered", "local"} /\ (pc = "answered" => f.type = "done")
    OBVIOUS
  <2>2. iChat' = [iChat EXCEPT ![c] = x]
    <3>1. CASE f.type = "done"
      BY <3>1 DEF Llm!ReadFrame
    <3>2. CASE f.type # "done"
      BY <1>8, <3>2 DEF Llm!ReadFrame
    <3> QED BY <3>1, <3>2
  <2> HIDE DEF pc
  <2>3. /\ x \in ChatType /\ x.pc = pc /\ x.shown = s /\ x.round = iChat[c].round
        /\ x.id = iChat[c].id /\ x.end = iChat[c].end
    BY <1>1, <2>1 DEF ChatType
  <2> HIDE DEF x
  <2>4. LocalSoFar(s)
    BY <1>1, <1>2, ToLocal
  <2>5. LlmShaped'
    BY <1>1, <1>2, <1>4, <2>1, <2>2, <2>3, <2>4, AloneShaped DEF LlmShaped, LlmTyped
  <2>6. ASSUME LlmSound PROVE LlmSound'
    <3>1. x.pc = "local" /\ x.end # "done"
      BY <1>3, <1>5, <2>1, <2>3, <2>6
    <3> QED BY <1>1, <1>4, <2>2, <2>3, <2>6, <3>1, AloneSound
  <2> QED BY <2>5, <2>6 DEF Keeps
<1> QED BY <1>6, <1>7, <1>8

\* The stream is given up, or none is tried.
LEMMA GoLocalKeeps ==
    ASSUME LlmShaped, NEW c \in Chat, Llm!RouteLocally(c) \/ Llm!StreamFails(c) PROVE Keeps
<1> DEFINE x == [iChat[c] EXCEPT !.pc = "local"]
<1>1. /\ iChat[c].pc \in {"route", "remote"} /\ iChat' = [iChat EXCEPT ![c] = x]
      /\ UNCHANGED <<iNextID, iSessions, iGone, iServing, iActive, iWire>>
  BY DEF Llm!RouteLocally, Llm!StreamFails, Llm!At, Llm!Go
<1>2. /\ iChat[c] \in ChatType /\ iChat[c].shown \in Seq(Tokens)
      /\ iChat[c].shown = <<>> \/ FromWorker(iChat[c].shown)
      /\ iChat[c].round < MaxRounds
  BY <1>1 DEF LlmShaped, LlmTyped, ChatType, ChatShaped
<1>3. /\ x \in ChatType /\ x.pc = "local" /\ x.shown = iChat[c].shown
      /\ x.round = iChat[c].round /\ x.id = iChat[c].id /\ x.end = iChat[c].end
  BY <1>2 DEF ChatType
<1> HIDE DEF x
<1>4. LocalSoFar(iChat[c].shown)
  BY <1>2, ToLocal
<1>5. LlmShaped'
  BY <1>1, <1>2, <1>3, <1>4, AloneShaped DEF LlmShaped, LlmTyped
<1>6. ASSUME LlmSound PROVE LlmSound'
  <2>1. x.end # "done"
    BY <1>1, <1>3, <1>6 DEF LlmSound, ChatSound
  <2> QED BY <1>1, <1>3, <1>6, <2>1, AloneSound
<1> QED BY <1>5, <1>6 DEF Keeps

\* The local server goes on, or ends in tool calls.
LEMMA LocalTokenKeeps == ASSUME LlmShaped, NEW c \in Chat, Llm!LocalToken(c) PROVE Keeps
<1> DEFINE s == iChat[c].shown
           k == IF s = <<>> \/ Llm!Last(s)[1] = "worker" THEN 1 ELSE Llm!Last(s)[2] + 1
           more == Append(s, <<"local", k>>)
           pc == IF k = Length THEN "answered" ELSE "local"
           x == [iChat[c] EXCEPT !.shown = more, !.pc = pc]
           y == [iChat[c] EXCEPT !.tools = TRUE, !.pc = "answered"]
<1>1. /\ iChat[c].pc = "local" /\ iChat[c] \in ChatType /\ s \in Seq(Tokens)
      /\ LocalSoFar(s) /\ iChat[c].round < MaxRounds
      /\ UNCHANGED <<iNextID, iSessions, iGone, iServing, iActive, iWire>>
      /\ iSessions \subseteq Chat /\ iWire \in [Chat -> Seq(Frame)]
  BY DEF Llm!LocalToken, Llm!At, LlmShaped, LlmTyped, ChatShaped, ChatType
<1>2. iChat' = [iChat EXCEPT ![c] = x] \/ iChat' = [iChat EXCEPT ![c] = y]
  BY DEF Llm!LocalToken
<1>3. /\ more \in Seq(Tokens) /\ (k = Length => EndsWhole(more))
      /\ k # Length => LocalSoFar(more)
  BY <1>1, LocalAppended
<1>4. /\ pc \in {"answered", "local"} /\ (pc = "answered" => EndsWhole(more))
      /\ pc = "local" => LocalSoFar(more)
  BY <1>3
<1> HIDE DEF more, pc
<1>5. /\ x \in ChatType /\ x.pc = pc /\ x.shown = more
      /\ x.round = iChat[c].round /\ x.id = iChat[c].id /\ x.end = iChat[c].end
  BY <1>1, <1>3, <1>4 DEF ChatType
<1>6. /\ y \in ChatType /\ y.pc = "answered" /\ y.tools
      /\ y.round = iChat[c].round /\ y.id = iChat[c].id /\ y.end = iChat[c].end
  BY <1>1 DEF ChatType
<1> HIDE DEF x, y
<1>7. CASE iChat' = [iChat EXCEPT ![c] = x]
  <2>1. LlmShaped'
    BY <1>1, <1>4, <1>5, <1>7, AloneShaped
  <2>2. ASSUME LlmSound PROVE LlmSound'
    <3>1. x.end # "done"
      BY <1>1, <1>5, <2>2 DEF LlmSound, ChatSound
    <3> QED BY <1>1, <1>4, <1>5, <1>7, <2>2, <3>1, AloneSound
  <2> QED BY <2>1, <2>2 DEF Keeps
<1>8. CASE iChat' = [iChat EXCEPT ![c] = y]
  <2>1. LlmShaped'
    BY <1>1, <1>6, <1>8, AloneShaped
  <2>2. ASSUME LlmSound PROVE LlmSound'
    <3>1. y.end # "done"
      BY <1>1, <1>6, <2>2 DEF LlmSound, ChatSound
    <3> QED BY <1>1, <1>6, <1>8, <2>2, <3>1, AloneSound
  <2> QED BY <2>1, <2>2 DEF Keeps
<1> QED BY <1>2, <1>7, <1>8

\* A failure is announced, or the chat was cancelled.
LEMMA LocalFailsKeeps == ASSUME LlmShaped, NEW c \in Chat, Llm!LocalFails(c) PROVE Keeps
<1> DEFINE e == iChat[c].error \/ c \notin iGone
           x == [iChat[c] EXCEPT !.pc = "answered", !.error = e]
<1>1. /\ iChat[c].pc = "local" /\ iChat[c] \in ChatType /\ iChat[c].round < MaxRounds
      /\ iChat' = [iChat EXCEPT ![c] = x]
      /\ UNCHANGED <<iNextID, iSessions, iGone, iServing, iActive, iWire>>
      /\ iSessions \subseteq Chat /\ iWire \in [Chat -> Seq(Frame)]
  BY DEF Llm!LocalFails, Llm!At, LlmShaped, LlmTyped, ChatShaped, ChatType
<1>2. e \in BOOLEAN /\ (~e => c \in iGone)
  OBVIOUS
<1> HIDE DEF e
<1>3. /\ x \in ChatType /\ x.pc = "answered" /\ x.error = e
      /\ x.round = iChat[c].round /\ x.id = iChat[c].id /\ x.end = iChat[c].end
  BY <1>1, <1>2 DEF ChatType
<1> HIDE DEF x
<1>4. LlmShaped'
  BY <1>1, <1>3, AloneShaped
<1>5. ASSUME LlmSound PROVE LlmSound'
  <2>1. x.end # "done" /\ (~x.error => c \in iGone)
    BY <1>1, <1>2, <1>3, <1>5 DEF LlmSound, ChatSound
  <2> QED BY <1>1, <1>3, <1>5, <2>1, AloneSound
<1> QED BY <1>4, <1>5 DEF Keeps

\* Tools are called and the chat goes into its next round, or has had its last.
LEMMA NextRoundKeeps == ASSUME LlmShaped, NEW c \in Chat, Llm!NextRound(c) PROVE Keeps
<1> DEFINE n == iChat[c].round + 1
           pc == IF n = MaxRounds THEN "end" ELSE "route"
           over == IF n = MaxRounds THEN "rounds" ELSE "none"
           x == [iChat[c] EXCEPT !.round = n, !.tools = FALSE, !.shown = <<>>, !.pc = pc,
                                 !.end = over]
<1>1. /\ iChat[c].pc = "answered" /\ iChat[c] \in ChatType
      /\ iChat[c].round < MaxRounds /\ iChat[c].round \in Nat
      /\ UNCHANGED <<iNextID, iSessions, iGone, iServing, iActive, iWire>>
      /\ iSessions \subseteq Chat /\ iWire \in [Chat -> Seq(Frame)]
  BY ServiceAssumption DEF Llm!NextRound, Llm!At, LlmShaped, LlmTyped, ChatShaped, ChatType
<1>2. iChat' = [iChat EXCEPT ![c] = x]
  BY DEF Llm!NextRound
<1>3. /\ n \in 0 .. MaxRounds /\ pc \in {"end", "route"} /\ over \in {"rounds", "none"}
      /\ pc = "route" => n < MaxRounds
  <2>1. n \in 0 .. MaxRounds
    BY <1>1, ServiceAssumption
  <2> HIDE DEF n, x
  <2> QED BY <2>1, ServiceAssumption
<1> HIDE DEF n, pc, over
<1>4. /\ x \in ChatType /\ x.pc = pc /\ x.shown = <<>> /\ x.round = n
      /\ x.id = iChat[c].id /\ x.end = over
  <2> DEFINE y == [iChat[c] EXCEPT !.round = n, !.tools = FALSE, !.shown = <<>>]
  <2>1. y \in ChatType /\ y.shown = <<>> /\ y.round = n /\ y.id = iChat[c].id
    <3> DEFINE z == [iChat[c] EXCEPT !.round = n]
               e == <<>>
    <3>1. z \in ChatType /\ z.round = n /\ z.id = iChat[c].id
      BY <1>1, <1>3 DEF ChatType
    <3>2. y = [z EXCEPT !.tools = FALSE, !.shown = e] /\ e \in Seq(Tokens)
      OBVIOUS
    <3> HIDE DEF y, z, e
    <3>3. y \in ChatType /\ y.shown = e /\ y.round = n /\ y.id = iChat[c].id
      BY <3>1, <3>2 DEF ChatType
    <3> QED BY <3>3 DEF e
  <2>2. x = [y EXCEPT !.pc = pc, !.end = over]
    OBVIOUS
  <2> HIDE DEF x, y
  <2> QED BY <1>3, <2>1, <2>2 DEF ChatType
<1> HIDE DEF x
<1>5. LlmShaped'
  BY <1>1, <1>2, <1>3, <1>4, AloneShaped
<1>6. LlmSound => LlmSound'
  BY <1>1, <1>2, <1>3, <1>4, AloneSound
<1> QED BY <1>5, <1>6 DEF Keeps

\* The answer without tool calls is the last.
LEMMA FinalKeeps == ASSUME LlmShaped, NEW c \in Chat, Llm!Final(c) PROVE Keeps
<1> DEFINE x == [iChat[c] EXCEPT !.pc = "end", !.end = "done"]
<1>1. /\ iChat[c].pc = "answered" /\ ~iChat[c].tools /\ iChat[c] \in ChatType
      /\ iChat' = [iChat EXCEPT ![c] = x]
      /\ UNCHANGED <<iNextID, iSessions, iGone, iServing, iActive, iWire>>
      /\ iSessions \subseteq Chat /\ iWire \in [Chat -> Seq(Frame)]
  BY DEF Llm!Final, Llm!At, LlmShaped, LlmTyped
<1>2. /\ x \in ChatType /\ x.pc = "end" /\ x.shown = iChat[c].shown /\ x.error = iChat[c].error
      /\ x.id = iChat[c].id
  BY <1>1 DEF ChatType
<1> HIDE DEF x
<1>3. LlmShaped'
  BY <1>1, <1>2, AloneShaped
<1>4. ASSUME LlmSound PROVE LlmSound'
  <2>1. ~x.error /\ c \notin iGone => EndsWhole(x.shown)
    BY <1>1, <1>2, <1>4 DEF LlmSound, ChatSound
  <2> QED BY <1>1, <1>2, <1>4, <2>1, AloneSound
<1> QED BY <1>3, <1>4 DEF Keeps

\* The deferred calls.
LEMMA UnregisterKeeps == ASSUME LlmShaped, NEW c \in Chat, Llm!Unregister(c) PROVE Keeps
<1> DEFINE x == [iChat[c] EXCEPT !.pc = "closed"]
<1>1. /\ iChat[c].pc = "end" /\ iChat[c] \in ChatType
      /\ iChat' = [iChat EXCEPT ![c] = x]
      /\ UNCHANGED <<iNextID, iGone, iServing, iActive, iWire>>
      /\ iSessions' \subseteq Chat /\ iWire \in [Chat -> Seq(Frame)]
  BY DEF Llm!Unregister, Llm!At, Llm!Go, LlmShaped, LlmTyped
<1>2. /\ x \in ChatType /\ x.pc = "closed" /\ x.shown = iChat[c].shown
      /\ x.error = iChat[c].error /\ x.id = iChat[c].id /\ x.end = iChat[c].end
  BY <1>1 DEF ChatType
<1> HIDE DEF x
<1>3. LlmShaped'
  BY <1>1, <1>2, AloneShaped
<1>4. ASSUME LlmSound PROVE LlmSound'
  <2>1. x.end = "done" /\ ~x.error /\ c \notin iGone => EndsWhole(x.shown)
    BY <1>1, <1>2, <1>4 DEF LlmSound, ChatSound
  <2> QED BY <1>1, <1>2, <1>4, <2>1, AloneSound
<1> QED BY <1>3, <1>4 DEF Keeps

\* A cancelled chat may end with half an answer.
LEMMA CancelKeepsChats == ASSUME LlmShaped, NEW c \in Chat, Llm!Cancel(c) PROVE Keeps
<1>1. /\ iGone' = iGone \cup {c} /\ iSessions' \subseteq Chat
      /\ UNCHANGED <<iNextID, iChat, iServing, iActive, iWire>>
  BY DEF Llm!Cancel, LlmShaped, LlmTyped
<1>2. LlmShaped'
  BY <1>1, SameShape DEF LlmShaped, LlmTyped, RunsShaped
<1>3. LlmSound => LlmSound'
  BY <1>1, SameSound DEF LlmSound, IdsSound
<1> QED BY <1>2, <1>3 DEF Keeps

\* Every step of a chat.
LEMMA CoordinateKeeps ==
    ASSUME LlmShaped, NEW c \in Chat, Llm!Coordinate(c) \/ Llm!Cancel(c) PROVE Keeps
<1>1. CASE Llm!Chats(c)
  BY <1>1, ChatsShaped, ChatsSound DEF Keeps
<1>2. ASSUME NEW w \in Worker, Llm!RouteTo(c, w) PROVE Keeps
  BY <1>2, RouteToShaped, RouteToSound DEF Keeps
<1> QED
  BY <1>1, <1>2, ReadFrameKeeps, GoLocalKeeps, LocalTokenKeeps, LocalFailsKeeps, NextRoundKeeps,
     FinalKeeps, UnregisterKeeps, CancelKeepsChats DEF Llm!Coordinate

\* A chat that does not read the run does not see what becomes of it.
LEMMA OthersKeep ==
    ASSUME LlmShaped, NEW r \in Runs, NEW d \in Chat,
           ~(iChat[d].pc = "remote" /\ r = <<d, iChat[d].round>>),
           \A q \in Runs \ {r} : /\ iServing'[q].pc = iServing[q].pc
                                 /\ iServing'[q].sent = iServing[q].sent,
           iChat' = iChat, iWire'[d] = iWire[d], iGone' = iGone
    PROVE  /\ ChatShaped(d)'
           /\ /\ LlmSound
              /\ iChat[d].pc = "remote" =>
                    ~iServing'[<<d, iChat[d].round>>].cancelled
              => ChatSound(d)'
<1>1. iChat[d].pc = "remote" => <<d, iChat[d].round>> \in Runs \ {r}
  BY ServiceAssumption DEF LlmShaped, LlmTyped, ChatType, ChatShaped, Runs
<1>2. ChatShaped(d)'
  BY <1>1, SameShape DEF LlmShaped
<1>3. LlmSound /\ (iChat[d].pc = "remote" => ~iServing'[<<d, iChat[d].round>>].cancelled)
      => ChatSound(d)'
  BY DEF LlmSound, ChatSound
<1> QED BY <1>2, <1>3

SameNode == \A c, d \in Chat : OwnerOf[c] = OwnerOf[d]

\* The worker takes the request: the run it holds under the same number is cancelled, and
\* is not one that a chat of the same node still reads.
LEMMA AcceptKeeps ==
    ASSUME LlmShaped, NEW r \in Runs, Llm!Accept(r)
    PROVE  LlmShaped' /\ (SameNode /\ LlmSound => LlmSound')
<1> DEFINE w == iServing[r].at
           v == [iServing[r] EXCEPT !.pc = "generate"]
           cut(d) == iServing[d].cancelled \/ d \in Llm!Held(w, r)
           u(d) == [iServing[d] EXCEPT !.cancelled = cut(d)]
<1>1. /\ iServing[r].pc = "request" /\ iChat[r[1]].pc = "remote"
      /\ r = <<r[1], iChat[r[1]].round>>
      /\ iActive' = [iActive EXCEPT ![w] = (@ \ Llm!Held(w, r)) \cup {r}]
      /\ UNCHANGED <<iNextID, iChat, iSessions, iGone, iWire>>
  BY DEF Llm!Accept, Llm!IsRead, Llm!At, Llm!Current
<1>0. iServing' = [d \in Runs |-> IF d = r THEN v ELSE u(d)]
  BY DEF Llm!Accept, Llm!Run, Runs
<1>2. r[1] \in Chat
  BY DEF Runs
<1>3. iServing \in [Runs -> RunType] /\ iServing[r].sent = 0
  <2>1. iServing[r].pc = "request"
    BY <1>1
  <2> QED BY <2>1 DEF LlmShaped, LlmTyped, RunsShaped
<1>4. v \in RunType /\ v.pc = "generate" /\ v.sent = 0 /\ v.cancelled = iServing[r].cancelled
  BY <1>3 DEF RunType
<1>5. ASSUME NEW d \in Runs
      PROVE  /\ u(d) \in RunType /\ u(d).pc = iServing[d].pc /\ u(d).sent = iServing[d].sent
             /\ u(d).cancelled = cut(d)
  <2> DEFINE b == cut(d)
  <2>1. b \in BOOLEAN
    BY <1>3 DEF RunType
  <2> HIDE DEF b
  <2> QED BY <1>3, <2>1 DEF RunType
<1> HIDE DEF v, u
<1>6. /\ iServing' \in [Runs -> RunType] /\ iServing'[r] = v
      /\ \A d \in Runs \ {r} : iServing'[d] = u(d)
  BY <1>0, <1>4, <1>5
<1>7. \A d \in Runs \ {r} : /\ iServing'[d].pc = iServing[d].pc
                            /\ iServing'[d].sent = iServing[d].sent
  BY <1>5, <1>6
<1>8. iActive' \in [Worker -> SUBSET Runs]
  BY <1>1 DEF LlmShaped, LlmTyped
<1>9. LlmTyped' /\ RunsShaped'
  <2>1. LlmTyped'
    BY <1>1, <1>6, <1>8 DEF LlmShaped, LlmTyped
  <2>2. RunsShaped'
    BY <1>4, <1>6, <1>7, ServiceAssumption DEF LlmShaped, RunsShaped
  <2> QED BY <2>1, <2>2
<1>10. ChatShaped(r[1])'
  <2> DEFINE c == r[1]
  <2>1. /\ iWire[c] = <<>> /\ iChat[c].shown = <<>>
        /\ FromWorker(iChat[c].shown) /\ Frames(iWire[c], Len(iChat[c].shown))
        /\ iChat[c].round < MaxRounds
    BY <1>1, <1>2 DEF LlmShaped, ChatShaped
  <2>2. OnlyTokens(iWire[c]) /\ Len(iChat[c].shown) + Len(iWire[c]) = 0
    BY <2>1 DEF OnlyTokens
  <2>3. iServing'[<<c, iChat'[c].round>>] = v
    BY <1>1, <1>6
  <2>4. iChat'[c] = iChat[c] /\ iWire'[c] = iWire[c]
    BY <1>1
  <2> HIDE DEF c
  <2> QED BY <1>1, <1>4, <2>1, <2>2, <2>3, <2>4 DEF ChatShaped, c
<1>11. ASSUME NEW d \in Chat \ {r[1]} PROVE ChatShaped(d)'
  <2>1. r # <<d, iChat[d].round>>
    BY <1>1
  <2> QED BY <1>1, <1>7, <2>1, OthersKeep
<1>12. LlmShaped'
  BY <1>9, <1>10, <1>11 DEF LlmShaped
<1>13. ASSUME SameNode, LlmSound PROVE LlmSound'
  <2>1. IdsSound'
    BY <1>1, <1>13 DEF LlmSound, IdsSound
  <2>2. ASSUME NEW d \in Chat, iChat[d].pc = "remote"
        PROVE  ~iServing'[<<d, iChat[d].round>>].cancelled
    <3> DEFINE q == <<d, iChat[d].round>>
    <3>1. q \in Runs /\ q[1] = d
      BY <2>2, ServiceAssumption DEF LlmShaped, LlmTyped, ChatType, ChatShaped, Runs
    <3>2. ~iServing[q].cancelled
      BY <1>13, <2>2 DEF LlmSound, ChatSound
    <3>3. CASE q = r
      BY <1>4, <1>6, <3>2, <3>3
    <3>4. CASE q # r
      <4>1. iChat[d].id # iChat[r[1]].id
        BY <1>1, <1>2, <1>13, <2>2, <3>1, <3>4 DEF SameNode, LlmSound, IdsSound
      <4>2. q \notin Llm!Held(w, r)
        BY <3>1, <4>1 DEF Llm!Held, Llm!Id
      <4> QED BY <1>5, <1>6, <3>1, <3>2, <3>4, <4>2
    <3> QED BY <3>3, <3>4
  <2>3. ASSUME NEW d \in Chat PROVE ChatSound(d)'
    BY <1>1, <1>13, <2>2 DEF LlmSound, ChatSound
  <2> QED BY <2>1, <2>3 DEF LlmSound
<1> QED BY <1>12, <1>13

\* A run changes without a frame: no chat reads it, or it is over.
LEMMA QuietKeeps ==
    ASSUME LlmShaped, NEW r \in Runs, NEW v \in RunType,
           v.pc # "request", v.pc = "generate" => v.sent < Length,
           Llm!IsRead(r) => v.pc # "generate" /\ ~v.cancelled,
           iServing' = [iServing EXCEPT ![r] = v],
           iActive' \in [Worker -> SUBSET Runs],
           UNCHANGED <<iNextID, iChat, iSessions, iGone, iWire>>
    PROVE  LlmShaped' /\ (LlmSound => LlmSound')
<1>1. /\ iServing' \in [Runs -> RunType] /\ iServing'[r] = v
      /\ \A q \in Runs \ {r} : iServing'[q] = iServing[q]
  BY DEF LlmShaped, LlmTyped
<1>2. LlmTyped' /\ RunsShaped'
  BY <1>1 DEF LlmShaped, LlmTyped, RunsShaped
<1>3. ASSUME NEW d \in Chat PROVE ChatShaped(d)' /\ (LlmSound => ChatSound(d)')
  <2>1. iChat[d].pc = "remote" => <<d, iChat[d].round>> \in Runs
    BY ServiceAssumption DEF LlmShaped, LlmTyped, ChatType, ChatShaped, Runs
  <2>2. CASE iChat[d].pc = "remote" /\ r = <<d, iChat[d].round>>
    <3>1. Llm!IsRead(r)
      BY <2>2 DEF Llm!IsRead, Llm!At, Llm!Current
    <3> QED BY <1>1, <2>2, <3>1 DEF LlmShaped, ChatShaped, LlmSound, ChatSound
  <2>3. CASE ~(iChat[d].pc = "remote" /\ r = <<d, iChat[d].round>>)
    <3>1. ChatShaped(d)'
      BY <1>1, <2>1, <2>3, SameShape DEF LlmShaped
    <3>2. LlmSound => ChatSound(d)'
      BY <1>1, <2>1, <2>3, SameSound DEF LlmSound
    <3> QED BY <3>1, <3>2
  <2> QED BY <2>2, <2>3
<1>4. LlmSound => IdsSound'
  BY DEF LlmSound, IdsSound
<1> QED BY <1>2, <1>3, <1>4 DEF LlmShaped, LlmSound

\* A run writes a frame that its chat reads: the next token, or what ends it.
LEMMA ReadKeeps ==
    ASSUME LlmShaped, NEW r \in Runs, NEW v \in RunType, NEW f \in Frame,
           Llm!IsRead(r), iServing[r].pc = "generate",
           v.pc \in {"generate", "exit"}, v.cancelled = iServing[r].cancelled,
           f.type = "token" => f.k = iServing[r].sent + 1,
           v.pc = "generate" => /\ f.type = "token" /\ v.sent = iServing[r].sent + 1
                                /\ v.sent < Length,
           f.type = "done" => iServing[r].cancelled,
           iServing' = [iServing EXCEPT ![r] = v],
           iWire' = [iWire EXCEPT ![r[1]] = Append(@, f)],
           UNCHANGED <<iNextID, iChat, iSessions, iGone, iActive>>
    PROVE  LlmShaped' /\ (LlmSound => LlmSound')
<1> DEFINE c == r[1]
           n == Len(iChat[c].shown)
<1>1. c \in Chat /\ iChat[c].pc = "remote" /\ r = <<c, iChat[c].round>>
  BY DEF Runs, Llm!IsRead, Llm!At, Llm!Current
<1>2. /\ iServing' \in [Runs -> RunType] /\ iServing'[r] = v
      /\ \A q \in Runs \ {r} : iServing'[q] = iServing[q]
  BY DEF LlmShaped, LlmTyped
<1>3. /\ iWire[c] \in Seq(Frame) /\ iChat[c].shown \in Seq(Tokens) /\ n \in Nat
  BY <1>1 DEF LlmShaped, LlmTyped, ChatType
<1>4. /\ iWire'[c] = Append(iWire[c], f) /\ iWire' \in [Chat -> Seq(Frame)]
      /\ \A d \in Chat \ {c} : iWire'[d] = iWire[d]
  BY <1>1, <1>3 DEF LlmShaped, LlmTyped
<1>5. /\ FromWorker(iChat[c].shown) /\ Frames(iWire[c], n) /\ OnlyTokens(iWire[c])
      /\ iServing[r].sent = n + Len(iWire[c]) /\ iChat[c].round < MaxRounds
  BY <1>1 DEF LlmShaped, ChatShaped
<1>6. /\ Append(iWire[c], f) \in Seq(Frame) /\ Len(Append(iWire[c], f)) = Len(iWire[c]) + 1
      /\ Frames(Append(iWire[c], f), n)
      /\ f.type = "token" => OnlyTokens(Append(iWire[c], f))
      /\ NoDone(iWire[c]) /\ f.type # "done" => NoDone(Append(iWire[c], f))
  BY <1>3, <1>5, FrameWritten
<1>7. LlmTyped' /\ RunsShaped'
  BY <1>2, <1>4 DEF LlmShaped, LlmTyped, RunsShaped
<1>8. ChatShaped(c)'
  <2>1. v.pc = "generate" => v.sent = n + Len(iWire'[c])
    <3> DEFINE m == Len(iWire[c])
    <3>1. m \in Nat /\ Len(iWire'[c]) = m + 1 /\ iServing[r].sent = n + m
      BY <1>3, <1>4, <1>5, <1>6
    <3> HIDE DEF m, n
    <3> QED BY <1>3, <3>1
  <2>2. iChat'[c] = iChat[c] /\ iServing'[<<c, iChat'[c].round>>] = v
    BY <1>1, <1>2
  <2> HIDE DEF c
  <2> QED BY <1>1, <1>4, <1>5, <1>6, <2>1, <2>2 DEF ChatShaped
<1>9. LlmSound => ChatSound(c)'
  <2>1. ASSUME LlmSound
        PROVE  ~v.cancelled /\ NoDone(iWire'[c]) /\ iChat[c].end # "done"
    BY <1>1, <1>4, <1>6, <2>1 DEF LlmSound, ChatSound
  <2>2. iChat'[c] = iChat[c] /\ iServing'[<<c, iChat'[c].round>>] = v
    BY <1>1, <1>2
  <2> HIDE DEF c
  <2> QED BY <1>1, <2>1, <2>2 DEF ChatSound
<1>10. ASSUME NEW d \in Chat \ {c} PROVE ChatShaped(d)' /\ (LlmSound => ChatSound(d)')
  <2>1. r # <<d, iChat[d].round>>
    BY <1>1
  <2>2. iChat[d].pc = "remote" => <<d, iChat[d].round>> \in Runs
    BY ServiceAssumption DEF LlmShaped, LlmTyped, ChatType, ChatShaped, Runs
  <2>3. ChatShaped(d)'
    BY <1>2, <1>4, <2>1, <2>2, SameShape DEF LlmShaped
  <2>4. LlmSound => ChatSound(d)'
    BY <1>2, <1>4, <2>1, <2>2, SameSound DEF LlmSound
  <2> QED BY <2>3, <2>4
<1>11. LlmSound => IdsSound'
  BY DEF LlmSound, IdsSound
<1> QED BY <1>7, <1>8, <1>9, <1>10, <1>11 DEF LlmShaped, LlmSound

\* A request is not read.
LEMMA RequestLostKeeps == ASSUME LlmShaped, NEW r \in Runs, Llm!RequestLost(r) PROVE Keeps
<1>1. Llm!NoRun \in RunType /\ Llm!NoRun.pc = "none"
  BY ServiceAssumption DEF Llm!NoRun, RunType
<1> QED BY <1>1, QuietKeeps DEF Llm!RequestLost, Keeps, LlmShaped, LlmTyped

\* A run that fails sends an error, and as done only what was cancelled.
LEMMA GenerateFailsKeeps == ASSUME LlmShaped, NEW r \in Runs, Llm!GenerateFails(r) PROVE Keeps
<1> DEFINE v == [iServing[r] EXCEPT !.pc = "exit"]
<1>1. /\ iServing[r].pc = "generate" /\ iServing' = [iServing EXCEPT ![r] = v]
      /\ UNCHANGED <<iNextID, iChat, iSessions, iGone, iActive>>
      /\ iActive \in [Worker -> SUBSET Runs] /\ iServing[r] \in RunType
  BY DEF Llm!GenerateFails, Llm!Work, LlmShaped, LlmTyped
<1>2. v \in RunType /\ v.pc = "exit" /\ v.cancelled = iServing[r].cancelled
  BY <1>1 DEF RunType
<1> HIDE DEF v
<1>3. CASE ~Llm!IsRead(r)
  <2>1. iWire' = iWire
    BY <1>3 DEF Llm!GenerateFails, Llm!Frame
  <2> QED BY <1>1, <1>2, <1>3, <2>1, QuietKeeps DEF Keeps
<1>4. CASE Llm!IsRead(r)
  <2>1. PICK f \in Frame : /\ f.type # "token" /\ (f.type = "done" => iServing[r].cancelled)
                           /\ iWire' = [iWire EXCEPT ![r[1]] = Append(@, f)]
    <3>1. /\ [type |-> "error", k |-> 0] \in Frame /\ [type |-> "done", k |-> 0] \in Frame
      BY ServiceAssumption DEF Frame
    <3> QED BY <1>4, <3>1 DEF Llm!GenerateFails, Llm!Frame
  <2> QED BY <1>1, <1>2, <1>4, <2>1, ReadKeeps DEF Keeps
<1> QED BY <1>3, <1>4

\* The next token is framed, for the chat that reads it or for nobody.
LEMMA EmitKeeps == ASSUME LlmShaped, NEW r \in Runs, Llm!Emit(r) PROVE Keeps
<1> DEFINE k == iServing[r].sent + 1
           pc == IF k = Length THEN "exit" ELSE "generate"
           v == [iServing[r] EXCEPT !.sent = k, !.pc = pc]
           f == [type |-> "token", k |-> k]
<1>1. /\ iServing[r].pc = "generate" /\ iServing' = [iServing EXCEPT ![r] = v]
      /\ UNCHANGED <<iNextID, iChat, iSessions, iGone, iActive>>
      /\ iActive \in [Worker -> SUBSET Runs] /\ iServing[r] \in RunType
  BY DEF Llm!Emit, LlmShaped, LlmTyped
<1>2. k \in 1 .. Length
  BY <1>1, ServiceAssumption DEF LlmShaped, RunsShaped, RunType
<1>3. pc \in {"exit", "generate"} /\ (pc = "generate" => k < Length)
  BY <1>2, ServiceAssumption
<1>4. iWire' = IF Llm!IsRead(r) THEN [iWire EXCEPT ![r[1]] = Append(@, f)] ELSE iWire
  BY DEF Llm!Emit, Llm!Frame
<1>5. f \in Frame /\ f.type = "token" /\ f.k = k
  BY <1>2 DEF Frame
<1> HIDE DEF pc, f
<1>6. v \in RunType /\ v.pc = pc /\ v.sent = k /\ v.cancelled = iServing[r].cancelled
  <2> DEFINE z == [iServing[r] EXCEPT !.sent = k]
  <2>1. v = [z EXCEPT !.pc = pc]
    OBVIOUS
  <2>2. k \in 0 .. Length
    BY <1>2, ServiceAssumption
  <2> HIDE DEF k, v
  <2>3. z \in RunType /\ z.sent = k /\ z.cancelled = iServing[r].cancelled
    BY <1>1, <2>2 DEF RunType
  <2> HIDE DEF z
  <2> QED BY <1>3, <2>1, <2>3 DEF RunType
<1> HIDE DEF v
<1>7. CASE ~Llm!IsRead(r)
  <2>1. iWire' = iWire
    BY <1>4, <1>7
  <2> QED BY <1>1, <1>3, <1>6, <1>7, <2>1, QuietKeeps DEF Keeps
<1>8. CASE Llm!IsRead(r)
  BY <1>1, <1>3, <1>4, <1>5, <1>6, <1>8, ReadKeeps DEF Keeps
<1> QED BY <1>7, <1>8

\* A frame that cannot be written ends the run.
LEMMA EmitFailsKeeps == ASSUME LlmShaped, NEW r \in Runs, Llm!EmitFails(r) PROVE Keeps
<1> DEFINE v == [iServing[r] EXCEPT !.pc = "exit"]
<1>1. /\ ~Llm!IsRead(r) /\ iServing' = [iServing EXCEPT ![r] = v]
      /\ UNCHANGED <<iNextID, iChat, iSessions, iGone, iActive, iWire>>
      /\ iActive \in [Worker -> SUBSET Runs] /\ iServing[r] \in RunType
  BY DEF Llm!EmitFails, Llm!Work, LlmShaped, LlmTyped
<1>2. v \in RunType /\ v.pc = "exit"
  BY <1>1 DEF RunType
<1> HIDE DEF v
<1> QED BY <1>1, <1>2, QuietKeeps DEF Keeps

\* The run is over; its place among those the worker holds is free.
LEMMA ExitKeeps == ASSUME LlmShaped, NEW r \in Runs, Llm!Exit(r) PROVE Keeps
<1>1. /\ iServing[r].pc = "exit" /\ iServing' = [iServing EXCEPT ![r] = Llm!NoRun]
      /\ UNCHANGED <<iNextID, iChat, iSessions, iGone, iWire>>
  BY DEF Llm!Exit
<1>2. iActive' \in [Worker -> SUBSET Runs]
  BY DEF Llm!Exit, LlmShaped, LlmTyped
<1>3. Llm!NoRun \in RunType /\ Llm!NoRun.pc = "none" /\ ~Llm!NoRun.cancelled
  BY ServiceAssumption DEF Llm!NoRun, RunType
<1> QED BY <1>1, <1>2, <1>3, QuietKeeps DEF Keeps

\* Every step of the chats and the workers.
LEMMA LlmNext ==
    ASSUME LlmShaped, Llm!Next \/ UNCHANGED inference
    PROVE  LlmShaped' /\ (SameNode /\ LlmSound => LlmSound')
<1>1. ASSUME NEW c \in Chat, Llm!Coordinate(c) \/ Llm!Cancel(c)
      PROVE  LlmShaped' /\ (LlmSound => LlmSound')
  BY <1>1, CoordinateKeeps DEF Keeps
<1>2. ASSUME NEW r \in Runs, Llm!Serve(r)
      PROVE  LlmShaped' /\ (SameNode /\ LlmSound => LlmSound')
  <2>1. CASE Llm!Accept(r)
    BY <2>1, AcceptKeeps
  <2>2. CASE ~Llm!Accept(r)
    BY <1>2, <2>2, RequestLostKeeps, GenerateFailsKeeps, EmitKeeps, EmitFailsKeeps, ExitKeeps
    DEF Llm!Serve, Keeps
  <2> QED BY <2>1, <2>2
<1>3. CASE UNCHANGED inference
  BY <1>3 DEF inference, LlmShaped, LlmTyped, RunsShaped, ChatShaped, LlmSound, IdsSound, ChatSound
<1> QED BY <1>1, <1>2, <1>3 DEF Llm!Next, Llm!Run, Runs

\* The invariants give the property.
LEMMA WholeAnswers == LlmShaped /\ LlmSound => Llm!AnswerIsWhole
<1> SUFFICES ASSUME LlmShaped, LlmSound, NEW c \in Chat, iChat[c].end = "done",
                    ~iChat[c].error, c \notin iGone
             PROVE  \E source \in {"worker", "local"} :
                       Llm!IsSuffix(Llm!Whole(source), iChat[c].shown)
  BY DEF Llm!AnswerIsWhole
<1>1. iChat[c].shown \in Seq(Tokens) /\ EndsWhole(iChat[c].shown)
  BY DEF LlmShaped, LlmTyped, ChatType, LlmSound, ChatSound
<1> QED BY <1>1, WholeIsSuffix

-----------------------------------------------------------------------------
(* Joins                                                                       *)

\* A node that waits for the information of a joiner has consumed its token, which nobody
\* else claims; what was admitted over the stream was admitted with a consumed token.
ClaimsOnce ==
    /\ \A j \in Joiner : jHandler[j] \in {"match", "info"} => jJoiner[j].path = "p2p"
    /\ \A j \in Joiner : jHandler[j] \in {"validate", "dial", "use", "admit"} => jJoiner[j].path = "http"
    /\ \A j \in Joiner : jHandler[j] = "info" =>
         /\ jToken[jJoiner[j].tok] = "gone"
         /\ \A a \in jAdmitted[jJoiner[j].tok] : a[2] # "p2p"
         /\ \A k \in Joiner : jHandler[k] = "info" /\ jJoiner[k].tok = jJoiner[j].tok => k = j
    /\ \A t \in Token : \A a \in jAdmitted[t] : a[2] = "p2p" =>
         /\ jToken[t] = "gone"
         /\ \A b \in jAdmitted[t] : b[2] = "p2p" => b = a

JoinInv == J!TypeOK /\ ClaimsOnce

\* Initially no token is issued.
LEMMA JoinInit == J!Init => JoinInv
<1> SUFFICES ASSUME J!Init PROVE JoinInv
  OBVIOUS
<1>1. (CHOOSE t \in Token : TRUE) \in Token
  BY ServiceAssumption
<1>2. J!TypeOK
  BY <1>1, ServiceAssumption DEF J!Init, J!TypeOK, J!Machine, J!Cluster
<1>3. ClaimsOnce
  BY DEF J!Init, ClaimsOnce
<1> QED BY <1>2, <1>3 DEF JoinInv

\* A step of another part.
LEMMA JoinSame == ASSUME JoinInv, UNCHANGED joins PROVE JoinInv'
BY DEF JoinInv, J!TypeOK, ClaimsOnce, joins

\* What a step that leaves tokens, ends and admissions alone does to the claims: nothing.
LEMMA ClaimsSame ==
    ASSUME ClaimsOnce, UNCHANGED <<jToken, jJoiner, jHandler, jAdmitted>> PROVE ClaimsOnce'
BY DEF ClaimsOnce

\* A token is consumed, or thrown away, for good; nobody new claims one.
LEMMA TokensGo ==
    ASSUME JoinInv, UNCHANGED <<jJoiner, jHandler, jAdmitted>>,
           \A t \in Token : jToken[t] = "gone" => jToken'[t] = "gone"
    PROVE  ClaimsOnce'
BY DEF JoinInv, ClaimsOnce, J!TypeOK

\* The coordinator's end moves.
LEMMA HandleTyped ==
    ASSUME J!TypeOK, NEW j \in Joiner,
           NEW pc \in {"none", "match", "info", "validate", "dial", "use", "admit"}, J!Handle(j, pc)
    PROVE  /\ jHandler' \in [Joiner -> {"none", "match", "info", "validate", "dial", "use", "admit"}]
           /\ \A k \in Joiner : jHandler'[k] = IF k = j THEN pc ELSE jHandler[k]
BY DEF J!TypeOK, J!Handle

\* The joiner's end goes on.
LEMMA NowKeeps ==
    ASSUME JoinInv, NEW j \in Joiner, NEW pc \in {"idle", "nonce", "secret", "adopt", "reply", "joined"},
           J!Now(j, pc), UNCHANGED <<jToken, jHandler, jAdmitted>>
    PROVE  /\ ClaimsOnce'
           /\ jJoiner' \in [Joiner -> [pc : {"idle", "nonce", "secret", "adopt", "reply", "joined"},
                              path : {"p2p", "http"}, tok : Token]]
<1>1. jJoiner' \in [Joiner -> [pc : {"idle", "nonce", "secret", "adopt", "reply", "joined"},
                              path : {"p2p", "http"}, tok : Token]]
  BY DEF JoinInv, J!TypeOK, J!Now
<1>2. \A k \in Joiner : jJoiner'[k].path = jJoiner[k].path /\ jJoiner'[k].tok = jJoiner[k].tok
  BY DEF JoinInv, J!TypeOK, J!Now
<1> QED BY <1>1, <1>2 DEF JoinInv, ClaimsOnce

\* The coordinator's end goes on, without a claim of its own.
LEMMA HandleKeeps ==
    ASSUME JoinInv, NEW j \in Joiner, NEW pc \in {"none", "dial", "use", "admit"}, J!Handle(j, pc),
           pc = "none" \/ jHandler[j] \in {"validate", "dial", "use"},
           UNCHANGED <<jToken, jJoiner, jAdmitted>>
    PROVE  /\ ClaimsOnce'
           /\ jHandler' \in [Joiner -> {"none", "match", "info", "validate", "dial", "use", "admit"}]
BY DEF JoinInv, J!TypeOK, ClaimsOnce, J!Handle

\* A message is put on the wire.
LEMMA SendTyped ==
    ASSUME J!TypeOK, NEW j \in Joiner, NEW m \in {"none", "broken", "nonce", "hmac", "secret", "info", "request", "reply"},
           J!Send(j, m)
    PROVE jWire' \in [Joiner -> {"none", "broken", "nonce", "hmac", "secret", "info", "request", "reply"}]
BY DEF J!TypeOK, J!Send

\* A joiner offers its token.
LEMMA StartKeeps ==
    ASSUME JoinInv, NEW j \in Joiner, NEW t \in Token,
           J!ConnectAndJoinP2P(j, t) \/ J!PostJoin(j, t)
    PROVE  JoinInv'
<1>1. PICK pc \in {"nonce", "reply"}, path \in {"p2p", "http"}, at \in {"match", "validate"} :
         /\ jHandler[j] = "none" /\ (at = "match" <=> path = "p2p")
         /\ jJoiner' = [jJoiner EXCEPT ![j] = [pc |-> pc, path |-> path, tok |-> t]]
         /\ J!Handle(j, at) /\ (J!Send(j, "nonce") \/ J!Send(j, "request"))
         /\ UNCHANGED <<jToken, jTrust, jSecret, jDisk, jAuth, jRestarts, jAdmitted>>
  BY DEF J!ConnectAndJoinP2P, J!PostJoin
<1>2. J!TypeOK'
  BY <1>1, SendTyped, HandleTyped DEF JoinInv, J!TypeOK
<1>3. ClaimsOnce'
  BY <1>1 DEF JoinInv, J!TypeOK, ClaimsOnce, J!Handle
<1> QED BY <1>2, <1>3 DEF JoinInv

\* An answer takes a valid token, which nobody has claimed.
LEMMA MatchKeeps == ASSUME JoinInv, NEW j \in Joiner, J!MatchToken(j) PROVE JoinInv'
<1> DEFINE t == jJoiner[j].tok
           passed == jToken[t] = "valid"
<1>1. PICK dropped \in SUBSET {u \in Token : jToken[u] = "expired"} :
         jToken' = [u \in Token |-> IF u \in dropped \/ (passed /\ u = t) THEN "gone"
                                    ELSE jToken[u]]
  BY DEF J!MatchToken
<1>2. t \in Token /\ jHandler[j] = "match" /\ jJoiner[j].path = "p2p"
  BY DEF JoinInv, J!TypeOK, J!MatchToken, ClaimsOnce
<1>3. UNCHANGED <<jJoiner, jTrust, jSecret, jDisk, jAuth, jRestarts, jAdmitted>>
  BY DEF J!MatchToken
<1>4. jToken' \in [Token -> {"unissued", "valid", "expired", "gone"}]
  BY <1>1 DEF JoinInv, J!TypeOK
<1>5. CASE passed
  <2>1. J!Handle(j, "info") /\ J!Send(j, "secret")
    BY <1>5 DEF J!MatchToken
  <2>2. J!TypeOK'
    BY <1>3, <1>4, <2>1, SendTyped, HandleTyped DEF JoinInv, J!TypeOK
  <2>3. \A u \in Token : jToken'[u] = "gone" <=> jToken[u] = "gone" \/ u \in dropped \/ u = t
    BY <1>1, <1>5
  <2>4. \A k \in Joiner : jHandler'[k] = IF k = j THEN "info" ELSE jHandler[k]
    BY <2>1, HandleTyped DEF JoinInv
  <2>5. \A k \in Joiner : jHandler[k] = "info" => jJoiner[k].tok # t
    BY <1>5 DEF JoinInv, ClaimsOnce
  <2>6. \A a \in jAdmitted[t] : a[2] # "p2p"
    BY <1>2, <1>5 DEF JoinInv, ClaimsOnce
  <2>7. \A k \in Joiner : jJoiner[k].tok \in Token
    BY DEF JoinInv, J!TypeOK
  <2>8. ClaimsOnce'
    BY <1>2, <1>3, <2>3, <2>4, <2>5, <2>6, <2>7 DEF JoinInv, ClaimsOnce
  <2> QED BY <2>2, <2>8 DEF JoinInv
<1>6. CASE ~passed
  <2>1. J!Handle(j, "none") /\ J!Send(j, "broken")
    BY <1>6 DEF J!MatchToken
  <2>2. J!TypeOK'
    BY <1>3, <1>4, <2>1, SendTyped, HandleTyped DEF JoinInv, J!TypeOK
  <2>3. \A u \in Token : jToken[u] = "gone" => jToken'[u] = "gone"
    BY <1>1
  <2>4. \A k \in Joiner : jHandler'[k] = IF k = j THEN "none" ELSE jHandler[k]
    BY <2>1, HandleTyped DEF JoinInv
  <2>5. \A k \in Joiner : jJoiner[k].tok \in Token
    BY DEF JoinInv, J!TypeOK
  <2>6. ClaimsOnce'
    BY <1>3, <2>3, <2>4, <2>5 DEF JoinInv, ClaimsOnce
  <2> QED BY <2>2, <2>6 DEF JoinInv
<1> QED BY <1>5, <1>6

\* Who is admitted is recorded with the path.
LEMMA AdmitTyped ==
    ASSUME JoinInv, NEW j \in Joiner, J!Admit(j)
    PROVE  /\ jTrust' \in [J!Machine -> SUBSET J!Machine]
           /\ jAdmitted' \in [Token -> SUBSET (Joiner \X {"p2p", "http"})]
           /\ \A t \in Token : \A a \in jAdmitted'[t] :
                \/ a \in jAdmitted[t]
                \/ t = jJoiner[j].tok /\ a = <<j, jJoiner[j].path>> /\ a[2] = jJoiner[j].path
<1>1. jTrust' \in [J!Machine -> SUBSET J!Machine]
  BY DEF JoinInv, J!TypeOK, J!Admit, J!Machine
<1>2. jJoiner[j].tok \in Token /\ jJoiner[j].path \in {"p2p", "http"}
  BY DEF JoinInv, J!TypeOK
<1> DEFINE new == <<j, jJoiner[j].path>>
<1>3. new \in Joiner \X {"p2p", "http"} /\ new[2] = jJoiner[j].path
  BY <1>2
<1> HIDE DEF new
<1>4. jAdmitted' = [jAdmitted EXCEPT ![jJoiner[j].tok] = @ \cup {new}]
  BY DEF J!Admit, new
<1>5. jAdmitted' \in [Token -> SUBSET (Joiner \X {"p2p", "http"})]
  BY <1>2, <1>3, <1>4 DEF JoinInv, J!TypeOK
<1>6. \A t \in Token : \A a \in jAdmitted'[t] :
        a \in jAdmitted[t] \/ (t = jJoiner[j].tok /\ a = new)
  BY <1>2, <1>4 DEF JoinInv, J!TypeOK
<1> QED BY <1>1, <1>3, <1>5, <1>6 DEF new

\* The one that claimed the token is admitted with it.
LEMMA OnboardKeeps == ASSUME JoinInv, NEW j \in Joiner, J!Onboard(j) PROVE JoinInv'
<1>1. /\ jHandler[j] = "info" /\ J!Admit(j) /\ J!Handle(j, "none") /\ J!Send(j, "none")
      /\ UNCHANGED <<jToken, jJoiner, jSecret, jDisk, jAuth, jRestarts>>
  BY DEF J!Onboard
<1>2. J!TypeOK'
  BY <1>1, AdmitTyped, SendTyped, HandleTyped DEF JoinInv, J!TypeOK
<1>3. \A k \in Joiner : jHandler'[k] = IF k = j THEN "none" ELSE jHandler[k]
  BY <1>1, HandleTyped DEF JoinInv
<1>4. \A k \in Joiner : jJoiner[k].tok \in Token
  BY DEF JoinInv, J!TypeOK
<1>5. \A t \in Token : \A a \in jAdmitted'[t] :
        a \in jAdmitted[t] \/ (t = jJoiner[j].tok /\ a = <<j, jJoiner[j].path>>)
  BY <1>1, AdmitTyped
<1>6. ClaimsOnce'
  BY <1>1, <1>3, <1>4, <1>5 DEF JoinInv, ClaimsOnce
<1> QED BY <1>2, <1>6 DEF JoinInv

\* Whoever comes by a request is not admitted over the stream.
LEMMA AdmitRequestKeeps == ASSUME JoinInv, NEW j \in Joiner, J!AdmitRequest(j) PROVE JoinInv'
<1>1. /\ jHandler[j] = "admit" /\ J!Admit(j) /\ J!Handle(j, "none")
      /\ UNCHANGED jWire \/ J!Send(j, "reply")
      /\ UNCHANGED <<jToken, jJoiner, jSecret, jDisk, jAuth, jRestarts>>
  BY DEF J!AdmitRequest
<1>2. J!TypeOK'
  BY <1>1, AdmitTyped, SendTyped, HandleTyped DEF JoinInv, J!TypeOK
<1>3. \A k \in Joiner : jHandler'[k] = IF k = j THEN "none" ELSE jHandler[k]
  BY <1>1, HandleTyped DEF JoinInv
<1>4. \A k \in Joiner : jJoiner[k].tok \in Token
  BY DEF JoinInv, J!TypeOK
<1>5. jJoiner[j].path = "http"
  BY <1>1 DEF JoinInv, ClaimsOnce
<1>6. \A t \in Token : \A a \in jAdmitted'[t] : a[2] = "p2p" => a \in jAdmitted[t]
  BY <1>1, <1>5, AdmitTyped
<1>7. \A t \in Token : jAdmitted[t] \subseteq jAdmitted'[t]
  BY <1>1 DEF J!Admit, JoinInv, J!TypeOK
<1>8. ClaimsOnce'
  BY <1>1, <1>3, <1>4, <1>6, <1>7 DEF JoinInv, ClaimsOnce
<1> QED BY <1>2, <1>8 DEF JoinInv

\* Over HTTP the token is consumed last.
LEMMA UseKeeps == ASSUME JoinInv, NEW j \in Joiner, J!UseJoinToken(j) PROVE JoinInv'
<1>1. /\ jHandler[j] = "use" /\ jToken' = [jToken EXCEPT ![jJoiner[j].tok] = "gone"]
      /\ J!Handle(j, "admit")
      /\ UNCHANGED <<jJoiner, jWire, jTrust, jSecret, jDisk, jAuth, jRestarts, jAdmitted>>
  BY DEF J!UseJoinToken
<1>2. J!TypeOK'
  BY <1>1 DEF JoinInv, J!TypeOK, J!Handle
<1>3. \A k \in Joiner : jHandler'[k] = IF k = j THEN "admit" ELSE jHandler[k]
  BY <1>1, HandleTyped DEF JoinInv
<1>4. \A k \in Joiner : jJoiner[k].tok \in Token
  BY DEF JoinInv, J!TypeOK
<1>5. \A t \in Token : jToken[t] = "gone" => jToken'[t] = "gone"
  BY <1>1 DEF JoinInv, J!TypeOK
<1>6. ClaimsOnce'
  BY <1>1, <1>3, <1>4, <1>5 DEF JoinInv, ClaimsOnce
<1> QED BY <1>2, <1>6 DEF JoinInv

\* The node that joined takes over the secret and trusts the coordinator.
LEMMA AdoptKeeps == ASSUME JoinInv, NEW j \in Joiner, J!AdoptP2P(j) \/ J!AdoptReply(j) PROVE JoinInv'
<1>1. /\ J!Now(j, "joined") /\ (UNCHANGED jWire \/ J!Send(j, "none"))
      /\ jSecret' = [jSecret EXCEPT ![j] = J!Cluster]
      /\ jDisk' \in {jDisk, [jDisk EXCEPT ![j] = J!Cluster]}
      /\ jTrust' = [jTrust EXCEPT ![j] = @ \cup {Coord}]
      /\ UNCHANGED <<jToken, jHandler, jAuth, jRestarts, jAdmitted>>
  BY DEF J!AdoptP2P, J!AdoptReply
<1>2. J!TypeOK'
  BY <1>1, NowKeeps, SendTyped DEF JoinInv, J!TypeOK, J!Machine
<1> QED BY <1>1, <1>2, NowKeeps DEF JoinInv

\* No claim arises from a restart.
LEMMA RestartKeeps == ASSUME JoinInv, NEW n \in J!Machine, J!Restart(n) PROVE JoinInv'
<1>1. /\ jRestarts < MaxRestart /\ jRestarts' = jRestarts + 1
      /\ jTrust' = [jTrust EXCEPT ![n] = {n}]
      /\ jSecret' = [jSecret EXCEPT ![n] = jDisk[n]]
      /\ jAuth' \subseteq jAuth
      /\ UNCHANGED <<jDisk, jAdmitted>>
  BY DEF J!Restart
<1>2. CASE n = Coord
  <2>1. /\ jToken' = [t \in Token |-> IF jToken[t] = "unissued" THEN "unissued" ELSE "gone"]
        /\ jHandler' = [j \in Joiner |-> "none"]
        /\ jWire' = [j \in Joiner |-> "broken"]
        /\ UNCHANGED jJoiner
    BY <1>2 DEF J!Restart
  <2>2. J!TypeOK'
    BY <1>1, <2>1, ServiceAssumption DEF JoinInv, J!TypeOK
  <2>3. ClaimsOnce'
    BY <1>1, <2>1 DEF JoinInv, ClaimsOnce
  <2> QED BY <2>2, <2>3 DEF JoinInv
<1>3. CASE n # Coord
  <2>1. n \in Joiner /\ J!Now(n, "idle") /\ J!Send(n, "broken") /\ UNCHANGED <<jToken, jHandler>>
    BY <1>3 DEF J!Restart, J!Machine, J!Now, J!Send
  <2>2. J!TypeOK'
    BY <1>1, <2>1, NowKeeps, SendTyped, ServiceAssumption DEF JoinInv, J!TypeOK
  <2> QED BY <1>1, <2>1, <2>2, NowKeeps DEF JoinInv
<1> QED BY <1>2, <1>3

\* A step that changes where a handler or a joiner is.
LEMMA GoesOnJoin ==
    ASSUME JoinInv, NEW j \in Joiner,
           \/ J!Respond(j) \/ J!SendInfo(j) \/ J!JoinerGivesUp(j)
           \/ J!ValidateJoinToken(j) \/ J!DialJoiner(j) \/ J!HandlerGivesUp(j) \/ J!Break(j)
    PROVE  JoinInv'
<1>1. CASE J!Respond(j) \/ J!SendInfo(j) \/ J!JoinerGivesUp(j)
  <2>1. PICK pc \in {"idle", "secret", "adopt"} :
          /\ J!Now(j, pc)
          /\ UNCHANGED <<jToken, jHandler, jTrust, jSecret, jDisk, jAuth, jRestarts, jAdmitted>>
    BY <1>1 DEF J!Respond, J!SendInfo, J!JoinerGivesUp
  <2>2. UNCHANGED jWire \/ J!Send(j, "hmac") \/ J!Send(j, "info")
    BY <1>1 DEF J!Respond, J!SendInfo, J!JoinerGivesUp
  <2> QED BY <2>1, <2>2, NowKeeps, SendTyped DEF JoinInv, J!TypeOK
<1>2. CASE J!ValidateJoinToken(j) \/ J!DialJoiner(j) \/ J!HandlerGivesUp(j)
  <2>1. PICK pc \in {"none", "dial", "use"} :
          /\ J!Handle(j, pc) /\ (pc = "none" \/ jHandler[j] \in {"validate", "dial"})
          /\ UNCHANGED <<jToken, jJoiner, jTrust, jSecret, jDisk, jAuth, jRestarts, jAdmitted>>
    BY <1>2 DEF J!ValidateJoinToken, J!DialJoiner, J!HandlerGivesUp
  <2>2. UNCHANGED jWire \/ J!Send(j, "broken")
    BY <1>2 DEF J!ValidateJoinToken, J!DialJoiner, J!HandlerGivesUp
  <2> QED BY <2>1, <2>2, HandleKeeps, SendTyped DEF JoinInv, J!TypeOK
<1>3. CASE J!Break(j)
  BY <1>3, ClaimsSame, SendTyped DEF J!Break, JoinInv, J!TypeOK
<1> QED BY <1>1, <1>2, <1>3

\* A token is issued or expires.
LEMMA TokenKeeps ==
    ASSUME JoinInv, NEW t \in Token, J!GenerateJoinToken(t) \/ J!TokenExpires(t) PROVE JoinInv'
<1>1. UNCHANGED <<jJoiner, jHandler, jWire, jTrust, jSecret, jDisk, jAuth, jRestarts, jAdmitted>>
  BY DEF J!GenerateJoinToken, J!TokenExpires
<1>2. /\ jToken' \in [Token -> {"unissued", "valid", "expired", "gone"}]
      /\ \A u \in Token : jToken[u] = "gone" => jToken'[u] = "gone"
  BY DEF J!GenerateJoinToken, J!TokenExpires, JoinInv, J!TypeOK
<1>3. ClaimsOnce'
  BY <1>1, <1>2, TokensGo
<1> QED BY <1>1, <1>2, <1>3 DEF JoinInv, J!TypeOK

\* A step of trust alone.
LEMMA TrustKeeps ==
    ASSUME JoinInv, jTrust' \in [J!Machine -> SUBSET J!Machine],
           jAuth' \subseteq (J!Machine \X J!Machine \X {"own", J!Cluster}),
           UNCHANGED <<jToken, jJoiner, jHandler, jWire, jSecret, jDisk, jRestarts, jAdmitted>>
    PROVE  JoinInv'
BY ClaimsSame DEF JoinInv, J!TypeOK

\* The challenges of nodes that meet.
LEMMA AuthenticateKeeps ==
    ASSUME JoinInv, NEW a \in J!Machine, NEW b \in J!Machine, J!Authenticate(a, b) PROVE JoinInv'
<1>1. CASE J!RespondToChallenge(a, b)
  <2>1. <<a, b, jSecret[a]>> \in J!Machine \X J!Machine \X {"own", J!Cluster}
    BY DEF JoinInv, J!TypeOK
  <2>2. jTrust' \in [J!Machine -> SUBSET J!Machine]
    BY <1>1 DEF J!RespondToChallenge, JoinInv, J!TypeOK
  <2>3. jAuth' \subseteq (J!Machine \X J!Machine \X {"own", J!Cluster})
    BY <1>1, <2>1 DEF J!RespondToChallenge, JoinInv, J!TypeOK
  <2> QED BY <1>1, <2>2, <2>3, TrustKeeps DEF J!RespondToChallenge
<1>2. CASE J!ChallengeHandshake(a, b) \/ J!ChallengeTimesOut(a, b)
  <2>1. jTrust' \in {jTrust, [jTrust EXCEPT ![b] = @ \cup {a}]} /\ jAuth' \subseteq jAuth
    BY <1>2 DEF J!ChallengeHandshake, J!ChallengeTimesOut
  <2>2. jTrust' \in [J!Machine -> SUBSET J!Machine]
    BY <2>1 DEF JoinInv, J!TypeOK
  <2>3. jAuth' \subseteq (J!Machine \X J!Machine \X {"own", J!Cluster})
    BY <2>1 DEF JoinInv, J!TypeOK
  <2> QED
    BY <1>2, <2>2, <2>3, TrustKeeps DEF J!ChallengeHandshake, J!ChallengeTimesOut
<1> QED BY <1>1, <1>2 DEF J!Authenticate

\* Every step of the joins.
LEMMA JoinNext == JoinInv /\ (J!Next \/ UNCHANGED joins) => JoinInv'
<1> SUFFICES ASSUME JoinInv, J!Next \/ UNCHANGED joins PROVE JoinInv'
  OBVIOUS
<1>1. ASSUME NEW j \in Joiner, J!Join(j) PROVE JoinInv'
  <2>1. CASE J!Remove(j)
    <3>1. jTrust' \in [J!Machine -> SUBSET J!Machine]
      BY <2>1 DEF J!Remove, JoinInv, J!TypeOK
    <3>2. jAuth' \subseteq (J!Machine \X J!Machine \X {"own", J!Cluster})
      BY <2>1 DEF J!Remove, JoinInv, J!TypeOK
    <3> QED BY <2>1, <3>1, <3>2, TrustKeeps DEF J!Remove
  <2> QED
    BY <1>1, <2>1, StartKeeps, MatchKeeps, OnboardKeeps, AdoptKeeps, UseKeeps, AdmitRequestKeeps,
       GoesOnJoin DEF J!Join
<1>2. ASSUME NEW j \in Near, J!Authenticate(j, Coord) \/ J!Authenticate(Coord, j) PROVE JoinInv'
  BY <1>2, AuthenticateKeeps, ServiceAssumption DEF J!Machine
<1> QED BY <1>1, <1>2, TokenKeeps, RestartKeeps, JoinSame DEF J!Next

\* At most one element is at most one.
LEMMA AtMostOne ==
    ASSUME NEW S, \A a, b \in S : a = b
    PROVE  Cardinality(S) <= 1
<1>1. CASE S = {}
  BY <1>1, FS_EmptySet
<1>2. CASE S # {}
  <2>1. PICK a \in S : S = {a}
    BY <1>2
  <2> QED BY <2>1, FS_Singleton
<1> QED BY <1>1, <1>2

\* The instance of Join has its own copy of Cardinality.
LEMMA SameCardinality == ASSUME NEW S PROVE J!Cardinality(S) = Cardinality(S)
BY Zenon DEF J!Cardinality, Cardinality

\* The invariant gives the property.
LEMMA StreamAdmitsOne == JoinInv => J!SingleUseByStream
<1> SUFFICES ASSUME JoinInv, NEW t \in Token
             PROVE  Cardinality({a \in jAdmitted[t] : a[2] = "p2p"}) <= 1
  BY SameCardinality DEF J!SingleUseByStream
<1>1. \A a, b \in {x \in jAdmitted[t] : x[2] = "p2p"} : a = b
  BY DEF JoinInv, ClaimsOnce
<1> QED BY <1>1, AtMostOne

-----------------------------------------------------------------------------
(* The parts together.                                                         *)

\* The inductive invariant of the host: that of every part.
ServiceInv == IInv /\ LlmShaped /\ Control /\ Talk /\ JoinInv

\* It holds whatever part a behaviour is about.
LEMMA ServiceInvHolds == ServiceSpec => []ServiceInv
<1>1. ServiceInit => ServiceInv
  BY InitIInv, LlmInit, ControlInit, TalkInit, JoinInit DEF ServiceInit, ServiceInv
<1>2. ServiceInv /\ [ServiceNext]_all => ServiceInv'
  <2> SUFFICES ASSUME ServiceInv, [ServiceNext]_all PROVE ServiceInv'
    OBVIOUS
  <2>1. /\ Next \/ UNCHANGED vars
        /\ Llm!Next \/ UNCHANGED inference
        /\ Swarm!Next \/ UNCHANGED agents
        /\ J!Next \/ UNCHANGED joins
    BY DEF ServiceNext, all
  <2>2. IInv' /\ LlmShaped' /\ Control' /\ JoinInv'
    BY <2>1, NextIInv, LlmNext, ControlNext, JoinNext DEF ServiceInv
  <2>3. Talk'
    BY <2>1, TalkNext DEF ServiceInv
  <2> QED BY <2>2, <2>3 DEF ServiceInv
<1> QED BY <1>1, <1>2, PTL DEF ServiceSpec

\* Every variable of a breaker, a chat, an agent or a join keeps its type.
THEOREM ServiceTypeCorrect == ServiceSpec => []TypesOK
<1>1. ServiceInv => TypesOK
  BY SameTypes, AgentsTyped DEF ServiceInv, IInv, LlmShaped, JoinInv, TypesOK
<1> QED BY <1>1, ServiceInvHolds, PTL

\* An agent that runs has a loop, and the cancel function that stops it is there (agent.go).
THEOREM RunningStops == ServiceSpec => []RunningCanBeStopped
<1>1. ServiceInv => RunningCanBeStopped
  BY DEF ServiceInv, Control, RunningCanBeStopped
<1> QED BY <1>1, ServiceInvHolds, PTL

\* However many joiners offer one token over the join stream, it admits one of them
\* (discovery.go).
THEOREM StreamSingleUse == ServiceSpec => []J!SingleUseByStream
<1>1. ServiceInv => J!SingleUseByStream
  BY StreamAdmitsOne DEF ServiceInv
<1> QED BY <1>1, ServiceInvHolds, PTL

\* When all chats begin at one node, whose session ids are then its own, no worker cuts short
\* an answer that a chat reads: what a chat ends with is whole (distrib_coordinator.go:106).
THEOREM ServiceAlwaysSound == SameNode => (ServiceSpec => []ServiceIsSound)
<1> SUFFICES ASSUME SameNode PROVE ServiceSpec => []ServiceIsSound
  OBVIOUS
<1>1. ServiceInit => LlmSound
  BY LlmInit DEF ServiceInit
<1>2. ServiceInv /\ LlmSound /\ [ServiceNext]_all => LlmSound'
  <2> SUFFICES ASSUME ServiceInv, LlmSound, [ServiceNext]_all PROVE LlmSound'
    OBVIOUS
  <2>1. Llm!Next \/ UNCHANGED inference
    BY DEF ServiceNext, all
  <2> QED BY <2>1, LlmNext DEF ServiceInv
<1>3. ServiceInv /\ LlmSound => ServiceIsSound
  BY WholeAnswers, StreamAdmitsOne DEF ServiceInv, ServiceIsSound
<1> QED BY <1>1, <1>2, <1>3, ServiceInvHolds, PTL DEF ServiceSpec

=============================================================================
