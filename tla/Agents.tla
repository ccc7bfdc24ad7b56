------------------------------- MODULE Agents -------------------------------
(***************************************************************************)
(* Agents: loops that ask a model for the next action, call a tool, and    *)
(* may spawn a sub-agent, on the same node or over a stream on another,    *)
(* whose outcome they wait for.  An update of an agent is announced after  *)
(* the lock is released, to listeners that read the agent's status of that *)
(* moment.  The model server, the other tools and the saved files are      *)
(* external: a file is only read when the process starts.                  *)
(*                                                                         *)
(* Source: internal/agents.                                                *)
(***************************************************************************)
EXTENDS Naturals, SequencesExt

CONSTANTS
    Root,       \* agents that users create
    Sub,        \* sub-agents
    ParentOf,   \* Sub -> Root \cup Sub, who may spawn it
    MaxSteps,   \* maxSteps
    Buffer      \* capacity of an event channel

Agent == Root \cup Sub

VARIABLES
    status,     \* Agent -> "none", "pending", "running", "completed", "failed", "cancelled"
    loop,       \* Agent -> its runLoop: where it is, where to go after an announcement, step
    cancelled,  \* agents whose context is cancelled
    cancels,    \* agents with a cancel function registered
    asked,      \* calls of CancelAgent: <<agent, "user" or "monitor">> -> "none", "emit", "done"
    remote,     \* sub-agents that were sent to another node
    serving,    \* Sub -> how far its spawn is: "none", "create", "listen", "start", "serve", "over"
    channel,    \* Sub -> its listener's events, whether it is registered, whether it is closed
    stream,     \* Sub -> events on the way to its parent; open, closed by an end, or broken
    answer,     \* Sub -> what its parent was told
    panicked    \* the node of a sub-agent died of a send on a closed channel

vars == <<status, loop, cancelled, cancels, asked, remote, serving, channel, stream, answer,
          panicked>>

Terminal == {"completed", "failed", "cancelled"}
Calls == Agent \X {"user", "monitor"}

Init ==
    /\ status = [x \in Agent |-> "none"]
    /\ loop = [x \in Agent |-> [pc |-> "none", next |-> "none", step |-> 0]]
    /\ cancelled = {} /\ cancels = {}
    /\ asked = [a \in Calls |-> "none"]
    /\ remote = {}
    /\ serving = [c \in Sub |-> "none"]
    /\ channel = [c \in Sub |-> [events |-> <<>>, on |-> FALSE, closed |-> FALSE]]
    /\ stream = [c \in Sub |-> [events |-> <<>>, is |-> "open"]]
    /\ answer = [c \in Sub |-> "none"]
    /\ panicked = FALSE

Alive == ~panicked
At(x, pc) == Alive /\ loop[x].pc = pc
Go(x, pc) == loop' = [loop EXCEPT ![x].pc = pc]
\* The agent is announced next, and then its loop goes on at pc; only sub-agents have a
\* listener.
EmitThen(x, pc) == IF x \in Root THEN Go(x, pc)
                   ELSE loop' = [loop EXCEPT ![x].pc = "emit", ![x].next = pc]
Announced(x) == IF x \in Root THEN "done" ELSE "emit"
Set(x, s) == status' = [status EXCEPT ![x] = s]
links == <<remote, serving, channel, stream, answer>>

-----------------------------------------------------------------------------
(* Announcements.                                                              *)

\* Fault: the channel is not closed at the end.
NotedOpen(ch, c, s) == [ch EXCEPT !.events = IF Len(@) < Buffer THEN Append(@, s) ELSE @]

\* What a listener does with an agent whose status is s: the local one notes how it ended,
\* the remote one also logs steps, and closes its channel at the end.  A full channel
\* drops the event; a closed one panics.
Sends(c, s) == s \in Terminal \/ (s = "running" /\ c \in remote)
Noted(ch, c, s) ==
    [ch EXCEPT !.events = IF Len(@) < Buffer THEN Append(@, s) ELSE @,
               !.closed = @ \/ (c \in remote /\ s \in Terminal)]

\* emitEvent("agent_updated"): a running agent may have no step worth a log.
Announce(x) ==
    IF channel[x].on /\ Sends(x, status[x])
    THEN \/ /\ panicked' = channel[x].closed
            /\ channel' = IF channel[x].closed THEN channel
                          ELSE [channel EXCEPT ![x] = Noted(@, x, status[x])]
         \/ status[x] = "running" /\ UNCHANGED <<channel, panicked>>
    ELSE UNCHANGED <<channel, panicked>>

\* The loop announces its agent and goes on.
Emit(x) ==
    /\ At(x, "emit")
    /\ Announce(x)
    /\ Go(x, loop[x].next)
    /\ UNCHANGED <<remote, status, cancelled, cancels, asked, serving, stream, answer>>

-----------------------------------------------------------------------------
(* Create, start, cancel, shut down.                                           *)

CreateAgent(x) ==
    /\ Alive /\ x \in Root /\ status[x] = "none"
    /\ Set(x, "pending")
    /\ UNCHANGED <<loop, cancelled, cancels, asked, links, panicked>>

\* StartAgent refuses a running agent only.
Started(x) ==
    /\ Set(x, "running")
    /\ cancels' = cancels \cup {x}
    /\ EmitThen(x, "check")

StartAgent(x) ==
    /\ Alive /\ x \in Root /\ status[x] # "none" /\ At(x, "none")
    /\ Started(x)
    /\ UNCHANGED <<cancelled, asked, links, panicked>>

\* Fault: the status is left to the loop, which may not see the end of its context.
CancelAgentOnly(x, by) ==
    /\ Alive /\ asked[<<x, by>>] = "none" /\ status[x] # "none"
    /\ asked' = [asked EXCEPT ![<<x, by>>] = Announced(x)]
    /\ cancelled' = IF x \in cancels THEN cancelled \cup {x} ELSE cancelled
    /\ cancels' = cancels \ {x}
    /\ UNCHANGED status

\* The cancel function is taken out and called; an agent that has ended keeps its status.
CancelAgent(x, by) ==
    /\ Alive /\ asked[<<x, by>>] = "none" /\ status[x] # "none"
    /\ asked' = [asked EXCEPT ![<<x, by>>] = Announced(x)]
    /\ cancelled' = IF x \in cancels THEN cancelled \cup {x} ELSE cancelled
    /\ cancels' = cancels \ {x}
    /\ status' = [status EXCEPT ![x] = IF @ \in Terminal THEN @ ELSE "cancelled"]

CancelByUser(x) ==
    /\ CancelAgent(x, "user")
    /\ UNCHANGED <<loop, links, panicked>>

\* The monitor of a remote spawn sees that its stream has ended.
CancelByMonitor(c) ==
    /\ c \in remote /\ serving[c] \in {"start", "serve"} /\ stream[c].is # "open"
    /\ CancelAgent(c, "monitor")
    /\ UNCHANGED <<loop, links, panicked>>

\* Every call of CancelAgent announces the agent, whether it changed or not.
EmitCancel(a) ==
    /\ Alive /\ asked[a] = "emit"
    /\ asked' = [asked EXCEPT ![a] = "done"]
    /\ Announce(a[1])
    /\ UNCHANGED <<remote, status, loop, cancelled, cancels, serving, stream, answer>>

\* Shutdown announces under the lock.
Shutdown ==
    LET active == {x \in Agent : status[x] \in {"pending", "running"}}
        told == {c \in Sub \cap active : channel[c].on}
    IN /\ Alive /\ active \cup cancels # {}
       /\ cancelled' = cancelled \cup cancels /\ cancels' = {}
       /\ status' = [x \in Agent |-> IF x \in active THEN "cancelled" ELSE status[x]]
       /\ panicked' = \E c \in told : channel[c].closed
       /\ channel' = [c \in Sub |-> IF c \in told /\ ~channel[c].closed
                                    THEN Noted(channel[c], c, "cancelled") ELSE channel[c]]
       /\ UNCHANGED <<remote, loop, asked, serving, stream, answer>>

-----------------------------------------------------------------------------
(* The loop.                                                                   *)

CheckStep(x) ==
    /\ At(x, "check")
    /\ CASE loop[x].step = MaxSteps -> Set(x, "failed") /\ EmitThen(x, "exit")
         [] loop[x].step < MaxSteps /\ x \in cancelled -> Set(x, "cancelled") /\ EmitThen(x, "exit")
         [] OTHER -> /\ UNCHANGED status
                     /\ loop' = [loop EXCEPT ![x] =
                                   [pc |-> IF x \in Root THEN "think" ELSE "emit",
                                    next |-> "think", step |-> @.step + 1]]
    /\ UNCHANGED <<cancelled, cancels, asked, links, panicked>>

\* The model answers with an action or with the final report, or the call fails, as it
\* does when the context is cancelled on the way.
QueryOllama(x) ==
    /\ At(x, "think")
    /\ \/ Set(x, IF x \in cancelled THEN "cancelled" ELSE "failed") /\ EmitThen(x, "exit")
       \/ Set(x, "completed") /\ EmitThen(x, "exit")
       \/ UNCHANGED status /\ EmitThen(x, "tool")
    /\ UNCHANGED <<cancelled, cancels, asked, links, panicked>>

ExecuteTool(x) ==
    /\ At(x, "tool")
    /\ Go(x, "result")
    /\ UNCHANGED <<status, cancelled, cancels, asked, links, panicked>>

\* spawn_sub_agent; the stream to another node may not open.
SpawnSubAgent(x, c) ==
    /\ At(x, "tool") /\ ParentOf[c] = x /\ serving[c] = "none"
    /\ Go(x, "wait")
    /\ serving' = [serving EXCEPT ![c] = "create"]
    /\ remote' \in {remote, remote \cup {c}}
    /\ UNCHANGED <<status, cancelled, cancels, asked, channel, stream, answer, panicked>>

ToolResult(x) ==
    /\ At(x, "result")
    /\ IF x \in cancelled THEN Set(x, "cancelled") /\ EmitThen(x, "exit")
       ELSE UNCHANGED status /\ EmitThen(x, "check")
    /\ UNCHANGED <<cancelled, cancels, asked, links, panicked>>

\* The deferred delete.
Exit(x) ==
    /\ At(x, "exit")
    /\ cancels' = cancels \ {x}
    /\ Go(x, "over")
    /\ UNCHANGED <<status, cancelled, asked, links, panicked>>

-----------------------------------------------------------------------------
(* The spawn: by the parent itself, or by HandleSwarmStream on the other node. *)

Served(c, s) == serving' = [serving EXCEPT ![c] = s]

\* The file of the new agent may not be written.
SpawnCreate(c) ==
    /\ Alive /\ serving[c] = "create"
    /\ \/ Set(c, "pending") /\ Served(c, "listen") /\ UNCHANGED stream
       \/ /\ UNCHANGED status /\ Served(c, "over")
          /\ stream' = [stream EXCEPT ![c].events = Append(@, "failed"), ![c].is =
                            IF @ = "open" THEN "closed" ELSE @]
    /\ UNCHANGED <<remote, loop, cancelled, cancels, asked, channel, answer, panicked>>

SpawnListen(c) ==
    /\ Alive /\ serving[c] = "listen"
    /\ channel' = [channel EXCEPT ![c].on = TRUE]
    /\ Served(c, "start")
    /\ UNCHANGED <<remote, status, loop, cancelled, cancels, asked, stream, answer, panicked>>

SpawnStart(c) ==
    /\ Alive /\ serving[c] = "start"
    /\ Started(c)
    /\ Served(c, "serve")
    /\ UNCHANGED <<remote, cancelled, asked, channel, stream, answer, panicked>>

Unlistened(c) == channel' = [channel EXCEPT ![c].on = FALSE, ![c].closed = c \in remote]
Told(c, s) == /\ answer' = [answer EXCEPT ![c] = s]
              /\ Go(ParentOf[c], "result")

\* A parent on the same node takes the first event that ends the wait.
ReadLocally(c) ==
    /\ Alive /\ c \notin remote /\ serving[c] = "serve" /\ channel[c].events # <<>>
    /\ Told(c, Head(channel[c].events))
    /\ Unlistened(c)
    /\ Served(c, "over")
    /\ UNCHANGED <<remote, status, cancelled, cancels, asked, stream, panicked>>

CreateFailedLocally(c) ==
    /\ Alive /\ c \notin remote /\ serving[c] = "over" /\ answer[c] = "none"
    /\ Told(c, "failed")
    /\ UNCHANGED <<remote, status, cancelled, cancels, asked, serving, channel, stream, panicked>>

\* Events are written to the stream until the channel is closed and empty, or a write fails.
Forward(c) ==
    /\ Alive /\ c \in remote /\ serving[c] = "serve"
    /\ IF channel[c].events # <<>> /\ stream[c].is = "open"
       THEN /\ stream' = [stream EXCEPT ![c].events = Append(@, Head(channel[c].events))]
            /\ channel' = [channel EXCEPT ![c].events = Tail(@)]
            /\ UNCHANGED serving
       ELSE /\ channel[c].events # <<>> \/ channel[c].closed
            /\ Served(c, "over")
            /\ Unlistened(c)
            /\ stream' = [stream EXCEPT ![c].is = IF @ = "open" THEN "closed" ELSE @]
    /\ UNCHANGED <<remote, status, loop, cancelled, cancels, asked, answer, panicked>>

\* The parent reads the stream; an outcome other than "completed" makes it leave at once,
\* "completed" counts when the stream has ended.
Waits(c) == Alive /\ c \in remote /\ At(ParentOf[c], "wait") /\ serving[c] # "none"
ReadStream(c) ==
    /\ Waits(c) /\ stream[c].events # <<>>
    /\ LET s == Head(stream[c].events)
       IN /\ stream' = [stream EXCEPT ![c].events = Tail(@),
                                      ![c].is = IF s \in {"failed", "cancelled"} THEN "closed" ELSE @]
          /\ CASE s = "running"   -> UNCHANGED <<answer, loop>>
               [] s = "completed" -> answer' = [answer EXCEPT ![c] = s] /\ UNCHANGED loop
               [] OTHER           -> Told(c, s)
    /\ UNCHANGED <<remote, status, cancelled, cancels, asked, serving, channel, panicked>>

\* No output is a failure.
StreamEnds(c) ==
    /\ Waits(c) /\ stream[c].is # "open" /\ stream[c].events = <<>>
    /\ Told(c, IF stream[c].is = "closed" /\ answer[c] = "completed" THEN "completed" ELSE "failed")
    /\ UNCHANGED <<remote, status, cancelled, cancels, asked, serving, channel, stream, panicked>>

StreamBreaks(c) ==
    /\ Waits(c) /\ stream[c].is = "open"
    /\ stream' = [stream EXCEPT ![c] = [events |-> <<>>, is |-> "broken"]]
    /\ UNCHANGED <<remote, status, loop, cancelled, cancels, asked, serving, channel, answer, panicked>>

-----------------------------------------------------------------------------
Loop(x) == \/ Emit(x) \/ CheckStep(x) \/ QueryOllama(x) \/ ExecuteTool(x)
           \/ (\E c \in Sub : SpawnSubAgent(x, c)) \/ ToolResult(x) \/ Exit(x)
Spawn(c) == \/ SpawnCreate(c) \/ SpawnListen(c) \/ SpawnStart(c) \/ ReadLocally(c)
            \/ CreateFailedLocally(c) \/ Forward(c) \/ ReadStream(c) \/ StreamEnds(c)

Next ==
    \/ \E x \in Agent : CreateAgent(x) \/ StartAgent(x) \/ CancelByUser(x) \/ Loop(x)
    \/ \E c \in Sub : Spawn(c) \/ CancelByMonitor(c) \/ StreamBreaks(c)
    \/ \E a \in Calls : EmitCancel(a)
    \/ Shutdown

\* The loops go on: the model server and the tools answer or time out.
Fairness == /\ \A x \in Agent : WF_vars(Loop(x))
            /\ \A c \in Sub : WF_vars(Spawn(c))

Spec == Init /\ [][Next]_vars /\ Fairness

-----------------------------------------------------------------------------
TypeOK ==
    /\ status \in [Agent -> {"none", "pending", "running"} \cup Terminal]
    /\ loop \in [Agent -> [pc : {"none", "emit", "check", "think", "tool", "wait", "result", "exit", "over"},
                           next : {"none", "check", "think", "tool", "exit"}, step : 0 .. MaxSteps]]
    /\ cancelled \subseteq Agent /\ cancels \subseteq Agent
    /\ remote \subseteq Sub
    /\ asked \in [Calls -> {"none", "emit", "done"}]
    /\ serving \in [Sub -> {"none", "create", "listen", "start", "serve", "over"}]
    /\ channel \in [Sub -> [events : Seq({"running"} \cup Terminal), on : BOOLEAN, closed : BOOLEAN]]
    /\ stream \in [Sub -> [events : Seq({"running"} \cup Terminal), is : {"open", "closed", "broken"}]]
    /\ answer \in [Sub -> {"none"} \cup Terminal]
    /\ panicked \in BOOLEAN

\* An agent that is running has a loop, and a cancel function by which it can be stopped,
\* however starts, ends, cancellations and a shutdown interleave (runner.go:287, agent.go:309).
RunningCanBeStopped ==
    \A x \in Agent : status[x] = "running" => x \in cancels /\ loop[x].pc \notin {"none", "exit", "over"}

\* A parent does not wait for ever, however its sub-agent ends and whatever events were
\* dropped from a full channel (tools.go:531).
WaitEnds == \A c \in Sub : loop[ParentOf[c]].pc = "wait" ~> loop[ParentOf[c]].pc # "wait" \/ panicked

\* Not invariants: an announcement may reach a channel that was closed meanwhile
\* (swarm.go:75), and an agent that was cancelled may be reported as completed later.
NoSendOnClosed == ~panicked
CancelledStays == [][\A x \in Agent : status[x] = "cancelled" => status'[x] # "completed"]_vars
====
