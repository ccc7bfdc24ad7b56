-------------------------------- MODULE Mcp ---------------------------------
(***************************************************************************)
(* The gateway to tool servers that run as child processes, seen for one   *)
(* server: its configuration in memory and on disk, the instances that     *)
(* were started for it, and calls that wait for an answer of one of them.  *)
(* The servers are external: one may exit, answer in any order, late or    *)
(* never.  A process that was told to stop will end.  Left out: tools and  *)
(* credentials.                                                            *)
(*                                                                         *)
(* Source: internal/mcp/gateway.go.                                        *)
(***************************************************************************)
EXTENDS Naturals, FiniteSets

CONSTANTS
    Caller,     \* calls to the server: of a tool, or of tools/list, which caches the tools
    Toggle,     \* requests that enable or disable it
    MaxStarts   \* bound: instances

McpAssumption == MaxStarts \in Nat

VARIABLES
    cfg,        \* configs[name]: exists, enabled
    disk,       \* the file <name>.json
    cur,        \* instances[name], 0 if none
    inst,       \* the instances: process, pipe, pending calls, requests sent, ids given
    call,       \* per call: step, instance, id, what answered it
    toggle,     \* per request: step, the value it sets
    loops       \* Run's loop: "off", "on", "over"

vars == <<cfg, disk, cur, inst, call, toggle, loops>>

Instance == 1 .. MaxStarts
NoConfig == [exists |-> FALSE, on |-> FALSE]
Unused == [proc |-> "none", open |-> FALSE, pending |-> {}, asked |-> {}, ids |-> 0]
Waiting == [pc |-> "idle", inst |-> 0, id |-> 0, got |-> "none"]

Init ==
    /\ cfg = NoConfig /\ disk = NoConfig
    /\ cur = 0
    /\ inst = [i \in Instance |-> Unused]
    /\ call = [c \in Caller |-> Waiting]
    /\ toggle = [t \in Toggle |-> [pc |-> "idle", on |-> FALSE]]
    /\ loops = "off"

-----------------------------------------------------------------------------
(* Instances.                                                                  *)

IsRunning(i) == i # 0 /\ inst[i].proc = "alive"
Fresh == {i \in Instance : inst[i] = Unused /\ \A j \in 1 .. i - 1 : inst[j] # Unused}

\* What is asked of an instance is forgotten when nothing is read from it any more.
Silent(x) == [x EXCEPT !.pending = {}, !.asked = {}, !.ids = 0]

\* stop closes the pipes and kills the process, which is reaped later.
Stopped(i) == IF i = 0 THEN inst ELSE [inst EXCEPT ![i] = [Silent(@) EXCEPT !.open = FALSE]]

\* startInstanceLocked: the old instance is stopped; the command may not start.
StartedAfter(before) ==
    \E i \in Fresh, ok \in BOOLEAN :
        /\ cur' = i
        /\ inst' = [before EXCEPT ![i] = [Unused EXCEPT
                        !.proc = IF ok THEN "alive" ELSE "failed", !.open = ok]]

\* Fault: the old instance is only forgotten.
StartInstanceForgets == StartedAfter(inst)
StartInstance == StartedAfter(Stopped(cur))

StopInstance == inst' = Stopped(cur) /\ cur' = 0

\* The process ends by itself or because it was killed; waitLoop closes done.
Exits(i) ==
    /\ inst[i].proc = "alive"
    /\ inst' = [inst EXCEPT ![i] = [Silent(@) EXCEPT !.proc = "dead"]]
    /\ UNCHANGED <<cfg, disk, cur, call, toggle, loops>>

\* A handshake that fails stops its own instance.
HandshakeFails(i) ==
    /\ inst[i].proc = "alive" /\ inst[i].open
    /\ inst' = Stopped(i)
    /\ UNCHANGED <<cfg, disk, cur, call, toggle, loops>>

-----------------------------------------------------------------------------
(* The loop.                                                                   *)

Run ==
    /\ loops = "off" /\ loops' = "on"
    /\ IF cfg.exists /\ cfg.on THEN StartInstance ELSE UNCHANGED <<cur, inst>>
    /\ UNCHANGED <<cfg, disk, call, toggle>>

Watchdog ==
    /\ loops = "on" /\ cfg.exists /\ cfg.on /\ ~IsRunning(cur)
    /\ StartInstance
    /\ UNCHANGED <<cfg, disk, call, toggle, loops>>

StopAll ==
    /\ loops = "on" /\ loops' = "over"
    /\ StopInstance
    /\ UNCHANGED <<cfg, disk, call, toggle>>

-----------------------------------------------------------------------------
(* Configuration.                                                              *)

\* SaveConfig: the file may not be written, and then nothing is started or stopped.  The
\* tools are then asked for, which is one of the calls.
Save(on) ==
    /\ cfg' = [exists |-> TRUE, on |-> on]
    /\ \/ disk' = cfg' /\ (IF on THEN StartInstance ELSE StopInstance)
       \/ UNCHANGED <<disk, cur, inst>>

SaveConfig(on) == Save(on) /\ UNCHANGED <<call, toggle, loops>>

\* Fault: the instance is left to the watchdog.
DeleteServerOnly ==
    /\ cfg' = NoConfig /\ disk' = NoConfig
    /\ UNCHANGED <<call, toggle, loops, cur, inst>>

DeleteServer ==
    /\ cfg' = NoConfig /\ disk' = NoConfig
    /\ StopInstance
    /\ UNCHANGED <<call, toggle, loops>>

\* ToggleServer changes the shared configuration without the lock, and saves a copy of it
\* later; one that was replaced or deleted meanwhile comes back.
ToggleServer(t, on) ==
    /\ toggle[t].pc = "idle" /\ cfg.exists
    /\ cfg' = [cfg EXCEPT !.on = on]
    /\ toggle' = [toggle EXCEPT ![t] = [pc |-> "save", on |-> on]]
    /\ UNCHANGED <<disk, cur, inst, call, loops>>

ToggleSaves(t) ==
    /\ toggle[t].pc = "save"
    /\ \E on \in {toggle[t].on} \cup {o \in {cfg.on} : cfg.exists} : Save(on)
    /\ toggle' = [toggle EXCEPT ![t].pc = "done"]
    /\ UNCHANGED <<call, loops>>

\* The agent dies with its children, and starts again.
Restart ==
    /\ cfg' = disk /\ loops' = "off" /\ cur' = 0
    /\ inst' = [i \in Instance |-> IF inst[i] = Unused THEN Unused
                    ELSE [Silent(inst[i]) EXCEPT !.open = FALSE, !.proc = "dead"]]
    /\ call' = [c \in Caller |-> Waiting]
    /\ toggle' = [t \in Toggle |-> IF toggle[t].pc = "save"
                                 THEN [toggle[t] EXCEPT !.pc = "done"] ELSE toggle[t]]
    /\ UNCHANGED disk

-----------------------------------------------------------------------------
(* Calls.                                                                      *)

Returned(x) == [pc |-> "done", inst |-> 0, id |-> 0, got |-> x]
Return(c, x) == call' = [call EXCEPT ![c] = Returned(x)]

\* The instance is chosen under the lock.
Choose(c) ==
    /\ call[c].pc = "idle" /\ IsRunning(cur)
    /\ call' = [call EXCEPT ![c].pc = "chosen", ![c].inst = cur]
    /\ UNCHANGED <<cfg, disk, cur, inst, toggle, loops>>

\* Fault: a call is numbered by the calls that wait.
NextIDByPending(i) == Cardinality(inst[i].pending) + 1
NextID(i) == inst[i].ids + 1

\* A call is entered and written to the server, if its pipe is open.
Request(c) ==
    /\ call[c].pc = "chosen"
    /\ LET i == call[c].inst
           n == NextID(i)
       IN IF ~inst[i].open THEN Return(c, "error") /\ UNCHANGED inst
          ELSE /\ call' = [call EXCEPT ![c].pc = "wait", ![c].id = n]
               /\ inst' = [inst EXCEPT ![i].ids = n, ![i].pending = @ \cup {n},
                                       ![i].asked = @ \cup {<<n, c>>}]
    /\ UNCHANGED <<cfg, disk, cur, toggle, loops>>

\* readLoop: an answer goes to the call of its id, or to nobody any more.  tools/list
\* writes the configuration of that moment to its file.
Answer(i, a) ==
    LET waits == {c \in Caller : call[c].pc = "wait" /\ call[c].inst = i /\ call[c].id = a[1]}
    IN /\ a \in inst[i].asked /\ inst[i].proc = "alive" /\ inst[i].open
       /\ inst' = [inst EXCEPT ![i].asked = @ \ {a}, ![i].pending = @ \ {a[1]}]
       /\ call' = [c \in Caller |-> IF c \in waits /\ a[1] \in inst[i].pending
                                    THEN Returned(a[2]) ELSE call[c]]
       /\ disk' \in {disk, IF cfg.exists THEN cfg ELSE disk}
       /\ UNCHANGED <<cfg, cur, toggle, loops>>

\* The timeout, or the end of the server.
GiveUp(c) ==
    /\ call[c].pc = "wait"
    /\ Return(c, "error")
    /\ \/ inst' = [inst EXCEPT ![call[c].inst].pending = @ \ {call[c].id}]
       \/ inst[call[c].inst].proc = "dead" /\ UNCHANGED inst
    /\ UNCHANGED <<cfg, disk, cur, toggle, loops>>

-----------------------------------------------------------------------------
Next ==
    \/ Run \/ Watchdog \/ StopAll \/ DeleteServer \/ Restart
    \/ \E on \in BOOLEAN : SaveConfig(on)
    \/ \E t \in Toggle : ToggleSaves(t) \/ \E on \in BOOLEAN : ToggleServer(t, on)
    \/ \E i \in Instance :
         Exits(i) \/ HandshakeFails(i) \/ \E a \in inst[i].asked : Answer(i, a)
    \/ \E c \in Caller : Choose(c) \/ Request(c) \/ GiveUp(c)

Spec == Init /\ [][Next]_vars

-----------------------------------------------------------------------------
Config == [exists : BOOLEAN, on : BOOLEAN]
TypeOK ==
    /\ cfg \in Config /\ disk \in Config
    /\ cur \in 0 .. MaxStarts
    /\ \A i \in Instance : /\ inst[i].proc \in {"none", "alive", "failed", "dead"}
                           /\ inst[i].pending \subseteq 1 .. inst[i].ids
                           /\ inst[i].open \in BOOLEAN
    /\ call \in [Caller -> [pc : {"idle", "chosen", "wait", "done"}, inst : 0 .. MaxStarts,
                            id : Nat, got : {"none", "error"} \cup Caller]]
    /\ toggle \in [Toggle -> [pc : {"idle", "save", "done"}, on : BOOLEAN]]
    /\ loops \in {"off", "on", "over"}

\* A server has one process at most that was not told to stop: the current instance of a
\* server that is configured, however saves, deletions, toggles, the watchdog and failed
\* handshakes interleave (gateway.go:436).
OneProcess ==
    \A i \in Instance : inst[i].open => i = cur /\ cfg.exists

\* A call gets the answer to its own request, also when earlier calls were given up and
\* their answers come late (gateway.go:251).
AnswerIsOwn == \A c \in Caller : call[c].got \in {"none", "error", c}
====
