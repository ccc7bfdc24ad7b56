------------------------------- MODULE Settings -------------------------------
(***************************************************************************)
(* The settings of a cluster (internal/api/middleware.go, the settings     *)
(* bridge of internal/agent/agent.go, internal/policy): every node keeps   *)
(* them in memory, on disk and, the policies among them, in its policy     *)
(* engine.  A change through the API is stamped; nodes exchange the whole  *)
(* record and the later stamp wins.  A handler changes memory, disk and    *)
(* engine in critical sections of their own, one after the other.          *)
(***************************************************************************)
EXTENDS Integers, FiniteSets

CONSTANTS
    Node,       \* the nodes, trusting one another
    Handler,    \* request handlers and synchronisations under way, at any node
    Limit,      \* values of a resource limit, one of the fields that are synchronised
    Policies,   \* values of the policies
    MaxStamp,   \* bound: stamps there are
    MaxCrash    \* bound: crashes

SettingsAssumption ==
    /\ Node # {} /\ Limit # {} /\ Policies # {} /\ MaxStamp \in Nat /\ MaxCrash \in Nat

Stamp == 0 .. MaxStamp
Records == [limit : Limit, policies : Policies, at : Stamp]
Default == [limit |-> CHOOSE x \in Limit : TRUE, policies |-> CHOOSE x \in Policies : TRUE,
            at |-> 0]

VARIABLES
    memory,     \* Settings of every node
    disk,       \* settings.json of every node
    engine,     \* Engine.policies of every node
    wire,       \* the settings last sent in a sync request or response, received late or never
    handler,    \* handlers: pc, node, and what they have copied
    used,       \* stamps given: the clocks of two nodes may be in any order, never equal
    echoed,     \* TRUE: a client sent back a stamp it had been given
    unsure,     \* nodes where two handlers changed settings at once, or a write failed
    crashes

vars == <<memory, disk, engine, wire, handler, used, echoed, unsure, crashes>>

Idle == [pc |-> "idle", node |-> CHOOSE n \in Node : TRUE, data |-> Default]

Init ==
    /\ memory = [n \in Node |-> Default] /\ disk = memory
    /\ engine = [n \in Node |-> Default.policies]
    /\ wire = {}
    /\ handler = [h \in Handler |-> Idle]
    /\ used = {0} /\ echoed = FALSE /\ unsure = {} /\ crashes = 0

At(h, pc) == handler[h].pc = pc
Busy(n) == \E h \in Handler : ~At(h, "idle") /\ handler[h].node = n
Changes(n, h, record) ==
    /\ memory' = [memory EXCEPT ![n] = record]
    /\ handler' = [handler EXCEPT ![h] = [Idle EXCEPT !.pc = "save", !.node = n]]
    /\ unsure' = IF Busy(n) THEN unsure \cup {n} ELSE unsure

\* PUT /api/settings: the record takes the time, or the stamp the client sent along.
Merge(n, h) ==
    /\ At(h, "idle")
    /\ \E l \in Limit \ {memory[n].limit}, p \in Policies \ {memory[n].policies} :
         \/ \E t \in Stamp \ used :
              /\ used' = used \cup {t} /\ echoed' = echoed
              /\ Changes(n, h, [limit |-> l, policies |-> p, at |-> t])
         \/ /\ memory[n].at = MaxStamp /\ ~echoed
            /\ echoed' = TRUE /\ used' = used
            /\ Changes(n, h, [limit |-> l, policies |-> p, at |-> memory[n].at])
    /\ UNCHANGED <<disk, engine, wire, crashes>>

\* A sync request or its response carries the settings of the moment.
Send(n) ==
    /\ memory[n].at > 0 /\ memory[n] \notin wire
    /\ wire' = {memory[n]}
    /\ UNCHANGED <<memory, disk, engine, handler, used, echoed, unsure, crashes>>

\* It is taken as a whole when it is later than the node's own, and ignored otherwise.
MergedForgetsLimit(own, incoming) == [incoming EXCEPT !.limit = own.limit]
Merged(own, incoming) == incoming

ApplySyncableFields(n, h) ==
    /\ At(h, "idle")
    /\ \E incoming \in wire :
         /\ incoming.at > memory[n].at
         /\ Changes(n, h, Merged(memory[n], incoming))
    /\ UNCHANGED <<disk, engine, wire, used, echoed, crashes>>

\* SaveToDisk: the record is read again under the lock, and written without it.
Marshal(h) ==
    /\ At(h, "save")
    /\ handler' = [handler EXCEPT ![h].pc = "commit", ![h].data = memory[handler[h].node]]
    /\ UNCHANGED <<memory, disk, engine, wire, used, echoed, unsure, crashes>>

CommitOnly(h) ==
    /\ At(h, "commit")
    /\ disk' = [disk EXCEPT ![handler[h].node] = handler[h].data]
    /\ handler' = [handler EXCEPT ![h] = Idle]
    /\ UNCHANGED <<memory, engine, wire, used, echoed, unsure, crashes>>

Commit(h) ==
    /\ At(h, "commit")
    /\ disk' = [disk EXCEPT ![handler[h].node] = handler[h].data]
    /\ handler' = [handler EXCEPT ![h].pc = "get", ![h].data = Default]
    /\ UNCHANGED <<memory, engine, wire, used, echoed, unsure, crashes>>

\* The write may fail: nobody looks at the error.
SaveFails(h) ==
    /\ At(h, "commit")
    /\ handler' = [handler EXCEPT ![h].pc = "get", ![h].data = Default]
    /\ unsure' = unsure \cup {handler[h].node}
    /\ UNCHANGED <<memory, disk, engine, wire, used, echoed, crashes>>

\* SetPolicies(GetPolicies()): a copy is taken, then it is put in force.
GetPolicies(h) ==
    /\ At(h, "get")
    /\ handler' = [handler EXCEPT ![h].pc = "set", ![h].data = memory[handler[h].node]]
    /\ UNCHANGED <<memory, disk, engine, wire, used, echoed, unsure, crashes>>

SetPolicies(h) ==
    /\ At(h, "set")
    /\ engine' = [engine EXCEPT ![handler[h].node] = handler[h].data.policies]
    /\ handler' = [handler EXCEPT ![h] = Idle]
    /\ UNCHANGED <<memory, disk, wire, used, echoed, unsure, crashes>>

\* A node that starts takes everything from its disk.
Restart(n) ==
    /\ crashes < MaxCrash /\ crashes' = crashes + 1
    /\ memory' = [memory EXCEPT ![n] = disk[n]]
    /\ engine' = [engine EXCEPT ![n] = disk[n].policies]
    /\ handler' = [h \in Handler |-> IF handler[h].node = n THEN Idle ELSE handler[h]]
    /\ unsure' = unsure \ {n}
    /\ UNCHANGED <<disk, wire, used, echoed>>

Next ==
    \/ \E n \in Node : Send(n) \/ Restart(n)
    \/ \E n \in Node, h \in Handler : Merge(n, h) \/ ApplySyncableFields(n, h)
    \/ \E h \in Handler :
         Marshal(h) \/ Commit(h) \/ SaveFails(h) \/ GetPolicies(h) \/ SetPolicies(h)

Spec == Init /\ [][Next]_vars

-----------------------------------------------------------------------------
\* Every variable stays in its type.
TypeOK ==
    /\ memory \in [Node -> Records] /\ disk \in [Node -> Records]
    /\ engine \in [Node -> Policies]
    /\ wire \subseteq Records
    /\ handler \in [Handler -> [pc : {"idle", "save", "commit", "get", "set"}, node : Node,
                                data : Records]]
    /\ used \subseteq Stamp /\ echoed \in BOOLEAN /\ unsure \subseteq Node
    /\ crashes \in 0 .. MaxCrash

Everywhere == {memory[n] : n \in Node} \cup {disk[n] : n \in Node} \cup wire

\* Unless a client sends a stamp back, two nodes that agree on the stamp of their settings
\* agree on the settings, through crashes and late messages: otherwise neither would ever
\* take the other's (Merge, ApplySyncableFields).
SameStampSameSettings ==
    ~echoed => \A r, s \in Everywhere : r.at = s.at => r = s

\* A node that has finished with its settings one handler at a time enforces the policies
\* it shows, and has them on disk, whether they were set there or came from a peer
\* (handleUpdateSettings, ApplySyncableSettings).
ShownIsEnforced ==
    \A n \in Node \ unsure : ~Busy(n) =>
        engine[n] = memory[n].policies /\ disk[n] = memory[n]

\* Not invariants: two handlers may leave the older settings on disk or the older policies
\* in force, and a stamp sent back gives two different settings the same one.
QuietIsEnforced == \A n \in Node : ~Busy(n) => engine[n] = memory[n].policies
QuietIsSaved == \A n \in Node : ~Busy(n) => disk[n] = memory[n]
StampsTellApart == \A r, s \in Everywhere : r.at = s.at => r = s

=============================================================================
