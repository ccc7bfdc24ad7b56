------------------------------ MODULE Membership ------------------------------
(***************************************************************************)
(* Failure detection and its effect on the tasks (internal/cluster, the    *)
(* gossip handler and OnEvict of internal/agent, internal/network/gossip): *)
(* every node keeps its own view of who is online, fed by heartbeats and   *)
(* by a periodic health check; only the node that takes itself for the     *)
(* coordinator tells its scheduler, and the other nodes, of an eviction.   *)
(*                                                                         *)
(* No bound relates the heartbeats to the clock: a live node may be silent *)
(* for long enough to be taken for dead.                                   *)
(***************************************************************************)
EXTENDS Naturals, FiniteSets

CONSTANTS
    Node,       \* the nodes, numbered in the order of their scores
    Nowhere,    \* a task that ended
    MaxCrashes  \* bound: the crashes explored

MembershipAssumption ==
    /\ Node \subseteq Nat
    /\ IsFiniteSet(Node)
    /\ MaxCrashes \in Nat

VARIABLES
    up,       \* the nodes that run
    online,   \* of every node: the ones its cluster.Manager has online
    silent,   \* the ones not heard of for deadNodeTimeout
    late,     \* the crashed ones a last heartbeat of which is on its way to it
    evict,    \* the evictions on their way to it
    scan,     \* its health check: the victims left, and whether it coordinates
    place,    \* where the task submitted to it runs
    crashes

vars == <<up, online, silent, late, evict, scan, place, crashes>>

NoScan == [on |-> FALSE, coordinator |-> FALSE, victims |-> {}]

\* A formed cluster; a node may have a task, on some node.
Init ==
    /\ up = Node
    /\ online = [n \in Node |-> Node]
    /\ silent = [n \in Node |-> {}]
    /\ late = [n \in Node |-> {}]
    /\ evict = [n \in Node |-> {}]
    /\ scan = [n \in Node |-> NoScan]
    /\ place \in [Node -> Node \cup {Nowhere}]
    /\ crashes = 0

-----------------------------------------------------------------------------
(* Heartbeats *)

\* Fault: an update leaves the status of a known node as it is.
SeenKeepsStatus(n, m) ==
    /\ silent' = [silent EXCEPT ![n] = @ \ {m}]
    /\ UNCHANGED online

\* Manager.Upsert with the status online and LastSeen now.
Seen(n, m) ==
    /\ online' = [online EXCEPT ![n] = @ \cup {m}]
    /\ silent' = [silent EXCEPT ![n] = @ \ {m}]

\* m's broadcast reaches n; with m = n, selfUpdateLoop.
Heartbeat(m, n) ==
    /\ {m, n} \subseteq up
    /\ Seen(n, m)
    /\ UNCHANGED <<up, late, evict, scan, place, crashes>>

LateHeartbeat(m, n) ==
    /\ n \in up /\ m \in late[n]
    /\ Seen(n, m)
    /\ late' = [late EXCEPT ![n] = @ \ {m}]
    /\ UNCHANGED <<up, evict, scan, place, crashes>>

\* The deadline passes for m at n, n itself included.
Silence(m, n) ==
    /\ n \in up /\ m \notin silent[n]
    /\ silent' = [silent EXCEPT ![n] = @ \cup {m}]
    /\ UNCHANGED <<up, online, late, evict, scan, place, crashes>>

-----------------------------------------------------------------------------
(* The scheduler *)

\* HandleNodeEvicted: the task of the evicted node goes to an online one, or stays
\* with n itself (the fallback "local", which is not told from n here).
Requeue(n, m) ==
    IF place[n] = m
    THEN \E k \in online'[n] \cup {n} : place' = [place EXCEPT ![n] = k]
    ELSE UNCHANGED place

\* The task ends; a node that crashed ends none.
TaskEnds(n) ==
    /\ n \in up /\ place[n] \in up
    /\ place' = [place EXCEPT ![n] = Nowhere]
    /\ UNCHANGED <<up, online, silent, late, evict, scan, crashes>>

-----------------------------------------------------------------------------
(* HealthChecker *)

\* CoordinatorID: the highest score among the nodes online.
Coordinates(n) == n \in online[n] /\ \A m \in online[n] : m <= n

\* Fault: the coordinator is never checked.
ScanBeginSparesHighest(n) ==
    /\ n \in up /\ ~scan[n].on
    /\ scan' = [scan EXCEPT ![n] =
                  [on |-> TRUE, coordinator |-> Coordinates(n),
                   victims |-> {m \in (online[n] \cap silent[n]) \ {n} :
                                  \E k \in online[n] : k > m}]]
    /\ UNCHANGED <<up, online, silent, late, evict, place, crashes>>

\* Fault: the node checks itself as it checks the others.
ScanBeginChecksItself(n) ==
    /\ n \in up /\ ~scan[n].on
    /\ scan' = [scan EXCEPT ![n] =
                  [on |-> TRUE, coordinator |-> Coordinates(n),
                   victims |-> online[n] \cap silent[n]]]
    /\ UNCHANGED <<up, online, silent, late, evict, place, crashes>>

\* check reads the coordinator and a copy of the list; what it then does to each
\* victim may be out of date.
ScanBegin(n) ==
    /\ n \in up /\ ~scan[n].on
    /\ scan' = [scan EXCEPT ![n] =
                  [on |-> TRUE, coordinator |-> Coordinates(n),
                   victims |-> (online[n] \cap silent[n]) \ {n}]]
    /\ UNCHANGED <<up, online, silent, late, evict, place, crashes>>

\* MarkOffline, and, on the coordinator only, OnEvict.  The eviction is sent under
\* a context that ends with OnEvict: it may reach any of the others, or none.
ScanVictim(n, m) ==
    /\ n \in up /\ m \in scan[n].victims
    /\ scan' = [scan EXCEPT ![n].victims = @ \ {m}]
    /\ online' = [online EXCEPT ![n] = @ \ {m}]
    /\ IF scan[n].coordinator
       THEN /\ \E told \in SUBSET (up \ {n}) :
                 evict' = [k \in Node |-> IF k \in told THEN evict[k] \cup {m} ELSE evict[k]]
            /\ Requeue(n, m)
       ELSE UNCHANGED <<evict, place>>
    /\ UNCHANGED <<up, silent, late, crashes>>

ScanEnd(n) ==
    /\ n \in up /\ scan[n].on /\ scan[n].victims = {}
    /\ scan' = [scan EXCEPT ![n] = NoScan]
    /\ UNCHANGED <<up, online, silent, late, evict, place, crashes>>

\* The gossip handler: any node may be evicted, the receiver itself included.
EvictReceived(n, m) ==
    /\ n \in up /\ m \in evict[n]
    /\ evict' = [evict EXCEPT ![n] = @ \ {m}]
    /\ online' = [online EXCEPT ![n] = @ \ {m}]
    /\ Requeue(n, m)
    /\ UNCHANGED <<up, silent, late, scan, crashes>>

-----------------------------------------------------------------------------
(* Crashes *)

\* What the node had sent may still arrive.
Crash(n) ==
    /\ n \in up /\ crashes < MaxCrashes
    /\ crashes' = crashes + 1
    /\ up' = up \ {n}
    /\ \E r \in SUBSET (up \ {n}) :
         late' = [k \in Node |-> IF k \in r THEN late[k] \cup {n} ELSE late[k] \ {n}]
    /\ online' = [online EXCEPT ![n] = {}]
    /\ silent' = [silent EXCEPT ![n] = {}]
    /\ evict' = [evict EXCEPT ![n] = {}]
    /\ scan' = [scan EXCEPT ![n] = NoScan]
    /\ place' = [place EXCEPT ![n] = Nowhere]

Restart(n) ==
    /\ n \notin up
    /\ up' = up \cup {n}
    /\ online' = [online EXCEPT ![n] = {n}]
    /\ late' = [late EXCEPT ![n] = {}]
    /\ UNCHANGED <<silent, evict, scan, place, crashes>>

-----------------------------------------------------------------------------
Check(n) == ScanBegin(n) \/ (\E m \in Node : ScanVictim(n, m)) \/ ScanEnd(n)

Next ==
    \/ \E n, m \in Node : \/ Heartbeat(m, n) \/ LateHeartbeat(m, n) \/ Silence(m, n)
                          \/ EvictReceived(n, m)
    \/ \E n \in Node : Check(n) \/ TaskEnds(n) \/ Crash(n) \/ Restart(n)

Spec == Init /\ [][Next]_vars

\* The loops of a running node go on; a node that crashed stays silent long enough;
\* what was sent arrives.
FairSpec ==
    /\ Spec
    /\ \A n \in Node : WF_vars(Check(n))
    /\ \A n, m \in Node :
         /\ WF_vars(Heartbeat(m, n)) /\ WF_vars(LateHeartbeat(m, n))
         /\ WF_vars(m \notin up /\ Silence(m, n)) /\ WF_vars(EvictReceived(n, m))

-----------------------------------------------------------------------------
(* Properties *)

\* Every variable stays in its type; a check has victims only while it runs, and
\* never the node itself.
TypeOK ==
    /\ up \subseteq Node
    /\ {online, silent, late, evict} \subseteq [Node -> SUBSET Node]
    /\ scan \in [Node -> [on : BOOLEAN, coordinator : BOOLEAN, victims : SUBSET Node]]
    /\ \A n \in Node : n \notin scan[n].victims /\ (scan[n].victims # {} => scan[n].on)
    /\ place \in [Node -> Node \cup {Nowhere}]

\* A crashed node is not taken for online for ever, by any node, whatever late
\* heartbeats and evictions arrive.
DeadIsNoticed ==
    \A n \in Node : \A m \in Node \ {n} :
        m \notin up ~> m \notin online[n] \/ n \notin up \/ m \in up

\* However often it is evicted by mistake, by others or even by itself, a running
\* node comes back online in every view.
LiveComesBack ==
    \A n, m \in Node : []<>({n, m} \subseteq up => m \in online[n])

\* "Running tasks on that node are automatically re-queued and rescheduled on active
\* nodes": a task does not stay on a node that crashed.
TaskLeavesDeadNode ==
    \A n, m \in Node : place[n] = m /\ m \notin up ~> place[n] # m \/ m \in up

===============================================================================
