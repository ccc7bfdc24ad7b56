--------------------------- MODULE MembershipProofs ---------------------------
(***************************************************************************)
(* Proof, for any nodes and any number of crashes, that the views of the   *)
(* nodes are well typed and that a health check has victims only while it  *)
(* runs, and never the node that checks.                                   *)
(***************************************************************************)
EXTENDS Membership, TLAPS

\* The part of the state that a task's move does not touch.
Views ==
    /\ up \subseteq Node
    /\ online \in [Node -> SUBSET Node] /\ silent \in [Node -> SUBSET Node]
    /\ late \in [Node -> SUBSET Node] /\ evict \in [Node -> SUBSET Node]
    /\ scan \in [Node -> [on : BOOLEAN, coordinator : BOOLEAN, victims : SUBSET Node]]
    /\ \A n \in Node : n \notin scan[n].victims /\ (scan[n].victims # {} => scan[n].on)
Placed == place \in [Node -> Node \cup {Nowhere}]
Typed == Views /\ Placed

\* TypeOK is these two.
LEMMA TypedIsTypeOK == TypeOK <=> Typed
BY DEF TypeOK, Views, Placed, Typed

\* A task that is queued again goes to a node that exists.
LEMMA RequeueKeeps ==
    ASSUME Placed, NEW n \in Node, NEW m \in Node, online' \in [Node -> SUBSET Node],
           Requeue(n, m)
    PROVE  Placed'
BY DEF Placed, Requeue

\* What a node hears of others.
LEMMA HeardKeeps ==
    ASSUME Typed, NEW n \in Node, NEW m \in Node,
           Heartbeat(m, n) \/ LateHeartbeat(m, n) \/ Silence(m, n)
    PROVE  Typed'
<1>1. CASE Heartbeat(m, n)
  BY <1>1 DEF Typed, Views, Placed, Heartbeat, Seen
<1>2. CASE LateHeartbeat(m, n)
  BY <1>2 DEF Typed, Views, Placed, LateHeartbeat, Seen
<1>3. CASE Silence(m, n)
  BY <1>3 DEF Typed, Views, Placed, Silence
<1> QED BY <1>1, <1>2, <1>3

\* A health check begins with other nodes only.
LEMMA ScanBeginKeeps == ASSUME Typed, NEW n \in Node, ScanBegin(n) PROVE Typed'
<1> DEFINE v == (online[n] \cap silent[n]) \ {n}
           b == Coordinates(n)
           s == [on |-> TRUE, coordinator |-> b, victims |-> v]
<1>1. /\ scan' = [scan EXCEPT ![n] = s]
      /\ UNCHANGED <<up, online, silent, late, evict, place, crashes>>
  BY DEF ScanBegin
<1>2. b \in BOOLEAN
  BY DEF Coordinates
<1>3. v \subseteq Node /\ n \notin v
  BY DEF Typed, Views, Placed
<1> HIDE DEF v, b
<1>4. /\ s \in [on : BOOLEAN, coordinator : BOOLEAN, victims : SUBSET Node]
      /\ s.on /\ n \notin s.victims
  BY <1>2, <1>3
<1> HIDE DEF s
<1> QED BY <1>1, <1>4 DEF Typed, Views, Placed

\* A victim is marked offline, and, by the coordinator, evicted.
LEMMA ScanVictimKeeps ==
    ASSUME Typed, NEW n \in Node, NEW m \in Node, ScanVictim(n, m) PROVE Typed'
<1>1. scan' = [scan EXCEPT ![n].victims = @ \ {m}] /\ m \in scan[n].victims
      /\ online' = [online EXCEPT ![n] = @ \ {m}] /\ UNCHANGED <<up, silent, late>>
  BY DEF ScanVictim
<1>2. evict' \in [Node -> SUBSET Node]
  <2>1. CASE scan[n].coordinator
    <3>1. PICK told \in SUBSET (up \ {n}) :
            evict' = [k \in Node |-> IF k \in told THEN evict[k] \cup {m} ELSE evict[k]]
      BY <2>1 DEF ScanVictim
    <3> QED BY <3>1 DEF Typed, Views, Placed
  <2>2. CASE ~scan[n].coordinator
    BY <2>2 DEF ScanVictim, Typed, Views
  <2> QED BY <2>1, <2>2
<1>3. Views'
  <2> DEFINE v == scan[n].victims \ {m}
             s == [scan[n] EXCEPT !.victims = v]
  <2>1. scan' = [scan EXCEPT ![n] = s]
    BY <1>1
  <2>2. v \subseteq Node /\ n \notin v
    BY DEF Typed, Views
  <2> HIDE DEF v
  <2>3. /\ s \in [on : BOOLEAN, coordinator : BOOLEAN, victims : SUBSET Node]
        /\ s.victims = v /\ s.on = scan[n].on
    BY <2>2 DEF Typed, Views
  <2>4. s.on
    BY <1>1, <2>3 DEF Typed, Views
  <2> HIDE DEF s
  <2>5. /\ scan' \in [Node -> [on : BOOLEAN, coordinator : BOOLEAN, victims : SUBSET Node]]
        /\ \A k \in Node : n \notin s.victims /\ scan'[k] = IF k = n THEN s ELSE scan[k]
    BY <2>1, <2>2, <2>3 DEF Typed, Views
  <2>6. \A k \in Node : k \notin scan'[k].victims /\ (scan'[k].victims # {} => scan'[k].on)
    BY <2>4, <2>5 DEF Typed, Views
  <2> QED BY <1>1, <1>2, <2>5, <2>6 DEF Typed, Views
<1>4. Placed'
  <2>1. online' \in [Node -> SUBSET Node]
    BY <1>3 DEF Views
  <2>2. CASE scan[n].coordinator
    BY <2>1, <2>2, RequeueKeeps DEF ScanVictim, Typed
  <2>3. CASE ~scan[n].coordinator
    BY <2>3 DEF ScanVictim, Typed, Placed
  <2> QED BY <2>2, <2>3
<1> QED BY <1>3, <1>4 DEF Typed

\* The check ends without victims.
LEMMA ScanEndKeeps == ASSUME Typed, NEW n \in Node, ScanEnd(n) PROVE Typed'
BY DEF Typed, Views, Placed, ScanEnd, NoScan

\* An eviction that arrives, be it of the receiver.
LEMMA EvictReceivedKeeps ==
    ASSUME Typed, NEW n \in Node, NEW m \in Node, EvictReceived(n, m) PROVE Typed'
<1>1. Views'
  BY DEF Typed, Views, EvictReceived
<1>2. Placed'
  BY <1>1, RequeueKeeps DEF EvictReceived, Typed, Views
<1> QED BY <1>1, <1>2 DEF Typed

\* A crash empties the node's views, and its last heartbeats may be under way.
LEMMA CrashKeeps == ASSUME Typed, NEW n \in Node, Crash(n) PROVE Typed'
<1>1. PICK r \in SUBSET (up \ {n}) :
        late' = [k \in Node |-> IF k \in r THEN late[k] \cup {n} ELSE late[k] \ {n}]
  BY DEF Crash
<1>2. late' \in [Node -> SUBSET Node]
  BY <1>1 DEF Typed, Views, Placed
<1> QED BY <1>2 DEF Typed, Views, Placed, Crash, NoScan

\* A node starts with itself online, and a task may end.
LEMMA AloneKeeps ==
    ASSUME Typed, NEW n \in Node, Restart(n) \/ TaskEnds(n) PROVE Typed'
<1>1. CASE Restart(n)
  BY <1>1 DEF Typed, Views, Placed, Restart
<1>2. CASE TaskEnds(n)
  BY <1>2 DEF Typed, Views, Placed, TaskEnds
<1> QED BY <1>1, <1>2

\* The views are well typed, and no health check has the node that runs it among its
\* victims, however late heartbeats, evictions, crashes and restarts fall
\* (internal/cluster/health.go).
THEOREM MembershipTypeCorrect == Spec => []TypeOK
<1>1. Init => Typed
  BY DEF Init, Typed, Views, Placed, NoScan
<1>2. Typed /\ [Next]_vars => Typed'
  <2> SUFFICES ASSUME Typed, [Next]_vars PROVE Typed'
    OBVIOUS
  <2>1. CASE UNCHANGED vars
    BY <2>1 DEF vars, Typed, Views, Placed
  <2> QED
    BY <2>1, HeardKeeps, ScanBeginKeeps, ScanVictimKeeps, ScanEndKeeps, EvictReceivedKeeps,
       CrashKeeps, AloneKeeps DEF Next, Check
<1> QED BY <1>1, <1>2, TypedIsTypeOK, PTL DEF Spec

===============================================================================
