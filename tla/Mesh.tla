--------------------------------- MODULE Mesh ---------------------------------
(***************************************************************************)
(* The mesh router (internal/network/router.go): every node learns the     *)
(* peers of its peers from their heartbeats, computes the next hop to      *)
(* every node it has heard of by a breadth-first search, and relays a      *)
(* stream hop by hop to a node it is not connected to.  A view is as old   *)
(* as the last heartbeat, so that two nodes may route to each other; the   *)
(* hop count of the handshake ends the loop.                               *)
(***************************************************************************)
EXTENDS Integers, Sequences, FiniteSets, SequencesExt

CONSTANTS
    Node,         \* the nodes, all trusted members of one cluster
    Links,        \* the connections at the start, sets of two nodes
    From, To,     \* the ends of the stream explored
    Orders,       \* the orders in which Peers() and a heartbeat list nodes
    MaxHops,      \* RelayHandshake.HopsCount at the origin
    Volatile,     \* bound: the connections that are made and lost
    MaxChange     \* bound: how often one is

NoRoute == [next |-> From, hops |-> 0]

VARIABLES
    link,       \* the libp2p connections there are
    changes,    \* how many connections were made or lost
    peersMap,   \* r.peersMap of every node: the peers reported, {} if none are
    seen,       \* the peers a node was connected to when it last computed routes
    table,      \* r.routingTable of every node
    due,        \* nodes with an update of peersMap not followed by a computation yet
    path,       \* the nodes the stream was relayed through
    hops,       \* RelayHandshake.HopsCount as it reached the last of them
    stream      \* "none", "relay", "open" or "rejected"

vars == <<link, changes, peersMap, seen, table, due, path, hops, stream>>

Pairs == {p \in SUBSET Node : Cardinality(p) = 2}
Peers(n) == {m \in Node \ {n} : {n, m} \in link}

\* One turn of the search: the head of the queue gets its route, and the neighbours it
\* reported that were not visited join the queue under the same next hop.
Visit(known, order, s) ==
    IF s.queue = <<>> THEN s
    ELSE LET curr == Head(s.queue)
             fresh == SelectSeq(order, LAMBDA m : m \in known[curr.node] \ s.visited)
         IN [queue |-> Tail(s.queue) \o
                 [i \in DOMAIN fresh |-> [node |-> fresh[i], next |-> curr.next,
                                          hops |-> curr.hops + 1]],
             visited |-> s.visited \cup ToSet(fresh),
             table |-> [s.table EXCEPT ![curr.node] = [next |-> curr.next, hops |-> curr.hops]]]

\* The node itself and its peers are marked before the search begins.
VisitedForgetsPeers(n, direct) == {n}
VisitedFirst(n, direct) == {n} \cup direct

\* Every node joins the queue once: as many turns as there are nodes empty it.
Routes(n, direct, known, order) ==
    LET near == SelectSeq(order, LAMBDA m : m \in direct)
        start == [queue |-> [i \in DOMAIN near |->
                                [node |-> near[i], next |-> near[i], hops |-> 1]],
                  visited |-> VisitedFirst(n, direct),
                  table |-> [m \in Node |-> NoRoute]]
    IN FoldLeft(LAMBDA s, m : Visit(known, order, s), start, order).table

\* The cluster has run for a while: every node has heard of its peers and their peers.
Init ==
    /\ link = Links /\ changes = 0
    /\ peersMap = [n \in Node |-> [m \in Node |-> IF m \in Peers(n) THEN Peers(m) ELSE {}]]
    /\ seen = [n \in Node |-> Peers(n)]
    /\ table = [n \in Node |-> Routes(n, Peers(n), peersMap[n], CHOOSE o \in Orders : TRUE)]
    /\ due = {}
    /\ path = <<From>> /\ hops = MaxHops /\ stream = "none"

-----------------------------------------------------------------------------
(* Views and tables *)

\* A connection is made or lost: neither changes a table.
Connect(p) ==
    /\ p \in Volatile \ link
    /\ changes < MaxChange /\ changes' = changes + 1
    /\ link' = link \cup {p}
    /\ UNCHANGED <<peersMap, seen, table, due, path, hops, stream>>

Disconnect(p) ==
    /\ p \in Volatile \cap link
    /\ changes < MaxChange /\ changes' = changes + 1
    /\ link' = link \ {p}
    /\ UNCHANGED <<peersMap, seen, table, due, path, hops, stream>>

\* A heartbeat of n reaches m, which is connected to n: the handler replaces what it had
\* heard of n and computes its routes in a critical section of its own.
Heartbeat(n, m) ==
    /\ m \in Peers(n)
    /\ Peers(n) # peersMap[m][n]
    /\ peersMap' = [peersMap EXCEPT ![m][n] = Peers(n)]
    /\ due' = due \cup {m}
    /\ UNCHANGED <<link, changes, seen, table, path, hops, stream>>

\* The node of an eviction is forgotten, by the node that evicts and by all it tells.
DeleteNode(n, m) ==
    /\ m \notin Peers(n) /\ peersMap[n][m] # {}
    /\ peersMap' = [peersMap EXCEPT ![n][m] = {}]
    /\ due' = due \cup {n}
    /\ UNCHANGED <<link, changes, seen, table, path, hops, stream>>

\* The table is computed under the lock, from the views and the connections of the moment.
Recalculate(n) ==
    /\ n \in due
    /\ due' = due \ {n}
    /\ seen' = [seen EXCEPT ![n] = Peers(n)]
    /\ \E order \in Orders :
         table' = [table EXCEPT ![n] = Routes(n, Peers(n), peersMap[n], order)]
    /\ UNCHANGED <<link, changes, peersMap, path, hops, stream>>

-----------------------------------------------------------------------------
(* A stream *)

At == path[Len(path)]

\* Where the stream goes from here: the destination itself when it is connected, the next
\* hop of the table otherwise, nowhere when there is none or it is not connected.
Onward(n) ==
    IF To \in Peers(n) THEN {To}
    ELSE {table[n][To].next} \cap Peers(n)

OpenStream ==
    /\ stream = "none"
    /\ \E m \in Onward(From) :
         /\ path' = <<From, m>>
         /\ stream' = IF m = To THEN "open" ELSE "relay"
    /\ UNCHANGED <<link, changes, peersMap, seen, table, due, hops>>

\* A relay opens the destination at no cost, and another relay at the cost of a hop.
RelayToDestination ==
    /\ stream = "relay" /\ hops > 0 /\ To \in Peers(At)
    /\ path' = Append(path, To)
    /\ stream' = "open"
    /\ UNCHANGED <<link, changes, peersMap, seen, table, due, hops>>

RelayForever ==
    /\ stream = "relay" /\ hops > 0 /\ To \notin Peers(At)
    /\ \E m \in Onward(At) : path' = Append(path, m)
    /\ UNCHANGED <<link, changes, peersMap, seen, table, due, hops, stream>>

RelayOnward ==
    /\ stream = "relay" /\ hops > 0 /\ To \notin Peers(At)
    /\ \E m \in Onward(At) : path' = Append(path, m)
    /\ hops' = hops - 1
    /\ UNCHANGED <<link, changes, peersMap, seen, table, due, stream>>

\* No hop left, no route, or a next hop that cannot be reached: every relay back to the
\* origin resets its two streams.
Reject ==
    /\ stream = "relay"
    /\ hops <= 0 \/ Onward(At) = {}
    /\ stream' = "rejected"
    /\ UNCHANGED <<link, changes, peersMap, seen, table, due, path, hops>>

\* The stream ends, or any of its connections does.
Ends ==
    /\ stream \in {"open", "rejected"}
    /\ stream' = "none" /\ path' = <<From>> /\ hops' = MaxHops
    /\ UNCHANGED <<link, changes, peersMap, seen, table, due>>

Next ==
    \/ \E p \in Volatile : Connect(p) \/ Disconnect(p)
    \/ \E n, m \in Node : Heartbeat(n, m) \/ DeleteNode(n, m)
    \/ \E n \in Node : Recalculate(n)
    \/ OpenStream \/ RelayToDestination \/ RelayOnward \/ Reject \/ Ends

Spec == Init /\ [][Next]_vars

-----------------------------------------------------------------------------
\* Every variable stays in its type.
TypeOK ==
    /\ link \subseteq Pairs /\ changes \in 0 .. MaxChange
    /\ peersMap \in [Node -> [Node -> SUBSET Node]]
    /\ seen \in [Node -> SUBSET Node]
    /\ table \in [Node -> [Node -> [next : Node, hops : 0 .. Cardinality(Node)]]]
    /\ due \subseteq Node
    /\ path \in Seq(Node) /\ hops \in 0 .. MaxHops
    /\ stream \in {"none", "relay", "open", "rejected"}

\* The nodes n can reach in k hops by what it has heard.
Within(n, k) ==
    LET near[i \in 1 .. k] ==
            IF i = 1 THEN seen[n]
            ELSE near[i - 1] \cup UNION {peersMap[n][m] : m \in near[i - 1]}
    IN near[k] \ {n}

\* A table whose node has nothing to compute holds exactly the shortest routes of what the
\* node has heard: no node is farther than its route says, and the next hop is a peer
\* (recalculateRoutes).
RoutesAreShortest ==
    \A n \in Node \ due : \A d \in Node \ {n} :
        LET r == table[n][d] IN
        IF r.hops = 0 THEN d \notin Within(n, Cardinality(Node))
        ELSE /\ r.next \in seen[n]
             /\ d \in Within(n, r.hops)
             /\ r.hops > 1 => d \notin Within(n, r.hops - 1)

\* Every node knows its peers and what they are connected to.
Settled ==
    /\ due = {}
    /\ \A n \in Node : seen[n] = Peers(n)
    /\ \A n, m \in Node : peersMap[n][m] = IF m \in Peers(n) THEN Peers(m) ELSE {}

\* When every view is current, following the tables arrives in the promised number of
\* hops: nodes that compute their routes alone, breaking ties as they like, agree
\* (recalculateRoutes, NewStream, handleRelayStream).
SettledRoutesArrive ==
    Settled => \A n, d \in Node : table[n][d].hops > 0 =>
        LET at[i \in 0 .. table[n][d].hops] ==
                IF i = 0 THEN n ELSE table[at[i - 1]][d].next
        IN at[table[n][d].hops] = d

\* However stale the views, a stream passes no more relays than its handshake allows
\* (handleRelayStream).
RelaysAreBounded == Len(path) <= MaxHops + 3

\* Not an invariant: heartbeats only go to direct peers, so that a node never hears of
\* nodes three hops away, and routes are never longer than two hops once all is settled.
ReachesAll ==
    Settled => \A n \in Node : \A d \in Node \ {n} :
        table[n][d].hops = 0 => d \notin Within(n, Cardinality(Node))

=============================================================================
