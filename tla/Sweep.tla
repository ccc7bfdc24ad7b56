-------------------------------- MODULE Sweep --------------------------------
(***************************************************************************)
(* The sweep of the local subnets before the ARP table is read             *)
(* (sweepSubnets and iterateIPs of internal/wol/wol.go): the scan walks    *)
(* the addresses of every small subnet into a bounded channel, workers     *)
(* with a socket each send to them, and the scan waits for the workers two *)
(* seconds at most.                                                        *)
(***************************************************************************)
EXTENDS Integers, SequencesExt

CONSTANTS
    Worker,     \* the sweeping goroutines
    Capacity,   \* of ipChan
    Space,      \* how many addresses there are
    MaxSize,    \* addresses of the largest subnet that is swept (1024)
    Subnets     \* the interfaces: [host, size], the address of the node and its subnet's size

SweepAssumption ==
    /\ Capacity \in Nat /\ Space \in Nat \ {0}
    /\ \A s \in Subnets :
         s.host \in 0 .. Space - 1 /\ s.size \in 1 .. Space /\ Space % s.size = 0

VARIABLES
    todo,       \* subnets not looked at yet
    walk,       \* the address reached and the broadcast address it ends at
    scan,       \* "next", "walk", "closed", then how it ended
    ipChan,     \* addresses handed to the workers
    worker,     \* "start", "ready" or "gone"
    opened,     \* workers that got a socket
    swept,      \* addresses sent to
    cancelled   \* TRUE when the request is over

vars == <<todo, walk, scan, ipChan, worker, opened, swept, cancelled>>

Small == {s \in Subnets : s.size <= MaxSize}
Network(s) == s.host - (s.host % s.size)
Broadcast(s) == Network(s) + s.size - 1

\* The address after the last is the first.
After(ip) == (ip + 1) % Space

Init ==
    /\ todo = Subnets /\ walk = [at |-> 0, end |-> 0] /\ scan = "next"
    /\ ipChan = <<>> /\ worker = [w \in Worker |-> "start"] /\ opened = {}
    /\ swept = {} /\ cancelled = FALSE

NextSubnet ==
    /\ scan = "next"
    /\ \E s \in todo :
         /\ todo' = todo \ {s}
         /\ IF s \in Small
            THEN scan' = "walk" /\ walk' = [at |-> Network(s), end |-> Broadcast(s)]
            ELSE UNCHANGED <<scan, walk>>
    /\ UNCHANGED <<ipChan, worker, opened, swept, cancelled>>

Hand(ip) == \/ cancelled /\ UNCHANGED ipChan
            \/ Len(ipChan) < Capacity /\ ipChan' = Append(ipChan, ip)

\* iterateIPs: the address is increased first, and the broadcast address ends the walk.
IterateFromNetwork ==
    /\ scan = "walk"
    /\ walk' = [walk EXCEPT !.at = After(@)]
    /\ IF walk.at = walk.end
       THEN scan' = "next" /\ UNCHANGED ipChan
       ELSE scan' = "walk" /\ Hand(walk.at)
    /\ UNCHANGED <<todo, worker, opened, swept, cancelled>>

Iterate ==
    /\ scan = "walk"
    /\ walk' = [walk EXCEPT !.at = After(@)]
    /\ IF After(walk.at) = walk.end
       THEN scan' = "next" /\ UNCHANGED ipChan
       ELSE scan' = "walk" /\ Hand(After(walk.at))
    /\ UNCHANGED <<todo, worker, opened, swept, cancelled>>

Close ==
    /\ scan = "next" /\ todo = {}
    /\ scan' = "closed"
    /\ UNCHANGED <<todo, walk, ipChan, worker, opened, swept, cancelled>>

Open(w) ==
    /\ worker[w] = "start"
    /\ worker' = [worker EXCEPT ![w] = "ready"]
    /\ opened' = opened \cup {w}
    /\ UNCHANGED <<todo, walk, scan, ipChan, swept, cancelled>>

OpenFails(w) ==
    /\ worker[w] = "start"
    /\ worker' = [worker EXCEPT ![w] = "gone"]
    /\ UNCHANGED <<todo, walk, scan, ipChan, opened, swept, cancelled>>

\* A worker that takes an address of a request that is over returns.
Take(w) ==
    /\ worker[w] = "ready" /\ ipChan # <<>>
    /\ ipChan' = Tail(ipChan)
    /\ IF cancelled THEN worker' = [worker EXCEPT ![w] = "gone"] /\ UNCHANGED swept
       ELSE swept' = swept \cup {Head(ipChan)} /\ UNCHANGED worker
    /\ UNCHANGED <<todo, walk, scan, opened, cancelled>>

Leave(w) ==
    /\ worker[w] = "ready" /\ ipChan = <<>> /\ scan \notin {"next", "walk"}
    /\ worker' = [worker EXCEPT ![w] = "gone"]
    /\ UNCHANGED <<todo, walk, scan, ipChan, opened, swept, cancelled>>

Cancel ==
    /\ ~cancelled
    /\ cancelled' = TRUE
    /\ UNCHANGED <<todo, walk, scan, ipChan, worker, opened, swept>>

Return ==
    /\ scan = "closed"
    /\ \/ scan' = "done" /\ \A w \in Worker : worker[w] = "gone"
       \/ scan' = "timed out"
       \/ scan' = "cancelled" /\ cancelled
    /\ UNCHANGED <<todo, walk, ipChan, worker, opened, swept, cancelled>>

Next ==
    \/ NextSubnet \/ Iterate \/ Close \/ Cancel \/ Return
    \/ \E w \in Worker : Open(w) \/ OpenFails(w) \/ Take(w) \/ Leave(w)

Spec == Init /\ [][Next]_vars

-----------------------------------------------------------------------------
\* Every variable stays in its type.
Addresses == 0 .. Space - 1
TypeOK ==
    /\ todo \subseteq Subnets /\ walk \in [at : Addresses, end : Addresses]
    /\ scan \in {"next", "walk", "closed", "done", "timed out", "cancelled"}
    /\ ipChan \in Seq(Addresses) /\ Len(ipChan) <= Capacity
    /\ worker \in [Worker -> {"start", "ready", "gone"}] /\ opened \subseteq Worker
    /\ swept \subseteq Addresses /\ cancelled \in BOOLEAN

HostsOf(s) == Network(s) + 1 .. Broadcast(s) - 1
Hosts == UNION {HostsOf(s) : s \in Small}

\* Only the hosts between the network and the broadcast address of the small subnets are
\* sent to, and all of them when the scan ended by itself and a worker had a socket
\* (sweepSubnets, iterateIPs).  Not so with a subnet of a single address, /32: the walk
\* passes the broadcast address before it looks for it and takes every address there is.
SweptAreHosts ==
    (\A s \in Small : s.size > 1) =>
        /\ swept \cup ToSet(ipChan) \subseteq Hosts
        /\ scan = "done" /\ ~cancelled /\ opened # {} => swept = Hosts

\* Not an invariant: when no worker gets a socket and the hosts do not fit the channel the
\* scan waits until its request is over.
ScanCanGoOn ==
    scan = "walk" /\ Len(ipChan) = Capacity /\ ~cancelled =>
        \E w \in Worker : worker[w] # "gone"

=============================================================================
