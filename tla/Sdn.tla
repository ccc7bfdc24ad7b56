-------------------------------- MODULE Sdn ---------------------------------
(***************************************************************************)
(* How a topology reaches the nodes: the coordinator's controller and      *)
(* manager, the distributor's streams and every node's reconciler.  A rule *)
(* set is named by the hash of its topology and a version, and holds       *)
(* rules, here named by the topology they come from (SdnRules says which   *)
(* rules those are).                                                       *)
(*                                                                         *)
(* Source: internal/sdn (controller.go, distributor.go, reconciler.go).    *)
(***************************************************************************)
EXTENDS Naturals, SequencesExt

CONSTANTS
    Peer, Coord,
    Topo,       \* topologies a user applies
    None,       \* no topology
    Op,         \* requests that the coordinator serves at the same time
    MaxHistory, \* bound of the version store
    MaxVersion, \* bound: versions
    MaxRestart  \* bound: restarts

SdnAssumption ==
    /\ Coord \notin Peer /\ None \notin Topo \cup Op
    /\ MaxHistory \in Nat /\ MaxVersion \in Nat /\ MaxRestart \in Nat

Members == Peer \cup {Coord}

VARIABLES
    ctl,        \* the controller: topology, version, nodes it believes online
    history,    \* the version store
    active,     \* activeConfig, and the file network.yaml
    lock,       \* who holds the controller's mutex
    op,         \* per request: step, topology, peers it waits for, failed, local rule set
    wire,       \* rule sets that reached a peer and are not handled: whose, to, rule set
    last,       \* lastApplied of each reconciler
    kernel,     \* the rules each node enforces
    confirmed,  \* what each peer last answered it applied (history)
    halfway,    \* peers where an apply failed after its firewall part (history)
    restarts

vars == <<ctl, history, active, lock, op, wire, last, kernel, confirmed, halfway, restarts>>

NoSet == [hash |-> None, version |-> 0, rules |-> None]
Idle == [pc |-> "idle", top |-> None, todo |-> {}, bad |-> FALSE, set |-> NoSet]

Init ==
    /\ ctl = [top |-> None, version |-> 0, online |-> {}]
    /\ history = <<>>
    /\ active = [memory |-> None, disk |-> None]
    /\ lock = None
    /\ op = [o \in Op |-> Idle]
    /\ wire = {}
    /\ last = [n \in Members |-> NoSet]
    /\ kernel = [n \in Members |-> None]
    /\ confirmed = [p \in Peer |-> None]
    /\ halfway = {}
    /\ restarts = 0

At(o, pc) == op[o].pc = pc
Go(o, pc) == op' = [op EXCEPT ![o].pc = pc]
nodes == <<last, kernel, confirmed, halfway>>

-----------------------------------------------------------------------------
(* A request, up to the answers of the peers.                                  *)

\* The node list is read and written into the controller.
ApplyTopology(o, t) ==
    /\ At(o, "idle") /\ lock = None
    /\ \E online \in SUBSET Peer : ctl' = [ctl EXCEPT !.online = online]
    /\ op' = [op EXCEPT ![o] = [Idle EXCEPT !.pc = "apply", !.top = t]]
    /\ UNCHANGED <<history, active, lock, wire, nodes, restarts>>

\* The last topology is taken out of the store before the controller is asked.
Rollback(o) ==
    /\ At(o, "idle") /\ history # <<>>
    /\ op' = [op EXCEPT ![o] = [Idle EXCEPT !.pc = "apply", !.top = Last(history)]]
    /\ history' = Front(history)
    /\ UNCHANGED <<ctl, active, lock, wire, nodes, restarts>>

Saved == LET h == IF ctl.top = None THEN history ELSE Append(history, ctl.top)
         IN IF Len(h) > MaxHistory THEN Tail(h) ELSE h

\* Topology and version advance first; then every peer gets its rule set, and those
\* that cannot be reached count as failed.
Apply(o) ==
    /\ At(o, "apply") /\ lock = None /\ ctl.version < MaxVersion
    /\ lock' = o
    /\ history' = Saved
    /\ ctl' = [ctl EXCEPT !.top = op[o].top, !.version = @ + 1]
    /\ \E reached \in SUBSET ctl.online :
         /\ wire' = wire \cup {[from |-> o, to |-> p, set |-> [hash |-> op[o].top,
                                 version |-> ctl.version + 1, rules |-> op[o].top]] : p \in reached}
         /\ op' = [op EXCEPT ![o].pc = "wait", ![o].todo = reached,
                             ![o].bad = reached # ctl.online]
    /\ UNCHANGED <<active, nodes, restarts>>

\* No answer within five seconds; the peer may handle the rule set all the same.
AckTimesOut(o, p) ==
    /\ At(o, "wait") /\ p \in op[o].todo
    /\ op' = [op EXCEPT ![o].todo = @ \ {p}, ![o].bad = TRUE]
    /\ UNCHANGED <<ctl, history, active, lock, wire, nodes, restarts>>

Distributed(o) ==
    /\ At(o, "wait") /\ op[o].todo = {}
    /\ lock' = None
    /\ IF op[o].bad THEN op' = [op EXCEPT ![o] = Idle] ELSE Go(o, "activate")
    /\ UNCHANGED <<ctl, history, active, wire, nodes, restarts>>

-----------------------------------------------------------------------------
(* Then the coordinator itself, without the controller's mutex.                *)

Activate(o) ==
    /\ At(o, "activate")
    /\ active' = [active EXCEPT !.memory = op[o].top]
    /\ Go(o, "write")
    /\ UNCHANGED <<ctl, history, lock, wire, nodes, restarts>>

\* A write that fails is not looked at.
WriteConfig(o) ==
    /\ At(o, "write")
    /\ \E file \in {op[o].top, active.disk} : active' = [active EXCEPT !.disk = file]
    /\ Go(o, "label")
    /\ UNCHANGED <<ctl, history, lock, wire, nodes, restarts>>

\* computeRuleSet for the coordinator reads hash and version, and then the rules.
LabelLocal(o) ==
    /\ At(o, "label")
    /\ op' = [op EXCEPT ![o].pc = "rules", ![o].set.hash = ctl.top, ![o].set.version = ctl.version]
    /\ UNCHANGED <<ctl, history, active, lock, wire, nodes, restarts>>

ComputeLocal(o) ==
    /\ At(o, "rules")
    /\ op' = [op EXCEPT ![o].pc = "local", ![o].set.rules = ctl.top]
    /\ UNCHANGED <<ctl, history, active, lock, wire, nodes, restarts>>

-----------------------------------------------------------------------------
(* The reconciler.                                                             *)

\* Fault: by version only.
ConvergedByVersion(n, rs) == last[n] # NoSet /\ last[n].version = rs.version
Converged(n, rs) ==
    /\ last[n] # NoSet
    /\ last[n].hash = rs.hash
    /\ last[n].version = rs.version

\* The data plane takes the rule set, refuses it, or takes its firewall rules and
\* fails on the rest.
Reconcile(n, rs, result) ==
    IF Converged(n, rs) THEN result = "ok" /\ UNCHANGED <<last, kernel, halfway>>
    ELSE /\ result \in {"ok", "refused", "halfway"}
         /\ kernel' = IF result = "refused" THEN kernel ELSE [kernel EXCEPT ![n] = rs.rules]
         /\ last' = IF result = "ok" THEN [last EXCEPT ![n] = rs] ELSE last
         /\ halfway' = IF result = "halfway" THEN halfway \cup {n} ELSE halfway

ReconcileLocal(o) ==
    /\ At(o, "local")
    /\ \E result \in {"ok", "refused", "halfway"} : Reconcile(Coord, op[o].set, result)
    /\ op' = [op EXCEPT ![o] = Idle]
    /\ UNCHANGED <<ctl, history, active, lock, wire, confirmed, restarts>>

\* The peer answers; the answer counts when the request still waits for it.
HandleRuleSet(m) ==
    /\ wire' = wire \ {m}
    /\ \E result \in {"ok", "refused", "halfway"} :
         /\ Reconcile(m.to, m.set, result)
         /\ LET waits == At(m.from, "wait") /\ m.to \in op[m.from].todo
                           /\ m.set.version = ctl.version /\ m.set.hash = ctl.top
            IN /\ op' = IF waits THEN [op EXCEPT ![m.from].todo = @ \ {m.to},
                                                 ![m.from].bad = @ \/ result # "ok"]
                        ELSE op
               /\ confirmed' = [confirmed EXCEPT ![m.to] =
                                  IF waits /\ result = "ok" THEN m.set.rules ELSE None]
    /\ UNCHANGED <<ctl, history, active, lock, restarts>>

StreamBreaks(m) ==
    /\ wire' = wire \ {m}
    /\ UNCHANGED <<ctl, history, active, lock, op, nodes, restarts>>

-----------------------------------------------------------------------------
\* The agent of a node starts again: the reconciler forgets, the kernel does not,
\* but the userspace stub does.
RestartPeer(p) ==
    /\ restarts < MaxRestart /\ restarts' = restarts + 1
    /\ last' = [last EXCEPT ![p] = NoSet]
    /\ \E rules \in {kernel[p], None} : kernel' = [kernel EXCEPT ![p] = rules]
    /\ wire' = {m \in wire : m.to # p}
    /\ confirmed' = [confirmed EXCEPT ![p] = None]
    /\ halfway' = halfway \ {p}
    /\ UNCHANGED <<ctl, history, active, lock, op>>

\* The coordinator reads network.yaml and applies nothing; versions start again.
RestartCoordinator ==
    /\ restarts < MaxRestart /\ restarts' = restarts + 1
    /\ ctl' = [top |-> None, version |-> 0, online |-> {}]
    /\ history' = <<>>
    /\ active' = [active EXCEPT !.memory = active.disk]
    /\ lock' = None
    /\ op' = [o \in Op |-> Idle]
    /\ last' = [last EXCEPT ![Coord] = NoSet]
    /\ \E rules \in {kernel[Coord], None} : kernel' = [kernel EXCEPT ![Coord] = rules]
    /\ halfway' = halfway \ {Coord}
    /\ UNCHANGED <<wire, confirmed>>

Request(o) ==
    \/ \E t \in Topo : ApplyTopology(o, t)
    \/ Rollback(o) \/ Apply(o) \/ Distributed(o) \/ Activate(o) \/ WriteConfig(o)
    \/ LabelLocal(o) \/ ComputeLocal(o) \/ ReconcileLocal(o)
    \/ \E p \in Peer : AckTimesOut(o, p)

Next ==
    \/ \E o \in Op : Request(o)
    \/ \E m \in wire : HandleRuleSet(m) \/ StreamBreaks(m)
    \/ \E p \in Peer : RestartPeer(p)
    \/ RestartCoordinator

Spec == Init /\ [][Next]_vars

-----------------------------------------------------------------------------
RuleSet == [hash : Topo \cup {None}, version : 0 .. MaxVersion, rules : Topo \cup {None}]

TypeOK ==
    /\ ctl \in [top : Topo \cup {None}, version : 0 .. MaxVersion, online : SUBSET Peer]
    /\ history \in Seq(Topo) /\ Len(history) <= MaxHistory
    /\ active \in [memory : Topo \cup {None}, disk : Topo \cup {None}]
    /\ lock \in Op \cup {None}
    /\ op \in [Op -> [pc : {"idle", "apply", "wait", "activate", "write", "label", "rules", "local"},
                      top : Topo \cup {None}, todo : SUBSET Peer, bad : BOOLEAN, set : RuleSet]]
    /\ wire \subseteq [from : Op, to : Peer, set : RuleSet]
    /\ last \in [Members -> RuleSet] /\ kernel \in [Members -> Topo \cup {None}]
    /\ confirmed \in [Peer -> Topo \cup {None}]
    /\ halfway \subseteq Members /\ restarts \in 0 .. MaxRestart

\* A peer enforces what it last confirmed to the coordinator, whatever was skipped as
\* already applied, whichever of the two restarted and whichever older rule set came
\* late; only an apply that failed halfway before may have left other rules
\* (reconciler.go:41).
ConfirmedIsEnforced ==
    \A p \in Peer \ halfway : confirmed[p] # None => kernel[p] = confirmed[p]
====
