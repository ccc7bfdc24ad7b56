------------------------------ MODULE Placement ------------------------------
(***************************************************************************)
(* Where the scheduler runs a task (internal/scheduler: classifier.go,     *)
(* scorer.go, outcome.go, selectNode of scheduler.go): the members that    *)
(* are online and whose circuit breaker allows it and the nodes lent by    *)
(* other owners are scored, and when none is eligible the member with the  *)
(* most free memory is taken.  How tasks end feeds the health score.       *)
(* Memory is counted in quarters of a node, scores in thousandths.         *)
(***************************************************************************)
EXTENDS Integers

CONSTANTS
    Member,         \* the nodes of the cluster
    Lender,         \* the nodes other owners lend
    Local,          \* the node id "local"
    Reports,        \* what the members may report: functions to [used, idle, vram, seen]
    MaxInFlight,    \* maxInFlightPerNode
    MaxOutcomes     \* bound: outcomes recorded of a member

Percent == 0 .. 100
Mille == 0 .. 1000     \* what a curve, or a record of outcomes, scores

PlacementAssumption ==
    /\ Reports \subseteq [Member -> [used : Nat, idle : Percent, vram : Nat, seen : BOOLEAN]]
    /\ MaxInFlight \in Nat /\ MaxOutcomes \in Nat

Runner == Member \cup Lender
Whole == 4
Wrapped == 1000     \* a difference of two uint64 below zero

VARIABLES
    report,     \* what every member reported last; used above Whole is a report of its kind
    online,     \* members whose status is online
    blocked,    \* members whose breaker does not allow a task
    lent,       \* memory each lender offers, 0 when it lends nothing
    inFlight,   \* tasks running on every node
    health,     \* the EWMA health score of every member: that of a lender is never read
    outcomes    \* how many outcomes were recorded of every member

vars == <<report, online, blocked, lent, inFlight, health, outcomes>>

-----------------------------------------------------------------------------
(* A task: its class, what it needs and where its caller wants it *)

\* Classes are told apart in this order by words of the command, and only a command of no
\* other class takes the caller's hints: memory and one node.
Needs(class) == CASE class = "llm" -> 2 [] class = "gpu" -> 3 [] class = "cpu" -> 1
                  [] OTHER -> 0

Classify(class, hint) ==
    [class |-> class,
     needs |-> IF class = "shell" /\ hint.ram > 0 THEN hint.ram ELSE Needs(class),
     requiresGPU |-> class = "gpu",
     allowed |-> IF class = "shell" THEN hint.node ELSE {}]

Hints == [ram : {0, 3}, node : {{}} \cup {{n} : n \in Member}]
Tasks == {Classify(c, h) : c \in {"shell", "llm", "gpu", "cpu", "io"}, h \in Hints}

-----------------------------------------------------------------------------
(* Snapshots and scores *)

\* No caller injects latencies or loaded models of members: a member is at distance 0
\* and no model makes it preferred.  What a lender offers is taken for its memory and VRAM.
IdleIsUsage(n) == 100 - report[n].idle
IdleOf(n) == report[n].idle
Snapshot(n) ==
    IF n \in Member
    THEN [free |-> IF Whole > report[n].used THEN Whole - report[n].used ELSE 0,
          idle |-> IdleOf(n), latency |-> 0, vram |-> report[n].vram,
          health |-> health[n], seen |-> report[n].seen, inFlight |-> inFlight[n]]
    ELSE [free |-> lent[n], idle |-> 90, latency |-> 15, vram |-> lent[n],
          health |-> 1000, seen |-> TRUE, inFlight |-> inFlight[n]]

Eligible(n, s, req) ==
    /\ s.free >= req.needs
    /\ req.requiresGPU => s.vram > 0 /\ s.vram >= req.needs
    /\ req.allowed # {} => n \in req.allowed
    /\ s.seen
    /\ s.inFlight < MaxInFlight

\* The sigmoid 1 / (1 + e^(-10 (x - 0.3))) at the quarters of the memory left.
ScoreRAM(s, req) == <<47, 378, 881, 989, 999>>[s.free - req.needs + 1]
ScoreCPU(s) == IF s.idle < 20 THEN s.idle * 5 ELSE s.idle * 10
\* e^(-0.02 p50), with p50 taken half as long again for inference.
ScoreLatency(s, req) ==
    IF s.latency = 0 THEN 1000 ELSE IF req.class \in {"llm", "gpu"} THEN 638 ELSE 741
ScoreAffinity(s, req) ==
    IF req.class = "llm" /\ s.vram > 0 THEN 800
    ELSE IF req.class = "gpu" /\ s.vram > 0 THEN 1000
    ELSE IF req.class = "cpu" /\ s.idle > 70 THEN 700 ELSE 500
ScoreHealth(s) == IF s.health < 500 THEN s.health \div 2 ELSE s.health

Score(s, req) == 6 * ScoreRAM(s, req) + 4 * ScoreCPU(s) + 5 * ScoreLatency(s, req)
                 + 3 * ScoreAffinity(s, req) + 2 * ScoreHealth(s)

\* A breaker keeps members from being scored, lenders have none that counts.
Candidates == (online \ blocked) \cup {n \in Lender : lent[n] > 0}

\* Nodes with the best score: the list of members has no order to break a tie.
BestNodes(req) ==
    LET fit == {n \in Candidates : Eligible(n, Snapshot(n), req)}
    IN {n \in fit : \A m \in fit : Score(Snapshot(n), req) >= Score(Snapshot(m), req)}

\* The fallback knows neither breakers nor hints, and subtracts without a sign.
Free(n) == IF report[n].used > Whole THEN Wrapped ELSE Whole - report[n].used
FallbackMostFree(preferred) ==
    LET room == {n \in online : Free(n) > 0}
    IN IF room = {} THEN {Local} ELSE {n \in room : \A m \in room : Free(n) >= Free(m)}
Fallback(preferred) ==
    IF preferred \cap online # {} THEN preferred ELSE FallbackMostFree(preferred)

\* Nodes the task may be assigned to; a preferred node replaces those the hints allow.
SelectNode(req, preferred) ==
    LET asked == IF preferred = {} THEN req ELSE [req EXCEPT !.allowed = preferred]
        best == BestNodes(asked)
    IN IF best # {} THEN best ELSE Fallback(preferred)

-----------------------------------------------------------------------------
(* Actions *)

Init ==
    /\ report \in Reports
    /\ online = Member /\ blocked = {}
    /\ lent = [n \in Lender |-> 0]
    /\ inFlight = [n \in Runner |-> 0]
    /\ health = [n \in Member |-> 1000] /\ outcomes = [n \in Member |-> 0]

\* Membership and breakers are components of their own: here they only change.
Flipped(set, n) == IF n \in set THEN set \ {n} ELSE set \cup {n}
Turns(n) == /\ online' = Flipped(online, n)
            /\ UNCHANGED <<report, blocked, lent, inFlight, health, outcomes>>
Blocks(n) == /\ blocked' = Flipped(blocked, n)
             /\ UNCHANGED <<report, online, lent, inFlight, health, outcomes>>
Lends(n, size) == /\ lent' = [lent EXCEPT ![n] = size]
                  /\ lent[n] # size
                  /\ UNCHANGED <<report, online, blocked, inFlight, health, outcomes>>

\* A task is assigned and counted.
Submit(req, preferred) ==
    /\ \E n \in SelectNode(req, preferred) \cap Runner :
         /\ inFlight[n] < MaxInFlight
         /\ inFlight' = [inFlight EXCEPT ![n] = @ + 1]
    /\ UNCHANGED <<report, online, blocked, lent, health, outcomes>>

\* It ends: whatever is not completed, a cancellation too, counts as a failure.
Ewma(n, success) ==
    LET value == IF success THEN 1000 ELSE 0
    IN IF outcomes[n] = 0 THEN value ELSE (value + 4 * health[n]) \div 5

Finish(n, success) ==
    /\ inFlight[n] > 0
    /\ inFlight' = [inFlight EXCEPT ![n] = @ - 1]
    /\ IF n \in Lender THEN UNCHANGED <<outcomes, health>>
       ELSE /\ outcomes[n] < MaxOutcomes
            /\ outcomes' = [outcomes EXCEPT ![n] = @ + 1]
            /\ health' = [health EXCEPT ![n] = Ewma(n, success)]
    /\ UNCHANGED <<report, online, blocked, lent>>

Next ==
    \/ \E n \in Member : Turns(n) \/ Blocks(n)
    \/ \E n \in Lender : \E size \in {0, Whole} : Lends(n, size)
    \/ \E req \in Tasks, p \in {{}} \cup {{n} : n \in Member} : Submit(req, p)
    \/ \E n \in Runner, success \in BOOLEAN : Finish(n, success)

Spec == Init /\ [][Next]_vars

-----------------------------------------------------------------------------
\* Every variable stays in its type.
TypeOK ==
    /\ report \in Reports
    /\ online \subseteq Member /\ blocked \subseteq Member
    /\ lent \in [Lender -> {0, Whole}]
    /\ inFlight \in [Runner -> 0 .. MaxInFlight]
    /\ health \in [Member -> Mille] /\ outcomes \in [Member -> 0 .. MaxOutcomes]

\* n has more of everything that counts than m, the reports themselves compared.
Beats(n, m) ==
    /\ report[n].used < report[m].used
    /\ report[n].idle > report[m].idle
    /\ report[n].vram >= report[m].vram
    /\ health[n] >= health[m]

\* A task never goes to a member when another that may take it has more free memory, more
\* idle time, no less VRAM and no worse a record: the curves and penalties of the scorer
\* never turn an advantage into a handicap (Score, selectNode).
NoBetterPassedOver ==
    \A req \in Tasks : \A m \in SelectNode(req, {}) \cap Candidates \cap Member :
        \A n \in Candidates \cap Member :
            Eligible(n, Snapshot(n), req) => ~Beats(n, m)

\* A node the caller prefers gets the task whenever it is online, through a blocked
\* breaker, the cap and a lack of memory (selectNode, pickNodeFallback).
PreferredIsTaken ==
    \A req \in Tasks : \A n \in online : SelectNode(req, {n}) = {n}

\* Not invariants: the fallback takes the member that reports more memory in use than it
\* has, and a task pinned to a node by a hint goes elsewhere when the node is not eligible.
FallbackHasRoom ==
    \A req \in Tasks : \A n \in SelectNode(req, {}) \cap Member : report[n].used <= Whole
PinnedByHintIsKept ==
    \A req \in Tasks : req.allowed # {} => SelectNode(req, {}) \subseteq req.allowed

=============================================================================
