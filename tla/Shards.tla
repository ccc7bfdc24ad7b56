------------------------------- MODULE Shards -------------------------------
(***************************************************************************)
(* Where a model's layers go: the plan over a chain of nodes (the dynamic  *)
(* programme), the proportional plan when no chain fits, and the decision  *)
(* whether a chat is distributed at all.  The state is one planning: its   *)
(* inputs, and then its plan.  Costs are measured values: any chain that   *)
(* the programme reaches may be the cheapest.                              *)
(*                                                                         *)
(* Source: internal/llm/shard.go.                                          *)
(***************************************************************************)
EXTENDS Integers, FiniteSets, SequencesExt, FiniteSetsExt

CONSTANTS
    Node,       \* online nodes, no more than ten
    Layers,     \* numbers of layers that a model may have
    Unit,       \* memory of a layer (ramPerLayer)
    MaxRAM,     \* bound: free memory of a node
    Reserve     \* what the coordinator keeps for the KV cache and the system

VARIABLES
    free,       \* free memory of each node
    gpu,        \* nodes with a GPU
    layers,     \* layers of the model
    wired,      \* no GPU holds the model alone, and the measured latencies are low
    step,       \* "plan", "static", "decide", "done"
    plan        \* coordinator and shards, and the planner that made it

vars == <<free, gpu, layers, wired, step, plan>>

NoPlan == [coordinator |-> "none", shards |-> <<>>, by |-> "none"]

Init ==
    /\ free \in [Node -> 0 .. MaxRAM]
    /\ gpu \in SUBSET Node
    /\ layers \in Layers
    /\ wired \in BOOLEAN
    /\ step = "plan"
    /\ plan = NoPlan

ShardOf(n, first, end) == [node |-> n, first |-> first, last |-> end - 1]
LocalPlan == [coordinator |-> "local", shards |-> <<ShardOf("local", 0, layers)>>, by |-> "local"]

-----------------------------------------------------------------------------
\* filterEligible: nodes that hold a layer, GPU nodes first, then by free memory; equal
\* ones in any order.
Eligible == {n \in Node : free[n] >= Unit}
Before(a, b) == \/ a \in gpu /\ b \notin gpu
                \/ (a \in gpu <=> b \in gpu) /\ free[a] > free[b]
Orders == {s \in SetToSeqs(Eligible) : \A i, j \in DOMAIN s : i < j => ~Before(s[j], s[i])}

\* Fault: no reserve on the coordinator.
FitsAlone(n, count, coordinator) == count * Unit <= free[n]

Fits(n, count, coordinator) ==
    count * Unit + (IF n = coordinator THEN Reserve ELSE 0) <= free[n]

\* ChainsTo[l] is what dp[l] stands for: the chains of distinct nodes that take layers
\* 0 .. l-1, each built on a chain to a smaller number of layers.
ChainsTo(coordinator) ==
    LET c[l \in 1 .. layers] ==
            {<<ShardOf(n, 0, l)>> : n \in {u \in Eligible : Fits(u, l, coordinator)}}
            \cup UNION {{Append(p, ShardOf(n, start, l)) :
                            p \in {q \in c[start] : \A i \in DOMAIN q : q[i].node # n}} :
                        <<start, n>> \in {x \in (1 .. l - 1) \X Eligible :
                                             Fits(x[2], l - x[1], coordinator)}}
    IN c

\* The plan over a chain; without an eligible node or a chain, the static plan is tried.
PlanShardsDynamic ==
    /\ step = "plan"
    /\ \/ \E order \in Orders :
            /\ order # <<>>
            /\ LET chains == ChainsTo(order[1])[layers]
               IN \/ /\ \E c \in chains :
                            plan' = [coordinator |-> order[1], shards |-> c, by |-> "dynamic"]
                     /\ step' = "decide"
                  \/ chains = {} /\ step' = "static" /\ UNCHANGED plan
       \/ Eligible = {} /\ step' = "static" /\ UNCHANGED plan
    /\ UNCHANGED <<free, gpu, layers, wired>>

-----------------------------------------------------------------------------
\* The proportional plan: the coordinator counts without its reserve; everyone gets a
\* layer at least, and the last node what is left.
Effective(order) == [i \in DOMAIN order |->
                        Max({0, free[order[i]] - (IF i = 1 THEN Reserve ELSE 0)})]
Total(order) == FoldSeq(+, 0, Effective(order))

\* Fault: the last node gets its share too.
ShardEndKeepsAll(order, i, cursor) ==
    LET share == (Effective(order)[i] * layers) \div Total(order)
    IN Min({layers, cursor + Max({1, share})})

\* End of the shard of the i-th node, which starts at cursor.
ShardEnd(order, i, cursor) ==
    LET share == (Effective(order)[i] * layers) \div Total(order)
    IN IF i = Len(order) THEN layers ELSE Min({layers, cursor + Max({1, share})})

AssignLayers(order) ==
    LET end[i \in 0 .. Len(order)] == IF i = 0 THEN 0 ELSE ShardEnd(order, i, end[i - 1])
        used == {i \in DOMAIN order : end[i - 1] < layers}
    IN [i \in used |-> ShardOf(order[i], end[i - 1], end[i])]

\* Without a plan the chat runs on the local node.
PlanShardsStatic ==
    /\ step = "static"
    /\ \/ \E order \in Orders :
            /\ order # <<>>
            /\ \/ /\ Total(order) >= layers * Unit
                  /\ plan' = [coordinator |-> order[1], shards |-> AssignLayers(order), by |-> "static"]
                  /\ step' = "decide"
               \/ Total(order) < layers * Unit /\ plan' = LocalPlan /\ step' = "done"
       \/ Eligible = {} /\ plan' = LocalPlan /\ step' = "done"
    /\ UNCHANGED <<free, gpu, layers, wired>>

\* ShouldDistributeInference: no node takes the model alone, all together do, over wires.
ShouldDistribute ==
    /\ wired
    /\ \A n \in Node : free[n] < layers * Unit
    /\ MapThenSumSet(LAMBDA n : free[n], Node) >= layers * Unit

DecideDistribution ==
    /\ step = "decide" /\ step' = "done"
    /\ plan' = IF Len(plan.shards) > 1 /\ ~ShouldDistribute THEN LocalPlan ELSE plan
    /\ UNCHANGED <<free, gpu, layers, wired>>

Next == PlanShardsDynamic \/ PlanShardsStatic \/ DecideDistribution
Spec == Init /\ [][Next]_vars

-----------------------------------------------------------------------------
TypeOK ==
    /\ free \in [Node -> 0 .. MaxRAM] /\ gpu \in SUBSET Node
    /\ layers \in Layers /\ wired \in BOOLEAN
    /\ step \in {"plan", "static", "decide", "done"}
    /\ plan.coordinator \in Node \cup {"none", "local"}

\* A plan places every layer: its shards are the layers of the model in order, each once,
\* on distinct nodes, whichever planner made it; and a plan over a chain gives no node more
\* than its free memory, the coordinator's reserve included (shard.go: the coordinator must
\* reserve room, otherwise it will OOM).
Overfilled == {i \in DOMAIN plan.shards :
                  LET s == plan.shards[i]
                  IN /\ s.node # "local"
                     /\ (s.last - s.first + 1) * Unit
                            > free[s.node] - (IF s.node = plan.coordinator THEN Reserve ELSE 0)}
PlanPlacesEveryLayer ==
    LET s == plan.shards
    IN s # <<>> =>
        /\ s[1].first = 0 /\ s[Len(s)].last = layers - 1
        /\ \A i \in DOMAIN s : s[i].first <= s[i].last
        /\ \A i \in 2 .. Len(s) : s[i].first = s[i - 1].last + 1
        /\ \A i, j \in DOMAIN s : i # j => s[i].node # s[j].node
        /\ plan.by = "dynamic" => Overfilled = {}

\* Not an invariant: the same of every plan that is carried out.  The proportional one
\* gives every node a layer and the last one all that are left (shard.go:87).
PlanFits == step = "done" => Overfilled = {}
====
