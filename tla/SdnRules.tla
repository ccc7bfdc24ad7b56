------------------------------ MODULE SdnRules ------------------------------
(***************************************************************************)
(* The rule set that the SDN controller compiles for one node from a       *)
(* topology: the rules of its segment, the policies, the management rules  *)
(* and the bands; and what the Linux data plane makes of the rules.  The   *)
(* state is one compilation: its inputs, and then its result.  Left out:   *)
(* the rules for established connections and for the loopback, and the     *)
(* routes, which are copied.  Other segments' settings do not count in a   *)
(* node's rules.                                                           *)
(*                                                                         *)
(* Source: internal/sdn (controller.go, topology.go, dataplane_linux.go).  *)
(***************************************************************************)
EXTENDS Integers, SequencesExt

CONSTANTS
    Segment,    \* names of segments
    None,       \* no segment
    Rates,      \* bandwidths of a segment; 0 is "not limited"
    Policy,     \* the policies a topology may have, see AnyPolicy
    MaxPolicies \* bound: policies of a topology

FabricApi == 4892
FabricRelay == 4893
Mdns == 5353
Ollama == 11434

\* A policy's match names a host, a port (0 is none), segments, a protocol, the
\* internet; with QoS it shapes the band of its priority (0 is none) to a rate.
AnyPolicy == [host : BOOLEAN, port : Nat, seg : BOOLEAN, proto : {"", "tcp", "udp"},
             internet : BOOLEAN, action : {"allow", "deny"}, applyTo : SUBSET Segment,
             band : 0 .. 4, rate : Nat]

RulesAssumption ==
    /\ Policy \subseteq AnyPolicy /\ MaxPolicies \in Nat
    /\ Rates \subseteq Nat /\ Rates # {}

VARIABLES
    setting,    \* the node's segment: internet, inter_segment, cluster_access, bandwidth
    node,       \* the segment of the node, or None
    policies,   \* the policies, in the topology's order
    compiled, ruleSet

vars == <<setting, node, policies, compiled, ruleSet>>

Setting == [internet : {"", "deny"}, inter : {"", "deny"}, access : {"", "deny"}, bw : Rates]

-----------------------------------------------------------------------------
Weight(b, n) == IF b THEN n ELSE 0

\* computePriority: a more specific match comes earlier.
ComputePriority(p) == 1000 - Weight(p.host, 400) - Weight(p.port # 0, 200) - Weight(p.seg, 100)
                           - Weight(p.proto # "", 50) - Weight(p.internet, 30)

\* A kernel rule; no port means every port.
Rule(prio, action, dst, ports, proto, host) ==
    [prio |-> prio, action |-> action, dst |-> dst, ports |-> ports, proto |-> proto,
     host |-> host]

\* The address range of a segment is never computed when a topology is parsed.
RangeOf(s) == None

SegmentRules ==
    IF node = None THEN {Rule(900, "deny", "any", {}, "", FALSE)}
    ELSE {r \in {Rule(500, "deny", "internet", {}, "", FALSE)} : setting.internet = "deny"}
         \cup {Rule(400, "deny", RangeOf(s), {}, "", FALSE) :
                 s \in {o \in Segment \ {node} : setting.inter = "deny" /\ RangeOf(o) # None}}
         \cup {r \in {Rule(300, "deny", "any", {FabricApi, FabricRelay, Ollama}, "", FALSE)} :
                 setting.access = "deny"}

\* A policy that names segments is left out on a node of another segment.
Applies(p) == p.applyTo = {} \/ node = None \/ node \in p.applyTo

PolicyRules ==
    {Rule(ComputePriority(p), p.action, IF p.internet THEN "internet" ELSE "any",
          {p.port} \ {0}, p.proto, p.host) : p \in {q \in ToSet(policies) : Applies(q)}}

\* Fault: after the segment's rules.
ManagementRulesLate ==
    {Rule(450, "allow", "any", {p}, "tcp", FALSE) : p \in {FabricApi, FabricRelay, Mdns}}
ManagementRules ==
    {Rule(1, "allow", "any", {FabricApi}, "tcp", FALSE),
     Rule(1, "allow", "any", {FabricRelay}, "tcp", FALSE),
     Rule(1, "allow", "any", {Mdns}, "udp", FALSE)}

\* The last policy that shapes a band decides its limit; the segment's bandwidth caps
\* every band, those without a limit too.
Shapers(b) == {i \in DOMAIN policies : policies[i].band = b}
MaxBps(b) == IF Shapers(b) = {} THEN 0 ELSE policies[Max(Shapers(b))].rate
\* Fault: a band without a limit is not capped.
CapLimited(limit, bw) == IF bw > 0 /\ limit > bw THEN bw ELSE limit
Cap(limit, bw) == IF bw > 0 /\ (limit = 0 \/ limit > bw) THEN bw ELSE limit
Bands == [b \in 1 .. 4 |-> Cap(MaxBps(b), IF node = None THEN 0 ELSE setting.bw)]

NoRules == [rules |-> {}, bands |-> <<>>]

Init ==
    /\ setting \in Setting
    /\ node \in Segment \cup {None}
    /\ policies \in BoundedSeq(Policy, MaxPolicies)
    /\ compiled = FALSE
    /\ ruleSet = NoRules

ComputeRuleSet ==
    /\ ~compiled /\ compiled' = TRUE
    /\ ruleSet' = [rules |-> SegmentRules \cup PolicyRules \cup ManagementRules, bands |-> Bands]
    /\ UNCHANGED <<setting, node, policies>>

Next == ComputeRuleSet
Spec == Init /\ [][Next]_vars

-----------------------------------------------------------------------------
(* What the rules do with a packet: the first that matches decides.  Rules of  *)
(* one priority may come in any order, so a packet has a set of verdicts.      *)

Packet == [dst : {"internet", "lan"}, host : BOOLEAN, proto : {"tcp", "udp"},
           port : {FabricApi, FabricRelay, Mdns, Ollama, 80}]

\* A rule with ports and no protocol is one for tcp.
NftProto(rule) == IF rule.proto = "" THEN "tcp" ELSE rule.proto

\* The hosts of a match are not translated.
Nft(rule, packet) ==
    /\ rule.dst \in {"any", packet.dst}
    /\ rule.proto \in {"", packet.proto}
    /\ rule.ports # {} => packet.port \in rule.ports /\ packet.proto = NftProto(rule)

Verdicts(packet) ==
    LET hits == {r \in ruleSet.rules : Nft(r, packet)}
    IN {r.action : r \in {h \in hits : \A o \in hits : h.prio <= o.prio}}

Management == {p \in Packet : <<p.port, p.proto>> \in
                 {<<FabricApi, "tcp">>, <<FabricRelay, "tcp">>, <<Mdns, "udp">>}}

\* Whatever a topology says, the services by which it could be replaced stay
\* reachable: no segment and no policy comes before the management rules
\* (README.md:116, controller.go:321).
NoLockout == compiled => \A packet \in Management : Verdicts(packet) = {"allow"}

\* No band of a node may send more than its segment's bandwidth, whichever policies
\* shape it and in whichever order (controller.go:412).
WithinSegment ==
    compiled /\ node # None /\ setting.bw > 0
        => \A b \in 1 .. 4 : ruleSet.bands[b] \in 1 .. setting.bw

\* Not an invariant: a rule for hosts matches packets for those hosts only; the rules of
\* Linux leave the hosts' names out (controller.go:49).
HostsAreMatched ==
    \A r \in ruleSet.rules, packet \in Packet : Nft(r, packet) /\ r.host => packet.host
====
