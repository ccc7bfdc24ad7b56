----------------------------- MODULE MCFlowEngine -----------------------------
(* FlowEngine on the flows of two steps: side by side, and one after the other, *)
(* the second of which meets more faults.                                       *)
EXTENDS FlowEngine

CONSTANTS a, b

SideBySide == [s \in Step |-> {}]
InARow == [s \in Step |-> IF s = b THEN {a} ELSE {}]

MCGraphs == {SideBySide, InARow}
MCFaults == [g \in MCGraphs |-> IF g = SideBySide THEN 1 ELSE 3]

=============================================================================
