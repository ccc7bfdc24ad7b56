------------------------------ MODULE PendingOps ------------------------------
(***************************************************************************)
(* What the write-ahead log promises the components that log to it: an     *)
(* operation that was logged is found pending until it is committed or     *)
(* aborted, and never again afterwards.                                    *)
(***************************************************************************)
CONSTANT Op
VARIABLE state   \* of every operation: "new", "pending" or "ended"

PInit == state = [o \in Op |-> "new"]

Log(o) == state[o] = "new" /\ state' = [state EXCEPT ![o] = "pending"]

Finish(o) == state[o] = "pending" /\ state' = [state EXCEPT ![o] = "ended"]

PNext == \E o \in Op : Log(o) \/ Finish(o)

PSpec == PInit /\ [][PNext]_state
===============================================================================
