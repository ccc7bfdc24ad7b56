------------------------------- MODULE MCSafety -------------------------------
(***************************************************************************)
(* Safety of the parts of a node that share no state with each other: the  *)
(* variable part says which of them a behaviour is about, and the others   *)
(* stay as they begin.                                                     *)
(***************************************************************************)
EXTENDS Wal

CONSTANTS none, n1, n2, n3, p1, m1, m2, rename, extraction, c1, c2, c3,
          x1, x2, x3, x4

VARIABLES
    part,
    \* Mesh
    zLink, zChanges, zPeersMap, zSeen, zTable, zDue, zPath, zHops, zStream,
    \* Shards
    hFree, hGpu, hLayers, hWired, hStep, hPlan,
    \* Sessions
    sFile, sTmp, sCall, sActivity, sExtracted, sAcked,
    \* Flows
    fFile, fPending, fReading, fCall, fEmu, fLeading, fSchedule, fCrashes

mesh == <<zLink, zChanges, zPeersMap, zSeen, zTable, zDue, zPath, zHops, zStream>>
shards == <<hFree, hGpu, hLayers, hWired, hStep, hPlan>>
sessions == <<sFile, sTmp, sCall, sActivity, sExtracted, sAcked>>
definitions == <<fFile, fPending, fReading, fCall, fEmu, fLeading, fSchedule, fCrashes>>

\* Four nodes, of which the third may take the place of the second on the way to the fourth.
Z == INSTANCE Mesh WITH
    Node <- {x1, x2, x3, x4}, From <- x1, To <- x4, MaxHops <- 2, MaxChange <- 2,
    Links <- {{x1, x2}, {x2, x4}, {x2, x3}},
    Volatile <- {{x2, x4}, {x3, x4}},
    Orders <- {<<x1, x2, x3, x4>>, <<x4, x3, x2, x1>>},
    link <- zLink, changes <- zChanges, peersMap <- zPeersMap, seen <- zSeen,
    table <- zTable, due <- zDue, path <- zPath, hops <- zHops, stream <- zStream

\* Three nodes of up to five units and models of two or three layers.
H == INSTANCE Shards WITH
    Node <- {n1, n2, n3}, Layers <- {2, 3}, Unit <- 2, MaxRAM <- 5, Reserve <- 1,
    free <- hFree, gpu <- hGpu, layers <- hLayers, wired <- hWired, step <- hStep,
    plan <- hPlan

\* Two messages, a rename and an extraction.
S == INSTANCE Sessions WITH
    Message <- {m1, m2}, Rename <- {rename}, Extraction <- {extraction}, MinNew <- 2,
    MaxBatch <- 2, file <- sFile, tmp <- sTmp, call <- sCall, activity <- sActivity,
    extracted <- sExtracted, acked <- sAcked

Def(steps, on) == [steps |-> steps, on |-> on]
St(id, deps, path) == [id |-> id, deps |-> deps, path |-> path]

\* One flow, of which users send a good definition and one with a cycle and two steps that
\* write one file, and three calls.
F == INSTANCE Flows WITH
    Flow <- {p1}, Call <- {c1, c2, c3}, None <- none, MaxCrash <- 1,
    Defs <- {Def(<<St("a", <<>>, "x"), St("b", <<"a">>, ""), St("c", <<"b", "a">>, "y")>>, TRUE),
             Def(<<St("a", <<"c">>, ""), St("b", <<"a">>, "x"), St("c", <<"b">>, "x")>>, FALSE)},
    file <- fFile, pending <- fPending, reading <- fReading, call <- fCall, emu <- fEmu,
    leading <- fLeading, schedule <- fSchedule, crashes <- fCrashes

all == <<part, vars, mesh, shards, sessions, definitions>>

Parts == {"wal", "mesh", "shards", "sessions", "flows"}

\* A part with many initial states has one of them while it is not looked at.
SafetyInit ==
    /\ part \in Parts
    /\ Init /\ Z!Init /\ S!Init /\ F!Init
    /\ IF part = "shards" THEN H!Init
       ELSE /\ hFree = [n \in {n1, n2, n3} |-> 0] /\ hGpu = {} /\ hLayers = 2
            /\ hWired = FALSE /\ hStep = "plan" /\ hPlan = H!NoPlan

SafetyNext ==
    /\ UNCHANGED part
    /\ \/ part = "wal" /\ Next
          /\ UNCHANGED <<mesh, shards, sessions, definitions>>
       \/ part = "mesh" /\ Z!Next
          /\ UNCHANGED <<vars, shards, sessions, definitions>>
       \/ part = "shards" /\ H!Next
          /\ UNCHANGED <<vars, mesh, sessions, definitions>>
       \/ part = "sessions" /\ S!Next
          /\ UNCHANGED <<vars, mesh, shards, definitions>>
       \/ part = "flows" /\ F!Next
          /\ UNCHANGED <<vars, mesh, shards, sessions>>

SafetySpec == SafetyInit /\ [][SafetyNext]_all

-----------------------------------------------------------------------------
(* The properties of the parts *)

\* Every variable of every part stays in its type.
TypesOK ==
    /\ part = "wal" => TypeOK
    /\ part = "mesh" => Z!TypeOK
    /\ part = "shards" => H!TypeOK
    /\ part = "sessions" => S!TypeOK
    /\ part = "flows" => F!TypeOK

\* What the planners compute is sound for all their inputs: routes are shortest, arrive when
\* the network is quiet, and relay within their bound (Mesh), every layer of a model is
\* placed once (Shards), and a stored flow can run to its end and its schedule is that of its
\* definition (Flows).
PlansAreSound ==
    /\ part = "mesh" => Z!RoutesAreShortest /\ Z!SettledRoutesArrive /\ Z!RelaysAreBounded
    /\ part = "shards" => H!PlanPlacesEveryLayer
    /\ part = "flows" => F!StoredFlowsRun /\ F!ScheduleIsCurrent

=============================================================================
