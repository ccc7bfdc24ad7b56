------------------------------- MODULE Flows -------------------------------
(***************************************************************************)
(* The definitions of flows (internal/flow/flow.go), their validation and  *)
(* the schedules that the coordinator's engine makes of them               *)
(* (rebuildSchedules of engine.go).  Definitions are files, guarded by a   *)
(* RWMutex: a writer that has asked for it keeps new readers out until it  *)
(* had its turn, also readers that read already.  The definitions have a   *)
(* schedule; names, cron expressions and what steps do are left out.       *)
(***************************************************************************)
EXTENDS Naturals, FiniteSets, SequencesExt

CONSTANTS
    Flow,       \* the ids of flows
    Call,       \* requests and triggers
    None,       \* no call
    Defs,       \* what users send: [steps : sequences of [id, deps, path], on : BOOLEAN]
    MaxCrash    \* bound: restarts of the agent

VARIABLES
    file,       \* per flow its file: NoFile, TornFile or a definition
    pending,    \* the writer that has announced itself to the RWMutex
    reading,    \* per call how often it holds the RWMutex for reading
    call,       \* per call: pc, kind, flow, what it writes, flows still to read, flows read
    emu,        \* holder of Engine.mu
    leading,    \* Engine.running
    schedule,   \* flows with an entry in cron
    crashes

vars == <<file, pending, reading, call, emu, leading, schedule, crashes>>

NoFile == [steps |-> <<>>, on |-> FALSE, is |-> "missing"]
TornFile == [NoFile EXCEPT !.is = "torn"]
Stored(d) == [steps |-> d.steps, on |-> d.on, is |-> "whole"]
Kinds == {"create", "update", "delete", "toggle", "list", "elect"}
Idle == [pc |-> "idle", kind |-> "list", flow |-> CHOOSE f \in Flow : TRUE, def |-> NoFile,
         todo |-> {}, got |-> {}]

Init ==
    /\ file = [f \in Flow |-> NoFile]
    /\ pending = None /\ reading = [c \in Call |-> 0]
    /\ call = [c \in Call |-> Idle]
    /\ emu = None /\ leading = FALSE /\ schedule = {} /\ crashes = 0

-----------------------------------------------------------------------------
(* validateDependencies.                                                       *)

Steps(d) == ToSet(d.steps)
Names(d) == {s.id : s \in Steps(d)}
DepsOf(d, id) == (CHOOSE s \in Steps(d) : s.id = id).deps

\* dfs: grey steps (1) are on the path, black ones (2) done.
RECURSIVE Visit(_, _, _)
Visit(d, r, id) ==
    IF r.cyclic \/ r.colour[id] = 2 THEN r
    ELSE IF r.colour[id] = 1 THEN [r EXCEPT !.cyclic = TRUE]
    ELSE LET next(q, dep) == Visit(d, q, dep)
             s == FoldLeft(next, [r EXCEPT !.colour[id] = 1], DepsOf(d, id))
         IN [s EXCEPT !.colour[id] = 2]

White(d) == [cyclic |-> FALSE, colour |-> [id \in Names(d) |-> 0]]
Cyclic(d) == FoldLeft(LAMBDA r, s : Visit(d, r, s.id), White(d), d.steps).cyclic

Writes(d) == {i \in DOMAIN d.steps : d.steps[i].path # ""}
Valid(d) ==
    /\ \A i, j \in DOMAIN d.steps : d.steps[i].id = d.steps[j].id => i = j
    /\ \A i, j \in Writes(d) : d.steps[i].path = d.steps[j].path => i = j
    /\ \A s \in Steps(d) : ToSet(s.deps) \subseteq Names(d) \ {s.id}
    /\ ~Cyclic(d)

-----------------------------------------------------------------------------
(* The RWMutex, the requests that change definitions, and ListFlows.           *)

At(c, pc) == call[c].pc = pc
Go(c, pc) == call' = [call EXCEPT ![c].pc = pc]
Unlocked == pending = None
Engine == <<emu, leading, schedule>>

Start(c, kind, f, d) ==
    /\ At(c, "idle")
    /\ call' = [call EXCEPT ![c] = [pc |-> CASE kind = "toggle" -> "rlock"
                                             [] kind = "list"   -> "list"
                                             [] kind = "elect"  -> "engine"
                                             [] OTHER           -> "lock",
                                    kind |-> kind, flow |-> f, def |-> Stored(d),
                                    todo |-> {}, got |-> {}]]
    /\ UNCHANGED <<file, pending, reading, Engine, crashes>>

\* ToggleFlow reads the definition first, and writes what it read.
RLock(c) ==
    /\ At(c, "rlock") /\ Unlocked
    /\ reading' = [reading EXCEPT ![c] = 1]
    /\ Go(c, "get")
    /\ UNCHANGED <<file, pending, Engine, crashes>>

GetFlow(c) ==
    /\ At(c, "get") /\ call[c].kind = "toggle"
    /\ reading' = [reading EXCEPT ![c] = 0]
    /\ LET d == file[call[c].flow]
       IN IF d.is # "whole" THEN Go(c, "over")
          ELSE \E on \in BOOLEAN :
                 call' = [call EXCEPT ![c].pc = "lock", ![c].def = [d EXCEPT !.on = on]]
    /\ UNCHANGED <<file, pending, Engine, crashes>>

Lock(c) ==
    /\ At(c, "lock") /\ Unlocked
    /\ pending' = c
    /\ Go(c, "write")
    /\ UNCHANGED <<file, reading, Engine, crashes>>

\* Fault: an update is not validated.
RefusedOnlyNew(c) == call[c].kind = "create" /\ (~Valid(call[c].def) \/ file[call[c].flow].is # "missing")

Refused(c) ==
    LET exists == file[call[c].flow].is # "missing"
    IN CASE call[c].kind = "create" -> ~Valid(call[c].def) \/ exists
         [] call[c].kind = "delete" -> ~exists
         [] OTHER                   -> ~Valid(call[c].def) \/ ~exists

\* CreateFlow, UpdateFlow, DeleteFlow, when the readers have gone.  The write truncates the
\* file first, and may fail.
Write(c) ==
    /\ At(c, "write") /\ \A d \in Call : reading[d] = 0
    /\ pending' = None
    /\ \/ Refused(c) /\ Go(c, "over") /\ UNCHANGED file
       \/ /\ ~Refused(c)
          /\ file' = [file EXCEPT ![call[c].flow] =
                          IF call[c].kind = "delete" THEN NoFile ELSE call[c].def]
          /\ Go(c, "engine")
       \/ /\ ~Refused(c) /\ call[c].kind # "delete"
          /\ file' = [file EXCEPT ![call[c].flow] = TornFile]
          /\ Go(c, "over")
    /\ UNCHANGED <<reading, Engine, crashes>>

\* ListFlows, of a request, a file's trigger or a rebuild: it holds the RWMutex, and takes
\* it again for every definition (GetFlow).
List(c) ==
    /\ At(c, "list") /\ Unlocked
    /\ reading' = [reading EXCEPT ![c] = 1]
    /\ call' = [call EXCEPT ![c].pc = "each",
                            ![c].todo = {f \in Flow : file[f].is # "missing"}, ![c].got = {}]
    /\ UNCHANGED <<file, pending, Engine, crashes>>

ListNext(c, f) ==
    /\ At(c, "each") /\ f \in call[c].todo /\ Unlocked
    /\ reading' = [reading EXCEPT ![c] = 2]
    /\ call' = [call EXCEPT ![c].pc = "get", ![c].flow = f]
    /\ UNCHANGED <<file, pending, Engine, crashes>>

ListGet(c) ==
    /\ At(c, "get") /\ call[c].kind # "toggle"
    /\ reading' = [reading EXCEPT ![c] = 1]
    /\ LET f == call[c].flow
       IN call' = [call EXCEPT ![c].pc = "each", ![c].todo = @ \ {f},
                               ![c].got = IF file[f].is = "whole" THEN @ \cup {f} ELSE @]
    /\ UNCHANGED <<file, pending, Engine, crashes>>

\* The schedules become those of the definitions read that are enabled.
ListEnds(c) ==
    /\ At(c, "each") /\ call[c].todo = {}
    /\ reading' = [reading EXCEPT ![c] = 0]
    /\ IF emu # c THEN UNCHANGED Engine
       ELSE /\ schedule' = {f \in call[c].got : file[f].on}
            /\ emu' = None /\ UNCHANGED leading
    /\ Go(c, "over")
    /\ UNCHANGED <<file, pending, crashes>>

-----------------------------------------------------------------------------
(* The engine.                                                                 *)

\* RebuildSchedules after a change, and checkElection: both under Engine.mu.
LockEngine(c) ==
    /\ At(c, "engine") /\ emu = None
    /\ LET leads == IF call[c].kind = "elect" THEN ~leading ELSE leading
       IN /\ leading' = leads
          /\ IF leads THEN /\ emu' = c /\ schedule' = {}
                           /\ call' = [call EXCEPT ![c].pc = "list", ![c].kind = "list"]
             ELSE schedule' = {} /\ Go(c, "over") /\ UNCHANGED emu
    /\ UNCHANGED <<file, pending, reading, crashes>>

Restart ==
    /\ crashes < MaxCrash
    /\ crashes' = crashes + 1
    /\ \/ UNCHANGED file
       \/ \E c \in Call : /\ At(c, "write") /\ ~Refused(c) /\ call[c].kind # "delete"
                          /\ \A d \in Call : reading[d] = 0
                          /\ file' = [file EXCEPT ![call[c].flow] = TornFile]
    /\ pending' = None /\ reading' = [c \in Call |-> 0]
    /\ call' = [c \in Call |-> IF At(c, "idle") THEN Idle ELSE [Idle EXCEPT !.pc = "over"]]
    /\ emu' = None /\ leading' = FALSE /\ schedule' = {}

-----------------------------------------------------------------------------
Step(c) ==
    \/ RLock(c) \/ GetFlow(c) \/ Lock(c) \/ Write(c) \/ List(c) \/ ListGet(c) \/ ListEnds(c)
    \/ LockEngine(c) \/ \E f \in Flow : ListNext(c, f)
Next == \/ \E c \in Call : Step(c)
        \/ \E c \in Call, kind \in Kinds, f \in Flow, d \in Defs : Start(c, kind, f, d)
        \/ Restart
Spec == Init /\ [][Next]_vars

Fairness == \A c \in Call : SF_vars(Step(c))
FairSpec == Spec /\ Fairness

-----------------------------------------------------------------------------
TypeOK ==
    /\ \A f \in Flow : \/ file[f] \in {NoFile, TornFile}
                       \/ file[f] \in [steps : {d.steps : d \in Defs}, on : BOOLEAN, is : {"whole"}]
    /\ pending \in Call \cup {None} /\ emu \in Call \cup {None}
    /\ reading \in [Call -> 0 .. 2]
    /\ \A c \in Call : /\ call[c].pc \in {"idle", "rlock", "get", "lock", "write", "list", "each",
                                          "engine", "over"}
                       /\ call[c].kind \in Kinds /\ call[c].flow \in Flow
                       /\ call[c].todo \subseteq Flow /\ call[c].got \subseteq Flow
    /\ leading \in BOOLEAN /\ schedule \subseteq Flow /\ crashes \in 0 .. MaxCrash

\* A stored flow can run to its end: among any of its steps one waits for none of the others
\* (flow.go:131 "Acyclicity ... preventing infinite blocking during execution"), no
\* step waits for one that does not exist, and no two steps write one file.
CanEnd(d) ==
    /\ \A S \in SUBSET Names(d) \ {{}} : \E s \in S : ToSet(DepsOf(d, s)) \cap S = {}
    /\ \A s \in Steps(d) : ToSet(s.deps) \subseteq Names(d)
    /\ \A s, t \in Steps(d) : s.path = t.path /\ s.path # "" => s = t
    /\ Cardinality(Names(d)) = Len(d.steps)
StoredFlowsRun == \A f \in Flow : file[f].is = "whole" => CanEnd(file[f])

\* While no request is between its change and its rebuild, the coordinator has the schedules
\* of the enabled flows and no others (engine.go:210 "to refresh cron entries"), but for
\* flows whose file a failed write has torn.
Changing(c) == At(c, "engine") \/ emu = c
ScheduleIsCurrent ==
    leading /\ ~(\E c \in Call : Changing(c)) =>
        \A f \in Flow : file[f] # TornFile => (f \in schedule <=> file[f].is = "whole" /\ file[f].on)

\* Not a property that holds: a list ends (flow.go:266 "ListFlows loads and returns all
\* stored flows").  It takes the read lock (268) and, by GetFlow (282), takes it again (246):
\* a writer that asks for the lock in between waits for the list, and the list for it.
ListReturns == \A c \in Call : At(c, "each") ~> At(c, "over")
=============================================================================
