-------------------------------- MODULE Gpu ---------------------------------
(***************************************************************************)
(* The GPU orchestrator of a node: VRAM reservations with expiry (budget), *)
(* the preemptor and the out-of-memory watcher (preempt, recovery) and the *)
(* thermal monitors (thermal).  Memory is counted in units; a temperature  *)
(* is one of the bands that the policy's four thresholds make:             *)
(*   0 | Recovery | 1 | Warn | 2 | Throttle | 3 | Emergency | 4.           *)
(*                                                                         *)
(* Source: internal/gpu (orchestrator.go, budget, preempt, recovery,       *)
(* thermal).                                                               *)
(***************************************************************************)
EXTENDS Naturals, FiniteSetsExt

CONSTANTS
    Devices,    \* the devices are 1 .. Devices, in the order of Backend.Devices
    Task,       \* calls that use a device, each with one reservation
    Llm,        \* those that ask by ReserveLLM and register for preemption; the
                \* others are GenerateImage, which never registers
    Bytes,      \* what each asks for
    Priority,   \* its priority
    Total,      \* memory of a device
    Margin,     \* safetyMarginBytes
    Critical,   \* the watcher's threshold
    Temps,      \* the bands the sensors read
    MaxOther    \* bound: what the processes outside the orchestrator may hold

\* A node without a device reserves nothing; a device has more memory than its safety
\* margin, 256 MB.
GpuAssumption ==
    /\ IsFiniteSet(Task) /\ Task # {} /\ Llm \subseteq Task
    /\ Devices \in Nat \ {0} /\ Bytes \in [Task -> Nat]
    /\ Total \in Nat /\ Margin \in 0 .. Total /\ MaxOther \in Nat
    /\ Temps \subseteq 0 .. 4

Device == 1 .. Devices
Hot == {"throttled", "emergency"}

VARIABLES
    task,       \* per call: where it is, its device, its reservation's status and
                \* age, the memory it holds, whether it was told to stop
    fns,        \* calls with a cancel or suspend function in the preemptor
    other,      \* memory that other processes hold on each device
    thermal,    \* the state of each device's monitor
    lastTemp,   \* what each monitor last read of every device
    sampling,   \* the device a monitor reads next, 0 between two samples
    watch       \* the watcher of each device: its step and its victim

vars == <<task, fns, other, thermal, lastTemp, sampling, watch>>

Live == {"pending", "active"}
On(d) == {t \in Task : task[t].dev = d}
Held == [t \in Task |-> task[t].used]

Used(d) == SumFunctionOnSet(Held, On(d))
Free(d) == Total - other[d] - Used(d)
Reserved(d) == SumFunctionOnSet(Bytes, {t \in On(d) : task[t].status \in Live})
ActiveBytes(d) == SumFunctionOnSet(Bytes, {t \in On(d) : task[t].status = "active"})

Init ==
    /\ task = [t \in Task |-> [pc |-> "idle", dev |-> 0, status |-> "none",
                               aged |-> FALSE, used |-> 0, stopped |-> FALSE]]
    /\ fns = {}
    /\ other = [d \in Device |-> 0]
    /\ thermal = [m \in Device |-> "normal"]
    /\ lastTemp = [m \in Device |-> [d \in Device |-> 0]]
    /\ sampling = [m \in Device |-> 0]
    /\ watch = [d \in Device |-> [pc |-> "idle", victim |-> CHOOSE t \in Task : TRUE]]

At(t, pc) == task[t].pc = pc
Goes(t, pc) == task' = [task EXCEPT ![t].pc = pc]
Settles(t, pc, status) == task' = [task EXCEPT ![t].pc = pc, ![t].status = status]

-----------------------------------------------------------------------------
(* A call: choose a device, look at its monitor, reserve, activate, work.      *)

\* bestDeviceForLLM takes the first device that fits; bestDeviceForGPU the one
\* with the most free memory.  A device whose statistics cannot be read is skipped.
FirstFit(t, S) == {d \in S : Free(d) >= Bytes[t]}
MostFree(S) == {d \in S : \A c \in S : Free(c) <= Free(d)}
Suitable(t, S) == IF t \in Llm THEN FirstFit(t, S)
                 ELSE IF S = {} THEN {1} ELSE MostFree(S)

Choose(t) ==
    /\ At(t, "idle")
    /\ \E read \in SUBSET Device :
         LET c == Suitable(t, read)
         IN IF c = {} THEN Goes(t, "failed")
            ELSE task' = [task EXCEPT ![t].pc = "chosen", ![t].dev = Min(c)]
    /\ UNCHANGED <<fns, other, thermal, lastTemp, sampling, watch>>

CheckThermal(t) ==
    /\ At(t, "chosen")
    /\ Goes(t, IF thermal[task[t].dev] \in Hot THEN "failed" ELSE "cool")
    /\ UNCHANGED <<fns, other, thermal, lastTemp, sampling, watch>>

\* Fault: the bytes reserved before do not count.
FitsFree(t) == LET d == task[t].dev IN Free(d) >= Margin + Bytes[t]
Fits(t) == LET d == task[t].dev IN Free(d) >= Reserved(d) + Margin + Bytes[t]

Reserve(t) ==
    /\ At(t, "cool")
    /\ \/ Fits(t) /\ Settles(t, "reserved", "pending")
       \/ Goes(t, "failed")           \* too little memory, or no statistics
    /\ UNCHANGED <<fns, other, thermal, lastTemp, sampling, watch>>

\* A reservation that expired before cannot be activated: the call gives up and
\* its deferred release finds nothing to release.
Activate(t) ==
    /\ At(t, "reserved")
    /\ IF task[t].status # "pending" THEN Goes(t, "release")
       ELSE Settles(t, IF t \in Llm THEN "active" ELSE "running", "active")
    /\ UNCHANGED <<fns, other, thermal, lastTemp, sampling, watch>>

RegisterTask(t) ==
    /\ At(t, "active")
    /\ Goes(t, "running")
    /\ fns' = fns \cup {t}
    /\ UNCHANGED <<other, thermal, lastTemp, sampling, watch>>

\* The work takes the memory when the device still has it.
Allocate(t) ==
    /\ At(t, "running") /\ task[t].used = 0 /\ ~task[t].stopped
    /\ Free(task[t].dev) >= Bytes[t]
    /\ task' = [task EXCEPT ![t].used = Bytes[t]]
    /\ UNCHANGED <<fns, other, thermal, lastTemp, sampling, watch>>

\* The work ends, well, badly or because it was told to stop.
Finish(t) ==
    /\ At(t, "running")
    /\ task' = [task EXCEPT ![t].pc = IF t \in Llm THEN "deregister" ELSE "release",
                            ![t].used = 0]
    /\ UNCHANGED <<fns, other, thermal, lastTemp, sampling, watch>>

DeregisterTask(t) ==
    /\ At(t, "deregister")
    /\ Goes(t, "release")
    /\ fns' = fns \ {t}
    /\ UNCHANGED <<other, thermal, lastTemp, sampling, watch>>

Freed(t) == IF task[t].status \in Live THEN "released" ELSE task[t].status

Release(t) ==
    /\ At(t, "release")
    /\ Settles(t, "done", Freed(t))
    /\ UNCHANGED <<fns, other, thermal, lastTemp, sampling, watch>>

-----------------------------------------------------------------------------
(* Time, and the processes outside the orchestrator.                           *)

\* The sixty seconds of a pending reservation pass.
Age(t) ==
    /\ task[t].status = "pending" /\ ~task[t].aged
    /\ task' = [task EXCEPT ![t].aged = TRUE]
    /\ UNCHANGED <<fns, other, thermal, lastTemp, sampling, watch>>

\* Fault: what is active expires as well.
ExpiresAnyLive(t) == task[t].status \in Live /\ task[t].aged
Expires(t) == task[t].status = "pending" /\ task[t].aged

\* One turn of the expiry loop of a device.
Expire(d) ==
    /\ \E t \in On(d) : Expires(t)
    /\ task' = [t \in Task |-> IF t \in On(d) /\ Expires(t)
                               THEN [task[t] EXCEPT !.status = "expired"] ELSE task[t]]
    /\ UNCHANGED <<fns, other, thermal, lastTemp, sampling, watch>>

OthersUse(d) ==
    /\ \E n \in 0 .. MaxOther : n + Used(d) <= Total /\ other' = [other EXCEPT ![d] = n]
    /\ UNCHANGED <<task, fns, thermal, lastTemp, sampling, watch>>

-----------------------------------------------------------------------------
(* Every device has a monitor, and every monitor reads every device, one after *)
(* the other, into its one state.                                              *)

NextThermal(state, temp) ==
    CASE temp = 4                                       -> "emergency"
      [] temp = 3 /\ state \in {"normal", "warning"}    -> "throttled"
      [] temp = 2 /\ state = "normal"                   -> "warning"
      [] temp = 0                                       -> "normal"
      [] OTHER                                          -> state

Sample(m) ==
    /\ LET d == IF sampling[m] = 0 THEN 1 ELSE sampling[m]
       IN /\ sampling' = [sampling EXCEPT ![m] = (d + 1) % (Devices + 1)]
          /\ \/ \E temp \in Temps :
                  /\ lastTemp' = [lastTemp EXCEPT ![m][d] = temp]
                  /\ thermal' = [thermal EXCEPT ![m] = NextThermal(@, temp)]
             \/ UNCHANGED <<lastTemp, thermal>>     \* the sensor gives no answer
    /\ UNCHANGED <<task, fns, other, watch>>

-----------------------------------------------------------------------------
(* The watcher finds little memory left and asks the preemptor for a victim.   *)

Watching(d, pc) == watch[d].pc = pc

Check(d) ==
    /\ Watching(d, "idle")
    /\ ActiveBytes(d) > 0 /\ Free(d) <= Critical
    /\ watch' = [watch EXCEPT ![d].pc = "preempt"]
    /\ UNCHANGED <<task, fns, other, thermal, lastTemp, sampling>>

\* LowestPriorityActive; the watcher's own priority beats every call's.
LowestActive(d) ==
    LET active == {t \in On(d) : task[t].status = "active"}
    IN {t \in active : \A u \in active : Priority[t] <= Priority[u]}

PickVictim(d) ==
    /\ Watching(d, "preempt")
    /\ \/ \E t \in LowestActive(d) :
            watch' = [watch EXCEPT ![d] = [pc |-> "lookup", victim |-> t]]
       \/ LowestActive(d) = {} /\ watch' = [watch EXCEPT ![d].pc = "clear"]
    /\ UNCHANGED <<task, fns, other, thermal, lastTemp, sampling>>

LookUp(d) ==
    /\ Watching(d, "lookup")
    /\ watch' = [watch EXCEPT ![d].pc = IF watch[d].victim \in fns THEN "stop" ELSE "clear"]
    /\ UNCHANGED <<task, fns, other, thermal, lastTemp, sampling>>

\* Suspend, or cancel when that fails or was not given.
StopVictim(d) ==
    /\ Watching(d, "stop")
    /\ task' = [task EXCEPT ![watch[d].victim].stopped = TRUE]
    /\ watch' = [watch EXCEPT ![d].pc = "free"]
    /\ UNCHANGED <<fns, other, thermal, lastTemp, sampling>>

FreeVictim(d) ==
    /\ Watching(d, "free")
    /\ task' = [task EXCEPT ![watch[d].victim].status = Freed(watch[d].victim)]
    /\ watch' = [watch EXCEPT ![d].pc = "idle"]
    /\ UNCHANGED <<fns, other, thermal, lastTemp, sampling>>

\* The model server is asked to unload its models, which are other processes' memory.
ClearCache(d) ==
    /\ Watching(d, "clear")
    /\ \E n \in 0 .. other[d] : other' = [other EXCEPT ![d] = n]
    /\ watch' = [watch EXCEPT ![d].pc = "idle"]
    /\ UNCHANGED <<task, fns, thermal, lastTemp, sampling>>

-----------------------------------------------------------------------------
Call(t) == \/ Choose(t) \/ CheckThermal(t) \/ Reserve(t) \/ Activate(t)
           \/ RegisterTask(t) \/ Allocate(t) \/ Finish(t) \/ DeregisterTask(t)
           \/ Release(t) \/ Age(t)
Background(d) == \/ Expire(d) \/ OthersUse(d) \/ Sample(d) \/ Check(d) \/ PickVictim(d)
                 \/ LookUp(d) \/ StopVictim(d) \/ FreeVictim(d) \/ ClearCache(d)

Next == \/ \E t \in Task : Call(t)
        \/ \E d \in Device : Background(d)

\* Time passes and the tickers of the expiry loops fire.
Fairness == /\ \A t \in Task : WF_vars(Age(t))
            /\ \A d \in Device : WF_vars(Expire(d))

Spec == Init /\ [][Next]_vars /\ Fairness

-----------------------------------------------------------------------------
TypeOK ==
    /\ task \in [Task -> [pc : {"idle", "chosen", "cool", "reserved", "active", "running",
                                "deregister", "release", "done", "failed"},
                          dev : 0 .. Devices,
                          status : {"none", "pending", "active", "released", "expired"},
                          aged : BOOLEAN, used : Nat, stopped : BOOLEAN]]
    /\ fns \subseteq Task
    /\ other \in [Device -> 0 .. MaxOther]
    /\ thermal \in [Device -> {"normal", "warning"} \cup Hot]
    /\ lastTemp \in [Device -> [Device -> 0 .. 4]]
    /\ sampling \in [Device -> 0 .. Devices]
    /\ watch \in [Device -> [pc : {"idle", "preempt", "lookup", "stop", "free", "clear"},
                             victim : Task]]

\* A call that works, and was not told to stop, still has the reservation it works
\* under: neither the expiry loop nor a preemption decided on an older picture takes
\* it away (budget.go:212, preempt.go:71).
WorkIsReserved ==
    \A t \in Task : task[t].pc \in {"active", "running"} /\ ~task[t].stopped
                        => task[t].status = "active"

\* What is promised on a device, with what preempted calls still hold, leaves the
\* safety margin of the device free: a preempted call's bytes are given away only as
\* far as the device has them (budget.go:62).
NotOvercommitted ==
    \A d \in Device :
        Reserved(d) + SumFunctionOnSet(Held, {t \in On(d) : task[t].status \notin Live})
            + Margin <= Total

\* Not an invariant with two devices: between two samples, no monitor lets calls through
\* although its own reading of its device is at the throttling temperature (policy.go:7);
\* a cooler device that is read later takes the state back.
HotIsThrottled ==
    \A m \in Device : sampling[m] = 0 /\ lastTemp[m][m] >= 3 => thermal[m] \in Hot

\* A reservation that is never activated does not hold its bytes for ever
\* (budget.go:16).
PendingSettles == \A t \in Task : task[t].status = "pending" ~> task[t].status # "pending"
====
