-------------------------------- MODULE Worker --------------------------------
(***************************************************************************)
(* How a task runs on a node (internal/scheduler/worker.go and the Linux   *)
(* files it calls): a shell is started, a goroutine limits it while it     *)
(* already runs, another waits for the end of its context to kill its      *)
(* process group, and Wait returns when the shell is reaped and nobody     *)
(* holds its output.  A pid is not used again within a run.                *)
(***************************************************************************)
EXTENDS Integers

CONSTANTS
    Task,       \* the tasks run, each once
    Given,      \* the limits of a caller: [memory, cpu, procs], 0 when it gives none
    Timeout     \* the timeout of a run, in seconds

\* The processes of a task: the shell, a child in its process group, one that left the
\* group (setsid), and one that left it and closed its output too.
Proc == {"shell", "child", "stray", "daemon"}
Group == {"shell", "child"}
Holders == {"shell", "child", "stray"}

VARIABLES
    sandboxed,  \* the tasks run in sandbox mode
    run,        \* "idle", "waiting" (cmd.Wait), "cleanup" or "returned"
    alive,      \* the processes of the task that run
    forked,     \* those that were ever started
    reaped,     \* tasks whose shell Wait has reaped
    ended,      \* tasks whose context is done
    watcher,    \* "none", "select", "killed" (and recorded as a timeout) or "stopped"
    limiter,    \* "none", "rlimits", "mkdir", "assign", "done"
    limits,     \* the rlimits in force, those of the agent until they are set
    cgroup      \* tasks whose cgroup directory exists

vars == <<sandboxed, run, alive, forked, reaped, ended, watcher, limiter, limits, cgroup>>

Unlimited == [memory |-> 0, cpu |-> 0, procs |-> 0]

\* Defaults replace what is not given; seconds of processor time come from the timeout.
Filled(l) ==
    [l EXCEPT !.memory = IF @ <= 0 THEN 2048 ELSE @, !.procs = IF @ <= 0 THEN 64 ELSE @]
WithTimeout(l) == [l EXCEPT !.cpu = IF @ = 0 /\ Timeout > 0 THEN Timeout + 5 ELSE @]

\* applyRlimitsToProcess fills what the caller gave: the limits with the timeout went to
\* applyRlimitsToAttr, which does nothing.  The kernel takes 0 seconds for 1.
Rlimits(l) == [Filled(l) EXCEPT !.cpu = IF @ = 0 THEN 1 ELSE @]

Init ==
    /\ sandboxed \in SUBSET Task
    /\ run = [t \in Task |-> "idle"]
    /\ alive = [t \in Task |-> {}] /\ forked = [t \in Task |-> {}]
    /\ reaped = {} /\ ended = {}
    /\ watcher = [t \in Task |-> "none"]
    /\ limiter = [t \in Task |-> "none"]
    /\ limits = [t \in Task |-> Unlimited]
    /\ cgroup = {}

-----------------------------------------------------------------------------
(* The processes *)

Start(t) ==
    /\ run[t] = "idle"
    /\ run' = [run EXCEPT ![t] = "waiting"]
    /\ alive' = [alive EXCEPT ![t] = {"shell"}] /\ forked' = [forked EXCEPT ![t] = {"shell"}]
    /\ watcher' = [watcher EXCEPT ![t] = "select"]
    /\ limiter' = [limiter EXCEPT ![t] = IF t \in sandboxed THEN "rlimits" ELSE "none"]
    /\ UNCHANGED <<sandboxed, reaped, ended, limits, cgroup>>

Fork(t, p) ==
    /\ alive[t] # {} /\ p \notin forked[t]
    /\ alive' = [alive EXCEPT ![t] = @ \cup {p}] /\ forked' = [forked EXCEPT ![t] = @ \cup {p}]
    /\ UNCHANGED <<sandboxed, run, reaped, ended, watcher, limiter, limits, cgroup>>

\* In a sandbox the shell is the first process of a pid namespace, and the kernel kills
\* the namespace with it (CLONE_NEWPID).
SurvivorsNoNamespace(t, dead) == alive[t] \ dead
Survivors(t, dead) ==
    IF t \in sandboxed /\ "shell" \in dead THEN {} ELSE alive[t] \ dead

Exit(t, p) ==
    /\ p \in alive[t]
    /\ alive' = [alive EXCEPT ![t] = Survivors(t, {p})]
    /\ UNCHANGED <<sandboxed, run, forked, reaped, ended, watcher, limiter, limits, cgroup>>

-----------------------------------------------------------------------------
(* The goroutines of a run *)

\* The timeout passes or the task is cancelled.
ContextEnds(t) ==
    /\ run[t] # "idle" /\ t \notin ended
    /\ ended' = ended \cup {t}
    /\ UNCHANGED <<sandboxed, run, alive, forked, reaped, watcher, limiter, limits, cgroup>>

\* The group is found by the pid of the shell, as long as the shell is not reaped.
Kill(t) ==
    /\ watcher[t] = "select" /\ t \in ended
    /\ alive' = [alive EXCEPT ![t] = IF t \in reaped THEN @ ELSE Survivors(t, Group)]
    /\ watcher' = [watcher EXCEPT ![t] = "killed"]
    /\ UNCHANGED <<sandboxed, run, forked, reaped, ended, limiter, limits, cgroup>>

\* done is closed: when the context is done too the select takes either.
WatcherStops(t) ==
    /\ watcher[t] = "select" /\ run[t] \in {"cleanup", "returned"}
    /\ watcher' = [watcher EXCEPT ![t] = "stopped"]
    /\ UNCHANGED <<sandboxed, run, alive, forked, reaped, ended, limiter, limits, cgroup>>

SetRlimits(t) ==
    /\ limiter[t] = "rlimits"
    /\ limiter' = [limiter EXCEPT ![t] = "mkdir"]
    /\ \E l \in Given :
         limits' = [limits EXCEPT ![t] = IF t \in reaped THEN @ ELSE Rlimits(l)]
    /\ UNCHANGED <<sandboxed, run, alive, forked, reaped, ended, watcher, cgroup>>

\* Without cgroup v2 the directory cannot be made and the goroutine ends.
MakeCgroup(t) ==
    /\ limiter[t] = "mkdir"
    /\ \/ limiter' = [limiter EXCEPT ![t] = "assign"] /\ cgroup' = cgroup \cup {t}
       \/ limiter' = [limiter EXCEPT ![t] = "done"] /\ cgroup' = cgroup
    /\ UNCHANGED <<sandboxed, run, alive, forked, reaped, ended, watcher, limits>>

\* A process that is gone, or a directory that is, cannot be assigned to: the directory
\* goes again.
AssignLeavesDir(t) ==
    /\ limiter[t] = "assign"
    /\ limiter' = [limiter EXCEPT ![t] = "done"]
    /\ UNCHANGED <<sandboxed, run, alive, forked, reaped, ended, watcher, limits, cgroup>>

Assign(t) ==
    /\ limiter[t] = "assign"
    /\ limiter' = [limiter EXCEPT ![t] = "done"]
    /\ cgroup' = IF t \in reaped THEN cgroup \ {t} ELSE cgroup
    /\ UNCHANGED <<sandboxed, run, alive, forked, reaped, ended, watcher, limits>>

\* Wait reaps the shell, then waits until nobody holds its output any more.
Reap(t) ==
    /\ run[t] = "waiting" /\ "shell" \notin alive[t] /\ t \notin reaped
    /\ reaped' = reaped \cup {t}
    /\ UNCHANGED <<sandboxed, run, alive, forked, ended, watcher, limiter, limits, cgroup>>

WaitReturns(t) ==
    /\ run[t] = "waiting" /\ t \in reaped
    /\ alive[t] \cap Holders = {}
    /\ run' = [run EXCEPT ![t] = "cleanup"]
    /\ UNCHANGED <<sandboxed, alive, forked, reaped, ended, watcher, limiter, limits, cgroup>>

\* cleanupCgroup, and the deferred cancel that ends the context of every run.
Return(t) ==
    /\ run[t] = "cleanup"
    /\ run' = [run EXCEPT ![t] = "returned"]
    /\ cgroup' = cgroup \ {t}
    /\ ended' = ended \cup {t}
    /\ UNCHANGED <<sandboxed, alive, forked, reaped, watcher, limiter, limits>>

Next == \E t \in Task :
    \/ Start(t) \/ ContextEnds(t) \/ Kill(t) \/ WatcherStops(t)
    \/ SetRlimits(t) \/ MakeCgroup(t) \/ Assign(t) \/ Reap(t) \/ WaitReturns(t) \/ Return(t)
    \/ \E p \in Proc : Fork(t, p) \/ Exit(t, p)

Spec == Init /\ [][Next]_vars

-----------------------------------------------------------------------------
\* Every variable stays in its type.
TypeOK ==
    /\ sandboxed \subseteq Task
    /\ run \in [Task -> {"idle", "waiting", "cleanup", "returned"}]
    /\ alive \in [Task -> SUBSET Proc] /\ forked \in [Task -> SUBSET Proc]
    /\ reaped \subseteq Task /\ ended \subseteq Task /\ cgroup \subseteq Task
    /\ watcher \in [Task -> {"none", "select", "killed", "stopped"}]
    /\ limiter \in [Task -> {"none", "rlimits", "mkdir", "assign", "done"}]
    /\ limits \in [Task -> {Unlimited} \cup {Rlimits(l) : l \in Given}]

\* No process of a sandboxed task outlives its run, or the kill of its group: not even
\* one that left the group and closed its output (killProcessTree, sysProcAttrSandboxed).
NothingOutlivesSandbox ==
    \A t \in sandboxed :
        run[t] \in {"cleanup", "returned"} \/ watcher[t] = "killed" => alive[t] = {}

\* Whichever of the run and the goroutine that limits it is first, no cgroup directory is
\* left when both are done (writeCgroup, cleanupCgroup).
CgroupsAreRemoved ==
    \A t \in Task : run[t] = "returned" /\ limiter[t] \in {"none", "done"} => t \notin cgroup

\* Not invariants.  Without a sandbox a child that holds the output of a finished shell is
\* out of the reach of the timeout; the watcher may record a run that returned as killed;
\* and the limit of processor time is 1 second, whatever the timeout.
KillEndsRun == \A t \in Task : watcher[t] = "killed" => alive[t] \cap Group = {}
RecordedWasKilled ==
    [][\A t \in Task : watcher[t] = "select" /\ watcher'[t] = "killed" => t \notin reaped]_vars
CpuIsOfTimeout ==
    \A t \in Task : limits[t] # Unlimited =>
        \E l \in Given : limits[t].cpu = WithTimeout(Filled(l)).cpu

=============================================================================
