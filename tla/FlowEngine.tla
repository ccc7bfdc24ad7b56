------------------------------ MODULE FlowEngine ------------------------------
(***************************************************************************)
(* The flow engine (internal/flow): a run executes the steps of a flow in  *)
(* the order of their dependencies, as many at once as are ready, and      *)
(* rewrites its record on disk after every change.  The node that becomes  *)
(* coordinator starts the runs its disk has as running again.              *)
(*                                                                         *)
(* The module follows one run.  An execution of it is a goroutine with an  *)
(* own copy of the record; a second one starts when the coordination is    *)
(* lost and won again, and both write the same file.  Nothing survives a   *)
(* crash but the file, which a crash in a write leaves unreadable          *)
(* (os.WriteFile truncates first).                                         *)
(***************************************************************************)
EXTENDS Naturals, FiniteSets

CONSTANTS
    Step,
    Graphs,     \* the dependencies a flow may have: functions from Step to SUBSET Step
    MaxExecs,   \* bound: executions of the run in one life of the agent
    MaxFaults   \* bound: crashes, shutdowns, losses of the coordination and deletions
                \* in a run of each of the flows

ASSUME FlowAssumption ==
    /\ IsFiniteSet(Step)
    /\ Graphs \subseteq [Step -> SUBSET Step]
    /\ MaxExecs \in Nat
    /\ MaxFaults \in [Graphs -> Nat]

VARIABLES
    disk,     \* the record under flow-runs
    deps,     \* the flow: depends_on of every step ...
    defined,  \* ... and whether its file exists
    up,       \* the agent runs, or has begun to shut down ("stopping"), or not
    leading,  \* Engine.running
    trigger,  \* the TriggerFlow call: "no", "created" its record, or "over"
    resume,   \* resumeIncompleteRuns: where it is, and the record it has read
    exec,     \* the executions of this life of the agent
    stage,    \* how far the goroutine of every step of theirs is; "well" and
              \* "badly": its result is in finishedCh
    owner,    \* the one that cancelFuncs and activeRuns name, or 0
    faults,
    done,     \* history: the steps that ended well, at any time
    excused,  \* history: steps an execution found recorded as failed
    overlap   \* history: this life had two executions of the run at once

flow == <<deps, defined>>
volatile == <<leading, resume, exec, stage, owner>>
vars == <<disk, flow, up, volatile, trigger, faults, done, excused, overlap>>

Exec == 1..MaxExecs

\* A FlowRun: its status and the status of its steps ("absent": no StepResult).
Record(status, steps) == [status |-> status, steps |-> steps]
NoSteps == [s \in Step |-> "absent"]
NoRecord == Record("none", NoSteps)
Settled == {"completed", "failed"}

\* pc: its position.  run: its FlowRun.  completed, failed: its dagState.
\* err: runErr is set.  cancelled: so is its context.
Unused == [pc |-> "unused", run |-> NoRecord, completed |-> {}, failed |-> {},
           err |-> FALSE, cancelled |-> FALSE]

NoResume == [at |-> "idle", run |-> NoRecord]

Init ==
    /\ disk = NoRecord
    /\ deps \in Graphs
    /\ defined = TRUE
    /\ up = "up"
    /\ leading = FALSE
    /\ trigger = "no"
    /\ resume = NoResume
    /\ exec = [e \in Exec |-> Unused]
    /\ stage = [e \in Exec |-> [s \in Step |-> "none"]]
    /\ owner = 0
    /\ faults = 0
    /\ done = {}
    /\ excused = {}
    /\ overlap = FALSE

\* UpdateRun refuses a record that was deleted.
UpdateRun(run) == disk' = IF disk.status = "deleted" THEN disk ELSE run

Alive(e) == exec[e].pc \notin {"unused", "over"}

\* go executeRun(...), with the run and its cancel function registered.
Launch(e, run) ==
    /\ exec[e].pc = "unused" /\ \A f \in 1..(e - 1) : exec[f].pc # "unused"
    /\ exec' = [exec EXCEPT ![e] = [Unused EXCEPT !.pc = "start", !.run = run]]
    /\ owner' = e

-----------------------------------------------------------------------------
(* Triggers, leadership and resumption *)

\* TriggerFlow: the record is on disk before the run is registered.
TriggerCreate ==
    /\ up = "up" /\ trigger = "no" /\ defined
    /\ disk' = Record("running", NoSteps)
    /\ trigger' = "created"
    /\ UNCHANGED <<flow, up, volatile, faults, done, excused, overlap>>

TriggerStart ==
    /\ up # "down" /\ trigger = "created"
    /\ trigger' = "over"
    /\ \E e \in Exec : Launch(e, Record("running", NoSteps))
    /\ UNCHANGED <<disk, flow, up, leading, resume, stage, faults,
                   done, excused, overlap>>

\* checkElection: start.  One resumeIncompleteRuns ends well within the 5 s
\* between two elections.
Elect ==
    /\ up = "up" /\ ~leading /\ resume.at = "idle"
    /\ leading' = TRUE
    /\ resume' = [NoResume EXCEPT !.at = "list"]
    /\ UNCHANGED <<disk, flow, up, exec, stage, owner, trigger, faults,
                   done, excused, overlap>>

\* checkElection: stop leaves the runs alone.
Depose ==
    /\ up = "up" /\ leading /\ faults < MaxFaults[deps]
    /\ leading' = FALSE
    /\ faults' = faults + 1
    /\ UNCHANGED <<disk, flow, up, resume, exec, stage, owner, trigger,
                   done, excused, overlap>>

\* ListRuns; what cannot be decoded is passed over.
ResumeList ==
    /\ up # "down" /\ resume.at = "list"
    /\ resume' = IF disk.status = "running" THEN [at |-> "start", run |-> disk] ELSE NoResume
    /\ overlap' = (overlap \/ (disk.status = "running"
                                  /\ (trigger = "created" \/ \E e \in Exec : Alive(e))))
    /\ UNCHANGED <<disk, flow, up, leading, exec, stage, owner, trigger, faults,
                   done, excused>>

ResumeStart ==
    /\ up # "down" /\ resume.at = "start" /\ defined
    /\ \E e \in Exec : Launch(e, resume.run)
    /\ resume' = NoResume
    /\ UNCHANGED <<disk, flow, up, leading, stage, trigger, faults,
                   done, excused, overlap>>

\* The flow definition no longer exists.
ResumeOrphan ==
    /\ up # "down" /\ resume.at = "start" /\ ~defined
    /\ UpdateRun([resume.run EXCEPT !.status = "failed"])
    /\ resume' = NoResume
    /\ UNCHANGED <<flow, up, leading, exec, stage, owner, trigger, faults,
                   done, excused, overlap>>

-----------------------------------------------------------------------------
(* executeRun: the coordination loop *)

engine == <<flow, up, leading, resume, trigger, faults, overlap>>

Recorded(run, status) == {s \in Step : run.steps[s] = status}

\* Fault: a resumed run takes the steps that were running for completed.
StartTakesRunning(e) ==
    /\ exec[e].pc = "start"
    /\ exec' = [exec EXCEPT ![e] = [@ EXCEPT !.pc = "loop",
                                   !.completed = Recorded(exec[e].run, "completed")
                                                       \cup Recorded(exec[e].run, "running"),
                                   !.failed = Recorded(exec[e].run, "failed")]]
    /\ excused' = excused \cup Recorded(exec[e].run, "failed")
    /\ UNCHANGED <<engine, disk, stage, owner, done>>

\* Fault: a resumed run begins from nothing.
StartForgets(e) ==
    /\ exec[e].pc = "start"
    /\ exec' = [exec EXCEPT ![e] = [@ EXCEPT !.pc = "loop"]]
    /\ UNCHANGED <<engine, disk, stage, owner, done, excused>>

\* newDAGState, prepopulated with what the record has.
Start(e) ==
    /\ exec[e].pc = "start"
    /\ exec' = [exec EXCEPT ![e] = [@ EXCEPT !.pc = "loop",
                                   !.completed = Recorded(exec[e].run, "completed"),
                                   !.failed = Recorded(exec[e].run, "failed")]]
    /\ excused' = excused \cup Recorded(exec[e].run, "failed")
    /\ UNCHANGED <<engine, disk, stage, owner, done>>

\* dag.running: dispatched and not received.
Running(e) == {s \in Step : stage[e][s] # "none"}

\* The steps that nothing has been done for and that wait for nothing.
Reachable(e) ==
    {s \in Step \ (exec[e].completed \cup exec[e].failed \cup Running(e)) :
        deps[s] \subseteq exec[e].completed}

\* Of them, the ones the cascade fails: a dependency that completed has failed.
Cascaded(e) == {s \in Reachable(e) : deps[s] \cap exec[e].failed # {}}

\* Fault: the guard against a stalled run does not count what is missing.
DispatchMissesStall(e) ==
    LET ready == Reachable(e) \ Cascaded(e) IN
    /\ exec[e].pc = "loop"
    /\ stage' = [stage EXCEPT ![e] = [s \in Step |-> IF s \in ready THEN "dispatched" ELSE @[s]]]
    /\ exec' = [exec EXCEPT ![e] = [@ EXCEPT
                    !.pc = IF ready \cup Running(e) = {} THEN "final" ELSE "wait"]]
    /\ UNCHANGED <<engine, disk, owner, done, excused>>

\* Fault: the loop ends when nothing is ready, whatever is running.
DispatchLeavesRunning(e) ==
    LET ready == Reachable(e) \ Cascaded(e) IN
    /\ exec[e].pc = "loop"
    /\ stage' = [stage EXCEPT ![e] = [s \in Step |-> IF s \in ready THEN "dispatched" ELSE @[s]]]
    /\ exec' = [exec EXCEPT ![e] = [@ EXCEPT !.pc = IF ready = {} THEN "final" ELSE "wait",
                                   !.err = @ \/ (ready = {} /\ exec[e].completed # Step)]]
    /\ UNCHANGED <<engine, disk, owner, done, excused>>

\* Fault: a run with unreachable steps goes on waiting.
DispatchWaits(e) ==
    LET ready == Reachable(e) \ Cascaded(e) IN
    /\ exec[e].pc = "loop"
    /\ stage' = [stage EXCEPT ![e] = [s \in Step |-> IF s \in ready THEN "dispatched" ELSE @[s]]]
    /\ exec' = [exec EXCEPT ![e] = [@ EXCEPT !.pc =
                    IF exec[e].completed \cup exec[e].failed = Step THEN "final" ELSE "wait"]]
    /\ UNCHANGED <<engine, disk, owner, done, excused>>

\* Nothing is ready and nothing runs; a run that misses steps then has stalled.
Over(e) == (Reachable(e) \ Cascaded(e)) \cup Running(e) = {}
Stalled(e) == Over(e) /\ exec[e].completed \cup exec[e].failed \cup Cascaded(e) # Step

\* The execution after the turn.
Turned(e) ==
    [exec[e] EXCEPT !.pc = IF Over(e) THEN "final" ELSE "wait",
                    !.failed = @ \cup Cascaded(e),
                    !.run.steps = [s \in Step |-> IF s \in Cascaded(e) THEN "failed" ELSE @[s]],
                    !.err = @ \/ Stalled(e)]

\* One turn of the loop up to its select: the ready steps are dispatched;
\* with nothing ready and nothing running it ends, stalled if steps are missing.
Dispatch(e) ==
    LET ready == Reachable(e) \ Cascaded(e) IN
    /\ exec[e].pc = "loop"
    /\ stage' = [stage EXCEPT ![e] = [s \in Step |-> IF s \in ready THEN "dispatched" ELSE @[s]]]
    /\ exec' = [exec EXCEPT ![e] = Turned(e)]
    /\ UNCHANGED <<engine, disk, owner, done, excused>>

\* case <-ctx.Done().
Interrupted(e) ==
    /\ exec[e].pc = "wait" /\ exec[e].cancelled
    /\ exec' = [exec EXCEPT ![e] = [@ EXCEPT !.pc = "final", !.err = TRUE]]
    /\ UNCHANGED <<engine, disk, stage, owner, done, excused>>

\* A result received from finishedCh goes into the dagState and the record.
Noted(e, s) ==
    LET ok == stage[e][s] = "well" IN
    [exec[e] EXCEPT !.pc = "loop",
                    !.run.steps[s] = IF ok THEN "completed" ELSE "failed",
                    !.completed = IF ok THEN @ \cup {s} ELSE @,
                    !.failed = IF ok THEN @ ELSE @ \cup {s},
                    !.err = @ \/ ~ok]

\* Fault: a step that failed counts as completed for its successors.
ReceiveCompletes(e, s) ==
    /\ exec[e].pc = "wait" /\ stage[e][s] \in {"well", "badly"}
    /\ stage' = [stage EXCEPT ![e][s] = "none"]
    /\ exec' = [exec EXCEPT ![e] = [Noted(e, s) EXCEPT !.completed = @ \cup {s}]]
    /\ UpdateRun(exec'[e].run)
    /\ UNCHANGED <<engine, owner, done, excused>>

\* case sr := <-finishedCh, to the end of the turn.
Receive(e, s) ==
    /\ exec[e].pc = "wait" /\ stage[e][s] \in {"well", "badly"}
    /\ stage' = [stage EXCEPT ![e][s] = "none"]
    /\ exec' = [exec EXCEPT ![e] = Noted(e, s)]
    /\ UpdateRun(exec'[e].run)
    /\ UNCHANGED <<engine, owner, done, excused>>

\* finalize: the status of the run and its last record ...
Finalize(e) ==
    /\ exec[e].pc = "final"
    /\ exec' = [exec EXCEPT ![e] = [@ EXCEPT !.pc = "leave",
                                   !.run.status = IF exec[e].err THEN "failed" ELSE "completed"]]
    /\ UpdateRun(exec'[e].run)
    /\ UNCHANGED <<engine, stage, owner, done, excused>>

\* ... and the deferred clean-up, by the run's id whoever owns the entries.
Leave(e) ==
    /\ exec[e].pc = "leave"
    /\ exec' = [exec EXCEPT ![e] = IF Running(e) = {} THEN [Unused EXCEPT !.pc = "over"]
                                                     ELSE [@ EXCEPT !.pc = "over"]]
    /\ owner' = 0
    /\ UNCHANGED <<engine, disk, stage, done, excused>>

-----------------------------------------------------------------------------
(* The goroutine of a step *)

\* It is marked as running in the record, and RunStep begins.
BeginStep(e, s) ==
    /\ stage[e][s] = "dispatched"
    /\ stage' = [stage EXCEPT ![e][s] = "working"]
    /\ exec' = [exec EXCEPT ![e] = [@ EXCEPT !.run.steps[s] = "running"]]
    /\ UpdateRun(exec'[e].run)
    /\ UNCHANGED <<engine, owner, done, excused>>

\* RunStep returns, well or not, and its result goes into the channel.
EndWell(e, s) ==
    /\ stage[e][s] = "working"
    /\ stage' = [stage EXCEPT ![e][s] = "well"]
    /\ done' = done \cup {s}
    /\ UNCHANGED <<engine, disk, exec, owner, excused>>

EndBadly(e, s) ==
    /\ stage[e][s] = "working"
    /\ stage' = [stage EXCEPT ![e][s] = "badly"]
    /\ UNCHANGED <<engine, disk, exec, owner, done, excused>>

-----------------------------------------------------------------------------
(* Deletion, shutdown, crash and restart *)

\* The API deletes the flow, or the record of the run.
DeleteFlow ==
    /\ up = "up" /\ defined /\ faults < MaxFaults[deps]
    /\ defined' = FALSE
    /\ faults' = faults + 1
    /\ UNCHANGED <<disk, deps, up, volatile, trigger, done, excused, overlap>>

DeleteRun ==
    /\ up = "up" /\ disk.status \notin {"none", "deleted"} /\ faults < MaxFaults[deps]
    /\ disk' = Record("deleted", NoSteps)
    /\ faults' = faults + 1
    /\ UNCHANGED <<flow, up, volatile, trigger, done, excused, overlap>>

\* Engine.Stop: the registered run is cancelled and recorded as failed.
Stop ==
    /\ up = "up" /\ faults < MaxFaults[deps]
    /\ up' = "stopping"
    /\ faults' = faults + 1
    /\ leading' = FALSE
    /\ IF owner = 0
         THEN UNCHANGED <<exec, disk>>
         ELSE /\ exec' = [exec EXCEPT ![owner] =
                           [@ EXCEPT !.cancelled = TRUE, !.run.status = "failed"]]
              /\ UpdateRun(exec'[owner].run)
    /\ owner' = 0
    /\ UNCHANGED <<flow, resume, stage, trigger, done, excused, overlap>>

\* What the process has in memory is gone.
Die ==
    /\ up' = "down"
    /\ leading' = FALSE
    /\ resume' = NoResume
    /\ exec' = [e \in Exec |-> Unused]
    /\ stage' = [e \in Exec |-> [s \in Step |-> "none"]]
    /\ owner' = 0
    /\ overlap' = FALSE
    /\ trigger' = IF trigger = "created" THEN "over" ELSE trigger
    /\ UNCHANGED <<flow, done, excused>>

Exit == up = "stopping" /\ Die /\ UNCHANGED <<disk, faults>>

Crash ==
    /\ up = "up" /\ faults < MaxFaults[deps]
    /\ faults' = faults + 1
    /\ Die
    /\ UNCHANGED disk

\* The crash comes after os.WriteFile truncated the record.
CrashInWrite ==
    /\ up = "up" /\ faults < MaxFaults[deps]
    /\ faults' = faults + 1
    /\ disk.status # "deleted"
    /\ \E e \in Exec :
         \/ exec[e].pc = "final" \/ \E s \in Step : stage[e][s] = "dispatched"
         \/ exec[e].pc = "wait" /\ \E s \in Step : stage[e][s] \in {"well", "badly"}
    /\ disk' = Record("torn", NoSteps)
    /\ Die

Restart ==
    /\ up = "down"
    /\ up' = "up"
    /\ UNCHANGED <<disk, flow, volatile, trigger, faults, done, excused, overlap>>

-----------------------------------------------------------------------------
(* The specification *)

Loop(e) ==
    \/ Start(e) \/ Dispatch(e) \/ Interrupted(e) \/ Finalize(e) \/ Leave(e)
    \/ \E s \in Step : Receive(e, s)

Work(e, s) == BeginStep(e, s) \/ EndWell(e, s) \/ EndBadly(e, s)

Resume == ResumeList \/ ResumeStart \/ ResumeOrphan

\* What happens by itself: goroutines run, a step ends, a call in progress goes
\* on, the agent is started again, the node wins the coordination.
Progress ==
    \/ TriggerStart \/ Elect \/ Resume \/ Exit \/ Restart
    \/ \E e \in Exec : Loop(e) \/ \E s \in Step : Work(e, s)

Next ==
    \/ Progress
    \/ TriggerCreate \/ Depose \/ DeleteFlow \/ DeleteRun
    \/ Stop \/ Crash \/ CrashInWrite

Spec == Init /\ [][Next]_vars

\* The bounds let each of them happen finitely often, so one condition keeps any
\* of them from being passed over for ever.
FairSpec == Spec /\ WF_vars(Progress)

-----------------------------------------------------------------------------
(* Properties *)

StepStatus == {"absent", "running", "completed", "failed"}
RecordSet(S) == [status : S, steps : [Step -> StepStatus]]

ExecSet ==
    [pc : {"unused", "start", "loop", "wait", "final", "leave", "over"},
     run : RecordSet({"none", "running", "completed", "failed"}),
     completed : SUBSET Step, failed : SUBSET Step,
     err : BOOLEAN, cancelled : BOOLEAN]

\* The states of the engine: every position an execution can be at, every
\* status of a record, and no step that an execution has both as completed and
\* as failed (dagState).
TypeOK ==
    /\ disk \in RecordSet({"none", "running", "completed", "failed", "torn", "deleted"})
    /\ deps \in Graphs
    /\ defined \in BOOLEAN /\ leading \in BOOLEAN /\ overlap \in BOOLEAN
    /\ up \in {"up", "stopping", "down"}
    /\ trigger \in {"no", "created", "over"}
    /\ resume \in [at : {"idle", "list", "start"}, run : RecordSet({"none", "running"})]
    /\ exec \in [Exec -> ExecSet]
    /\ \A e \in Exec : exec[e].completed \cap exec[e].failed = {}
    /\ stage \in [Exec -> [Step -> {"none", "dispatched", "working", "well", "badly"}]]
    /\ owner \in 0..MaxExecs
    /\ done \subseteq Step /\ excused \subseteq Step
    /\ faults \in 0..MaxFaults[deps]

\* A step works only after every step it depends on has ended well, in this
\* execution or in one before a crash (executeRun's dispatch and its
\* prepopulated dagState).
DependenciesFirst ==
    \A e \in Exec, s \in Step : stage[e][s] = "working" => deps[s] \subseteq done

\* A run recorded as completed has every step recorded as completed, but for
\* the ones an execution that was resumed found recorded as failed: the
\* resumption forgets that they had failed the run (executeRun 382, 623-627).
CompletedIsWhole ==
    disk.status = "completed" =>
        \A s \in Step : disk.steps[s] = "completed" \/ s \in excused

\* The coordination loop ends with steps of its own still under way only when
\* its run was cancelled: nothing a finished run started goes on behind its
\* record's back.
NoStepOutlivesItsRun ==
    \A e \in Exec :
        exec[e].pc \in {"final", "leave", "over"} /\ Running(e) # {} => exec[e].cancelled

\* A step that the record has as completed is not begun again, over all crashes
\* and resumptions, as long as only one execution of the run is alive.
NoCompletedStepRepeats ==
    [][\A e \in Exec, s \in Step :
          stage[e][s] = "dispatched" /\ stage'[e][s] = "working" /\ ~overlap
             => disk.steps[s] # "completed"]_vars

\* Every run that is recorded as running gets another record, by its end or by
\* the loss of the file: crashes, shutdowns and lost coordination leave none
\* running for ever (resumeIncompleteRuns).
RunSettles == disk.status = "running" ~> disk.status # "running"

=============================================================================
