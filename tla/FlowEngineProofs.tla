--------------------------- MODULE FlowEngineProofs ---------------------------
(***************************************************************************)
(* Proofs, for any flow, any number of executions and any faults, that the *)
(* steps keep the order of their dependencies, that a run recorded as      *)
(* completed is whole, that no step outlives its run, and that no step     *)
(* that completed is begun again while one execution goes on.              *)
(*                                                                         *)
(* The argument follows one execution: Sound(e) says what its goroutine's  *)
(* position, its dagState, its record and its steps have to do with each   *)
(* other.  An action touches one execution, or all of them by ending the   *)
(* process, so every step is proved for that one and framed for the rest.  *)
(***************************************************************************)
EXTENDS FlowEngine, TLAPS

\* What a record claims is true of a step, and a completed one is whole.
Honest(run) ==
    /\ Recorded(run, "completed") \subseteq done
    /\ run.status = "completed" =>
         \A s \in Step : run.steps[s] = "completed" \/ s \in excused

\* The steps before the loop: none of them is under way.
Fresh(e) == exec[e].pc \in {"unused", "start"} => Running(e) = {}

\* A step under way is not yet accounted for, and what it waited for is done.
Underway(e) ==
    \A s \in Running(e) :
        /\ s \notin exec[e].completed \cup exec[e].failed
        /\ deps[s] \subseteq done
        /\ stage[e][s] = "well" => s \in done

\* The dagState agrees with the record, and only a failure that was resumed
\* does not fail the run.
Accounted(e) ==
    exec[e].pc # "start" =>
        /\ exec[e].completed = Recorded(exec[e].run, "completed")
        /\ ~exec[e].err => exec[e].failed \subseteq excused

\* A loop that ended without an error has nothing left to do.
Ended(e) ==
    /\ exec[e].pc = "final" /\ ~exec[e].err =>
         Running(e) = {} /\ exec[e].completed \cup exec[e].failed = Step
    /\ exec[e].run.status = "completed" =>
         Running(e) = {} /\ exec[e].pc \in {"leave", "over"}
    /\ exec[e].pc \in {"final", "leave", "over"} /\ Running(e) # {} => exec[e].cancelled

Sound(e) ==
    Honest(exec[e].run) /\ Fresh(e) /\ Underway(e) /\ Accounted(e) /\ Ended(e)

\* The inductive invariant.
IInv ==
    /\ TypeOK
    /\ Honest(disk)
    /\ Recorded(resume.run, "completed") \subseteq done
    /\ \A e \in Exec : Sound(e)

-----------------------------------------------------------------------------
(* Types *)

\* A record whose one step changes is a record.
LEMMA RecordUpdate ==
    ASSUME NEW S, NEW run \in RecordSet(S), NEW s \in Step, NEW x \in StepStatus
    PROVE  [run EXCEPT !.steps[s] = x] \in RecordSet(S)
BY DEF RecordSet

\* The status of a record is replaced.
LEMMA StatusUpdate ==
    ASSUME NEW S, NEW run \in RecordSet(S), NEW x \in S
    PROVE  [run EXCEPT !.status = x] \in RecordSet(S)
BY DEF RecordSet

\* So are its steps.
LEMMA StepsUpdate ==
    ASSUME NEW S, NEW run \in RecordSet(S), NEW steps \in [Step -> StepStatus]
    PROVE  [run EXCEPT !.steps = steps] \in RecordSet(S)
BY DEF RecordSet

RunStatus == {"none", "running", "completed", "failed"}

\* An execution whose record changes is an execution.
LEMMA RunUpdate ==
    ASSUME NEW x \in ExecSet, NEW run \in RecordSet(RunStatus)
    PROVE  [x EXCEPT !.run = run] \in ExecSet
BY DEF ExecSet, RunStatus

\* The records that a flow begins with.
LEMMA RecordTypes == /\ NoRecord \in RecordSet({"none", "running"})
                     /\ Record("running", NoSteps) \in RecordSet({"none", "running"})
                     /\ Unused \in ExecSet
                     /\ Unused.completed = {} /\ Unused.failed = {}
BY DEF NoRecord, Record, NoSteps, RecordSet, StepStatus, Unused, ExecSet

\* An execution that changes to a well-typed one leaves the others as they are.
LEMMA ExecUpdate ==
    ASSUME TypeOK, NEW e \in Exec, NEW v \in ExecSet, v.completed \cap v.failed = {},
           exec' = [exec EXCEPT ![e] = v]
    PROVE  /\ exec' \in [Exec -> ExecSet]
           /\ \A f \in Exec : exec'[f].completed \cap exec'[f].failed = {}
<1>1. exec \in [Exec -> ExecSet] /\ \A f \in Exec : exec[f].completed \cap exec[f].failed = {}
  BY DEF TypeOK
<1> QED BY <1>1

\* No execution owns the flow.
LEMMA ZeroOwner == 0 \in 0..MaxExecs
BY FlowAssumption

\* A launched execution has its type.
LEMMA LaunchType ==
    ASSUME TypeOK, NEW e \in Exec, NEW run \in RecordSet({"none", "running"}), Launch(e, run)
    PROVE  /\ exec' \in [Exec -> ExecSet]
           /\ \A f \in Exec : exec'[f].completed \cap exec'[f].failed = {}
           /\ owner' \in 0..MaxExecs
<1> DEFINE v == [Unused EXCEPT !.pc = "start", !.run = run]
<1>1. v \in ExecSet /\ v.completed \cap v.failed = {}
  BY DEF Unused, ExecSet, RecordSet
<1>2. exec' = [exec EXCEPT ![e] = v] /\ owner' = e
  BY DEF Launch
<1>3. owner' \in 0..MaxExecs
  BY <1>2, FlowAssumption DEF Exec
<1> HIDE DEF v
<1> QED BY <1>1, <1>2, <1>3, ExecUpdate

\* UpdateRun writes the record it is given, or nothing.
LEMMA UpdateType ==
    ASSUME TypeOK, NEW run \in RecordSet({"none", "running", "completed", "failed"}), UpdateRun(run)
    PROVE  disk' \in RecordSet({"none", "running", "completed", "failed", "torn", "deleted"})
BY DEF TypeOK, UpdateRun, RecordSet

\* Every step of the engine keeps the types.
LEMMA TypeStep == IInv /\ [Next]_vars => TypeOK'
<1> SUFFICES ASSUME IInv, [Next]_vars PROVE TypeOK'
  OBVIOUS
<1>0. TypeOK
  BY DEF IInv
<1>00. faults < MaxFaults[deps] /\ faults' = faults + 1 /\ deps' = deps
          => faults' \in 0..MaxFaults[deps']
  BY <1>0, FlowAssumption DEF TypeOK
<1>1. CASE TriggerCreate
  BY <1>0, <1>1 DEF TriggerCreate, TypeOK, flow, volatile, Record, NoSteps, RecordSet, StepStatus
<1>2. CASE TriggerStart
  BY <1>0, <1>2, LaunchType, RecordTypes DEF TriggerStart, TypeOK, flow
<1>3. CASE Elect
  BY <1>0, <1>3, RecordTypes DEF Elect, TypeOK, flow, NoResume
<1>4. CASE Depose
  BY <1>0, <1>00, <1>4 DEF Depose, TypeOK, flow
<1>5. CASE ResumeList
  <2>1. disk.status = "running" => disk \in RecordSet({"none", "running"})
    BY <1>0 DEF TypeOK, RecordSet
  <2>2. NoResume \in [at : {"idle", "list", "start"}, run : RecordSet({"none", "running"})]
    BY RecordTypes DEF NoResume
  <2>3. resume' \in [at : {"idle", "list", "start"}, run : RecordSet({"none", "running"})]
    BY <1>5, <2>1, <2>2 DEF ResumeList
  <2>4. overlap' \in BOOLEAN
    BY <1>0, <1>5 DEF ResumeList, TypeOK
  <2> QED BY <1>0, <1>5, <2>3, <2>4 DEF ResumeList, TypeOK, flow
<1>6. CASE ResumeStart
  BY <1>0, <1>6, LaunchType, RecordTypes DEF ResumeStart, TypeOK, flow, NoResume
<1>7. CASE ResumeOrphan
  <2>1. [resume.run EXCEPT !.status = "failed"]
            \in RecordSet({"none", "running", "completed", "failed"})
    BY <1>0 DEF TypeOK, RecordSet
  <2> QED BY <1>0, <1>7, <2>1, UpdateType, RecordTypes DEF ResumeOrphan, TypeOK, flow, NoResume
<1>8. CASE DeleteFlow
  BY <1>0, <1>00, <1>8 DEF DeleteFlow, TypeOK, volatile
<1>9. CASE DeleteRun
  BY <1>0, <1>00, <1>9 DEF DeleteRun, TypeOK, flow, volatile, Record, NoSteps, RecordSet, StepStatus
<1>10. CASE Stop
  <2>1. CASE owner = 0
    BY <1>0, <1>00, <1>10, <2>1, ZeroOwner DEF Stop, TypeOK, flow
  <2>2. CASE owner # 0
    <3>1. owner \in Exec
      BY <1>0, <2>2 DEF TypeOK, Exec
    <3>2. exec' = [exec EXCEPT ![owner] =
                      [exec[owner] EXCEPT !.cancelled = TRUE, !.run.status = "failed"]]
          /\ UpdateRun(exec'[owner].run)
      BY <1>10, <2>2 DEF Stop
    <3>3. exec' \in [Exec -> ExecSet]
          /\ \A f \in Exec : exec'[f].completed \cap exec'[f].failed = {}
      <4> DEFINE v == [exec[owner] EXCEPT !.cancelled = TRUE, !.run.status = "failed"]
      <4> DEFINE r == [exec[owner].run EXCEPT !.status = "failed"]
      <4>0. exec[owner] \in ExecSet /\ exec[owner].completed \cap exec[owner].failed = {}
        BY <1>0, <3>1 DEF TypeOK
      <4>a. r \in RecordSet(RunStatus)
        BY <4>0, StatusUpdate DEF ExecSet, RunStatus
      <4>b. v = [[exec[owner] EXCEPT !.cancelled = TRUE] EXCEPT !.run = r]
        BY <4>0 DEF ExecSet
      <4>1. v \in ExecSet /\ v.completed \cap v.failed = {}
        <5> HIDE DEF r
        <5> QED BY <4>0, <4>a, <4>b DEF ExecSet, RunStatus
      <4>2. exec' = [exec EXCEPT ![owner] = v]
        BY <3>2
      <4> HIDE DEF v
      <4> QED BY <1>0, <3>1, <4>1, <4>2, ExecUpdate
    <3>4. exec'[owner].run \in RecordSet({"none", "running", "completed", "failed"})
      BY <3>1, <3>3 DEF ExecSet
    <3>5. disk' \in RecordSet({"none", "running", "completed", "failed", "torn", "deleted"})
      BY <1>0, <3>2, <3>4, UpdateType
    <3> QED BY <1>0, <1>00, <1>10, <3>3, <3>5, ZeroOwner DEF Stop, TypeOK, flow
  <2> QED BY <2>1, <2>2
<1>11. ASSUME Die, faults' \in 0..MaxFaults[deps'],
              disk' \in RecordSet({"none", "running", "completed", "failed", "torn", "deleted"})
       PROVE  TypeOK'
  <2>1. /\ exec' \in [Exec -> ExecSet]
        /\ \A f \in Exec : exec'[f].completed \cap exec'[f].failed = {}
    BY <1>11, RecordTypes DEF Die
  <2>2. stage' \in [Exec -> [Step -> {"none", "dispatched", "working", "well", "badly"}]]
    BY <1>11 DEF Die
  <2>3. resume' \in [at : {"idle", "list", "start"}, run : RecordSet({"none", "running"})]
    BY <1>11, RecordTypes DEF Die, NoResume
  <2>4. /\ up' = "down" /\ leading' = FALSE /\ overlap' = FALSE
        /\ trigger' \in {"no", "created", "over"}
        /\ owner' \in 0..MaxExecs
    BY <1>0, <1>11, ZeroOwner DEF Die, TypeOK
  <2>5. deps' \in Graphs /\ defined' \in BOOLEAN /\ done' \subseteq Step /\ excused' \subseteq Step
    BY <1>0, <1>11 DEF Die, TypeOK, flow
  <2> QED BY <1>11, <2>1, <2>2, <2>3, <2>4, <2>5 DEF TypeOK
<1>12. CASE Exit
  BY <1>0, <1>11, <1>12 DEF Exit, Die, flow, TypeOK
<1>13. CASE Crash
  BY <1>0, <1>00, <1>11, <1>13 DEF Crash, Die, flow, TypeOK
<1>14. CASE CrashInWrite
  <2>1. disk' \in RecordSet({"none", "running", "completed", "failed", "torn", "deleted"})
    BY <1>14 DEF CrashInWrite, Record, NoSteps, RecordSet, StepStatus
  <2>2. deps' = deps
    BY <1>14 DEF CrashInWrite, Die, flow
  <2> QED BY <1>0, <1>00, <1>11, <1>14, <2>1, <2>2 DEF CrashInWrite
<1>15. CASE Restart
  BY <1>0, <1>15 DEF Restart, TypeOK, flow, volatile
<1>16. ASSUME NEW e \in Exec, Loop(e) \/ \E s \in Step : Work(e, s) PROVE TypeOK'
  <2>1. CASE Start(e)
    <3> DEFINE v == [exec[e] EXCEPT !.pc = "loop",
                                    !.completed = Recorded(exec[e].run, "completed"),
                                    !.failed = Recorded(exec[e].run, "failed")]
    <3>0. exec[e] \in ExecSet
      BY <1>0 DEF TypeOK
    <3>a. v \in ExecSet
      BY <3>0 DEF ExecSet, Recorded
    <3>b. v.completed \cap v.failed = {}
      BY <3>0 DEF ExecSet, Recorded
    <3>1. v \in ExecSet /\ v.completed \cap v.failed = {}
      BY <3>a, <3>b
    <3>2. exec' = [exec EXCEPT ![e] = v]
      BY <2>1 DEF Start
    <3>3. /\ exec' \in [Exec -> ExecSet]
          /\ \A f \in Exec : exec'[f].completed \cap exec'[f].failed = {}
      <4> HIDE DEF v
      <4> QED BY <1>0, <3>1, <3>2, ExecUpdate
    <3>4. excused' \subseteq Step
      BY <1>0, <2>1 DEF Start, TypeOK, Recorded
    <3> QED BY <1>0, <2>1, <3>3, <3>4 DEF Start, TypeOK, engine, flow
  <2>2. CASE Dispatch(e)
    <3>1. Reachable(e) \subseteq Step /\ Cascaded(e) \subseteq Step
      BY DEF Reachable, Cascaded
    <3>2. Cascaded(e) \cap exec[e].completed = {}
      BY DEF Cascaded, Reachable
    <3>3. stage' \in [Exec -> [Step -> {"none", "dispatched", "working", "well", "badly"}]]
      BY <1>0, <2>2 DEF Dispatch, TypeOK
    <3>4. [s \in Step |-> IF s \in Cascaded(e) THEN "failed" ELSE exec[e].run.steps[s]]
             \in [Step -> StepStatus]
      BY <1>0 DEF TypeOK, ExecSet, RecordSet, StepStatus
    <3>5. /\ exec' \in [Exec -> ExecSet]
          /\ \A f \in Exec : exec'[f].completed \cap exec'[f].failed = {}
      <4> DEFINE steps == [s \in Step |-> IF s \in Cascaded(e) THEN "failed"
                                                         ELSE exec[e].run.steps[s]]
                 r == [exec[e].run EXCEPT !.steps = steps]
      <4>1. exec' = [exec EXCEPT ![e] = Turned(e)]
        BY <2>2 DEF Dispatch
      <4>2. exec[e] \in ExecSet
        BY <1>0 DEF TypeOK
      <4>3. r \in RecordSet(RunStatus)
        BY <3>4, <4>2, StepsUpdate DEF ExecSet, RunStatus
      <4>4. (exec[e].err \/ Stalled(e)) \in BOOLEAN /\ exec[e].failed \cup Cascaded(e) \in SUBSET Step
        BY <3>1, <4>2 DEF ExecSet
      <4>5. Turned(e) = [exec[e] EXCEPT !.pc = IF Over(e) THEN "final" ELSE "wait",
                                        !.failed = exec[e].failed \cup Cascaded(e),
                                        !.run = r,
                                        !.err = exec[e].err \/ Stalled(e)]
        BY <4>2 DEF Turned, ExecSet
      <4>6. Turned(e) \in ExecSet
        <5> HIDE DEF r
        <5> QED BY <4>2, <4>3, <4>4, <4>5 DEF ExecSet, RunStatus
      <4>7. Turned(e).completed = exec[e].completed
            /\ Turned(e).failed = exec[e].failed \cup Cascaded(e)
        BY <4>2 DEF Turned, ExecSet
      <4>8. Turned(e).completed \cap Turned(e).failed = {}
        BY <1>0, <3>2, <4>7 DEF TypeOK
      <4> QED BY <1>0, <4>1, <4>6, <4>8, ExecUpdate
    <3> QED BY <1>0, <2>2, <3>3, <3>5 DEF Dispatch, TypeOK, engine, flow
  <2>3. CASE Interrupted(e)
    <3> DEFINE v == [exec[e] EXCEPT !.pc = "final", !.err = TRUE]
    <3>0. exec[e] \in ExecSet /\ exec[e].completed \cap exec[e].failed = {}
      BY <1>0 DEF TypeOK
    <3>a. v \in ExecSet
      BY <3>0 DEF ExecSet
    <3>b. v.completed \cap v.failed = {}
      BY <3>0 DEF ExecSet
    <3>1. v \in ExecSet /\ v.completed \cap v.failed = {}
      BY <3>a, <3>b
    <3>2. exec' = [exec EXCEPT ![e] = v]
      BY <2>3 DEF Interrupted
    <3>3. /\ exec' \in [Exec -> ExecSet]
          /\ \A f \in Exec : exec'[f].completed \cap exec'[f].failed = {}
      <4> HIDE DEF v
      <4> QED BY <1>0, <3>1, <3>2, ExecUpdate
    <3> QED BY <1>0, <2>3, <3>3 DEF Interrupted, TypeOK, engine, flow
  <2>4. CASE Finalize(e)
    <3>1. /\ exec' \in [Exec -> ExecSet]
          /\ \A f \in Exec : exec'[f].completed \cap exec'[f].failed = {}
      <4> DEFINE v == [exec[e] EXCEPT !.pc = "leave",
                         !.run.status = IF exec[e].err THEN "failed" ELSE "completed"]
      <4> DEFINE r == [exec[e].run EXCEPT !.status =
                         IF exec[e].err THEN "failed" ELSE "completed"]
      <4>0. exec[e] \in ExecSet /\ exec[e].completed \cap exec[e].failed = {}
        BY <1>0 DEF TypeOK
      <4>a. r \in RecordSet(RunStatus)
        BY <4>0, StatusUpdate DEF ExecSet, RunStatus
      <4>b. v = [exec[e] EXCEPT !.pc = "leave", !.run = r]
        BY <4>0 DEF ExecSet
      <4>1. v \in ExecSet /\ v.completed \cap v.failed = {}
        <5> HIDE DEF r
        <5> QED BY <4>0, <4>a, <4>b DEF ExecSet, RunStatus
      <4>2. exec' = [exec EXCEPT ![e] = v]
        BY <2>4 DEF Finalize
      <4> HIDE DEF v
      <4> QED BY <1>0, <4>1, <4>2, ExecUpdate
    <3>2. disk' \in RecordSet({"none", "running", "completed", "failed", "torn", "deleted"})
      BY <1>0, <2>4, <3>1, UpdateType DEF Finalize, ExecSet
    <3> QED BY <1>0, <2>4, <3>1, <3>2 DEF Finalize, TypeOK, engine, flow
  <2>5. CASE Leave(e)
    <3> DEFINE v == IF Running(e) = {} THEN [Unused EXCEPT !.pc = "over"]
                                      ELSE [exec[e] EXCEPT !.pc = "over"]
    <3>1. v \in ExecSet /\ v.completed \cap v.failed = {}
      BY <1>0, RecordTypes DEF TypeOK, ExecSet, Unused
    <3>2. exec' = [exec EXCEPT ![e] = v]
      BY <1>0, <2>5 DEF Leave, TypeOK
    <3>3. /\ exec' \in [Exec -> ExecSet]
          /\ \A f \in Exec : exec'[f].completed \cap exec'[f].failed = {}
      <4> HIDE DEF v
      <4> QED BY <1>0, <3>1, <3>2, ExecUpdate
    <3> QED BY <1>0, <2>5, <3>3, ZeroOwner DEF Leave, TypeOK, engine, flow
  <2>6. ASSUME NEW s \in Step, Receive(e, s) PROVE TypeOK'
    <3>1. s \in Running(e)
      BY <2>6 DEF Receive, Running
    <3>2. s \notin exec[e].completed \cup exec[e].failed
      BY <3>1 DEF IInv, Sound, Underway
    <3>3. Noted(e, s) \in ExecSet /\ Noted(e, s).completed \cap Noted(e, s).failed = {}
      <4> DEFINE r(x) == [exec[e].run EXCEPT !.steps[s] = x]
      <4>0. exec[e] \in ExecSet /\ exec[e].completed \cap exec[e].failed = {}
        BY <1>0 DEF TypeOK
      <4>1. CASE stage[e][s] = "well"
        <5>1. r("completed") \in RecordSet(RunStatus)
          BY <4>0, RecordUpdate DEF ExecSet, RunStatus, StepStatus
        <5>2. Noted(e, s) = [exec[e] EXCEPT !.pc = "loop", !.run = r("completed"),
                                            !.completed = @ \cup {s}]
          BY <4>0, <4>1 DEF Noted, ExecSet
        <5> HIDE DEF r
        <5>3. exec[e].completed \cup {s} \in SUBSET Step
          BY <4>0 DEF ExecSet
        <5>4. Noted(e, s) \in ExecSet
          BY <4>0, <5>1, <5>2, <5>3 DEF ExecSet, RunStatus
        <5>5. Noted(e, s).completed \cap Noted(e, s).failed = {}
          BY <3>2, <4>0, <5>2 DEF ExecSet
        <5> QED BY <5>4, <5>5
      <4>2. CASE stage[e][s] # "well"
        <5>1. r("failed") \in RecordSet(RunStatus)
          BY <4>0, RecordUpdate DEF ExecSet, RunStatus, StepStatus
        <5>2. Noted(e, s) = [exec[e] EXCEPT !.pc = "loop", !.run = r("failed"),
                                            !.failed = @ \cup {s}, !.err = TRUE]
          BY <4>0, <4>2 DEF Noted, ExecSet
        <5> HIDE DEF r
        <5>3. exec[e].failed \cup {s} \in SUBSET Step
          BY <4>0 DEF ExecSet
        <5>4. Noted(e, s) \in ExecSet
          BY <4>0, <5>1, <5>2, <5>3 DEF ExecSet, RunStatus
        <5>5. Noted(e, s).completed \cap Noted(e, s).failed = {}
          BY <3>2, <4>0, <5>2 DEF ExecSet
        <5> QED BY <5>4, <5>5
      <4> QED BY <4>1, <4>2
    <3>4. exec' = [exec EXCEPT ![e] = Noted(e, s)]
      BY <2>6 DEF Receive
    <3>5. /\ exec' \in [Exec -> ExecSet]
          /\ \A f \in Exec : exec'[f].completed \cap exec'[f].failed = {}
      BY <1>0, <3>3, <3>4, ExecUpdate
    <3>6. exec'[e].run \in RecordSet({"none", "running", "completed", "failed"})
      BY <3>5 DEF ExecSet
    <3>7. disk' \in RecordSet({"none", "running", "completed", "failed", "torn", "deleted"})
      BY <1>0, <2>6, <3>6, UpdateType DEF Receive
    <3> QED BY <1>0, <2>6, <3>5, <3>7 DEF Receive, TypeOK, engine, flow
  <2>7. ASSUME NEW s \in Step, BeginStep(e, s) PROVE TypeOK'
    <3>1. /\ exec' \in [Exec -> ExecSet]
          /\ \A f \in Exec : exec'[f].completed \cap exec'[f].failed = {}
      <4> DEFINE v == [exec[e] EXCEPT !.run.steps[s] = "running"]
      <4> DEFINE r == [exec[e].run EXCEPT !.steps[s] = "running"]
      <4>0. exec[e] \in ExecSet /\ exec[e].completed \cap exec[e].failed = {}
        BY <1>0 DEF TypeOK
      <4>a. r \in RecordSet(RunStatus)
        BY <4>0, RecordUpdate DEF ExecSet, RunStatus, StepStatus
      <4>b. v = [exec[e] EXCEPT !.run = r]
        BY <4>0 DEF ExecSet
      <4>1. v \in ExecSet /\ v.completed \cap v.failed = {}
        <5> HIDE DEF r
        <5> QED BY <4>0, <4>a, <4>b DEF ExecSet, RunStatus
      <4>2. exec' = [exec EXCEPT ![e] = v]
        BY <2>7 DEF BeginStep
      <4> HIDE DEF v
      <4> QED BY <1>0, <4>1, <4>2, ExecUpdate
    <3>2. disk' \in RecordSet({"none", "running", "completed", "failed", "torn", "deleted"})
      BY <1>0, <2>7, <3>1, UpdateType DEF BeginStep, ExecSet
    <3> QED BY <1>0, <2>7, <3>1, <3>2 DEF BeginStep, TypeOK, engine, flow
  <2>8. ASSUME NEW s \in Step, EndWell(e, s) \/ EndBadly(e, s) PROVE TypeOK'
    BY <1>0, <2>8 DEF EndWell, EndBadly, TypeOK, engine, flow
  <2> QED BY <1>16, <2>1, <2>2, <2>3, <2>4, <2>5, <2>6, <2>7, <2>8 DEF Loop, Work
<1>17. CASE UNCHANGED vars
  BY <1>0, <1>17 DEF vars, TypeOK, flow, volatile
<1> QED
  BY <1>1, <1>2, <1>3, <1>4, <1>5, <1>6, <1>7, <1>8, <1>9, <1>10, <1>12, <1>13, <1>14,
     <1>15, <1>16, <1>17 DEF Next, Progress, Resume

-----------------------------------------------------------------------------
(* One execution *)

\* What holds of an execution that a step leaves alone still holds.
LEMMA Frame ==
    ASSUME NEW e \in Exec, Sound(e), exec'[e] = exec[e], stage'[e] = stage[e],
           deps' = deps, done \subseteq done', excused \subseteq excused'
    PROVE  Sound(e)'
<1>1. Running(e)' = Running(e)
  BY DEF Running
<1>2. Recorded(exec[e].run, "completed")' = Recorded(exec[e].run, "completed")
  BY DEF Recorded
<1>3. Honest(exec[e].run)'
  BY <1>2 DEF Sound, Honest
<1>4. Fresh(e)' /\ Ended(e)'
  BY <1>1 DEF Sound, Fresh, Ended
<1>5. Underway(e)'
  BY <1>1 DEF Sound, Underway
<1>6. Accounted(e)'
  BY <1>2 DEF Sound, Accounted
<1> QED BY <1>3, <1>4, <1>5, <1>6 DEF Sound

\* An execution that holds nothing is sound.
LEMMA Blank ==
    ASSUME NEW e \in Exec, exec'[e].run = NoRecord, exec'[e].completed = {},
           exec'[e].failed = {}, exec'[e].pc \in {"unused", "over"},
           \A s \in Step : stage'[e][s] = "none"
    PROVE  Sound(e)'
<1>1. Running(e)' = {}
  BY DEF Running
<1>2. Recorded(exec[e].run, "completed")' = {}
  BY DEF Recorded, NoRecord, Record, NoSteps
<1>3. exec'[e].run.status = "none"
  BY DEF NoRecord, Record
<1> QED BY <1>1, <1>2, <1>3 DEF Sound, Honest, Fresh, Underway, Accounted, Ended

\* So is one that begins with an honest record that is not completed.
LEMMA Launched ==
    ASSUME IInv, NEW e \in Exec, NEW run, Launch(e, run), run.status # "completed",
           Recorded(run, "completed") \subseteq done,
           UNCHANGED <<stage, deps, done, excused>>
    PROVE  \A f \in Exec : Sound(f)'
<1>0. TypeOK
  BY DEF IInv
<1>1. exec' = [exec EXCEPT ![e] = [Unused EXCEPT !.pc = "start", !.run = run]]
  BY DEF Launch
<1>2. /\ exec'[e].pc = "start" /\ exec'[e].run = run
      /\ exec'[e].completed = {} /\ exec'[e].failed = {}
  BY <1>0, <1>1 DEF TypeOK, Unused
<1>3. Running(e)' = {}
  BY DEF Launch, IInv, Sound, Fresh, Running
<1>4. Honest(exec[e].run)'
  BY <1>2 DEF Honest, Recorded
<1>5. Sound(e)'
  BY <1>2, <1>3, <1>4 DEF Sound, Fresh, Underway, Accounted, Ended
<1>6. ASSUME NEW f \in Exec, f # e PROVE Sound(f)'
  <2>1. exec'[f] = exec[f] /\ Sound(f)
    BY <1>0, <1>1, <1>6 DEF TypeOK, IInv
  <2> QED BY <2>1, Frame
<1> QED BY <1>5, <1>6

\* UpdateRun leaves an honest record on disk when it is given one.
LEMMA HonestDisk ==
    ASSUME Honest(disk), NEW e \in Exec, UpdateRun(exec'[e].run), Honest(exec[e].run)',
           done \subseteq done', excused \subseteq excused'
    PROVE  Honest(disk)'
<1>1. CASE disk' = disk
  BY <1>1 DEF Honest, Recorded
<1>2. CASE disk' = exec'[e].run
  BY <1>2 DEF Honest, Recorded
<1> QED BY <1>1, <1>2 DEF UpdateRun

\* The steps of the coordination loop and of the goroutines of its steps.
LEMMA ExecutionStep ==
    ASSUME IInv, NEW e \in Exec, Loop(e) \/ \E s \in Step : Work(e, s)
    PROVE  Sound(e)' /\ Honest(disk)'
<1>0. /\ TypeOK /\ Sound(e) /\ Honest(disk)
      /\ exec[e] \in ExecSet /\ DOMAIN exec = Exec /\ DOMAIN stage = Exec
      /\ stage[e] \in [Step -> {"none", "dispatched", "working", "well", "badly"}]
  BY DEF IInv, TypeOK
<1>1. CASE Start(e)
  <2>1. /\ exec'[e].pc = "loop" /\ exec'[e].run = exec[e].run
        /\ exec'[e].completed = Recorded(exec[e].run, "completed")
        /\ exec'[e].failed = Recorded(exec[e].run, "failed")
        /\ UNCHANGED <<stage, disk, done, deps>>
        /\ excused' = excused \cup Recorded(exec[e].run, "failed")
    BY <1>0, <1>1 DEF Start, ExecSet, engine, flow
  <2>2. Running(e)' = {} /\ Running(e) = {}
    BY <1>0, <1>1, <2>1 DEF Start, Sound, Fresh, Running
  <2>3. Recorded(exec[e].run, "completed")' = Recorded(exec[e].run, "completed")
    BY <2>1 DEF Recorded
  <2>4. Honest(exec[e].run)'
    BY <1>0, <2>1, <2>3 DEF Sound, Honest
  <2>5. exec[e].run.status # "completed"
    BY <1>0, <1>1 DEF Sound, Ended, Start
  <2>6. Sound(e)'
    BY <2>1, <2>2, <2>3, <2>4, <2>5 DEF Sound, Fresh, Underway, Accounted, Ended
  <2>7. Honest(disk)'
    BY <1>0, <2>1 DEF Honest, Recorded
  <2> QED BY <2>6, <2>7
<1>2. CASE Dispatch(e)
  <2> DEFINE ready == Reachable(e) \ Cascaded(e)
             stalled == ready \cup Running(e) = {} /\ exec[e].completed \cup exec[e].failed # Step
  <2>1. Cascaded(e) = {}
    BY <1>0 DEF TypeOK, Cascaded, Reachable
  <2>2. /\ exec[e].pc = "loop"
        /\ exec'[e].pc = IF ready \cup Running(e) = {} THEN "final" ELSE "wait"
        /\ exec'[e].completed = exec[e].completed /\ exec'[e].failed = exec[e].failed
        /\ exec'[e].run.status = exec[e].run.status
        /\ \A s \in Step : exec'[e].run.steps[s] = exec[e].run.steps[s]
        /\ exec'[e].err = (exec[e].err \/ stalled)
        /\ exec'[e].cancelled = exec[e].cancelled
    <3>1. exec[e].pc = "loop" /\ exec' = [exec EXCEPT ![e] = Turned(e)]
      BY <1>2 DEF Dispatch
    <3>2. exec'[e] = Turned(e)
      BY <1>0, <3>1
    <3>3. /\ Turned(e).pc = IF ready \cup Running(e) = {} THEN "final" ELSE "wait"
          /\ Turned(e).completed = exec[e].completed
          /\ Turned(e).failed = exec[e].failed \cup Cascaded(e)
          /\ Turned(e).err = (exec[e].err \/ Stalled(e))
          /\ Turned(e).cancelled = exec[e].cancelled
          /\ Turned(e).run.status = exec[e].run.status
      BY <1>0 DEF Turned, Over, ExecSet, RecordSet
    <3>4. Turned(e).run.steps = [s \in Step |-> IF s \in Cascaded(e) THEN "failed"
                                                            ELSE exec[e].run.steps[s]]
      BY <1>0 DEF Turned, ExecSet, RecordSet
    <3>5. Stalled(e) = stalled
      BY <2>1 DEF Stalled, Over
    <3>6. \A s \in Step : Turned(e).run.steps[s] = exec[e].run.steps[s]
      BY <2>1, <3>4
    <3> HIDE DEF ready, stalled
    <3> QED BY <2>1, <3>1, <3>2, <3>3, <3>5, <3>6
  <2>3. UNCHANGED <<disk, done, deps, excused>>
    BY <1>2 DEF Dispatch, engine, flow
  <2>4. \A s \in Step : stage'[e][s] = IF s \in ready THEN "dispatched" ELSE stage[e][s]
    BY <1>0, <1>2 DEF Dispatch
  <2>5. Running(e)' = Running(e) \cup ready
    BY <2>4 DEF Running, Reachable
  <2>6. Recorded(exec[e].run, "completed")' = Recorded(exec[e].run, "completed")
    BY <2>2 DEF Recorded
  <2>7. Honest(exec[e].run)'
    BY <1>0, <2>2, <2>3, <2>6 DEF Sound, Honest
  <2>8. exec[e].completed \subseteq done
    BY <1>0, <2>2 DEF Sound, Honest, Accounted
  <2>9. Underway(e)'
    <3> SUFFICES ASSUME NEW s \in Running(e)'
                 PROVE  /\ s \notin exec'[e].completed \cup exec'[e].failed
                        /\ deps'[s] \subseteq done'
                        /\ stage'[e][s] = "well" => s \in done'
      BY DEF Underway
    <3>1. CASE s \in ready
      BY <2>2, <2>3, <2>4, <2>8, <3>1 DEF Reachable
    <3>2. CASE s \notin ready
      <4>1. s \in Running(e)
        BY <2>5, <3>2
      <4>2. s \in Step /\ stage'[e][s] = stage[e][s]
        BY <2>4, <3>2, <4>1 DEF Running
      <4> QED BY <1>0, <2>2, <2>3, <4>1, <4>2 DEF Sound, Underway
    <3> QED BY <3>1, <3>2
  <2>10. Accounted(e)'
    BY <1>0, <2>2, <2>3, <2>6 DEF Sound, Accounted
  <2>11. exec[e].run.status # "completed"
    BY <1>0, <2>2 DEF Sound, Ended
  <2>12. Ended(e)'
    BY <2>2, <2>5, <2>11 DEF Ended
  <2>13. Fresh(e)'
    BY <2>2 DEF Fresh
  <2>14. Honest(disk)'
    BY <1>0, <2>3 DEF Honest, Recorded
  <2> QED BY <2>7, <2>9, <2>10, <2>12, <2>13, <2>14 DEF Sound
<1>3. CASE Interrupted(e)
  <2>1. /\ exec'[e].pc = "final" /\ exec'[e].run = exec[e].run /\ exec'[e].err
        /\ exec'[e].completed = exec[e].completed /\ exec'[e].failed = exec[e].failed
        /\ exec[e].pc = "wait" /\ exec'[e].cancelled
        /\ UNCHANGED <<stage, disk, done, deps, excused>>
    BY <1>0, <1>3 DEF Interrupted, ExecSet, engine, flow
  <2>2. Running(e)' = Running(e)
    BY <2>1 DEF Running
  <2>3. Recorded(exec[e].run, "completed")' = Recorded(exec[e].run, "completed")
    BY <2>1 DEF Recorded
  <2>4. Honest(exec[e].run)' /\ Underway(e)' /\ Accounted(e)'
    BY <1>0, <2>1, <2>2, <2>3 DEF Sound, Honest, Underway, Accounted
  <2>5. Fresh(e)' /\ Ended(e)'
    BY <1>0, <2>1, <2>2 DEF Sound, Fresh, Ended
  <2>6. Honest(disk)'
    BY <1>0, <2>1 DEF Honest, Recorded
  <2> QED BY <2>4, <2>5, <2>6 DEF Sound
<1>4. CASE Finalize(e)
  <2>1. /\ exec[e].pc = "final" /\ exec'[e].pc = "leave"
        /\ exec'[e].run.status = IF exec[e].err THEN "failed" ELSE "completed"
        /\ exec'[e].run.steps = exec[e].run.steps
        /\ exec'[e].completed = exec[e].completed /\ exec'[e].failed = exec[e].failed
        /\ exec'[e].err = exec[e].err /\ exec'[e].cancelled = exec[e].cancelled
        /\ UNCHANGED <<stage, done, deps, excused>>
    BY <1>0, <1>4 DEF Finalize, ExecSet, RecordSet, engine, flow
  <2>2. Running(e)' = Running(e)
    BY <2>1 DEF Running
  <2>3. Recorded(exec[e].run, "completed")' = Recorded(exec[e].run, "completed")
    BY <2>1 DEF Recorded
  <2>4. Honest(exec[e].run)'
    <3>1. CASE exec[e].err
      BY <1>0, <2>1, <2>3, <3>1 DEF Sound, Honest
    <3>2. CASE ~exec[e].err
      <4>1. \A s \in Step : s \in exec[e].completed \/ s \in exec[e].failed
        BY <1>0, <2>1, <3>2 DEF Sound, Ended
      <4>2. exec[e].failed \subseteq excused /\ exec[e].completed = Recorded(exec[e].run, "completed")
        BY <1>0, <2>1, <3>2 DEF Sound, Accounted
      <4>3. \A s \in Step : exec[e].run.steps[s] = "completed" \/ s \in excused
        BY <4>1, <4>2 DEF Recorded
      <4> QED BY <1>0, <2>1, <2>3, <4>3 DEF Sound, Honest
    <3> QED BY <3>1, <3>2
  <2>5. Fresh(e)' /\ Underway(e)' /\ Accounted(e)' /\ Ended(e)'
    BY <1>0, <2>1, <2>2, <2>3 DEF Sound, Fresh, Underway, Accounted, Ended
  <2>6. Honest(disk)'
    BY <1>0, <1>4, <2>1, <2>4, HonestDisk DEF Finalize
  <2> QED BY <2>4, <2>5, <2>6 DEF Sound
<1>5. CASE Leave(e)
  <2>1. UNCHANGED <<stage, disk, done, deps, excused>> /\ exec[e].pc = "leave"
    BY <1>5 DEF Leave, engine, flow
  <2>2. Honest(disk)'
    BY <1>0, <2>1 DEF Honest, Recorded
  <2>3. CASE Running(e) = {}
    <3>1. exec'[e] = [Unused EXCEPT !.pc = "over"]
      BY <1>0, <1>5, <2>3 DEF Leave
    <3>2. \A s \in Step : stage'[e][s] = "none"
      BY <2>1, <2>3 DEF Running
    <3> QED BY <2>2, <3>1, <3>2, Blank DEF Unused
  <2>4. CASE Running(e) # {}
    <3>1. exec'[e] = [exec[e] EXCEPT !.pc = "over"]
      BY <1>0, <1>5, <2>4 DEF Leave
    <3>2. /\ exec'[e].pc = "over" /\ exec'[e].run = exec[e].run
          /\ exec'[e].completed = exec[e].completed /\ exec'[e].failed = exec[e].failed
          /\ exec'[e].err = exec[e].err /\ exec'[e].cancelled = exec[e].cancelled
      BY <1>0, <3>1 DEF ExecSet
    <3>3. Running(e)' = Running(e)
      BY <2>1 DEF Running
    <3>4. Recorded(exec[e].run, "completed")' = Recorded(exec[e].run, "completed")
      BY <3>2 DEF Recorded
    <3>5. Honest(exec[e].run)' /\ Underway(e)' /\ Accounted(e)'
      BY <1>0, <2>1, <3>2, <3>3, <3>4 DEF Sound, Honest, Underway, Accounted
    <3>6. Fresh(e)' /\ Ended(e)'
      BY <1>0, <2>1, <3>2, <3>3 DEF Sound, Fresh, Ended
    <3> QED BY <2>2, <3>5, <3>6 DEF Sound
  <2> QED BY <2>3, <2>4
<1>6. ASSUME NEW s \in Step, Receive(e, s) PROVE Sound(e)' /\ Honest(disk)'
  <2> DEFINE ok == stage[e][s] = "well"
  <2>1. /\ exec[e].pc = "wait" /\ exec'[e].pc = "loop"
        /\ exec'[e].run.status = exec[e].run.status
        /\ \A u \in Step : exec'[e].run.steps[u] =
              IF u = s THEN (IF ok THEN "completed" ELSE "failed") ELSE exec[e].run.steps[u]
        /\ exec'[e].completed = IF ok THEN exec[e].completed \cup {s} ELSE exec[e].completed
        /\ exec'[e].err = (exec[e].err \/ ~ok)
        /\ ok => exec'[e].failed = exec[e].failed
    BY <1>0, <1>6 DEF Receive, Noted, ExecSet, RecordSet
  <2>2. UNCHANGED <<done, deps, excused>>
    BY <1>6 DEF Receive, engine, flow
  <2>3. s \in Running(e) /\ \A u \in Step : stage'[e][u] = IF u = s THEN "none" ELSE stage[e][u]
    BY <1>0, <1>6 DEF Receive, Running
  <2>4. Running(e)' = Running(e) \ {s}
    BY <2>3 DEF Running
  <2>5. s \notin exec[e].completed \cup exec[e].failed /\ (ok => s \in done)
    BY <1>0, <2>3 DEF Sound, Underway
  <2>6. exec[e].run.status # "completed"
    BY <1>0, <2>1 DEF Sound, Ended
  <2>7. exec[e].completed = Recorded(exec[e].run, "completed")
    BY <1>0, <2>1 DEF Sound, Accounted
  <2>8. Recorded(exec[e].run, "completed")' = exec'[e].completed
    <3>1. CASE ok
      BY <2>1, <2>7, <3>1 DEF Recorded
    <3>2. CASE ~ok
      BY <2>1, <2>5, <2>7, <3>2 DEF Recorded
    <3> QED BY <3>1, <3>2
  <2>9. exec'[e].completed \subseteq done
    BY <1>0, <2>1, <2>5, <2>7 DEF Sound, Honest
  <2>10. Honest(exec[e].run)'
    BY <2>1, <2>2, <2>6, <2>8, <2>9 DEF Honest
  <2>11. exec'[e].failed \subseteq exec[e].failed \cup {s}
    BY <1>0, <1>6 DEF Receive, Noted, ExecSet
  <2>12. Underway(e)'
    <3> SUFFICES ASSUME NEW u \in Running(e)'
                 PROVE  /\ u \notin exec'[e].completed \cup exec'[e].failed
                        /\ deps'[u] \subseteq done'
                        /\ stage'[e][u] = "well" => u \in done'
      BY DEF Underway
    <3>1. u \in Running(e) /\ u # s /\ u \in Step
      BY <2>4 DEF Running
    <3>2. /\ u \notin exec[e].completed \cup exec[e].failed
          /\ deps[u] \subseteq done
          /\ stage[e][u] = "well" => u \in done
      BY <1>0, <3>1 DEF Sound, Underway
    <3> QED BY <2>1, <2>2, <2>3, <2>11, <3>1, <3>2
  <2>13. Accounted(e)'
    BY <1>0, <2>1, <2>2, <2>8 DEF Sound, Accounted
  <2>14. Fresh(e)' /\ Ended(e)'
    BY <2>1, <2>6 DEF Fresh, Ended
  <2>15. Honest(disk)'
    BY <1>0, <1>6, <2>2, <2>10, HonestDisk DEF Receive
  <2> QED BY <2>10, <2>12, <2>13, <2>14, <2>15 DEF Sound
<1>7. ASSUME NEW s \in Step, BeginStep(e, s) PROVE Sound(e)' /\ Honest(disk)'
  <2>1. /\ exec'[e].pc = exec[e].pc
        /\ exec'[e].run.status = exec[e].run.status
        /\ \A u \in Step : exec'[e].run.steps[u] = IF u = s THEN "running" ELSE exec[e].run.steps[u]
        /\ exec'[e].completed = exec[e].completed /\ exec'[e].failed = exec[e].failed
        /\ exec'[e].err = exec[e].err /\ exec'[e].cancelled = exec[e].cancelled
    BY <1>0, <1>7 DEF BeginStep, ExecSet, RecordSet
  <2>2. UNCHANGED <<done, deps, excused>>
    BY <1>7 DEF BeginStep, engine, flow
  <2>3. s \in Running(e) /\ \A u \in Step : stage'[e][u] = IF u = s THEN "working" ELSE stage[e][u]
    BY <1>0, <1>7 DEF BeginStep, Running
  <2>4. Running(e)' = Running(e)
    BY <2>3 DEF Running
  <2>5. exec[e].pc # "start" /\ exec[e].run.status # "completed"
    BY <1>0, <2>3 DEF Sound, Fresh, Ended
  <2>6. exec[e].completed = Recorded(exec[e].run, "completed") /\ s \notin exec[e].completed
    BY <1>0, <2>3, <2>5 DEF Sound, Accounted, Underway
  <2>7. Recorded(exec[e].run, "completed")' = exec[e].completed
    BY <2>1, <2>6 DEF Recorded
  <2>8. Honest(exec[e].run)'
    BY <1>0, <2>1, <2>2, <2>5, <2>6, <2>7 DEF Sound, Honest
  <2>9. Underway(e)'
    BY <1>0, <2>1, <2>2, <2>3, <2>4 DEF Sound, Underway, Running
  <2>10. Accounted(e)' /\ Fresh(e)' /\ Ended(e)'
    BY <1>0, <2>1, <2>2, <2>4, <2>7, <2>6 DEF Sound, Accounted, Fresh, Ended
  <2>11. Honest(disk)'
    BY <1>0, <1>7, <2>2, <2>8, HonestDisk DEF BeginStep
  <2> QED BY <2>8, <2>9, <2>10, <2>11 DEF Sound
<1>8. ASSUME NEW s \in Step, EndWell(e, s) \/ EndBadly(e, s) PROVE Sound(e)' /\ Honest(disk)'
  <2>1. UNCHANGED <<exec, disk, deps, excused>> /\ done \subseteq done' /\ s \in Running(e)
    BY <1>8 DEF EndWell, EndBadly, engine, flow, Running
  <2>2. \A u \in Step : u # s => stage'[e][u] = stage[e][u]
    BY <1>0, <1>8 DEF EndWell, EndBadly
  <2>3. stage'[e][s] # "none" /\ (stage'[e][s] = "well" => s \in done')
    BY <1>0, <1>8 DEF EndWell, EndBadly
  <2>4. Running(e)' = Running(e)
    BY <2>1, <2>2, <2>3 DEF Running
  <2>5. Underway(e)'
    BY <1>0, <2>1, <2>2, <2>3, <2>4 DEF Sound, Underway, Running
  <2>6. Recorded(exec[e].run, "completed")' = Recorded(exec[e].run, "completed")
    BY <2>1 DEF Recorded
  <2>7. Honest(exec[e].run)' /\ Accounted(e)' /\ Fresh(e)' /\ Ended(e)'
    BY <1>0, <2>1, <2>4, <2>6 DEF Sound, Honest, Accounted, Fresh, Ended
  <2>8. Honest(disk)'
    BY <1>0, <2>1 DEF Honest, Recorded
  <2> QED BY <2>5, <2>7, <2>8 DEF Sound
<1> QED BY <1>1, <1>2, <1>3, <1>4, <1>5, <1>6, <1>7, <1>8 DEF Loop, Work

-----------------------------------------------------------------------------
(* The invariant *)

\* Initially nothing runs.
LEMMA InitInv == Init => IInv
<1> SUFFICES ASSUME Init PROVE IInv
  OBVIOUS
<1>1. TypeOK
  <2>1. exec \in [Exec -> ExecSet] /\ \A e \in Exec : exec[e].completed \cap exec[e].failed = {}
    BY RecordTypes DEF Init
  <2>2. disk \in RecordSet({"none", "running", "completed", "failed", "torn", "deleted"})
    BY DEF Init, NoRecord, Record, NoSteps, RecordSet, StepStatus
  <2>3. resume \in [at : {"idle", "list", "start"}, run : RecordSet({"none", "running"})]
    BY RecordTypes DEF Init, NoResume
  <2>4. faults \in 0..MaxFaults[deps] /\ owner \in 0..MaxExecs
    BY FlowAssumption DEF Init
  <2> QED BY <2>1, <2>2, <2>3, <2>4 DEF Init, TypeOK
<1>2. Recorded(NoRecord, "completed") = {} /\ NoRecord.status = "none"
  BY DEF Recorded, NoRecord, Record, NoSteps
<1>3. Honest(disk) /\ Recorded(resume.run, "completed") \subseteq done
  BY <1>2 DEF Init, Honest, NoResume
<1>4. ASSUME NEW e \in Exec PROVE Sound(e)
  <2>1. Running(e) = {} /\ exec[e] = Unused
    BY DEF Init, Running
  <2> QED BY <1>2, <2>1 DEF Unused, Sound, Honest, Fresh, Underway, Accounted, Ended
<1> QED BY <1>1, <1>3, <1>4 DEF IInv

\* Every step of the engine keeps the invariant.
LEMMA NextInv == IInv /\ [Next]_vars => IInv'
<1> SUFFICES ASSUME IInv, [Next]_vars PROVE IInv'
  OBVIOUS
<1>0. TypeOK /\ TypeOK' /\ Honest(disk) /\ Recorded(resume.run, "completed") \subseteq done
  BY TypeStep DEF IInv
<1>1. ASSUME UNCHANGED <<exec, stage, deps, done, excused>> PROVE \A e \in Exec : Sound(e)'
  BY <1>1, Frame DEF IInv
<1>2. ASSUME UNCHANGED <<disk, done, excused>> PROVE Honest(disk)'
  BY <1>0, <1>2 DEF Honest, Recorded
<1>3. ASSUME UNCHANGED <<resume, done>> PROVE Recorded(resume.run, "completed")' \subseteq done'
  BY <1>0, <1>3 DEF Recorded
<1>4. ASSUME resume' = NoResume PROVE Recorded(resume.run, "completed")' \subseteq done'
  BY <1>4 DEF NoResume, Recorded, NoRecord, Record, NoSteps
<1>5. ASSUME NEW status, disk' = Record(status, NoSteps), status # "completed" PROVE Honest(disk)'
  BY <1>5 DEF Honest, Record, NoSteps, Recorded
<1>6. CASE TriggerCreate
  BY <1>0, <1>1, <1>3, <1>5, <1>6 DEF TriggerCreate, IInv, flow, volatile
<1>7. CASE TriggerStart
  <2>1. UNCHANGED <<disk, stage, resume, deps, done, excused>>
    BY <1>7 DEF TriggerStart, flow
  <2>2. /\ Record("running", NoSteps).status # "completed"
        /\ Recorded(Record("running", NoSteps), "completed") \subseteq done
    BY DEF Record, NoSteps, Recorded
  <2>3. \A e \in Exec : Sound(e)'
    BY <1>7, <2>1, <2>2, Launched DEF TriggerStart
  <2> QED BY <1>0, <1>2, <1>3, <2>1, <2>3 DEF IInv
<1>8. CASE Elect
  <2>1. resume'.run = NoRecord
    BY <1>8 DEF Elect, NoResume
  <2>2. Recorded(resume.run, "completed")' \subseteq done'
    BY <2>1 DEF Recorded, NoRecord, Record, NoSteps
  <2> QED BY <1>0, <1>1, <1>2, <1>8, <2>2 DEF Elect, IInv, flow
<1>9. CASE Depose
  BY <1>0, <1>1, <1>2, <1>3, <1>9 DEF Depose, IInv, flow
<1>10. CASE ResumeList
  <2>1. Recorded(resume.run, "completed")' \subseteq done'
    <3>1. CASE disk.status = "running"
      BY <1>0, <1>10, <3>1 DEF ResumeList, Honest, Recorded
    <3>2. CASE disk.status # "running"
      BY <1>4, <1>10, <3>2 DEF ResumeList
    <3> QED BY <3>1, <3>2
  <2> QED BY <1>0, <1>1, <1>2, <1>10, <2>1 DEF ResumeList, IInv, flow
<1>11. CASE ResumeStart
  <2>1. UNCHANGED <<disk, stage, deps, done, excused>> /\ resume' = NoResume
    BY <1>11 DEF ResumeStart, flow
  <2>2. resume.run.status # "completed"
    BY <1>0 DEF TypeOK, RecordSet
  <2>3. \A e \in Exec : Sound(e)'
    BY <1>0, <1>11, <2>1, <2>2, Launched DEF ResumeStart
  <2> QED BY <1>0, <1>2, <1>4, <2>1, <2>3 DEF IInv
<1>12. CASE ResumeOrphan
  <2>1. /\ disk' = disk \/ disk' = [resume.run EXCEPT !.status = "failed"]
        /\ UNCHANGED <<exec, stage, deps, done, excused>> /\ resume' = NoResume
    BY <1>12 DEF ResumeOrphan, UpdateRun, flow
  <2>2. Honest(disk)'
    <3>1. CASE disk' = disk
      BY <1>2, <2>1, <3>1
    <3>2. CASE disk' = [resume.run EXCEPT !.status = "failed"]
      <4>1. disk'.status = "failed" /\ disk'.steps = resume.run.steps
        BY <1>0, <3>2 DEF TypeOK, RecordSet
      <4> QED BY <1>0, <2>1, <4>1 DEF Honest, Recorded
    <3> QED BY <2>1, <3>1, <3>2
  <2> QED BY <1>0, <1>1, <1>4, <2>1, <2>2 DEF IInv
<1>13. CASE DeleteFlow
  BY <1>0, <1>1, <1>2, <1>3, <1>13 DEF DeleteFlow, IInv, volatile
<1>14. CASE DeleteRun
  BY <1>0, <1>1, <1>3, <1>5, <1>14 DEF DeleteRun, IInv, flow, volatile
<1>15. CASE Stop
  <2>1. UNCHANGED <<stage, deps, done, excused, resume>>
    BY <1>15 DEF Stop, flow
  <2>2. CASE owner = 0
    BY <1>0, <1>1, <1>2, <1>3, <1>15, <2>1, <2>2 DEF Stop, IInv
  <2>3. CASE owner # 0
    <3>1. owner \in Exec /\ exec[owner] \in ExecSet /\ Sound(owner)
      BY <1>0, <2>3 DEF TypeOK, Exec, IInv
    <3>2. exec' = [exec EXCEPT ![owner] =
                      [exec[owner] EXCEPT !.cancelled = TRUE, !.run.status = "failed"]]
          /\ UpdateRun(exec'[owner].run)
      BY <1>15, <2>3 DEF Stop
    <3>3. /\ exec'[owner].pc = exec[owner].pc /\ exec'[owner].cancelled
          /\ exec'[owner].run.status = "failed"
          /\ exec'[owner].run.steps = exec[owner].run.steps
          /\ exec'[owner].completed = exec[owner].completed
          /\ exec'[owner].failed = exec[owner].failed
          /\ exec'[owner].err = exec[owner].err
      BY <1>0, <3>1, <3>2 DEF TypeOK, ExecSet, RecordSet
    <3>4. \A f \in Exec : f # owner => exec'[f] = exec[f]
      BY <1>0, <3>2 DEF TypeOK
    <3>5. PICK e \in Exec : e = owner
      BY <3>1
    <3>6. Running(e)' = Running(e)
      BY <2>1 DEF Running
    <3>7. Recorded(exec[e].run, "completed")' = Recorded(exec[e].run, "completed")
      BY <3>3, <3>5 DEF Recorded
    <3>8. Honest(exec[e].run)'
      BY <2>1, <3>1, <3>3, <3>5, <3>7 DEF Sound, Honest
    <3>9. Fresh(e)' /\ Underway(e)' /\ Accounted(e)' /\ Ended(e)'
      BY <2>1, <3>1, <3>3, <3>5, <3>6, <3>7 DEF Sound, Fresh, Underway, Accounted, Ended
    <3>10. Sound(e)'
      BY <3>8, <3>9 DEF Sound
    <3>11. ASSUME NEW f \in Exec, f # e PROVE Sound(f)'
      BY <2>1, <3>4, <3>5, <3>11, Frame DEF IInv
    <3>12. Honest(disk)'
      BY <1>0, <2>1, <3>2, <3>5, <3>8, HonestDisk
    <3> QED BY <1>0, <1>3, <2>1, <3>10, <3>11, <3>12 DEF IInv
  <2> QED BY <2>2, <2>3
<1>16. ASSUME Die, Honest(disk)' PROVE IInv'
  <2>1. resume' = NoResume
    BY <1>16 DEF Die
  <2>2. ASSUME NEW e \in Exec PROVE Sound(e)'
    BY <1>16, Blank DEF Die, Unused
  <2> QED BY <1>0, <1>4, <1>16, <2>1, <2>2 DEF IInv
<1>17. CASE Exit
  BY <1>2, <1>16, <1>17 DEF Exit, Die
<1>18. CASE Crash
  BY <1>2, <1>16, <1>18 DEF Crash, Die
<1>19. CASE CrashInWrite
  BY <1>5, <1>16, <1>19 DEF CrashInWrite
<1>20. CASE Restart
  BY <1>0, <1>1, <1>2, <1>3, <1>20 DEF Restart, IInv, flow, volatile
<1>21. ASSUME NEW e \in Exec, Loop(e) \/ \E s \in Step : Work(e, s) PROVE IInv'
  <2>1. Sound(e)' /\ Honest(disk)'
    BY <1>21, ExecutionStep
  <2>2. /\ UNCHANGED <<deps, resume>> /\ done \subseteq done' /\ excused \subseteq excused'
        /\ \A f \in Exec : f # e => exec'[f] = exec[f] /\ stage'[f] = stage[f]
    BY <1>0, <1>21
    DEF TypeOK, Loop, Work, Start, Dispatch, Interrupted, Finalize, Leave, Receive,
        BeginStep, EndWell, EndBadly, engine, flow
  <2>3. ASSUME NEW f \in Exec, f # e PROVE Sound(f)'
    BY <2>2, <2>3, Frame DEF IInv
  <2>4. Recorded(resume.run, "completed")' \subseteq done'
    BY <1>0, <2>2 DEF Recorded
  <2> QED BY <1>0, <2>1, <2>3, <2>4 DEF IInv
<1>22. CASE UNCHANGED vars
  BY <1>0, <1>1, <1>2, <1>3, <1>22 DEF vars, IInv, flow, volatile
<1> QED
  BY <1>6, <1>7, <1>8, <1>9, <1>10, <1>11, <1>12, <1>13, <1>14, <1>15, <1>17, <1>18,
     <1>19, <1>20, <1>21, <1>22 DEF Next, Progress, Resume

\* The state of every flow and every bound is well typed, and no step is both
\* completed and failed for one execution.
THEOREM FlowTypeCorrect == Spec => []TypeOK
<1>1. IInv => TypeOK
  BY DEF IInv
<1> QED BY <1>1, InitInv, NextInv, PTL DEF Spec

\* In every flow a step works only after its dependencies ended well, over
\* any number of crashes, resumptions and executions side by side.
THEOREM DependenciesAlwaysFirst == Spec => []DependenciesFirst
<1>1. IInv => DependenciesFirst
  BY DEF IInv, Sound, Underway, Running, DependenciesFirst
<1> QED BY <1>1, InitInv, NextInv, PTL DEF Spec

\* A run is recorded as completed only with every step completed, but for the
\* steps whose failure a resumption has forgotten.
THEOREM CompletedAlwaysWhole == Spec => []CompletedIsWhole
<1>1. IInv => CompletedIsWhole
  BY DEF IInv, Honest, CompletedIsWhole
<1> QED BY <1>1, InitInv, NextInv, PTL DEF Spec

\* A coordination loop that was not cancelled leaves no step behind.
THEOREM NoStepEverOutlivesItsRun == Spec => []NoStepOutlivesItsRun
<1>1. IInv => NoStepOutlivesItsRun
  BY DEF IInv, Sound, Ended, NoStepOutlivesItsRun
<1> QED BY <1>1, InitInv, NextInv, PTL DEF Spec

-----------------------------------------------------------------------------
(* One execution at a time: no step that completed is begun again *)

\* Nothing of the execution goes on.
Idle(e) == ~Alive(e) /\ Running(e) = {}

\* Before the trigger there is nothing to execute or to resume.
Untriggered ==
    trigger = "no" =>
        disk.status = "none" /\ resume.at # "start" /\ \A e \in Exec : Idle(e)

\* The entries of a run are those of an execution that goes on.
OwnerAlive == owner # 0 => Alive(owner)

\* The record of an execution that was cancelled is not that of a running one.
CancelledIsRecorded == \A e \in Exec : exec[e].cancelled => exec[e].run.status # "running"

\* A new execution, which a trigger or a resumption has announced, is alone, and its
\* record has what the disk has as completed.
LaunchedAlone ==
    /\ trigger = "created" =>
         resume.at # "start" /\ (\A e \in Exec : Idle(e)) /\ Recorded(disk, "completed") = {}
    /\ resume.at = "start" =>
         /\ \A e \in Exec : Idle(e)
         /\ Recorded(disk, "completed") \subseteq Recorded(resume.run, "completed")

\* One execution goes on, whose record has what the disk has as completed, and which
\* a resumption no longer finds once it is cancelled.
OneGoesOn ==
    /\ \A e, f \in Exec : e # f => Idle(e) \/ Idle(f)
    /\ \A e \in Exec : ~Idle(e) =>
         /\ Recorded(disk, "completed") \subseteq Recorded(exec[e].run, "completed")
         /\ exec[e].cancelled => disk.status # "running"

\* What holds while no life of the agent has had two executions at once.
AloneInv ==
    /\ Untriggered /\ OwnerAlive /\ CancelledIsRecorded
    /\ ~overlap => LaunchedAlone /\ OneGoesOn

\* Initially no execution is there.
LEMMA InitAlone == Init => AloneInv
<1> SUFFICES ASSUME Init PROVE AloneInv
  OBVIOUS
<1>1. \A e \in Exec : Idle(e) /\ exec[e].cancelled = FALSE
  BY DEF Init, Idle, Alive, Running, Unused
<1>2. disk.status = "none" /\ resume.at = "idle" /\ trigger = "no" /\ owner = 0
  BY DEF Init, NoRecord, Record, NoResume
<1> QED BY <1>1, <1>2 DEF AloneInv, Untriggered, OwnerAlive, CancelledIsRecorded, LaunchedAlone,
    OneGoesOn

\* What an execution is at depends on it alone.
LEMMA SameIdle ==
    ASSUME NEW e \in Exec, exec'[e] = exec[e], stage'[e] = stage[e]
    PROVE  (Idle(e)' <=> Idle(e)) /\ (Alive(e)' <=> Alive(e))
BY DEF Idle, Alive, Running

\* The record that a trigger or a loss leaves has no step.
LEMMA RecordedNothing ==
    ASSUME NEW status PROVE Recorded(Record(status, NoSteps), "completed") = {}
BY DEF Recorded, Record, NoSteps

\* A record that an idle engine is about to execute is the only one it executes.
LEMMA LaunchAlone ==
    ASSUME IInv, AloneInv, NEW e \in Exec, NEW run, Launch(e, run),
           UNCHANGED <<disk, stage, overlap>>, trigger' # "no",
           ~overlap => /\ trigger' # "created" /\ resume'.at # "start"
                       /\ \A f \in Exec : Idle(f)
                       /\ Recorded(disk, "completed") \subseteq Recorded(run, "completed")
    PROVE  AloneInv'
<1>0. exec \in [Exec -> ExecSet]
  BY DEF IInv, TypeOK
<1>1. /\ exec'[e].pc = "start" /\ exec'[e].run = run /\ exec'[e].cancelled = FALSE
      /\ \A f \in Exec : f # e => exec'[f] = exec[f]
      /\ owner' = e
  BY <1>0 DEF Launch, Unused
<1>2. Alive(e)'
  BY <1>1 DEF Alive
<1>3. CancelledIsRecorded'
  BY <1>1 DEF AloneInv, CancelledIsRecorded
<1>4. \A f \in Exec : f # e => (Idle(f)' <=> Idle(f))
  BY <1>1, SameIdle
<1>5. ASSUME ~overlap PROVE OneGoesOn'
  <2>1. \A f \in Exec : f # e => Idle(f)'
    BY <1>4, <1>5
  <2>2. Recorded(disk, "completed")' \subseteq Recorded(exec[e].run, "completed")'
    BY <1>1, <1>5 DEF Recorded
  <2> QED BY <1>1, <2>1, <2>2 DEF OneGoesOn
<1> QED BY <1>1, <1>2, <1>3, <1>5 DEF AloneInv, Untriggered, OwnerAlive, LaunchedAlone

\* What a step of one execution does to it and to the disk.
LEMMA OneStep ==
    ASSUME IInv, NEW e \in Exec, Loop(e) \/ \E s \in Step : Work(e, s)
    PROVE  /\ ~Idle(e)
           /\ exec'[e].cancelled => exec[e].cancelled
           /\ ~Idle(e)' => /\ exec'[e].cancelled = exec[e].cancelled
                           /\ Recorded(exec[e].run, "completed")
                                \subseteq Recorded(exec'[e].run, "completed")
           /\ exec[e].cancelled /\ exec[e].run.status # "running"
                => exec'[e].run.status # "running"
           /\ disk' = disk \/ disk' = exec'[e].run
           /\ owner' = 0 \/ (owner' = owner /\ (Alive(e) => Alive(e)'))
<1>0. /\ exec \in [Exec -> ExecSet] /\ exec[e] \in ExecSet
      /\ stage \in [Exec -> [Step -> {"none", "dispatched", "working", "well", "badly"}]]
      /\ Sound(e)
  BY DEF IInv, TypeOK
<1>1. CASE Start(e) \/ Interrupted(e)
  <2>1. /\ exec'[e].run = exec[e].run /\ exec'[e].cancelled = exec[e].cancelled
        /\ exec[e].pc \in {"start", "wait"} /\ exec'[e].pc \in {"loop", "final"}
    <3>1. CASE Start(e)
      BY <1>0, <3>1 DEF Start, ExecSet
    <3>2. CASE Interrupted(e)
      BY <1>0, <3>2 DEF Interrupted, ExecSet
    <3> QED BY <1>1, <3>1, <3>2
  <2>2. Alive(e) /\ Alive(e)' /\ UNCHANGED <<disk, owner>>
    BY <1>1, <2>1 DEF Start, Interrupted, Alive
  <2> QED BY <2>1, <2>2 DEF Idle
<1>2. CASE Dispatch(e)
  <2>1. /\ exec'[e] = Turned(e) /\ UNCHANGED <<disk, owner>> /\ exec[e].pc = "loop"
    BY <1>0, <1>2 DEF Dispatch
  <2>2. /\ exec'[e].cancelled = exec[e].cancelled /\ exec'[e].pc \in {"final", "wait"}
        /\ exec'[e].run.status = exec[e].run.status
        /\ exec'[e].run.steps = [s \in Step |-> IF s \in Cascaded(e) THEN "failed"
                                                ELSE exec[e].run.steps[s]]
    BY <1>0, <2>1 DEF Turned, ExecSet, RecordSet
  <2>3. Cascaded(e) \cap exec[e].completed = {}
    BY DEF Cascaded, Reachable
  <2>4. exec[e].completed = Recorded(exec[e].run, "completed")
    BY <1>0, <2>1 DEF Sound, Accounted
  <2>5. Recorded(exec[e].run, "completed") \subseteq Recorded(exec'[e].run, "completed")
    BY <2>2, <2>3, <2>4 DEF Recorded
  <2> QED BY <2>1, <2>2, <2>5 DEF Idle, Alive
<1>3. CASE Finalize(e)
  <2>1. /\ exec[e].pc = "final" /\ exec'[e].pc = "leave" /\ owner' = owner
        /\ exec'[e].cancelled = exec[e].cancelled
        /\ exec'[e].run.status \in {"failed", "completed"}
        /\ exec'[e].run.steps = exec[e].run.steps
        /\ disk' = disk \/ disk' = exec'[e].run
    BY <1>0, <1>3 DEF Finalize, UpdateRun, ExecSet, RecordSet
  <2> QED BY <2>1 DEF Idle, Alive, Recorded
<1>4. CASE Leave(e)
  <2>1. exec[e].pc = "leave" /\ owner' = 0 /\ disk' = disk /\ stage' = stage
    BY <1>4 DEF Leave
  <2>2. CASE Running(e) = {}
    <3>1. exec'[e] = [Unused EXCEPT !.pc = "over"]
      BY <1>0, <1>4, <2>2 DEF Leave
    <3>2. exec'[e].cancelled = FALSE /\ exec'[e].run.status = "none" /\ exec'[e].pc = "over"
      BY <3>1 DEF Unused, NoRecord, Record
    <3>3. Idle(e)'
      BY <2>1, <2>2, <3>2 DEF Idle, Alive, Running
    <3> QED BY <2>1, <3>2, <3>3 DEF Idle, Alive
  <2>3. CASE Running(e) # {}
    <3>1. exec'[e].cancelled = exec[e].cancelled /\ exec'[e].run = exec[e].run
      BY <1>0, <1>4, <2>3 DEF Leave, ExecSet
    <3> QED BY <2>1, <3>1 DEF Idle, Alive
  <2> QED BY <2>2, <2>3
<1>5. ASSUME NEW s \in Step, Receive(e, s) \/ BeginStep(e, s) PROVE
           /\ ~Idle(e)
           /\ exec'[e].cancelled = exec[e].cancelled
           /\ Recorded(exec[e].run, "completed") \subseteq Recorded(exec'[e].run, "completed")
           /\ exec'[e].run.status = exec[e].run.status
           /\ disk' = disk \/ disk' = exec'[e].run
           /\ owner' = owner /\ (Alive(e) => Alive(e)')
  <2>1. s \in Running(e)
    BY <1>5 DEF Receive, BeginStep, Running
  <2>2. s \notin Recorded(exec[e].run, "completed")
    BY <1>0, <2>1 DEF Sound, Fresh, Underway, Accounted
  <2>3. /\ exec'[e].cancelled = exec[e].cancelled
        /\ exec'[e].run.status = exec[e].run.status
        /\ \A u \in Step : u # s => exec'[e].run.steps[u] = exec[e].run.steps[u]
        /\ Alive(e) => Alive(e)'
    <3>1. CASE Receive(e, s)
      <4>1. exec'[e] = Noted(e, s)
        BY <1>0, <3>1 DEF Receive
      <4> QED BY <1>0, <4>1 DEF Noted, ExecSet, RecordSet, Alive
    <3>2. CASE BeginStep(e, s)
      <4>1. exec'[e] = [exec[e] EXCEPT !.run.steps[s] = "running"]
        BY <1>0, <3>2 DEF BeginStep
      <4> QED BY <1>0, <4>1 DEF ExecSet, RecordSet, Alive
    <3> QED BY <1>5, <3>1, <3>2
  <2>4. owner' = owner /\ (disk' = disk \/ disk' = exec'[e].run)
    BY <1>5 DEF Receive, BeginStep, UpdateRun
  <2> QED BY <2>1, <2>2, <2>3, <2>4 DEF Idle, Recorded
<1>6. ASSUME NEW s \in Step, EndWell(e, s) \/ EndBadly(e, s) PROVE
           ~Idle(e) /\ UNCHANGED <<exec, disk, owner>> /\ (Alive(e) => Alive(e)')
  BY <1>6 DEF EndWell, EndBadly, Idle, Running, Alive
<1> QED BY <1>1, <1>2, <1>3, <1>4, <1>5, <1>6 DEF Loop, Work

\* A step of the one execution that goes on.
LEMMA OneStepAlone ==
    ASSUME IInv, AloneInv, NEW e \in Exec, Loop(e) \/ \E s \in Step : Work(e, s)
    PROVE  AloneInv'
<1>0. /\ UNCHANGED <<trigger, resume, overlap>>
      /\ \A f \in Exec : f # e => exec'[f] = exec[f] /\ stage'[f] = stage[f]
  <2>1. TypeOK
    BY DEF IInv
  <2> QED BY <2>1 DEF TypeOK, Loop, Work, Start, Dispatch, Interrupted, Finalize, Leave, Receive,
          BeginStep, EndWell, EndBadly, engine
<1>1. ~Idle(e)
  BY OneStep
<1>2. \A f \in Exec : f # e => (Idle(f)' <=> Idle(f)) /\ (Alive(f)' <=> Alive(f))
  BY <1>0, SameIdle
<1>3. Untriggered'
  BY <1>0, <1>1 DEF AloneInv, Untriggered
<1>4. OwnerAlive'
  <2>1. CASE owner' = 0
    BY <2>1 DEF OwnerAlive
  <2>2. CASE owner' = owner /\ (Alive(e) => Alive(e)')
    <3>1. owner # 0 => owner \in Exec
      BY DEF IInv, TypeOK, Exec
    <3>2. ASSUME NEW f \in Exec, owner = f, Alive(f) PROVE Alive(f)'
      BY <1>2, <2>2, <3>2
    <3>3. ASSUME owner # 0 PROVE Alive(owner)'
      <4>1. PICK f \in Exec : f = owner
        BY <3>1, <3>3
      <4> QED BY <2>2, <3>2, <3>3, <4>1 DEF AloneInv, OwnerAlive
    <3> QED BY <2>2, <3>3 DEF OwnerAlive, Alive
  <2> QED BY <2>1, <2>2, OneStep
<1>5. CancelledIsRecorded'
  BY <1>0, OneStep DEF AloneInv, CancelledIsRecorded
<1>6. ASSUME ~overlap PROVE LaunchedAlone' /\ OneGoesOn'
  <2>1. LaunchedAlone /\ OneGoesOn
    BY <1>6 DEF AloneInv
  <2>2. LaunchedAlone'
    BY <1>0, <1>1, <2>1 DEF LaunchedAlone
  <2>3. \A f \in Exec : f # e => Idle(f)'
    BY <1>1, <1>2, <2>1 DEF OneGoesOn
  <2>4. ASSUME ~Idle(e)'
        PROVE  /\ Recorded(disk', "completed") \subseteq Recorded(exec'[e].run, "completed")
               /\ exec'[e].cancelled => disk'.status # "running"
    <3>1. /\ exec'[e].cancelled = exec[e].cancelled
          /\ Recorded(exec[e].run, "completed") \subseteq Recorded(exec'[e].run, "completed")
          /\ disk' = disk \/ disk' = exec'[e].run
      BY <2>4, OneStep
    <3>2. exec'[e].cancelled => exec'[e].run.status # "running"
      BY <1>5 DEF CancelledIsRecorded
    <3>3. /\ Recorded(disk, "completed") \subseteq Recorded(exec[e].run, "completed")
          /\ exec[e].cancelled => disk.status # "running"
      BY <1>1, <2>1 DEF OneGoesOn
    <3> QED BY <3>1, <3>2, <3>3
  <2>5. Recorded(disk, "completed")' = Recorded(disk', "completed")
        /\ Recorded(exec[e].run, "completed")' = Recorded(exec'[e].run, "completed")
    BY DEF Recorded
  <2>6. OneGoesOn'
    BY <2>3, <2>4, <2>5 DEF OneGoesOn
  <2> QED BY <2>2, <2>6
<1> QED BY <1>0, <1>3, <1>4, <1>5, <1>6 DEF AloneInv

\* The whole process ends: nothing goes on.
LEMMA DieAlone ==
    ASSUME TypeOK, Die PROVE (trigger # "no" \/ disk'.status = "none") => AloneInv'
<1>1. \A e \in Exec : Idle(e)' /\ exec'[e].cancelled = FALSE
  BY DEF Die, Idle, Alive, Running, Unused
<1>2. /\ resume'.at = "idle" /\ owner' = 0 /\ trigger' # "created"
      /\ trigger' = "no" => trigger = "no"
  BY DEF Die, NoResume
<1> QED BY <1>1, <1>2 DEF AloneInv, Untriggered, OwnerAlive, CancelledIsRecorded, LaunchedAlone,
    OneGoesOn

\* An action that leaves the executions and the disk alone.
LEMMA QuietAlone ==
    ASSUME AloneInv, UNCHANGED <<disk, exec, stage, owner, trigger, overlap>>,
           resume' = resume \/ resume'.at # "start"
    PROVE  AloneInv'
<1>1. \A e \in Exec : (Idle(e)' <=> Idle(e)) /\ (Alive(e)' <=> Alive(e))
  BY SameIdle
<1>2. \A run : Recorded(run, "completed")' = Recorded(run', "completed")
  BY DEF Recorded
<1>3. OwnerAlive'
  BY DEF AloneInv, OwnerAlive, Alive
<1>4. Untriggered' /\ CancelledIsRecorded'
  BY <1>1 DEF AloneInv, Untriggered, CancelledIsRecorded
<1>5. ASSUME ~overlap PROVE LaunchedAlone' /\ OneGoesOn'
  BY <1>1, <1>5 DEF AloneInv, LaunchedAlone, OneGoesOn, Recorded
<1> QED BY <1>3, <1>4, <1>5 DEF AloneInv

\* Engine.Stop cancels the execution that the entries name, which goes on.
LEMMA StopAlone == ASSUME IInv, AloneInv, Stop PROVE AloneInv'
<1>0. /\ TypeOK /\ owner' = 0 /\ UNCHANGED <<trigger, resume, stage, overlap>>
      /\ exec \in [Exec -> ExecSet] /\ (owner # 0 => owner \in Exec)
  BY DEF Stop, IInv, TypeOK, Exec
<1>1. CASE owner = 0
  BY <1>0, <1>1, QuietAlone DEF Stop
<1>2. CASE owner # 0
  <2>1. PICK e \in Exec : e = owner
    BY <1>0, <1>2
  <2>2. Alive(e)
    BY <1>2, <2>1 DEF AloneInv, OwnerAlive
  <2>3. exec' = [exec EXCEPT ![e] = [@ EXCEPT !.cancelled = TRUE, !.run.status = "failed"]]
        /\ UpdateRun(exec'[e].run)
    BY <1>2, <2>1 DEF Stop
  <2>4. /\ exec'[e].pc = exec[e].pc /\ exec'[e].run.status = "failed"
        /\ exec'[e].run.steps = exec[e].run.steps
        /\ \A f \in Exec : f # e => exec'[f] = exec[f]
        /\ (disk' = disk /\ disk.status = "deleted") \/ disk' = exec'[e].run
    BY <1>0, <2>3 DEF UpdateRun, ExecSet, RecordSet
  <2>5. ~Idle(e) /\ ~Idle(e)' /\ \A f \in Exec : Idle(f)' <=> Idle(f)
    BY <1>0, <2>2, <2>4 DEF Idle, Alive, Running
  <2>6. Untriggered'
    BY <1>0, <2>5 DEF AloneInv, Untriggered
  <2>7. CancelledIsRecorded'
    BY <2>4 DEF AloneInv, CancelledIsRecorded
  <2>8. ASSUME ~overlap PROVE LaunchedAlone' /\ OneGoesOn'
    <3>1. LaunchedAlone'
      BY <1>0, <2>5, <2>8 DEF AloneInv, LaunchedAlone
    <3>2. \A f \in Exec : f # e => Idle(f)'
      BY <2>5, <2>8 DEF AloneInv, OneGoesOn
    <3>3. disk'.status # "running"
      BY <2>4
    <3>4. Recorded(exec[e].run, "completed")' = Recorded(exec[e].run, "completed")
      BY <2>4 DEF Recorded
    <3>5. Recorded(disk, "completed") \subseteq Recorded(exec[e].run, "completed")
      BY <2>5, <2>8 DEF AloneInv, OneGoesOn
    <3>6. Recorded(disk, "completed")' \subseteq Recorded(exec[e].run, "completed")'
      BY <2>4, <3>4, <3>5 DEF Recorded
    <3> QED BY <3>1, <3>2, <3>3, <3>6 DEF OneGoesOn
  <2> QED BY <1>0, <2>6, <2>7, <2>8 DEF AloneInv, OwnerAlive
<1> QED BY <1>1, <1>2

\* Every step keeps the invariant.
LEMMA NextAlone == IInv /\ AloneInv /\ [Next]_vars => AloneInv'
<1> SUFFICES ASSUME IInv, AloneInv, [Next]_vars PROVE AloneInv'
  OBVIOUS
<1>0. TypeOK
  BY DEF IInv
<1>1. CASE TriggerCreate
  <2>1. /\ trigger = "no" /\ trigger' = "created" /\ disk' = Record("running", NoSteps)
        /\ UNCHANGED <<exec, stage, owner, resume, overlap>>
    BY <1>1 DEF TriggerCreate, volatile
  <2>2. \A e \in Exec : Idle(e)'
    BY <2>1, SameIdle DEF AloneInv, Untriggered
  <2>3. Recorded(disk, "completed")' = {}
    BY <2>1, RecordedNothing DEF Recorded
  <2>4. LaunchedAlone'
    BY <2>1, <2>2, <2>3 DEF AloneInv, Untriggered, LaunchedAlone
  <2>5. Untriggered' /\ OwnerAlive' /\ CancelledIsRecorded'
    BY <2>1 DEF AloneInv, Untriggered, OwnerAlive, CancelledIsRecorded, Alive
  <2> QED BY <2>2, <2>4, <2>5 DEF AloneInv, OneGoesOn
<1>2. CASE TriggerStart
  <2>1. PICK e \in Exec : Launch(e, Record("running", NoSteps))
    BY <1>2 DEF TriggerStart
  <2>2. /\ trigger = "created" /\ trigger' = "over" /\ UNCHANGED <<disk, stage, overlap, resume>>
    BY <1>2 DEF TriggerStart
  <2>3. ~overlap => /\ resume.at # "start"
                    /\ \A f \in Exec : Idle(f)
                    /\ Recorded(disk, "completed") = {}
    BY <2>2 DEF AloneInv, LaunchedAlone
  <2> QED BY <2>1, <2>2, <2>3, LaunchAlone
<1>3. CASE Elect
  BY <1>3, QuietAlone DEF Elect
<1>4. CASE Depose
  BY <1>4, QuietAlone DEF Depose
<1>5. CASE ResumeList
  <2>1. UNCHANGED <<disk, exec, stage, owner, trigger>>
    BY <1>5 DEF ResumeList
  <2>2. CASE disk.status # "running"
    BY <1>0, <1>5, <2>1, <2>2, QuietAlone DEF ResumeList, NoResume, TypeOK
  <2>3. CASE disk.status = "running"
    <3>1. /\ resume'.at = "start" /\ resume'.run = disk
          /\ ~overlap' => ~overlap /\ trigger # "created" /\ \A e \in Exec : ~Alive(e)
      BY <1>5, <2>3 DEF ResumeList
    <3>2. \A e \in Exec : (Idle(e)' <=> Idle(e)) /\ (Alive(e)' <=> Alive(e))
      BY <2>1, SameIdle
    <3>3. ASSUME ~overlap', NEW e \in Exec PROVE Idle(e)
      <4>1. ~Alive(e) /\ Sound(e) /\ exec[e].pc \in {"unused", "over"}
        BY <3>1, <3>3 DEF Alive, IInv
      <4>2. Running(e) # {} => exec[e].cancelled
        BY <4>1 DEF Sound, Fresh, Ended
      <4>3. ~(Running(e) # {})
        BY <2>3, <3>1, <3>3, <4>2 DEF AloneInv, OneGoesOn, Idle
      <4> QED BY <4>1, <4>3 DEF Idle
    <3>4. Untriggered' /\ CancelledIsRecorded'
      BY <2>1, <2>3, <3>1 DEF AloneInv, Untriggered, CancelledIsRecorded
    <3>5. OwnerAlive'
      BY <2>1 DEF AloneInv, OwnerAlive, Alive
    <3>6. ~overlap' => LaunchedAlone' /\ OneGoesOn'
      BY <2>1, <3>1, <3>2, <3>3 DEF LaunchedAlone, OneGoesOn, Recorded
    <3> QED BY <3>4, <3>5, <3>6 DEF AloneInv
  <2> QED BY <2>2, <2>3
<1>6. CASE ResumeStart
  <2>1. PICK e \in Exec : Launch(e, resume.run)
    BY <1>6 DEF ResumeStart
  <2>2. /\ resume.at = "start" /\ resume'.at = "idle"
        /\ UNCHANGED <<disk, stage, overlap, trigger>>
    BY <1>6 DEF ResumeStart, NoResume
  <2>3. trigger # "no"
    BY <2>2 DEF AloneInv, Untriggered
  <2>4. ~overlap => /\ trigger # "created"
                    /\ \A f \in Exec : Idle(f)
                    /\ Recorded(disk, "completed") \subseteq Recorded(resume.run, "completed")
    BY <2>2 DEF AloneInv, LaunchedAlone
  <2> QED BY <2>1, <2>2, <2>3, <2>4, LaunchAlone
<1>7. CASE ResumeOrphan
  <2>1. /\ resume.at = "start" /\ resume'.at = "idle"
        /\ UNCHANGED <<exec, stage, owner, overlap, trigger>>
        /\ trigger # "no"
    BY <1>7 DEF ResumeOrphan, NoResume, AloneInv, Untriggered
  <2>2. \A e \in Exec : (Idle(e)' <=> Idle(e)) /\ (Alive(e)' <=> Alive(e))
    BY <2>1, SameIdle
  <2>3. ~overlap => trigger # "created" /\ \A e \in Exec : Idle(e)
    BY <2>1 DEF AloneInv, LaunchedAlone
  <2>4. OwnerAlive' /\ Untriggered' /\ CancelledIsRecorded'
    BY <2>1 DEF AloneInv, OwnerAlive, Untriggered, CancelledIsRecorded, Alive
  <2> QED BY <2>1, <2>2, <2>3, <2>4 DEF AloneInv, LaunchedAlone, OneGoesOn
<1>8. CASE DeleteFlow
  BY <1>8, QuietAlone DEF DeleteFlow, volatile
<1>9. CASE DeleteRun
  <2>1. /\ disk' = Record("deleted", NoSteps) /\ disk.status # "none"
        /\ UNCHANGED <<exec, stage, owner, overlap, trigger, resume>>
    BY <1>9 DEF DeleteRun, volatile
  <2>2. \A e \in Exec : (Idle(e)' <=> Idle(e)) /\ (Alive(e)' <=> Alive(e))
    BY <2>1, SameIdle
  <2>3. Recorded(disk, "completed")' = {} /\ disk'.status = "deleted"
    BY <2>1, RecordedNothing DEF Recorded, Record
  <2>4. OwnerAlive' /\ Untriggered' /\ CancelledIsRecorded'
    BY <2>1 DEF AloneInv, OwnerAlive, Untriggered, CancelledIsRecorded, Alive
  <2>5. ~overlap => LaunchedAlone' /\ OneGoesOn'
    BY <2>1, <2>2, <2>3 DEF AloneInv, LaunchedAlone, OneGoesOn
  <2> QED BY <2>1, <2>4, <2>5 DEF AloneInv
<1>10. CASE Stop
  BY <1>10, StopAlone
<1>11. CASE Exit \/ Crash
  <2>1. Die /\ disk' = disk
    BY <1>11 DEF Exit, Crash
  <2> QED BY <1>0, <2>1, DieAlone DEF AloneInv, Untriggered
<1>12. CASE CrashInWrite
  <2>1. Die
    BY <1>12 DEF CrashInWrite
  <2>2. PICK e \in Exec : exec[e].pc \in {"final", "wait"} \/ \E s \in Step : stage[e][s] = "dispatched"
    BY <1>12 DEF CrashInWrite
  <2>3. ~Idle(e)
    BY <2>2 DEF Idle, Alive, Running
  <2> QED BY <1>0, <2>1, <2>3, DieAlone DEF AloneInv, Untriggered
<1>13. CASE Restart
  BY <1>13, QuietAlone DEF Restart, volatile
<1>14. ASSUME NEW e \in Exec, Loop(e) \/ \E s \in Step : Work(e, s) PROVE AloneInv'
  BY <1>14, OneStepAlone
<1>15. CASE UNCHANGED vars
  BY <1>15, QuietAlone DEF vars, volatile
<1> QED BY <1>1, <1>2, <1>3, <1>4, <1>5, <1>6, <1>7, <1>8, <1>9, <1>10, <1>11, <1>12, <1>13,
    <1>14, <1>15 DEF Next, Progress, Resume

\* A step that begins is dispatched, and the record of its execution does not have it
\* as completed, so that the disk has not either.
LEMMA BeginsFresh ==
    ASSUME IInv, AloneInv, ~overlap, NEW e \in Exec, NEW s \in Step, stage[e][s] = "dispatched"
    PROVE  disk.steps[s] # "completed"
<1>1. s \in Running(e) /\ ~Idle(e)
  BY DEF Running, Idle
<1>2. s \notin exec[e].completed /\ exec[e].pc \notin {"unused", "start"}
  BY <1>1 DEF IInv, Sound, Underway, Fresh
<1>3. s \notin Recorded(exec[e].run, "completed")
  BY <1>2 DEF IInv, Sound, Accounted
<1>4. Recorded(disk, "completed") \subseteq Recorded(exec[e].run, "completed")
  BY <1>1 DEF AloneInv, OneGoesOn
<1> QED BY <1>3, <1>4 DEF Recorded

\* As long as one execution of the run is alive, no crash and no resumption makes a step
\* begin again that the disk has as completed.
THEOREM NoStepRepeated == Spec => NoCompletedStepRepeats
<1>1. IInv /\ AloneInv /\ [Next]_vars =>
        [\A e \in Exec, s \in Step :
            stage[e][s] = "dispatched" /\ stage'[e][s] = "working" /\ ~overlap
               => disk.steps[s] # "completed"]_vars
  BY BeginsFresh
<1> QED BY <1>1, InitInv, NextInv, InitAlone, NextAlone, PTL DEF Spec, NoCompletedStepRepeats

=============================================================================
