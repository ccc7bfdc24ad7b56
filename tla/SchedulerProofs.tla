--------------------------- MODULE SchedulerProofs ---------------------------
(***************************************************************************)
(* Proofs, for any number of tasks, nodes and evictions, that the          *)
(* scheduler's state is well typed, that the cluster-wide in-flight        *)
(* counter is exact, that an entry of s.cancels is never stale, that the   *)
(* counter of a node is exact until an eviction, that only what succeeded  *)
(* is committed, and that a task cancelled while running stays cancelled.  *)
(***************************************************************************)
EXTENDS Scheduler, FiniteSetTheorems, TLAPS

AdmittedRuns == {r \in Run : pc[r] \in Admitted}

\* A run not yet created has no context and has not started.
FutureRunsUnborn ==
    \A t \in Task : \A k \in 1..MaxRuns : k > gen[t] =>
        pc[<<t, k>>] = "unborn" /\ <<t, k>> \notin killed

\* Before its Submit call creates it a task has no status and no run, and no
\* eviction re-queues it.
NoRunBeforeCreation ==
    \A t \in Task : call[t] # "created" =>
        gen[t] = 0 /\ status[t] = "none" /\ t \notin todo

\* A cancelled task has no entry in s.cancels.
CancelledUnowned == \A t \in Task : status[t] = "cancelled" => cancels[t] = 0

\* Submit holds s.mu across node selection.
SubmitHoldsLock == \A t \in Task : call[t] = "locked" <=> mu = t

\* The exploration bound: an eviction under way finds a run left for every task
\* it has not re-queued yet.
RunsLeft ==
    /\ evicting # NoNode /\ mu \notin Node => \A t \in Task : gen[t] < MaxRuns
    /\ \A t \in todo : gen[t] < MaxRuns

\* The inductive invariant.
IInv ==
    /\ TypeOK
    /\ AdmissionBalanced
    /\ CancelReachesNewestRun
    /\ FutureRunsUnborn
    /\ NoRunBeforeCreation
    /\ CancelledUnowned
    /\ SubmitHoldsLock
    /\ RunsLeft

\* There are finitely many runs.
LEMMA RunFinite == IsFiniteSet(Run)
<1>1. IsFiniteSet(Task) /\ 1 \in Int /\ MaxRuns \in Int
  BY SchedulerAssumption
<1>2. IsFiniteSet(1..MaxRuns)
  BY <1>1, FS_Interval
<1>3. IsFiniteSet(Task \X (1..MaxRuns))
  BY <1>1, <1>2, FS_Product
<1> QED BY <1>3 DEF Run

\* Moving one run between two program points moves the count of admitted runs
\* by one exactly when one of the points is in Admitted and the other is not.
LEMMA CountStep ==
    ASSUME TypeOK, NEW r \in Run, NEW where, pc' = [pc EXCEPT ![r] = where]
    PROVE  /\ IsFiniteSet(AdmittedRuns)
           /\ Cardinality(AdmittedRuns) \in Nat
           /\ pc[r] \notin Admitted /\ where \notin Admitted
                => AdmittedRuns' = AdmittedRuns
           /\ pc[r] \in Admitted /\ where \in Admitted
                => AdmittedRuns' = AdmittedRuns
           /\ pc[r] \notin Admitted /\ where \in Admitted
                => Cardinality(AdmittedRuns') = Cardinality(AdmittedRuns) + 1
           /\ pc[r] \in Admitted /\ where \notin Admitted
                => /\ Cardinality(AdmittedRuns') = Cardinality(AdmittedRuns) - 1
                   /\ Cardinality(AdmittedRuns) > 0
<1>1. IsFiniteSet(AdmittedRuns) /\ Cardinality(AdmittedRuns) \in Nat
  BY RunFinite, FS_Subset, FS_CardinalityType DEF AdmittedRuns
<1>2. pc \in [Run -> Live \cup {"unborn", "release", "finalize", "journal", "done"}]
  BY DEF TypeOK
<1>3. \A q \in Run : pc'[q] = IF q = r THEN where ELSE pc[q]
  BY <1>2
<1>4. CASE (pc[r] \in Admitted) = (where \in Admitted)
  <2>1. AdmittedRuns' = AdmittedRuns
    BY <1>3, <1>4 DEF AdmittedRuns
  <2> QED BY <1>1, <1>4, <2>1
<1>5. CASE pc[r] \notin Admitted /\ where \in Admitted
  <2>1. AdmittedRuns' = AdmittedRuns \cup {r} /\ r \notin AdmittedRuns
    BY <1>3, <1>5 DEF AdmittedRuns
  <2>2. Cardinality(AdmittedRuns \cup {r}) = Cardinality(AdmittedRuns) + 1
    BY <1>1, <2>1, FS_AddElement
  <2> QED BY <1>1, <1>5, <2>1, <2>2
<1>6. CASE pc[r] \in Admitted /\ where \notin Admitted
  <2>1. AdmittedRuns' = AdmittedRuns \ {r} /\ r \in AdmittedRuns
    BY <1>3, <1>6 DEF AdmittedRuns
  <2>2. AdmittedRuns # {} /\ Cardinality(AdmittedRuns) # 0
    BY <1>1, <2>1, FS_EmptySet
  <2>3. Cardinality(AdmittedRuns \ {r}) = Cardinality(AdmittedRuns) - 1
    BY <1>1, <2>1, FS_RemoveElement
  <2> QED BY <1>1, <1>6, <2>1, <2>2, <2>3
<1> QED BY <1>4, <1>5, <1>6


\* The states the program starts in satisfy the invariant.
LEMMA InitIInv == Init => IInv
<1> SUFFICES ASSUME Init PROVE IInv
  OBVIOUS
<1> USE SchedulerAssumption
<1>1. TypeOK
  BY DEF Init, TypeOK, Active, Settled, Live, NodeName, Free, Run
<1>2. AdmissionBalanced
  <2>1. {r \in Run : pc[r] \in Admitted} = {}
    BY DEF Init, Admitted
  <2> QED BY <2>1, FS_EmptySet DEF AdmissionBalanced, Init
<1>3. /\ CancelReachesNewestRun /\ FutureRunsUnborn /\ NoRunBeforeCreation
      /\ CancelledUnowned /\ SubmitHoldsLock
  BY DEF Init, CancelReachesNewestRun, FutureRunsUnborn, NoRunBeforeCreation,
         CancelledUnowned, SubmitHoldsLock, Free, Run
<1>4. RunsLeft
  BY DEF Init, RunsLeft
<1> QED BY <1>1, <1>2, <1>3, <1>4 DEF IInv

\* An action that moves no run and leaves the counter alone keeps it balanced.
LEMMA BalanceUntouched ==
    ASSUME AdmissionBalanced, UNCHANGED <<pc, inFlight>>
    PROVE  AdmissionBalanced'
BY DEF AdmissionBalanced

\* A run that moves between points on the same side of the count keeps it.
LEMMA BalanceKept ==
    ASSUME TypeOK, AdmissionBalanced, NEW r \in Run, NEW where,
           pc' = [pc EXCEPT ![r] = where], (pc[r] \in Admitted) <=> (where \in Admitted),
           inFlight' = inFlight
    PROVE  AdmissionBalanced' /\ inFlight' \in Nat
<1>1. AdmittedRuns' = AdmittedRuns
  BY CountStep
<1> QED BY <1>1 DEF AdmissionBalanced, AdmittedRuns, TypeOK

\* A run that becomes admitted takes one unit.
LEMMA BalanceTaken ==
    ASSUME TypeOK, AdmissionBalanced, NEW r \in Run, NEW where,
           pc' = [pc EXCEPT ![r] = where], pc[r] \notin Admitted, where \in Admitted,
           inFlight' = inFlight + 1
    PROVE  AdmissionBalanced' /\ inFlight' \in Nat
<1>1. Cardinality(AdmittedRuns') = Cardinality(AdmittedRuns) + 1
  BY CountStep
<1>2. inFlight \in Nat
  BY DEF TypeOK
<1> QED BY <1>1, <1>2 DEF AdmissionBalanced, AdmittedRuns

\* A run that stops being admitted returns it.
LEMMA BalanceReturned ==
    ASSUME TypeOK, AdmissionBalanced, NEW r \in Run, NEW where,
           pc' = [pc EXCEPT ![r] = where], pc[r] \in Admitted, where \notin Admitted,
           inFlight' = inFlight - 1
    PROVE  AdmissionBalanced' /\ inFlight' \in Nat
<1>1. /\ Cardinality(AdmittedRuns') = Cardinality(AdmittedRuns) - 1
      /\ Cardinality(AdmittedRuns) > 0
  BY CountStep
<1>2. inFlight \in Nat
  BY DEF TypeOK
<1> QED BY <1>1, <1>2 DEF AdmissionBalanced, AdmittedRuns

\* An entry of s.cancels names a run that exists.
LEMMA OwnerInRange ==
    ASSUME TypeOK, CancelReachesNewestRun, NEW t \in Task, cancels[t] # 0
    PROVE  cancels[t] = gen[t] /\ cancels[t] \in 1..MaxRuns
<1>1. cancels[t] = gen[t]
  BY DEF CancelReachesNewestRun
<1>2. cancels[t] \in 0..MaxRuns /\ MaxRuns \in Nat
  BY SchedulerAssumption DEF TypeOK
<1> QED BY <1>1, <1>2

\* A step of one run keeps the invariant.
LEMMA RunStepIInv ==
    ASSUME IInv, NEW t \in Task, NEW k \in 1..MaxRuns, RunStep(<<t, k>>)
    PROVE  IInv'
<1> DEFINE r == <<t, k>>
<1> USE SchedulerAssumption
<1>0. /\ TypeOK /\ AdmissionBalanced /\ CancelReachesNewestRun /\ FutureRunsUnborn
      /\ NoRunBeforeCreation /\ CancelledUnowned /\ SubmitHoldsLock /\ RunsLeft
      /\ r \in Run /\ r[1] = t
  BY DEF IInv, Run
<1>a. pc[r] # "unborn"
  BY DEF RunStep, Launch, RunStart, RunReject, RunMark, RunAppend, RunCount,
         RunExecuted, RunFinalize, RunJournal, RunRelease
<1>b. call[t] = "created"
  BY <1>0, <1>a DEF FutureRunsUnborn, NoRunBeforeCreation, TypeOK
<1>1. CASE Launch(r)
  <2>1. AdmissionBalanced' /\ inFlight' \in Nat
    BY <1>0, <1>1, BalanceTaken DEF Launch, Admitted
  <2>2. TypeOK'
    BY <1>0, <1>1, <2>1 DEF Launch, TypeOK, Live
  <2>3. (CancelReachesNewestRun /\ FutureRunsUnborn /\ NoRunBeforeCreation
         /\ CancelledUnowned /\ SubmitHoldsLock /\ RunsLeft)'
    BY <1>0, <1>1 DEF Launch, TypeOK, CancelReachesNewestRun, FutureRunsUnborn,
         NoRunBeforeCreation, CancelledUnowned, SubmitHoldsLock, RunsLeft, Live, Run
  <2> QED BY <2>1, <2>2, <2>3 DEF IInv
<1>2. CASE RunStart(r)
  <2>1. AdmissionBalanced' /\ inFlight' \in Nat
    BY <1>0, <1>2, BalanceKept DEF RunStart, Admitted
  <2>2. TypeOK'
    BY <1>0, <1>2, <2>1 DEF RunStart, TypeOK, Live
  <2>3. (CancelReachesNewestRun /\ FutureRunsUnborn /\ NoRunBeforeCreation
         /\ CancelledUnowned /\ SubmitHoldsLock /\ RunsLeft)'
    BY <1>0, <1>2 DEF RunStart, TypeOK, CancelReachesNewestRun, FutureRunsUnborn,
         NoRunBeforeCreation, CancelledUnowned, SubmitHoldsLock, RunsLeft, Live, Run
  <2> QED BY <2>1, <2>2, <2>3 DEF IInv
<1>3. CASE RunReject(r)
  <2>1. AdmissionBalanced' /\ inFlight' \in Nat
    BY <1>0, <1>3, BalanceKept DEF RunReject, Admitted
  <2>2. TypeOK'
    BY <1>0, <1>3, <2>1 DEF RunReject, TypeOK, Live, Settled
  <2>3. (CancelReachesNewestRun /\ FutureRunsUnborn /\ NoRunBeforeCreation
         /\ CancelledUnowned /\ SubmitHoldsLock /\ RunsLeft)'
    BY <1>0, <1>b, <1>3 DEF RunReject, TypeOK, CancelReachesNewestRun, FutureRunsUnborn,
         NoRunBeforeCreation, CancelledUnowned, SubmitHoldsLock, RunsLeft, Live, Run
  <2> QED BY <2>1, <2>2, <2>3 DEF IInv
<1>4. CASE RunMark(r)
  <2>1. AdmissionBalanced' /\ inFlight' \in Nat
    BY <1>0, <1>4, BalanceKept DEF RunMark, Admitted
  <2>2. TypeOK'
    BY <1>0, <1>4, <2>1 DEF RunMark, TypeOK, Live, Active
  <2>3. (CancelReachesNewestRun /\ FutureRunsUnborn /\ NoRunBeforeCreation
         /\ CancelledUnowned /\ SubmitHoldsLock /\ RunsLeft)'
    BY <1>0, <1>b, <1>4 DEF RunMark, TypeOK, CancelReachesNewestRun, FutureRunsUnborn,
         NoRunBeforeCreation, CancelledUnowned, SubmitHoldsLock, RunsLeft, Live, Run
  <2> QED BY <2>1, <2>2, <2>3 DEF IInv
<1>5. CASE RunAppend(r)
  <2>1. AdmissionBalanced' /\ inFlight' \in Nat
    BY <1>0, <1>5, BalanceKept DEF RunAppend, Admitted
  <2>2. TypeOK'
    BY <1>0, <1>5, <2>1 DEF RunAppend, TypeOK, Live
  <2>3. (CancelReachesNewestRun /\ FutureRunsUnborn /\ NoRunBeforeCreation
         /\ CancelledUnowned /\ SubmitHoldsLock /\ RunsLeft)'
    BY <1>0, <1>5 DEF RunAppend, TypeOK, CancelReachesNewestRun, FutureRunsUnborn,
         NoRunBeforeCreation, CancelledUnowned, SubmitHoldsLock, RunsLeft, Live, Run
  <2> QED BY <2>1, <2>2, <2>3 DEF IInv
<1>6. CASE RunCount(r)
  <2>1. AdmissionBalanced' /\ inFlight' \in Nat
    BY <1>0, <1>6, BalanceKept DEF RunCount, Admitted
  <2>a. nodeLoad' \in [NodeName -> Nat] /\ on' \in [Run -> NodeName \cup {NoNode}]
    <3>1. /\ nodeLoad' = [nodeLoad EXCEPT ![assigned[t]] = nodeLoad[assigned[t]] + 1]
          /\ on' = [on EXCEPT ![r] = assigned[t]]
      BY <1>0, <1>6 DEF RunCount
    <3>2. /\ nodeLoad \in [NodeName -> Nat] /\ on \in [Run -> NodeName \cup {NoNode}]
          /\ assigned[t] \in NodeName \cup {NoNode}
      BY <1>0 DEF TypeOK
    <3>3. \A n \in NodeName : nodeLoad'[n] \in Nat
      BY <3>1, <3>2
    <3>4. \A q \in Run : on'[q] \in NodeName \cup {NoNode}
      BY <3>1, <3>2
    <3>5. nodeLoad' = [n \in NodeName |-> nodeLoad'[n]] /\ on' = [q \in Run |-> on'[q]]
      BY <3>1, <3>2
    <3> QED BY <3>3, <3>4, <3>5
  <2>2. TypeOK'
    BY <1>0, <1>6, <2>1, <2>a DEF RunCount, TypeOK, Live
  <2>3. (CancelReachesNewestRun /\ FutureRunsUnborn /\ NoRunBeforeCreation
         /\ CancelledUnowned /\ SubmitHoldsLock /\ RunsLeft)'
    BY <1>0, <1>6 DEF RunCount, TypeOK, CancelReachesNewestRun, FutureRunsUnborn,
         NoRunBeforeCreation, CancelledUnowned, SubmitHoldsLock, RunsLeft, Live, Run
  <2> QED BY <2>1, <2>2, <2>3 DEF IInv
<1>7. CASE RunExecuted(r)
  <2>1. AdmissionBalanced' /\ inFlight' \in Nat
    BY <1>0, <1>7, BalanceReturned DEF RunExecuted, Admitted
  <2>a. /\ nodeLoad' \in [NodeName -> Nat] /\ on' \in [Run -> NodeName \cup {NoNode}]
        /\ okay' \subseteq Run
    <3>1. /\ nodeLoad' = [nodeLoad EXCEPT ![assigned[t]] =
                           IF nodeLoad[assigned[t]] > 0 THEN nodeLoad[assigned[t]] - 1 ELSE 0]
          /\ on' = [on EXCEPT ![r] = NoNode]
          /\ okay' \subseteq okay \cup {r}
      BY <1>0, <1>7 DEF RunExecuted
    <3>2. /\ nodeLoad \in [NodeName -> Nat] /\ on \in [Run -> NodeName \cup {NoNode}]
          /\ okay \subseteq Run
      BY <1>0 DEF TypeOK
    <3>3. \A n \in NodeName : nodeLoad'[n] \in Nat
      BY <3>1, <3>2
    <3>4. \A q \in Run : on'[q] \in NodeName \cup {NoNode}
      BY <3>1, <3>2
    <3>5. nodeLoad' = [n \in NodeName |-> nodeLoad'[n]] /\ on' = [q \in Run |-> on'[q]]
      BY <3>1, <3>2
    <3> QED BY <1>0, <3>1, <3>2, <3>3, <3>4, <3>5
  <2>2. TypeOK'
    BY <1>0, <1>7, <2>1, <2>a DEF RunExecuted, TypeOK, Live
  <2>3. (CancelReachesNewestRun /\ FutureRunsUnborn /\ NoRunBeforeCreation
         /\ CancelledUnowned /\ SubmitHoldsLock /\ RunsLeft)'
    BY <1>0, <1>7 DEF RunExecuted, TypeOK, CancelReachesNewestRun, FutureRunsUnborn,
         NoRunBeforeCreation, CancelledUnowned, SubmitHoldsLock, RunsLeft, Live, Run
  <2> QED BY <2>1, <2>2, <2>3 DEF IInv
<1>8. CASE RunFinalize(r)
  <2>1. AdmissionBalanced' /\ inFlight' \in Nat
    BY <1>0, <1>8, BalanceKept DEF RunFinalize, Admitted
  <2>2. TypeOK'
    BY <1>0, <1>8, <2>1 DEF RunFinalize, TypeOK, Live, Settled
  <2>3. (CancelReachesNewestRun /\ FutureRunsUnborn /\ NoRunBeforeCreation
         /\ CancelledUnowned /\ SubmitHoldsLock /\ RunsLeft)'
    BY <1>0, <1>b, <1>8 DEF RunFinalize, TypeOK, CancelReachesNewestRun, FutureRunsUnborn,
         NoRunBeforeCreation, CancelledUnowned, SubmitHoldsLock, RunsLeft, Live, Run
  <2> QED BY <2>1, <2>2, <2>3 DEF IInv
<1>9. CASE RunJournal(r)
  <2>1. AdmissionBalanced' /\ inFlight' \in Nat
    BY <1>0, <1>9, BalanceKept DEF RunJournal, Admitted
  <2>2. TypeOK'
    BY <1>0, <1>9, <2>1 DEF RunJournal, TypeOK, Live
  <2>3. cancels[t] = 0 \/ gen[t] # k
    BY <1>0, <1>9 DEF RunJournal, CancelReachesNewestRun, Live
  <2>4. \A u \in Task, j \in 1..MaxRuns :
          <<u, j>> # r => pc'[<<u, j>>] = pc[<<u, j>>]
    BY <1>0, <1>9 DEF RunJournal, TypeOK, Run
  <2>5. \A u \in Task : cancels[u] # 0 => gen[u] \in 1..MaxRuns
    BY <1>0, OwnerInRange
  <2>6. CancelReachesNewestRun'
    BY <1>0, <1>9, <2>3, <2>4, <2>5 DEF RunJournal, CancelReachesNewestRun
  <2>7. FutureRunsUnborn'
    BY <1>0, <1>9, <2>4 DEF RunJournal, FutureRunsUnborn
  <2>8. (NoRunBeforeCreation /\ CancelledUnowned /\ SubmitHoldsLock /\ RunsLeft)'
    BY <1>0, <1>9 DEF RunJournal, NoRunBeforeCreation, CancelledUnowned, SubmitHoldsLock, RunsLeft
  <2> QED BY <2>1, <2>2, <2>6, <2>7, <2>8 DEF IInv
<1>10. CASE RunRelease(r)
  <2>1. AdmissionBalanced' /\ inFlight' \in Nat
    BY <1>0, <1>10, BalanceReturned DEF RunRelease, Admitted
  <2>2. TypeOK'
    BY <1>0, <1>10, <2>1 DEF RunRelease, TypeOK, Live
  <2>3. cancels[t] = 0 \/ gen[t] # k
    BY <1>0, <1>10 DEF RunRelease, CancelReachesNewestRun, Live
  <2>4. \A u \in Task, j \in 1..MaxRuns :
          <<u, j>> # r => pc'[<<u, j>>] = pc[<<u, j>>]
    BY <1>0, <1>10 DEF RunRelease, TypeOK, Run
  <2>5. \A u \in Task : cancels[u] # 0 => gen[u] \in 1..MaxRuns
    BY <1>0, OwnerInRange
  <2>6. CancelReachesNewestRun'
    BY <1>0, <1>10, <2>3, <2>4, <2>5 DEF RunRelease, CancelReachesNewestRun
  <2>7. FutureRunsUnborn'
    BY <1>0, <1>10, <2>4 DEF RunRelease, FutureRunsUnborn
  <2>8. (NoRunBeforeCreation /\ CancelledUnowned /\ SubmitHoldsLock /\ RunsLeft)'
    BY <1>0, <1>10 DEF RunRelease, NoRunBeforeCreation, CancelledUnowned, SubmitHoldsLock, RunsLeft
  <2> QED BY <2>1, <2>2, <2>6, <2>7, <2>8 DEF IInv
<1> QED BY <1>1, <1>2, <1>3, <1>4, <1>5, <1>6, <1>7, <1>8, <1>9, <1>10 DEF RunStep

\* A step of Submit keeps the invariant.
LEMMA SubmitIInv ==
    ASSUME IInv, NEW t \in Task, Submit(t)
    PROVE  IInv'
<1> USE SchedulerAssumption
<1>0. /\ TypeOK /\ AdmissionBalanced /\ CancelReachesNewestRun /\ FutureRunsUnborn
      /\ NoRunBeforeCreation /\ CancelledUnowned /\ SubmitHoldsLock /\ RunsLeft
  BY DEF IInv
<1>1. CASE SubmitAdmit(t)
  <2>1. AdmissionBalanced'
    BY <1>0, <1>1, BalanceUntouched DEF SubmitAdmit
  <2>2. TypeOK'
    BY <1>0, <1>1 DEF SubmitAdmit, TypeOK
  <2>3. (CancelReachesNewestRun /\ FutureRunsUnborn /\ NoRunBeforeCreation
         /\ CancelledUnowned /\ SubmitHoldsLock /\ RunsLeft)'
    BY <1>0, <1>1 DEF SubmitAdmit, TypeOK, CancelReachesNewestRun, FutureRunsUnborn,
         NoRunBeforeCreation, CancelledUnowned, SubmitHoldsLock, RunsLeft
  <2> QED BY <2>1, <2>2, <2>3 DEF IInv
<1>2. CASE SubmitLock(t)
  <2>1. AdmissionBalanced'
    BY <1>0, <1>2, BalanceUntouched DEF SubmitLock
  <2>2. TypeOK'
    BY <1>0, <1>2 DEF SubmitLock, TypeOK
  <2>3. (CancelReachesNewestRun /\ FutureRunsUnborn /\ NoRunBeforeCreation
         /\ CancelledUnowned /\ SubmitHoldsLock /\ RunsLeft)'
    BY <1>0, <1>2 DEF SubmitLock, TypeOK, CancelReachesNewestRun, FutureRunsUnborn,
         NoRunBeforeCreation, CancelledUnowned, SubmitHoldsLock, RunsLeft, Free
  <2> QED BY <2>1, <2>2, <2>3 DEF IInv
<1>3. CASE SubmitCreate(t)
  <2> DEFINE r == <<t, gen[t] + 1>>
  <2>1. gen[t] = 0 /\ mu = t /\ r \in Run /\ pc[r] = "unborn" /\ r \notin killed
    BY <1>0, <1>3
    DEF SubmitCreate, NoRunBeforeCreation, SubmitHoldsLock, FutureRunsUnborn, Run
  <2>2. AdmissionBalanced'
    BY <1>0, <1>3, <2>1, BalanceKept DEF SubmitCreate, MakeRun, Admitted
  <2>3. TypeOK'
    BY <1>0, <1>3, <2>1
    DEF SubmitCreate, MakeRun, TypeOK, Candidates, Live, Active, NodeName, Run
  <2>4. (CancelReachesNewestRun /\ FutureRunsUnborn /\ NoRunBeforeCreation
         /\ CancelledUnowned)'
    BY <1>0, <1>3, <2>1
    DEF SubmitCreate, MakeRun, TypeOK, CancelReachesNewestRun, FutureRunsUnborn,
        NoRunBeforeCreation, CancelledUnowned, Live, Run
  <2>5. SubmitHoldsLock'
    BY <1>0, <1>3, <2>1 DEF SubmitCreate, SubmitHoldsLock, TypeOK, Free
  <2>6. RunsLeft'
    <3>1. /\ \A u \in Task : gen'[u] = IF u = t THEN 1 ELSE gen[u]
          /\ todo' = todo /\ evicting' = evicting /\ todo \subseteq Task /\ 1 < MaxRuns
      BY <1>0, <1>3, <2>1 DEF SubmitCreate, MakeRun, TypeOK
    <3>2. mu \notin Node
      BY <2>1
    <3> QED BY <1>0, <3>1, <3>2 DEF RunsLeft
  <2> QED BY <2>2, <2>3, <2>4, <2>5, <2>6 DEF IInv
<1> QED BY <1>1, <1>2, <1>3 DEF Submit

\* The contexts that the entries of some tasks cancel are their newest runs'.
LEMMA OwnedNewest ==
    ASSUME TypeOK, CancelReachesNewestRun, NEW T \in SUBSET Task
    PROVE  /\ Owned(T) \subseteq Run
           /\ \A u \in Task, k \in 1..MaxRuns :
                <<u, k>> \in Owned(T) => u \in T /\ k = gen[u]
<1>1. \A t \in Task : cancels[t] # 0 => cancels[t] \in 1..MaxRuns /\ cancels[t] = gen[t]
  BY OwnerInRange
<1>2. ASSUME NEW x \in Owned(T)
      PROVE  \E t \in T : cancels[t] # 0 /\ x = <<t, cancels[t]>>
  BY <1>2 DEF Owned
<1>3. Owned(T) \subseteq Run
  BY <1>1, <1>2 DEF Run
<1>4. ASSUME NEW u \in Task, NEW k \in 1..MaxRuns, <<u, k>> \in Owned(T)
      PROVE  u \in T /\ k = gen[u]
  BY <1>1, <1>2, <1>4
<1> QED BY <1>3, <1>4

\* Cancel and Shutdown keep the invariant.
LEMMA CancelIInv ==
    ASSUME IInv, \/ \E t \in Task : Cancel(t)
                 \/ Shutdown
    PROVE  IInv'
<1> USE SchedulerAssumption
<1>0. /\ TypeOK /\ AdmissionBalanced /\ CancelReachesNewestRun /\ FutureRunsUnborn
      /\ NoRunBeforeCreation /\ CancelledUnowned /\ SubmitHoldsLock /\ RunsLeft
  BY DEF IInv
<1>1. ASSUME NEW T \in SUBSET Task
      PROVE  /\ Owned(T) \subseteq Run
             /\ \A u \in Task, k \in 1..MaxRuns :
                  <<u, k>> \in Owned(T) => u \in T /\ k = gen[u]
  BY <1>0, OwnedNewest
<1>2. ASSUME NEW t \in Task, Cancel(t) PROVE IInv'
  <2>1. AdmissionBalanced'
    BY <1>0, <1>2, BalanceUntouched DEF Cancel
  <2>2. TypeOK'
    BY <1>0, <1>1, <1>2 DEF Cancel, TypeOK, Settled
  <2>3. /\ UNCHANGED <<call, gen, pc, mu, evicting, todo>>
        /\ killed' = killed \cup Owned({t})
        /\ \A u \in Task : cancels'[u] = IF u \in {t} THEN 0 ELSE cancels[u]
        /\ \A u \in Task : status'[u] = "cancelled" => status[u] = "cancelled" \/ u \in {t}
        /\ \A u \in Task : status[u] = "none" => status'[u] = "none"
    BY <1>0, <1>2 DEF Cancel, TypeOK, Active
  <2>4. CancelReachesNewestRun'
    <3> SUFFICES ASSUME NEW u \in Task, cancels'[u] # 0
                 PROVE  /\ cancels'[u] = gen'[u]
                        /\ pc'[<<u, gen'[u]>>] \in Live \cup {"finalize"}
                        /\ <<u, gen'[u]>> \notin killed'
      BY DEF CancelReachesNewestRun
    <3>1. u \notin {t} /\ cancels[u] # 0
      BY <2>3
    <3>2. gen[u] \in 1..MaxRuns
      BY <1>0, <3>1, OwnerInRange
    <3>3. <<u, gen[u]>> \notin Owned({t})
      BY <1>1, <3>1, <3>2
    <3> QED BY <1>0, <2>3, <3>1, <3>3 DEF CancelReachesNewestRun
  <2>5. FutureRunsUnborn'
    <3> SUFFICES ASSUME NEW u \in Task, NEW k \in 1..MaxRuns, k > gen[u]
                 PROVE  pc[<<u, k>>] = "unborn" /\ <<u, k>> \notin killed'
      BY <2>3 DEF FutureRunsUnborn
    <3>1. k # gen[u]
      BY <1>0 DEF TypeOK
    <3>2. <<u, k>> \notin Owned({t})
      BY <1>1, <3>1
    <3> QED BY <1>0, <2>3, <3>2 DEF FutureRunsUnborn
  <2>6. (NoRunBeforeCreation /\ CancelledUnowned /\ SubmitHoldsLock /\ RunsLeft)'
    BY <1>0, <2>3 DEF NoRunBeforeCreation, CancelledUnowned, SubmitHoldsLock, RunsLeft
  <2> QED BY <2>1, <2>2, <2>4, <2>5, <2>6 DEF IInv
<1>3. ASSUME Shutdown PROVE IInv'
  <2>1. AdmissionBalanced'
    BY <1>0, <1>3, BalanceUntouched DEF Shutdown
  <2>2. TypeOK'
    BY <1>0, <1>1, <1>3 DEF Shutdown, TypeOK, Settled
  <2>3. /\ UNCHANGED <<call, gen, pc, mu, evicting, todo>>
        /\ killed' = killed \cup Owned(Task)
        /\ \A u \in Task : cancels'[u] = IF u \in Task THEN 0 ELSE cancels[u]
        /\ \A u \in Task : status'[u] = "cancelled" => status[u] = "cancelled" \/ u \in Task
        /\ \A u \in Task : status[u] = "none" => status'[u] = "none"
    BY <1>0, <1>3 DEF Shutdown, TypeOK, Active
  <2>4. CancelReachesNewestRun'
    <3> SUFFICES ASSUME NEW u \in Task, cancels'[u] # 0
                 PROVE  /\ cancels'[u] = gen'[u]
                        /\ pc'[<<u, gen'[u]>>] \in Live \cup {"finalize"}
                        /\ <<u, gen'[u]>> \notin killed'
      BY DEF CancelReachesNewestRun
    <3>1. u \notin Task /\ cancels[u] # 0
      BY <2>3
    <3>2. gen[u] \in 1..MaxRuns
      BY <1>0, <3>1, OwnerInRange
    <3>3. <<u, gen[u]>> \notin Owned(Task)
      BY <1>1, <3>1, <3>2
    <3> QED BY <1>0, <2>3, <3>1, <3>3 DEF CancelReachesNewestRun
  <2>5. FutureRunsUnborn'
    <3> SUFFICES ASSUME NEW u \in Task, NEW k \in 1..MaxRuns, k > gen[u]
                 PROVE  pc[<<u, k>>] = "unborn" /\ <<u, k>> \notin killed'
      BY <2>3 DEF FutureRunsUnborn
    <3>1. k # gen[u]
      BY <1>0 DEF TypeOK
    <3>2. <<u, k>> \notin Owned(Task)
      BY <1>1, <3>1
    <3> QED BY <1>0, <2>3, <3>2 DEF FutureRunsUnborn
  <2>6. (NoRunBeforeCreation /\ CancelledUnowned /\ SubmitHoldsLock /\ RunsLeft)'
    BY <1>0, <2>3 DEF NoRunBeforeCreation, CancelledUnowned, SubmitHoldsLock, RunsLeft
  <2> QED BY <2>1, <2>2, <2>4, <2>5, <2>6 DEF IInv
<1> QED BY <1>2, <1>3

\* The eviction of a node, and its return, keep the invariant.
LEMMA EvictionIInv ==
    ASSUME IInv, NEW n \in Node, Evict(n) \/ Eviction(n) \/ NodeUp(n)
    PROVE  IInv'
<1> USE SchedulerAssumption
<1>0. /\ TypeOK /\ AdmissionBalanced /\ CancelReachesNewestRun /\ FutureRunsUnborn
      /\ NoRunBeforeCreation /\ CancelledUnowned /\ SubmitHoldsLock /\ RunsLeft
  BY DEF IInv
<1>1. CASE Evict(n) \/ NodeUp(n)
  <2>1. AdmissionBalanced'
    BY <1>0, <1>1, BalanceUntouched DEF Evict, NodeUp
  <2>2. TypeOK'
    BY <1>0, <1>1 DEF Evict, NodeUp, TypeOK
  <2>3. (CancelReachesNewestRun /\ FutureRunsUnborn /\ NoRunBeforeCreation
         /\ CancelledUnowned /\ SubmitHoldsLock /\ RunsLeft)'
    BY <1>0, <1>1 DEF Evict, NodeUp, TypeOK, CancelReachesNewestRun, FutureRunsUnborn,
         NoRunBeforeCreation, CancelledUnowned, SubmitHoldsLock, RunsLeft
  <2> QED BY <2>1, <2>2, <2>3 DEF IInv
<1>2. CASE EvictLock(n)
  <2>1. AdmissionBalanced'
    BY <1>0, <1>2, BalanceUntouched DEF EvictLock
  <2>2. TypeOK'
    BY <1>0, <1>2 DEF EvictLock, TypeOK, Victims
  <2>3. (CancelReachesNewestRun /\ FutureRunsUnborn /\ CancelledUnowned)'
    BY <1>0, <1>2
    DEF EvictLock, TypeOK, CancelReachesNewestRun, FutureRunsUnborn, CancelledUnowned
  <2>4. SubmitHoldsLock'
    BY <1>0, <1>2 DEF EvictLock, SubmitHoldsLock, Free
  <2>5. (NoRunBeforeCreation /\ RunsLeft)'
    BY <1>0, <1>2
    DEF EvictLock, TypeOK, NoRunBeforeCreation, RunsLeft, Victims, Free, Active
  <2> QED BY <2>1, <2>2, <2>3, <2>4, <2>5 DEF IInv
<1>3. ASSUME NEW t \in Task, EvictRequeue(n, t) PROVE IInv'
  <2> DEFINE r == <<t, gen[t] + 1>>
  <2>1. gen[t] < MaxRuns /\ gen[t] \in Nat /\ gen[t] + 1 \in 1..MaxRuns /\ gen[t] + 1 > gen[t]
    BY <1>0, <1>3 DEF EvictRequeue, RunsLeft, TypeOK
  <2>2. r \in Run /\ pc[r] = "unborn" /\ r \notin killed
    BY <1>0, <2>1 DEF FutureRunsUnborn, Run
  <2>3. AdmissionBalanced'
    BY <1>0, <1>3, <2>2, BalanceKept DEF EvictRequeue, MakeRun, Admitted
  <2>4. /\ Owned({t}) \subseteq Run
        /\ \A u \in Task, k \in 1..MaxRuns : <<u, k>> \in Owned({t}) => u = t /\ k = gen[u]
    BY <1>0, OwnedNewest
  <2>5. /\ \A u \in Task : gen'[u] = IF u = t THEN gen[t] + 1 ELSE gen[u]
        /\ \A u \in Task : cancels'[u] = IF u = t THEN gen[t] + 1 ELSE cancels[u]
        /\ \A q \in Run : pc'[q] = IF q = r THEN "requeued" ELSE pc[q]
        /\ \A u \in Task : status'[u] = IF u = t THEN "pending" ELSE status[u]
        /\ killed' = killed \cup Owned({t})
        /\ todo' = todo \ {t} /\ UNCHANGED <<call, evicting, mu>> /\ mu = n
    BY <1>0, <1>3 DEF EvictRequeue, MakeRun, TypeOK
  <2>6. TypeOK'
    <3>1. assigned' \in [Task -> NodeName \cup {NoNode}]
      BY <1>0, <1>3 DEF EvictRequeue, TypeOK, Candidates, NodeName
    <3>2. gen' \in [Task -> 0..MaxRuns] /\ cancels' \in [Task -> 0..MaxRuns]
      BY <1>0, <1>3, <2>1 DEF EvictRequeue, MakeRun, TypeOK
    <3>3. pc' \in [Run -> Live \cup {"unborn", "release", "finalize", "journal", "done"}]
      BY <1>0, <1>3, <2>2 DEF EvictRequeue, MakeRun, TypeOK, Live
    <3>4. killed' \subseteq Run
      BY <1>0, <2>4, <2>5 DEF TypeOK
    <3> QED BY <1>0, <1>3, <3>1, <3>2, <3>3, <3>4 DEF EvictRequeue, TypeOK, Active
  <2>7. CancelReachesNewestRun'
    <3> SUFFICES ASSUME NEW u \in Task, cancels'[u] # 0
                 PROVE  /\ cancels'[u] = gen'[u]
                        /\ pc'[<<u, gen'[u]>>] \in Live \cup {"finalize"}
                        /\ <<u, gen'[u]>> \notin killed'
      BY DEF CancelReachesNewestRun
    <3>1. CASE u = t
      <4>1. r \notin Owned({t})
        BY <2>1, <2>4, gen[t] + 1 # gen[t]
      <4> QED BY <2>2, <2>5, <3>1, <4>1 DEF Live
    <3>2. CASE u # t
      <4>1. cancels[u] # 0 /\ gen'[u] = gen[u] /\ gen[u] \in 1..MaxRuns
        BY <1>0, <2>5, <3>2, OwnerInRange
      <4>2. <<u, gen[u]>> \in Run /\ <<u, gen[u]>> # r /\ <<u, gen[u]>> \notin Owned({t})
        BY <2>4, <3>2, <4>1 DEF Run
      <4> QED BY <1>0, <2>5, <3>2, <4>1, <4>2 DEF CancelReachesNewestRun
    <3> QED BY <3>1, <3>2
  <2>8. FutureRunsUnborn'
    <3> SUFFICES ASSUME NEW u \in Task, NEW k \in 1..MaxRuns, k > gen'[u]
                 PROVE  pc'[<<u, k>>] = "unborn" /\ <<u, k>> \notin killed'
      BY DEF FutureRunsUnborn
    <3>1. k > gen[u] /\ <<u, k>> # r /\ <<u, k>> \in Run /\ gen[u] \in Nat /\ gen[u] # k
      BY <1>0, <2>1, <2>5 DEF Run, TypeOK
    <3> QED BY <1>0, <2>4, <2>5, <3>1 DEF FutureRunsUnborn
  <2>9. (NoRunBeforeCreation /\ CancelledUnowned /\ SubmitHoldsLock /\ RunsLeft)'
    <3>1. call[t] = "created"
      BY <1>0, <1>3 DEF EvictRequeue, NoRunBeforeCreation
    <3>2. NoRunBeforeCreation' /\ SubmitHoldsLock'
      BY <1>0, <2>5, <3>1 DEF NoRunBeforeCreation, SubmitHoldsLock
    <3>3. CancelledUnowned'
      BY <1>0, <2>5 DEF CancelledUnowned
    <3>4. RunsLeft'
      BY <1>0, <2>5 DEF RunsLeft, TypeOK
    <3> QED BY <3>2, <3>3, <3>4
  <2> QED BY <2>3, <2>6, <2>7, <2>8, <2>9 DEF IInv
<1>4. CASE EvictUnlock(n)
  <2>1. AdmissionBalanced'
    <3>1. {r \in Run : pc'[r] \in Admitted} = {r \in Run : pc[r] \in Admitted}
      BY <1>0, <1>4 DEF EvictUnlock, Admitted
    <3> QED BY <1>0, <1>4, <3>1 DEF AdmissionBalanced, EvictUnlock
  <2>2. TypeOK'
    BY <1>0, <1>4 DEF EvictUnlock, TypeOK, Live
  <2>3. (CancelReachesNewestRun /\ FutureRunsUnborn /\ CancelledUnowned)'
    BY <1>0, <1>4
    DEF EvictUnlock, TypeOK, CancelReachesNewestRun, FutureRunsUnborn,
        CancelledUnowned, Run, Live
  <2>4. (NoRunBeforeCreation /\ SubmitHoldsLock)'
    BY <1>0, <1>4 DEF EvictUnlock, NoRunBeforeCreation, SubmitHoldsLock, Free
  <2>5. RunsLeft'
    BY <1>0, <1>4 DEF EvictUnlock, TypeOK, RunsLeft
  <2> QED BY <2>1, <2>2, <2>3, <2>4, <2>5 DEF IInv
<1> QED BY <1>1, <1>2, <1>3, <1>4 DEF Eviction

\* Every step of the scheduler keeps the invariant.
LEMMA NextIInv == IInv /\ [Next]_vars => IInv'
<1> SUFFICES ASSUME IInv, [Next]_vars PROVE IInv'
  OBVIOUS
<1>1. ASSUME NEW r \in Run, RunStep(r) PROVE IInv'
  <2>1. PICK t \in Task, k \in 1..MaxRuns : r = <<t, k>>
    BY DEF Run
  <2> QED BY <1>1, <2>1, RunStepIInv
<1>2. CASE UNCHANGED vars
  BY <1>2 DEF vars, IInv, TypeOK, AdmissionBalanced, CancelReachesNewestRun,
     FutureRunsUnborn, NoRunBeforeCreation, CancelledUnowned, SubmitHoldsLock, RunsLeft
<1> QED BY <1>1, <1>2, SubmitIInv, CancelIInv, EvictionIInv DEF Next

\* The invariant holds always.
LEMMA Invariance == Spec => []IInv
BY InitIInv, NextIInv, PTL DEF Spec

\* The state is well typed; in particular neither counter goes below zero.
THEOREM TypeCorrect == Spec => []TypeOK
<1>1. IInv => TypeOK
  BY DEF IInv
<1> QED BY Invariance, <1>1, PTL

\* The cluster-wide in-flight counter that admission control reads is exactly
\* the number of launched runs that have not given their unit back.
THEOREM InFlightExact == Spec => []AdmissionBalanced
<1>1. IInv => AdmissionBalanced
  BY DEF IInv
<1> QED BY Invariance, <1>1, PTL

\* A Cancel that finds an entry cancels the open context of the newest run.
THEOREM CancelNeverStale == Spec => []CancelReachesNewestRun
<1>1. IInv => CancelReachesNewestRun
  BY DEF IInv
<1> QED BY Invariance, <1>1, PTL

-----------------------------------------------------------------------------
(* The record, the log and the counters of the nodes *)

\* A task recorded as completed has a run that succeeded.
CompletedWasExecuted ==
    \A t \in Task : status[t] = "completed" => \E k \in 1..MaxRuns : <<t, k>> \in okay

\* The tasks an eviction still has to re-queue are active: nobody else takes
\* s.mu, and with it their status, until they are.
QueuedAreActive == \A t \in todo : mu \in Node /\ status[t] \in Active

\* A task that exists has a run, and a task with a run has a node.
CreatedHasRun ==
    \A t \in Task : /\ status[t] # "none" => gen[t] >= 1
                    /\ gen[t] >= 1 => assigned[t] \in NodeName

NoEviction == \A t \in Task : gen[t] <= 1

\* Until a task is re-queued the two reads of AssignedNode of its run agree.
ExecutesWhereAssigned ==
    NoEviction => \A t \in Task : \A k \in 1..MaxRuns :
                    pc[<<t, k>>] = "exec" => on[<<t, k>>] = assigned[t]

ExecutingOn(n) == {r \in Run : pc[r] = "exec" /\ on[r] = n}

\* The second inductive invariant, which rests on the first.
RecordInv ==
    /\ CompletedWasExecuted
    /\ CommittedWasExecuted
    /\ QueuedAreActive
    /\ CreatedHasRun
    /\ ExecutesWhereAssigned
    /\ NodeLoadExactUntilEvicted

\* The states the program starts in satisfy it.
LEMMA InitRecord == Init => RecordInv
<1> SUFFICES ASSUME Init PROVE RecordInv
  OBVIOUS
<1>1. CompletedWasExecuted /\ CommittedWasExecuted /\ QueuedAreActive /\ CreatedHasRun
      /\ ExecutesWhereAssigned
  BY DEF Init, CompletedWasExecuted, CommittedWasExecuted, QueuedAreActive, CreatedHasRun,
     ExecutesWhereAssigned, Run
<1>2. NodeLoadExactUntilEvicted
  <2>1. \A n \in NodeName : {r \in Run : pc[r] = "exec" /\ on[r] = n} = {}
    BY DEF Init
  <2> QED BY <2>1, FS_EmptySet DEF Init, NodeLoadExactUntilEvicted
<1> QED BY <1>1, <1>2 DEF RecordInv

\* A step that neither counts, executes, commits nor completes anything.
LEMMA StatusFrame ==
    ASSUME RecordInv, UNCHANGED <<gen, assigned, on, okay, journal, nodeLoad>>,
           \A r \in Run : pc'[r] = "exec" <=> pc[r] = "exec",
           \A t \in Task : status'[t] # status[t] => status'[t] # "completed" /\ gen[t] >= 1,
           QueuedAreActive'
    PROVE  RecordInv'
<1>1. (CompletedWasExecuted /\ CommittedWasExecuted)'
  BY DEF RecordInv, CompletedWasExecuted, CommittedWasExecuted
<1>2. CreatedHasRun'
  BY DEF RecordInv, CreatedHasRun
<1>3. ExecutesWhereAssigned'
  BY DEF RecordInv, ExecutesWhereAssigned, NoEviction, Run
<1>4. NodeLoadExactUntilEvicted'
  <2>1. \A n \in NodeName : {r \in Run : pc'[r] = "exec" /\ on'[r] = n}
                              = {r \in Run : pc[r] = "exec" /\ on[r] = n}
    OBVIOUS
  <2> QED BY <2>1 DEF RecordInv, NodeLoadExactUntilEvicted
<1> QED BY <1>1, <1>2, <1>3, <1>4 DEF RecordInv

\* The same, when no status changes either.
LEMMA RecordFrame ==
    ASSUME RecordInv, UNCHANGED <<status, gen, assigned, on, okay, journal, nodeLoad>>,
           \A r \in Run : pc'[r] = "exec" <=> pc[r] = "exec",
           QueuedAreActive'
    PROVE  RecordInv'
BY StatusFrame

\* While s.mu is free nothing waits to be re-queued.
LEMMA NothingQueued == RecordInv /\ mu = Free => todo = {}
BY SchedulerAssumption DEF RecordInv, QueuedAreActive, Free

\* A Submit call creates a task with its first run and its first node.
LEMMA SubmitRecord == ASSUME IInv, RecordInv, NEW t \in Task, Submit(t) PROVE RecordInv'
<1>0. TypeOK /\ NoRunBeforeCreation /\ SubmitHoldsLock /\ FutureRunsUnborn /\ QueuedAreActive
  BY DEF IInv, RecordInv
<1>1. CASE SubmitAdmit(t) \/ SubmitLock(t)
  <2>1. QueuedAreActive'
    BY <1>0, <1>1, NothingQueued DEF SubmitAdmit, SubmitLock, QueuedAreActive
  <2> QED BY <1>1, <2>1, RecordFrame DEF SubmitAdmit, SubmitLock
<1>2. CASE SubmitCreate(t)
  <2> DEFINE r == <<t, 1>>
  <2>1. gen[t] = 0 /\ status[t] = "none" /\ todo = {} /\ mu' = Free
    BY <1>0, <1>2, SchedulerAssumption
    DEF SubmitCreate, NoRunBeforeCreation, SubmitHoldsLock, QueuedAreActive
  <2>2. r \in Run /\ 1 \in 1..MaxRuns
    BY SchedulerAssumption DEF Run
  <2>3. \A k \in 1..MaxRuns : pc[<<t, k>>] = "unborn"
    BY <1>0, <2>1, SchedulerAssumption DEF FutureRunsUnborn
  <2>4. /\ pc' = [pc EXCEPT ![r] = "made"]
        /\ \A u \in Task : gen'[u] = IF u = t THEN 1 ELSE gen[u]
        /\ \A u \in Task : status'[u] = IF u = t THEN "pending" ELSE status[u]
        /\ \A u \in Task : u # t => assigned'[u] = assigned[u]
        /\ UNCHANGED <<on, okay, journal, nodeLoad, todo>>
    BY <1>0, <1>2, <2>1 DEF SubmitCreate, MakeRun, TypeOK
  <2>5. \A q \in Run : pc'[q] = "exec" <=> pc[q] = "exec"
    BY <1>0, <2>2, <2>3, <2>4, SchedulerAssumption DEF TypeOK
  <2>6. (CompletedWasExecuted /\ CommittedWasExecuted)'
    BY <2>4 DEF RecordInv, CompletedWasExecuted, CommittedWasExecuted
  <2>7. QueuedAreActive'
    BY <2>1, <2>4 DEF QueuedAreActive
  <2>8. CreatedHasRun'
    <3>1. assigned'[t] \in NodeName
      BY <1>0, <1>2 DEF SubmitCreate, TypeOK, Candidates, NodeName
    <3> QED BY <2>4, <3>1 DEF RecordInv, CreatedHasRun
  <2>9. NoEviction' => NoEviction
    BY <2>1, <2>4 DEF NoEviction
  <2>10. ExecutesWhereAssigned'
    <3> SUFFICES ASSUME NoEviction', NEW u \in Task, NEW k \in 1..MaxRuns,
                        pc'[<<u, k>>] = "exec"
                 PROVE  on'[<<u, k>>] = assigned'[u]
      BY DEF ExecutesWhereAssigned
    <3>1. <<u, k>> \in Run /\ pc[<<u, k>>] = "exec" /\ u # t
      BY <2>3, <2>5 DEF Run
    <3> QED BY <2>4, <2>9, <3>1 DEF RecordInv, ExecutesWhereAssigned
  <2>11. NodeLoadExactUntilEvicted'
    <3>1. \A n \in NodeName : {q \in Run : pc'[q] = "exec" /\ on'[q] = n}
                                = {q \in Run : pc[q] = "exec" /\ on[q] = n}
      BY <2>4, <2>5
    <3> QED BY <2>4, <2>9, <3>1 DEF RecordInv, NodeLoadExactUntilEvicted, NoEviction
  <2> QED BY <2>6, <2>7, <2>8, <2>10, <2>11 DEF RecordInv
<1> QED BY <1>1, <1>2 DEF Submit

\* Cancel and Shutdown only take active tasks to cancelled.
LEMMA CancelRecord ==
    ASSUME IInv, RecordInv, Shutdown \/ \E t \in Task : Cancel(t)
    PROVE  RecordInv'
<1>0. TypeOK /\ CreatedHasRun /\ todo = {}
  BY NothingQueued DEF IInv, RecordInv, Cancel, Shutdown
<1>1. UNCHANGED <<gen, assigned, on, okay, journal, nodeLoad, pc, todo>>
  BY DEF Cancel, Shutdown
<1>2. ASSUME NEW t \in Task, status'[t] # status[t]
      PROVE  status'[t] # "completed" /\ gen[t] >= 1
  <2>1. status[t] \in Active /\ status'[t] = "cancelled"
    <3>1. CASE Shutdown
      BY <1>0, <1>2, <3>1 DEF Shutdown, TypeOK
    <3>2. ASSUME NEW u \in Task, Cancel(u) PROVE status[t] \in Active /\ status'[t] = "cancelled"
      BY <1>0, <1>2, <3>2 DEF Cancel, TypeOK
    <3> QED BY <3>1, <3>2
  <2> QED BY <1>0, <2>1 DEF Active, CreatedHasRun
<1>3. QueuedAreActive'
  BY <1>0, <1>1 DEF QueuedAreActive
<1> QED BY <1>1, <1>2, <1>3, StatusFrame

\* An eviction gives its victims a second run, and nothing is claimed of the counters then.
LEMMA EvictionRecord ==
    ASSUME IInv, RecordInv, NEW n \in Node, Evict(n) \/ Eviction(n) \/ NodeUp(n)
    PROVE  RecordInv'
<1>0. TypeOK /\ FutureRunsUnborn /\ RunsLeft /\ QueuedAreActive /\ CreatedHasRun
      /\ CancelReachesNewestRun
  BY DEF IInv, RecordInv
<1>1. CASE Evict(n) \/ NodeUp(n)
  <2>1. QueuedAreActive'
    BY <1>0, <1>1 DEF Evict, NodeUp, QueuedAreActive
  <2> QED BY <1>1, <2>1, RecordFrame DEF Evict, NodeUp
<1>2. CASE EvictLock(n)
  <2>1. QueuedAreActive'
    BY <1>2 DEF EvictLock, QueuedAreActive, Victims
  <2> QED BY <1>2, <2>1, RecordFrame DEF EvictLock
<1>3. CASE EvictUnlock(n)
  <2>1. QueuedAreActive'
    BY <1>3 DEF EvictUnlock, QueuedAreActive
  <2>2. \A r \in Run : pc'[r] = "exec" <=> pc[r] = "exec"
    BY <1>3 DEF EvictUnlock
  <2> QED BY <1>3, <2>1, <2>2, RecordFrame DEF EvictUnlock
<1>4. ASSUME NEW t \in Task, EvictRequeue(n, t) PROVE RecordInv'
  <2> DEFINE r == <<t, gen[t] + 1>>
  <2>0. gen[t] < MaxRuns /\ gen[t] \in Nat /\ gen[t] >= 1
    <3>1. t \in todo /\ gen[t] \in 0..MaxRuns
      BY <1>0, <1>4 DEF EvictRequeue, TypeOK
    <3>2. gen[t] >= 1
      BY <1>0, <3>1 DEF QueuedAreActive, CreatedHasRun, Active
    <3> QED BY <1>0, <3>1, <3>2 DEF RunsLeft
  <2>1. gen[t] + 1 \in 1..MaxRuns /\ gen[t] + 1 > gen[t]
    BY <2>0, SchedulerAssumption
  <2>2. r \in Run /\ pc[r] = "unborn"
    BY <1>0, <2>0, <2>1 DEF FutureRunsUnborn, Run
  <2>3. /\ pc' = [pc EXCEPT ![r] = "requeued"]
        /\ \A u \in Task : gen'[u] = IF u = t THEN gen[t] + 1 ELSE gen[u]
        /\ \A u \in Task : status'[u] = IF u = t THEN "pending" ELSE status[u]
        /\ \A u \in Task : u # t => assigned'[u] = assigned[u]
        /\ UNCHANGED <<on, okay, journal, nodeLoad, mu>> /\ todo' = todo \ {t}
    BY <1>0, <1>4 DEF EvictRequeue, MakeRun, TypeOK
  <2>4. (CompletedWasExecuted /\ CommittedWasExecuted)'
    BY <2>3 DEF RecordInv, CompletedWasExecuted, CommittedWasExecuted
  <2>5. QueuedAreActive'
    BY <1>0, <2>3 DEF QueuedAreActive, TypeOK
  <2>6. CreatedHasRun'
    <3>1. assigned'[t] \in NodeName
      BY <1>0, <1>4 DEF EvictRequeue, TypeOK, Candidates, NodeName
    <3> QED BY <1>0, <2>0, <2>1, <2>3, <3>1 DEF CreatedHasRun
  <2>7. ~NoEviction'
    BY <2>0, <2>1, <2>3 DEF NoEviction
  <2>8. ExecutesWhereAssigned' /\ NodeLoadExactUntilEvicted'
    BY <2>7 DEF ExecutesWhereAssigned, NodeLoadExactUntilEvicted, NoEviction
  <2> QED BY <2>4, <2>5, <2>6, <2>8 DEF RecordInv
<1> QED BY <1>1, <1>2, <1>3, <1>4 DEF Eviction


\* A step of one run moves the count of the runs executing on a node by one when
\* that run begins or ends to execute there, and leaves it alone otherwise.
LEMMA LoadStep ==
    ASSUME NEW r \in Run, \A q \in Run \ {r} : pc'[q] = pc[q] /\ on'[q] = on[q],
           NEW n \in NodeName
    PROVE  /\ IsFiniteSet(ExecutingOn(n)) /\ Cardinality(ExecutingOn(n)) \in Nat
           /\ r \notin ExecutingOn(n) /\ pc'[r] = "exec" /\ on'[r] = n
                => Cardinality(ExecutingOn(n)') = Cardinality(ExecutingOn(n)) + 1
           /\ r \in ExecutingOn(n) /\ pc'[r] # "exec"
                => /\ Cardinality(ExecutingOn(n)') = Cardinality(ExecutingOn(n)) - 1
                   /\ Cardinality(ExecutingOn(n)) > 0
           /\ r \notin ExecutingOn(n) /\ (pc'[r] # "exec" \/ on'[r] # n)
                => ExecutingOn(n)' = ExecutingOn(n)
<1>1. IsFiniteSet(ExecutingOn(n)) /\ Cardinality(ExecutingOn(n)) \in Nat
  BY RunFinite, FS_Subset, FS_CardinalityType DEF ExecutingOn
<1>2. ASSUME r \notin ExecutingOn(n), pc'[r] = "exec", on'[r] = n
      PROVE  Cardinality(ExecutingOn(n)') = Cardinality(ExecutingOn(n)) + 1
  <2>1. ExecutingOn(n)' = ExecutingOn(n) \cup {r}
    BY <1>2 DEF ExecutingOn
  <2>2. Cardinality(ExecutingOn(n) \cup {r}) = Cardinality(ExecutingOn(n)) + 1
    BY <1>1, <1>2, FS_AddElement
  <2> QED BY <2>1, <2>2
<1>3. ASSUME r \in ExecutingOn(n), pc'[r] # "exec"
      PROVE  /\ Cardinality(ExecutingOn(n)') = Cardinality(ExecutingOn(n)) - 1
             /\ Cardinality(ExecutingOn(n)) > 0
  <2>1. ExecutingOn(n)' = ExecutingOn(n) \ {r}
    BY <1>3 DEF ExecutingOn
  <2>2. Cardinality(ExecutingOn(n)) # 0
    BY <1>1, <1>3, FS_EmptySet
  <2>3. Cardinality(ExecutingOn(n) \ {r}) = Cardinality(ExecutingOn(n)) - 1
    BY <1>1, <1>3, FS_RemoveElement
  <2> QED BY <1>1, <2>1, <2>2, <2>3
<1>4. ASSUME r \notin ExecutingOn(n), pc'[r] # "exec" \/ on'[r] # n
      PROVE  ExecutingOn(n)' = ExecutingOn(n)
  BY <1>4 DEF ExecutingOn
<1> QED BY <1>1, <1>2, <1>3, <1>4

\* The goroutine of a run.
LEMMA RunRecord ==
    ASSUME IInv, RecordInv, NEW t \in Task, NEW k \in 1..MaxRuns, RunStep(<<t, k>>)
    PROVE  RecordInv'
<1> DEFINE r == <<t, k>>
<1>0. TypeOK /\ FutureRunsUnborn /\ CreatedHasRun /\ r \in Run /\ gen[t] \in Nat
  BY DEF IInv, RecordInv, Run, TypeOK
<1>a. ASSUME pc[r] # "unborn" PROVE gen[t] >= 1 /\ assigned[t] \in NodeName
  BY <1>0, <1>a DEF FutureRunsUnborn, CreatedHasRun, Run
<1>b. r[1] = t
  OBVIOUS
<1>1. CASE Launch(r) \/ RunStart(r) \/ RunRelease(r)
  <2>1. \A q \in Run : pc'[q] = "exec" <=> pc[q] = "exec"
    BY <1>0, <1>1 DEF Launch, RunStart, RunRelease, TypeOK
  <2>2. QueuedAreActive'
    BY <1>1 DEF Launch, RunStart, RunRelease, RecordInv, QueuedAreActive
  <2> QED BY <1>1, <2>1, <2>2, RecordFrame DEF Launch, RunStart, RunRelease
<1>2. CASE RunReject(r) \/ RunMark(r)
  <2>1. todo = {} /\ UNCHANGED <<gen, assigned, on, okay, journal, nodeLoad, todo>>
    BY <1>2, NothingQueued DEF RunReject, RunMark
  <2>2. \A q \in Run : pc'[q] = "exec" <=> pc[q] = "exec"
    BY <1>0, <1>2 DEF RunReject, RunMark, TypeOK
  <2>3. \A u \in Task : status'[u] # status[u] => status'[u] # "completed" /\ gen[u] >= 1
    <3>1. pc[r] # "unborn"
      BY <1>2 DEF RunReject, RunMark
    <3>2. \A u \in Task : status'[u] # status[u] => u = t /\ status'[u] \in {"failed", "running"}
      BY <1>0, <1>2, <1>b DEF RunReject, RunMark, TypeOK
    <3> QED BY <1>a, <3>1, <3>2
  <2>4. QueuedAreActive'
    BY <2>1 DEF QueuedAreActive
  <2> QED BY <2>1, <2>2, <2>3, <2>4, StatusFrame
<1>3. CASE RunAppend(r) \/ RunJournal(r)
  <2>1. UNCHANGED <<status, gen, assigned, on, okay, nodeLoad, todo, mu>>
    BY <1>3 DEF RunAppend, RunJournal
  <2>2. \A q \in Run : pc'[q] = "exec" <=> pc[q] = "exec"
    BY <1>0, <1>3 DEF RunAppend, RunJournal, TypeOK
  <2>3. ASSUME NEW q \in Run, journal'[q] = "committed", journal[q] # "committed"
        PROVE  q = r /\ status[t] = "completed"
    BY <1>0, <1>3, <1>b, <2>3 DEF RunAppend, RunJournal, TypeOK
  <2>4. CommittedWasExecuted'
    BY <1>b, <2>1, <2>3 DEF RecordInv, CommittedWasExecuted, CompletedWasExecuted
  <2>5. (CompletedWasExecuted /\ CreatedHasRun /\ QueuedAreActive)'
    BY <2>1 DEF RecordInv, CompletedWasExecuted, CreatedHasRun, QueuedAreActive
  <2>6. ExecutesWhereAssigned'
    BY <2>1, <2>2 DEF RecordInv, ExecutesWhereAssigned, NoEviction, Run
  <2>7. NodeLoadExactUntilEvicted'
    <3>1. \A n \in NodeName : {q \in Run : pc'[q] = "exec" /\ on'[q] = n}
                                = {q \in Run : pc[q] = "exec" /\ on[q] = n}
      BY <2>1, <2>2
    <3> QED BY <2>1, <3>1 DEF RecordInv, NodeLoadExactUntilEvicted
  <2> QED BY <2>4, <2>5, <2>6, <2>7 DEF RecordInv
<1>4. CASE RunCount(r)
  <2>1. /\ UNCHANGED <<status, gen, assigned, okay, journal, todo, mu>>
        /\ pc[r] = "count" /\ pc' = [pc EXCEPT ![r] = "exec"]
        /\ on' = [on EXCEPT ![r] = assigned[t]]
        /\ nodeLoad' = [nodeLoad EXCEPT ![assigned[t]] = @ + 1]
    BY <1>4, <1>b DEF RunCount
  <2>2. assigned[t] \in NodeName
    BY <1>a, <2>1
  <2>3. (CompletedWasExecuted /\ CommittedWasExecuted /\ CreatedHasRun /\ QueuedAreActive)'
    BY <2>1 DEF RecordInv, CompletedWasExecuted, CommittedWasExecuted, CreatedHasRun,
       QueuedAreActive
  <2>4. ExecutesWhereAssigned'
    <3>1. \A q \in Run : /\ pc'[q] = IF q = r THEN "exec" ELSE pc[q]
                         /\ on'[q] = IF q = r THEN assigned[t] ELSE on[q]
      BY <1>0, <2>1 DEF TypeOK
    <3> QED BY <2>1, <3>1 DEF RecordInv, ExecutesWhereAssigned, NoEviction, Run
  <2>5. ASSUME NEW n \in NodeName, nodeLoad[n] = Cardinality(ExecutingOn(n))
        PROVE  nodeLoad'[n] = Cardinality(ExecutingOn(n)')
    <3>1. nodeLoad'[n] = IF n = assigned[t] THEN nodeLoad[n] + 1 ELSE nodeLoad[n]
      BY <1>0, <2>1, <2>2 DEF TypeOK
    <3>2. \A q \in Run : /\ pc'[q] = IF q = r THEN "exec" ELSE pc[q]
                         /\ on'[q] = IF q = r THEN assigned[t] ELSE on[q]
      BY <1>0, <2>1 DEF TypeOK
    <3>3. r \notin ExecutingOn(n) /\ pc'[r] = "exec" /\ on'[r] = assigned[t]
      BY <1>0, <2>1, <3>2 DEF ExecutingOn
    <3>4. /\ n = assigned[t] => Cardinality(ExecutingOn(n)') = Cardinality(ExecutingOn(n)) + 1
          /\ n # assigned[t] => ExecutingOn(n)' = ExecutingOn(n)
      BY <1>0, <3>2, <3>3, LoadStep
    <3> QED BY <2>5, <3>1, <3>4
  <2>6. NodeLoadExactUntilEvicted'
    BY <2>1, <2>5 DEF RecordInv, NodeLoadExactUntilEvicted, ExecutingOn
  <2> QED BY <2>3, <2>4, <2>6 DEF RecordInv
<1>5. CASE RunExecuted(r)
  <2>1. /\ UNCHANGED <<status, gen, assigned, journal, todo, mu>>
        /\ pc[r] = "exec" /\ pc' = [pc EXCEPT ![r] = "finalize"]
        /\ on' = [on EXCEPT ![r] = NoNode]
        /\ nodeLoad' = [nodeLoad EXCEPT ![assigned[t]] = IF @ > 0 THEN @ - 1 ELSE 0]
        /\ okay \subseteq okay'
    BY <1>5, <1>b DEF RunExecuted
  <2>2. assigned[t] \in NodeName
    BY <1>a, <2>1
  <2>3. (CompletedWasExecuted /\ CommittedWasExecuted /\ CreatedHasRun /\ QueuedAreActive)'
    BY <2>1 DEF RecordInv, CompletedWasExecuted, CommittedWasExecuted, CreatedHasRun,
       QueuedAreActive
  <2>4. ExecutesWhereAssigned'
    <3>1. \A q \in Run : /\ pc'[q] = IF q = r THEN "finalize" ELSE pc[q]
                         /\ on'[q] = IF q = r THEN NoNode ELSE on[q]
      BY <1>0, <2>1 DEF TypeOK
    <3> QED BY <2>1, <3>1 DEF RecordInv, ExecutesWhereAssigned, NoEviction, Run
  <2>5. ASSUME NoEviction, NEW n \in NodeName, nodeLoad[n] = Cardinality(ExecutingOn(n))
        PROVE  nodeLoad'[n] = Cardinality(ExecutingOn(n)')
    <3>1. on[r] = assigned[t]
      BY <2>1, <2>5 DEF RecordInv, ExecutesWhereAssigned
    <3>2. nodeLoad'[n] = IF n = assigned[t] THEN IF nodeLoad[n] > 0 THEN nodeLoad[n] - 1 ELSE 0
                                            ELSE nodeLoad[n]
      BY <1>0, <2>1, <2>2 DEF TypeOK
    <3>3. \A q \in Run : /\ pc'[q] = IF q = r THEN "finalize" ELSE pc[q]
                         /\ on'[q] = IF q = r THEN NoNode ELSE on[q]
      BY <1>0, <2>1 DEF TypeOK
    <3>4. (r \in ExecutingOn(n) <=> n = assigned[t]) /\ pc'[r] # "exec"
      BY <1>0, <2>1, <3>1, <3>3 DEF ExecutingOn
    <3>5. /\ Cardinality(ExecutingOn(n)) \in Nat
          /\ n = assigned[t] => /\ Cardinality(ExecutingOn(n)') = Cardinality(ExecutingOn(n)) - 1
                                /\ Cardinality(ExecutingOn(n)) > 0
          /\ n # assigned[t] => ExecutingOn(n)' = ExecutingOn(n)
      BY <1>0, <3>3, <3>4, LoadStep
    <3> QED BY <2>5, <3>2, <3>5
  <2>6. NodeLoadExactUntilEvicted'
    BY <2>1, <2>5 DEF RecordInv, NodeLoadExactUntilEvicted, ExecutingOn, NoEviction
  <2> QED BY <2>3, <2>4, <2>6 DEF RecordInv
<1>6. CASE RunFinalize(r)
  <2>1. /\ todo = {} /\ UNCHANGED <<gen, assigned, on, okay, journal, nodeLoad, todo>>
        /\ pc[r] = "finalize"
        /\ status' = [status EXCEPT ![t] = IF @ = "cancelled" THEN @
                                           ELSE IF r \in okay THEN "completed" ELSE "failed"]
    BY <1>6, <1>b, NothingQueued DEF RunFinalize
  <2>2. \A q \in Run : pc'[q] = "exec" <=> pc[q] = "exec"
    BY <1>0, <1>6 DEF RunFinalize, TypeOK
  <2>3. \A u \in Task : status'[u] = IF u = t THEN IF status[t] = "cancelled" THEN status[t]
                                           ELSE IF r \in okay THEN "completed" ELSE "failed"
                                     ELSE status[u]
    BY <1>0, <2>1 DEF TypeOK
  <2>4. (CompletedWasExecuted /\ CommittedWasExecuted)'
    <3>1. CommittedWasExecuted'
      BY <2>1 DEF RecordInv, CommittedWasExecuted
    <3>2. ASSUME NEW u \in Task, status'[u] = "completed"
          PROVE  status[u] = "completed" \/ <<u, k>> \in okay
      BY <2>3, <3>2
    <3>3. CompletedWasExecuted'
      BY <2>1, <3>2 DEF RecordInv, CompletedWasExecuted
    <3> QED BY <3>1, <3>3
  <2>5. CreatedHasRun'
    BY <1>0, <1>a, <2>1, <2>3 DEF CreatedHasRun
  <2>6. QueuedAreActive'
    BY <2>1 DEF QueuedAreActive
  <2>7. ExecutesWhereAssigned'
    BY <2>1, <2>2 DEF RecordInv, ExecutesWhereAssigned, NoEviction, Run
  <2>8. NodeLoadExactUntilEvicted'
    <3>1. \A n \in NodeName : {q \in Run : pc'[q] = "exec" /\ on'[q] = n}
                                = {q \in Run : pc[q] = "exec" /\ on[q] = n}
      BY <2>1, <2>2
    <3> QED BY <2>1, <3>1 DEF RecordInv, NodeLoadExactUntilEvicted
  <2> QED BY <2>4, <2>5, <2>6, <2>7, <2>8 DEF RecordInv
<1> QED BY <1>1, <1>2, <1>3, <1>4, <1>5, <1>6 DEF RunStep

\* Every step of the scheduler keeps the second invariant.
LEMMA NextRecord == IInv /\ RecordInv /\ [Next]_vars => RecordInv'
<1> SUFFICES ASSUME IInv, RecordInv, [Next]_vars PROVE RecordInv'
  OBVIOUS
<1>1. ASSUME NEW r \in Run, RunStep(r) PROVE RecordInv'
  <2>1. PICK t \in Task, k \in 1..MaxRuns : r = <<t, k>>
    BY DEF Run
  <2> QED BY <1>1, <2>1, RunRecord
<1>2. CASE UNCHANGED vars
  <2>1. QueuedAreActive'
    BY <1>2 DEF vars, RecordInv, QueuedAreActive
  <2> QED BY <1>2, <2>1, RecordFrame DEF vars
<1> QED BY <1>1, <1>2, SubmitRecord, CancelRecord, EvictionRecord DEF Next

\* The second invariant holds in every state.
LEMMA RecordInvariance == Spec => []RecordInv
BY Invariance, InitRecord, NextRecord, PTL DEF Spec

\* An entry of the log is committed only for a task one of whose runs succeeded.
THEOREM CommitsAreExecutions == Spec => []CommittedWasExecuted
<1>1. RecordInv => CommittedWasExecuted
  BY DEF RecordInv
<1> QED BY RecordInvariance, <1>1, PTL

\* Until the first eviction the counter of every node is the number of the runs
\* that execute on it.
THEOREM NodeLoadExact == Spec => []NodeLoadExactUntilEvicted
<1>1. RecordInv => NodeLoadExactUntilEvicted
  BY DEF RecordInv
<1> QED BY RecordInvariance, <1>1, PTL

\* A step takes a task out of cancelled only when one of its runs is past the
\* cancellation guard and has not marked it yet.
LEMMA CancelledStep ==
    ASSUME IInv, RecordInv, [Next]_vars, NEW t \in Task, status[t] = "cancelled",
           \A k \in 1..MaxRuns : pc[<<t, k>>] # "validate"
    PROVE  status'[t] = "cancelled"
<1>0. TypeOK /\ NoRunBeforeCreation /\ SubmitHoldsLock /\ QueuedAreActive
  BY DEF IInv, RecordInv
<1>1. ASSUME NEW u \in Task, Submit(u) PROVE status'[t] = "cancelled"
  <2>1. CASE SubmitCreate(u)
    <3>1. u # t
      BY <1>0, <2>1 DEF SubmitCreate, NoRunBeforeCreation
    <3> QED BY <1>0, <2>1, <3>1 DEF SubmitCreate, TypeOK
  <2> QED BY <1>1, <2>1 DEF Submit, SubmitAdmit, SubmitLock
<1>2. ASSUME NEW u \in Task, Cancel(u) PROVE status'[t] = "cancelled"
  BY <1>0, <1>2 DEF Cancel, TypeOK
<1>3. ASSUME NEW u \in Task, NEW k \in 1..MaxRuns, RunStep(<<u, k>>) PROVE status'[t] = "cancelled"
  <2>1. CASE RunReject(<<u, k>>) \/ RunMark(<<u, k>>)
    <3>1. u # t
      BY <2>1 DEF RunReject, RunMark
    <3> QED BY <1>0, <2>1, <3>1 DEF RunReject, RunMark, TypeOK
  <2>2. CASE RunFinalize(<<u, k>>)
    BY <1>0, <2>2 DEF RunFinalize, TypeOK
  <2> QED BY <1>3, <2>1, <2>2
      DEF RunStep, Launch, RunStart, RunAppend, RunCount, RunExecuted, RunJournal, RunRelease
<1>4. ASSUME NEW n \in Node, Evict(n) \/ Eviction(n) \/ NodeUp(n) PROVE status'[t] = "cancelled"
  <2>1. ASSUME NEW u \in Task, EvictRequeue(n, u) PROVE status'[t] = "cancelled"
    <3>1. u # t
      BY <1>0, <2>1 DEF EvictRequeue, QueuedAreActive, Active
    <3> QED BY <1>0, <2>1, <3>1 DEF EvictRequeue, TypeOK
  <2> QED BY <1>4, <2>1 DEF Eviction, Evict, NodeUp, EvictLock, EvictUnlock
<1>5. CASE Shutdown
  BY <1>0, <1>5 DEF Shutdown, TypeOK, Active
<1>6. CASE UNCHANGED vars
  BY <1>6 DEF vars
<1>7. ASSUME NEW r \in Run, RunStep(r) PROVE status'[t] = "cancelled"
  <2>1. PICK u \in Task, k \in 1..MaxRuns : r = <<u, k>>
    BY DEF Run
  <2> QED BY <1>3, <1>7, <2>1
<1> QED BY <1>1, <1>2, <1>4, <1>5, <1>6, <1>7 DEF Next

\* "If the task was already cancelled while running, keep the cancelled status."
THEOREM CancellationStays == Spec => CancelledWhileRunningStays
<1>1. IInv /\ RecordInv /\ [Next]_vars
        => [\A t \in Task :
              status[t] = "cancelled" /\ (\A k \in 1..MaxRuns : pc[<<t, k>>] # "validate")
                => status'[t] = "cancelled"]_vars
  BY CancelledStep
<1> QED BY Invariance, RecordInvariance, <1>1, PTL DEF Spec, CancelledWhileRunningStays

=============================================================================
