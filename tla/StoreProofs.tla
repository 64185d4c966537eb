---------------------------- MODULE StoreProofs ----------------------------
(***************************************************************************)
(* The rows of the Runtime store under each repository method, for any     *)
(* plan, whoever calls it: they stay well formed, the Run row agrees with  *)
(* its Steps, what has ended stays as it is, and the whole is a history of *)
(* RunLedger.  The callers prove their own steps to be steps of StoreSpec  *)
(* and inherit all of it.                                                  *)
(***************************************************************************)
EXTENDS StoreRefinement, TLAPS

\* A live Step belongs to a RUNNING Run: no transaction ends or parks a Run and
\* leaves one of its Steps to a holder.
LiveRunIsRunning ==
    \A s \in Step : LiveStep(s) => runState[RunOf[s]] = "RUNNING"

\* What the rows satisfy between two transactions.
StoreInv ==
    /\ StoreTypeOK
    /\ OneLiveStepPerRun
    /\ CurrentAttemptIsTheLiveOne
    /\ FencesGrow
    /\ LiveRunIsRunning

NoNewLiveStep == \A s \in Step : LiveStep(s)' => LiveStep(s)

USE DEF AttemptNo

-----------------------------------------------------------------------------
(* One lemma per repository method: the rows stay well formed, and no      *)
(* method but claim_next makes a Step live.                                *)

(* Two general facts first, for the methods that leave the Attempts alone  *)
(* and for those that close the current one.                               *)

LEMMA QuietKeeps ==
    ASSUME StoreInv, UNCHANGED <<fence, current, attempt, tried>>,
           runState' \in [Run -> RunStates], stepState' \in [Step -> StepStates],
           lease' \in [Step -> 0..LeaseTerm],
           overdue' \in [Step -> BOOLEAN], delayed' \in [Step -> BOOLEAN],
           \A t \in Step : /\ LiveStep(t)' <=> LiveStep(t)
                           /\ lease'[t] > 0 => LiveStep(t)
                           /\ LiveStep(t) => /\ stepState'[t] = stepState[t]
                                             /\ runState'[RunOf[t]] = "RUNNING"
    PROVE  StoreInv' /\ NoNewLiveStep
<1> USE DEF StoreInv
<1>1. StoreTypeOK'
  BY DEF StoreTypeOK
<1>2. OneLiveStepPerRun'
  BY DEF OneLiveStepPerRun
<1>3. CurrentAttemptIsTheLiveOne'
  BY DEF CurrentAttemptIsTheLiveOne
<1>4. FencesGrow' /\ LiveRunIsRunning' /\ NoNewLiveStep
  BY DEF FencesGrow, LiveRunIsRunning, NoNewLiveStep
<1> QED
  BY <1>1, <1>2, <1>3, <1>4

LEMMA CloseKeeps ==
    ASSUME StoreInv, NEW s \in Step, NEW n \in AttemptNo,
           NEW x \in AttemptStates \ LiveStates,
           current[s] = n, Close(s, n, x), UNCHANGED <<fence, tried, overdue>>,
           runState' \in [Run -> RunStates], stepState' \in [Step -> StepStates],
           delayed' \in [Step -> BOOLEAN],
           ~LiveStep(s)',
           \A t \in Step : t # s =>
                /\ LiveStep(t)' <=> LiveStep(t)
                /\ LiveStep(t) => stepState'[t] = stepState[t],
           \A r \in Run : r # RunOf[s] => runState'[r] = runState[r]
    PROVE  StoreInv' /\ NoNewLiveStep
<1> USE PlanAssumption, BudgetAssumption DEF StoreInv
<1>1. LiveStep(s) /\ n # 0 /\ n = tried[s] /\ n <= tried[s]
  BY DEF CurrentAttemptIsTheLiveOne, StoreTypeOK
<1>2. /\ current'[s] = 0 /\ lease'[s] = 0
      /\ attempt'[s][n].state = x /\ attempt'[s][n].fence = attempt[s][n].fence
      /\ \A k \in AttemptNo : k # n => attempt'[s][k] = attempt[s][k]
  BY DEF Close, StoreTypeOK, AttemptRows
<1>3. \A t \in Step : t # s =>
        /\ current'[t] = current[t] /\ lease'[t] = lease[t]
        /\ attempt'[t] = attempt[t]
  BY DEF Close, StoreTypeOK
<1>4. StoreTypeOK'
  <2> DEFINE row == [attempt[s][n] EXCEPT !.state = x]
  <2>1. attempt[s][n] \in AttemptRows
    BY DEF StoreTypeOK
  <2>2. row \in AttemptRows
    BY <2>1 DEF AttemptRows
  <2>3. attempt' = [attempt EXCEPT ![s] = [attempt[s] EXCEPT ![n] = row]]
    BY DEF Close
  <2> HIDE DEF row
  <2>4. attempt' \in [Step -> [AttemptNo -> AttemptRows]]
    BY <2>2, <2>3 DEF StoreTypeOK
  <2> QED
    BY <2>4 DEF Close, StoreTypeOK
<1>5. OneLiveStepPerRun'
  BY DEF OneLiveStepPerRun
<1>6. CurrentAttemptIsTheLiveOne'
  <2> SUFFICES ASSUME NEW t \in Step
               PROVE  CurrentAttemptIsTheLiveOne!(t)'
    BY DEF CurrentAttemptIsTheLiveOne
  <2>1. CASE t = s
    <3>1. \A k \in AttemptNo : k # n => attempt[s][k].state \notin LiveStates
      BY DEF CurrentAttemptIsTheLiveOne
    <3>2. \A k \in AttemptNo : k # 0
      OBVIOUS
    <3> QED
      BY <2>1, <1>2, <3>1, <3>2
  <2>2. CASE t # s
    BY <2>2, <1>3 DEF CurrentAttemptIsTheLiveOne
  <2> QED
    BY <2>1, <2>2
<1>7. FencesGrow'
  <2> SUFFICES ASSUME NEW t \in Step
               PROVE  FencesGrow!(t)'
    BY DEF FencesGrow
  <2>1. CASE t = s
    <3>1. x # "ABSENT"
      BY DEF AttemptStates, LiveStates
    <3>2. n \in Nat /\ tried[s] \in Nat
      BY DEF StoreTypeOK, AttemptNo
    <3>3. ~(n > tried[s])
      BY <1>1, <3>2
    <3> QED
      BY <2>1, <1>2, <3>1, <3>3 DEF FencesGrow
  <2>2. CASE t # s
    BY <2>2, <1>3 DEF FencesGrow
  <2> QED
    BY <2>1, <2>2
<1>8. LiveRunIsRunning'
  <2> SUFFICES ASSUME NEW t \in Step, LiveStep(t)'
               PROVE  runState'[RunOf[t]] = "RUNNING"
    BY DEF LiveRunIsRunning
  <2>1. t # s /\ LiveStep(t)
    OBVIOUS
  <2>2. RunOf[t] # RunOf[s]
    BY <2>1, <1>1 DEF OneLiveStepPerRun
  <2> QED
    BY <2>1, <2>2 DEF LiveRunIsRunning
<1>9. NoNewLiveStep
  BY <1>1 DEF NoNewLiveStep
<1> QED
  BY <1>4, <1>5, <1>6, <1>7, <1>8, <1>9

LEMMA InsertClaimKeeps ==
    ASSUME StoreInv, NEW s \in Step, InsertClaim(s), stepState[s] = "READY",
           runState[RunOf[s]] = "RUNNING", Idle(RunOf[s])
    PROVE  StoreInv'
<1> DEFINE m == tried[s] + 1
<1> USE PlanAssumption, BudgetAssumption DEF StoreInv
<1>1. m \in AttemptNo /\ m <= MaxAttempts[s] /\ fence[s] + 1 = m
  <2>1. tried[s] \in 0..MaxBudget /\ MaxAttempts[s] \in 1..MaxBudget /\ MaxBudget \in Nat
    BY DEF StoreTypeOK
  <2>2. m <= MaxAttempts[s]
    BY DEF InsertClaim
  <2>3. fence[s] = tried[s]
    BY DEF FencesGrow
  <2> QED
    BY <2>1, <2>2, <2>3
<1>2. /\ stepState'[s] = "CLAIMED" /\ tried'[s] = m /\ current'[s] = m
      /\ fence'[s] = m /\ attempt'[s][m] = [state |-> "CLAIMED", fence |-> m]
      /\ \A k \in AttemptNo : k # m => attempt'[s][k] = attempt[s][k]
  BY <1>1 DEF InsertClaim, StoreTypeOK
<1>3. \A t \in Step : t # s =>
        /\ stepState'[t] = stepState[t] /\ tried'[t] = tried[t]
        /\ current'[t] = current[t] /\ fence'[t] = fence[t]
        /\ attempt'[t] = attempt[t] /\ lease'[t] = lease[t]
  BY DEF InsertClaim, StoreTypeOK
<1>4. runState' = runState
  BY DEF InsertClaim
<1>5. StoreTypeOK'
  <2>1. [state |-> "CLAIMED", fence |-> m] \in AttemptRows
    BY <1>1 DEF AttemptRows, AttemptStates, LiveStates
  <2>2. attempt' \in [Step -> [AttemptNo -> AttemptRows]]
    BY <1>1, <2>1 DEF InsertClaim, StoreTypeOK
  <2> QED
    BY <1>1, <2>2 DEF InsertClaim, StoreTypeOK, StepStates
<1>6. OneLiveStepPerRun'
  BY <1>2, <1>3 DEF OneLiveStepPerRun, LiveStep, Idle
<1>7. CurrentAttemptIsTheLiveOne'
  <2> SUFFICES ASSUME NEW t \in Step
               PROVE  CurrentAttemptIsTheLiveOne!(t)'
    BY DEF CurrentAttemptIsTheLiveOne
  <2>1. CASE t = s
    <3>1. m \in Nat /\ m # 0
      BY <1>1, BudgetAssumption
    <3>2. LiveStep(s)'
      BY <1>2 DEF LiveStep, LiveStates
    <3>3. \A k \in AttemptNo : k # m => attempt[s][k].state \notin LiveStates
      BY DEF CurrentAttemptIsTheLiveOne, LiveStep, LiveStates
    <3> QED
      BY <2>1, <1>2, <3>1, <3>2, <3>3
  <2>2. CASE t # s
    BY <2>2, <1>3 DEF CurrentAttemptIsTheLiveOne, LiveStep
  <2> QED
    BY <2>1, <2>2
<1>8. FencesGrow'
  <2> SUFFICES ASSUME NEW t \in Step
               PROVE  FencesGrow!(t)'
    BY DEF FencesGrow
  <2>1. CASE t = s
    <3>1. tried[s] \in Nat /\ MaxBudget \in Nat
      BY DEF StoreTypeOK
    <3>2. \A k \in AttemptNo : /\ k > m <=> k > tried[s] /\ k # m
                               /\ k <= m <=> k <= tried[s] \/ k = m
      BY <3>1
    <3>3. attempt'[s][m].state = "CLAIMED" /\ attempt'[s][m].fence = m
      BY <1>2
    <3>4. \A k \in AttemptNo : k # m =>
            /\ attempt'[s][k].state = "ABSENT" <=> k > tried[s]
            /\ k <= tried[s] => attempt'[s][k].fence = k
      BY <1>2 DEF FencesGrow
    <3> QED
      BY <2>1, <1>1, <1>2, <3>1, <3>2, <3>3, <3>4
  <2>2. CASE t # s
    BY <2>2, <1>3 DEF FencesGrow
  <2> QED
    BY <2>1, <2>2
<1>9. LiveRunIsRunning'
  BY <1>2, <1>3, <1>4 DEF LiveRunIsRunning, LiveStep
<1> QED
  BY <1>5, <1>6, <1>7, <1>8, <1>9

LEMMA StartRunKeeps ==
    ASSUME StoreInv, NEW r \in Run, StartRun(r)
    PROVE  StoreInv' /\ NoNewLiveStep
<1>1. /\ runState' \in [Run -> RunStates] /\ stepState' \in [Step -> StepStates]
      /\ lease' \in [Step -> 0..LeaseTerm]
      /\ overdue' \in [Step -> BOOLEAN] /\ delayed' \in [Step -> BOOLEAN]
  BY DEF StartRun, StoreInv, StoreTypeOK, RunStates, StepStates
<1>2. \A t \in Step : /\ LiveStep(t)' <=> LiveStep(t)
                      /\ lease'[t] > 0 => LiveStep(t)
                      /\ LiveStep(t) => /\ stepState'[t] = stepState[t]
                                        /\ runState'[RunOf[t]] = "RUNNING"
  BY PlanAssumption DEF StartRun, StoreInv, StoreTypeOK, LiveStep, LiveStates,
     LiveRunIsRunning, CurrentAttemptIsTheLiveOne
<1> QED
  BY <1>1, <1>2, QuietKeeps DEF StartRun

LEMMA HeartbeatKeeps ==
    ASSUME StoreInv, NEW s \in Step, NEW n \in AttemptNo, Heartbeat(s, n)
    PROVE  StoreInv' /\ NoNewLiveStep
<1>1. /\ runState' \in [Run -> RunStates] /\ stepState' \in [Step -> StepStates]
      /\ lease' \in [Step -> 0..LeaseTerm]
      /\ overdue' \in [Step -> BOOLEAN] /\ delayed' \in [Step -> BOOLEAN]
  BY BudgetAssumption DEF Heartbeat, StoreInv, StoreTypeOK
<1>2. \A t \in Step : /\ LiveStep(t)' <=> LiveStep(t)
                      /\ lease'[t] > 0 => LiveStep(t)
                      /\ LiveStep(t) => /\ stepState'[t] = stepState[t]
                                        /\ runState'[RunOf[t]] = "RUNNING"
  BY DEF Heartbeat, OwnsFence, StoreInv, StoreTypeOK, LiveStep,
     LiveRunIsRunning, CurrentAttemptIsTheLiveOne
<1> QED
  BY <1>1, <1>2, QuietKeeps DEF Heartbeat

LEMMA ResumeKeeps ==
    ASSUME StoreInv, NEW s \in Step, ResumeWaiting(s)
    PROVE  StoreInv' /\ NoNewLiveStep
<1>1. /\ runState' \in [Run -> RunStates] /\ stepState' \in [Step -> StepStates]
      /\ lease' \in [Step -> 0..LeaseTerm]
      /\ overdue' \in [Step -> BOOLEAN] /\ delayed' \in [Step -> BOOLEAN]
  BY DEF ResumeWaiting, StoreInv, StoreTypeOK, RunStates, StepStates
<1>2. \A t \in Step : /\ LiveStep(t)' <=> LiveStep(t)
                      /\ lease'[t] > 0 => LiveStep(t)
                      /\ LiveStep(t) => /\ stepState'[t] = stepState[t]
                                        /\ runState'[RunOf[t]] = "RUNNING"
  <2>1. \A t \in Step : t # s => stepState'[t] = stepState[t]
    BY DEF ResumeWaiting, StoreInv, StoreTypeOK
  <2>2. ~LiveStep(s) /\ ~LiveStep(s)'
    BY DEF ResumeWaiting, StoreInv, StoreTypeOK, LiveStep, LiveStates
  <2>3. \A t \in Step : LiveStep(t) => RunOf[t] # RunOf[s]
    BY DEF ResumeWaiting, StoreInv, LiveRunIsRunning
  <2>4. \A t \in Step : LiveStep(t) => runState'[RunOf[t]] = "RUNNING"
    BY <2>3, PlanAssumption DEF ResumeWaiting, StoreInv, StoreTypeOK, LiveRunIsRunning
  <2>5. \A t \in Step : lease'[t] > 0 => LiveStep(t)
    BY DEF ResumeWaiting, StoreInv, CurrentAttemptIsTheLiveOne
  <2> QED
    BY <2>1, <2>2, <2>4, <2>5 DEF LiveStep
<1> QED
  BY <1>1, <1>2, QuietKeeps DEF ResumeWaiting

LEMMA ClockKeeps ==
    ASSUME StoreInv, NEW s \in Step,
           LeaseTick(s) \/ DeadlinePasses(s) \/ BackoffElapses(s)
    PROVE  StoreInv' /\ NoNewLiveStep
<1>1. /\ UNCHANGED <<runState, stepState, fence, current, attempt, tried>>
      /\ lease' \in [Step -> 0..LeaseTerm]
      /\ overdue' \in [Step -> BOOLEAN] /\ delayed' \in [Step -> BOOLEAN]
      /\ \A t \in Step : lease'[t] > 0 => lease[t] > 0
  <2>1. CASE LeaseTick(s)
    <3>1. lease[s] - 1 \in 0..LeaseTerm
      BY <2>1, BudgetAssumption DEF LeaseTick, StoreInv, StoreTypeOK
    <3>2. lease' \in [Step -> 0..LeaseTerm]
      BY <2>1, <3>1 DEF LeaseTick, StoreInv, StoreTypeOK
    <3>3. \A t \in Step : lease'[t] > 0 => lease[t] > 0
      BY <2>1 DEF LeaseTick, StoreInv, StoreTypeOK
    <3> QED
      BY <2>1, <3>2, <3>3 DEF LeaseTick, StoreInv, StoreTypeOK
  <2>2. CASE DeadlinePasses(s)
    BY <2>2 DEF DeadlinePasses, StoreInv, StoreTypeOK
  <2>3. CASE BackoffElapses(s)
    BY <2>3 DEF BackoffElapses, StoreInv, StoreTypeOK
  <2> QED
    BY <2>1, <2>2, <2>3
<1>2. runState' \in [Run -> RunStates] /\ stepState' \in [Step -> StepStates]
  BY <1>1 DEF StoreInv, StoreTypeOK
<1>3. \A t \in Step : /\ LiveStep(t)' <=> LiveStep(t)
                      /\ lease'[t] > 0 => LiveStep(t)
                      /\ LiveStep(t) => /\ stepState'[t] = stepState[t]
                                        /\ runState'[RunOf[t]] = "RUNNING"
  BY <1>1 DEF StoreInv, LiveStep, LiveRunIsRunning, CurrentAttemptIsTheLiveOne
<1> QED
  BY <1>1, <1>2, <1>3, QuietKeeps

LEMMA StartAttemptKeeps ==
    ASSUME StoreInv, NEW s \in Step, NEW n \in AttemptNo, StartAttempt(s, n)
    PROVE  StoreInv' /\ NoNewLiveStep
<1> USE PlanAssumption, BudgetAssumption DEF StoreInv
<1>1. LiveStep(s) /\ current[s] = n /\ n # 0 /\ n = tried[s]
  BY DEF StartAttempt, OwnsFence, CurrentAttemptIsTheLiveOne, LiveStep, LiveStates
<1>2. /\ stepState'[s] = "RUNNING"
      /\ attempt'[s][n].state = "RUNNING"
      /\ attempt'[s][n].fence = attempt[s][n].fence
      /\ \A k \in AttemptNo : k # n => attempt'[s][k] = attempt[s][k]
  BY DEF StartAttempt, StoreTypeOK, AttemptRows
<1>3. /\ UNCHANGED <<runState, fence, current, tried, lease, overdue, delayed>>
      /\ \A t \in Step : t # s => /\ stepState'[t] = stepState[t]
                                   /\ attempt'[t] = attempt[t]
  BY DEF StartAttempt, StoreTypeOK
<1>4. \A t \in Step : LiveStep(t)' <=> LiveStep(t)
  BY <1>1, <1>2, <1>3 DEF LiveStep, LiveStates
<1>5. StoreTypeOK'
  <2> DEFINE row == [attempt[s][n] EXCEPT !.state = "RUNNING"]
  <2>1. attempt[s][n] \in AttemptRows
    BY DEF StoreTypeOK
  <2>2. row \in AttemptRows
    BY <2>1 DEF AttemptRows, AttemptStates, LiveStates
  <2>3. attempt' = [attempt EXCEPT ![s] = [attempt[s] EXCEPT ![n] = row]]
    BY DEF StartAttempt
  <2> HIDE DEF row
  <2>4. attempt' \in [Step -> [AttemptNo -> AttemptRows]]
    BY <2>2, <2>3 DEF StoreTypeOK
  <2> QED
    BY <2>4 DEF StartAttempt, StoreTypeOK, StepStates
<1>6. OneLiveStepPerRun'
  BY <1>4 DEF OneLiveStepPerRun
<1>7. CurrentAttemptIsTheLiveOne'
  <2> SUFFICES ASSUME NEW t \in Step
               PROVE  CurrentAttemptIsTheLiveOne!(t)'
    BY DEF CurrentAttemptIsTheLiveOne
  <2>1. CASE t = s
    BY <2>1, <1>1, <1>2, <1>3, <1>4 DEF CurrentAttemptIsTheLiveOne, LiveStates
  <2>2. CASE t # s
    BY <2>2, <1>3, <1>4 DEF CurrentAttemptIsTheLiveOne
  <2> QED
    BY <2>1, <2>2
<1>8. FencesGrow'
  <2> SUFFICES ASSUME NEW t \in Step
               PROVE  FencesGrow!(t)'
    BY DEF FencesGrow
  <2>1. CASE t = s
    <3>1. ~(n > tried[s])
      BY <1>1 DEF StoreTypeOK
    <3> QED
      BY <2>1, <1>2, <1>3, <3>1 DEF FencesGrow
  <2>2. CASE t # s
    BY <2>2, <1>3 DEF FencesGrow
  <2> QED
    BY <2>1, <2>2
<1>9. LiveRunIsRunning' /\ NoNewLiveStep
  BY <1>3, <1>4 DEF LiveRunIsRunning, NoNewLiveStep
<1> QED
  BY <1>5, <1>6, <1>7, <1>8, <1>9

LEMMA SucceedKeeps ==
    ASSUME StoreInv, NEW s \in Step, NEW n \in AttemptNo, SucceedAttempt(s, n)
    PROVE  StoreInv' /\ NoNewLiveStep
<1> DEFINE state == [stepState EXCEPT ![s] = "SUCCEEDED"]
<1>1. /\ current[s] = n /\ Close(s, n, "SUCCEEDED")
      /\ UNCHANGED <<fence, tried, overdue, delayed>>
      /\ stepState' = ReleaseSuccessors(RunOf[s], state)
  BY DEF SucceedAttempt, OwnsFence
<1>2. "SUCCEEDED" \in AttemptStates \ LiveStates
  BY DEF AttemptStates, LiveStates
<1>3. /\ state \in [Step -> StepStates] /\ state[s] = "SUCCEEDED"
      /\ \A t \in Step : t # s => state[t] = stepState[t]
  BY DEF StoreInv, StoreTypeOK, StepStates
<1> HIDE DEF state
<1>4. \A t \in Step : \/ stepState'[t] = state[t]
                      \/ state[t] = "PENDING" /\ stepState'[t] = "READY"
  BY <1>1 DEF ReleaseSuccessors
<1>5. stepState' \in [Step -> StepStates]
  BY <1>1, <1>3 DEF ReleaseSuccessors, StepStates
<1>6. ~LiveStep(s)'
  BY <1>3, <1>4 DEF LiveStep, LiveStates
<1>7. \A t \in Step : t # s =>
        /\ LiveStep(t)' <=> LiveStep(t)
        /\ LiveStep(t) => stepState'[t] = stepState[t]
  BY <1>3, <1>4 DEF LiveStep, LiveStates
<1>8. /\ runState' \in [Run -> RunStates]
      /\ \A r \in Run : r # RunOf[s] => runState'[r] = runState[r]
  BY PlanAssumption DEF SucceedAttempt, StoreInv, StoreTypeOK, RunStates
<1>9. delayed' \in [Step -> BOOLEAN]
  BY <1>1 DEF StoreInv, StoreTypeOK
<1> QED
  BY <1>1, <1>2, <1>5, <1>6, <1>7, <1>8, <1>9, CloseKeeps

\* The common shape of a failure and a recovery: one Step leaves the live
\* states, and only its own Run may change.
LEMMA LeaveLiveKeeps ==
    ASSUME StoreInv, NEW s \in Step, NEW n \in AttemptNo,
           NEW x \in AttemptStates \ LiveStates, NEW y \in StepStates \ LiveStates,
           current[s] = n, Close(s, n, x), UNCHANGED <<fence, tried, overdue>>,
           stepState' = [stepState EXCEPT ![s] = y],
           delayed' \in [Step -> BOOLEAN],
           \/ runState' = runState
           \/ \E z \in RunStates : runState' = [runState EXCEPT ![RunOf[s]] = z]
    PROVE  StoreInv' /\ NoNewLiveStep
<1>1. stepState' \in [Step -> StepStates] /\ ~LiveStep(s)'
  BY DEF StoreInv, StoreTypeOK, LiveStep
<1>2. \A t \in Step : t # s =>
        /\ LiveStep(t)' <=> LiveStep(t)
        /\ LiveStep(t) => stepState'[t] = stepState[t]
  BY DEF StoreInv, StoreTypeOK, LiveStep
<1>3. /\ runState' \in [Run -> RunStates]
      /\ \A r \in Run : r # RunOf[s] => runState'[r] = runState[r]
  <2>1. RunOf[s] \in Run /\ runState \in [Run -> RunStates]
    BY PlanAssumption DEF StoreInv, StoreTypeOK
  <2>2. CASE runState' = runState
    BY <2>1, <2>2
  <2>3. CASE \E z \in RunStates : runState' = [runState EXCEPT ![RunOf[s]] = z]
    <3> PICK z \in RunStates : runState' = [runState EXCEPT ![RunOf[s]] = z]
      BY <2>3
    <3> QED
      BY <2>1
  <2> QED
    BY <2>2, <2>3
<1> QED
  BY <1>1, <1>2, <1>3, CloseKeeps

LEMMA FailKeeps ==
    ASSUME StoreInv, NEW s \in Step, NEW n \in AttemptNo,
           NEW retryable \in BOOLEAN, NEW wait \in BOOLEAN,
           FailAttempt(s, n, retryable, wait)
    PROVE  StoreInv' /\ NoNewLiveStep
<1> USE DEF RunStates, StepStates, AttemptStates, LiveStates
<1>1. current[s] = n /\ UNCHANGED <<fence, tried, overdue>>
  BY DEF FailAttempt, OwnsFence
<1>2. delayed' \in [Step -> BOOLEAN]
  BY DEF FailAttempt, StoreInv, StoreTypeOK
<1>3. CASE Close(s, n, "RECONCILIATION_REQUIRED")
           /\ stepState' = [stepState EXCEPT ![s] = "WAITING"]
           /\ runState' = [runState EXCEPT ![RunOf[s]] = "WAITING"]
  BY <1>1, <1>2, <1>3, LeaveLiveKeeps
<1>4. CASE Close(s, n, "FAILED_RETRYABLE")
           /\ stepState' = [stepState EXCEPT ![s] = "READY"]
           /\ runState' = runState
  BY <1>1, <1>2, <1>4, LeaveLiveKeeps
<1>5. CASE Close(s, n, "FAILED_TERMINAL")
           /\ stepState' = [stepState EXCEPT ![s] = "FAILED"]
           /\ runState' = [runState EXCEPT ![RunOf[s]] = "FAILED"]
  BY <1>1, <1>2, <1>5, LeaveLiveKeeps
<1> QED
  BY <1>3, <1>4, <1>5 DEF FailAttempt

LEMMA RecoverKeeps ==
    ASSUME StoreInv, NEW s \in Step, NEW n \in AttemptNo, RecoverExpired(s, n)
    PROVE  StoreInv' /\ NoNewLiveStep
<1> DEFINE y == RecoveryVerdict(s, n)
           x == IF y = "WAITING" THEN "RECONCILIATION_REQUIRED" ELSE "ABANDONED"
<1>1. y \in StepStates \ LiveStates /\ y \in {"WAITING", "READY", "FAILED"}
  BY DEF RecoveryVerdict, StepStates, LiveStates
<1>2. x \in AttemptStates \ LiveStates
  BY DEF AttemptStates, LiveStates
<1>3. /\ current[s] = n /\ Close(s, n, x)
      /\ UNCHANGED <<fence, tried, overdue>>
      /\ stepState' = [stepState EXCEPT ![s] = y]
  BY DEF RecoverExpired, ExpiredAttempt
<1>4. delayed' \in [Step -> BOOLEAN]
  BY DEF RecoverExpired, StoreInv, StoreTypeOK
<1>5. \/ runState' = runState
      \/ y # "READY" /\ runState' = [runState EXCEPT ![RunOf[s]] = y]
  BY DEF RecoverExpired
<1> HIDE DEF x, y
<1>6. y # "READY" => y \in RunStates
  BY <1>1 DEF RunStates
<1> QED
  BY <1>1, <1>2, <1>3, <1>4, <1>5, <1>6, LeaveLiveKeeps

LEMMA ExpireKeeps ==
    ASSUME StoreInv, NEW s \in Step, ExpireDeadline(s)
    PROVE  StoreInv' /\ NoNewLiveStep
<1> DEFINE m == tried[s] + 1
<1> USE PlanAssumption, BudgetAssumption DEF StoreInv
<1>1. m \in AttemptNo /\ m <= MaxAttempts[s] /\ fence[s] + 1 = m
  <2>1. tried[s] \in 0..MaxBudget /\ MaxAttempts[s] \in 1..MaxBudget /\ MaxBudget \in Nat
    BY DEF StoreTypeOK
  <2>2. m <= MaxAttempts[s]
    BY DEF ExpireDeadline
  <2>3. fence[s] = tried[s]
    BY DEF FencesGrow
  <2> QED
    BY <2>1, <2>2, <2>3
<1>2. /\ stepState'[s] = "FAILED" /\ tried'[s] = m /\ fence'[s] = m
      /\ attempt'[s][m] = [state |-> "FAILED_TERMINAL", fence |-> m]
      /\ \A k \in AttemptNo : k # m => attempt'[s][k] = attempt[s][k]
  BY <1>1 DEF ExpireDeadline, StoreTypeOK
<1>3. /\ UNCHANGED <<current, lease, overdue>>
      /\ \A t \in Step : t # s =>
            /\ stepState'[t] = stepState[t] /\ tried'[t] = tried[t]
            /\ fence'[t] = fence[t] /\ attempt'[t] = attempt[t]
  BY DEF ExpireDeadline, StoreTypeOK
<1>4. ~LiveStep(s) /\ ~LiveStep(s)' /\ current[s] = 0
  BY <1>2 DEF ExpireDeadline, DeadlineExpired, LiveStep, LiveStates,
     CurrentAttemptIsTheLiveOne
<1>5. \A t \in Step : LiveStep(t)' <=> LiveStep(t)
  BY <1>3, <1>4 DEF LiveStep
<1>6. StoreTypeOK'
  <2>1. [state |-> "FAILED_TERMINAL", fence |-> m] \in AttemptRows
    BY <1>1 DEF AttemptRows, AttemptStates, LiveStates
  <2>2. attempt' \in [Step -> [AttemptNo -> AttemptRows]]
    BY <1>1, <2>1 DEF ExpireDeadline, StoreTypeOK
  <2>3. runState' \in [Run -> RunStates] /\ delayed' \in [Step -> BOOLEAN]
    BY DEF ExpireDeadline, StoreTypeOK, RunStates
  <2>4. tried' \in [Step -> 0..MaxBudget] /\ \A t \in Step : tried'[t] <= MaxAttempts[t]
    <3>1. tried' = [tried EXCEPT ![s] = m]
      BY DEF ExpireDeadline
    <3>2. m \in 0..MaxBudget
      BY <1>1
    <3> HIDE DEF m
    <3> QED
      BY <1>1, <3>1, <3>2 DEF StoreTypeOK
  <2>5. fence' \in [Step -> Nat] /\ stepState' \in [Step -> StepStates]
    <3>1. /\ fence' = [fence EXCEPT ![s] = fence[s] + 1]
          /\ stepState' = [stepState EXCEPT ![s] = "FAILED"]
      BY DEF ExpireDeadline
    <3>2. fence[s] + 1 \in Nat /\ "FAILED" \in StepStates
      BY DEF StoreTypeOK, StepStates
    <3> QED
      BY <3>1, <3>2 DEF StoreTypeOK
  <2> QED
    BY <1>3, <2>2, <2>3, <2>4, <2>5 DEF StoreTypeOK
<1>7. OneLiveStepPerRun'
  BY <1>5 DEF OneLiveStepPerRun
<1>8. CurrentAttemptIsTheLiveOne'
  <2> SUFFICES ASSUME NEW t \in Step
               PROVE  CurrentAttemptIsTheLiveOne!(t)'
    BY DEF CurrentAttemptIsTheLiveOne
  <2>1. CASE t = s
    <3>1. \A k \in AttemptNo : k # 0
      OBVIOUS
    <3>2. \A k \in AttemptNo : attempt'[s][k].state \notin LiveStates
      BY <1>2, <1>4, <3>1 DEF CurrentAttemptIsTheLiveOne, LiveStates
    <3> QED
      BY <2>1, <1>3, <1>4, <3>1, <3>2 DEF CurrentAttemptIsTheLiveOne
  <2>2. CASE t # s
    BY <2>2, <1>3, <1>5 DEF CurrentAttemptIsTheLiveOne
  <2> QED
    BY <2>1, <2>2
<1>9. FencesGrow'
  <2> SUFFICES ASSUME NEW t \in Step
               PROVE  FencesGrow!(t)'
    BY DEF FencesGrow
  <2>1. CASE t = s
    <3>1. tried[s] \in Nat /\ MaxBudget \in Nat
      BY DEF StoreTypeOK
    <3>2. \A k \in AttemptNo : /\ k > m <=> k > tried[s] /\ k # m
                               /\ k <= m <=> k <= tried[s] \/ k = m
      BY <3>1
    <3>3. attempt'[s][m].state = "FAILED_TERMINAL" /\ attempt'[s][m].fence = m
      BY <1>2
    <3>4. \A k \in AttemptNo : k # m =>
            /\ attempt'[s][k].state = "ABSENT" <=> k > tried[s]
            /\ k <= tried[s] => attempt'[s][k].fence = k
      BY <1>2 DEF FencesGrow
    <3> QED
      BY <2>1, <1>1, <1>2, <3>1, <3>2, <3>3, <3>4
  <2>2. CASE t # s
    BY <2>2, <1>3 DEF FencesGrow
  <2> QED
    BY <2>1, <2>2
<1>10. LiveRunIsRunning'
  <2> SUFFICES ASSUME NEW t \in Step, LiveStep(t)
               PROVE  runState'[RunOf[t]] = "RUNNING"
    BY <1>5 DEF LiveRunIsRunning
  <2>1. RunOf[t] # RunOf[s]
    BY DEF ExpireDeadline, DeadlineExpired, Idle
  <2> QED
    BY <2>1 DEF ExpireDeadline, StoreTypeOK, LiveRunIsRunning
<1> QED
  BY <1>5, <1>6, <1>7, <1>8, <1>9, <1>10 DEF NoNewLiveStep

LEMMA InitKeeps == ASSUME StoreInit PROVE StoreInv
<1> USE PlanAssumption, BudgetAssumption DEF StoreInit
<1>1. StoreTypeOK
  BY DEF StoreTypeOK, RunStates, StepStates, NoAttempt, AttemptRows
<1>2. \A s \in Step : ~LiveStep(s) /\ current[s] = 0 /\ ~(lease[s] > 0)
  BY DEF LiveStep, LiveStates
<1>3. \A s \in Step, n \in AttemptNo :
         attempt[s][n].state = "ABSENT" /\ n # 0 /\ n > 0 /\ ~(n <= 0)
  BY DEF NoAttempt
<1>4. CurrentAttemptIsTheLiveOne
  BY <1>2, <1>3 DEF CurrentAttemptIsTheLiveOne, LiveStates
<1>5. FencesGrow
  BY <1>3 DEF FencesGrow
<1> QED
  BY <1>1, <1>2, <1>4, <1>5 DEF StoreInv, OneLiveStepPerRun, LiveRunIsRunning

LEMMA RowsUntouched ==
    ASSUME StoreInv, UNCHANGED storeVars
    PROVE  StoreInv' /\ NoNewLiveStep
<1>1. /\ UNCHANGED <<fence, current, attempt, tried>>
      /\ UNCHANGED <<runState, stepState, lease, overdue, delayed>>
  BY DEF storeVars
<1>2. /\ runState' \in [Run -> RunStates] /\ stepState' \in [Step -> StepStates]
      /\ lease' \in [Step -> 0..LeaseTerm]
      /\ overdue' \in [Step -> BOOLEAN] /\ delayed' \in [Step -> BOOLEAN]
  BY <1>1 DEF StoreInv, StoreTypeOK
<1>3. \A t \in Step : /\ LiveStep(t)' <=> LiveStep(t)
                      /\ lease'[t] > 0 => LiveStep(t)
                      /\ LiveStep(t) => /\ stepState'[t] = stepState[t]
                                        /\ runState'[RunOf[t]] = "RUNNING"
  BY <1>1 DEF StoreInv, LiveStep, LiveRunIsRunning, CurrentAttemptIsTheLiveOne
<1> QED
  BY <1>1, <1>2, <1>3, QuietKeeps

LEMMA StoreNextKeeps ==
    ASSUME StoreInv, [StoreNext]_storeVars
    PROVE  StoreInv'
<1>1. ASSUME NEW s \in Step, NEW n \in AttemptNo, AttemptStep(s, n)
      PROVE  StoreInv'
  BY <1>1, StartAttemptKeeps, HeartbeatKeeps, SucceedKeeps, FailKeeps, RecoverKeeps
     DEF AttemptStep
<1>2. ASSUME NEW s \in Step, RowStep(s)
      PROVE  StoreInv'
  BY <1>2, InsertClaimKeeps, ExpireKeeps, ResumeKeeps DEF RowStep, TakeClaim
<1>3. ASSUME NEW s \in Step, TimeStep(s)
      PROVE  StoreInv'
  BY <1>3, ClockKeeps DEF TimeStep
<1> QED
  BY <1>1, <1>2, <1>3, StartRunKeeps, RowsUntouched DEF StoreNext

HIDE DEF AttemptNo

-----------------------------------------------------------------------------
(* What a step leaves alone.                                               *)

\* Who does anything to another Step than its own: a start and a success, and
\* they make it READY from PENDING, within their Run.
OthersOnlyReleased(s) ==
    /\ \A t \in Step : t # s =>
          /\ UNCHANGED <<fence[t], current[t], attempt[t], tried[t], lease[t]>>
          /\ stepState'[t] # stepState[t] =>
                /\ RunOf[t] = RunOf[s]
                /\ stepState[t] = "PENDING"
                /\ stepState'[t] = "READY"
    /\ \A r \in Run : r # RunOf[s] => runState'[r] = runState[r]

\* An Attempt's command leaves other Steps and Runs alone but for a release.
LEMMA AttemptStepFrame ==
    ASSUME StoreInv, NEW s \in Step, NEW n \in AttemptNo, AttemptStep(s, n)
    PROVE  OthersOnlyReleased(s)
<1> USE PlanAssumption DEF StoreInv, StoreTypeOK, OthersOnlyReleased
<1>1. CASE StartAttempt(s, n)
  BY <1>1 DEF StartAttempt
<1>2. CASE Heartbeat(s, n)
  BY <1>2 DEF Heartbeat
<1>3. CASE SucceedAttempt(s, n)
  BY <1>3 DEF SucceedAttempt, Close, ReleaseSuccessors
<1>4. ASSUME NEW y \in BOOLEAN, NEW z \in BOOLEAN, FailAttempt(s, n, y, z)
      PROVE  OthersOnlyReleased(s)
  BY <1>4 DEF FailAttempt, Close
<1>5. CASE RecoverExpired(s, n)
  BY <1>5 DEF RecoverExpired, Close
<1> QED
  BY <1>1, <1>2, <1>3, <1>4, <1>5 DEF AttemptStep

\* So does a step that writes one Step row.
LEMMA RowStepFrame ==
    ASSUME StoreInv, NEW s \in Step, RowStep(s) \/ TimeStep(s)
    PROVE  OthersOnlyReleased(s)
<1> USE PlanAssumption DEF StoreInv, StoreTypeOK, OthersOnlyReleased
<1>1. CASE TakeClaim(s)
  BY <1>1 DEF TakeClaim, InsertClaim
<1>2. CASE ExpireDeadline(s)
  BY <1>2 DEF ExpireDeadline
<1>3. CASE ResumeWaiting(s)
  BY <1>3 DEF ResumeWaiting
<1>4. CASE TimeStep(s)
  BY <1>4 DEF TimeStep, LeaseTick, DeadlinePasses, BackoffElapses
<1> QED
  BY <1>1, <1>2, <1>3, <1>4 DEF RowStep

-----------------------------------------------------------------------------
\* Only a Run that has not ended has its Steps written.
LEMMA OnlyOpenRuns ==
    ASSUME NEW s \in Step,
           RowStep(s) \/ \E n \in AttemptNo : AttemptStep(s, n)
    PROVE  runState[RunOf[s]] \in {"RUNNING", "WAITING"}
  BY DEF AttemptStep, RowStep, StartAttempt, Heartbeat, SucceedAttempt,
     FailAttempt, RecoverExpired, ExpiredAttempt, OwnsFence, TakeClaim,
     ExpireDeadline, DeadlineExpired, ResumeWaiting

Frozen(r) == runState'[r] = runState[r] /\ RunRows(r)' = RunRows(r)

\* The rows of an ended Run survive a step at one Step.
LEMMA EndedSurvives ==
    ASSUME NEW s \in Step, OthersOnlyReleased(s),
           NEW r \in Run, r # RunOf[s]
    PROVE  Frozen(r)
<1>1. runState'[r] = runState[r]
  BY DEF OthersOnlyReleased
<1>2. \A t \in Step : RunOf[t] = r =>
          UNCHANGED <<stepState[t], fence[t], current[t], attempt[t], tried[t]>>
  BY DEF OthersOnlyReleased
<1> QED
  BY <1>1, <1>2 DEF Frozen, RunRows

LEMMA EndedStep ==
    ASSUME StoreInv, [StoreNext]_storeVars, NEW r \in Run,
           runState[r] \in {"SUCCEEDED", "FAILED"}
    PROVE  Frozen(r)
<1>1. ASSUME NEW q \in Run, StartRun(q)
      PROVE  Frozen(r)
  BY <1>1 DEF StartRun, Frozen, RunRows, StoreInv, StoreTypeOK
<1>2. ASSUME NEW s \in Step, NEW n \in AttemptNo, AttemptStep(s, n)
      PROVE  Frozen(r)
  BY <1>2, OnlyOpenRuns, AttemptStepFrame, EndedSurvives
<1>3. ASSUME NEW s \in Step, RowStep(s)
      PROVE  Frozen(r)
  BY <1>3, OnlyOpenRuns, RowStepFrame, EndedSurvives
<1>4. ASSUME NEW s \in Step, TimeStep(s)
      PROVE  Frozen(r)
  BY <1>4 DEF TimeStep, LeaseTick, DeadlinePasses, BackoffElapses, Frozen,
     RunRows
<1>5. CASE UNCHANGED storeVars
  BY <1>5 DEF storeVars, Frozen, RunRows
<1> QED
  BY <1>1, <1>2, <1>3, <1>4, <1>5 DEF StoreNext

-----------------------------------------------------------------------------
\* What a step does to a live Step whose lease has lapsed.
LapsedOutcome(t) ==
    \/ UNCHANGED <<stepState[t], attempt[t]>>
    \/ attempt'[t][current[t]].state \in {"ABANDONED", "RECONCILIATION_REQUIRED"}

LEMMA LapsedStep ==
    ASSUME StoreInv, [StoreNext]_storeVars, NEW t \in Step,
           LiveStep(t), lease[t] = 0
    PROVE  LapsedOutcome(t)
<1> USE DEF LiveStep, LiveStates
<1>1. ASSUME NEW s \in Step, t # s, OthersOnlyReleased(s)
      PROVE  LapsedOutcome(t)
  BY <1>1 DEF OthersOnlyReleased, LapsedOutcome
<1>2. ASSUME NEW q \in Run, StartRun(q)
      PROVE  LapsedOutcome(t)
  BY <1>2 DEF StartRun, LapsedOutcome, StoreInv, StoreTypeOK
<1>3. ASSUME NEW s \in Step, NEW n \in AttemptNo, AttemptStep(s, n)
      PROVE  LapsedOutcome(t)
  <2>1. CASE t # s
    BY <1>1, <1>3, <2>1, AttemptStepFrame
  <2>2. CASE t = s /\ RecoverExpired(s, n)
    BY <2>2 DEF RecoverExpired, ExpiredAttempt, Close, LapsedOutcome,
       StoreInv, StoreTypeOK, AttemptRows
  <2>3. CASE t = s /\ ~RecoverExpired(s, n)
    BY <1>3, <2>3 DEF AttemptStep, StartAttempt, Heartbeat, SucceedAttempt,
       FailAttempt, OwnsFence
  <2> QED
    BY <2>1, <2>2, <2>3
<1>4. ASSUME NEW s \in Step, RowStep(s)
      PROVE  LapsedOutcome(t)
  <2>1. t # s
    BY <1>4 DEF RowStep, TakeClaim, ExpireDeadline, DeadlineExpired,
       ResumeWaiting
  <2> QED
    BY <1>1, <1>4, <2>1, RowStepFrame
<1>5. ASSUME NEW s \in Step, TimeStep(s)
      PROVE  LapsedOutcome(t)
  BY <1>5 DEF TimeStep, LeaseTick, DeadlinePasses, BackoffElapses,
     LapsedOutcome
<1>6. CASE UNCHANGED storeVars
  BY <1>6 DEF storeVars, LapsedOutcome
<1> QED
  BY <1>2, <1>3, <1>4, <1>5, <1>6 DEF StoreNext

-----------------------------------------------------------------------------
\* What a step may do to a Step with a remote command.
RemoteOutcome(t) ==
    /\ stepState[t] = "RUNNING" =>
          stepState'[t] \in {"RUNNING", "WAITING", "SUCCEEDED"}
    /\ stepState[t] = "WAITING" /\ stepState'[t] # "WAITING" =>
          runState[RunOf[t]] = "WAITING" /\ runState'[RunOf[t]] = "RUNNING"

LEMMA RemoteStep ==
    ASSUME StoreInv, [StoreNext]_storeVars, NEW t \in Remote
    PROVE  RemoteOutcome(t)
<1> USE PlanAssumption
<1>0. t \in Step
  OBVIOUS
<1>1. ASSUME NEW s \in Step, t # s, OthersOnlyReleased(s)
      PROVE  RemoteOutcome(t)
  BY <1>0, <1>1 DEF OthersOnlyReleased, RemoteOutcome
<1>2. ASSUME NEW q \in Run, StartRun(q)
      PROVE  RemoteOutcome(t)
  BY <1>0, <1>2 DEF StartRun, RemoteOutcome, StoreInv, StoreTypeOK
<1>3. ASSUME NEW s \in Step, NEW n \in AttemptNo, AttemptStep(s, n)
      PROVE  RemoteOutcome(t)
  <2>1. CASE t # s
    BY <1>1, <1>3, <2>1, AttemptStepFrame
  <2>2. CASE t = s
    <3> USE DEF StoreInv, StoreTypeOK, RemoteOutcome
    <3>1. CASE StartAttempt(s, n) \/ Heartbeat(s, n)
      BY <2>2, <3>1 DEF StartAttempt, Heartbeat
    <3>2. CASE SucceedAttempt(s, n)
      BY <2>2, <3>2 DEF SucceedAttempt, ReleaseSuccessors
    <3>3. ASSUME NEW y \in BOOLEAN, NEW z \in BOOLEAN, FailAttempt(s, n, y, z)
          PROVE  RemoteOutcome(t)
      <4>1. stepState[s] = "RUNNING"
        BY <3>3 DEF FailAttempt, OwnsFence, CurrentAttemptIsTheLiveOne
      <4> QED
        BY <2>2, <3>3, <4>1 DEF FailAttempt
    <3>4. CASE RecoverExpired(s, n)
      <4>1. attempt[s][n].state = stepState[s] /\ LiveStep(s)
        BY <3>4 DEF RecoverExpired, ExpiredAttempt,
           CurrentAttemptIsTheLiveOne, AttemptNo
      <4> QED
        BY <2>2, <3>4, <4>1 DEF RecoverExpired, RecoveryVerdict, LiveStep,
           LiveStates
    <3> QED
      BY <1>3, <3>1, <3>2, <3>3, <3>4 DEF AttemptStep
  <2> QED
    BY <2>1, <2>2
<1>4. ASSUME NEW s \in Step, RowStep(s)
      PROVE  RemoteOutcome(t)
  <2>1. CASE t # s
    BY <1>1, <1>4, <2>1, RowStepFrame
  <2>2. CASE t = s /\ ResumeWaiting(s)
    BY <2>2 DEF ResumeWaiting, RemoteOutcome, StoreInv, StoreTypeOK
  <2>3. CASE t = s /\ ~ResumeWaiting(s)
    BY <1>4, <2>3 DEF RowStep, TakeClaim, ExpireDeadline, DeadlineExpired,
       RemoteOutcome
  <2> QED
    BY <2>1, <2>2, <2>3
<1>5. ASSUME NEW s \in Step, TimeStep(s)
      PROVE  RemoteOutcome(t)
  BY <1>5 DEF TimeStep, LeaseTick, DeadlinePasses, BackoffElapses,
     RemoteOutcome
<1>6. CASE UNCHANGED storeVars
  BY <1>6 DEF storeVars, RemoteOutcome
<1> QED
  BY <1>2, <1>3, <1>4, <1>5, <1>6 DEF StoreNext

-----------------------------------------------------------------------------
\* What a step may do to where a Step is.
GoesForward(t) ==
    stepState'[t] # stepState[t] \/ tried'[t] # tried[t] =>
        \/ tried'[t] > tried[t]
        \/ tried'[t] = tried[t] /\ Phase(stepState'[t]) > Phase(stepState[t])

LEMMA PhaseOf ==
    /\ Phase("PENDING") = 0 /\ Phase("CLAIMED") = 1 /\ Phase("RUNNING") = 2
    /\ Phase("WAITING") = 3 /\ Phase("READY") = 4
    /\ Phase("SUCCEEDED") = 5 /\ Phase("FAILED") = 5
  BY DEF Phase

LEMMA ForwardStep ==
    ASSUME StoreInv, [StoreNext]_storeVars, NEW t \in Step
    PROVE  GoesForward(t)
<1> USE PlanAssumption, PhaseOf DEF StoreInv, StoreTypeOK
<1>1. ASSUME NEW s \in Step, t # s, OthersOnlyReleased(s)
      PROVE  GoesForward(t)
  BY <1>1 DEF OthersOnlyReleased, GoesForward
<1>2. ASSUME NEW q \in Run, StartRun(q)
      PROVE  GoesForward(t)
  BY <1>2 DEF StartRun, GoesForward
<1>3. ASSUME NEW s \in Step, NEW n \in AttemptNo, AttemptStep(s, n)
      PROVE  GoesForward(t)
  <2>1. CASE t # s
    BY <1>1, <1>3, <2>1, AttemptStepFrame
  <2>2. CASE t = s
    <3>1. tried' = tried
      BY <1>3 DEF AttemptStep, StartAttempt, Heartbeat, SucceedAttempt,
         FailAttempt, RecoverExpired
    <3>2. stepState[s] \in LiveStates
      BY <1>3 DEF AttemptStep, StartAttempt, Heartbeat, SucceedAttempt,
         FailAttempt, RecoverExpired, ExpiredAttempt, OwnsFence,
         CurrentAttemptIsTheLiveOne, LiveStates, AttemptNo
    <3>3. \/ stepState'[s] = stepState[s]
          \/ stepState[s] = "CLAIMED" /\ stepState'[s] = "RUNNING"
          \/ stepState'[s] \in {"WAITING", "READY", "SUCCEEDED", "FAILED"}
      BY <1>3 DEF AttemptStep, StartAttempt, Heartbeat, SucceedAttempt,
         ReleaseSuccessors, FailAttempt, RecoverExpired, RecoveryVerdict
    <3> QED
      BY <2>2, <3>1, <3>2, <3>3 DEF GoesForward, LiveStates
  <2> QED
    BY <2>1, <2>2
<1>4. ASSUME NEW s \in Step, RowStep(s)
      PROVE  GoesForward(t)
  <2>1. CASE t # s
    BY <1>1, <1>4, <2>1, RowStepFrame
  <2>2. CASE t = s /\ ResumeWaiting(s)
    BY <2>2 DEF ResumeWaiting, GoesForward
  <2>3. CASE t = s /\ ~ResumeWaiting(s)
    BY <1>4, <2>3, BudgetAssumption
       DEF RowStep, TakeClaim, InsertClaim, ExpireDeadline, GoesForward
  <2> QED
    BY <2>1, <2>2, <2>3
<1>5. ASSUME NEW s \in Step, TimeStep(s)
      PROVE  GoesForward(t)
  BY <1>5 DEF TimeStep, LeaseTick, DeadlinePasses, BackoffElapses, GoesForward
<1>6. CASE UNCHANGED storeVars
  BY <1>6 DEF storeVars, GoesForward
<1> QED
  BY <1>2, <1>3, <1>4, <1>5, <1>6 DEF StoreNext

-----------------------------------------------------------------------------
Ended(t, k) == attempt[t][k].state \notin LiveStates \cup {"ABSENT"}

\* A claim or an expiry writes the first Attempt row that is not there yet.
LEMMA NewAttemptIsNew ==
    ASSUME StoreInv, NEW s \in Step, TakeClaim(s) \/ ExpireDeadline(s),
           NEW k \in AttemptNo, Ended(s, k)
    PROVE  attempt'[s][k] = attempt[s][k]
<1> DEFINE m == tried[s] + 1
           row(x) == [state |-> x, fence |-> fence[s] + 1]
<1>1. \/ attempt' = [attempt EXCEPT ![s][m] = row("CLAIMED")]
      \/ attempt' = [attempt EXCEPT ![s][m] = row("FAILED_TERMINAL")]
  BY DEF TakeClaim, InsertClaim, ExpireDeadline
<1>2. k # m
  BY BudgetAssumption DEF Ended, StoreInv, StoreTypeOK, FencesGrow, AttemptNo
<1> HIDE DEF m, row
<1>3. /\ attempt[s] \in [AttemptNo -> AttemptRows]
      /\ \/ attempt'[s] = [attempt[s] EXCEPT ![m] = row("CLAIMED")]
         \/ attempt'[s] = [attempt[s] EXCEPT ![m] = row("FAILED_TERMINAL")]
  BY <1>1 DEF StoreInv, StoreTypeOK
<1> QED
  BY <1>2, <1>3

LEMMA EndsOnceStep ==
    ASSUME StoreInv, [StoreNext]_storeVars, NEW t \in Step, NEW k \in AttemptNo,
           Ended(t, k)
    PROVE  attempt'[t][k] = attempt[t][k]
<1>1. ASSUME NEW s \in Step, t # s, OthersOnlyReleased(s)
      PROVE  attempt'[t] = attempt[t]
  BY <1>1 DEF OthersOnlyReleased
<1>2. ASSUME NEW s \in Step, NEW n \in AttemptNo, AttemptStep(s, n)
      PROVE  attempt'[t][k] = attempt[t][k]
  <2>1. CASE t # s
    BY <1>1, <1>2, <2>1, AttemptStepFrame
  <2>2. CASE t = s
    <3>1. attempt[s][n].state \in LiveStates
      BY <1>2 DEF AttemptStep, StartAttempt, Heartbeat, SucceedAttempt,
         FailAttempt, RecoverExpired, ExpiredAttempt, OwnsFence, LiveStates
    <3>2. k # n
      BY <2>2, <3>1 DEF Ended
    <3>3. attempt[s] \in [AttemptNo -> AttemptRows]
      BY DEF StoreInv, StoreTypeOK
    <3>4. \/ attempt' = attempt
          \/ \E x \in AttemptStates : attempt' = [attempt EXCEPT ![s][n].state = x]
      BY <1>2 DEF AttemptStep, StartAttempt, Heartbeat, SucceedAttempt,
         FailAttempt, RecoverExpired, Close, AttemptStates, LiveStates
    <3> QED
      BY <2>2, <3>2, <3>3, <3>4 DEF StoreInv, StoreTypeOK
  <2> QED
    BY <2>1, <2>2
<1>3. ASSUME NEW s \in Step, RowStep(s)
      PROVE  attempt'[t][k] = attempt[t][k]
  <2>1. CASE t # s
    BY <1>1, <1>3, <2>1, RowStepFrame
  <2>2. CASE t = s
    BY <1>3, <2>2, NewAttemptIsNew DEF RowStep, ResumeWaiting
  <2> QED
    BY <2>1, <2>2
<1> QED
  BY <1>2, <1>3 DEF StoreNext, StartRun, TimeStep, LeaseTick, DeadlinePasses,
     BackoffElapses, storeVars

-----------------------------------------------------------------------------
(* The Run row agrees with its Step rows, successes are last and           *)
(* dependencies come first.  The three are inductive together, relative to *)
(* StoreInv: that a RUNNING Run has no failed Step is what makes a met         *)
(* TERMINAL dependency a success, and that a released Step has only        *)
(* successes before it is stable because a success is never undone.        *)

\* RunAgreesWithSteps, Step by Step.
RunFacts ==
    /\ \A s \in Step :
          /\ runState[RunOf[s]] = "QUEUED" => stepState[s] = "PENDING"
          /\ runState[RunOf[s]] = "SUCCEEDED" => stepState[s] = "SUCCEEDED"
          /\ stepState[s] = "WAITING" => runState[RunOf[s]] = "WAITING"
          /\ stepState[s] = "FAILED" => runState[RunOf[s]] = "FAILED"
    /\ \A r \in Run : runState[r] \in {"RUNNING", "WAITING", "FAILED"} =>
          \E s \in Step :
             /\ RunOf[s] = r
             /\ runState[r] = "RUNNING" => stepState[s] # "SUCCEEDED"
             /\ runState[r] # "RUNNING" => stepState[s] = runState[r]
    /\ \A s, t \in Step :
          /\ RunOf[s] = RunOf[t]
          /\ stepState[s] = "WAITING" /\ stepState[t] = "WAITING"
          => s = t

RowInv == SuccessIsLast /\ RunFacts /\ DependenciesFirst

\* RunFacts says at least what RunAgreesWithSteps does.
LEMMA FactsAgree == StoreInv /\ RunFacts => RunAgreesWithSteps
<1> SUFFICES ASSUME StoreInv, RunFacts, NEW r \in Run
             PROVE  RunAgreesWithSteps!(r)
  BY DEF RunAgreesWithSteps
<1> USE PlanAssumption
<1> DEFINE mine == {s \in Step : RunOf[s] = r}
           in(x) == {s \in mine : stepState[s] = x}
<1>1. runState[r] = "QUEUED" => in("PENDING") = mine
  BY DEF RunFacts
<1>2. runState[r] = "WAITING" <=> in("WAITING") # {}
  BY DEF RunFacts
<1>3. runState[r] = "FAILED" <=> in("FAILED") # {}
  BY DEF RunFacts
<1>4. runState[r] = "SUCCEEDED" => in("SUCCEEDED") = mine
  BY DEF RunFacts
<1>5. runState[r] = "RUNNING" => in("SUCCEEDED") # mine
  BY DEF RunFacts
<1>6. runState[r] # "RUNNING" => in("CLAIMED") \cup in("RUNNING") = {}
  BY DEF StoreInv, LiveRunIsRunning, LiveStep, LiveStates
<1>7. \A s, t \in in("WAITING") : s = t
  BY DEF RunFacts
<1> QED
  BY <1>1, <1>2, <1>3, <1>4, <1>5, <1>6, <1>7

\* A fresh Run has only PENDING Steps.
LEMMA InitRowInv == StoreInit => RowInv
  BY PlanAssumption DEF StoreInit, RowInv, SuccessIsLast, RunFacts,
     DependenciesFirst, NoAttempt

-----------------------------------------------------------------------------
\* How a step at Step s may leave s and its Run.
RunOutcome(s) ==
    LET run  == runState'[RunOf[s]]
        step == stepState'[s]
    IN  \/ run = "RUNNING" /\ step \in {"READY", "CLAIMED", "RUNNING"}
        \/ run \in {"WAITING", "FAILED"} /\ step = run
        \/ /\ run = "RUNNING" /\ step = "SUCCEEDED"
           /\ \E t \in Step : RunOf[t] = RunOf[s] /\ stepState'[t] # "SUCCEEDED"
        \/ /\ run = "SUCCEEDED"
           /\ \A t \in Step : RunOf[t] = RunOf[s] => stepState'[t] = "SUCCEEDED"

\* No other Step of its Run waits or has failed.
NoOtherWaits(s) ==
    \A t \in Step : t # s /\ RunOf[t] = RunOf[s] =>
        stepState[t] \notin {"WAITING", "FAILED"}

\* Whatever happens at one Step, the Run row follows.
LEMMA OutcomeKeepsFacts ==
    ASSUME StoreInv, RunFacts, NEW s \in Step, OthersOnlyReleased(s),
           runState' \in [Run -> RunStates], stepState' \in [Step -> StepStates],
           RunOutcome(s), NoOtherWaits(s)
    PROVE  RunFacts'
<1> USE PlanAssumption
<1>1. \A t \in Step : t # s =>
        \/ stepState'[t] = stepState[t]
        \/ /\ RunOf[t] = RunOf[s]
           /\ stepState[t] = "PENDING" /\ stepState'[t] = "READY"
  BY DEF OthersOnlyReleased
<1>2. \A r \in Run : r # RunOf[s] => runState'[r] = runState[r]
  BY DEF OthersOnlyReleased
<1>3. ASSUME NEW t \in Step
      PROVE  /\ runState'[RunOf[t]] = "QUEUED" => stepState'[t] = "PENDING"
             /\ runState'[RunOf[t]] = "SUCCEEDED" => stepState'[t] = "SUCCEEDED"
             /\ stepState'[t] = "WAITING" => runState'[RunOf[t]] = "WAITING"
             /\ stepState'[t] = "FAILED" => runState'[RunOf[t]] = "FAILED"
  <2>1. CASE RunOf[t] # RunOf[s]
    BY <1>1, <1>2, <2>1 DEF RunFacts
  <2>2. CASE RunOf[t] = RunOf[s] /\ t # s
    BY <1>1, <2>2 DEF RunOutcome, NoOtherWaits
  <2>3. CASE t = s
    BY <2>3 DEF RunOutcome
  <2> QED
    BY <2>1, <2>2, <2>3
<1>4. ASSUME NEW r \in Run, runState'[r] \in {"RUNNING", "WAITING", "FAILED"}
      PROVE  \E t \in Step :
                /\ RunOf[t] = r
                /\ runState'[r] = "RUNNING" => stepState'[t] # "SUCCEEDED"
                /\ runState'[r] # "RUNNING" => stepState'[t] = runState'[r]
  <2>1. CASE r # RunOf[s]
    <3> PICK t \in Step :
            /\ RunOf[t] = r
            /\ runState[r] = "RUNNING" => stepState[t] # "SUCCEEDED"
            /\ runState[r] # "RUNNING" => stepState[t] = runState[r]
      BY <1>2, <1>4, <2>1 DEF RunFacts
    <3> QED
      BY <1>1, <1>2, <2>1
  <2>2. CASE r = RunOf[s]
    BY <1>4, <2>2 DEF RunOutcome
  <2> QED
    BY <2>1, <2>2
<1>5. ASSUME NEW t \in Step, NEW u \in Step, RunOf[t] = RunOf[u],
             stepState'[t] = "WAITING", stepState'[u] = "WAITING"
      PROVE  t = u
  BY <1>1, <1>5 DEF RunFacts, NoOtherWaits
<1> QED
  BY <1>3, <1>4, <1>5 DEF RunFacts

-----------------------------------------------------------------------------
Working == {"READY", "CLAIMED", "RUNNING", "WAITING"}

\* Step s is SUCCEEDED iff its newest Attempt is, and no older one is.
SuccessOutcome(s) ==
    \/ /\ stepState'[s] # "SUCCEEDED"
       /\ \A k \in AttemptNo : attempt'[s][k].state # "SUCCEEDED"
    \/ /\ stepState'[s] = "SUCCEEDED"
       /\ tried'[s] \in AttemptNo
       /\ \A k \in AttemptNo :
             attempt'[s][k].state = "SUCCEEDED" <=> k = tried'[s]

\* Whoever is released has only successes before it.
ReleasedHasSuccesses ==
    \A t \in Step : stepState[t] = "PENDING" /\ stepState'[t] = "READY" =>
        \A p \in Preds(t) : stepState'[p] = "SUCCEEDED"

\* What every step at Step s has in common.
RowOutcome(s) ==
    /\ RunOutcome(s) /\ NoOtherWaits(s) /\ SuccessOutcome(s)
    /\ stepState[s] \in Working \/ stepState'[s] = "FAILED"
    /\ stepState[s] # "SUCCEEDED"
    /\ ReleasedHasSuccesses

LEMMA OutcomeKeeps ==
    ASSUME StoreInv, StoreInv', RowInv, NEW s \in Step, OthersOnlyReleased(s),
           RowOutcome(s)
    PROVE  RowInv'
<1> USE PlanAssumption DEF RowInv, RowOutcome
<1>1. RunFacts'
  BY OutcomeKeepsFacts DEF StoreInv, StoreTypeOK
<1>2. SuccessIsLast'
  <2> SUFFICES ASSUME NEW t \in Step
               PROVE  SuccessIsLast!(t)'
    BY DEF SuccessIsLast
  <2>1. CASE t = s
    <3>1. \A k \in AttemptNo : k > 0
      BY DEF AttemptNo
    <3> QED
      BY <2>1, <3>1 DEF SuccessOutcome
  <2>2. CASE t # s
    BY <2>2 DEF OthersOnlyReleased, SuccessIsLast
  <2> QED
    BY <2>1, <2>2
<1>3. DependenciesFirst'
  <2> SUFFICES ASSUME NEW t \in Step, NEW p \in Preds(t),
                      stepState'[t] \in Working \cup {"SUCCEEDED"}
               PROVE  stepState'[p] = "SUCCEEDED"
    BY DEF DependenciesFirst, Working, Preds
  <2>0. p \in Step
    BY DEF Preds
  <2>1. stepState[p] = "SUCCEEDED" => stepState'[p] = "SUCCEEDED"
    BY <2>0 DEF OthersOnlyReleased
  <2>2. CASE stepState[t] = "PENDING" /\ stepState'[t] = "READY"
    BY <2>2 DEF ReleasedHasSuccesses
  <2>3. CASE ~(stepState[t] = "PENDING" /\ stepState'[t] = "READY")
    <3>1. stepState[t] \in Working \cup {"SUCCEEDED"}
      BY <2>3 DEF OthersOnlyReleased, Working
    <3> QED
      BY <2>1, <3>1 DEF DependenciesFirst, Working
  <2> QED
    BY <2>2, <2>3
<1> QED
  BY <1>1, <1>2, <1>3

\* Beside a Step of a RUNNING Run nothing waits or has failed; the Attempts of
\* a Step that has not succeeded have not either.
LEMMA RunningRun ==
    ASSUME RunFacts, NEW s \in Step, runState[RunOf[s]] = "RUNNING"
    PROVE  /\ NoOtherWaits(s)
           /\ \A t \in Step : RunOf[t] = RunOf[s] => stepState[t] # "FAILED"
  BY DEF RunFacts, NoOtherWaits

LEMMA NoSuccessYet ==
    ASSUME SuccessIsLast, NEW s \in Step, stepState[s] # "SUCCEEDED",
           NEW k \in AttemptNo
    PROVE  attempt[s][k].state # "SUCCEEDED"
  BY DEF SuccessIsLast

\* A step that writes one Step row releases nobody.
LEMMA OneRowReleases ==
    ASSUME StoreInv, NEW s \in Step, NEW y \in StepStates,
           stepState[s] # "PENDING" \/ y # "READY",
           stepState' = [stepState EXCEPT ![s] = y]
    PROVE  ReleasedHasSuccesses
  BY DEF StoreInv, StoreTypeOK, ReleasedHasSuccesses

\* A step that closes the current Attempt without success and moves the Step to
\* y, and the Run with it unless the Step is tried again.
LEMMA UnsuccessfulClose ==
    ASSUME StoreInv, RowInv, NEW s \in Step, NEW n \in AttemptNo,
           NEW x \in AttemptStates, x # "SUCCEEDED",
           NEW y \in {"READY", "WAITING", "FAILED"},
           runState[RunOf[s]] = "RUNNING", LiveStep(s), Close(s, n, x),
           stepState' = [stepState EXCEPT ![s] = y],
           runState' = IF y = "READY" THEN runState
                       ELSE [runState EXCEPT ![RunOf[s]] = y]
    PROVE  RowOutcome(s)
<1> USE PlanAssumption DEF StoreInv, StoreTypeOK, RowInv
<1>1. stepState[s] \in Working /\ stepState[s] \notin {"SUCCEEDED", "PENDING"}
  BY DEF LiveStep, LiveStates, Working
<1>2. stepState'[s] = y
  OBVIOUS
<1>3. RunOutcome(s)
  BY <1>2 DEF RunOutcome
<1>4. SuccessOutcome(s)
  BY <1>1, <1>2, NoSuccessYet DEF SuccessOutcome, Close, AttemptRows
<1>5. ReleasedHasSuccesses
  BY <1>1, OneRowReleases DEF StepStates
<1> QED
  BY <1>1, <1>3, <1>4, <1>5, RunningRun DEF RowOutcome

-----------------------------------------------------------------------------
(* One lemma per method that writes a Step row.                            *)

\* A command that leaves a live Step live.
LEMMA LiveOutcome ==
    ASSUME StoreInv, StoreInv', RowInv, NEW s \in Step, NEW n \in AttemptNo,
           StartAttempt(s, n) \/ Heartbeat(s, n)
    PROVE  RowOutcome(s)
<1> USE DEF StoreInv, StoreTypeOK, RowInv
<1>1. runState[RunOf[s]] = "RUNNING" /\ runState' = runState
  BY DEF StartAttempt, Heartbeat, OwnsFence
<1>2. stepState[s] \in LiveStates
  BY DEF StartAttempt, Heartbeat, OwnsFence, CurrentAttemptIsTheLiveOne,
     LiveStates
<1>3. stepState'[s] \in LiveStates
  BY <1>2 DEF StartAttempt, Heartbeat, LiveStates
<1>4. SuccessOutcome(s)
  BY <1>2, <1>3, NoSuccessYet DEF SuccessOutcome, StartAttempt, Heartbeat,
     LiveStates, AttemptRows
<1>5. ReleasedHasSuccesses
  BY <1>2 DEF StartAttempt, Heartbeat, ReleasedHasSuccesses, LiveStates
<1> QED
  BY <1>1, <1>2, <1>3, <1>4, <1>5, RunningRun DEF RowOutcome, RunOutcome,
     LiveStates, Working

LEMMA SucceedOutcome ==
    ASSUME StoreInv, StoreInv', RowInv, NEW s \in Step, NEW n \in AttemptNo,
           SucceedAttempt(s, n)
    PROVE  RowOutcome(s)
<1> USE PlanAssumption DEF StoreInv, StoreTypeOK, RowInv
<1> DEFINE r == RunOf[s]
           state == [stepState EXCEPT ![s] = "SUCCEEDED"]
<1>1. /\ runState[r] = "RUNNING" /\ stepState[s] = "RUNNING"
      /\ current[s] = n /\ n = tried[s] /\ tried' = tried
      /\ stepState' = ReleaseSuccessors(r, state)
      /\ runState' = IF RunComplete(r, stepState')
                     THEN [runState EXCEPT ![r] = "SUCCEEDED"] ELSE runState
  BY DEF SucceedAttempt, OwnsFence, CurrentAttemptIsTheLiveOne
<1>2. /\ state[s] = "SUCCEEDED" /\ stepState'[s] = "SUCCEEDED"
      /\ \A t \in Step : stepState'[t] # state[t] =>
            /\ RunOf[t] = r /\ state[t] = "PENDING" /\ stepState'[t] = "READY"
            /\ DepsMet(t, state)
  BY <1>1 DEF ReleaseSuccessors
<1>3. \A t \in Step : RunOf[t] = r =>
          state[t] # "FAILED" /\ stepState'[t] # "FAILED"
  <2>1. \A t \in Step : RunOf[t] = r => stepState[t] # "FAILED"
    BY <1>1, RunningRun
  <2>2. \A t \in Step : t # s => state[t] = stepState[t]
    OBVIOUS
  <2> QED
    BY <1>2, <2>1, <2>2
<1>4. RunOutcome(s)
  <2>1. CASE RunComplete(r, stepState')
    BY <1>1, <1>2, <1>3, <2>1 DEF RunComplete, RunOutcome
  <2>2. CASE ~RunComplete(r, stepState')
    BY <1>1, <1>2, <2>2 DEF RunComplete, RunOutcome
  <2> QED
    BY <2>1, <2>2
<1>5. SuccessOutcome(s)
  <2>1. \A k \in AttemptNo : attempt[s][k].state # "SUCCEEDED"
    BY <1>1, NoSuccessYet
  <2>2. /\ attempt'[s][n].state = "SUCCEEDED"
        /\ \A k \in AttemptNo : k # n => attempt'[s][k] = attempt[s][k]
    BY DEF SucceedAttempt, Close, AttemptRows
  <2> QED
    BY <1>1, <1>2, <2>1, <2>2 DEF SuccessOutcome
<1>6. ReleasedHasSuccesses
  <2> SUFFICES ASSUME NEW t \in Step, stepState[t] = "PENDING",
                      stepState'[t] = "READY", NEW p \in Preds(t)
               PROVE  stepState'[p] = "SUCCEEDED"
    BY DEF ReleasedHasSuccesses
  <2>1. p \in Step /\ RunOf[p] = RunOf[t]
    BY DEF Preds
  <2>2. t # s
    BY <1>1
  <2>3. RunOf[t] = r /\ DepsMet(t, state)
    <3>1. state[t] = "PENDING"
      BY <2>2
    <3> QED
      BY <1>2, <3>1
  <2>4. state[p] = "SUCCEEDED"
    BY <1>3, <2>1, <2>3 DEF DepsMet, Preds
  <2> QED
    BY <1>2, <2>1, <2>4
<1> QED
  BY <1>1, <1>4, <1>5, <1>6, RunningRun DEF RowOutcome, Working

LEMMA FailOutcome ==
    ASSUME StoreInv, RowInv, NEW s \in Step, NEW n \in AttemptNo,
           NEW retryable \in BOOLEAN, NEW wait \in BOOLEAN,
           FailAttempt(s, n, retryable, wait)
    PROVE  RowOutcome(s)
<1>1. runState[RunOf[s]] = "RUNNING" /\ LiveStep(s)
  BY DEF FailAttempt, OwnsFence, StoreInv, CurrentAttemptIsTheLiveOne, LiveStep,
     LiveStates
<1>2. PICK x \in {"RECONCILIATION_REQUIRED", "FAILED_RETRYABLE",
                  "FAILED_TERMINAL"},
           y \in {"READY", "WAITING", "FAILED"} :
        /\ Close(s, n, x)
        /\ stepState' = [stepState EXCEPT ![s] = y]
        /\ runState' = IF y = "READY" THEN runState
                       ELSE [runState EXCEPT ![RunOf[s]] = y]
  BY DEF FailAttempt
<1> QED
  BY <1>1, <1>2, UnsuccessfulClose DEF AttemptStates

LEMMA RecoverOutcome ==
    ASSUME StoreInv, RowInv, NEW s \in Step, NEW n \in AttemptNo,
           RecoverExpired(s, n)
    PROVE  RowOutcome(s)
<1>1. runState[RunOf[s]] = "RUNNING" /\ LiveStep(s)
  BY DEF RecoverExpired, ExpiredAttempt, StoreInv, CurrentAttemptIsTheLiveOne,
     LiveStep, LiveStates, AttemptNo
<1>2. PICK x \in {"RECONCILIATION_REQUIRED", "ABANDONED"},
           y \in {"READY", "WAITING", "FAILED"} :
        /\ Close(s, n, x)
        /\ stepState' = [stepState EXCEPT ![s] = y]
        /\ runState' = IF y = "READY" THEN runState
                       ELSE [runState EXCEPT ![RunOf[s]] = y]
  BY DEF RecoverExpired, RecoveryVerdict
<1> QED
  BY <1>1, <1>2, UnsuccessfulClose DEF AttemptStates

LEMMA RowStepOutcome ==
    ASSUME StoreInv, StoreInv', RowInv, NEW s \in Step, RowStep(s)
    PROVE  RowOutcome(s)
<1> USE PlanAssumption DEF StoreInv, StoreTypeOK, RowInv
<1>1. stepState[s] # "SUCCEEDED"
  BY DEF RowStep, TakeClaim, ExpireDeadline, DeadlineExpired, ResumeWaiting
<1>2. \A k \in AttemptNo : attempt[s][k].state # "SUCCEEDED"
  BY <1>1, NoSuccessYet
<1>3. CASE TakeClaim(s) \/ ExpireDeadline(s)
  <2>1. /\ runState[RunOf[s]] = "RUNNING"
        /\ stepState[s] \in {"PENDING", "READY"}
        /\ \/ /\ stepState[s] = "READY" /\ runState' = runState
              /\ stepState' = [stepState EXCEPT ![s] = "CLAIMED"]
           \/ /\ runState' = [runState EXCEPT ![RunOf[s]] = "FAILED"]
              /\ stepState' = [stepState EXCEPT ![s] = "FAILED"]
    BY <1>3 DEF TakeClaim, InsertClaim, ExpireDeadline, DeadlineExpired
  <2>2. SuccessOutcome(s)
    <3>1. \A k \in AttemptNo : attempt'[s][k].state # "SUCCEEDED"
      <4> DEFINE m == tried[s] + 1
                 row(x) == [state |-> x, fence |-> fence[s] + 1]
      <4>1. \/ attempt' = [attempt EXCEPT ![s][m] = row("CLAIMED")]
            \/ attempt' = [attempt EXCEPT ![s][m] = row("FAILED_TERMINAL")]
        BY <1>3 DEF TakeClaim, InsertClaim, ExpireDeadline
      <4>2. /\ row("CLAIMED").state # "SUCCEEDED"
            /\ row("FAILED_TERMINAL").state # "SUCCEEDED"
        OBVIOUS
      <4> HIDE DEF m, row
      <4>3. /\ attempt[s] \in [AttemptNo -> AttemptRows]
            /\ \/ attempt'[s] = [attempt[s] EXCEPT ![m] = row("CLAIMED")]
               \/ attempt'[s] = [attempt[s] EXCEPT ![m] = row("FAILED_TERMINAL")]
        BY <4>1
      <4>4. \A k \in AttemptNo : \/ attempt'[s][k] = attempt[s][k]
                                 \/ attempt'[s][k] = row("CLAIMED")
                                 \/ attempt'[s][k] = row("FAILED_TERMINAL")
        BY <4>3
      <4> QED
        BY <1>2, <4>2, <4>4
    <3> QED
      BY <2>1, <3>1 DEF SuccessOutcome
  <2>3. ReleasedHasSuccesses
    BY <2>1, OneRowReleases DEF StepStates
  <2> QED
    BY <2>1, <2>2, <2>3, RunningRun DEF RowOutcome, RunOutcome, Working
<1>4. CASE ResumeWaiting(s)
  <2>1. /\ runState[RunOf[s]] = "WAITING" /\ stepState[s] = "WAITING"
        /\ runState'[RunOf[s]] = "RUNNING" /\ stepState'[s] = "READY"
        /\ stepState' = [stepState EXCEPT ![s] = "READY"]
        /\ attempt' = attempt
    BY <1>4 DEF ResumeWaiting
  <2>2. NoOtherWaits(s)
    BY <2>1 DEF NoOtherWaits, RunFacts
  <2>3. SuccessOutcome(s)
    BY <1>2, <2>1 DEF SuccessOutcome
  <2>4. ReleasedHasSuccesses
    BY <2>1, OneRowReleases DEF StepStates
  <2> QED
    BY <2>1, <2>2, <2>3, <2>4 DEF RowOutcome, RunOutcome, Working
<1> QED
  BY <1>3, <1>4 DEF RowStep

-----------------------------------------------------------------------------
LEMMA StartRunRowInv ==
    ASSUME StoreInv, RowInv, NEW r \in Run, StartRun(r)
    PROVE  RowInv'
<1> USE PlanAssumption DEF StoreInv, StoreTypeOK, RowInv
<1>1. /\ runState[r] = "QUEUED" /\ runState'[r] = "RUNNING"
      /\ \A q \in Run : q # r => runState'[q] = runState[q]
      /\ \A t \in Step : \/ stepState'[t] = stepState[t]
                          \/ /\ RunOf[t] = r /\ Preds(t) = {}
                             /\ stepState[t] = "PENDING"
                             /\ stepState'[t] = "READY"
      /\ attempt' = attempt /\ tried' = tried
  BY DEF StartRun
<1>2. \A t \in Step : RunOf[t] = r => stepState'[t] \in {"PENDING", "READY"}
  BY <1>1 DEF RunFacts
<1>3. RunFacts'
  <2>1. ASSUME NEW q \in Run, runState'[q] \in {"RUNNING", "WAITING", "FAILED"}
        PROVE  \E t \in Step :
                  /\ RunOf[t] = q
                  /\ runState'[q] = "RUNNING" => stepState'[t] # "SUCCEEDED"
                  /\ runState'[q] # "RUNNING" => stepState'[t] = runState'[q]
    <3>1. CASE q = r
      <4>1. PICK t \in Step : RunOf[t] = r
        OBVIOUS
      <4> QED
        BY <1>1, <1>2, <3>1, <4>1
    <3>2. CASE q # r
      <4>1. PICK t \in Step :
                /\ RunOf[t] = q
                /\ runState[q] = "RUNNING" => stepState[t] # "SUCCEEDED"
                /\ runState[q] # "RUNNING" => stepState[t] = runState[q]
        BY <1>1, <2>1, <3>2 DEF RunFacts
      <4> QED
        BY <1>1, <3>2, <4>1
    <3> QED
      BY <3>1, <3>2
  <2> QED
    <3>1. ASSUME NEW t \in Step
          PROVE  RunFacts!1!(t)'
      BY <1>1, <1>2 DEF RunFacts
    <3>2. ASSUME NEW t \in Step, NEW u \in Step
          PROVE  RunFacts!3!(t, u)'
      BY <1>1 DEF RunFacts
    <3> QED
      BY <2>1, <3>1, <3>2 DEF RunFacts
<1>4. SuccessIsLast'
  BY <1>1 DEF SuccessIsLast
<1>5. DependenciesFirst'
  BY <1>1 DEF DependenciesFirst, Preds
<1> QED
  BY <1>3, <1>4, <1>5

LEMMA RowInvKeeps ==
    ASSUME StoreInv, StoreInv', RowInv, [StoreNext]_storeVars
    PROVE  RowInv'
<1>1. ASSUME NEW s \in Step, NEW n \in AttemptNo, AttemptStep(s, n)
      PROVE  RowInv'
  <2>1. RowOutcome(s)
    BY <1>1, LiveOutcome, SucceedOutcome, FailOutcome, RecoverOutcome
       DEF AttemptStep
  <2> QED
    BY <1>1, <2>1, AttemptStepFrame, OutcomeKeeps
<1>2. ASSUME NEW s \in Step, RowStep(s)
      PROVE  RowInv'
  BY <1>2, RowStepOutcome, RowStepFrame, OutcomeKeeps
<1>3. CASE UNCHANGED <<runState, stepState, attempt, tried>>
  BY <1>3 DEF RowInv, SuccessIsLast, RunFacts, DependenciesFirst
<1>4. ASSUME NEW s \in Step, TimeStep(s)
      PROVE  RowInv'
  BY <1>3, <1>4 DEF TimeStep, LeaseTick, DeadlinePasses, BackoffElapses
<1> QED
  BY <1>1, <1>2, <1>3, <1>4, StartRunRowInv DEF StoreNext, storeVars

-----------------------------------------------------------------------------
(* The store under any callers.                                            *)

LEMMA StoreInvAlways == StoreSpec => [](StoreInv /\ RowInv)
<1>1. StoreInit => StoreInv /\ RowInv
  BY InitKeeps, InitRowInv
<1>2. StoreInv /\ RowInv /\ [StoreNext]_storeVars => (StoreInv /\ RowInv)'
  BY StoreNextKeeps, RowInvKeeps
<1> QED
  BY <1>1, <1>2, PTL DEF StoreSpec

-----------------------------------------------------------------------------
(* The store implements RunLedger.  Each lemma maps one repository method  *)
(* to an action of the ledger, or to no step of it.                        *)

\* The ledger as the rows show it.
Status == [r \in Run |-> LedgerStatus(runState[r])]
Held   == {s \in Step : LiveStep(s)}
Done   == {s \in Step : stepState[s] = "SUCCEEDED"}

LEMMA StatusOf ==
    /\ LedgerStatus("QUEUED") = "NEW"
    /\ LedgerStatus("RUNNING") = "OPEN"
    /\ LedgerStatus("WAITING") = "PARKED"
    /\ LedgerStatus("SUCCEEDED") = "WON"
    /\ LedgerStatus("FAILED") = "LOST"
  BY DEF LedgerStatus

\* A step at Step s changes the ledger at s and its Run only.
LEMMA View ==
    ASSUME StoreInv, NEW s \in Step, OthersOnlyReleased(s)
    PROVE  /\ Held' = IF LiveStep(s)' THEN Held \cup {s} ELSE Held \ {s}
           /\ Done' = IF stepState'[s] = "SUCCEEDED" THEN Done \cup {s}
                                                     ELSE Done \ {s}
           /\ Status' = [Status EXCEPT
                            ![RunOf[s]] = LedgerStatus(runState'[RunOf[s]])]
<1> USE PlanAssumption
<1>1. \A t \in Step : t # s => /\ LiveStep(t)' <=> LiveStep(t)
                               /\ stepState'[t] = "SUCCEEDED" <=>
                                     stepState[t] = "SUCCEEDED"
  BY DEF OthersOnlyReleased, LiveStep, LiveStates
<1>2. \A r \in Run : r # RunOf[s] => runState'[r] = runState[r]
  BY DEF OthersOnlyReleased
<1> QED
  BY <1>1, <1>2 DEF Held, Done, Status

LEMMA InitMaps == StoreInit => Ledger!LedgerInit
<1> SUFFICES ASSUME StoreInit PROVE Ledger!LedgerInit
  OBVIOUS
<1>1. Held = {} /\ Done = {}
  BY DEF StoreInit, Held, Done, LiveStep, LiveStates
<1>2. Status = [r \in Run |-> "NEW"]
  BY StatusOf DEF StoreInit, Status
<1> QED
  BY <1>1, <1>2 DEF Ledger!LedgerInit, Held, Done, Status, StoreInit

LEMMA StartMaps ==
    ASSUME StoreInv, NEW r \in Run, StartRun(r)
    PROVE  Ledger!Open(r)
<1> USE PlanAssumption DEF StoreInv, StoreTypeOK
<1>1. Held' = Held /\ Done' = Done
  BY DEF StartRun, Held, Done, LiveStep, LiveStates
<1>2. Status[r] = "NEW" /\ Status' = [Status EXCEPT ![r] = "OPEN"]
  BY StatusOf DEF StartRun, Status
<1>3. tried' = tried
  BY DEF StartRun
<1> QED
  BY <1>1, <1>2, <1>3 DEF Ledger!Open, Held, Done, Status

\* The commit of a claim finds the Run idle: it leaves one live Step.
LEMMA ClaimMaps ==
    ASSUME StoreInv, StoreInv', RowInv, NEW s \in Step, TakeClaim(s)
    PROVE  Ledger!Grant(s)
<1> USE PlanAssumption, BudgetAssumption DEF StoreInv, StoreTypeOK
<1>1. OthersOnlyReleased(s)
  BY RowStepFrame DEF RowStep
<1>2. /\ runState[RunOf[s]] = "RUNNING" /\ runState' = runState
      /\ stepState[s] = "READY" /\ stepState'[s] = "CLAIMED"
      /\ tried[s] + 1 <= MaxAttempts[s]
      /\ tried' = [tried EXCEPT ![s] = tried[s] + 1]
  BY DEF TakeClaim, InsertClaim
<1>3. LiveStep(s)' /\ ~LiveStep(s)
  BY <1>2 DEF LiveStep, LiveStates
<1>4. Held \cap Ledger!StepsOf(RunOf[s]) = {}
  <2> SUFFICES ASSUME NEW t \in Step, LiveStep(t), RunOf[t] = RunOf[s]
               PROVE  FALSE
    BY DEF Held, Ledger!StepsOf
  <2>1. t # s
    BY <1>3
  <2>2. LiveStep(t)'
    BY <1>1, <2>1 DEF OthersOnlyReleased, LiveStep, LiveStates
  <2> QED
    BY <1>3, <2>1, <2>2 DEF OneLiveStepPerRun
<1>5. s \notin Done /\ Preds(s) \subseteq Done
  BY <1>2 DEF RowInv, DependenciesFirst, Done, Preds
<1>6. /\ Held' = Held \cup {s} /\ Done' = Done
      /\ Status' = Status /\ Status[RunOf[s]] = "OPEN"
  <2>1. Held' = Held \cup {s} /\ Done' = Done \ {s}
    BY <1>1, <1>2, <1>3, View
  <2>2. Status' = Status /\ Status[RunOf[s]] = "OPEN"
    BY <1>2, StatusOf DEF Status
  <2> QED
    BY <1>5, <2>1, <2>2
<1>7. tried[s] < MaxAttempts[s]
  BY <1>2
<1> QED
  BY <1>2, <1>4, <1>5, <1>6, <1>7 DEF Ledger!Grant, Held, Done, Status

\* What all ends of an Attempt have in common: a Step that was held is not any
\* more, and its Run goes where the row says.
LEMMA ReleaseView ==
    ASSUME StoreInv, NEW s \in Step, NEW n \in AttemptNo,
           AttemptStep(s, n), ~LiveStep(s)'
    PROVE  /\ s \in Held /\ s \notin Done /\ n = tried[s] /\ tried' = tried
           /\ Held' = Held \ {s}
<1> USE PlanAssumption DEF StoreInv, StoreTypeOK
<1>1. /\ current[s] = n /\ n # 0 /\ tried' = tried
  BY DEF AttemptStep, StartAttempt, Heartbeat, SucceedAttempt, FailAttempt,
     RecoverExpired, ExpiredAttempt, OwnsFence, AttemptNo
<1>2. LiveStep(s) /\ n = tried[s]
  BY <1>1 DEF CurrentAttemptIsTheLiveOne
<1>3. Held' = Held \ {s}
  BY AttemptStepFrame, View
<1> QED
  BY <1>1, <1>2, <1>3 DEF Held, Done, LiveStep, LiveStates

LEMMA SucceedMaps ==
    ASSUME StoreInv, StoreInv', RowInv, NEW s \in Step, NEW n \in AttemptNo,
           SucceedAttempt(s, n)
    PROVE  Ledger!Finish(s)
<1> USE PlanAssumption DEF StoreInv, StoreTypeOK
<1>1. AttemptStep(s, n) /\ OthersOnlyReleased(s) /\ RunOutcome(s)
  BY AttemptStepFrame, SucceedOutcome DEF AttemptStep, RowOutcome
<1>2. /\ stepState'[s] = "SUCCEEDED"
      /\ runState[RunOf[s]] = "RUNNING"
      /\ runState'[RunOf[s]] \in {"RUNNING", "SUCCEEDED"}
  BY DEF SucceedAttempt, OwnsFence, ReleaseSuccessors
<1>3. ~LiveStep(s)'
  BY <1>2 DEF LiveStep, LiveStates
<1>4. /\ s \in Held /\ Held' = Held \ {s} /\ Done' = Done \cup {s}
      /\ tried' = tried
  BY <1>1, <1>2, <1>3, View, ReleaseView
<1>5. runState'[RunOf[s]] = "SUCCEEDED" <=> Ledger!StepsOf(RunOf[s]) \subseteq Done'
  BY <1>1, <1>2 DEF RunOutcome, Ledger!StepsOf, Done
<1>6. Status' = IF Ledger!StepsOf(RunOf[s]) \subseteq Done'
                THEN [Status EXCEPT ![RunOf[s]] = "WON"] ELSE Status
  <2>1. CASE runState'[RunOf[s]] = "SUCCEEDED"
    BY <1>1, <1>5, <2>1, View, StatusOf
  <2>2. CASE runState'[RunOf[s]] = "RUNNING"
    <3>1. \A r \in Run : runState'[r] = runState[r]
      BY <1>1, <1>2, <2>2 DEF OthersOnlyReleased
    <3> QED
      BY <1>5, <2>2, <3>1 DEF Status
  <2> QED
    BY <1>2, <2>1, <2>2
<1> QED
  BY <1>4, <1>6 DEF Ledger!Finish, Held, Done, Status

\* A failure and a recovery: dropped, parked or lost.
LEMMA UnsuccessfulMaps ==
    ASSUME StoreInv, NEW s \in Step, NEW n \in AttemptNo, AttemptStep(s, n),
           NEW y \in {"READY", "WAITING", "FAILED"},
           y = "READY" => n < MaxAttempts[s],
           stepState' = [stepState EXCEPT ![s] = y],
           runState' = IF y = "READY" THEN runState
                       ELSE [runState EXCEPT ![RunOf[s]] = y]
    PROVE  Ledger!Drop(s) \/ Ledger!Park(s) \/ Ledger!LoseHeld(s)
<1> USE PlanAssumption DEF StoreInv, StoreTypeOK
<1>1. OthersOnlyReleased(s)
  BY AttemptStepFrame
<1>2. stepState'[s] = y
  OBVIOUS
<1>3. /\ s \in Held /\ Held' = Held \ {s} /\ Done' = Done
      /\ n = tried[s] /\ tried' = tried
  <2>1. ~LiveStep(s)'
    BY <1>2 DEF LiveStep, LiveStates
  <2>2. Done' = Done \ {s}
    BY <1>1, <1>2, View
  <2> QED
    BY <2>1, <2>2, ReleaseView
<1>4. CASE y = "READY"
  <2>1. Status' = Status
    BY <1>4 DEF Status
  <2> QED
    BY <1>3, <1>4, <2>1 DEF Ledger!Drop, Held, Done, Status
<1>5. CASE y = "WAITING"
  <2>1. Status' = [Status EXCEPT ![RunOf[s]] = "PARKED"]
    BY <1>1, <1>5, View, StatusOf
  <2> QED
    BY <1>3, <2>1 DEF Ledger!Park, Held, Done, Status
<1>6. CASE y = "FAILED"
  <2>1. Status' = [Status EXCEPT ![RunOf[s]] = "LOST"]
    BY <1>1, <1>6, View, StatusOf
  <2> QED
    BY <1>3, <2>1 DEF Ledger!LoseHeld, Held, Done, Status
<1> QED
  BY <1>4, <1>5, <1>6

LEMMA FailMaps ==
    ASSUME StoreInv, NEW s \in Step, NEW n \in AttemptNo,
           NEW retryable \in BOOLEAN, NEW wait \in BOOLEAN,
           FailAttempt(s, n, retryable, wait)
    PROVE  Ledger!Drop(s) \/ Ledger!Park(s) \/ Ledger!LoseHeld(s)
<1>1. PICK y \in {"READY", "WAITING", "FAILED"} :
        /\ y = "READY" => n < MaxAttempts[s]
        /\ stepState' = [stepState EXCEPT ![s] = y]
        /\ runState' = IF y = "READY" THEN runState
                       ELSE [runState EXCEPT ![RunOf[s]] = y]
  BY DEF FailAttempt
<1>2. AttemptStep(s, n)
  BY DEF AttemptStep
<1> QED
  BY <1>1, <1>2, UnsuccessfulMaps

LEMMA RecoverMaps ==
    ASSUME StoreInv, NEW s \in Step, NEW n \in AttemptNo, RecoverExpired(s, n)
    PROVE  Ledger!Drop(s) \/ Ledger!Park(s) \/ Ledger!LoseHeld(s)
<1>1. PICK y \in {"READY", "WAITING", "FAILED"} :
        /\ y = "READY" => n < MaxAttempts[s]
        /\ stepState' = [stepState EXCEPT ![s] = y]
        /\ runState' = IF y = "READY" THEN runState
                       ELSE [runState EXCEPT ![RunOf[s]] = y]
  BY DEF RecoverExpired, RecoveryVerdict
<1>2. AttemptStep(s, n)
  BY DEF AttemptStep
<1> QED
  BY <1>1, <1>2, UnsuccessfulMaps

LEMMA ExpireMaps ==
    ASSUME StoreInv, NEW s \in Step, ExpireDeadline(s)
    PROVE  Ledger!LoseIdle(s)
<1> USE PlanAssumption, BudgetAssumption DEF StoreInv, StoreTypeOK
<1>1. OthersOnlyReleased(s)
  BY RowStepFrame DEF RowStep
<1>2. /\ runState[RunOf[s]] = "RUNNING" /\ Idle(RunOf[s])
      /\ runState'[RunOf[s]] = "FAILED"
      /\ stepState[s] \in {"PENDING", "READY"} /\ stepState'[s] = "FAILED"
      /\ tried[s] + 1 <= MaxAttempts[s]
      /\ tried' = [tried EXCEPT ![s] = tried[s] + 1]
  BY DEF ExpireDeadline, DeadlineExpired
<1>3. s \notin Done /\ s \notin Held /\ ~LiveStep(s)'
  BY <1>2 DEF Done, Held, LiveStep, LiveStates
<1>4. Held \cap Ledger!StepsOf(RunOf[s]) = {}
  BY <1>2 DEF Held, Ledger!StepsOf, Idle
<1>5. Held' = Held /\ Done' = Done
  <2>1. Held' = Held \ {s} /\ Done' = Done \ {s}
    BY <1>1, <1>2, <1>3, View
  <2> QED
    BY <1>3, <2>1
<1>6. /\ Status[RunOf[s]] = "OPEN"
      /\ Status' = [Status EXCEPT ![RunOf[s]] = "LOST"]
  <2>1. Status[RunOf[s]] = "OPEN"
    BY <1>2, StatusOf DEF Status
  <2> QED
    BY <1>1, <1>2, <2>1, View, StatusOf
<1>7. tried[s] < MaxAttempts[s]
  BY <1>2
<1> QED
  BY <1>2, <1>3, <1>4, <1>5, <1>6, <1>7
     DEF Ledger!LoseIdle, Held, Done, Status

LEMMA ResumeMaps ==
    ASSUME StoreInv, NEW s \in Step, ResumeWaiting(s)
    PROVE  Ledger!Unpark(RunOf[s])
<1> USE PlanAssumption DEF StoreInv, StoreTypeOK
<1>1. OthersOnlyReleased(s)
  BY RowStepFrame DEF RowStep
<1>2. /\ runState[RunOf[s]] = "WAITING" /\ runState'[RunOf[s]] = "RUNNING"
      /\ stepState[s] = "WAITING" /\ stepState'[s] = "READY"
      /\ tried' = tried
  BY DEF ResumeWaiting
<1>3. s \notin Done /\ s \notin Held /\ ~LiveStep(s)'
  BY <1>2 DEF Done, Held, LiveStep, LiveStates
<1>4. Held' = Held \ {s} /\ Done' = Done \ {s}
  BY <1>1, <1>2, <1>3, View
<1>5. /\ Status[RunOf[s]] = "PARKED"
      /\ Status' = [Status EXCEPT ![RunOf[s]] = "OPEN"]
  <2>1. Status[RunOf[s]] = "PARKED"
    BY <1>2, StatusOf DEF Status
  <2> QED
    BY <1>1, <1>2, <2>1, View, StatusOf
<1> QED
  BY <1>2, <1>3, <1>4, <1>5 DEF Ledger!Unpark, Held, Done, Status

\* The ledger does not see an Attempt begin, a heartbeat, or the clock.
LEMMA Unseen ==
    ASSUME StoreInv, NEW s \in Step,
           \/ TimeStep(s)
           \/ \E n \in AttemptNo : StartAttempt(s, n) \/ Heartbeat(s, n)
    PROVE  UNCHANGED Ledger!ledgerVars
<1> USE DEF StoreInv, StoreTypeOK
<1>1. runState' = runState /\ tried' = tried
  BY DEF TimeStep, LeaseTick, DeadlinePasses, BackoffElapses, StartAttempt,
     Heartbeat
<1>2. \/ stepState' = stepState
      \/ /\ stepState[s] = "CLAIMED"
         /\ stepState' = [stepState EXCEPT ![s] = "RUNNING"]
  BY DEF TimeStep, LeaseTick, DeadlinePasses, BackoffElapses, StartAttempt,
     Heartbeat
<1>3. \A t \in Step : /\ LiveStep(t)' <=> LiveStep(t)
                      /\ stepState'[t] = "SUCCEEDED" <=>
                            stepState[t] = "SUCCEEDED"
  BY <1>2 DEF LiveStep, LiveStates
<1>4. Held' = Held /\ Done' = Done /\ Status' = Status
  BY <1>1, <1>3 DEF Held, Done, Status
<1> QED
  BY <1>1, <1>4 DEF Ledger!ledgerVars, Held, Done, Status

\* A step of the rows is a step of the ledger or none.
LEMMA LedgerStep ==
    ASSUME StoreInv, StoreInv', RowInv, [StoreNext]_storeVars
    PROVE  [Ledger!LedgerNext]_(Ledger!ledgerVars)
<1>1. ASSUME NEW r \in Run, StartRun(r)
      PROVE  Ledger!LedgerNext
  BY <1>1, StartMaps DEF Ledger!LedgerNext
<1>2. ASSUME NEW s \in Step, NEW n \in AttemptNo, AttemptStep(s, n)
      PROVE  [Ledger!LedgerNext]_(Ledger!ledgerVars)
  <2>1. CASE StartAttempt(s, n) \/ Heartbeat(s, n)
    BY <2>1, Unseen
  <2>2. CASE SucceedAttempt(s, n)
    BY <2>2, SucceedMaps DEF Ledger!LedgerNext
  <2>3. CASE \/ \E y, z \in BOOLEAN : FailAttempt(s, n, y, z)
             \/ RecoverExpired(s, n)
    <3>1. Ledger!Drop(s) \/ Ledger!Park(s) \/ Ledger!LoseHeld(s)
      BY <2>3, FailMaps, RecoverMaps
    <3> QED
      BY <3>1 DEF Ledger!LedgerNext
  <2> QED
    BY <1>2, <2>1, <2>2, <2>3 DEF AttemptStep
<1>3. ASSUME NEW s \in Step, RowStep(s)
      PROVE  Ledger!LedgerNext
  <2>1. CASE TakeClaim(s)
    BY <2>1, ClaimMaps DEF Ledger!LedgerNext
  <2>2. CASE ExpireDeadline(s)
    BY <2>2, ExpireMaps DEF Ledger!LedgerNext
  <2>3. CASE ResumeWaiting(s)
    BY <2>3, ResumeMaps, PlanAssumption DEF Ledger!LedgerNext
  <2> QED
    BY <1>3, <2>1, <2>2, <2>3 DEF RowStep
<1>4. ASSUME NEW s \in Step, TimeStep(s)
      PROVE  UNCHANGED Ledger!ledgerVars
  BY <1>4, Unseen DEF TimeStep
<1>5. CASE UNCHANGED storeVars
  BY <1>5 DEF storeVars, Ledger!ledgerVars, LiveStep
<1> QED
  BY <1>1, <1>2, <1>3, <1>4, <1>5 DEF StoreNext

-----------------------------------------------------------------------------
(* The theorems of the store.                                              *)

\* Whoever calls, the rows agree after every transaction: no Run has two live
\* Steps, Attempts are numbered and fenced without a gap and the Step points to
\* the live one, a success is last, the Run row follows its Steps and no Step is
\* worked on before what it depends on.
THEOREM StoreRows ==
    StoreSpec => []( /\ OneLiveStepPerRun /\ CurrentAttemptIsTheLiveOne
                     /\ FencesGrow /\ SuccessIsLast
                     /\ RunAgreesWithSteps /\ DependenciesFirst )
<1>1. StoreInv /\ RowInv =>
        /\ OneLiveStepPerRun /\ CurrentAttemptIsTheLiveOne
        /\ FencesGrow /\ SuccessIsLast
        /\ RunAgreesWithSteps /\ DependenciesFirst
  BY FactsAgree DEF StoreInv, RowInv
<1> QED
  BY <1>1, StoreInvAlways, PTL

\* Whoever calls, an ended Run stays as it is.
THEOREM StoreFrozen == StoreSpec => EndedRunIsFrozen
<1>1. StoreInv /\ [StoreNext]_storeVars =>
        \A r \in Run : runState[r] \in {"SUCCEEDED", "FAILED"} =>
          runState'[r] = runState[r] /\ RunRows(r)' = RunRows(r)
  BY EndedStep DEF Frozen
<1> QED
  BY <1>1, StoreInvAlways, PTL DEF StoreSpec, EndedRunIsFrozen

\* Whoever calls, a lapsed Attempt has no result.
THEOREM StoreLapsed == StoreSpec => LapsedAttemptHasNoResult
<1>1. StoreInv /\ [StoreNext]_storeVars =>
        \A s \in Step : LiveStep(s) /\ lease[s] = 0 =>
          \/ UNCHANGED <<stepState[s], attempt[s]>>
          \/ attempt'[s][current[s]].state \in
                {"ABANDONED", "RECONCILIATION_REQUIRED"}
  BY LapsedStep DEF LapsedOutcome
<1> QED
  BY <1>1, StoreInvAlways, PTL DEF StoreSpec, LapsedAttemptHasNoResult

\* Whoever calls, a started remote command is resolved before it is retried.
THEOREM StoreRemote == StoreSpec => RemoteEffectIsNeverRetriedBlind
<1>1. StoreInv /\ [StoreNext]_storeVars =>
        \A s \in Remote :
          /\ stepState[s] = "RUNNING" =>
                stepState'[s] \in {"RUNNING", "WAITING", "SUCCEEDED"}
          /\ stepState[s] = "WAITING" /\ stepState'[s] # "WAITING" =>
                runState[RunOf[s]] = "WAITING" /\ runState'[RunOf[s]] = "RUNNING"
  BY RemoteStep DEF RemoteOutcome
<1> QED
  BY <1>1, StoreInvAlways, PTL DEF StoreSpec, RemoteEffectIsNeverRetriedBlind

\* Whoever calls, no Step comes back to a situation it was in.
THEOREM StoreForward == StoreSpec => StepsGoForward
<1>1. StoreInv /\ [StoreNext]_storeVars =>
        \A s \in Step : stepState'[s] # stepState[s] \/ tried'[s] # tried[s] =>
          \/ tried'[s] > tried[s]
          \/ tried'[s] = tried[s] /\ Phase(stepState'[s]) > Phase(stepState[s])
  BY ForwardStep DEF GoesForward
<1> QED
  BY <1>1, StoreInvAlways, PTL DEF StoreSpec, StepsGoForward

\* Whoever calls, the end of an Attempt is written once.
THEOREM StoreHistory == StoreSpec => AttemptEndsOnce
<1>1. StoreInv /\ [StoreNext]_storeVars =>
        \A s \in Step : \A n \in AttemptNo :
          attempt[s][n].state \notin LiveStates \cup {"ABSENT"} =>
              attempt'[s][n] = attempt[s][n]
  BY EndsOnceStep DEF Ended
<1> QED
  BY <1>1, StoreInvAlways, PTL DEF StoreSpec, AttemptEndsOnce

\* Whoever calls, the rows are a history of the ledger.
THEOREM StoreIsLedger == StoreSpec => ImplementsLedger
<1>1. StoreInv /\ StoreInv' /\ RowInv /\ [StoreNext]_storeVars =>
        [Ledger!LedgerNext]_(Ledger!ledgerVars)
  BY LedgerStep
<1> QED
  BY <1>1, InitMaps, StoreInvAlways, PTL DEF StoreSpec, ImplementsLedger,
     Ledger!LedgerSpec
=============================================================================
