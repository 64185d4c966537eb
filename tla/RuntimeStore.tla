---------------------------- MODULE RuntimeStore ----------------------------
(***************************************************************************)
(* The Run / Step / Attempt rows of the target database and the SQL        *)
(* transactions of PostgresRuntimeRepository that move them                *)
(* (infrastructure/postgres/repositories/runtime.py), together with the    *)
(* row triggers that reject a forbidden edge.                              *)
(*                                                                         *)
(* Every operator below that has primed variables is one method of the     *)
(* repository, from its first check to its last UPDATE.  Each runs in one  *)
(* transaction that locks the Run, the Step and the Attempt it touches, so *)
(* it is one atomic step; claim_next alone reads its candidates before it  *)
(* locks them, and RuntimeService splits it in two.                        *)
(*                                                                         *)
(* Time is abstract: a lease is a number of ticks left, a deadline has     *)
(* passed or not, a retry is delayed or not.                               *)
(***************************************************************************)
EXTENDS Naturals

CONSTANTS
    Run,            \* runtime_run rows
    Step,           \* runtime_step rows
    RunOf,          \* the Run of a Step
    Needs,          \* REQUIRED_SUCCESS predecessors of a Step
    After,          \* TERMINAL predecessors of a Step
    Required,       \* Steps with required = true
    Remote,         \* Steps whose effect class is a remote command
    Dated,          \* Steps whose retry policy has a deadline
    MaxAttempts,    \* retry budget of a Step
    MaxBudget,      \* the largest budget RetryPolicy accepts: 64
    LeaseTerm       \* ticks a claim or a heartbeat grants

Preds(s) == Needs[s] \cup After[s]

ASSUME PlanAssumption ==
    /\ RunOf \in [Step -> Run]
    /\ \A r \in Run : \E s \in Step : RunOf[s] = r
    /\ Needs \in [Step -> SUBSET Step]
    /\ After \in [Step -> SUBSET Step]
    /\ \A s \in Step : \A p \in Preds(s) : p # s /\ RunOf[p] = RunOf[s]
    /\ Required \subseteq Step
    /\ Remote \subseteq Step
    /\ Dated \subseteq Step

ASSUME BudgetAssumption ==
    /\ MaxBudget \in Nat
    /\ MaxAttempts \in [Step -> 1..MaxBudget]
    /\ LeaseTerm \in Nat \ {0}

VARIABLES
    runState,       \* runtime_run.state
    stepState,      \* runtime_step.state
    fence,          \* runtime_step.current_fence
    current,        \* attempt_no of runtime_step.current_attempt_id, 0 for NULL
    attempt,        \* the runtime_attempt rows of a Step, by attempt_no
    tried,          \* max(attempt_no) of a Step, 0 when it has none
    lease,          \* ticks until lease_until of the current Attempt
    overdue,        \* deadline_at <= clock_timestamp()
    delayed         \* ready_at > clock_timestamp()

storeVars == <<runState, stepState, fence, current, attempt, tried, lease,
               overdue, delayed>>

RunStates  == {"QUEUED", "RUNNING", "WAITING", "SUCCEEDED", "FAILED"}
StepStates == {"PENDING", "READY", "CLAIMED", "RUNNING", "WAITING",
               "SUCCEEDED", "FAILED"}
LiveStates == {"CLAIMED", "RUNNING"}
AttemptStates ==
    LiveStates \cup {"SUCCEEDED", "FAILED_RETRYABLE", "FAILED_TERMINAL",
                     "ABANDONED", "RECONCILIATION_REQUIRED"}

\* The edges guard_runtime_step_update lets through, among the states the
\* repository writes.
StepEdges ==
    {<<"PENDING", "READY">>, <<"READY", "CLAIMED">>, <<"CLAIMED", "RUNNING">>,
     <<"CLAIMED", "READY">>, <<"RUNNING", "READY">>, <<"RUNNING", "WAITING">>,
     <<"RUNNING", "SUCCEEDED">>, <<"RUNNING", "FAILED">>,
     <<"WAITING", "READY">>}

AttemptNo    == 1..MaxBudget
NoAttempt    == [state |-> "ABSENT", fence |-> 0]
AttemptRows  == [state : AttemptStates \cup {"ABSENT"}, fence : Nat]

\* Every row is in a state the repository can write.
StoreTypeOK ==
    /\ runState \in [Run -> RunStates]
    /\ stepState \in [Step -> StepStates]
    /\ fence \in [Step -> Nat]
    /\ current \in [Step -> 0..MaxBudget]
    /\ attempt \in [Step -> [AttemptNo -> AttemptRows]]
    /\ tried \in [Step -> 0..MaxBudget]
    /\ \A s \in Step : tried[s] <= MaxAttempts[s]
    /\ lease \in [Step -> 0..LeaseTerm]
    /\ overdue \in [Step -> BOOLEAN]
    /\ delayed \in [Step -> BOOLEAN]

LiveStep(s)  == stepState[s] \in LiveStates
Idle(r)      == \A s \in Step : RunOf[s] = r => ~LiveStep(s)

\* Mutant of DepsMet: the TERMINAL dependencies are forgotten.
DepsMetRequiredOnly(s, state) == \A p \in Needs[s] : state[p] = "SUCCEEDED"

\* A dependency is met: REQUIRED_SUCCESS by success, TERMINAL by any end.
DepsMet(s, state) ==
    /\ \A p \in Needs[s] : state[p] = "SUCCEEDED"
    /\ \A p \in After[s] : state[p] \in {"SUCCEEDED", "FAILED"}

(***************************************************************************)
(* insert_run leaves a QUEUED Run whose Steps are all PENDING.             *)
(***************************************************************************)
StoreInit ==
    /\ runState  = [r \in Run |-> "QUEUED"]
    /\ stepState = [s \in Step |-> "PENDING"]
    /\ fence     = [s \in Step |-> 0]
    /\ current   = [s \in Step |-> 0]
    /\ attempt   = [s \in Step |-> [n \in AttemptNo |-> NoAttempt]]
    /\ tried     = [s \in Step |-> 0]
    /\ lease     = [s \in Step |-> 0]
    /\ overdue   = [s \in Step |-> FALSE]
    /\ delayed   = [s \in Step |-> FALSE]

-----------------------------------------------------------------------------
(* start_run: QUEUED -> RUNNING; Steps without predecessors become READY.  *)
StartRun(r) ==
    /\ runState[r] = "QUEUED"
    /\ runState' = [runState EXCEPT ![r] = "RUNNING"]
    /\ stepState' = [s \in Step |->
            IF RunOf[s] = r /\ stepState[s] = "PENDING" /\ Preds(s) = {}
            THEN "READY" ELSE stepState[s]]
    /\ UNCHANGED <<fence, current, attempt, tried, lease, overdue, delayed>>

\* The WHERE clause of claim_next.
Claimable(s) ==
    /\ runState[RunOf[s]] = "RUNNING"
    /\ stepState[s] = "READY"
    /\ ~delayed[s]
    /\ ~overdue[s]
    /\ Idle(RunOf[s])
    /\ DepsMet(s, stepState)

\* The rest of claim_next: a new Attempt under the next fence.
InsertClaim(s) ==
    LET n == tried[s] + 1
        f == fence[s] + 1
    IN  /\ n <= MaxAttempts[s]
        /\ attempt' = [attempt EXCEPT ![s][n] = [state |-> "CLAIMED", fence |-> f]]
        /\ tried' = [tried EXCEPT ![s] = n]
        /\ fence' = [fence EXCEPT ![s] = f]
        /\ current' = [current EXCEPT ![s] = n]
        /\ lease' = [lease EXCEPT ![s] = LeaseTerm]
        /\ stepState' = [stepState EXCEPT ![s] = "CLAIMED"]
        /\ UNCHANGED <<runState, overdue, delayed>>

-----------------------------------------------------------------------------
\* Mutant of OwnsFence: the lease is not looked at.
OwnsFenceWithoutLease(s, n, states) ==
    /\ runState[RunOf[s]] = "RUNNING"
    /\ attempt[s][n].state \in states
    /\ current[s] = n
    /\ fence[s] = attempt[s][n].fence

(* _lock_live_claim: the claim of Attempt n of Step s still owns the Step. *)
(* A claim is durable: its holder may present it at any later time, and a  *)
(* replayed claim command returns it again.                                *)
OwnsFence(s, n, states) ==
    /\ runState[RunOf[s]] = "RUNNING"
    /\ attempt[s][n].state \in states
    /\ current[s] = n
    /\ fence[s] = attempt[s][n].fence
    /\ lease[s] > 0

\* Mutant of Close: the Step keeps pointing to the closed Attempt.
CloseKeepingPointer(s, n, state) ==
    /\ attempt' = [attempt EXCEPT ![s][n].state = state]
    /\ lease' = [lease EXCEPT ![s] = 0]
    /\ UNCHANGED current

\* A step stops being live: the Attempt gets its final state, the Step loses
\* its current Attempt.
Close(s, n, state) ==
    /\ attempt' = [attempt EXCEPT ![s][n].state = state]
    /\ current' = [current EXCEPT ![s] = 0]
    /\ lease' = [lease EXCEPT ![s] = 0]

StartAttempt(s, n) ==
    /\ OwnsFence(s, n, {"CLAIMED"})
    /\ stepState[s] = "CLAIMED"
    /\ attempt' = [attempt EXCEPT ![s][n].state = "RUNNING"]
    /\ stepState' = [stepState EXCEPT ![s] = "RUNNING"]
    /\ UNCHANGED <<runState, fence, current, tried, lease, overdue, delayed>>

Heartbeat(s, n) ==
    /\ OwnsFence(s, n, LiveStates)
    /\ lease' = [lease EXCEPT ![s] = LeaseTerm]
    /\ UNCHANGED <<runState, stepState, fence, current, attempt, tried,
                   overdue, delayed>>

\* Mutant of ReleaseSuccessors: the dependencies are read before the success.
ReleaseBeforeSuccess(r, state) ==
    [s \in Step |->
        IF /\ RunOf[s] = r
           /\ state[s] = "PENDING"
           /\ Preds(s) # {}
           /\ DepsMet(s, stepState)
        THEN "READY" ELSE state[s]]

\* _release_ready_successors, on the Steps as they are after the success.
ReleaseSuccessors(r, state) ==
    [s \in Step |->
        IF /\ RunOf[s] = r
           /\ state[s] = "PENDING"
           /\ Preds(s) # {}
           /\ DepsMet(s, state)
        THEN "READY" ELSE state[s]]

\* Mutant of RunComplete: the Run is over when its required Steps are.
RequiredComplete(r, state) ==
    \A s \in Required : RunOf[s] = r => state[s] = "SUCCEEDED"

\* Mutant of RunComplete: the rows are counted before the success is written.
CompleteBeforeSuccess(r, state) ==
    \A s \in Step : RunOf[s] = r => stepState[s] \in {"SUCCEEDED", "FAILED"}

\* _finish_run_if_complete.
RunComplete(r, state) ==
    /\ \A s \in Step : RunOf[s] = r => state[s] \in {"SUCCEEDED", "FAILED"}
    /\ \A s \in Required : RunOf[s] = r => state[s] = "SUCCEEDED"

SucceedAttempt(s, n) ==
    LET r     == RunOf[s]
        after == ReleaseSuccessors(r, [stepState EXCEPT ![s] = "SUCCEEDED"])
    IN  /\ OwnsFence(s, n, {"RUNNING"})
        /\ stepState[s] = "RUNNING"
        /\ Close(s, n, "SUCCEEDED")
        /\ stepState' = after
        /\ runState' = IF RunComplete(r, after)
                       THEN [runState EXCEPT ![r] = "SUCCEEDED"] ELSE runState
        /\ UNCHANGED <<fence, tried, overdue, delayed>>

\* fail_attempt.  "retryable" is whether the error code is in the policy;
\* "wait" is whether the backoff of this retry is longer than zero.
FailAttempt(s, n, retryable, wait) ==
    /\ OwnsFence(s, n, {"RUNNING"})
    /\ \/ /\ s \in Remote
          /\ Close(s, n, "RECONCILIATION_REQUIRED")
          /\ stepState' = [stepState EXCEPT ![s] = "WAITING"]
          /\ runState' = [runState EXCEPT ![RunOf[s]] = "WAITING"]
          /\ UNCHANGED delayed
       \/ /\ s \notin Remote
          /\ retryable /\ n < MaxAttempts[s]
          /\ Close(s, n, "FAILED_RETRYABLE")
          /\ stepState' = [stepState EXCEPT ![s] = "READY"]
          /\ delayed' = [delayed EXCEPT ![s] = wait]
          /\ UNCHANGED runState
       \/ /\ s \notin Remote
          /\ ~(retryable /\ n < MaxAttempts[s])
          /\ Close(s, n, "FAILED_TERMINAL")
          /\ stepState' = [stepState EXCEPT ![s] = "FAILED"]
          /\ runState' = [runState EXCEPT ![RunOf[s]] = "FAILED"]
          /\ UNCHANGED delayed
    /\ UNCHANGED <<fence, tried, overdue>>

-----------------------------------------------------------------------------
(* recover_expired_attempt: the checks under the row locks, the verdict,   *)
(* and the writes.  The trigger rejects a verdict that is not a Step edge: *)
(* the transaction raises and nothing is written.                          *)
ExpiredAttempt(s, n) ==
    /\ runState[RunOf[s]] = "RUNNING"
    /\ attempt[s][n].state \in LiveStates
    /\ current[s] = n
    /\ fence[s] = attempt[s][n].fence
    /\ lease[s] = 0

\* Mutant of RecoveryVerdict: the effect class is not looked at.
VerdictIgnoringEffect(s, n) ==
    IF n < MaxAttempts[s] THEN "READY" ELSE "FAILED"

RecoveryVerdict(s, n) ==
    IF attempt[s][n].state = "RUNNING" /\ s \in Remote THEN "WAITING"
    ELSE IF n < MaxAttempts[s] THEN "READY"
    ELSE "FAILED"

RecoveryAllowed(s, n) == <<stepState[s], RecoveryVerdict(s, n)>> \in StepEdges

RecoverExpired(s, n) ==
    LET verdict == RecoveryVerdict(s, n)
    IN  /\ ExpiredAttempt(s, n)
        /\ RecoveryAllowed(s, n)
        /\ Close(s, n, IF verdict = "WAITING" THEN "RECONCILIATION_REQUIRED"
                                              ELSE "ABANDONED")
        /\ stepState' = [stepState EXCEPT ![s] = verdict]
        /\ runState' = IF verdict = "READY" THEN runState
                       ELSE [runState EXCEPT ![RunOf[s]] = verdict]
        /\ delayed' = IF verdict = "READY" THEN [delayed EXCEPT ![s] = FALSE]
                      ELSE delayed
        /\ UNCHANGED <<fence, tried, overdue>>

\* Mutant of DeadlineExpired: the state of the Run is not looked at again.
DeadlineExpiredAnyRun(s) ==
    /\ stepState[s] \in {"PENDING", "READY"}
    /\ overdue[s]
    /\ Idle(RunOf[s])

\* expire_step_deadline: the SELECT, then an Attempt that is claimed, started
\* and failed inside the one transaction.
DeadlineExpired(s) ==
    /\ runState[RunOf[s]] = "RUNNING"
    /\ stepState[s] \in {"PENDING", "READY"}
    /\ overdue[s]
    /\ Idle(RunOf[s])

ExpireDeadline(s) ==
    LET n == tried[s] + 1
        f == fence[s] + 1
    IN  /\ DeadlineExpired(s)
        /\ n <= MaxAttempts[s]
        /\ attempt' = [attempt EXCEPT
                          ![s][n] = [state |-> "FAILED_TERMINAL", fence |-> f]]
        /\ tried' = [tried EXCEPT ![s] = n]
        /\ fence' = [fence EXCEPT ![s] = f]
        /\ stepState' = [stepState EXCEPT ![s] = "FAILED"]
        /\ runState' = [runState EXCEPT ![RunOf[s]] = "FAILED"]
        /\ delayed' = IF stepState[s] = "PENDING"
                      THEN [delayed EXCEPT ![s] = FALSE] ELSE delayed
        /\ UNCHANGED <<current, lease, overdue>>

\* Mutant of ResumeWaiting: that it is this Step the Run waits for is not looked at.
ResumeUnderWaitingRun(s) ==
    /\ runState[RunOf[s]] = "WAITING"
    /\ stepState' = [stepState EXCEPT ![s] = "READY"]
    /\ runState' = [runState EXCEPT ![RunOf[s]] = "RUNNING"]
    /\ delayed' = [delayed EXCEPT ![s] = FALSE]
    /\ UNCHANGED <<fence, current, attempt, tried, lease, overdue>>

\* resume_waiting_step: no check of the retry budget.
ResumeWaiting(s) ==
    /\ runState[RunOf[s]] = "WAITING"
    /\ stepState[s] = "WAITING"
    /\ stepState' = [stepState EXCEPT ![s] = "READY"]
    /\ runState' = [runState EXCEPT ![RunOf[s]] = "RUNNING"]
    /\ delayed' = [delayed EXCEPT ![s] = FALSE]
    /\ UNCHANGED <<fence, current, attempt, tried, lease, overdue>>

-----------------------------------------------------------------------------
(* The clock, as the WHERE clauses see it.                                 *)
LeaseTick(s) ==
    /\ lease[s] > 0
    /\ lease' = [lease EXCEPT ![s] = @ - 1]
    /\ UNCHANGED <<runState, stepState, fence, current, attempt, tried,
                   overdue, delayed>>

DeadlinePasses(s) ==
    /\ s \in Dated
    /\ ~overdue[s]
    /\ overdue' = [overdue EXCEPT ![s] = TRUE]
    /\ UNCHANGED <<runState, stepState, fence, current, attempt, tried, lease,
                   delayed>>

BackoffElapses(s) ==
    /\ delayed[s]
    /\ delayed' = [delayed EXCEPT ![s] = FALSE]
    /\ UNCHANGED <<runState, stepState, fence, current, attempt, tried, lease,
                   overdue>>

-----------------------------------------------------------------------------
(* What the rows satisfy between two transactions, whoever calls.          *)
\* One Run never has two live Steps, although no row records "the" live Step
\* and a claim reads its candidates before it locks one (claim_next's NOT
\* EXISTS live_step).
OneLiveStepPerRun ==
    \A s, t \in Step :
        LiveStep(s) /\ LiveStep(t) /\ RunOf[s] = RunOf[t] => s = t

\* The Attempt rows and the Step row agree: the only live Attempt of a Step is
\* the one the Step points to, it is the newest, it carries the Step's fence,
\* and a Step without a live Attempt points to none.
CurrentAttemptIsTheLiveOne ==
    \A s \in Step :
        /\ LiveStep(s) <=> current[s] # 0
        /\ lease[s] > 0 => LiveStep(s)
        /\ \A n \in AttemptNo :
              /\ attempt[s][n].state \in LiveStates => current[s] = n
              /\ current[s] = n =>
                    /\ n = tried[s]
                    /\ attempt[s][n].state = stepState[s]
                    /\ attempt[s][n].fence = fence[s]

\* Attempts are numbered without a gap, a later one has a higher fence, and
\* the fence never runs ahead of the Attempts it was given to.
FencesGrow ==
    \A s \in Step :
        /\ fence[s] = tried[s]
        /\ \A n \in AttemptNo :
              /\ attempt[s][n].state = "ABSENT" <=> n > tried[s]
              /\ n <= tried[s] => attempt[s][n].fence = n
=============================================================================
