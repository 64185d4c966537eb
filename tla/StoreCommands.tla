---------------------------- MODULE StoreCommands ----------------------------
(***************************************************************************)
(* The rows of RuntimeStore under any callers: what a service, a delivery  *)
(* or a collection may do to them, in any order, is a step of StoreSpec.   *)
(* Whoever brings about a step that is not one of these breaks the store's *)
(* promises; whoever does not may rely on them.                            *)
(*                                                                         *)
(* Of claim_next only the commit is seen.  That the Run is idle then is    *)
(* something the callers have to provide: the code looks when it reads its *)
(* candidates, and nothing but the admission lock keeps it so until the    *)
(* write.                                                                  *)
(***************************************************************************)
EXTENDS RuntimeStore

\* A command of the holder of Attempt n of Step s, or its recovery.
AttemptStep(s, n) ==
    \/ StartAttempt(s, n) \/ Heartbeat(s, n) \/ SucceedAttempt(s, n)
    \/ \E retryable, wait \in BOOLEAN : FailAttempt(s, n, retryable, wait)
    \/ RecoverExpired(s, n)

\* A claim as it commits.
TakeClaim(s) ==
    /\ runState[RunOf[s]] = "RUNNING"
    /\ stepState[s] = "READY"
    /\ Idle(RunOf[s])
    /\ InsertClaim(s)

\* A step that writes the row of Step s without an Attempt of its own.
RowStep(s) == TakeClaim(s) \/ ExpireDeadline(s) \/ ResumeWaiting(s)

TimeStep(s) == LeaseTick(s) \/ DeadlinePasses(s) \/ BackoffElapses(s)

StoreNext ==
    \/ \E r \in Run : StartRun(r)
    \/ \E s \in Step : \/ \E n \in AttemptNo : AttemptStep(s, n)
                       \/ RowStep(s)
                       \/ TimeStep(s)

StoreSpec == StoreInit /\ [][StoreNext]_storeVars

-----------------------------------------------------------------------------
(* What the store promises about its rows, besides what RuntimeStore       *)
(* states.                                                                 *)

\* A success is final and unique: nothing was tried after it, and the Step is
\* SUCCEEDED exactly when its newest Attempt is.
SuccessIsLast ==
    \A s \in Step :
        /\ \A n \in AttemptNo : attempt[s][n].state = "SUCCEEDED" =>
              n = tried[s] /\ stepState[s] = "SUCCEEDED"
        /\ stepState[s] = "SUCCEEDED" =>
              tried[s] > 0 /\ attempt[s][tried[s]].state = "SUCCEEDED"

\* The Run row agrees with its Step rows, which different transactions write:
\* a Run waits for exactly one Step, has failed iff a Step has, and has
\* succeeded iff all its Steps have.
RunAgreesWithSteps ==
    \A r \in Run :
        LET mine == {s \in Step : RunOf[s] = r}
            in(x) == {s \in mine : stepState[s] = x}
        IN  /\ runState[r] = "QUEUED" => in("PENDING") = mine
            /\ runState[r] = "WAITING" <=> in("WAITING") # {}
            /\ runState[r] = "FAILED" <=> in("FAILED") # {}
            /\ runState[r] = "SUCCEEDED" => in("SUCCEEDED") = mine
            /\ runState[r] = "RUNNING" => in("SUCCEEDED") # mine
            /\ runState[r] # "RUNNING" =>
                  in("CLAIMED") \cup in("RUNNING") = {}
            /\ \A s, t \in in("WAITING") : s = t

\* A Step is worked on only after all it depends on has succeeded, whichever of
\* start_run, a success or a recovery made it READY.  A TERMINAL dependency
\* asks for less than a success, but a failed Step ends its Run.
DependenciesFirst ==
    \A s \in Step :
        stepState[s] \in {"READY", "CLAIMED", "RUNNING", "WAITING", "SUCCEEDED"}
            => \A p \in Preds(s) : stepState[p] = "SUCCEEDED"

-----------------------------------------------------------------------------
\* The rows of a Run that has ended never change again, whatever claim is
\* presented and whatever a sweep scanned before the end.
RunRows(r) ==
    [s \in {t \in Step : RunOf[t] = r} |->
        <<stepState[s], fence[s], current[s], attempt[s], tried[s]>>]

EndedRunIsFrozen ==
    [][\A r \in Run : runState[r] \in {"SUCCEEDED", "FAILED"} =>
          runState'[r] = runState[r] /\ RunRows(r)' = RunRows(r)]_storeVars

\* Once the lease of a live Attempt has lapsed, no result of it is accepted:
\* it can only be recovered.
LapsedAttemptHasNoResult ==
    [][\A s \in Step : LiveStep(s) /\ lease[s] = 0 =>
          \/ UNCHANGED <<stepState[s], attempt[s]>>
          \/ attempt'[s][current[s]].state \in
                {"ABANDONED", "RECONCILIATION_REQUIRED"}]_storeVars

\* A remote command that has been started is never tried again, nor written
\* off, without a resolution of its effect: the Step leaves RUNNING only by
\* success or into WAITING, and leaves WAITING only with its Run.
RemoteEffectIsNeverRetriedBlind ==
    [][\A s \in Remote :
          /\ stepState[s] = "RUNNING" =>
                stepState'[s] \in {"RUNNING", "WAITING", "SUCCEEDED"}
          /\ stepState[s] = "WAITING" /\ stepState'[s] # "WAITING" =>
                runState[RunOf[s]] = "WAITING" /\ runState'[RunOf[s]] = "RUNNING"
       ]_storeVars

\* How far a Step is within one round: a new Attempt begins the next.
Phase(state) ==
    CASE state = "PENDING" -> 0
      [] state = "CLAIMED" -> 1
      [] state = "RUNNING" -> 2
      [] state = "WAITING" -> 3
      [] state = "READY"   -> 4
      [] state \in {"SUCCEEDED", "FAILED"} -> 5

\* A Step never comes back to a situation it was in: whatever is claimed,
\* failed, recovered, resumed or replayed takes it to a later phase of its
\* round or to a new Attempt.  With the retry budget that bounds what can ever
\* happen to it, and a state read earlier and met again has not been left.
StepsGoForward ==
    [][\A s \in Step : stepState'[s] # stepState[s] \/ tried'[s] # tried[s] =>
          \/ tried'[s] > tried[s]
          \/ tried'[s] = tried[s] /\ Phase(stepState'[s]) > Phase(stepState[s])
       ]_storeVars

\* The Attempt rows are a history: the end of an Attempt is written once, and
\* no later command, recovery or replay changes how it ended or its fence.
AttemptEndsOnce ==
    [][\A s \in Step : \A n \in AttemptNo :
          attempt[s][n].state \notin LiveStates \cup {"ABSENT"} =>
              attempt'[s][n] = attempt[s][n]]_storeVars
=============================================================================
