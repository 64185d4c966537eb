--------------------------- MODULE RuntimeLiveness ---------------------------
(***************************************************************************)
(* What the Runtime brings about when its processes keep running.          *)
(*                                                                         *)
(* The fairness is that of the deployment: time passes; a holder that      *)
(* keeps its lease alive starts and finishes its work (one that died lets  *)
(* the lease lapse); claim loops and recovery sweeps are called again and  *)
(* again, and an item that a sweep can handle infinitely often is handled  *)
(* (a sweep may die at any point, but not at every sweep before the same   *)
(* item).                                                                  *)
(***************************************************************************)
EXTENDS RuntimeService

Begins(s)    == \E n \in AttemptNo : BeginWork(s, n)
Completes(s) == \E n \in AttemptNo : Succeed(s, n) \/ Fail(s, n)
Claims(w)    == \E s \in Step : CommitClaim(w, s)
Recovers(p, s) == \E n \in AttemptNo : RecoverOne(p, s, n)

TimeFairness ==
    \A s \in Step :
        /\ WF_vars(LeaseTick(s) /\ UNCHANGED serviceVars)
        /\ WF_vars(BackoffElapses(s) /\ UNCHANGED serviceVars)

HolderFairness ==
    \A s \in Step : WF_vars(Begins(s)) /\ WF_vars(Completes(s))

SessionFairness ==
    \A w \in Session : /\ SF_vars(AdmitClaim(w))
                       /\ SF_vars(Claims(w))
                       /\ WF_vars(AbortClaim(w))

SweepFairness ==
    \A p \in Sweeper :
        /\ WF_vars(ScanExpired(p))
        /\ SF_vars(ScanDeadlines(p))
        /\ WF_vars(FinishSweep(p))
        /\ WF_vars(RaiseInSweep(p))
        /\ \A s \in Step : SF_vars(Recovers(p, s)) /\ SF_vars(ExpireOne(p, s))

LiveSpec ==
    /\ Spec
    /\ TimeFairness /\ HolderFairness /\ SessionFairness /\ SweepFairness

Settled(r) == runState[r] \in {"SUCCEEDED", "FAILED", "WAITING"}

\* The two states of a Step from which neither a claim nor a sweep can move it:
\* the lease of the last budgeted Attempt lapsed before the work began, or the
\* Step was resumed after its last budgeted Attempt.
Wedged(s) ==
    /\ tried[s] = MaxAttempts[s]
    /\ \/ stepState[s] = "CLAIMED" /\ lease[s] = 0
       \/ stepState[s] = "READY"

\* A RUNNING Run ends or waits for a resolution, unless one of its Steps gets
\* wedged; no lost claim, crash, lapse or abandoned sweep stalls it.
RunSettles ==
    \A r \in Run : runState[r] = "RUNNING" ~>
        (Settled(r) \/ \E s \in Step : RunOf[s] = r /\ Wedged(s))

\* The retry table of the architecture: with the retry budget exhausted, the
\* final retry state is retained and the Step becomes FAILED.
ExhaustedLeaseFails ==
    \A s \in Step :
        (LiveStep(s) /\ lease[s] = 0 /\ tried[s] = MaxAttempts[s])
            ~> stepState[s] \in {"FAILED", "WAITING"}
=============================================================================
