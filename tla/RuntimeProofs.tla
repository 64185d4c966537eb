---------------------------- MODULE RuntimeProofs ----------------------------
(***************************************************************************)
(* RuntimeService keeps to StoreSpec, for every plan, every number of      *)
(* sessions and sweeps, and every budget, and so inherits what StoreProofs *)
(* proves of the rows.                                                     *)
(***************************************************************************)
EXTENDS RuntimeService, StoreProofs

USE DEF AttemptNo

-----------------------------------------------------------------------------
(* The service.  The invariant is inductive only together with what the    *)
(* admission lock protects: at most one claim session is between its read  *)
(* and its write, and no Step of a Run it read as idle has become live     *)
(* since.  Without it, CommitClaim could make a second Step live.          *)

OneAdmitted == \A v, w \in admitted : v = w

CandidatesAreIdle ==
    \A w \in admitted : \A s \in candidates[w] : Idle(RunOf[s])

ServiceTypeOK ==
    /\ admitted \subseteq Session
    /\ candidates \in [Session -> SUBSET Step]
    /\ stage \in [Sweeper -> {"OUT", "LEASES", "DEADLINES"}]
    /\ expired \in [Sweeper -> SUBSET AllAttempts]
    /\ late \in [Sweeper -> SUBSET Step]

IInv == StoreInv /\ ServiceTypeOK /\ OneAdmitted /\ CandidatesAreIdle

LEMMA InitIInv == Init => IInv
<1> SUFFICES ASSUME Init PROVE IInv
  OBVIOUS
<1>1. StoreInv
  BY InitKeeps DEF Init
<1>2. ServiceTypeOK /\ OneAdmitted /\ CandidatesAreIdle
  BY DEF Init, ServiceTypeOK, OneAdmitted, CandidatesAreIdle, AllAttempts
<1> QED
  BY <1>1, <1>2 DEF IInv

\* A transaction that makes no Step live leaves every candidate's Run idle.
LEMMA IdleStays ==
    ASSUME CandidatesAreIdle, NoNewLiveStep, UNCHANGED <<admitted, candidates>>
    PROVE  CandidatesAreIdle'
BY DEF CandidatesAreIdle, NoNewLiveStep, Idle

LEMMA StoreOnly ==
    ASSUME IInv, StoreInv', NoNewLiveStep, UNCHANGED serviceVars
    PROVE  IInv'
BY IdleStays DEF IInv, serviceVars, ServiceTypeOK, OneAdmitted

\* A step of a sweep that may run one store transaction.
LEMMA SweepOnly ==
    ASSUME IInv, StoreInv', NoNewLiveStep, UNCHANGED <<admitted, candidates>>,
           stage' \in [Sweeper -> {"OUT", "LEASES", "DEADLINES"}],
           expired' \in [Sweeper -> SUBSET AllAttempts],
           late' \in [Sweeper -> SUBSET Step]
    PROVE  IInv'
BY IdleStays DEF IInv, ServiceTypeOK, OneAdmitted

LEMMA ClaimStep ==
    ASSUME IInv, NEW w \in Session, ClaimNext(w)
    PROVE  IInv'
<1>1. CASE AdmitClaim(w)
  <2>1. StoreInv' /\ NoNewLiveStep /\ UNCHANGED storeVars
    BY <1>1, RowsUntouched DEF AdmitClaim, IInv
  <2>2. admitted' = {w} /\ candidates'[w] = {s \in Step : Claimable(s)}
    BY <1>1 DEF AdmitClaim, AdmissionFree, IInv, ServiceTypeOK
  <2>3. CandidatesAreIdle'
    <3>1. \A s \in candidates'[w] : Idle(RunOf[s])
      BY <2>2 DEF Claimable
    <3> QED
      BY <2>1, <2>2, <3>1 DEF CandidatesAreIdle, Idle, NoNewLiveStep
  <2>4. ServiceTypeOK'
    BY <1>1, <2>2 DEF AdmitClaim, sweepVars, IInv, ServiceTypeOK
  <2> QED
    BY <2>1, <2>2, <2>3, <2>4 DEF IInv, OneAdmitted
<1>2. ASSUME NEW s \in Step, CommitClaim(w, s) PROVE IInv'
  <2>1. Idle(RunOf[s])
    BY <1>2 DEF CommitClaim, IInv, CandidatesAreIdle
  <2>2. StoreInv'
    BY <1>2, <2>1, InsertClaimKeeps DEF CommitClaim, IInv
  <2>3. admitted' = {}
    BY <1>2 DEF CommitClaim, Release, IInv, OneAdmitted
  <2>4. ServiceTypeOK'
    BY <1>2, <2>3 DEF CommitClaim, Release, sweepVars, IInv, ServiceTypeOK
  <2> QED
    BY <2>2, <2>3, <2>4 DEF IInv, OneAdmitted, CandidatesAreIdle
<1>3. CASE AbortClaim(w)
  <2>1. StoreInv'
    BY <1>3, RowsUntouched DEF AbortClaim, IInv
  <2>2. admitted' = {}
    BY <1>3 DEF AbortClaim, Release, IInv, OneAdmitted
  <2>3. ServiceTypeOK'
    BY <1>3, <2>2 DEF AbortClaim, Release, sweepVars, IInv, ServiceTypeOK
  <2> QED
    BY <2>1, <2>2, <2>3 DEF IInv, OneAdmitted, CandidatesAreIdle
<1> QED
  BY <1>1, <1>2, <1>3 DEF ClaimNext

LEMMA SweepStep ==
    ASSUME IInv, NEW p \in Sweeper, SweepNext(p)
    PROVE  IInv'
<1> USE DEF IInv, ServiceTypeOK
<1>1. ASSUME UNCHANGED storeVars PROVE StoreInv' /\ NoNewLiveStep
  BY <1>1, RowsUntouched
<1>2. CASE ScanExpired(p)
  BY <1>1, <1>2, SweepOnly DEF ScanExpired
<1>3. CASE ScanDeadlines(p)
  BY <1>1, <1>3, SweepOnly DEF ScanDeadlines
<1>4. CASE FinishSweep(p) \/ RaiseInSweep(p) \/ CrashSweep(p)
  <2>1. LeaveSweep(p)
    BY <1>4 DEF FinishSweep, RaiseInSweep, CrashSweep
  <2> QED
    BY <1>1, <2>1, SweepOnly DEF LeaveSweep
<1>5. ASSUME NEW s \in Step, ExpireOne(p, s) PROVE IInv'
  <2>1. StoreInv' /\ NoNewLiveStep
    BY <1>1, <1>5, ExpireKeeps DEF ExpireOne
  <2> QED
    BY <1>5, <2>1, SweepOnly DEF ExpireOne
<1>6. ASSUME NEW s \in Step, NEW n \in AttemptNo, RecoverOne(p, s, n) PROVE IInv'
  <2>1. StoreInv' /\ NoNewLiveStep
    BY <1>1, <1>6, RecoverKeeps DEF RecoverOne
  <2> QED
    BY <1>6, <2>1, SweepOnly DEF RecoverOne
<1> QED
  BY <1>2, <1>3, <1>4, <1>5, <1>6 DEF SweepNext

LEMMA HolderStep ==
    ASSUME IInv, NEW s \in Step, HolderNext(s) \/ Resume(s) \/ Tick(s)
    PROVE  IInv'
<1> USE DEF IInv
<1>1. ASSUME NEW n \in AttemptNo,
             BeginWork(s, n) \/ Beat(s, n) \/ Succeed(s, n) \/ Fail(s, n)
      PROVE  IInv'
  <2>1. StoreInv' /\ NoNewLiveStep
    BY <1>1, StartAttemptKeeps, HeartbeatKeeps, SucceedKeeps, FailKeeps
       DEF BeginWork, Beat, Succeed, Fail
  <2>2. UNCHANGED serviceVars
    BY <1>1 DEF BeginWork, Beat, Succeed, Fail
  <2> QED
    BY <2>1, <2>2, StoreOnly
<1>2. CASE Resume(s)
  BY <1>2, ResumeKeeps, StoreOnly DEF Resume
<1>3. CASE Tick(s)
  BY <1>3, ClockKeeps, StoreOnly DEF Tick
<1> QED
  BY <1>1, <1>2, <1>3 DEF HolderNext

LEMMA NextIInv == IInv /\ [Next]_vars => IInv'
<1> SUFFICES ASSUME IInv, [Next]_vars PROVE IInv'
  OBVIOUS
<1>1. ASSUME NEW r \in Run, Start(r) PROVE IInv'
  BY <1>1, StartRunKeeps, StoreOnly DEF Start, IInv
<1>2. CASE UNCHANGED vars
  BY <1>2, RowsUntouched, StoreOnly DEF vars, IInv
<1> QED
  BY <1>1, <1>2, HolderStep, ClaimStep, SweepStep DEF Next

LEMMA InvAlways == Spec => []IInv
BY InitIInv, NextIInv, PTL DEF Spec

-----------------------------------------------------------------------------
(* The service obeys the store.  Its many actions do few things to the     *)
(* rows; what has to be shown is that a claim commits over an idle Run.    *)

LEMMA StepCases ==
    ASSUME IInv, [Next]_vars
    PROVE  [StoreNext]_storeVars
<1>1. CASE \E r \in Run : Start(r)
  BY <1>1 DEF Start, StoreNext
<1>2. ASSUME NEW s \in Step, HolderNext(s) \/ Resume(s) \/ Tick(s)
      PROVE  [StoreNext]_storeVars
  <2>1. CASE HolderNext(s)
    <3> PICK n \in AttemptNo :
            BeginWork(s, n) \/ Beat(s, n) \/ Succeed(s, n) \/ Fail(s, n)
      BY <2>1 DEF HolderNext
    <3>1. AttemptStep(s, n)
      BY DEF BeginWork, Beat, Succeed, Fail, AttemptStep
    <3> QED
      BY <3>1 DEF StoreNext
  <2>2. CASE Resume(s)
    BY <2>2 DEF Resume, RowStep, StoreNext
  <2>3. CASE Tick(s)
    BY <2>3 DEF Tick, TimeStep, StoreNext
  <2> QED
    BY <1>2, <2>1, <2>2, <2>3
<1>3. ASSUME NEW w \in Session, ClaimNext(w)
      PROVE  [StoreNext]_storeVars
  <2>1. CASE AdmitClaim(w) \/ AbortClaim(w)
    BY <2>1 DEF AdmitClaim, AbortClaim, StoreNext
  <2>2. ASSUME NEW s \in Step, CommitClaim(w, s)
        PROVE  [StoreNext]_storeVars
    BY <2>2 DEF CommitClaim, TakeClaim, RowStep, StoreNext, IInv, CandidatesAreIdle
  <2> QED
    BY <1>3, <2>1, <2>2 DEF ClaimNext
<1>4. ASSUME NEW p \in Sweeper, SweepNext(p)
      PROVE  [StoreNext]_storeVars
  <2>1. CASE \/ ScanExpired(p) \/ ScanDeadlines(p) \/ FinishSweep(p)
             \/ RaiseInSweep(p) \/ CrashSweep(p)
    BY <2>1 DEF ScanExpired, ScanDeadlines, FinishSweep, RaiseInSweep,
       CrashSweep, LeaveSweep, StoreNext
  <2>2. ASSUME NEW s \in Step, ExpireOne(p, s)
        PROVE  [StoreNext]_storeVars
    BY <2>2 DEF ExpireOne, RowStep, StoreNext
  <2>3. ASSUME NEW s \in Step, NEW n \in AttemptNo, RecoverOne(p, s, n)
        PROVE  [StoreNext]_storeVars
    BY <2>3 DEF RecoverOne, AttemptStep, StoreNext
  <2> QED
    BY <1>4, <2>1, <2>2, <2>3 DEF SweepNext
<1>5. CASE UNCHANGED vars
  BY <1>5 DEF vars, StoreNext
<1> QED
  BY <1>1, <1>2, <1>3, <1>4, <1>5 DEF Next

\* Every step of the service is a step of the store that its callers may take:
\* with claims split in two, nothing but the admission lock makes it so.
THEOREM ServiceObeysStore == Spec => StoreSpec
<1>1. Init => StoreInit
  BY DEF Init
<1>2. IInv /\ [Next]_vars => [StoreNext]_storeVars
  BY StepCases
<1> QED
  BY <1>1, <1>2, InvAlways, PTL DEF Spec, StoreSpec

\* Every reachable row and process state is one the code can write.
THEOREM TypeCorrect == Spec => []TypeOK
<1>1. IInv => TypeOK
  BY DEF IInv, StoreInv, ServiceTypeOK, TypeOK
<1> QED
  BY InvAlways, <1>1, PTL

\* A Run never has two live Steps, for any plan and any number of sessions.
THEOREM OneLiveStep == Spec => []OneLiveStepPerRun
BY ServiceObeysStore, StoreRows, PTL

\* The live Attempt is the one the Step points to and carries its fence.
THEOREM CurrentAttempt == Spec => []CurrentAttemptIsTheLiveOne
BY ServiceObeysStore, StoreRows, PTL

\* Attempts are numbered without a gap and never share a fence.
THEOREM Fences == Spec => []FencesGrow
BY ServiceObeysStore, StoreRows, PTL

\* A success is final and unique, whatever is presented afterwards.
THEOREM SuccessLast == Spec => []SuccessIsLast
BY ServiceObeysStore, StoreRows, PTL

\* The Run row agrees with its Step rows after every transaction.
THEOREM RunAgrees == Spec => []RunAgreesWithSteps
BY ServiceObeysStore, StoreRows, PTL

\* No Step is worked on before all it depends on has succeeded.
THEOREM Dependencies == Spec => []DependenciesFirst
BY ServiceObeysStore, StoreRows, PTL

\* A Run that has ended never changes again.
THEOREM EndedFrozen == Spec => EndedRunIsFrozen
BY ServiceObeysStore, StoreFrozen, PTL

\* No result of a lapsed Attempt is accepted.
THEOREM LapsedHasNoResult == Spec => LapsedAttemptHasNoResult
BY ServiceObeysStore, StoreLapsed, PTL

\* A remote command that was started is only resolved, never retried or written
\* off blindly.
THEOREM RemoteIsResolved == Spec => RemoteEffectIsNeverRetriedBlind
BY ServiceObeysStore, StoreRemote, PTL

\* No Step comes back to a situation it was in.
THEOREM GoesOn == Spec => StepsGoForward
BY ServiceObeysStore, StoreForward, PTL

\* The end of an Attempt is written once.
THEOREM EndsOnce == Spec => AttemptEndsOnce
BY ServiceObeysStore, StoreHistory, PTL

\* Every interleaving of claim sessions, holders and sweeps is a history of the
\* ledger.
THEOREM ImplementsRunLedger == Spec => ImplementsLedger
BY ServiceObeysStore, StoreIsLedger, PTL
=============================================================================
