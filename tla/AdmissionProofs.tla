-------------------------- MODULE AdmissionProofs --------------------------
(***************************************************************************)
(* The admission rules hold for any number of clients, Runs and Attempts.  *)
(*                                                                         *)
(* Each rule follows from the state of the two locks, so one more fact     *)
(* makes them inductive together: a connection is ADMITTED exactly while   *)
(* its transaction holds the admission lock, and then nobody shares it.    *)
(***************************************************************************)
EXTENDS OperationAdmission, TLAPS

AdmissionIsExclusive ==
    /\ \A c \in Canonical : conn[c] = "ADMITTED" <=> admission = c
    /\ admission # NoClient => sharing = {}

IInv ==
    /\ TypeOK
    /\ AdmissionIsExclusive
    /\ RetainedIsAlone
    /\ AdmittedUnderOneWriter
    /\ SupervisedClaimIsAlone
    /\ NarrowMeetsNoSupervisor

\* The locks start free and every connection starts outside.
LEMMA InitIInv == Init => IInv
<1> SUFFICES ASSUME Init PROVE IInv
  OBVIOUS
<1> QED
  BY ClientAssumption DEF Init, IInv, TypeOK, AdmissionIsExclusive,
     RetainedIsAlone, AdmittedUnderOneWriter, SupervisedClaimIsAlone,
     NarrowMeetsNoSupervisor, Canonical

\* What a supervisor does between its transactions keeps the invariant.
LEMMA SupervisorKeeps ==
    ASSUME IInv, NEW p \in Supervisor, SupervisorNext(p)
    PROVE  IInv'
<1> USE ClientAssumption DEF IInv, TypeOK, AdmissionIsExclusive, Canonical,
        RetainedIsAlone, AdmittedUnderOneWriter, NarrowMeetsNoSupervisor,
        lockVars, attemptVars
<1>1. CASE Supervise(p)
  <2>1. TypeOK' /\ AdmissionIsExclusive'
    BY <1>1 DEF Supervise
  <2>2. RetainedIsAlone' /\ AdmittedUnderOneWriter' /\ NarrowMeetsNoSupervisor'
    BY <1>1 DEF Supervise, StartGranted, AdmissionGranted, WriterGranted
  <2>3. SupervisedClaimIsAlone'
    BY <1>1 DEF Supervise, StartGranted, AdmissionGranted, SupervisedClaimIsAlone
  <2> QED BY <2>1, <2>2, <2>3
<1>2. CASE Unsupervise(p)
  BY <1>2 DEF Unsupervise, SupervisedClaimIsAlone
<1>3. CASE LeaveScope(p)
  BY <1>3 DEF LeaveScope, SupervisedClaimIsAlone
<1>4. ASSUME NEW r \in Run, HandTo(p, r)
      PROVE  IInv'
  <2>1. TypeOK' /\ AdmissionIsExclusive'
    BY <1>4 DEF HandTo
  <2>2. RetainedIsAlone' /\ AdmittedUnderOneWriter' /\ NarrowMeetsNoSupervisor'
    BY <1>4 DEF HandTo
  <2>3. SupervisedClaimIsAlone'
    BY <1>4 DEF HandTo, SupervisedClaimIsAlone
  <2> QED BY <2>1, <2>2, <2>3
<1>5. CASE Vet(p)
  BY <1>5 DEF Vet, SupervisedClaimIsAlone
<1> QED
  BY <1>1, <1>2, <1>3, <1>4, <1>5 DEF SupervisorNext

\* Opening, closing and admitting a connection keeps the invariant.
LEMMA ConnectionKeeps ==
    ASSUME IInv, NEW c \in Canonical, Open(c) \/ Close(c) \/ Admit(c)
    PROVE  IInv'
<1> USE ClientAssumption DEF IInv, TypeOK, AdmissionIsExclusive, Canonical,
        RetainedIsAlone, AdmittedUnderOneWriter, NarrowMeetsNoSupervisor,
        lockVars, attemptVars
<1>1. CASE Open(c)
  BY <1>1 DEF Open, SupervisedClaimIsAlone
<1>2. CASE Close(c)
  <2>1. TypeOK' /\ AdmissionIsExclusive'
    BY <1>2 DEF Close
  <2>2. RetainedIsAlone' /\ AdmittedUnderOneWriter' /\ NarrowMeetsNoSupervisor'
    BY <1>2 DEF Close
  <2>3. SupervisedClaimIsAlone'
    BY <1>2 DEF Close, SupervisedClaimIsAlone
  <2> QED BY <2>1, <2>2, <2>3
<1>3. CASE Admit(c)
  <2>1. TypeOK' /\ AdmissionIsExclusive'
    BY <1>3 DEF Admit, AdmissionGranted
  <2>2. RetainedIsAlone' /\ NarrowMeetsNoSupervisor'
    BY <1>3 DEF Admit
  <2>3. AdmittedUnderOneWriter'
    BY <1>3 DEF Admit
  <2>4. SupervisedClaimIsAlone'
    BY <1>3 DEF Admit, AdmissionGranted, SupervisedClaimIsAlone, Conflict,
       Foreign
  <2> QED BY <2>1, <2>2, <2>3, <2>4
<1> QED
  BY <1>1, <1>2, <1>3

\* A transaction that writes Attempt rows keeps the invariant.
LEMMA AttemptKeeps ==
    ASSUME IInv, NEW c \in Canonical, NEW a \in Slot,
           \/ CommitRecovery(c, a)
           \/ EndAttempt(c, a)
           \/ \E r \in Run : CommitClaim(c, r, a)
    PROVE  IInv'
<1> USE ClientAssumption DEF IInv, TypeOK, AdmissionIsExclusive, Canonical,
        RetainedIsAlone, AdmittedUnderOneWriter, NarrowMeetsNoSupervisor,
        lockVars, attemptVars
<1>1. CASE CommitRecovery(c, a)
  BY <1>1 DEF CommitRecovery, Done, Forget, SupervisedClaimIsAlone
<1>2. CASE EndAttempt(c, a)
  BY <1>2 DEF EndAttempt, Forget, SupervisedClaimIsAlone
<1>3. ASSUME NEW r \in Run, CommitClaim(c, r, a)
      PROVE  IInv'
  <2>1. TypeOK' /\ AdmissionIsExclusive'
    BY <1>3 DEF CommitClaim, Done
  <2>2. RetainedIsAlone' /\ AdmittedUnderOneWriter' /\ NarrowMeetsNoSupervisor'
    BY <1>3 DEF CommitClaim, Done
  <2>3. SupervisedClaimIsAlone'
    BY <1>3 DEF CommitClaim, Done, SupervisedClaimIsAlone
  <2> QED BY <2>1, <2>2, <2>3
<1> QED
  BY <1>1, <1>2, <1>3

\* So does a lease that lapses.
LEMMA LapseKeeps ==
    ASSUME IInv, NEW a \in Slot, Lapse(a)
    PROVE  IInv'
  BY ClientAssumption DEF Lapse, IInv, TypeOK, AdmissionIsExclusive, Canonical,
     RetainedIsAlone, AdmittedUnderOneWriter, NarrowMeetsNoSupervisor,
     SupervisedClaimIsAlone, lockVars, attemptVars

\* So does what a retained client does.
LEMMA RetainedKeeps ==
    ASSUME IInv, NEW q \in Retained, Share(q) \/ Pass(q) \/ Unshare(q)
    PROVE  IInv'
  BY ClientAssumption DEF Share, Pass, Unshare, IInv, TypeOK,
     AdmissionIsExclusive, Canonical, RetainedIsAlone, AdmittedUnderOneWriter,
     NarrowMeetsNoSupervisor, SupervisedClaimIsAlone, lockVars, attemptVars

\* Every step, and every stuttering step, keeps the invariant.
LEMMA NextIInv == IInv /\ [Next]_vars => IInv'
<1> SUFFICES ASSUME IInv, [Next]_vars PROVE IInv'
  OBVIOUS
<1>1. CASE \E p \in Supervisor : SupervisorNext(p)
  BY <1>1, SupervisorKeeps
<1>2. CASE \E c \in Canonical : CanonicalNext(c)
  BY <1>2, ConnectionKeeps, AttemptKeeps DEF CanonicalNext
<1>3. CASE \E a \in Slot : Lapse(a)
  BY <1>3, LapseKeeps
<1>4. CASE \E q \in Retained : Share(q) \/ Pass(q) \/ Unshare(q)
  BY <1>4, RetainedKeeps
<1>5. CASE UNCHANGED vars
  BY <1>5 DEF vars, lockVars, attemptVars, IInv, TypeOK, AdmissionIsExclusive,
     RetainedIsAlone, AdmittedUnderOneWriter, NarrowMeetsNoSupervisor,
     SupervisedClaimIsAlone
<1> QED
  BY <1>1, <1>2, <1>3, <1>4, <1>5 DEF Next

LEMMA InvAlways == Spec => []IInv
  BY InitIInv, NextIInv, PTL DEF Spec

-----------------------------------------------------------------------------
\* retained_writer_admission: no retained client writes while a supervisor or a
\* live Attempt exists, however many of each there are.
THEOREM RetainedAlone == Spec => []RetainedIsAlone
<1>1. IInv => RetainedIsAlone
  BY DEF IInv
<1> QED
  BY <1>1, InvAlways, PTL

\* admit_runtime_attempt: a claim or recovery is never under way while another
\* process is the supervisor.
THEOREM OneWriter == Spec => []AdmittedUnderOneWriter
<1>1. IInv => AdmittedUnderOneWriter
  BY DEF IInv
<1> QED
  BY <1>1, InvAlways, PTL

\* has_conflicting_attempts: what a supervised claim has checked about the other
\* Attempts is still true when it commits.
THEOREM ClaimAlone == Spec => []SupervisedClaimIsAlone
<1>1. IInv => SupervisedClaimIsAlone
  BY DEF IInv
<1> QED
  BY <1>1, InvAlways, PTL

\* canonical_writer_admission: narrow clients and a supervisor never overlap.
THEOREM NarrowApart == Spec => []NarrowMeetsNoSupervisor
<1>1. IInv => NarrowMeetsNoSupervisor
  BY DEF IInv
<1> QED
  BY <1>1, InvAlways, PTL

\* The session locks, the connections, the scopes and the Attempts are of their
\* types.
THEOREM AdmissionTypes == Spec => []TypeOK
<1>1. IInv => TypeOK
  BY DEF IInv
<1> QED
  BY <1>1, InvAlways, PTL
=============================================================================
