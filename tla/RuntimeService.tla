--------------------------- MODULE RuntimeService ---------------------------
(***************************************************************************)
(* RuntimeApplication (runtime/application/service.py) over the Runtime    *)
(* rows: claim sessions, the holders of claims and the recovery sweeps,    *)
(* interleaved.                                                            *)
(*                                                                         *)
(* claim_next takes the database-wide admission lock, then reads its       *)
(* candidates, then locks and updates one of them: AdmitClaim and          *)
(* CommitClaim.  Every other command is one transaction.  A holder is      *)
(* whoever presents the claim of an Attempt: the original worker, a worker *)
(* that was slow and comes back, or one that replays its claim command and *)
(* is handed the old claim again, so a command may be issued for any       *)
(* Attempt ever claimed, at any time.  A worker that dies simply issues    *)
(* none.                                                                   *)
(*                                                                         *)
(* recover_expired scans, then handles what it scanned one transaction at  *)
(* a time, and does so twice: for lapsed leases, then for passed deadlines.*)
(***************************************************************************)
EXTENDS RuntimeStore

CONSTANTS
    Session,        \* database sessions that issue claim_next
    Sweeper         \* processes that issue recover_expired

VARIABLES
    admitted,       \* sessions that hold the admission lock
    candidates,     \* rows the SELECT of a claim session returned
    stage,          \* where a recover_expired call is
    expired,        \* Attempts a sweep has scanned and not handled yet
    late            \* Steps a sweep has scanned and not handled yet

serviceVars == <<admitted, candidates, stage, expired, late>>
sweepVars   == <<stage, expired, late>>
vars        == <<storeVars, serviceVars>>

AllAttempts == Step \X AttemptNo

\* Mutant of AdmissionFree: the admission lock excludes nobody.
AdmissionOpenToAll == TRUE

\* pg_advisory_xact_lock can be granted: no other transaction holds it.
AdmissionFree == admitted = {}

Init ==
    /\ StoreInit
    /\ admitted   = {}
    /\ candidates = [w \in Session |-> {}]
    /\ stage      = [p \in Sweeper |-> "OUT"]
    /\ expired    = [p \in Sweeper |-> {}]
    /\ late       = [p \in Sweeper |-> {}]

-----------------------------------------------------------------------------
(* Commands that are one transaction on the rows.                          *)
Start(r) == StartRun(r) /\ UNCHANGED serviceVars

BeginWork(s, n) == StartAttempt(s, n) /\ UNCHANGED serviceVars

Beat(s, n) == Heartbeat(s, n) /\ UNCHANGED serviceVars

Succeed(s, n) == SucceedAttempt(s, n) /\ UNCHANGED serviceVars

Fail(s, n) ==
    /\ \E retryable, wait \in BOOLEAN : FailAttempt(s, n, retryable, wait)
    /\ UNCHANGED serviceVars

\* The caller has proof that the remote effect did not happen.
Resume(s) == ResumeWaiting(s) /\ UNCHANGED serviceVars

-----------------------------------------------------------------------------
(* claim_next.                                                             *)
AdmitClaim(w) ==
    /\ AdmissionFree
    /\ \E s \in Step : Claimable(s)
    /\ admitted' = admitted \cup {w}
    /\ candidates' = [candidates EXCEPT ![w] = {s \in Step : Claimable(s)}]
    /\ UNCHANGED <<storeVars, sweepVars>>

Release(w) ==
    /\ admitted' = admitted \ {w}
    /\ candidates' = [candidates EXCEPT ![w] = {}]

\* FOR UPDATE looks again at the Run and the Step it locked, and only there.
CommitClaim(w, s) ==
    /\ w \in admitted
    /\ s \in candidates[w]
    /\ runState[RunOf[s]] = "RUNNING"
    /\ stepState[s] = "READY"
    /\ InsertClaim(s)
    /\ Release(w)
    /\ UNCHANGED sweepVars

\* SKIP LOCKED left no row, the budget check raised, or the session is lost.
AbortClaim(w) ==
    /\ w \in admitted
    /\ Release(w)
    /\ UNCHANGED <<storeVars, sweepVars>>

-----------------------------------------------------------------------------
(* recover_expired.                                                        *)
ScanExpired(p) ==
    /\ stage[p] = "OUT"
    /\ stage' = [stage EXCEPT ![p] = "LEASES"]
    /\ expired' = [expired EXCEPT ![p] =
                      {a \in AllAttempts : ExpiredAttempt(a[1], a[2])}]
    /\ UNCHANGED <<storeVars, admitted, candidates, late>>

\* One scanned Attempt: recovered, or left alone because it is not expired
\* any more (or another sweep's receipt is there).
RecoverOne(p, s, n) ==
    /\ stage[p] = "LEASES"
    /\ <<s, n>> \in expired[p]
    /\ AdmissionFree
    /\ \/ RecoverExpired(s, n)
       \/ ~ExpiredAttempt(s, n) /\ UNCHANGED storeVars
    /\ expired' = [expired EXCEPT ![p] = @ \ {<<s, n>>}]
    /\ UNCHANGED <<admitted, candidates, stage, late>>

ScanDeadlines(p) ==
    /\ stage[p] = "LEASES"
    /\ expired[p] = {}
    /\ stage' = [stage EXCEPT ![p] = "DEADLINES"]
    /\ late' = [late EXCEPT ![p] = {s \in Step : DeadlineExpired(s)}]
    /\ UNCHANGED <<storeVars, admitted, candidates, expired>>

ExpireOne(p, s) ==
    /\ stage[p] = "DEADLINES"
    /\ s \in late[p]
    /\ AdmissionFree
    /\ \/ ExpireDeadline(s)
       \/ ~DeadlineExpired(s) /\ UNCHANGED storeVars
    /\ late' = [late EXCEPT ![p] = @ \ {s}]
    /\ UNCHANGED <<admitted, candidates, stage, expired>>

LeaveSweep(p) ==
    /\ stage' = [stage EXCEPT ![p] = "OUT"]
    /\ expired' = [expired EXCEPT ![p] = {}]
    /\ late' = [late EXCEPT ![p] = {}]
    /\ UNCHANGED <<storeVars, admitted, candidates>>

FinishSweep(p) ==
    /\ stage[p] = "DEADLINES"
    /\ late[p] = {}
    /\ LeaveSweep(p)

\* An item raises: its transaction is rolled back and the rest of the sweep is
\* not reached.
RaiseInSweep(p) ==
    /\ AdmissionFree
    /\ \/ /\ stage[p] = "LEASES"
          /\ \E a \in expired[p] : /\ ExpiredAttempt(a[1], a[2])
                                   /\ ~RecoveryAllowed(a[1], a[2])
       \/ /\ stage[p] = "DEADLINES"
          /\ \E s \in late[p] : /\ DeadlineExpired(s)
                                /\ tried[s] >= MaxAttempts[s]
    /\ LeaveSweep(p)

\* The process dies between two transactions, or raises because it finds an item
\* recovered by another sweep under another reason code.
CrashSweep(p) ==
    /\ stage[p] # "OUT"
    /\ LeaveSweep(p)

-----------------------------------------------------------------------------
Tick(s) ==
    /\ LeaseTick(s) \/ DeadlinePasses(s) \/ BackoffElapses(s)
    /\ UNCHANGED serviceVars

HolderNext(s) ==
    \E n \in AttemptNo :
        BeginWork(s, n) \/ Beat(s, n) \/ Succeed(s, n) \/ Fail(s, n)

ClaimNext(w) ==
    AdmitClaim(w) \/ AbortClaim(w) \/ \E s \in Step : CommitClaim(w, s)

SweepNext(p) ==
    \/ ScanExpired(p) \/ ScanDeadlines(p) \/ FinishSweep(p)
    \/ RaiseInSweep(p) \/ CrashSweep(p)
    \/ \E s \in Step : \/ ExpireOne(p, s)
                       \/ \E n \in AttemptNo : RecoverOne(p, s, n)

Next ==
    \/ \E r \in Run : Start(r)
    \/ \E s \in Step : HolderNext(s) \/ Resume(s) \/ Tick(s)
    \/ \E w \in Session : ClaimNext(w)
    \/ \E p \in Sweeper : SweepNext(p)

Spec == Init /\ [][Next]_vars

-----------------------------------------------------------------------------
\* Every row and every process is in a state the code can write.
TypeOK ==
    /\ StoreTypeOK
    /\ admitted \subseteq Session
    /\ candidates \in [Session -> SUBSET Step]
    /\ stage \in [Sweeper -> {"OUT", "LEASES", "DEADLINES"}]
    /\ expired \in [Sweeper -> SUBSET AllAttempts]
    /\ late \in [Sweeper -> SUBSET Step]
=============================================================================
