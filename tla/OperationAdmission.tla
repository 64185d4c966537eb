------------------------- MODULE OperationAdmission -------------------------
(***************************************************************************)
(* Which process may write                                                 *)
(* (infrastructure/postgres/prospective_operation_session.py).             *)
(*                                                                         *)
(* Three kinds of clients share two advisory locks.  A narrow client, one  *)
(* without a supervisor session, holds the writer lock shared while it has *)
(* a connection.  A supervisor holds it exclusively, on a connection of    *)
(* its own that may drop unnoticed; its commands only look whether it is   *)
(* still held.  A retained client, of the older account family, holds the  *)
(* admission lock shared while it has a connection.  Whoever creates or    *)
(* recovers an Attempt, and a supervisor that starts, takes the admission  *)
(* lock exclusively for one transaction.                                   *)
(***************************************************************************)
EXTENDS FiniteSets

CONSTANTS
    Narrow, Supervisor, Retained,   \* the clients
    NoClient,                       \* a lock nobody holds
    Run, NoRun,                     \* a Run stands for those of one scope
    Kind,                           \* "DAILY", "PROSPECTIVE" or "BACKTEST"
    Recoverable,                    \* Runs in the startup recovery roster
    Slot                            \* rows for Attempts that are live

Canonical == Narrow \cup Supervisor

ASSUME ClientAssumption ==
    /\ Narrow \cap Supervisor = {}
    /\ NoClient \notin Canonical
    /\ NoRun \notin Run
    /\ Kind \in [Run -> {"DAILY", "PROSPECTIVE", "BACKTEST"}]
    /\ Recoverable \subseteq Run

VARIABLES
    writer,         \* holder of the exclusive writer lock
    admission,      \* holder of the exclusive admission lock
    sharing,        \* retained clients that hold the admission lock shared
    retained,       \* those among them that are past their check
    conn,           \* a canonical client's connection
    scope,          \* the Run a supervisor's session is handed to
    own,            \* own_attempt_ids of a supervisor's session
    live,           \* Attempts CLAIMED or RUNNING
    lapsed,         \* those among them whose lease has lapsed
    runOf           \* the Run of an Attempt

lockVars    == <<writer, admission, sharing, retained>>
attemptVars == <<live, lapsed, runOf>>
vars == <<lockVars, conn, scope, own, attemptVars>>

Init ==
    /\ writer = NoClient
    /\ admission = NoClient
    /\ sharing = {}
    /\ retained = {}
    /\ conn = [c \in Canonical |-> "OUT"]
    /\ scope = [p \in Supervisor |-> NoRun]
    /\ own = [p \in Supervisor |-> {}]
    /\ live = {}
    /\ lapsed = {}
    /\ runOf = [a \in Slot |-> NoRun]

-----------------------------------------------------------------------------
(* Lock tables.                                                            *)
\* Mutant of AdmissionGranted: the shared holders are forgotten.
AdmissionGrantedOverShared == admission = NoClient

\* The exclusive admission lock can be granted.
AdmissionGranted == admission = NoClient /\ sharing = {}

\* Mutant of WriterGranted: narrow connections take no lock.
WriterGrantedOverNarrow == writer = NoClient

\* The exclusive writer lock can be granted.
WriterGranted ==
    /\ writer = NoClient
    /\ \A n \in Narrow : conn[n] = "OUT"

-----------------------------------------------------------------------------
(* Supervisors.                                                            *)
\* Mutant of StartGranted: the start is not serialised with claims.
StartGrantedWithoutAdmission == WriterGranted

StartGranted == AdmissionGranted /\ WriterGranted

\* prospective_operation_session: both locks in one transaction, or none.
Supervise(p) ==
    /\ StartGranted
    /\ conn[p] = "OUT"
    /\ writer' = p
    /\ scope' = [scope EXCEPT ![p] = NoRun]
    /\ own' = [own EXCEPT ![p] = {}]
    /\ UNCHANGED <<admission, sharing, retained, conn, attemptVars>>

\* The supervisor's connection ends, at exit or unnoticed.
Unsupervise(p) ==
    /\ writer = p
    /\ writer' = NoClient
    /\ UNCHANGED <<admission, sharing, retained, conn, scope, own, attemptVars>>

\* A lapsed Attempt of these Runs is no reason to refuse a supervisor at Run r.
Tolerated(r) ==
    Recoverable \cup {t \in Run : t = r /\ Kind[t] = "DAILY"}

\* Mutant of Foreign: an Attempt whose lease has lapsed is nobody's concern.
ForeignUnlapsed(p, a, r) == a \notin own[p] /\ a \notin lapsed

\* has_conflicting_attempts, for one row.
Foreign(p, a, r) ==
    /\ a \notin own[p]
    /\ a \in lapsed => runOf[a] \notin Tolerated(r)

Conflict(p, r) == \E a \in live : Foreign(p, a, r)

\* daily_research_admission and daily_delivery_admission,
\* prospective_series_admission, backtest_research_admission: what they look at
\* in the transaction that has the admission lock.
HandTo(p, r) ==
    /\ writer = p
    /\ conn[p] = "OUT"
    /\ scope[p] = NoRun
    /\ AdmissionGranted
    /\ \/ Kind[r] = "DAILY" /\ live \subseteq lapsed
       \/ Kind[r] = "PROSPECTIVE"
       \/ Kind[r] = "BACKTEST" /\ live = {}
    /\ scope' = [scope EXCEPT ![p] = r]
    /\ conn' = [conn EXCEPT ![p] = IF Kind[r] = "BACKTEST" THEN "OUT" ELSE "VETTING"]
    /\ UNCHANGED <<lockVars, own, attemptVars>>

\* The look at conflicting Attempts comes after that transaction, on the
\* supervisor's own connection.  Whoever finds one raises, which is LeaveScope.
Vet(p) ==
    /\ conn[p] = "VETTING"
    /\ writer = p
    /\ ~Conflict(p, scope[p])
    /\ conn' = [conn EXCEPT ![p] = "OUT"]
    /\ UNCHANGED <<lockVars, scope, own, attemptVars>>

LeaveScope(p) ==
    /\ conn[p] \in {"OUT", "VETTING"}
    /\ scope[p] # NoRun
    /\ scope' = [scope EXCEPT ![p] = NoRun]
    /\ conn' = [conn EXCEPT ![p] = "OUT"]
    /\ UNCHANGED <<lockVars, own, attemptVars>>

-----------------------------------------------------------------------------
(* Connections of canonical clients.                                       *)
\* canonical_writer_admission.
Open(c) ==
    /\ conn[c] = "OUT"
    /\ c \in Narrow => writer = NoClient
    /\ c \in Supervisor => writer = c
    /\ conn' = [conn EXCEPT ![c] = "OPEN"]
    /\ UNCHANGED <<lockVars, scope, own, attemptVars>>

\* The connection goes back to the pool, its transaction committed or not.
\* With the process it may be gone for good.
Close(c) ==
    /\ conn[c] \in {"OPEN", "ADMITTED"}
    /\ conn' = [conn EXCEPT ![c] = "OUT"]
    /\ admission' = IF admission = c THEN NoClient ELSE admission
    /\ UNCHANGED <<writer, sharing, retained, scope, own, attemptVars>>

\* admit_runtime_attempt: whoever fails the checks raises, which is Close.
Admit(c) ==
    /\ conn[c] = "OPEN"
    /\ AdmissionGranted
    /\ c \in Narrow => writer = NoClient
    /\ c \in Supervisor => /\ writer = c
                           /\ scope[c] # NoRun
                           /\ ~Conflict(c, scope[c])
    /\ admission' = c
    /\ conn' = [conn EXCEPT ![c] = "ADMITTED"]
    /\ UNCHANGED <<writer, sharing, retained, scope, own, attemptVars>>

Done(c) ==
    /\ admission' = NoClient
    /\ conn' = [conn EXCEPT ![c] = "OUT"]
    /\ UNCHANGED <<writer, sharing, retained, scope>>

MayTouch(c, r) == c \in Supervisor => r = scope[c]

\* claim_next commits; a supervisor remembers the Attempt as its own.
CommitClaim(c, r, a) ==
    /\ conn[c] = "ADMITTED"
    /\ MayTouch(c, r)
    /\ a \notin live
    /\ live' = live \cup {a}
    /\ runOf' = [runOf EXCEPT ![a] = r]
    /\ own' = [p \in Supervisor |->
                  IF p = c THEN own[p] \cup {a} ELSE own[p] \ {a}]
    /\ Done(c)
    /\ UNCHANGED lapsed

Forget(a) ==
    /\ live' = live \ {a}
    /\ lapsed' = lapsed \ {a}
    /\ UNCHANGED runOf

\* recover_expired_attempt commits.  (expire_step_deadline is admitted too; its
\* Attempt is never live outside the transaction.)
CommitRecovery(c, a) ==
    /\ conn[c] = "ADMITTED"
    /\ a \in lapsed
    /\ MayTouch(c, runOf[a])
    /\ Forget(a)
    /\ Done(c)
    /\ UNCHANGED own

\* succeed_attempt, fail_attempt: fenced, but not admitted.
EndAttempt(c, a) ==
    /\ conn[c] = "OPEN"
    /\ a \in live \ lapsed
    /\ Forget(a)
    /\ conn' = [conn EXCEPT ![c] = "OUT"]
    /\ UNCHANGED <<lockVars, scope, own>>

Lapse(a) ==
    /\ a \in live \ lapsed
    /\ lapsed' = lapsed \cup {a}
    /\ UNCHANGED <<lockVars, conn, scope, own, live, runOf>>

-----------------------------------------------------------------------------
(* Retained clients: retained_writer_admission.                            *)
Share(q) ==
    /\ q \notin sharing
    /\ admission = NoClient
    /\ sharing' = sharing \cup {q}
    /\ UNCHANGED <<writer, admission, retained, conn, scope, own, attemptVars>>

Pass(q) ==
    /\ q \in sharing \ retained
    /\ writer = NoClient
    /\ live = {}
    /\ retained' = retained \cup {q}
    /\ UNCHANGED <<writer, admission, sharing, conn, scope, own, attemptVars>>

\* The connection is given back, or the check raised.
Unshare(q) ==
    /\ q \in sharing
    /\ sharing' = sharing \ {q}
    /\ retained' = retained \ {q}
    /\ UNCHANGED <<writer, admission, conn, scope, own, attemptVars>>

-----------------------------------------------------------------------------
SupervisorNext(p) ==
    \/ Supervise(p) \/ Unsupervise(p) \/ Vet(p) \/ LeaveScope(p)
    \/ \E r \in Run : HandTo(p, r)

CanonicalNext(c) ==
    \/ Open(c) \/ Close(c) \/ Admit(c)
    \/ \E a \in Slot : \/ CommitRecovery(c, a) \/ EndAttempt(c, a)
                       \/ \E r \in Run : CommitClaim(c, r, a)

Next ==
    \/ \E p \in Supervisor : SupervisorNext(p)
    \/ \E c \in Canonical : CanonicalNext(c)
    \/ \E a \in Slot : Lapse(a)
    \/ \E q \in Retained : Share(q) \/ Pass(q) \/ Unshare(q)

Spec == Init /\ [][Next]_vars

-----------------------------------------------------------------------------
(* Properties.                                                             *)

\* Locks, connections and Attempts are of their types.
TypeOK ==
    /\ writer \in Supervisor \cup {NoClient}
    /\ admission \in Canonical \cup {NoClient}
    /\ sharing \subseteq Retained
    /\ retained \subseteq sharing
    /\ conn \in [Canonical -> {"OUT", "VETTING", "OPEN", "ADMITTED"}]
    /\ scope \in [Supervisor -> Run \cup {NoRun}]
    /\ own \in [Supervisor -> SUBSET Slot]
    /\ live \subseteq Slot
    /\ lapsed \subseteq live
    /\ runOf \in [Slot -> Run \cup {NoRun}]

\* While a retained client writes there is no supervisor and no live Attempt,
\* not even one of a supervisor whose connection dropped in its claim.
RetainedIsAlone == retained # {} => writer = NoClient /\ live = {}

\* While a claim or a recovery is under way nobody else is the supervisor: the
\* one that was admitted still is, or its connection has just dropped.
AdmittedUnderOneWriter ==
    admission # NoClient => writer \in {NoClient, admission}

\* From the check of a supervised claim to its commit, every live Attempt is
\* the session's own, or has lapsed and belongs to a Run that is tolerated: also
\* when the supervisor's connection drops in between and narrow clients
\* come back.
SupervisedClaimIsAlone ==
    \A p \in Supervisor : conn[p] = "ADMITTED" =>
        \A a \in live \ own[p] : a \in lapsed /\ runOf[a] \in Tolerated(scope[p])

\* A narrow client's transaction and a supervisor never overlap, whatever the
\* transaction does.
NarrowMeetsNoSupervisor ==
    writer # NoClient => \A n \in Narrow : conn[n] = "OUT"
=============================================================================
