----------------------------- MODULE HoldoutSeal ----------------------------
(***************************************************************************)
(* Reservation and opening of an exploratory holdout, and every way to the *)
(* labels of its window                                                    *)
(* (infrastructure/postgres/migrations/008_backtest_exploratory_holdout.sql, *)
(* repositories/backtest_holdout.py, queries/outcome_inputs.py,             *)
(* repositories/research_evaluation_inputs.py).                             *)
(*                                                                         *)
(* A reservation is refused when a commitment whose label may fall into     *)
(* its window exists; from then on a label of the window is for one Run    *)
(* only, after one opening, by the Evaluations the opening lists.           *)
(* Transactions overlap.  Each is a step in which its guard is evaluated    *)
(* and its lock taken, and a later step in which it commits; only commits   *)
(* are seen by others.  One advisory lock orders reservations and openings  *)
(* (exclusive) against commitments and guarded reads (shared).              *)
(*                                                                         *)
(* Sessions of the Calendar are numbers; it is known up to the horizon.     *)
(***************************************************************************)
EXTENDS Naturals

CONSTANTS
    Worker,         \* connections
    Holdout,        \* reservations that may be asked for
    Run,            \* Backtest runs, and other sources of decisions
    Commitment,     \* Decision commitments that may be made
    Evaluation,     \* Evaluation runs that may be opened
    Instrument,
    Development, Future,    \* the Runs a reservation names
    Sample, Start, Stop,    \* its instruments and the sessions of its window
    Planned,                \* the Evaluations its opening allows
    RunOf, Of, At, Due,     \* a commitment: Run, instrument, decision, label due
    Required,               \* the Evaluations of a Run
    MaxSession, Nothing

ASSUME HoldoutAssumption ==
    /\ Development \in [Holdout -> Run] /\ Future \in [Holdout -> Run]
    /\ Sample \in [Holdout -> SUBSET Instrument]
    /\ Start \in [Holdout -> Nat] /\ Stop \in [Holdout -> Nat]
    /\ Planned \in [Holdout -> SUBSET Evaluation]
    /\ RunOf \in [Commitment -> Run] /\ Of \in [Commitment -> Instrument]
    /\ At \in [Commitment -> Nat] /\ Due \in [Commitment -> Nat]
    /\ Required \in [Run -> SUBSET Evaluation]
    /\ MaxSession \in Nat

VARIABLES
    reserved,       \* reservations
    opened,         \* those with an opening
    made,           \* commitments
    evaluation,     \* Evaluations: state, shape of the Partition, its members
    bound,          \* reserved Runs an action of which is bound to the Runtime
    seen,           \* commitments whose label sources have been read
    settled,        \* commitments with an Outcome
    trained,        \* Evaluations that a model was trained on
    horizon,        \* the last session of the Calendar
    tx              \* the transaction of each connection

vars == <<reserved, opened, made, evaluation, bound, seen, settled, trained, horizon, tx>>
facts == <<reserved, opened, made, evaluation, bound, seen, settled, trained, horizon>>

NoTx == [kind |-> "NONE", of |-> Nothing, lock |-> "NONE"]

Init ==
    /\ reserved = {} /\ opened = {} /\ made = {}
    /\ evaluation = [e \in Evaluation |->
                        [state |-> "NONE", shape |-> "OTHER", members |-> {}]]
    /\ bound = {} /\ seen = {} /\ settled = {} /\ trained = {}
    /\ horizon = 0
    /\ tx = [w \in Worker |-> NoTx]

-----------------------------------------------------------------------------
(* Windows and guards.                                                     *)
\* The label of commitment c falls into the window of h.
Covers(h, c) == Of[c] \in Sample[h] /\ At[c] < Stop[h] /\ Due[c] >= Start[h]

\* Mutant of MayCover: what the Calendar does not know does not count.
KnownToCover(h, c) ==
    Of[c] \in Sample[h] /\ At[c] < Stop[h] /\ Due[c] <= horizon /\ Due[c] + 1 >= Start[h]

\* backtest_holdout_commitment_end: it may fall into the window, for all that
\* the Calendar knows; a day is added, and without a session it never ends.
MayCover(h, c) ==
    /\ Of[c] \in Sample[h]
    /\ At[c] < Stop[h]
    /\ Due[c] <= horizon => Due[c] + 1 >= Start[h]

\* Two windows have a session and an instrument in common.
Clash(g, h) ==
    Sample[g] \cap Sample[h] # {} /\ Start[g] < Stop[h] /\ Stop[g] > Start[h]

\* The opening of h lets the labels of commitment c out, to whom ever settles it
\* and to Evaluation e.
Grants(h, c) == h \in opened /\ RunOf[c] = Future[h]
GrantsTo(h, c, e) == Grants(h, c) /\ e \in Planned[h]

\* require_backtest_holdout_access, on reading the sources of an Outcome and on
\* writing it.
Readable(c) == \A h \in reserved : Covers(h, c) => Grants(h, c)
Writable(c) == \A h \in reserved : MayCover(h, c) => Grants(h, c)

\* require_backtest_holdout_evaluation_scope: the planned identity of an
\* Evaluation is no authority without the planned Partition.
InScope(e, shape) == \A h \in opened : e \in Planned[h] => shape = "PLANNED"

\* Mutant of Acquirable: the Partition is looked at when the Evaluation is opened
\* only.
AcquirableByName(e) ==
    \A c \in evaluation[e].members, h \in reserved : Covers(h, c) => GrantsTo(h, c, e)

\* require_backtest_holdout_access for every member of the Partition.
Acquirable(e) ==
    /\ InScope(e, evaluation[e].shape)
    /\ \A c \in evaluation[e].members, h \in reserved : Covers(h, c) => GrantsTo(h, c, e)

\* require_backtest_holdout_training_access.
Trainable(e) ==
    /\ InScope(e, evaluation[e].shape)
    /\ \A c \in evaluation[e].members, h \in reserved : ~Covers(h, c)

\* The guard takes the lock when a reservation covers one of the commitments.
GuardLock(C) == IF \E h \in reserved, c \in C : Covers(h, c) THEN "SHARED" ELSE "NONE"

Free(lock) ==
    CASE lock = "EXCLUSIVE" -> \A w \in Worker : tx[w].lock = "NONE"
      [] lock = "SHARED" -> \A w \in Worker : tx[w].lock # "EXCLUSIVE"
      [] OTHER -> TRUE

\* A transaction passes its guard and waits for its commit.
Begin(w, kind, x, lock) ==
    /\ tx[w] = NoTx
    /\ Free(lock)
    /\ tx' = [tx EXCEPT ![w] = [kind |-> kind, of |-> x, lock |-> lock]]
    /\ UNCHANGED facts

Commits(w, kind, x) ==
    /\ tx[w].kind = kind /\ tx[w].of = x
    /\ tx' = [tx EXCEPT ![w] = NoTx]

\* Any transaction may fail, and its connection may be lost.
Rollback(w) ==
    /\ tx[w] # NoTx
    /\ tx' = [tx EXCEPT ![w] = NoTx]
    /\ UNCHANGED facts

-----------------------------------------------------------------------------
(* Commitments, reservations and openings.                                 *)
\* Mutant of BeginCommitment: a commitment does not wait for a reservation.
BeginCommitmentAtOnce(w, c) == c \notin made /\ At[c] <= horizon /\ Begin(w, "COMMIT", c, "NONE")

\* A first Decision commitment holds off reservations until its commit.
BeginCommitment(w, c) == c \notin made /\ At[c] <= horizon /\ Begin(w, "COMMIT", c, "SHARED")

CommitCommitment(w, c) ==
    /\ Commits(w, "COMMIT", c)
    /\ c \notin made
    /\ made' = made \cup {c}
    /\ UNCHANGED <<reserved, opened, evaluation, bound, seen, settled, trained, horizon>>

\* reserve: the whole window and the session after it are known, no other window
\* clashes, no commitment may fall into it, and no other reservation names its Run.
BeginReservation(w, h) ==
    /\ h \notin reserved
    /\ Stop[h] <= horizon
    /\ \A g \in reserved : Future[g] # Future[h] /\ ~Clash(g, h)
    /\ \A c \in made : ~MayCover(h, c)
    /\ Begin(w, "RESERVE", h, "EXCLUSIVE")

CommitReservation(w, h) ==
    /\ Commits(w, "RESERVE", h)
    /\ reserved' = reserved \cup {h}
    /\ UNCHANGED <<opened, made, evaluation, bound, seen, settled, trained, horizon>>

\* open: once, after every Evaluation of the development Run, and before any
\* action of the held-out Run is bound to the Runtime.
BeginOpening(w, h) ==
    /\ h \in reserved \ opened
    /\ \A e \in Required[Development[h]] : evaluation[e].state = "COMPLETED"
    /\ Future[h] \notin bound
    /\ Begin(w, "OPEN", h, "EXCLUSIVE")

CommitOpening(w, h) ==
    /\ Commits(w, "OPEN", h)
    /\ opened' = opened \cup {h}
    /\ UNCHANGED <<reserved, made, evaluation, bound, seen, settled, trained, horizon>>

-----------------------------------------------------------------------------
(* Labels: an Outcome is prepared by one transaction and settled by another. *)
BeginPreparation(w, c) ==
    /\ c \in made \ seen
    /\ Due[c] <= horizon
    /\ Readable(c)
    /\ Begin(w, "PREPARE", c, GuardLock({c}))

CommitPreparation(w, c) ==
    /\ Commits(w, "PREPARE", c)
    /\ seen' = seen \cup {c}
    /\ UNCHANGED <<reserved, opened, made, evaluation, bound, settled, trained, horizon>>

\* The settling transaction is SERIALIZABLE: its guards are those of its snapshot.
BeginSettlement(w, c) ==
    /\ c \in seen \ settled
    /\ Readable(c) /\ Writable(c)
    /\ Begin(w, "SETTLE", c, "NONE")

\* When a reservation matches it waits for the lock after its snapshot.
CommitSettlement(w, c) ==
    /\ (\E h \in reserved : MayCover(h, c)) => Free("SHARED")
    /\ Commits(w, "SETTLE", c)
    /\ settled' = settled \cup {c}
    /\ UNCHANGED <<reserved, opened, made, evaluation, bound, seen, trained, horizon>>

-----------------------------------------------------------------------------
(* Evaluations and training.                                               *)
\* An Evaluation is opened over a frozen Partition.  The planned Partition of an
\* opening holds commitments of the held-out Run only.
OpenEvaluation(e, shape, members) ==
    /\ evaluation[e].state = "NONE"
    /\ members \subseteq made
    /\ shape = "PLANNED" =>
           \A h \in Holdout, c \in members : e \in Planned[h] => RunOf[c] = Future[h]
    /\ InScope(e, shape)
    /\ evaluation' = [evaluation EXCEPT ![e] =
                          [state |-> "OPEN", shape |-> shape, members |-> members]]
    /\ UNCHANGED <<reserved, opened, made, bound, seen, settled, trained, horizon, tx>>

\* acquire: every member has an Outcome and may be read.
BeginAcquisition(w, e) ==
    /\ evaluation[e].state = "OPEN"
    /\ evaluation[e].members \subseteq settled
    /\ Acquirable(e)
    /\ Begin(w, "ACQUIRE", e, GuardLock(evaluation[e].members))

CommitAcquisition(w, e) ==
    /\ Commits(w, "ACQUIRE", e)
    /\ evaluation[e].state = "OPEN"
    /\ evaluation' = [evaluation EXCEPT ![e].state = "INPUTS_ACQUIRED"]
    /\ UNCHANGED <<reserved, opened, made, bound, seen, settled, trained, horizon>>

Complete(e) ==
    /\ evaluation[e].state = "INPUTS_ACQUIRED"
    /\ evaluation' = [evaluation EXCEPT ![e].state = "COMPLETED"]
    /\ UNCHANGED <<reserved, opened, made, bound, seen, settled, trained, horizon, tx>>

\* Mutant of BeginTraining: an Evaluation that may read may be trained on.
BeginTrainingIfRead(w, e) ==
    evaluation[e].state = "COMPLETED" /\ e \notin trained /\ Acquirable(e)
        /\ Begin(w, "TRAIN", e, "NONE")

\* Training takes a completed Evaluation for the purpose FIT; a planned Partition
\* is for VALIDATION.
BeginTraining(w, e) ==
    /\ evaluation[e].state = "COMPLETED"
    /\ evaluation[e].shape # "PLANNED"
    /\ e \notin trained
    /\ Trainable(e)
    /\ Begin(w, "TRAIN", e, "NONE")

CommitTraining(w, e) ==
    /\ Commits(w, "TRAIN", e)
    /\ trained' = trained \cup {e}
    /\ UNCHANGED <<reserved, opened, made, evaluation, bound, seen, settled, horizon>>

-----------------------------------------------------------------------------
(* Execution of the held-out Run, and the Calendar.                        *)
\* The executor reads the blockers in a transaction of its own ...
FindUnblocked(w, r) ==
    /\ r \notin bound
    /\ \A h \in reserved \ opened : Future[h] # r
    /\ Begin(w, "EXECUTE", r, "NONE")

\* ... and binds an action in a later one, which takes no advisory lock.
BindRuntime(w, r) ==
    /\ Commits(w, "EXECUTE", r)
    /\ bound' = bound \cup {r}
    /\ UNCHANGED <<reserved, opened, made, evaluation, seen, settled, trained, horizon>>

ExtendCalendar ==
    /\ horizon < MaxSession
    /\ horizon' = horizon + 1
    /\ UNCHANGED <<reserved, opened, made, evaluation, bound, seen, settled, trained, tx>>

HoldoutStep(w, h) ==
    \/ BeginReservation(w, h) \/ CommitReservation(w, h)
    \/ BeginOpening(w, h) \/ CommitOpening(w, h)

CommitmentStep(w, c) ==
    \/ BeginCommitment(w, c) \/ CommitCommitment(w, c)
    \/ BeginPreparation(w, c) \/ CommitPreparation(w, c)
    \/ BeginSettlement(w, c) \/ CommitSettlement(w, c)

EvaluationStep(w, e) ==
    \/ BeginAcquisition(w, e) \/ CommitAcquisition(w, e)
    \/ BeginTraining(w, e) \/ CommitTraining(w, e)

Next ==
    \/ \E w \in Worker :
           \/ \E h \in Holdout : HoldoutStep(w, h)
           \/ \E c \in Commitment : CommitmentStep(w, c)
           \/ \E e \in Evaluation : EvaluationStep(w, e)
           \/ \E h \in Holdout : FindUnblocked(w, Future[h]) \/ BindRuntime(w, Future[h])
           \/ Rollback(w)
    \/ \E e \in Evaluation :
           \/ \E shape \in {"PLANNED", "OTHER"}, members \in SUBSET Commitment :
                  OpenEvaluation(e, shape, members)
           \/ Complete(e)
    \/ ExtendCalendar

Spec == Init /\ [][Next]_vars

-----------------------------------------------------------------------------
(* What the seal promises.                                                 *)
TypeOK ==
    /\ opened \subseteq reserved /\ reserved \subseteq Holdout
    /\ settled \subseteq seen /\ seen \subseteq made /\ made \subseteq Commitment
    /\ bound \subseteq Run
    /\ trained \subseteq Evaluation
    /\ horizon \in 0..MaxSession
    /\ evaluation \in [Evaluation ->
                          [state : {"NONE", "OPEN", "INPUTS_ACQUIRED", "COMPLETED"},
                           shape : {"PLANNED", "OTHER"},
                           members : SUBSET Commitment]]
    /\ \A w \in Worker : tx[w].lock \in {"NONE", "SHARED", "EXCLUSIVE"}

\* The label sources of a protected window are read only for the Run of the
\* reservation, and only once its one opening is committed: whichever of the
\* reservation, the commitment and the reading transaction came first, and
\* whatever the Calendar knew of the window at the time.
SealHolds == \A h \in reserved, c \in seen : Covers(h, c) => Grants(h, c)

\* The Evaluations that acquired an Outcome of a protected window are those the
\* opening lists, over the Partition that was planned for them: an Evaluation
\* opened in advance under a planned identity does not get at the labels.
ReadBySelected ==
    \A e \in Evaluation :
        evaluation[e].state \in {"INPUTS_ACQUIRED", "COMPLETED"} =>
            \A c \in evaluation[e].members, h \in reserved :
                Covers(h, c) => GrantsTo(h, c, e) /\ evaluation[e].shape = "PLANNED"

\* No model is trained on an Evaluation with a member in a protected window, not
\* even on one that the opening lets read it.
NeverTrained ==
    \A e \in trained : \A c \in evaluation[e].members, h \in reserved : ~Covers(h, c)

\* Two reservations share no session of an instrument and name different Runs,
\* although neither sees the other before it commits.
ReservationsDisjoint ==
    \A g, h \in reserved : g # h => ~Clash(g, h) /\ Future[g] # Future[h]

\* When a reservation commits, no commitment exists whose label falls into its
\* window: none that overlapped it, and none whose end the Calendar did not know.
ReservedUncommitted ==
    [][\A h \in reserved' \ reserved : \A c \in made : ~Covers(h, c)]_vars

-----------------------------------------------------------------------------
(* The promise as one step per transaction.                                *)
Atomic == INSTANCE AtomicSeal WITH
    Covered     <- [h \in Holdout |-> {c \in Commitment : Covers(h, c)}],
    Belongs     <- [h \in Holdout |-> {c \in Commitment : RunOf[c] = Future[h]}],
    Apart       <- {p \in Holdout \X Holdout :
                       ~Clash(p[1], p[2]) /\ Future[p[1]] # Future[p[2]]},
    Development <- [h \in Holdout |-> Required[Development[h]]]

\* Transactions that overlap have the effects of transactions that do not: what
\* each of them checked before it waited for its commit is still so when the
\* others see what it did.
ImplementsAtomicSeal == Atomic!AtomicSpec
=============================================================================
