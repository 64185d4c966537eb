---------------------------- MODULE HoldoutProofs ---------------------------
(***************************************************************************)
(* The seal of HoldoutSeal for every set of connections, reservations,      *)
(* commitments, Evaluations and windows.                                    *)
(*                                                                         *)
(* The strengthening says what a transaction that has passed its guard may  *)
(* rely on until it commits: that is where the lock and the refusal of      *)
(* prior commitments are needed.                                            *)
(***************************************************************************)
EXTENDS HoldoutSeal, TLAPS

Kinds == {"NONE", "COMMIT", "RESERVE", "OPEN", "PREPARE", "SETTLE", "ACQUIRE", "TRAIN", "EXECUTE"}
Names == Commitment \cup Holdout \cup Evaluation \cup Run \cup {Nothing}
Locks == {"NONE", "SHARED", "EXCLUSIVE"}
Transactions == [kind : Kinds, of : Names, lock : Locks]

\* The lock of a transaction is the one of its kind, and an exclusive one is alone.
Locked(kind, lock) ==
    /\ kind \in {"RESERVE", "OPEN"} => lock = "EXCLUSIVE"
    /\ kind = "COMMIT" => lock = "SHARED"

LocksHold ==
    /\ \A w \in Worker : Locked(tx[w].kind, tx[w].lock)
    /\ \A v, w \in Worker : v # w /\ tx[w].lock = "EXCLUSIVE" => tx[v].lock = "NONE"

\* The labels of the members of e may be acquired, or may be trained on.
Open(e) ==
    \A c \in evaluation[e].members, h \in reserved :
        Covers(h, c) => GrantsTo(h, c, e) /\ evaluation[e].shape = "PLANNED"
Unprotected(e) == \A c \in evaluation[e].members, h \in reserved : ~Covers(h, c)

\* What remains true between the guard of a transaction and its commit.
Uncommitted(h) ==
    /\ \A c \in made : ~Covers(h, c)
    /\ \A g \in reserved : Future[g] # Future[h] /\ ~Clash(g, h)

Promise(kind, x) ==
    /\ kind = "COMMIT" => x \in Commitment
    /\ kind = "RESERVE" => x \in Holdout /\ Uncommitted(x)
    /\ kind = "OPEN" =>
          /\ x \in reserved \ opened
          /\ \A e \in Required[Development[x]] : evaluation[e].state = "COMPLETED"
    /\ kind = "PREPARE" => x \in made /\ Readable(x)
    /\ kind = "SETTLE" => x \in seen
    /\ kind = "ACQUIRE" =>
          /\ x \in Evaluation /\ evaluation[x].state # "NONE"
          /\ evaluation[x].members \subseteq settled
          /\ Open(x)
    /\ kind = "TRAIN" =>
          /\ x \in Evaluation /\ evaluation[x].state = "COMPLETED"
          /\ evaluation[x].shape # "PLANNED"
          /\ Unprotected(x)
    /\ kind = "EXECUTE" => x \in Run

PromisesHold == \A w \in Worker : Promise(tx[w].kind, tx[w].of)

MembersMade == \A e \in Evaluation : evaluation[e].members \subseteq made
TrainedOpened == \A e \in trained : evaluation[e].state # "NONE"

SealInv ==
    /\ TypeOK
    /\ tx \in [Worker -> Transactions]
    /\ LocksHold
    /\ PromisesHold
    /\ MembersMade
    /\ TrainedOpened
    /\ SealHolds
    /\ ReadBySelected
    /\ NeverTrained
    /\ ReservationsDisjoint

-----------------------------------------------------------------------------
(* A commitment that a window covers is one that may fall into it.         *)
LEMMA CoversMay ==
    ASSUME NEW h \in Holdout, NEW c \in Commitment, Covers(h, c)
    PROVE  MayCover(h, c)
  <1>1. Due[c] \in Nat /\ Start[h] \in Nat
    BY HoldoutAssumption
  <1> QED BY <1>1 DEF Covers, MayCover

\* Two windows clash both ways or not at all.
LEMMA ClashBoth ==
    ASSUME NEW g \in Holdout, NEW h \in Holdout, ~Clash(g, h)
    PROVE  ~Clash(h, g)
  <1>1. /\ Start[g] \in Nat /\ Stop[g] \in Nat
        /\ Start[h] \in Nat /\ Stop[h] \in Nat
    BY HoldoutAssumption
  <1> QED BY <1>1 DEF Clash

\* A transaction that begins with its lock and its promise keeps the invariant.
LEMMA Begins ==
    ASSUME SealInv, NEW w \in Worker, NEW kind \in Kinds, NEW x \in Names, NEW lock \in Locks,
           Begin(w, kind, x, lock), Locked(kind, lock), Promise(kind, x)
    PROVE  SealInv'
  <1> DEFINE t == [kind |-> kind, of |-> x, lock |-> lock]
  <1>1. t \in Transactions
    BY DEF Transactions
  <1>2. tx \in [Worker -> Transactions]
    BY DEF SealInv
  <1>3. /\ tx' \in [Worker -> Transactions]
        /\ tx'[w] = t
        /\ \A v \in Worker : v # w => tx'[v] = tx[v]
    BY <1>1, <1>2 DEF Begin
  <1>4. \A v \in Worker : tx'[v].lock \in Locks
    BY <1>3 DEF Transactions
  <1>5. TypeOK'
    BY <1>4 DEF SealInv, TypeOK, Begin, facts, Locks
  <1>6. LocksHold'
    <2>1. \A v \in Worker : Locked(tx'[v].kind, tx'[v].lock)
      BY <1>3 DEF SealInv, LocksHold
    <2>2. ASSUME NEW u \in Worker, NEW v \in Worker, u # v, tx'[v].lock = "EXCLUSIVE"
          PROVE  tx'[u].lock = "NONE"
      <3>1. CASE v = w
        BY <3>1, <2>2, <1>3 DEF Begin, Free
      <3>2. CASE u = w
        <4>1. tx[v].lock = "EXCLUSIVE"
          BY <3>2, <2>2, <1>3
        <4> QED BY <3>2, <4>1, <1>3, <2>2 DEF Begin, Free, Locks
      <3>3. CASE u # w /\ v # w
        BY <3>3, <2>2, <1>3 DEF SealInv, LocksHold
      <3> QED BY <3>1, <3>2, <3>3
    <2> QED BY <2>1, <2>2 DEF LocksHold
  <1>7. PromisesHold'
    <2>1. ASSUME NEW v \in Worker
          PROVE  Promise(tx'[v].kind, tx'[v].of)
      BY <1>3 DEF SealInv, PromisesHold
    <2>2. ASSUME NEW k, NEW y, Promise(k, y)
          PROVE  Promise(k, y)'
      BY <2>2 DEF Begin, facts, Promise, Uncommitted, Readable, Grants, Open, GrantsTo, Unprotected
    <2>3. ASSUME NEW v \in Worker
          PROVE  Promise(tx[v].kind, tx[v].of)'
      BY <2>1, <2>2
         DEF Promise, Uncommitted, Readable, Grants, Open, GrantsTo, Unprotected, Begin, facts
    <2> QED BY <2>3 DEF PromisesHold
  <1>8. (MembersMade /\ TrainedOpened)' /\ SealHolds' /\ (ReadBySelected /\ NeverTrained)'
           /\ ReservationsDisjoint'
    BY DEF SealInv, Begin, facts, MembersMade, TrainedOpened, SealHolds, Grants, ReadBySelected,
           GrantsTo, NeverTrained, ReservationsDisjoint
  <1> QED BY <1>3, <1>5, <1>6, <1>7, <1>8 DEF SealInv

-----------------------------------------------------------------------------
(* The steps that begin a transaction.                                     *)
LEMMA BeginSteps ==
    ASSUME SealInv, NEW w \in Worker,
           \/ \E h \in Holdout :
                  BeginReservation(w, h) \/ BeginOpening(w, h) \/ FindUnblocked(w, Future[h])
           \/ \E c \in Commitment :
                  BeginCommitment(w, c) \/ BeginPreparation(w, c) \/ BeginSettlement(w, c)
           \/ \E e \in Evaluation : BeginAcquisition(w, e) \/ BeginTraining(w, e)
    PROVE  SealInv'
  <1>1. ASSUME NEW h \in Holdout, BeginReservation(w, h)
        PROVE  SealInv'
    <2>1. made \subseteq Commitment
      BY DEF SealInv, TypeOK
    <2>2. Uncommitted(h)
      <3>1. \A c \in made : ~Covers(h, c)
        BY <1>1, <2>1, CoversMay DEF BeginReservation
      <3> QED BY <1>1, <3>1 DEF BeginReservation, Uncommitted
    <2>3. Promise("RESERVE", h)
      BY <2>2 DEF Promise
    <2> QED BY <1>1, <2>3, Begins DEF BeginReservation, Locked, Kinds, Names, Locks
  <1>2. ASSUME NEW h \in Holdout, BeginOpening(w, h)
        PROVE  SealInv'
    <2>1. Promise("OPEN", h)
      BY <1>2 DEF BeginOpening, Promise
    <2> QED BY <1>2, <2>1, Begins DEF BeginOpening, Locked, Kinds, Names, Locks
  <1>3. ASSUME NEW h \in Holdout, FindUnblocked(w, Future[h])
        PROVE  SealInv'
    <2>1. Future[h] \in Run
      BY HoldoutAssumption
    <2>2. Promise("EXECUTE", Future[h])
      BY <2>1 DEF Promise
    <2> QED BY <1>3, <2>1, <2>2, Begins DEF FindUnblocked, Locked, Kinds, Names, Locks
  <1>4. ASSUME NEW c \in Commitment, BeginCommitment(w, c)
        PROVE  SealInv'
    <2>1. Promise("COMMIT", c)
      BY DEF Promise
    <2> QED BY <1>4, <2>1, Begins DEF BeginCommitment, Locked, Kinds, Names, Locks
  <1>5. ASSUME NEW c \in Commitment, BeginPreparation(w, c)
        PROVE  SealInv'
    <2>1. Promise("PREPARE", c)
      BY <1>5 DEF BeginPreparation, Promise
    <2>2. GuardLock({c}) \in Locks
      BY DEF GuardLock, Locks
    <2> QED BY <1>5, <2>1, <2>2, Begins DEF BeginPreparation, Locked, Kinds, Names
  <1>6. ASSUME NEW c \in Commitment, BeginSettlement(w, c)
        PROVE  SealInv'
    <2>1. Promise("SETTLE", c)
      BY <1>6 DEF BeginSettlement, Promise
    <2> QED BY <1>6, <2>1, Begins DEF BeginSettlement, Locked, Kinds, Names, Locks
  <1>7. ASSUME NEW e \in Evaluation, BeginAcquisition(w, e)
        PROVE  SealInv'
    <2>1. Open(e)
      BY <1>7 DEF BeginAcquisition, Acquirable, InScope, Open, GrantsTo, Grants
    <2>2. Promise("ACQUIRE", e)
      BY <1>7, <2>1 DEF BeginAcquisition, Promise
    <2>3. GuardLock(evaluation[e].members) \in Locks
      BY DEF GuardLock, Locks
    <2> QED BY <1>7, <2>2, <2>3, Begins DEF BeginAcquisition, Locked, Kinds, Names
  <1>8. ASSUME NEW e \in Evaluation, BeginTraining(w, e)
        PROVE  SealInv'
    <2>1. Unprotected(e)
      BY <1>8 DEF BeginTraining, Trainable, Unprotected
    <2>2. Promise("TRAIN", e)
      BY <1>8, <2>1 DEF BeginTraining, Promise
    <2> QED BY <1>8, <2>2, Begins DEF BeginTraining, Locked, Kinds, Names, Locks
  <1> QED BY <1>1, <1>2, <1>3, <1>4, <1>5, <1>6, <1>7, <1>8

-----------------------------------------------------------------------------
(* The steps that end a transaction.                                       *)
\* What remains of the transactions when that of w has ended.
LEMMA Ends ==
    ASSUME SealInv, NEW w \in Worker, tx' = [tx EXCEPT ![w] = NoTx]
    PROVE  /\ tx' \in [Worker -> Transactions]
           /\ LocksHold'
           /\ \A v \in Worker : tx'[v].lock \in Locks
           /\ tx'[w].kind = "NONE"
           /\ \A v \in Worker : v # w => tx'[v] = tx[v]
  <1>1. NoTx \in Transactions /\ NoTx.kind = "NONE" /\ NoTx.lock = "NONE"
    BY DEF NoTx, Transactions, Kinds, Names, Locks
  <1>2. tx \in [Worker -> Transactions]
    BY DEF SealInv
  <1>3. /\ tx' \in [Worker -> Transactions]
        /\ tx'[w] = NoTx
        /\ \A v \in Worker : v # w => tx'[v] = tx[v]
    BY <1>1, <1>2
  <1>4. LocksHold'
    BY <1>1, <1>3 DEF SealInv, LocksHold, Locked
  <1> QED BY <1>1, <1>3, <1>4 DEF Transactions

\* With an exclusive transaction ended, or a commitment, no reservation and no
\* opening is pending.
LEMMA NobodyReserves ==
    ASSUME SealInv, NEW w \in Worker, tx[w].kind \in {"COMMIT", "RESERVE", "OPEN"},
           NEW v \in Worker, v # w
    PROVE  tx[v].kind \notin {"RESERVE", "OPEN"}
  BY DEF SealInv, LocksHold, Locked

\* The promises of the other transactions, and so all of them, are kept.
LEMMA OthersKeep ==
    ASSUME SealInv, NEW w \in Worker, tx' = [tx EXCEPT ![w] = NoTx],
           \A v \in Worker : v # w => Promise(tx[v].kind, tx[v].of)'
    PROVE  PromisesHold'
  <1>1. tx'[w].kind = "NONE"
    BY Ends
  <1> QED BY <1>1 DEF PromisesHold, Promise

\* A commitment: no reservation is pending that it could spoil.
LEMMA Committing ==
    ASSUME SealInv, NEW w \in Worker, NEW c \in Commitment, CommitCommitment(w, c)
    PROVE  SealInv'
  <1>1. /\ tx' = [tx EXCEPT ![w] = NoTx]
        /\ tx[w].kind = "COMMIT"
        /\ made' = made \cup {c}
        /\ UNCHANGED <<reserved, opened, evaluation, bound, seen, settled, trained, horizon>>
    BY DEF CommitCommitment, Commits
  <1>2. TypeOK'
    BY <1>1, Ends DEF SealInv, TypeOK, Locks
  <1>3. ASSUME NEW v \in Worker, v # w
        PROVE  Promise(tx[v].kind, tx[v].of)'
    <2>1. tx'[v] = tx[v]
      BY <1>1, <1>3, Ends
    <2>2. tx[v].kind # "RESERVE"
      BY <1>1, <1>3, NobodyReserves
    <2>3. Promise(tx[v].kind, tx[v].of)
      BY DEF SealInv, PromisesHold
    <2> QED BY <1>1, <2>1, <2>2, <2>3 DEF Promise, Readable, Grants, Open, GrantsTo, Unprotected
  <1>4. PromisesHold'
    BY <1>1, <1>3, OthersKeep
  <1>5. MembersMade' /\ TrainedOpened' /\ SealHolds' /\ ReadBySelected' /\ NeverTrained'
           /\ ReservationsDisjoint'
    BY <1>1 DEF SealInv, MembersMade, TrainedOpened, SealHolds, Grants, ReadBySelected, GrantsTo,
                NeverTrained, ReservationsDisjoint
  <1> QED BY <1>1, <1>2, <1>4, <1>5, Ends DEF SealInv

\* A reservation: what it covers is not committed, so neither read nor a member.
LEMMA Reserving ==
    ASSUME SealInv, NEW w \in Worker, NEW h \in Holdout, CommitReservation(w, h)
    PROVE  SealInv'
  <1>1. /\ tx' = [tx EXCEPT ![w] = NoTx]
        /\ tx[w].kind = "RESERVE" /\ tx[w].of = h
        /\ reserved' = reserved \cup {h}
        /\ UNCHANGED <<opened, made, evaluation, bound, seen, settled, trained, horizon>>
    BY DEF CommitReservation, Commits
  <1>2. Uncommitted(h)
    BY <1>1 DEF SealInv, PromisesHold, Promise
  <1>3. /\ reserved \subseteq Holdout /\ trained \subseteq Evaluation
        /\ seen \subseteq made
        /\ \A e \in Evaluation : evaluation[e].members \subseteq made
    BY DEF SealInv, TypeOK, MembersMade
  <1>4. TypeOK'
    BY <1>1, Ends DEF SealInv, TypeOK, Locks
  <1>5. ASSUME NEW v \in Worker, v # w
        PROVE  Promise(tx[v].kind, tx[v].of)'
    <2>1. tx'[v] = tx[v]
      BY <1>1, <1>5, Ends
    <2>2. tx[v].kind # "RESERVE"
      BY <1>1, <1>5, NobodyReserves
    <2>3. Promise(tx[v].kind, tx[v].of)
      BY DEF SealInv, PromisesHold
    <2>4. tx[v].kind = "PREPARE" => Readable(tx[v].of)'
      BY <1>1, <1>2, <2>1, <2>3 DEF Promise, Readable, Grants, Uncommitted
    <2>5. tx[v].kind = "ACQUIRE" => Open(tx[v].of)'
      BY <1>1, <1>2, <1>3, <2>1, <2>3 DEF Promise, Open, GrantsTo, Grants, Uncommitted
    <2>6. tx[v].kind = "TRAIN" => Unprotected(tx[v].of)'
      BY <1>1, <1>2, <1>3, <2>1, <2>3 DEF Promise, Unprotected, Uncommitted
    <2> QED BY <1>1, <2>1, <2>2, <2>3, <2>4, <2>5, <2>6 DEF Promise
  <1>6. PromisesHold'
    BY <1>1, <1>5, OthersKeep
  <1>7. SealHolds'
    BY <1>1, <1>2, <1>3 DEF SealInv, SealHolds, Grants, Uncommitted
  <1>8. ReadBySelected' /\ NeverTrained'
    BY <1>1, <1>2, <1>3 DEF SealInv, ReadBySelected, NeverTrained, GrantsTo, Grants, Uncommitted
  <1>9. ReservationsDisjoint'
    <2>1. \A g \in reserved : ~Clash(g, h) /\ ~Clash(h, g) /\ Future[g] # Future[h]
      BY <1>2, <1>3, ClashBoth DEF Uncommitted
    <2> QED BY <1>1, <2>1 DEF SealInv, ReservationsDisjoint
  <1> QED BY <1>1, <1>4, <1>6, <1>7, <1>8, <1>9, Ends DEF SealInv, MembersMade, TrainedOpened

\* The other commits take nothing from what is promised or granted.
LEMMA Opening ==
    ASSUME SealInv, NEW w \in Worker, NEW h \in Holdout, CommitOpening(w, h)
    PROVE  SealInv'
  <1>1. /\ tx' = [tx EXCEPT ![w] = NoTx]
        /\ tx[w].kind = "OPEN" /\ tx[w].of = h
        /\ opened' = opened \cup {h}
        /\ UNCHANGED <<reserved, made, evaluation, bound, seen, settled, trained, horizon>>
    BY DEF CommitOpening, Commits
  <1>2. h \in reserved
    BY <1>1 DEF SealInv, PromisesHold, Promise
  <1>3. TypeOK'
    BY <1>1, <1>2, Ends DEF SealInv, TypeOK, Locks
  <1>4. ASSUME NEW v \in Worker, v # w
        PROVE  Promise(tx[v].kind, tx[v].of)'
    <2>1. tx'[v] = tx[v]
      BY <1>1, <1>4, Ends
    <2>2. Promise(tx[v].kind, tx[v].of)
      BY DEF SealInv, PromisesHold
    <2>3. tx[v].kind \notin {"RESERVE", "OPEN"}
      BY <1>1, <1>4, NobodyReserves
    <2> QED BY <1>1, <2>1, <2>2, <2>3
            DEF Promise, Uncommitted, Readable, Grants, Open, GrantsTo, Unprotected
  <1>5. PromisesHold'
    BY <1>1, <1>4, OthersKeep
  <1>6. MembersMade' /\ TrainedOpened' /\ SealHolds' /\ ReadBySelected' /\ NeverTrained'
           /\ ReservationsDisjoint'
    BY <1>1 DEF SealInv, MembersMade, TrainedOpened, SealHolds, Grants, ReadBySelected, GrantsTo,
                NeverTrained, ReservationsDisjoint
  <1> QED BY <1>1, <1>3, <1>5, <1>6, Ends DEF SealInv

LEMMA Reading ==
    ASSUME SealInv, NEW w \in Worker, NEW c \in Commitment,
           CommitPreparation(w, c) \/ CommitSettlement(w, c)
    PROVE  SealInv'
  <1>1. /\ tx' = [tx EXCEPT ![w] = NoTx]
        /\ \/ /\ tx[w].kind = "PREPARE" /\ tx[w].of = c
              /\ seen' = seen \cup {c} /\ settled' = settled
           \/ /\ tx[w].kind = "SETTLE" /\ tx[w].of = c
              /\ seen' = seen /\ settled' = settled \cup {c}
        /\ UNCHANGED <<reserved, opened, made, evaluation, bound, trained, horizon>>
    BY DEF CommitPreparation, CommitSettlement, Commits
  <1>2. Promise(tx[w].kind, tx[w].of)
    BY DEF SealInv, PromisesHold
  <1>3. TypeOK'
    <2>1. tx[w].kind = "PREPARE" => c \in made
      BY <1>1, <1>2 DEF Promise
    <2>2. tx[w].kind = "SETTLE" => c \in seen
      BY <1>1, <1>2 DEF Promise
    <2>3. settled' \subseteq seen' /\ seen' \subseteq made
      BY <1>1, <2>1, <2>2 DEF SealInv, TypeOK
    <2> QED BY <1>1, <2>3, Ends DEF SealInv, TypeOK, Locks
  <1>4. ASSUME NEW v \in Worker, v # w
        PROVE  Promise(tx[v].kind, tx[v].of)'
    <2>1. tx'[v] = tx[v]
      BY <1>1, <1>4, Ends
    <2>2. Promise(tx[v].kind, tx[v].of)
      BY DEF SealInv, PromisesHold
    <2> QED BY <1>1, <2>1, <2>2
            DEF Promise, Uncommitted, Readable, Grants, Open, GrantsTo, Unprotected
  <1>5. PromisesHold'
    BY <1>1, <1>4, OthersKeep
  <1>6. SealHolds'
    BY <1>1, <1>2 DEF SealInv, SealHolds, Grants, Promise, Readable
  <1>7. MembersMade' /\ TrainedOpened' /\ ReadBySelected' /\ NeverTrained' /\ ReservationsDisjoint'
    BY <1>1 DEF SealInv, MembersMade, TrainedOpened, Grants, ReadBySelected, GrantsTo,
                NeverTrained, ReservationsDisjoint
  <1> QED BY <1>1, <1>3, <1>5, <1>6, <1>7, Ends DEF SealInv

\* The state of an Evaluation moves and nothing else of it.
Advances(e, state) ==
    /\ evaluation' \in [Evaluation -> [state : {"NONE", "OPEN", "INPUTS_ACQUIRED", "COMPLETED"},
                                       shape : {"PLANNED", "OTHER"},
                                       members : SUBSET Commitment]]
    /\ evaluation'[e].state = state
    /\ evaluation'[e].shape = evaluation[e].shape
    /\ evaluation'[e].members = evaluation[e].members
    /\ \A d \in Evaluation : d # e => evaluation'[d] = evaluation[d]

LEMMA Advancing ==
    ASSUME SealInv, NEW e \in Evaluation, NEW state \in {"INPUTS_ACQUIRED", "COMPLETED"},
           evaluation' = [evaluation EXCEPT ![e].state = state]
    PROVE  Advances(e, state)
  BY DEF SealInv, TypeOK, Advances

\* An acquisition moves the state of its Evaluation and nothing else.
LEMMA Acquiring ==
    ASSUME SealInv, NEW w \in Worker, NEW e \in Evaluation, CommitAcquisition(w, e)
    PROVE  SealInv'
  <1>1. /\ tx' = [tx EXCEPT ![w] = NoTx]
        /\ tx[w].kind = "ACQUIRE" /\ tx[w].of = e
        /\ evaluation[e].state = "OPEN"
        /\ evaluation' = [evaluation EXCEPT ![e].state = "INPUTS_ACQUIRED"]
        /\ UNCHANGED <<reserved, opened, made, bound, seen, settled, trained, horizon>>
    BY DEF CommitAcquisition, Commits
  <1>2. Open(e)
    BY <1>1 DEF SealInv, PromisesHold, Promise
  <1>3. Advances(e, "INPUTS_ACQUIRED")
    BY <1>1, Advancing
  <1>4. TypeOK'
    BY <1>1, <1>3, Ends DEF SealInv, TypeOK, Locks, Advances
  <1>5. ASSUME NEW v \in Worker, v # w
        PROVE  Promise(tx[v].kind, tx[v].of)'
    <2>1. tx'[v] = tx[v]
      BY <1>1, <1>5, Ends
    <2>2. Promise(tx[v].kind, tx[v].of)
      BY DEF SealInv, PromisesHold
    <2> QED BY <1>1, <1>3, <2>1, <2>2
            DEF Promise, Uncommitted, Readable, Grants, Open, GrantsTo, Unprotected, Advances
  <1>6. PromisesHold'
    BY <1>1, <1>5, OthersKeep
  <1>7. ReadBySelected'
    BY <1>1, <1>2, <1>3 DEF SealInv, ReadBySelected, Open, GrantsTo, Grants, Advances
  <1>8. MembersMade' /\ TrainedOpened' /\ SealHolds' /\ NeverTrained' /\ ReservationsDisjoint'
    BY <1>1, <1>3 DEF SealInv, TypeOK, MembersMade, TrainedOpened, SealHolds, Grants,
                      NeverTrained, ReservationsDisjoint, Advances
  <1> QED BY <1>1, <1>4, <1>6, <1>7, <1>8, Ends DEF SealInv

LEMMA Training ==
    ASSUME SealInv, NEW w \in Worker, NEW e \in Evaluation, CommitTraining(w, e)
    PROVE  SealInv'
  <1>1. /\ tx' = [tx EXCEPT ![w] = NoTx]
        /\ tx[w].kind = "TRAIN" /\ tx[w].of = e
        /\ trained' = trained \cup {e}
        /\ UNCHANGED <<reserved, opened, made, evaluation, bound, seen, settled, horizon>>
    BY DEF CommitTraining, Commits
  <1>2. evaluation[e].state # "NONE" /\ Unprotected(e)
    BY <1>1 DEF SealInv, PromisesHold, Promise
  <1>3. TypeOK'
    BY <1>1, Ends DEF SealInv, TypeOK, Locks
  <1>4. ASSUME NEW v \in Worker, v # w
        PROVE  Promise(tx[v].kind, tx[v].of)'
    <2>1. tx'[v] = tx[v]
      BY <1>1, <1>4, Ends
    <2>2. Promise(tx[v].kind, tx[v].of)
      BY DEF SealInv, PromisesHold
    <2> QED BY <1>1, <2>1, <2>2
            DEF Promise, Uncommitted, Readable, Grants, Open, GrantsTo, Unprotected
  <1>5. PromisesHold'
    BY <1>1, <1>4, OthersKeep
  <1>6. TrainedOpened' /\ NeverTrained'
    BY <1>1, <1>2 DEF SealInv, TrainedOpened, NeverTrained, Unprotected
  <1>7. MembersMade' /\ SealHolds' /\ ReadBySelected' /\ ReservationsDisjoint'
    BY <1>1 DEF SealInv, MembersMade, SealHolds, Grants, ReadBySelected, GrantsTo,
                ReservationsDisjoint
  <1> QED BY <1>1, <1>3, <1>5, <1>6, <1>7, Ends DEF SealInv

LEMMA BindingOrFailing ==
    ASSUME SealInv, NEW w \in Worker,
           (\E h \in Holdout : BindRuntime(w, Future[h])) \/ Rollback(w)
    PROVE  SealInv'
  <1>1. /\ tx' = [tx EXCEPT ![w] = NoTx]
        /\ bound' \in {bound} \cup {bound \cup {Future[h]} : h \in Holdout}
        /\ UNCHANGED <<reserved, opened, made, evaluation, seen, settled, trained, horizon>>
    BY DEF BindRuntime, Commits, Rollback, facts
  <1>2. bound' \subseteq Run
    BY <1>1, HoldoutAssumption DEF SealInv, TypeOK
  <1>3. TypeOK'
    BY <1>1, <1>2, Ends DEF SealInv, TypeOK, Locks
  <1>4. ASSUME NEW v \in Worker, v # w
        PROVE  Promise(tx[v].kind, tx[v].of)'
    <2>1. tx'[v] = tx[v]
      BY <1>1, <1>4, Ends
    <2>2. Promise(tx[v].kind, tx[v].of)
      BY DEF SealInv, PromisesHold
    <2> QED BY <1>1, <2>1, <2>2
            DEF Promise, Uncommitted, Readable, Grants, Open, GrantsTo, Unprotected
  <1>5. PromisesHold'
    BY <1>1, <1>4, OthersKeep
  <1>6. MembersMade' /\ TrainedOpened' /\ SealHolds' /\ ReadBySelected' /\ NeverTrained'
           /\ ReservationsDisjoint'
    BY <1>1 DEF SealInv, MembersMade, TrainedOpened, SealHolds, Grants, ReadBySelected, GrantsTo,
                NeverTrained, ReservationsDisjoint
  <1> QED BY <1>1, <1>3, <1>5, <1>6, Ends DEF SealInv

-----------------------------------------------------------------------------
(* The steps outside the transactions of the model.                        *)
LEMMA OpeningEvaluation ==
    ASSUME SealInv, NEW e \in Evaluation, NEW shape \in {"PLANNED", "OTHER"},
           NEW members \in SUBSET Commitment, OpenEvaluation(e, shape, members)
    PROVE  SealInv'
  <1> DEFINE r == [state |-> "OPEN", shape |-> shape, members |-> members]
  <1>1. /\ evaluation[e].state = "NONE"
        /\ members \subseteq made
        /\ evaluation' = [evaluation EXCEPT ![e] = r]
        /\ UNCHANGED <<reserved, opened, made, bound, seen, settled, trained, horizon, tx>>
    BY DEF OpenEvaluation
  <1>2. /\ evaluation' \in [Evaluation ->
                              [state : {"NONE", "OPEN", "INPUTS_ACQUIRED", "COMPLETED"},
                               shape : {"PLANNED", "OTHER"},
                               members : SUBSET Commitment]]
        /\ evaluation'[e] = r
        /\ \A d \in Evaluation : d # e => evaluation'[d] = evaluation[d]
    BY <1>1 DEF SealInv, TypeOK
  <1>3. TypeOK'
    BY <1>1, <1>2 DEF SealInv, TypeOK
  <1>4. PromisesHold' /\ LocksHold'
    BY <1>1, <1>2 DEF SealInv, PromisesHold, LocksHold, Promise, Uncommitted, Readable, Grants,
                      Open, GrantsTo, Unprotected
  <1>5. MembersMade' /\ TrainedOpened' /\ ReadBySelected' /\ NeverTrained'
    BY <1>1, <1>2 DEF SealInv, TypeOK, MembersMade, TrainedOpened, Grants, ReadBySelected, GrantsTo,
                      NeverTrained
  <1>6. SealHolds' /\ ReservationsDisjoint'
    BY <1>1 DEF SealInv, SealHolds, Grants, ReservationsDisjoint
  <1> QED BY <1>1, <1>3, <1>4, <1>5, <1>6 DEF SealInv

LEMMA Completing ==
    ASSUME SealInv, NEW e \in Evaluation, Complete(e)
    PROVE  SealInv'
  <1>1. /\ evaluation[e].state = "INPUTS_ACQUIRED"
        /\ evaluation' = [evaluation EXCEPT ![e].state = "COMPLETED"]
        /\ UNCHANGED <<reserved, opened, made, bound, seen, settled, trained, horizon, tx>>
    BY DEF Complete
  <1>2. Advances(e, "COMPLETED")
    BY <1>1, Advancing
  <1>3. TypeOK'
    BY <1>1, <1>2 DEF SealInv, TypeOK, Advances
  <1>4. PromisesHold' /\ LocksHold'
    BY <1>1, <1>2 DEF SealInv, PromisesHold, LocksHold, Promise, Uncommitted, Readable, Grants,
                      Open, GrantsTo, Unprotected, Advances
  <1>5. MembersMade' /\ TrainedOpened' /\ ReadBySelected' /\ NeverTrained'
    BY <1>1, <1>2 DEF SealInv, TypeOK, MembersMade, TrainedOpened, Grants, ReadBySelected, GrantsTo,
                      NeverTrained, Advances
  <1>6. SealHolds' /\ ReservationsDisjoint'
    BY <1>1 DEF SealInv, SealHolds, Grants, ReservationsDisjoint
  <1> QED BY <1>1, <1>3, <1>4, <1>5, <1>6 DEF SealInv

LEMMA Extending ==
    ASSUME SealInv, ExtendCalendar
    PROVE  SealInv'
  <1>1. /\ horizon < MaxSession /\ horizon' = horizon + 1
        /\ UNCHANGED <<reserved, opened, made, evaluation, bound, seen, settled, trained, tx>>
    BY DEF ExtendCalendar
  <1>2. TypeOK'
    BY <1>1, HoldoutAssumption DEF SealInv, TypeOK
  <1>3. PromisesHold' /\ LocksHold'
    BY <1>1 DEF SealInv, PromisesHold, LocksHold, Promise, Uncommitted, Readable, Grants,
                Open, GrantsTo, Unprotected
  <1>4. MembersMade' /\ TrainedOpened' /\ SealHolds' /\ ReadBySelected' /\ NeverTrained'
           /\ ReservationsDisjoint'
    BY <1>1 DEF SealInv, MembersMade, TrainedOpened, SealHolds, Grants, ReadBySelected, GrantsTo,
                NeverTrained, ReservationsDisjoint
  <1> QED BY <1>1, <1>2, <1>3, <1>4 DEF SealInv

-----------------------------------------------------------------------------
(* The theorems.                                                           *)
LEMMA SealStarts == Init => SealInv
  <1> SUFFICES ASSUME Init PROVE SealInv
    OBVIOUS
  <1>1. NoTx \in Transactions /\ NoTx.kind = "NONE" /\ NoTx.lock = "NONE"
    BY DEF NoTx, Transactions, Kinds, Names, Locks
  <1>2. TypeOK
    BY <1>1, HoldoutAssumption DEF Init, TypeOK
  <1>3. tx \in [Worker -> Transactions] /\ LocksHold /\ PromisesHold
    BY <1>1 DEF Init, LocksHold, Locked, PromisesHold, Promise
  <1>4. MembersMade /\ TrainedOpened /\ SealHolds /\ ReadBySelected /\ NeverTrained
           /\ ReservationsDisjoint
    BY DEF Init, MembersMade, TrainedOpened, SealHolds, ReadBySelected, NeverTrained,
           ReservationsDisjoint
  <1> QED BY <1>2, <1>3, <1>4 DEF SealInv

LEMMA SealStutters ==
    ASSUME SealInv, UNCHANGED vars
    PROVE  SealInv'
  BY DEF SealInv, vars, TypeOK, PromisesHold, LocksHold, Promise, Uncommitted, Readable, Grants,
         Open, GrantsTo, Unprotected, MembersMade, TrainedOpened, SealHolds, ReadBySelected,
         NeverTrained, ReservationsDisjoint

\* The strengthened invariant holds in every state of every instance.
THEOREM SealInvariant == Spec => []SealInv
  <1>1. ASSUME SealInv, Next
        PROVE  SealInv'
    <2>1. ASSUME NEW w \in Worker, NEW h \in Holdout, HoldoutStep(w, h)
          PROVE  SealInv'
      BY <1>1, <2>1, BeginSteps, Reserving, Opening DEF HoldoutStep
    <2>2. ASSUME NEW w \in Worker, NEW c \in Commitment, CommitmentStep(w, c)
          PROVE  SealInv'
      BY <1>1, <2>2, BeginSteps, Committing, Reading DEF CommitmentStep
    <2>3. ASSUME NEW w \in Worker, NEW e \in Evaluation, EvaluationStep(w, e)
          PROVE  SealInv'
      BY <1>1, <2>3, BeginSteps, Acquiring, Training DEF EvaluationStep
    <2>4. ASSUME NEW w \in Worker,
                 (\E h \in Holdout : FindUnblocked(w, Future[h]) \/ BindRuntime(w, Future[h]))
                     \/ Rollback(w)
          PROVE  SealInv'
      BY <1>1, <2>4, BeginSteps, BindingOrFailing
    <2>5. ASSUME NEW e \in Evaluation,
                 \/ \E shape \in {"PLANNED", "OTHER"}, members \in SUBSET Commitment :
                        OpenEvaluation(e, shape, members)
                 \/ Complete(e)
          PROVE  SealInv'
      BY <1>1, <2>5, OpeningEvaluation, Completing
    <2> QED BY <1>1, <2>1, <2>2, <2>3, <2>4, <2>5, Extending DEF Next
  <1>2. SealInv /\ [Next]_vars => SealInv'
    BY <1>1, SealStutters
  <1> QED BY <1>2, SealStarts, PTL DEF Spec

\* Every variable keeps its type, and only what is committed is read.
THEOREM SealTypes == Spec => []TypeOK
  <1>1. SealInv => TypeOK
    BY DEF SealInv
  <1> QED BY <1>1, SealInvariant, PTL

\* No label of a protected window is read but for its Run, after its opening.
THEOREM TheSealHolds == Spec => []SealHolds
  <1>1. SealInv => SealHolds
    BY DEF SealInv
  <1> QED BY <1>1, SealInvariant, PTL

\* Only the Evaluations of the opening acquire a label of the window.
THEOREM SelectedRead == Spec => []ReadBySelected
  <1>1. SealInv => ReadBySelected
    BY DEF SealInv
  <1> QED BY <1>1, SealInvariant, PTL

\* No protected label is trained on.
THEOREM NothingTrained == Spec => []NeverTrained
  <1>1. SealInv => NeverTrained
    BY DEF SealInv
  <1> QED BY <1>1, SealInvariant, PTL

\* Reservations do not overlap.
THEOREM WindowsApart == Spec => []ReservationsDisjoint
  <1>1. SealInv => ReservationsDisjoint
    BY DEF SealInv
  <1> QED BY <1>1, SealInvariant, PTL

\* A reservation commits only over a window without commitments.
THEOREM NothingCommitted == Spec => ReservedUncommitted
  <1>1. ASSUME SealInv, Next
        PROVE  \A h \in reserved' \ reserved : \A c \in made : ~Covers(h, c)
    <2>1. ASSUME NEW w \in Worker, NEW h \in Holdout, CommitReservation(w, h)
          PROVE  \A g \in reserved' \ reserved : \A c \in made : ~Covers(g, c)
      <3>1. Uncommitted(h)
        BY <1>1, <2>1 DEF SealInv, PromisesHold, Promise, CommitReservation, Commits
      <3> QED BY <2>1, <3>1 DEF CommitReservation, Uncommitted
    <2>2. (\A w \in Worker, h \in Holdout : ~CommitReservation(w, h)) => reserved' = reserved
      BY <1>1 DEF Next, HoldoutStep, CommitmentStep, EvaluationStep, BeginReservation, BeginOpening,
             CommitOpening, BeginCommitment, CommitCommitment, BeginPreparation, CommitPreparation,
             BeginSettlement, CommitSettlement, BeginAcquisition, CommitAcquisition, BeginTraining,
             CommitTraining, FindUnblocked, BindRuntime, Rollback, OpenEvaluation, Complete,
             ExtendCalendar, Begin, facts
    <2> QED BY <2>1, <2>2
  <1>2. SealInv /\ [Next]_vars =>
            [\A h \in reserved' \ reserved : \A c \in made : ~Covers(h, c)]_vars
    BY <1>1
  <1> QED BY <1>2, SealInvariant, PTL DEF Spec, ReservedUncommitted

-----------------------------------------------------------------------------
(* Transactions that overlap implement transactions that do not.           *)
\* A reservation commits over a window that is still clean.
LEMMA AtomicReserve ==
    ASSUME SealInv, NEW w \in Worker, NEW h \in Holdout, CommitReservation(w, h)
    PROVE  Atomic!Reserve(h)
  <1>1. /\ tx[w].kind = "RESERVE" /\ tx[w].of = h
        /\ reserved' = reserved \cup {h}
        /\ UNCHANGED <<opened, made, evaluation, seen, settled, trained>>
    BY DEF CommitReservation, Commits
  <1>2. Uncommitted(h)
    BY <1>1 DEF SealInv, PromisesHold, Promise
  <1>3. reserved \subseteq Holdout /\ made \subseteq Commitment
    BY DEF SealInv, TypeOK
  <1>4. h \notin reserved
    BY <1>2 DEF Uncommitted
  <1>5. \A g \in reserved : <<g, h>> \in {p \in Holdout \X Holdout :
                               ~Clash(p[1], p[2]) /\ Future[p[1]] # Future[p[2]]}
    <2> SUFFICES ASSUME NEW g \in reserved
                 PROVE  /\ <<g, h>> \in Holdout \X Holdout
                        /\ ~Clash(g, h) /\ Future[g] # Future[h]
      OBVIOUS
    <2> QED BY <1>2, <1>3 DEF Uncommitted
  <1>6. {c \in Commitment : Covers(h, c)} \cap made = {}
    BY <1>2 DEF Uncommitted
  <1> QED BY <1>1, <1>4, <1>5, <1>6 DEF Atomic!Reserve

\* An opening commits over a reservation that is still closed, after Evaluations
\* that are still completed.
LEMMA AtomicOpen ==
    ASSUME SealInv, NEW w \in Worker, NEW h \in Holdout, CommitOpening(w, h)
    PROVE  Atomic!Open(h)
  <1>1. /\ tx[w].kind = "OPEN" /\ tx[w].of = h
        /\ opened' = opened \cup {h}
        /\ UNCHANGED <<reserved, made, evaluation, seen, settled, trained>>
    BY DEF CommitOpening, Commits
  <1>2. /\ h \in reserved \ opened
        /\ \A e \in Required[Development[h]] : evaluation[e].state = "COMPLETED"
    BY <1>1 DEF SealInv, PromisesHold, Promise
  <1> QED BY <1>1, <1>2 DEF Atomic!Open

\* What a guard of the code lets out, the atomic specification releases.
LEMMA AtomicReleases ==
    ASSUME SealInv, NEW c \in Commitment, \A h \in reserved : Covers(h, c) => Grants(h, c)
    PROVE  Atomic!Released(c)
  <1>1. reserved \subseteq Holdout
    BY DEF SealInv, TypeOK
  <1> QED BY <1>1 DEF Atomic!Released, Grants

LEMMA AtomicRead ==
    ASSUME SealInv, NEW w \in Worker, NEW c \in Commitment, CommitPreparation(w, c)
    PROVE  Atomic!Read(c)
  <1>1. /\ tx[w].kind = "PREPARE" /\ tx[w].of = c
        /\ seen' = seen \cup {c}
        /\ UNCHANGED <<reserved, opened, made, evaluation, settled, trained>>
    BY DEF CommitPreparation, Commits
  <1>2. c \in made /\ Readable(c)
    BY <1>1 DEF SealInv, PromisesHold, Promise
  <1>3. Atomic!Released(c)
    BY <1>2, AtomicReleases DEF Readable
  <1> QED BY <1>1, <1>2, <1>3 DEF Atomic!Read

\* A settlement takes no lock: that its label is still released is the seal.
LEMMA AtomicSettle ==
    ASSUME SealInv, NEW w \in Worker, NEW c \in Commitment, CommitSettlement(w, c)
    PROVE  Atomic!Settle(c)
  <1>1. /\ tx[w].kind = "SETTLE" /\ tx[w].of = c
        /\ settled' = settled \cup {c}
        /\ UNCHANGED <<reserved, opened, made, evaluation, seen, trained>>
    BY DEF CommitSettlement, Commits
  <1>2. c \in seen
    BY <1>1 DEF SealInv, PromisesHold, Promise
  <1>3. Atomic!Released(c)
    BY <1>2, AtomicReleases DEF SealInv, SealHolds
  <1> QED BY <1>1, <1>2, <1>3 DEF Atomic!Settle

\* An acquisition commits while every member is released to this Evaluation.
LEMMA AtomicAcquire ==
    ASSUME SealInv, NEW w \in Worker, NEW e \in Evaluation, CommitAcquisition(w, e)
    PROVE  Atomic!Acquire(e)
  <1>1. /\ tx[w].kind = "ACQUIRE" /\ tx[w].of = e
        /\ evaluation[e].state = "OPEN"
        /\ evaluation' = [evaluation EXCEPT ![e].state = "INPUTS_ACQUIRED"]
        /\ UNCHANGED <<reserved, opened, made, seen, settled, trained>>
    BY DEF CommitAcquisition, Commits
  <1>2. evaluation[e].members \subseteq settled /\ Open(e)
    BY <1>1 DEF SealInv, PromisesHold, Promise
  <1>3. reserved \subseteq Holdout /\ evaluation[e].members \subseteq Commitment
    BY DEF SealInv, TypeOK
  <1>4. \A c \in evaluation[e].members : Atomic!Released(c)
    BY <1>2, <1>3, AtomicReleases DEF Open, GrantsTo
  <1>5. \A c \in evaluation[e].members, h \in reserved :
            c \in {d \in Commitment : Covers(h, d)} =>
                e \in Planned[h] /\ evaluation[e].shape = "PLANNED"
    BY <1>2 DEF Open, GrantsTo
  <1>6. Atomic!Protected(e) => evaluation[e].shape = "PLANNED"
    BY <1>3, <1>5 DEF Atomic!Protected
  <1>7. \A c \in evaluation[e].members, h \in reserved :
            c \in [g \in Holdout |-> {d \in Commitment : Covers(g, d)}][h] => e \in Planned[h]
    BY <1>3, <1>5
  <1> QED BY <1>1, <1>2, <1>4, <1>6, <1>7 DEF Atomic!Acquire

LEMMA AtomicTrain ==
    ASSUME SealInv, NEW w \in Worker, NEW e \in Evaluation, CommitTraining(w, e)
    PROVE  Atomic!Train(e)
  <1>1. /\ tx[w].kind = "TRAIN" /\ tx[w].of = e
        /\ trained' = trained \cup {e}
        /\ UNCHANGED <<reserved, opened, made, evaluation, seen, settled>>
    BY DEF CommitTraining, Commits
  <1>2. /\ evaluation[e].state = "COMPLETED"
        /\ evaluation[e].shape # "PLANNED"
        /\ Unprotected(e)
    BY <1>1 DEF SealInv, PromisesHold, Promise
  <1>3. reserved \subseteq Holdout
    BY DEF SealInv, TypeOK
  <1>4. ~Atomic!Protected(e)
    BY <1>2, <1>3 DEF Atomic!Protected, Unprotected
  <1> QED BY <1>1, <1>2, <1>4 DEF Atomic!Train

LEMMA AtomicCommit ==
    ASSUME NEW w \in Worker, NEW c \in Commitment, CommitCommitment(w, c)
    PROVE  Atomic!Commit(c)
  BY DEF CommitCommitment, Commits, Atomic!Commit

LEMMA AtomicExamine ==
    ASSUME NEW e \in Evaluation, NEW shape \in {"PLANNED", "OTHER"},
           NEW members \in SUBSET Commitment, OpenEvaluation(e, shape, members)
    PROVE  Atomic!Examine(e, shape, members)
  <1>1. /\ evaluation[e].state = "NONE"
        /\ members \subseteq made
        /\ evaluation' = [evaluation EXCEPT ![e] =
                              [state |-> "OPEN", shape |-> shape, members |-> members]]
        /\ UNCHANGED <<reserved, opened, made, seen, settled, trained>>
    BY DEF OpenEvaluation
  <1>2. ASSUME shape = "PLANNED", NEW h \in Holdout, e \in Planned[h]
        PROVE  members \subseteq
                   [g \in Holdout |-> {c \in Commitment : RunOf[c] = Future[g]}][h]
    BY <1>2 DEF OpenEvaluation
  <1> QED BY <1>1, <1>2 DEF Atomic!Examine

\* What neither begins nor ends a transaction of the promise changes none of it.
LEMMA AtomicStutters ==
    ASSUME \/ \E w \in Worker :
                  \/ \E h \in Holdout : BeginReservation(w, h) \/ BeginOpening(w, h)
                  \/ \E c \in Commitment :
                         BeginCommitment(w, c) \/ BeginPreparation(w, c) \/ BeginSettlement(w, c)
                  \/ \E e \in Evaluation : BeginAcquisition(w, e) \/ BeginTraining(w, e)
                  \/ \E h \in Holdout : FindUnblocked(w, Future[h]) \/ BindRuntime(w, Future[h])
                  \/ Rollback(w)
           \/ ExtendCalendar
           \/ UNCHANGED vars
    PROVE  UNCHANGED Atomic!sealVars
  BY DEF BeginReservation, BeginOpening, BeginCommitment, BeginPreparation, BeginSettlement,
         BeginAcquisition, BeginTraining, FindUnblocked, BindRuntime, Rollback, ExtendCalendar,
         Begin, facts, vars, Atomic!sealVars

\* Every step of the locks, the snapshots and the commits is a step of the atomic
\* specification or none: transactions that overlap have the effects of
\* transactions that do not.
THEOREM SealIsAtomic == Spec => ImplementsAtomicSeal
  <1>1. Init => Atomic!AtomicInit
    BY DEF Init, Atomic!AtomicInit
  <1>2. ASSUME SealInv, [Next]_vars
        PROVE  Atomic!AtomicNext \/ UNCHANGED Atomic!sealVars
    <2>1. ASSUME NEW w \in Worker, NEW h \in Holdout, HoldoutStep(w, h)
          PROVE  Atomic!AtomicNext \/ UNCHANGED Atomic!sealVars
      BY <1>2, <2>1, AtomicReserve, AtomicOpen, AtomicStutters DEF HoldoutStep, Atomic!AtomicNext
    <2>2. ASSUME NEW w \in Worker, NEW c \in Commitment, CommitmentStep(w, c)
          PROVE  Atomic!AtomicNext \/ UNCHANGED Atomic!sealVars
      BY <1>2, <2>2, AtomicCommit, AtomicRead, AtomicSettle, AtomicStutters
         DEF CommitmentStep, Atomic!AtomicNext
    <2>3. ASSUME NEW w \in Worker, NEW e \in Evaluation, EvaluationStep(w, e)
          PROVE  Atomic!AtomicNext \/ UNCHANGED Atomic!sealVars
      BY <1>2, <2>3, AtomicAcquire, AtomicTrain, AtomicStutters
         DEF EvaluationStep, Atomic!AtomicNext
    <2>4. ASSUME NEW e \in Evaluation, NEW shape \in {"PLANNED", "OTHER"},
                 NEW members \in SUBSET Commitment, OpenEvaluation(e, shape, members)
          PROVE  Atomic!AtomicNext
      BY <2>4, AtomicExamine DEF Atomic!AtomicNext
    <2>5. ASSUME NEW e \in Evaluation, Complete(e)
          PROVE  Atomic!AtomicNext
      BY <2>5 DEF Complete, Atomic!Complete, Atomic!AtomicNext
    <2>6. CASE UNCHANGED vars
      BY <2>6, AtomicStutters
    <2> QED BY <1>2, <2>1, <2>2, <2>3, <2>4, <2>5, <2>6, AtomicStutters DEF Next
  <1>3. SealInv /\ [Next]_vars => [Atomic!AtomicNext]_(Atomic!sealVars)
    BY <1>2
  <1> QED BY <1>1, <1>3, SealInvariant, PTL DEF Spec, ImplementsAtomicSeal, Atomic!AtomicSpec
=============================================================================
