---------------------------- MODULE DeliveryProofs ----------------------------
(***************************************************************************)
(* The properties of DailyDelivery, for any number of processes, any       *)
(* budget and any number of sends per call.                                *)
(***************************************************************************)
EXTENDS DailyDelivery, StoreProofs

USE DEF AttemptNo

-----------------------------------------------------------------------------
(* The invariant.  X, T and State are what the rows say of the report.     *)
HasClaim == {"START", "SEND", "PUBLISH", "FAIL"}

X        == stepState[Report]
T        == tried[Report]
State(n) == attempt[Report][n].state

\* What the rows say about each other and about the receipts.
RowsAgree ==
    /\ X = "PENDING" <=> runState[Delivery] = "QUEUED"
    /\ X = "PENDING" => T = 0
    /\ X = "WAITING" <=> runState[Delivery] = "WAITING"
    /\ X = "WAITING" => T > 0 /\ State(T) = "RECONCILIATION_REQUIRED"
    /\ started \subseteq 1..T
    /\ \A n \in started : State(n) \notin {"CLAIMED", "ABANDONED"}
    /\ \A n \in AttemptNo :
          State(n) \in {"RUNNING", "SUCCEEDED", "RECONCILIATION_REQUIRED"} => n \in started
    /\ \A k \in 1..(MaxBudget + 1) : claimed[k] # 0 => claimed[k] = k /\ k <= T

\* At most one response and one message; nothing of what has not started.
EffectsAgree ==
    \A n \in AttemptNo :
        /\ response[n] = <<>> \/ \E r \in Outcomes : response[n] = <<r>>
        /\ response[n] = <<"ACCEPTED">> <=> State(n) = "SUCCEEDED"
        /\ sent[n] \in {0, 1}
        /\ n \notin started => sent[n] = 0 /\ response[n] = <<>>

\* Nothing was sent under Attempt n, nor will be.
Settled(n) ==
    \/ n \notin started /\ State(n) # "CLAIMED"
    \/ ProvenAbsent(n)

\* A Step is tried again only when what was tried is settled.
TriedIsSettled ==
    \A n \in 1..T : n < T \/ X = "READY" => Settled(n)

\* Every Attempt that had to be reconciled has been, by its own resume, except
\* the last one; and the resume after the expiry is the last one.
ResumesAgree ==
    /\ 0 \in resumed => Expired
    /\ \A n \in 1..T : State(n) = "RECONCILIATION_REQUIRED" =>
          \/ n \in resumed \/ X = "FAILED"
          \/ n = T /\ (X = "WAITING" \/ 0 \in resumed)

\* Attempt n has brought no message to the reader.
Clean(n) ==
    \/ sent[n] = 0
    \/ ProvenAbsent(n)
    \/ \E p \in Proc : /\ call[p].pc = "PUBLISH" /\ call[p].claim = n
                       /\ call[p].result = "PROVEN_NOT_SENT"

\* If a message was taken, it was one, and the newest Attempt sent it.
TakenByNewest ==
    acceptances = 0 \/ (acceptances = 1 /\ T > 0 /\ ~Clean(T))

\* What a process knows at its point.
Knows(p) ==
    LET c == call[p] IN
    /\ c.pc \notin HasClaim => c.sends < MaxSends
    /\ c.pc = "INSPECT" => ~c.checked
    /\ c.pc \in HasClaim => c.claim \in 1..T
    /\ c.pc \in HasClaim \ {"START"} => c.claim \in started
    /\ c.pc = "CLAIM" => c.fence <= T
    /\ c.pc = "RESUME" =>
          /\ c.attempts \in 1..T
          /\ ProvenAbsent(c.attempts)
          /\ State(c.attempts) = "RECONCILIATION_REQUIRED"
          /\ c.leaving => Expired

\* A process may use its claim unless it lost the lock before START: it got
\* the claim by a replay then, and passes no check any more.
Claims(p) ==
    call[p].pc \in HasClaim /\ (call[p].pc = "START" => owner = p \/ call[p].checked)

Fresh(p) ==
    /\ Claims(p) /\ call[p].pc \in {"START", "SEND"} => sent[call[p].claim] = 0
    /\ Claims(p) /\ call[p].pc # "FAIL" => response[call[p].claim] = <<>>

OneUser ==
    \A p, q \in Proc : Claims(p) /\ Claims(q) /\ call[p].claim = call[q].claim => p = q

\* p is past the check before the resume that follows the expiry.
Leaving(p) == call[p].pc = "RESUME" /\ call[p].leaving /\ call[p].checked

\* The owner knows the newest Attempt.
OwnerIsCurrent ==
    \A p \in Proc : owner = p /\ call[p].pc = "CLAIM" =>
        call[p].fence = T /\ 0 \notin resumed /\ \A q \in Proc : ~Leaving(q)

LeaverIsCurrent(p) ==
    /\ call[p].pc = "RESUME" /\ call[p].leaving
    /\ owner = p \/ call[p].checked
    => call[p].attempts = T \/ X = "FAILED"

Types == StoreInv /\ TypeOK

GlobalInv == RowsAgree /\ EffectsAgree /\ TriedIsSettled /\ ResumesAgree

ProcessInv ==
    /\ \A p \in Proc : Knows(p) /\ Fresh(p) /\ LeaverIsCurrent(p)
    /\ OneUser
    /\ OwnerIsCurrent

Inv == Types /\ GlobalInv /\ ProcessInv /\ TakenByNewest

-----------------------------------------------------------------------------
(* What the commands of the store do to the rows of the report.            *)
SameStates  == \A k \in AttemptNo : State(k)' = State(k)
Marks(n, x) ==
    /\ attempt'[Report][n].state = x
    /\ \A k \in AttemptNo \ {n} : attempt'[Report][k].state = attempt[Report][k].state

LEMMA Basics ==
    /\ Report \in Step /\ Delivery \in Run /\ Report \in Remote
    /\ \A s \in Step : s = Report
    /\ Preds(Report) = {}
    /\ MaxBudget \in Nat /\ MaxAttempts[Report] \in 1..MaxBudget
  <1>1. Report \in Step /\ \A s \in Step : s = Report
    BY DeliveryAssumption
  <1>2. Preds(Report) = {}
    BY <1>1, PlanAssumption DEF Preds
  <1> QED BY <1>1, <1>2, DeliveryAssumption, PlanAssumption, BudgetAssumption DEF Delivery

\* The newest Attempt is the live one, if any.
LEMMA LiveIsNewest ==
    ASSUME Types, NEW n \in AttemptNo, current[Report] = n
    PROVE  n = T /\ State(n) = X /\ X \in LiveStates
  <1>1. n # 0
    BY Basics
  <1> QED BY <1>1, Basics DEF Types, StoreInv, CurrentAttemptIsTheLiveOne, LiveStep, T, X, State

LEMMA RowTypes ==
    ASSUME StoreTypeOK
    PROVE  /\ runState \in [Run -> RunStates] /\ stepState \in [Step -> StepStates]
           /\ tried \in [Step -> 0..MaxBudget] /\ overdue \in [Step -> BOOLEAN]
           /\ T \in 0..MaxBudget /\ T \in Nat /\ T <= MaxAttempts[Report]
           /\ attempt \in [Step -> [AttemptNo -> AttemptRows]]
  BY Basics DEF StoreTypeOK, T

LEMMA StartRunRow ==
    ASSUME Types, StartRun(Delivery)
    PROVE  /\ runState[Delivery] = "QUEUED" /\ runState'[Delivery] = "RUNNING"
           /\ X' = IF X = "PENDING" THEN "READY" ELSE X
           /\ T' = T /\ SameStates /\ overdue' = overdue
  BY Basics, RowTypes DEF StartRun, Types, TypeOK, X, T, State, SameStates, Delivery

\* The row of a new Attempt.
LEMMA NewRow ==
    ASSUME StoreTypeOK, NEW n \in AttemptNo, NEW x \in AttemptStates, NEW f \in Nat,
           attempt' = [attempt EXCEPT ![Report][n] = [state |-> x, fence |-> f]]
    PROVE  Marks(n, x)
  <1>1. attempt[Report] \in [AttemptNo -> AttemptRows]
    BY Basics DEF StoreTypeOK
  <1>2. attempt'[Report] = [attempt[Report] EXCEPT ![n] = [state |-> x, fence |-> f]]
    BY Basics DEF StoreTypeOK
  <1>3. /\ attempt'[Report][n] = [state |-> x, fence |-> f]
        /\ \A k \in AttemptNo \ {n} : attempt'[Report][k] = attempt[Report][k]
    BY <1>1, <1>2
  <1> QED BY <1>3 DEF Marks, State

LEMMA ClaimRow ==
    ASSUME Types, InsertClaim(Report)
    PROVE  /\ X' = "CLAIMED" /\ runState' = runState
           /\ T' = T + 1 /\ T + 1 \in AttemptNo
           /\ Marks(T + 1, "CLAIMED") /\ overdue' = overdue
  <1>1. T + 1 \in AttemptNo
    BY Basics, RowTypes DEF InsertClaim, Types, TypeOK, T
  <1>2. fence[Report] + 1 \in Nat
    BY Basics DEF Types, TypeOK, StoreTypeOK
  <1>3. Marks(T + 1, "CLAIMED")
    BY <1>1, <1>2, NewRow DEF InsertClaim, Types, TypeOK, T, AttemptStates, LiveStates
  <1>4. X' = "CLAIMED" /\ T' = T + 1
    BY Basics, RowTypes DEF InsertClaim, Types, TypeOK, X, T
  <1> QED BY <1>1, <1>3, <1>4 DEF InsertClaim

LEMMA StateOf ==
    ASSUME StoreTypeOK, NEW n \in AttemptNo, NEW x,
           attempt' = [attempt EXCEPT ![Report][n].state = x]
    PROVE  Marks(n, x)
  <1>1. /\ attempt[Report] \in [AttemptNo -> AttemptRows]
        /\ attempt[Report][n] \in AttemptRows
    BY Basics DEF StoreTypeOK
  <1>2. attempt'[Report][n] = [attempt[Report][n] EXCEPT !.state = x]
    BY <1>1, Basics DEF StoreTypeOK
  <1>3. \A k \in AttemptNo \ {n} : attempt'[Report][k] = attempt[Report][k]
    BY <1>1, Basics DEF StoreTypeOK
  <1>4. attempt'[Report][n].state = x
    BY <1>1, <1>2 DEF AttemptRows
  <1> QED BY <1>3, <1>4 DEF Marks, State

LEMMA BeginRow ==
    ASSUME Types, NEW n \in AttemptNo, StartAttempt(Report, n)
    PROVE  /\ n = T /\ State(n) = "CLAIMED" /\ X = "CLAIMED" /\ X' = "RUNNING"
           /\ runState' = runState /\ T' = T /\ Marks(n, "RUNNING") /\ overdue' = overdue
  <1>1. n = T /\ State(n) = "CLAIMED" /\ X = "CLAIMED"
    BY LiveIsNewest DEF StartAttempt, OwnsFence, X, State
  <1>2. Marks(n, "RUNNING")
    BY StateOf DEF StartAttempt, Types, TypeOK
  <1> QED BY <1>1, <1>2, Basics, RowTypes DEF StartAttempt, Types, TypeOK, X, T

LEMMA SucceedRow ==
    ASSUME Types, NEW n \in AttemptNo, SucceedAttempt(Report, n)
    PROVE  /\ n = T /\ State(n) = "RUNNING" /\ X = "RUNNING" /\ X' = "SUCCEEDED"
           /\ runState[Delivery] = "RUNNING" /\ runState'[Delivery] \in {"RUNNING", "SUCCEEDED"}
           /\ T' = T /\ Marks(n, "SUCCEEDED") /\ overdue' = overdue
  <1>1. n = T /\ State(n) = "RUNNING" /\ X = "RUNNING" /\ runState[Delivery] = "RUNNING"
    BY LiveIsNewest DEF SucceedAttempt, OwnsFence, X, State, Delivery
  <1>2. Marks(n, "SUCCEEDED")
    BY StateOf DEF SucceedAttempt, Close, Types, TypeOK
  <1>3. X' = "SUCCEEDED"
    BY Basics, RowTypes DEF SucceedAttempt, ReleaseSuccessors, Types, TypeOK, X
  <1>4. runState'[Delivery] \in {"RUNNING", "SUCCEEDED"}
    BY <1>1, Basics, RowTypes DEF SucceedAttempt, Types, TypeOK, Delivery
  <1> QED BY <1>1, <1>2, <1>3, <1>4 DEF SucceedAttempt, T

LEMMA FailRow ==
    ASSUME Types, NEW n \in AttemptNo, FailAttempt(Report, n, TRUE, FALSE)
    PROVE  /\ n = T /\ State(n) = "RUNNING" /\ X = "RUNNING" /\ X' = "WAITING"
           /\ runState[Delivery] = "RUNNING" /\ runState'[Delivery] = "WAITING"
           /\ T' = T /\ Marks(n, "RECONCILIATION_REQUIRED") /\ overdue' = overdue
  <1>1. n = T /\ State(n) = "RUNNING" /\ X = "RUNNING" /\ runState[Delivery] = "RUNNING"
    BY LiveIsNewest DEF FailAttempt, OwnsFence, X, State, Delivery
  <1>2. /\ Close(Report, n, "RECONCILIATION_REQUIRED")
        /\ stepState' = [stepState EXCEPT ![Report] = "WAITING"]
        /\ runState' = [runState EXCEPT ![Delivery] = "WAITING"]
        /\ UNCHANGED <<tried, overdue>>
    BY Basics DEF FailAttempt, Delivery
  <1>3. Marks(n, "RECONCILIATION_REQUIRED")
    BY <1>2, StateOf DEF Close, Types, TypeOK
  <1> QED BY <1>1, <1>2, <1>3, Basics, RowTypes DEF Types, TypeOK, X, T

LEMMA RecoverRow ==
    ASSUME Types, NEW n \in AttemptNo, RecoverExpired(Report, n)
    PROVE  /\ n = T /\ State(n) = X /\ T' = T /\ overdue' = overdue
           /\ runState[Delivery] = "RUNNING"
           /\ \/ /\ X = "CLAIMED" /\ X' = "READY" /\ runState'[Delivery] = "RUNNING"
                 /\ Marks(n, "ABANDONED")
              \/ /\ X = "RUNNING" /\ X' = "WAITING" /\ runState'[Delivery] = "WAITING"
                 /\ Marks(n, "RECONCILIATION_REQUIRED")
  <1> DEFINE v == RecoveryVerdict(Report, n)
  <1>1. /\ n = T /\ State(n) = X /\ X \in LiveStates /\ runState[Delivery] = "RUNNING"
    BY LiveIsNewest DEF RecoverExpired, ExpiredAttempt, Delivery
  <1>2. \/ v = "READY" /\ X = "CLAIMED"
        \/ v = "WAITING" /\ X = "RUNNING"
    BY <1>1, Basics
    DEF RecoverExpired, RecoveryAllowed, RecoveryVerdict, StepEdges, X, State, LiveStates
  <1>3. /\ Close(Report, n, IF v = "WAITING" THEN "RECONCILIATION_REQUIRED" ELSE "ABANDONED")
        /\ stepState' = [stepState EXCEPT ![Report] = v]
        /\ runState' = IF v = "READY" THEN runState ELSE [runState EXCEPT ![Delivery] = v]
        /\ UNCHANGED <<tried, overdue>>
    BY DEF RecoverExpired, Delivery
  <1> HIDE DEF v
  <1>4. Marks(n, IF v = "WAITING" THEN "RECONCILIATION_REQUIRED" ELSE "ABANDONED")
    BY <1>3, StateOf DEF Close, Types, TypeOK
  <1> QED BY <1>1, <1>2, <1>3, <1>4, Basics, RowTypes DEF Types, TypeOK, X, T

LEMMA ExpireRow ==
    ASSUME Types, RowsAgree, ExpireDeadline(Report)
    PROVE  /\ X = "READY" /\ X' = "FAILED" /\ overdue' = overdue
           /\ runState[Delivery] = "RUNNING" /\ runState'[Delivery] = "FAILED"
           /\ T' = T + 1 /\ T + 1 \in AttemptNo /\ Marks(T + 1, "FAILED_TERMINAL")
  <1>1. T + 1 \in AttemptNo
    BY Basics, RowTypes DEF ExpireDeadline, Types, TypeOK, T
  <1>2. X = "READY" /\ runState[Delivery] = "RUNNING"
    BY DEF ExpireDeadline, DeadlineExpired, RowsAgree, X, Delivery
  <1>3. fence[Report] + 1 \in Nat
    BY Basics DEF Types, TypeOK, StoreTypeOK
  <1>4. Marks(T + 1, "FAILED_TERMINAL")
    BY <1>1, <1>3, NewRow DEF ExpireDeadline, Types, TypeOK, T, AttemptStates
  <1>5. /\ X' = "FAILED" /\ T' = T + 1 /\ overdue' = overdue
        /\ runState'[Delivery] = "FAILED"
    BY Basics, RowTypes DEF ExpireDeadline, Types, TypeOK, X, T, Delivery
  <1> QED BY <1>1, <1>2, <1>4, <1>5

LEMMA ResumeRow ==
    ASSUME Types, ResumeWaiting(Report)
    PROVE  /\ X = "WAITING" /\ X' = "READY"
           /\ runState[Delivery] = "WAITING" /\ runState'[Delivery] = "RUNNING"
           /\ T' = T /\ SameStates /\ overdue' = overdue
  BY Basics, RowTypes DEF ResumeWaiting, Types, TypeOK, X, T, State, SameStates, Delivery

-----------------------------------------------------------------------------
(* How a process moves.                                                    *)

\* Process p moves, and the other processes do not.
Moves(p) == call' \in [Proc -> Calls] /\ \A q \in Proc \ {p} : call'[q] = call[q]

LEMMA OutsideIsCall == Outside \in Calls
  BY Basics, DeliveryAssumption DEF Outside, Calls, Outcomes, Guarded

LEMMA ReturnMoves ==
    ASSUME Types, NEW p \in Proc, Return(p)
    PROVE  Moves(p) /\ call'[p] = Outside
  BY OutsideIsCall DEF Types, TypeOK, Return, Moves

LEMMA GotoMoves ==
    ASSUME Types, NEW p \in Proc, NEW pc \in Guarded \cup {"INSPECT"}, Goto(p, pc)
    PROVE  /\ Moves(p) /\ call'[p].pc = pc /\ call'[p].checked = FALSE
           /\ call'[p].fence = call[p].fence /\ call'[p].attempts = call[p].attempts
           /\ call'[p].leaving = call[p].leaving /\ call'[p].claim = call[p].claim
           /\ call'[p].result = call[p].result /\ call'[p].sends = call[p].sends
  <1> DEFINE c == [call[p] EXCEPT !.pc = pc, !.checked = FALSE]
  <1>1. call[p] \in Calls
    BY DEF Types, TypeOK
  <1>2. /\ c \in Calls /\ c.pc = pc /\ c.checked = FALSE
        /\ c.fence = call[p].fence /\ c.attempts = call[p].attempts
        /\ c.leaving = call[p].leaving /\ c.claim = call[p].claim
        /\ c.result = call[p].result /\ c.sends = call[p].sends
    BY <1>1 DEF Calls
  <1>3. call' = [call EXCEPT ![p] = c]
    BY DEF Goto
  <1> HIDE DEF c
  <1> QED BY <1>2, <1>3 DEF Types, TypeOK, Moves

LEMMA CallTypes ==
    ASSUME Types, NEW p \in Proc
    PROVE  /\ call[p] \in Calls
           /\ call[p].pc \in Guarded \cup {"OUT", "INSPECT"}
           /\ call[p].checked \in BOOLEAN /\ call[p].leaving \in BOOLEAN
           /\ call[p].fence \in Nat /\ call[p].attempts \in 0..MaxBudget
           /\ call[p].claim \in 0..MaxBudget /\ call[p].result \in Outcomes
           /\ call[p].sends \in 0..MaxSends /\ MaxSends \in 1..3
  BY DeliveryAssumption DEF Types, TypeOK, Calls

-----------------------------------------------------------------------------
(* A step of process p, seen from the other processes.                     *)

\* What has been said of an Attempt is not taken back.
Onward ==
    /\ T <= T' /\ started \subseteq started'
    /\ \A n \in AttemptNo :
          /\ State(n) = "RECONCILIATION_REQUIRED" => State(n)' = "RECONCILIATION_REQUIRED"
          /\ ProvenAbsent(n) => ProvenAbsent(n)'
    /\ Expired => Expired'
    /\ X = "FAILED" => X' = "FAILED"

\* Only an owner makes an Attempt, only who is past its check at the leaving
\* resume writes that receipt, and only who holds a claim sends under it.
Apart(p) ==
    /\ \A q \in Proc \ {p} : owner' = q => owner = q
    /\ Leaving(p)' => Leaving(p) \/ owner' = p
    /\ T' = T \/ (owner = p /\ (X' = "FAILED" \/ call[p].pc = "CLAIM"))
    /\ 0 \in resumed' => 0 \in resumed \/ Leaving(p)
    /\ \A n \in AttemptNo :
          \/ sent'[n] = sent[n] /\ response'[n] = response[n]
          \/ Claims(p) /\ n = call[p].claim

LEMMA KnowsStays ==
    ASSUME Types, Types', Onward, NEW q \in Proc, Knows(q),
           call'[q].pc = call[q].pc, call'[q].sends = call[q].sends,
           call'[q].pc = "INSPECT" => call'[q].checked = call[q].checked,
           call'[q].claim = call[q].claim, call'[q].fence = call[q].fence,
           call'[q].attempts = call[q].attempts, call'[q].leaving = call[q].leaving
    PROVE  Knows(q)'
  <1>1. T \in Nat /\ T' \in Nat /\ T <= MaxBudget
    BY RowTypes, Basics DEF Types, TypeOK, StoreTypeOK, T
  <1>2. call[q].pc \in HasClaim => call[q].claim \in 1..T'
    BY <1>1, CallTypes DEF Knows, Onward
  <1>3. call[q].pc \in HasClaim \ {"START"} => call[q].claim \in started'
    BY DEF Knows, Onward
  <1>4. call[q].pc = "CLAIM" => call[q].fence <= T'
    BY <1>1, CallTypes DEF Knows, Onward
  <1>5. ASSUME call[q].pc = "RESUME"
        PROVE  /\ call[q].attempts \in 1..T'
               /\ ProvenAbsent(call[q].attempts)'
               /\ State(call[q].attempts)' = "RECONCILIATION_REQUIRED"
               /\ call[q].leaving => Expired'
    <2>1. call[q].attempts \in 1..T /\ call[q].attempts \in AttemptNo
      BY <1>1, <1>5, CallTypes, Basics DEF Knows
    <2> QED BY <1>1, <1>5, <2>1 DEF Knows, Onward
  <1> QED BY <1>2, <1>3, <1>4, <1>5 DEF Knows, ProvenAbsent, State

LEMMA OthersKeep ==
    ASSUME Types, Types', ProcessInv, NEW p \in Proc, Moves(p), Onward, Apart(p),
           NEW q \in Proc \ {p}
    PROVE  /\ Knows(q)' /\ Fresh(q)' /\ LeaverIsCurrent(q)'
           /\ Claims(q)' => Claims(q)
           /\ Leaving(q)' => Leaving(q)
           /\ owner' = q /\ call'[q].pc = "CLAIM" =>
                 call'[q].fence = T' /\ 0 \notin resumed' /\ ~Leaving(p)'
  <1>1. call'[q] = call[q] /\ (owner' = q => owner = q)
    BY DEF Moves, Apart
  <1>2. Knows(q)'
    BY <1>1, KnowsStays DEF ProcessInv
  <1>3. (Claims(q)' => Claims(q)) /\ (Leaving(q)' => Leaving(q))
    BY <1>1 DEF Claims, Leaving
  <1>4. Claims(q) => call[q].claim \in AttemptNo
    <2>1. T \in Nat /\ T <= MaxBudget
      BY RowTypes, Basics DEF Types, TypeOK
    <2> QED BY <2>1, Basics DEF ProcessInv, Knows, Claims
  <1>5. Claims(q) => /\ sent'[call[q].claim] = sent[call[q].claim]
                     /\ response'[call[q].claim] = response[call[q].claim]
    BY <1>4 DEF ProcessInv, OneUser, Apart
  <1>6. Fresh(q)'
    BY <1>1, <1>3, <1>5 DEF ProcessInv, Fresh
  <1>7. LeaverIsCurrent(q)'
    BY <1>1 DEF ProcessInv, LeaverIsCurrent, OwnerIsCurrent, Leaving, Apart, Onward
  <1>8. owner' = q /\ call'[q].pc = "CLAIM" =>
           call'[q].fence = T' /\ 0 \notin resumed' /\ ~Leaving(p)'
    BY <1>1 DEF ProcessInv, OwnerIsCurrent, Apart
  <1> QED BY <1>2, <1>3, <1>6, <1>7, <1>8

LEMMA ProcessStep ==
    ASSUME Types, Types', ProcessInv, NEW p \in Proc, Moves(p), Onward, Apart(p),
           Knows(p)', Fresh(p)', LeaverIsCurrent(p)',
           \A q \in Proc \ {p} :
              Claims(p)' /\ Claims(q) => call'[p].claim # call[q].claim,
           owner' = p /\ call'[p].pc = "CLAIM" =>
              /\ call'[p].fence = T' /\ 0 \notin resumed'
              /\ \A q \in Proc \ {p} : ~Leaving(q)
    PROVE  ProcessInv'
  <1>1. \A q \in Proc : Knows(q)' /\ Fresh(q)' /\ LeaverIsCurrent(q)'
    BY OthersKeep
  <1>2. OneUser'
    <2> SUFFICES ASSUME NEW q \in Proc, NEW r \in Proc, Claims(q)', Claims(r)',
                        call'[q].claim = call'[r].claim
                 PROVE  q = r
      BY DEF OneUser
    <2>1. CASE q # p /\ r # p
      BY <2>1, OthersKeep DEF ProcessInv, OneUser, Moves
    <2>2. CASE q = p /\ r # p
      BY <2>2, OthersKeep DEF Moves
    <2>3. CASE q # p /\ r = p
      BY <2>3, OthersKeep DEF Moves
    <2> QED BY <2>1, <2>2, <2>3
  <1>3. OwnerIsCurrent'
    <2> SUFFICES ASSUME NEW q \in Proc, owner' = q, call'[q].pc = "CLAIM"
                 PROVE  call'[q].fence = T' /\ 0 \notin resumed' /\ \A r \in Proc : ~Leaving(r)'
      BY DEF OwnerIsCurrent, Leaving
    <2>1. CASE q = p
      BY <2>1, OthersKeep DEF Leaving
    <2>2. CASE q # p
      <3>1. \A r \in Proc \ {p} : ~Leaving(r)'
        BY <2>2, OthersKeep DEF ProcessInv, OwnerIsCurrent, Apart, Moves
      <3> QED BY <2>2, <3>1, OthersKeep
    <2> QED BY <2>1, <2>2
  <1> QED BY <1>1, <1>2, <1>3 DEF ProcessInv

\* p ends at a point where it neither claims nor resumes.
LEMMA PlainKeeps ==
    ASSUME Types, Types', ProcessInv, NEW p \in Proc, Moves(p), Onward, Apart(p),
           call'[p].pc \notin HasClaim \cup {"CLAIM", "RESUME"},
           call'[p].sends < MaxSends, call'[p].pc = "INSPECT" => ~call'[p].checked
    PROVE  ProcessInv'
  <1>1. Knows(p)' /\ Fresh(p)' /\ LeaverIsCurrent(p)' /\ ~Claims(p)'
    BY DEF Knows, Fresh, LeaverIsCurrent, Claims
  <1> QED BY <1>1, ProcessStep

-----------------------------------------------------------------------------
(* Steps that leave the rows alone.                                        *)
LEMMA GlobalStill ==
    ASSUME Types, Types', GlobalInv, Expired => Expired',
           UNCHANGED <<runState, stepState, tried, attempt, keyVars, response, sent>>
    PROVE  GlobalInv' /\ Onward
  <1>1. X' = X /\ T' = T /\ T \in Nat /\ \A n : State(n)' = State(n)
    BY RowTypes DEF Types, TypeOK, X, T, State
  <1>2. \A n : (ProvenAbsent(n)' <=> ProvenAbsent(n)) /\ (Settled(n)' <=> Settled(n))
    BY <1>1 DEF ProvenAbsent, Settled, keyVars
  <1>3. RowsAgree' /\ EffectsAgree'
    BY <1>1 DEF GlobalInv, RowsAgree, EffectsAgree, keyVars, State, X, T
  <1>4. TriedIsSettled'
    BY <1>1, <1>2 DEF GlobalInv, TriedIsSettled
  <1>5. ResumesAgree'
    BY <1>1 DEF GlobalInv, ResumesAgree, keyVars, State
  <1>6. Onward
    BY <1>1, <1>2 DEF Onward, keyVars
  <1> QED BY <1>3, <1>4, <1>5, <1>6 DEF GlobalInv

\* What a message was sent for is not forgotten.
LEMMA TakenStays ==
    ASSUME Types, TakenByNewest, NEW p \in Proc, Moves(p), acceptances' = acceptances,
           T' = T,
           T > 0 => /\ sent'[T] = sent[T]
                    /\ ProvenAbsent(T)' => Clean(T)
                    /\ (/\ call'[p].pc = "PUBLISH" /\ call'[p].claim = T
                        /\ call'[p].result = "PROVEN_NOT_SENT") => Clean(T)
    PROVE  TakenByNewest'
  <1>1. acceptances = 0 \/ (acceptances = 1 /\ T > 0 /\ ~Clean(T))
    BY DEF TakenByNewest
  <1>2. CASE acceptances = 0
    BY <1>2 DEF TakenByNewest
  <1>3. CASE acceptances = 1 /\ T > 0 /\ ~Clean(T)
    <2>1. sent'[T] # 0 /\ ~ProvenAbsent(T)'
      BY <1>3 DEF Clean
    <2>2. ASSUME NEW q \in Proc, call'[q].pc = "PUBLISH", call'[q].claim = T,
                 call'[q].result = "PROVEN_NOT_SENT"
          PROVE  FALSE
      BY <1>3, <2>2 DEF Clean, Moves
    <2>3. ~Clean(T)'
      BY <2>1, <2>2 DEF Clean, ProvenAbsent, T
    <2> QED BY <1>3, <2>3 DEF TakenByNewest
  <1> QED BY <1>1, <1>2, <1>3

\* Nothing was taken while the newest Attempt is clean.
LEMMA TakenNone ==
    ASSUME TakenByNewest, T > 0 => Clean(T)
    PROVE  acceptances = 0
  BY DEF TakenByNewest

LEMMA Quiet ==
    ASSUME Inv, NEW p \in Proc, Moves(p),
           UNCHANGED <<storeVars, begun, keyVars, response, remoteVars>>,
           registered' \in BOOLEAN, owner' \in Proc \cup {NoProc},
           \A q \in Proc \ {p} : owner' = q => owner = q,
           Leaving(p)' => Leaving(p) \/ owner' = p,
           (/\ call'[p].pc = "PUBLISH" /\ call'[p].claim = T
            /\ call'[p].result = "PROVEN_NOT_SENT") => Clean(T)
    PROVE  /\ Types' /\ GlobalInv' /\ Onward /\ Apart(p) /\ TakenByNewest'
           /\ T' = T /\ X' = X
  <1>1. StoreInv' /\ StoreTypeOK'
    BY DEF Inv, Types, StoreInv, StoreTypeOK, OneLiveStepPerRun, CurrentAttemptIsTheLiveOne,
           FencesGrow, LiveRunIsRunning, LiveStep, storeVars
  <1>2. Types'
    BY <1>1 DEF Inv, Types, TypeOK, Moves, keyVars, remoteVars
  <1>3. (Expired => Expired') /\ T' = T /\ X' = X
    BY DEF Expired, storeVars, X, T
  <1>4. GlobalInv' /\ Onward
    BY <1>2, <1>3, GlobalStill DEF Inv, storeVars, remoteVars
  <1>5. Apart(p)
    BY <1>3 DEF Apart, keyVars, remoteVars
  <1>6. TakenByNewest'
    <2>1. ProvenAbsent(T)' => Clean(T)
      BY <1>3 DEF ProvenAbsent, Clean, T
    <2> QED BY <1>3, <2>1, TakenStays DEF Inv, remoteVars
  <1> QED BY <1>2, <1>3, <1>4, <1>5, <1>6

LEMMA QuietPlain ==
    ASSUME Inv, NEW p \in Proc, Moves(p),
           UNCHANGED <<storeVars, begun, keyVars, response, remoteVars>>,
           registered' \in BOOLEAN, owner' \in Proc \cup {NoProc},
           \A q \in Proc \ {p} : owner' = q => owner = q,
           call'[p].pc \notin HasClaim \cup {"CLAIM", "RESUME"},
           call'[p].sends < MaxSends, call'[p].pc = "INSPECT" => ~call'[p].checked
    PROVE  Inv'
  <1>1. /\ Types' /\ GlobalInv' /\ Onward /\ Apart(p) /\ TakenByNewest'
    BY Quiet DEF Leaving, HasClaim
  <1> QED BY <1>1, PlainKeeps DEF Inv

LEMMA QuietReturn ==
    ASSUME Inv, NEW p \in Proc, Return(p),
           UNCHANGED <<storeVars, begun, registered, keyVars, response, remoteVars>>,
           owner' \in Proc \cup {NoProc}, \A q \in Proc \ {p} : owner' = q => owner = q
    PROVE  Inv'
  <1>1. Moves(p) /\ call'[p].pc = "OUT" /\ call'[p].sends < MaxSends
    BY ReturnMoves, DeliveryAssumption DEF Inv, Outside
  <1> QED BY <1>1, QuietPlain DEF HasClaim, Inv, Types, TypeOK

LEMMA QuietGoto ==
    ASSUME Inv, NEW p \in Proc,
           NEW pc \in (Guarded \cup {"INSPECT"}) \ (HasClaim \cup {"CLAIM", "RESUME"}),
           Goto(p, pc), call[p].sends < MaxSends,
           UNCHANGED <<storeVars, begun, owner, keyVars, response, remoteVars>>,
           registered' \in BOOLEAN
    PROVE  Inv'
  <1>1. /\ Moves(p) /\ call'[p].pc = pc /\ call'[p].sends = call[p].sends
        /\ call'[p].checked = FALSE
    BY GotoMoves DEF Inv
  <1> QED BY <1>1, QuietPlain DEF Inv, Types, TypeOK

\* p stays where it is, and may have looked at the lock.
LEMMA QuietSame ==
    ASSUME Inv, NEW p \in Proc, Moves(p),
           UNCHANGED <<storeVars, begun, registered, keyVars, response, remoteVars>>,
           owner' \in {owner, NoProc},
           call'[p].pc = call[p].pc, call'[p].sends = call[p].sends,
           call'[p].claim = call[p].claim, call'[p].fence = call[p].fence,
           call'[p].attempts = call[p].attempts, call'[p].leaving = call[p].leaving,
           call'[p].result = call[p].result,
           \/ call'[p].checked = call[p].checked
           \/ call'[p].checked /\ owner = p /\ owner' = p /\ call[p].pc # "INSPECT"
    PROVE  Inv'
  <1>0. NoProc \notin Proc
    BY DeliveryAssumption
  <1>1. /\ Types' /\ GlobalInv' /\ Onward /\ Apart(p) /\ TakenByNewest' /\ T' = T /\ X' = X
    BY <1>0, Quiet DEF Leaving, Clean, Inv, Types, TypeOK
  <1>2. Knows(p)'
    BY <1>1, KnowsStays DEF Inv, ProcessInv
  <1>3. Claims(p)' => Claims(p)
    BY <1>0 DEF Claims
  <1>4. Fresh(p)'
    BY <1>3 DEF Inv, ProcessInv, Fresh, remoteVars
  <1>5. LeaverIsCurrent(p)'
    BY <1>0, <1>1 DEF Inv, ProcessInv, LeaverIsCurrent
  <1>6. owner' = p /\ call'[p].pc = "CLAIM" =>
          /\ call'[p].fence = T' /\ 0 \notin resumed'
          /\ \A q \in Proc \ {p} : ~Leaving(q)
    BY <1>0, <1>1 DEF Inv, ProcessInv, OwnerIsCurrent, keyVars
  <1>7. ProcessInv'
    BY <1>1, <1>2, <1>3, <1>4, <1>5, <1>6, ProcessStep DEF Inv, ProcessInv, OneUser
  <1> QED BY <1>1, <1>7 DEF Inv

LEMMA AcquireKeeps ==
    ASSUME Inv, NEW p \in Proc, Acquire(p)
    PROVE  Inv'
  <1>1. Moves(p) /\ call'[p] = Outside /\ Outside.pc = "OUT" /\ Outside.sends < MaxSends
    BY DeliveryAssumption DEF Acquire, Moves, Inv, Types, TypeOK, Outside
  <1> QED BY <1>1, QuietPlain DEF Acquire, HasClaim, Inv, Types, TypeOK

LEMMA LoseLockKeeps ==
    ASSUME Inv, NEW p \in Proc, LoseLock(p)
    PROVE  Inv'
  <1>1. Moves(p) /\ call' = call
    BY DEF LoseLock, Moves, Inv, Types, TypeOK
  <1> QED BY <1>1, QuietSame DEF LoseLock

LEMMA CrashKeeps ==
    ASSUME Inv, NEW p \in Proc, Crash(p)
    PROVE  Inv'
  BY QuietReturn, DeliveryAssumption DEF Crash, Inv, Types, TypeOK

LEMMA CheckKeeps ==
    ASSUME Inv, NEW p \in Proc, Check(p)
    PROVE  Inv'
  <1>1. CASE Owns(p) /\ call' = [call EXCEPT ![p].checked = TRUE]
    <2> DEFINE c == [call[p] EXCEPT !.checked = TRUE]
    <2>1. call[p] \in Calls
      BY DEF Inv, Types, TypeOK
    <2>2. /\ c \in Calls /\ c.checked /\ c.pc = call[p].pc /\ c.sends = call[p].sends
          /\ c.claim = call[p].claim /\ c.fence = call[p].fence
          /\ c.attempts = call[p].attempts /\ c.leaving = call[p].leaving
          /\ c.result = call[p].result
      BY <2>1 DEF Calls
    <2>3. call' = [call EXCEPT ![p] = c]
      BY <1>1
    <2> HIDE DEF c
    <2>4. Moves(p) /\ call'[p] = c
      BY <2>2, <2>3 DEF Inv, Types, TypeOK, Moves
    <2>5. owner = p /\ owner' = p /\ call[p].pc # "INSPECT"
      BY <1>1 DEF Check, Owns, Guarded
    <2> QED BY <2>2, <2>4, <2>5, QuietSame DEF Check
  <1>2. CASE Return(p)
    BY <1>2, QuietReturn DEF Check, Inv, Types, TypeOK
  <1> QED BY <1>1, <1>2 DEF Check

LEMMA EnterKeeps ==
    ASSUME Inv, NEW p \in Proc, Enter(p)
    PROVE  Inv'
  <1>1. call[p].sends < MaxSends
    BY DeliveryAssumption DEF Enter, Outside
  <1> QED BY <1>1, QuietGoto DEF Enter, Guarded, HasClaim, Inv, Types, TypeOK

LEMMA RegisterKeeps ==
    ASSUME Inv, NEW p \in Proc, Register(p)
    PROVE  Inv'
  <1>1. call[p].sends < MaxSends
    BY DEF Register, At, Inv, ProcessInv, Knows, HasClaim
  <1> QED BY <1>1, QuietGoto DEF Register, Guarded, HasClaim

-----------------------------------------------------------------------------
(* Steps that write the rows, before and after the Attempt runs.           *)

\* A step of p that writes rows and does not claim, send or publish.
LEMMA RowTypesKeep ==
    ASSUME Types, StoreInv', NEW p \in Proc, Moves(p),
           UNCHANGED <<owner, registered, begun, claimed, response, remoteVars>>,
           started' \subseteq AttemptNo, resumed' \subseteq 0..MaxBudget
    PROVE  Types'
  BY DEF Types, TypeOK, StoreInv, Moves, remoteVars

LEMMA NumberFacts ==
    ASSUME Types
    PROVE  /\ T \in Nat /\ T <= MaxBudget /\ MaxBudget \in Nat
           /\ \A n \in 1..T : n \in AttemptNo
           /\ T > 0 => T \in AttemptNo /\ T \in 1..T
           /\ fence[Report] = T /\ \A n \in AttemptNo : State(n) = "ABSENT" <=> n > T
  BY RowTypes, Basics DEF Types, TypeOK, StoreInv, FencesGrow, T, State

LEMMA StartDeliveryKeeps ==
    ASSUME Inv, NEW p \in Proc, StartDelivery(p)
    PROVE  Inv'
  <1>0. call[p].sends < MaxSends
    BY DEF StartDelivery, At, Inv, ProcessInv, Knows, HasClaim
  <1>1. CASE StartRun(Delivery)
    <2>1. /\ Moves(p) /\ call'[p].pc = "RECOVER" /\ call'[p].sends = call[p].sends
      BY GotoMoves DEF StartDelivery, Guarded, Inv
    <2>2. /\ X = "PENDING" /\ X' = "READY" /\ T' = T /\ SameStates /\ T = 0
          /\ runState'[Delivery] = "RUNNING" /\ overdue' = overdue
      BY <1>1, StartRunRow DEF Inv, GlobalInv, RowsAgree
    <2>3. StoreInv'
      BY <1>1, StartRunKeeps, Basics DEF Inv, Types
    <2>4. Types'
      BY <2>1, <2>3, RowTypesKeep DEF StartDelivery, Inv, Types, TypeOK, keyVars
    <2>5. (Expired <=> Expired') /\ \A n : ProvenAbsent(n)' <=> ProvenAbsent(n)
      BY <2>2 DEF StartDelivery, Expired, ProvenAbsent
    <2>6. RowsAgree'
      BY <2>2 DEF StartDelivery, Inv, GlobalInv, RowsAgree, SameStates, keyVars
    <2>7. EffectsAgree'
      BY <2>2 DEF StartDelivery, Inv, GlobalInv, EffectsAgree, SameStates, keyVars, remoteVars
    <2>8. TriedIsSettled' /\ ResumesAgree'
      BY <2>2, <2>5 DEF StartDelivery, Inv, GlobalInv, TriedIsSettled, ResumesAgree, keyVars
    <2>9. Onward
      BY <2>2, <2>5 DEF StartDelivery, Onward, SameStates, keyVars
    <2>10. Apart(p)
      BY <2>1, <2>2 DEF StartDelivery, Apart, Leaving, keyVars, remoteVars
    <2>11. TakenByNewest'
      BY <2>1, <2>2, TakenStays DEF StartDelivery, Inv, remoteVars
    <2>12. ProcessInv'
      BY <1>0, <2>1, <2>4, <2>9, <2>10, PlainKeeps DEF Inv, HasClaim
    <2> QED BY <2>4, <2>6, <2>7, <2>8, <2>11, <2>12 DEF Inv, GlobalInv
  <1>2. CASE UNCHANGED storeVars
    BY <1>0, <1>2, QuietGoto DEF StartDelivery, Guarded, HasClaim, Inv, Types, TypeOK
  <1> QED BY <1>1, <1>2 DEF StartDelivery

\* Attempt T leaves its live state, to be tried again or reconciled.
LEMMA LeaveRows ==
    ASSUME Types, GlobalInv, T \in AttemptNo, T' = T, Expired => Expired',
           UNCHANGED <<keyVars, response, sent>>,
           \/ /\ X = "CLAIMED" /\ X' = "READY" /\ runState'[Delivery] = "RUNNING"
              /\ State(T) = "CLAIMED" /\ Marks(T, "ABANDONED")
           \/ /\ X = "RUNNING" /\ X' = "WAITING" /\ runState'[Delivery] = "WAITING"
              /\ State(T) = "RUNNING" /\ Marks(T, "RECONCILIATION_REQUIRED")
    PROVE  GlobalInv' /\ Onward
  <1>1. \A n : ProvenAbsent(n)' <=> ProvenAbsent(n)
    BY DEF ProvenAbsent
  <1>2. T \in Nat /\ T > 0 /\ \A n \in 1..T : n \in AttemptNo
    BY NumberFacts
  <1>3. RowsAgree'
    BY <1>2 DEF GlobalInv, RowsAgree, Marks, State, keyVars
  <1>4. EffectsAgree'
    BY DEF GlobalInv, EffectsAgree, Marks, State, keyVars
  <1>5. TriedIsSettled'
    <2> SUFFICES ASSUME NEW n \in 1..T, n < T \/ X' = "READY"
                 PROVE  Settled(n)'
      BY DEF TriedIsSettled
    <2>1. CASE n # T
      BY <1>1, <1>2, <2>1 DEF GlobalInv, TriedIsSettled, Settled, Marks, State, keyVars
    <2>2. CASE n = T
      BY <1>2, <2>2 DEF GlobalInv, RowsAgree, Settled, Marks, State, keyVars
    <2> QED BY <2>1, <2>2
  <1>6. ResumesAgree'
    BY <1>2 DEF GlobalInv, ResumesAgree, Marks, State, keyVars
  <1>7. Onward
    BY <1>1, <1>2 DEF Onward, Marks, State, keyVars
  <1> QED BY <1>3, <1>4, <1>5, <1>6, <1>7 DEF GlobalInv

LEMMA RecoverKeepsInv ==
    ASSUME Inv, NEW p \in Proc, Recover(p)
    PROVE  Inv'
  <1> DEFINE n == current[Report]
  <1>0. call[p].sends < MaxSends
    BY DEF Recover, At, Inv, ProcessInv, Knows, HasClaim
  <1>1. CASE n # 0 /\ RecoverExpired(Report, n) /\ Goto(p, "EXPIRE")
    <2>1. n \in AttemptNo
      BY <1>1, Basics DEF Inv, Types, TypeOK, StoreTypeOK
    <2>2. /\ Moves(p) /\ call'[p].pc = "EXPIRE" /\ call'[p].sends = call[p].sends
      BY <1>1, GotoMoves DEF Guarded, Inv
    <2>3. StoreInv'
      BY <1>1, <2>1, RecoverKeeps, Basics DEF Inv, Types
    <2>4. Types'
      BY <2>2, <2>3, RowTypesKeep DEF Recover, Inv, Types, TypeOK, keyVars
    <2>5. /\ T \in AttemptNo /\ T' = T /\ overdue' = overdue
          /\ \/ /\ X = "CLAIMED" /\ X' = "READY" /\ runState'[Delivery] = "RUNNING"
                /\ State(T) = "CLAIMED" /\ Marks(T, "ABANDONED")
             \/ /\ X = "RUNNING" /\ X' = "WAITING" /\ runState'[Delivery] = "WAITING"
                /\ State(T) = "RUNNING" /\ Marks(T, "RECONCILIATION_REQUIRED")
      <3> HIDE DEF n
      <3>1. /\ n = T /\ State(n) = X /\ T' = T /\ overdue' = overdue
            /\ \/ /\ X = "CLAIMED" /\ X' = "READY" /\ runState'[Delivery] = "RUNNING"
                  /\ Marks(n, "ABANDONED")
               \/ /\ X = "RUNNING" /\ X' = "WAITING" /\ runState'[Delivery] = "WAITING"
                  /\ Marks(n, "RECONCILIATION_REQUIRED")
        BY <1>1, <2>1, RecoverRow DEF Inv
      <3> QED BY <2>1, <3>1
    <2>6. GlobalInv' /\ Onward
      BY <2>5, LeaveRows DEF Recover, Inv, Expired, remoteVars
    <2>7. Apart(p)
      BY <2>2, <2>5 DEF Recover, Apart, Leaving, keyVars, remoteVars
    <2>8. TakenByNewest'
      BY <2>2, <2>5, TakenStays DEF Recover, Inv, remoteVars, Clean, ProvenAbsent
    <2>9. ProcessInv'
      BY <1>0, <2>2, <2>4, <2>6, <2>7, PlainKeeps DEF Inv, HasClaim
    <2> QED BY <2>4, <2>6, <2>8, <2>9 DEF Inv
  <1>2. CASE UNCHANGED storeVars /\ Goto(p, "EXPIRE")
    BY <1>0, <1>2, QuietGoto DEF Recover, Guarded, HasClaim, Inv, Types, TypeOK
  <1>3. CASE UNCHANGED storeVars /\ Return(p)
    BY <1>3, QuietReturn DEF Recover, Inv, Types, TypeOK
  <1> QED BY <1>1, <1>2, <1>3 DEF Recover

\* Where the checks after a recovery lead: out, or into the loop.
LEMMA ToLoopMoves ==
    ASSUME Types, NEW p \in Proc, ToLoop(p), call[p].sends < MaxSends
    PROVE  /\ Moves(p) /\ call'[p].pc \in {"OUT", "INSPECT"}
           /\ call'[p].sends < MaxSends /\ call'[p].checked = FALSE
  <1>1. CASE call[p].leaving
    <2>1. Moves(p) /\ call'[p] = Outside
      BY <1>1, ReturnMoves DEF ToLoop
    <2> QED BY <2>1, DeliveryAssumption DEF Outside
  <1>2. CASE ~call[p].leaving
    BY <1>2, GotoMoves DEF ToLoop
  <1> QED BY <1>1, <1>2

LEMMA ExpireKeepsInv ==
    ASSUME Inv, NEW p \in Proc, Expire(p)
    PROVE  Inv'
  <1>0. call[p].sends < MaxSends
    BY DEF Expire, At, Inv, ProcessInv, Knows, HasClaim
  <1>1. CASE Owns(p) /\ ExpireDeadline(Report) /\ ToLoop(p)
    <2>1. /\ Moves(p) /\ call'[p].pc \in {"OUT", "INSPECT"}
          /\ call'[p].sends < MaxSends /\ call'[p].checked = FALSE
      BY <1>0, <1>1, ToLoopMoves DEF Inv
    <2>2. StoreInv'
      BY <1>1, ExpireKeeps, Basics DEF Inv, Types
    <2>3. Types'
      BY <2>1, <2>2, RowTypesKeep DEF Expire, Inv, Types, TypeOK, keyVars
    <2>4. /\ X = "READY" /\ X' = "FAILED" /\ overdue' = overdue
          /\ runState[Delivery] = "RUNNING" /\ runState'[Delivery] = "FAILED"
          /\ T' = T + 1 /\ T + 1 \in AttemptNo /\ Marks(T + 1, "FAILED_TERMINAL")
      BY <1>1, ExpireRow DEF Inv, GlobalInv
    <2>5. /\ T \in Nat /\ State(T + 1) = "ABSENT"
          /\ \A n \in 1..(T + 1) : n \in AttemptNo /\ (n = T + 1 \/ n \in 1..T)
      BY <2>4, NumberFacts DEF Inv
    <2>6. \A n : (ProvenAbsent(n)' <=> ProvenAbsent(n)) /\ (Expired' <=> Expired)
      BY <2>4 DEF Expire, ProvenAbsent, Expired
    <2>7. RowsAgree'
      <3>1. started' = started /\ claimed' = claimed /\ T + 1 \notin started
        BY <2>5 DEF Expire, Inv, GlobalInv, RowsAgree, keyVars
      <3>2. \A n \in AttemptNo :
              /\ n \in started => State(n)' \notin {"CLAIMED", "ABANDONED"}
              /\ State(n)' \in {"RUNNING", "SUCCEEDED", "RECONCILIATION_REQUIRED"} => n \in started
        BY <2>4, <3>1 DEF Inv, GlobalInv, RowsAgree, Marks, State
      <3>3. started \subseteq 1..(T + 1) /\ started \subseteq AttemptNo
        BY <2>5 DEF Inv, GlobalInv, RowsAgree
      <3>4. \A k \in 1..(MaxBudget + 1) : claimed[k] # 0 => claimed[k] = k /\ k <= T + 1
        BY <2>5, Basics DEF Inv, GlobalInv, RowsAgree
      <3> QED BY <2>4, <2>5, <3>1, <3>2, <3>3, <3>4 DEF RowsAgree
    <2>8. EffectsAgree'
      <3>1. started' = started /\ response' = response /\ sent' = sent
        BY DEF Expire, keyVars, remoteVars
      <3>2. \A n \in AttemptNo : State(n)' = "SUCCEEDED" <=> State(n) = "SUCCEEDED"
        BY <2>4, <2>5 DEF Marks, State
      <3> QED BY <3>1, <3>2 DEF Inv, GlobalInv, EffectsAgree
    <2>9. TriedIsSettled'
      BY <2>4, <2>5, <2>6
      DEF Expire, Inv, GlobalInv, TriedIsSettled, Settled, Marks, State, keyVars
    <2>10. ResumesAgree'
      BY <2>4, <2>5, <2>6 DEF Expire, Inv, GlobalInv, ResumesAgree, Marks, State, keyVars
    <2>11. Onward
      BY <2>4, <2>5, <2>6 DEF Expire, Onward, Marks, State, keyVars
    <2>12. Apart(p)
      BY <1>1, <2>1, <2>4 DEF Expire, Apart, Leaving, Owns, keyVars, remoteVars
    <2>13. acceptances = 0
      <3>1. T > 0 => Settled(T) /\ T \in AttemptNo
        BY <2>4, NumberFacts DEF Inv, GlobalInv, TriedIsSettled
      <3>2. T > 0 => Clean(T)
        BY <3>1 DEF Settled, Clean, Inv, GlobalInv, EffectsAgree
      <3> QED BY <3>2, TakenNone DEF Inv
    <2>14. TakenByNewest'
      BY <2>13 DEF Expire, TakenByNewest, remoteVars
    <2>15. ProcessInv'
      BY <2>1, <2>3, <2>11, <2>12, PlainKeeps DEF Inv, HasClaim
    <2> QED BY <2>3, <2>7, <2>8, <2>9, <2>10, <2>14, <2>15 DEF Inv, GlobalInv
  <1>2. CASE UNCHANGED storeVars /\ ToLoop(p)
    <2>1. /\ Moves(p) /\ call'[p].pc \in {"OUT", "INSPECT"}
          /\ call'[p].sends < MaxSends /\ call'[p].checked = FALSE
      BY <1>0, <1>2, ToLoopMoves DEF Inv
    <2> QED BY <1>2, <2>1, QuietPlain DEF Expire, HasClaim, Inv, Types, TypeOK
  <1>3. CASE UNCHANGED storeVars /\ Return(p)
    BY <1>3, QuietReturn DEF Expire, Inv, Types, TypeOK
  <1> QED BY <1>1, <1>2, <1>3 DEF Expire

LEMMA InspectKeeps ==
    ASSUME Inv, NEW p \in Proc, Inspect(p)
    PROVE  Inv'
  <1>1. CASE Return(p)
    BY <1>1, QuietReturn DEF Inspect, Inv, Types, TypeOK
  <1>2. CASE ~Return(p)
    <2>1. PICK v \in {"LEAVE", "RESUME", "CLAIM"} : v = Verdict
      BY <1>2 DEF Inspect, Verdict
    <2> DEFINE c == [call[p] EXCEPT !.pc = IF v = "LEAVE" THEN "RESUME" ELSE v,
                                    !.leaving = (v = "LEAVE"),
                                    !.fence = fence[Report], !.attempts = tried[Report]]
    <2>2. call' = [call EXCEPT ![p] = c]
      BY <1>2, <2>1 DEF Inspect
    <2>3. call[p] \in Calls /\ ~call[p].checked /\ call[p].sends < MaxSends
      BY CallTypes DEF Inspect, Inv, ProcessInv, Knows, HasClaim
    <2>4. T \in 0..MaxBudget /\ T \in Nat /\ T = fence[Report] /\ T = tried[Report]
      BY NumberFacts, Basics DEF Inv, T
    <2>5. /\ c \in Calls /\ c.fence = T /\ c.attempts = T /\ ~c.checked
          /\ c.sends < MaxSends /\ c.leaving = (v = "LEAVE")
          /\ c.pc = (IF v = "LEAVE" THEN "RESUME" ELSE v)
      BY <2>3, <2>4 DEF Calls, Guarded
    <2> HIDE DEF c
    <2>6. Moves(p) /\ call'[p] = c
      BY <2>2, <2>5 DEF Inv, Types, TypeOK, Moves
    <2>7. /\ Types' /\ GlobalInv' /\ Onward /\ Apart(p) /\ TakenByNewest' /\ T' = T /\ X' = X
      BY <2>5, <2>6, Quiet DEF Inspect, Leaving, Inv, Types, TypeOK
    <2>8. v \in {"LEAVE", "RESUME"} =>
            /\ T > 0 /\ State(T) = "RECONCILIATION_REQUIRED" /\ ProvenAbsent(T)
            /\ v = "LEAVE" => Expired
      BY <2>1 DEF Verdict, Inv, GlobalInv, RowsAgree, T
    <2>9. v = "CLAIM" => ~Expired
      BY <2>1 DEF Verdict
    <2>10. Knows(p)'
      <3>1. /\ Expired' = Expired
            /\ \A n : (ProvenAbsent(n)' <=> ProvenAbsent(n)) /\ State(n)' = State(n)
        BY DEF Inspect, storeVars, Expired, ProvenAbsent, State
      <3>2. (Knows(p)' <=>
              /\ c.pc \notin HasClaim => c.sends < MaxSends
              /\ c.pc = "INSPECT" => ~c.checked
              /\ c.pc \in HasClaim => c.claim \in 1..T'
              /\ c.pc \in HasClaim \ {"START"} => c.claim \in started'
              /\ c.pc = "CLAIM" => c.fence <= T'
              /\ c.pc = "RESUME" =>
                    /\ c.attempts \in 1..T'
                    /\ ProvenAbsent(c.attempts)
                    /\ State(c.attempts) = "RECONCILIATION_REQUIRED"
                    /\ c.leaving => Expired)
        BY <2>6, <3>1 DEF Knows, ProvenAbsent, State
      <3>3. CASE v = "CLAIM"
        BY <2>4, <2>5, <2>7, <3>2, <3>3 DEF HasClaim
      <3>4. CASE v \in {"LEAVE", "RESUME"}
        <4>1. c.pc = "RESUME" /\ c.attempts = T
          BY <2>5, <3>4
        <4>2. T' = T /\ T \in 1..T
          BY <2>4, <2>7, <2>8, <3>4
        <4>3. State(T) = "RECONCILIATION_REQUIRED" /\ ProvenAbsent(T)
          BY <2>8, <3>4
        <4>4. c.leaving => Expired
          <5>1. c.leaving => v = "LEAVE"
            BY <2>5
          <5> QED BY <2>8, <5>1
        <4> QED BY <2>5, <3>2, <4>1, <4>2, <4>3, <4>4 DEF HasClaim, ProvenAbsent, State
      <3> QED BY <3>3, <3>4
    <2>11. Fresh(p)' /\ ~Claims(p)' /\ LeaverIsCurrent(p)'
      BY <2>5, <2>6, <2>7 DEF Fresh, Claims, HasClaim, LeaverIsCurrent
    <2>12. owner' = p /\ c.pc = "CLAIM" =>
            c.fence = T' /\ 0 \notin resumed' /\ \A q \in Proc \ {p} : ~Leaving(q)
      BY <2>5, <2>7, <2>9
      DEF Inspect, Inv, GlobalInv, ResumesAgree, ProcessInv, Knows, Leaving, keyVars
    <2>13. ProcessInv'
      BY <2>6, <2>7, <2>10, <2>11, <2>12, ProcessStep DEF Inv
    <2> QED BY <2>7, <2>13 DEF Inv
  <1> QED BY <1>1, <1>2

LEMMA ResumeKeepsInv ==
    ASSUME Inv, NEW p \in Proc, Resume(p)
    PROVE  Inv'
  <1> DEFINE key == IF call[p].leaving THEN 0 ELSE call[p].attempts
             go  == Goto(p, IF call[p].leaving THEN "RECOVER" ELSE "INSPECT")
  <1>0. call[p].sends < MaxSends
    BY DEF Resume, At, Inv, ProcessInv, Knows, HasClaim
  <1>1. CASE key \notin resumed /\ ResumeWaiting(Report) /\ resumed' = resumed \cup {key} /\ go
    <2>1. /\ Moves(p) /\ call'[p].pc \in {"RECOVER", "INSPECT"}
          /\ call'[p].sends = call[p].sends /\ call'[p].checked = FALSE
      BY <1>1, GotoMoves DEF Guarded, Inv
    <2>2. key \in 0..MaxBudget
      BY CallTypes, Basics DEF Inv
    <2>3. StoreInv'
      BY <1>1, ResumeKeeps, Basics DEF Inv, Types
    <2>4. Types'
      BY <1>1, <2>1, <2>2, <2>3, RowTypesKeep DEF Resume, Inv, Types, TypeOK
    <2>5. /\ X = "WAITING" /\ X' = "READY"
          /\ runState'[Delivery] = "RUNNING"
          /\ T' = T /\ SameStates /\ overdue' = overdue
      BY <1>1, ResumeRow DEF Inv
    <2>6. /\ T \in Nat /\ T > 0 /\ \A n \in 1..T : n \in AttemptNo
      BY <2>5, NumberFacts DEF Inv, GlobalInv, RowsAgree
    <2>7. /\ call[p].attempts \in 1..T /\ ProvenAbsent(call[p].attempts)
          /\ State(call[p].attempts) = "RECONCILIATION_REQUIRED"
          /\ call[p].leaving => Expired /\ Leaving(p)
      BY DEF Resume, At, Inv, ProcessInv, Knows, Leaving
    <2>8. call[p].attempts = T
      <3>1. CASE call[p].leaving
        BY <2>5, <3>1 DEF Resume, At, Inv, ProcessInv, LeaverIsCurrent
      <3>2. CASE ~call[p].leaving
        BY <1>1, <2>5, <2>7, <3>2 DEF Inv, GlobalInv, ResumesAgree
      <3> QED BY <3>1, <3>2
    <2>9. (Expired' <=> Expired) /\ \A n : ProvenAbsent(n)' <=> ProvenAbsent(n)
      BY <2>5 DEF Resume, Expired, ProvenAbsent
    <2>10. RowsAgree'
      BY <2>5, <2>6 DEF Resume, Inv, GlobalInv, RowsAgree, SameStates
    <2>11. EffectsAgree'
      BY <2>5 DEF Resume, Inv, GlobalInv, EffectsAgree, SameStates, remoteVars
    <2>12. TriedIsSettled'
      BY <2>5, <2>6, <2>7, <2>8, <2>9
      DEF Resume, Inv, GlobalInv, TriedIsSettled, Settled, SameStates
    <2>13. ResumesAgree'
      BY <1>1, <2>5, <2>6, <2>7, <2>8, <2>9 DEF Inv, GlobalInv, ResumesAgree, SameStates
    <2>14. Onward
      BY <2>5, <2>6, <2>9 DEF Resume, Onward, SameStates
    <2>15. Apart(p)
      BY <1>1, <2>1, <2>5, <2>6, <2>7 DEF Resume, Apart, Leaving, remoteVars
    <2>16. TakenByNewest'
      BY <2>1, <2>5, TakenStays DEF Resume, Inv, remoteVars, Clean, ProvenAbsent
    <2>17. ProcessInv'
      BY <1>0, <2>1, <2>4, <2>14, <2>15, PlainKeeps DEF Inv, HasClaim
    <2> QED BY <2>4, <2>10, <2>11, <2>12, <2>13, <2>16, <2>17 DEF Inv, GlobalInv
  <1>2. CASE UNCHANGED <<storeVars, resumed>> /\ go
    BY <1>0, <1>2, QuietGoto DEF Resume, Guarded, HasClaim, keyVars, Inv, Types, TypeOK
  <1>3. CASE UNCHANGED <<storeVars, resumed>> /\ Return(p)
    BY <1>3, QuietReturn DEF Resume, keyVars, Inv, Types, TypeOK
  <1> QED BY <1>1, <1>2, <1>3 DEF Resume, ResumeReplays

-----------------------------------------------------------------------------
(* The Attempt: its claim, its start, its message and its end.             *)

\* p goes on from the claim c, whatever it does to the rows.
LEMMA ClaimMoves ==
    ASSUME Types, NEW p \in Proc, NEW n \in 0..MaxBudget, call[p].sends < MaxSends,
           call' = [call EXCEPT ![p].pc = "START", ![p].checked = FALSE,
                                ![p].claim = n, ![p].sends = @ + 1]
    PROVE  /\ Moves(p) /\ call'[p].pc = "START" /\ ~call'[p].checked /\ call'[p].claim = n
  <1> DEFINE c == [call[p] EXCEPT !.pc = "START", !.checked = FALSE, !.claim = n,
                                  !.sends = call[p].sends + 1]
  <1>1. call[p] \in Calls /\ call[p].sends + 1 \in 0..MaxSends
    BY CallTypes
  <1>2. c \in Calls /\ c.pc = "START" /\ ~c.checked /\ c.claim = n
    BY <1>1 DEF Calls, Guarded
  <1>3. call' = [call EXCEPT ![p] = c]
    OBVIOUS
  <1> HIDE DEF c
  <1>4. call \in [Proc -> Calls]
    BY DEF Types, TypeOK
  <1>5. Moves(p) /\ call'[p] = c
    BY <1>2, <1>3, <1>4 DEF Moves
  <1> QED BY <1>2, <1>5

LEMMA ClaimKeeps ==
    ASSUME Inv, NEW p \in Proc, Claim(p)
    PROVE  Inv'
  <1>0. /\ call[p].pc = "CLAIM" /\ call[p].sends < MaxSends
        /\ call[p].fence \in Nat /\ call[p].fence <= T
        /\ T \in Nat /\ T <= MaxBudget /\ MaxBudget \in Nat
    BY NumberFacts, CallTypes DEF Claim, At, Inv, ProcessInv, Knows, HasClaim
  <1> DEFINE key == call[p].fence + 1
  <1>k. key \in 1..(MaxBudget + 1)
    BY <1>0
  <1>1. CASE /\ Owns(p) /\ Claimable(Report) /\ InsertClaim(Report)
             /\ claimed' = [claimed EXCEPT ![key] = tried[Report] + 1]
             /\ call' = [call EXCEPT
                     ![p].pc = "START", ![p].checked = FALSE,
                     ![p].claim = tried[Report] + 1, ![p].sends = @ + 1]
    <2>1. /\ X' = "CLAIMED" /\ runState' = runState
          /\ T' = T + 1 /\ T + 1 \in AttemptNo
          /\ Marks(T + 1, "CLAIMED") /\ overdue' = overdue
      BY <1>1, ClaimRow DEF Inv
    <2>2. X = "READY" /\ runState[Delivery] = "RUNNING"
      BY <1>1 DEF Claimable, X, Delivery
    <2>3. PICK m \in AttemptNo : m = T + 1
      BY <2>1
    <2>4. /\ m = T + 1 /\ m = tried[Report] + 1 /\ m \in 0..MaxBudget /\ T' = m
          /\ m > T /\ ~(m <= T)
      BY <1>0, <2>1, <2>3 DEF T
    <2>5. Marks(m, "CLAIMED") /\ State(m) = "ABSENT"
      BY <2>1, <2>4, NumberFacts DEF Inv
    <2>6. /\ Moves(p) /\ call'[p].pc = "START" /\ ~call'[p].checked /\ call'[p].claim = m
      <3>1. call' = [call EXCEPT ![p].pc = "START", ![p].checked = FALSE,
                                 ![p].claim = m, ![p].sends = @ + 1]
        BY <1>1, <2>4
      <3> QED BY <1>0, <2>4, <3>1, ClaimMoves DEF Inv
    <2>7. /\ owner = p /\ call[p].fence = T /\ 0 \notin resumed
          /\ \A q \in Proc : ~Leaving(q)
      BY <1>0, <1>1 DEF Owns, Inv, ProcessInv, OwnerIsCurrent
    <2>8. claimed' = [claimed EXCEPT ![m] = m] /\ m \in 1..(MaxBudget + 1)
      BY <1>1, <1>k, <2>4, <2>7
    <2>9. StoreInv'
      BY <1>1, InsertClaimKeeps, Basics DEF Inv, Types, Claimable
    <2>10. Types'
      BY <2>4, <2>6, <2>8, <2>9
      DEF Claim, Inv, Types, TypeOK, StoreInv, Moves, keyVars, remoteVars
    <2>11. /\ \A n : (ProvenAbsent(n)' <=> ProvenAbsent(n)) /\ (Expired' <=> Expired)
           /\ started' = started /\ resumed' = resumed /\ response' = response
           /\ sent' = sent /\ acceptances' = acceptances /\ owner' = owner
      BY <2>1 DEF Claim, ProvenAbsent, Expired, remoteVars
    <2>12. m \notin started /\ sent[m] = 0 /\ response[m] = <<>>
      BY <1>0, <2>4 DEF Inv, GlobalInv, RowsAgree, EffectsAgree
    <2>13. /\ \A n \in AttemptNo \ {m} : State(n)' = State(n)
           /\ State(m)' = "CLAIMED"
      BY <2>5 DEF Marks, State
    <2>14. \A n \in 1..m : n \in AttemptNo /\ (n = m \/ (n \in 1..T /\ n < m))
      BY <1>0, <2>4
    <2>15. RowsAgree'
      <3>1. \A n \in AttemptNo :
              /\ n \in started => State(n)' \notin {"CLAIMED", "ABANDONED"}
              /\ State(n)' \in {"RUNNING", "SUCCEEDED", "RECONCILIATION_REQUIRED"} => n \in started
        BY <2>12, <2>13 DEF Inv, GlobalInv, RowsAgree
      <3>2. started \subseteq 1..m /\ started \subseteq AttemptNo
        BY <1>0, <2>4 DEF Inv, GlobalInv, RowsAgree
      <3>3. \A k \in 1..(MaxBudget + 1) : claimed'[k] # 0 => claimed'[k] = k /\ k <= m
        BY <1>0, <2>4, <2>8 DEF Inv, Types, TypeOK, GlobalInv, RowsAgree
      <3> QED BY <2>1, <2>2, <2>4, <2>11, <3>1, <3>2, <3>3 DEF RowsAgree
    <2>16. EffectsAgree'
      <3>1. \A n \in AttemptNo : State(n)' = "SUCCEEDED" <=> State(n) = "SUCCEEDED"
        BY <2>5, <2>13
      <3> QED BY <2>11, <3>1 DEF Inv, GlobalInv, EffectsAgree
    <2>17. TriedIsSettled'
      <3> SUFFICES ASSUME NEW n \in 1..m, n < m PROVE Settled(n)'
        BY <2>1, <2>4 DEF TriedIsSettled
      <3>1. Settled(n) /\ n \in AttemptNo \ {m}
        BY <2>2, <2>4, <2>14 DEF Inv, GlobalInv, TriedIsSettled
      <3> QED BY <2>11, <2>13, <3>1 DEF Settled
    <2>18. ResumesAgree'
      BY <2>2, <2>4, <2>7, <2>11, <2>13, <2>14 DEF Inv, GlobalInv, ResumesAgree
    <2>19. Onward
      BY <1>0, <2>2, <2>4, <2>5, <2>11, <2>13 DEF Onward
    <2>20. Apart(p)
      BY <1>0, <2>6, <2>7, <2>11 DEF Apart, Leaving
    <2>21. acceptances = 0
      <3>1. T > 0 => T \in AttemptNo /\ Settled(T)
        BY <2>2, NumberFacts DEF Inv, GlobalInv, TriedIsSettled
      <3>2. T > 0 => Clean(T)
        BY <3>1 DEF Settled, Clean, Inv, GlobalInv, EffectsAgree
      <3> QED BY <3>2, TakenNone DEF Inv
    <2>22. TakenByNewest'
      BY <2>11, <2>21 DEF TakenByNewest
    <2>23. Knows(p)'
      BY <1>0, <2>4, <2>6 DEF Knows, HasClaim
    <2>24. Fresh(p)' /\ LeaverIsCurrent(p)'
      BY <2>6, <2>11, <2>12 DEF Fresh, LeaverIsCurrent
    <2>25. \A q \in Proc : Claims(q) => call[q].claim # m
      BY <1>0, <2>4 DEF Inv, ProcessInv, Knows, Claims
    <2>26. ProcessInv'
      BY <2>6, <2>10, <2>19, <2>20, <2>23, <2>24, <2>25, ProcessStep DEF Inv
    <2> QED BY <2>10, <2>15, <2>16, <2>17, <2>18, <2>22, <2>26 DEF Inv, GlobalInv
  <1>2. CASE /\ claimed[key] # 0
             /\ UNCHANGED <<storeVars, claimed>>
             /\ call' = [call EXCEPT
                     ![p].pc = "START", ![p].checked = FALSE,
                     ![p].claim = claimed[key], ![p].sends = @ + 1]
    <2>1. PICK m \in AttemptNo : m = claimed[key]
      BY <1>k, <1>2, Basics DEF Inv, Types, TypeOK
    <2>2. m = key /\ m <= T /\ m \in 1..T /\ m \in 0..MaxBudget
      BY <1>0, <1>k, <1>2, <2>1 DEF Inv, GlobalInv, RowsAgree
    <2>3. /\ Moves(p) /\ call'[p].pc = "START" /\ ~call'[p].checked /\ call'[p].claim = m
      <3>1. call' = [call EXCEPT ![p].pc = "START", ![p].checked = FALSE,
                                 ![p].claim = m, ![p].sends = @ + 1]
        BY <1>2, <2>1
      <3> QED BY <1>0, <2>2, <3>1, ClaimMoves DEF Inv
    <2>4. owner # p
      BY <1>0, <2>2 DEF Inv, ProcessInv, OwnerIsCurrent
    <2>5. /\ Types' /\ GlobalInv' /\ Onward /\ Apart(p) /\ TakenByNewest' /\ T' = T /\ X' = X
      BY <1>2, <2>3, Quiet DEF Claim, keyVars, Leaving, Inv, Types, TypeOK
    <2>6. ~Claims(p)' /\ Fresh(p)' /\ LeaverIsCurrent(p)'
      BY <2>3, <2>4 DEF Claim, Claims, Fresh, LeaverIsCurrent
    <2>7. Knows(p)'
      BY <2>2, <2>3, <2>5 DEF Knows, HasClaim
    <2>8. ProcessInv'
      BY <2>3, <2>5, <2>6, <2>7, ProcessStep DEF Inv
    <2> QED BY <2>5, <2>8 DEF Inv
  <1>3. CASE UNCHANGED <<storeVars, claimed>> /\ Return(p)
    BY <1>3, QuietReturn DEF Claim, keyVars, Inv, Types, TypeOK
  <1> QED BY <1>1, <1>2, <1>3 DEF Claim, ClaimKey

\* What a process knows that acts under its claim.
LEMMA ClaimFacts ==
    ASSUME Inv, NEW p \in Proc, call[p].pc \in HasClaim
    PROVE  /\ call[p].claim \in 1..T /\ call[p].claim \in AttemptNo
           /\ call[p].pc \in {"SEND", "PUBLISH", "FAIL"} =>
                 Claims(p) /\ call[p].claim \in started
           /\ call[p].checked => Claims(p)
  BY NumberFacts DEF Inv, ProcessInv, Knows, Claims, HasClaim

\* p goes on under its claim.
LEMMA UseKeeps ==
    ASSUME Inv, Types', NEW p \in Proc, Moves(p), Onward, Apart(p), Claims(p),
           call[p].pc \in HasClaim, call'[p].pc \in HasClaim \ {"START"},
           call'[p].claim = call[p].claim, call[p].claim \in started', Fresh(p)'
    PROVE  ProcessInv'
  <1>1. T \in Nat /\ T' \in Nat
    BY NumberFacts, Basics DEF Inv, Types, TypeOK, StoreTypeOK, T
  <1>2. call'[p].claim \in 1..T'
    BY <1>1, ClaimFacts DEF Onward
  <1>3. Knows(p)' /\ LeaverIsCurrent(p)'
    BY <1>2 DEF Knows, LeaverIsCurrent, HasClaim
  <1>4. \A q \in Proc \ {p} : Claims(q) => call[q].claim # call[p].claim
    BY DEF Inv, ProcessInv, OneUser
  <1> QED BY <1>3, <1>4, ProcessStep DEF Inv, HasClaim

LEMMA StartKeeps ==
    ASSUME Inv, NEW p \in Proc, Start(p)
    PROVE  Inv'
  <1>1. PICK n \in AttemptNo : n = call[p].claim
    BY ClaimFacts DEF Start, At, HasClaim
  <1>2. /\ call[p].pc = "START" /\ Claims(p) /\ call[p].pc \in HasClaim
        /\ sent[n] = 0 /\ response[n] = <<>>
    BY <1>1, ClaimFacts DEF Start, At, HasClaim, Inv, ProcessInv, Fresh
  <1>3. CASE /\ n \notin started /\ StartAttempt(Report, n)
             /\ started' = started \cup {n} /\ Goto(p, "SEND")
    <2>1. /\ Moves(p) /\ call'[p].pc = "SEND" /\ call'[p].claim = call[p].claim
      BY <1>3, GotoMoves DEF Guarded, Inv
    <2>2. /\ n = T /\ State(n) = "CLAIMED" /\ X = "CLAIMED" /\ X' = "RUNNING"
          /\ runState' = runState /\ T' = T /\ Marks(n, "RUNNING") /\ overdue' = overdue
      BY <1>3, BeginRow DEF Inv
    <2>3. StoreInv'
      BY <1>3, StartAttemptKeeps, Basics DEF Inv, Types
    <2>4. Types'
      BY <1>3, <2>1, <2>3, RowTypesKeep DEF Start, Inv, Types, TypeOK
    <2>5. /\ \A k : (ProvenAbsent(k)' <=> ProvenAbsent(k)) /\ (Expired' <=> Expired)
          /\ claimed' = claimed /\ resumed' = resumed /\ response' = response
          /\ sent' = sent /\ acceptances' = acceptances /\ owner' = owner
      BY <2>2 DEF Start, ProvenAbsent, Expired, remoteVars
    <2>6. /\ T \in Nat /\ n \in 1..T /\ \A k \in 1..T : k \in AttemptNo
          /\ \A k \in AttemptNo \ {n} : State(k)' = State(k)
          /\ State(n)' = "RUNNING"
      BY <2>2, NumberFacts, Basics DEF Marks, State, Inv
    <2>7. RowsAgree'
      BY <1>3, <2>2, <2>5, <2>6 DEF Inv, GlobalInv, RowsAgree
    <2>8. EffectsAgree'
      BY <1>2, <1>3, <2>2, <2>5, <2>6 DEF Inv, GlobalInv, EffectsAgree
    <2>9. TriedIsSettled'
      BY <1>3, <2>2, <2>5, <2>6 DEF Inv, GlobalInv, TriedIsSettled, Settled
    <2>10. ResumesAgree'
      BY <2>2, <2>5, <2>6 DEF Inv, GlobalInv, ResumesAgree
    <2>11. Onward
      BY <1>3, <2>2, <2>5, <2>6 DEF Onward
    <2>12. Apart(p)
      BY <2>1, <2>2, <2>5 DEF Apart, Leaving
    <2>13. TakenByNewest'
      BY <2>1, <2>2, <2>5, TakenStays DEF Inv, Clean, ProvenAbsent
    <2>14. Fresh(p)'
      BY <1>1, <1>2, <2>1, <2>5 DEF Fresh
    <2>15. ProcessInv'
      BY <1>1, <1>2, <1>3, <2>1, <2>4, <2>11, <2>12, <2>14, UseKeeps DEF HasClaim
    <2> QED BY <2>4, <2>7, <2>8, <2>9, <2>10, <2>13, <2>15 DEF Inv, GlobalInv
  <1>4. CASE n \in started /\ UNCHANGED <<storeVars, started>> /\ Goto(p, "SEND")
    <2>1. /\ Moves(p) /\ call'[p].pc = "SEND" /\ call'[p].claim = call[p].claim
      BY <1>4, GotoMoves DEF Guarded, Inv
    <2>2. /\ Types' /\ GlobalInv' /\ Onward /\ Apart(p) /\ TakenByNewest' /\ T' = T /\ X' = X
      BY <1>4, <2>1, Quiet DEF Start, keyVars, Leaving, Inv, Types, TypeOK
    <2>3. Fresh(p)'
      BY <1>1, <1>2, <2>1 DEF Fresh, Start, remoteVars
    <2>4. ProcessInv'
      BY <1>1, <1>2, <1>4, <2>1, <2>2, <2>3, UseKeeps DEF HasClaim
    <2> QED BY <2>2, <2>4 DEF Inv
  <1>5. CASE UNCHANGED <<storeVars, started>> /\ Return(p)
    BY <1>5, QuietReturn DEF Start, keyVars, Inv, Types, TypeOK
  <1> QED BY <1>1, <1>3, <1>4, <1>5 DEF Start

\* The answer that p goes to publish.
LEMMA AnswerMoves ==
    ASSUME Types, NEW p \in Proc, NEW result \in Outcomes,
           call' = [call EXCEPT ![p] = [@ EXCEPT !.pc = "PUBLISH", !.checked = FALSE,
                                                 !.result = result]]
    PROVE  /\ Moves(p) /\ call'[p].pc = "PUBLISH" /\ call'[p].result = result
           /\ call'[p].claim = call[p].claim
  <1> DEFINE c == [call[p] EXCEPT !.pc = "PUBLISH", !.checked = FALSE, !.result = result]
  <1>1. call[p] \in Calls
    BY CallTypes
  <1>2. c \in Calls /\ c.pc = "PUBLISH" /\ c.result = result /\ c.claim = call[p].claim
    BY <1>1 DEF Calls, Guarded
  <1>3. call' = [call EXCEPT ![p] = c]
    OBVIOUS
  <1> HIDE DEF c
  <1>4. call \in [Proc -> Calls]
    BY DEF Types, TypeOK
  <1>5. Moves(p) /\ call'[p] = c
    BY <1>2, <1>3, <1>4 DEF Moves
  <1> QED BY <1>2, <1>5

LEMMA SendKeeps ==
    ASSUME Inv, NEW p \in Proc, Send(p)
    PROVE  Inv'
  <1>1. PICK n \in AttemptNo : n = call[p].claim
    BY ClaimFacts DEF Send, At, HasClaim
  <1>2. /\ call[p].pc = "SEND" /\ Claims(p) /\ call[p].pc \in HasClaim
        /\ n \in 1..T /\ n \in started
        /\ sent[n] = 0 /\ response[n] = <<>>
    BY <1>1, ClaimFacts DEF Send, At, HasClaim, Inv, ProcessInv, Fresh
  <1>3. PICK result \in Outcomes :
           call' = [call EXCEPT ![p] = [@ EXCEPT !.pc = "PUBLISH", !.checked = FALSE,
                                                 !.result = result]]
           /\ \/ UNCHANGED remoteVars
              \/ /\ ~Expired
                 /\ sent' = [sent EXCEPT ![n] = @ + 1]
                 /\ \/ acceptances' = acceptances + 1 /\ result \in {"ACCEPTED", "UNKNOWN"}
                    \/ acceptances' = acceptances
    BY <1>1 DEF Send, Outcomes
  <1>4. /\ Moves(p) /\ call'[p].pc = "PUBLISH" /\ call'[p].result = result
        /\ call'[p].claim = call[p].claim
    BY <1>3, AnswerMoves DEF Inv
  <1>5. T \in Nat /\ (n < T \/ n = T)
    BY <1>2, NumberFacts DEF Inv
  <1>6. CASE UNCHANGED remoteVars
    <2>1. n = T => Clean(T)
      BY <1>2 DEF Clean
    <2>2. /\ Types' /\ GlobalInv' /\ Onward /\ Apart(p) /\ TakenByNewest' /\ T' = T /\ X' = X
      BY <1>1, <1>4, <1>6, <2>1, Quiet DEF Send, Leaving, Inv, Types, TypeOK
    <2>3. Fresh(p)'
      BY <1>1, <1>2, <1>4 DEF Send, Fresh
    <2>4. ProcessInv'
      BY <1>1, <1>2, <1>4, <2>2, <2>3, UseKeeps DEF Send, HasClaim, keyVars
    <2> QED BY <2>2, <2>4 DEF Inv
  <1>7. CASE /\ ~Expired
             /\ sent' = [sent EXCEPT ![n] = @ + 1]
             /\ \/ acceptances' = acceptances + 1 /\ result \in {"ACCEPTED", "UNKNOWN"}
                \/ acceptances' = acceptances
    <2>1. n = T
      <3> SUFFICES ASSUME n < T PROVE FALSE
        BY <1>5
      <3>1. Settled(n)
        BY <1>2 DEF Inv, GlobalInv, TriedIsSettled
      <3>2. ~ProvenAbsent(n)
        BY <1>2 DEF ProvenAbsent
      <3> QED BY <1>2, <3>1, <3>2 DEF Settled
    <2>2. acceptances = 0
      BY <1>2, <2>1, TakenNone DEF Clean, Inv
    <2>3. /\ sent' \in [AttemptNo -> Nat] /\ sent'[n] = 1
          /\ \A k \in AttemptNo \ {n} : sent'[k] = sent[k]
          /\ acceptances' \in Nat
      BY <1>2, <1>7, <2>2 DEF Inv, Types, TypeOK
    <2>4. StoreInv' /\ StoreTypeOK'
      BY DEF Send, Inv, Types, StoreInv, StoreTypeOK, OneLiveStepPerRun,
             CurrentAttemptIsTheLiveOne, FencesGrow, LiveRunIsRunning, LiveStep, storeVars
    <2>5. Types'
      BY <1>4, <2>3, <2>4 DEF Send, Inv, Types, TypeOK, Moves, keyVars
    <2>6. /\ X' = X /\ T' = T /\ (Expired' <=> Expired) /\ \A k : State(k)' = State(k)
          /\ \A k : (ProvenAbsent(k)' <=> ProvenAbsent(k)) /\ (Settled(k)' <=> Settled(k))
      BY DEF Send, storeVars, keyVars, X, T, Expired, State, ProvenAbsent, Settled
    <2>7. RowsAgree'
      BY <2>6 DEF Send, storeVars, keyVars, Inv, GlobalInv, RowsAgree
    <2>8. EffectsAgree'
      BY <1>2, <2>3, <2>6 DEF Send, keyVars, Inv, GlobalInv, EffectsAgree
    <2>9. TriedIsSettled' /\ ResumesAgree'
      BY <2>6 DEF Send, keyVars, Inv, GlobalInv, TriedIsSettled, ResumesAgree
    <2>10. Onward
      BY <1>5, <2>6 DEF Send, keyVars, Onward
    <2>11. Apart(p)
      BY <1>1, <1>2, <1>4, <2>3, <2>6 DEF Send, keyVars, Apart, Leaving
    <2>12. TakenByNewest'
      <3>1. CASE acceptances' = 0
        BY <3>1 DEF TakenByNewest
      <3>2. CASE acceptances' # 0
        <4>1. acceptances' = 1 /\ result # "PROVEN_NOT_SENT"
          BY <1>7, <2>2, <3>2
        <4>2. ASSUME NEW q \in Proc, call'[q].pc = "PUBLISH", call'[q].claim = n,
                     call'[q].result = "PROVEN_NOT_SENT"
              PROVE  FALSE
          <5>1. q # p
            BY <1>4, <4>1, <4>2
          <5>2. Claims(q) /\ call[q].claim = call[p].claim
            BY <1>1, <1>4, <4>2, <5>1 DEF Moves, Claims, HasClaim
          <5> QED BY <1>2, <5>1, <5>2 DEF Inv, ProcessInv, OneUser
        <4>3. response'[n] # <<"PROVEN_NOT_SENT">>
          BY <1>2 DEF Send
        <4>4. T' = n /\ sent'[n] # 0
          BY <2>1, <2>3, <2>6
        <4>5. ~Clean(T)'
          BY <4>2, <4>3, <4>4 DEF Clean, ProvenAbsent
        <4> QED BY <1>5, <2>1, <2>6, <4>1, <4>5, <1>2 DEF TakenByNewest
      <3> QED BY <3>1, <3>2
    <2>13. Fresh(p)'
      BY <1>1, <1>2, <1>4 DEF Send, Fresh
    <2>14. ProcessInv'
      BY <1>1, <1>2, <1>4, <2>5, <2>10, <2>11, <2>13, UseKeeps DEF Send, HasClaim, keyVars
    <2> QED BY <2>5, <2>7, <2>8, <2>9, <2>12, <2>14 DEF Inv, GlobalInv
  <1> QED BY <1>3, <1>6, <1>7

\* The first response of an Attempt.
LEMMA FirstResponse ==
    ASSUME Types, NEW n \in AttemptNo, NEW r \in Outcomes, response[n] = <<>>,
           response' = [response EXCEPT ![n] = Append(@, r)]
    PROVE  /\ response' \in [AttemptNo -> Seq(Outcomes)] /\ response'[n] = <<r>>
           /\ \A k \in AttemptNo \ {n} : response'[k] = response[k]
  <1>1. response \in [AttemptNo -> Seq(Outcomes)]
    BY DEF Types, TypeOK
  <1>2. Append(<<>>, r) = <<r>> /\ <<r>> \in Seq(Outcomes)
    OBVIOUS
  <1> QED BY <1>1, <1>2

LEMMA PublishKeeps ==
    ASSUME Inv, NEW p \in Proc, Publish(p)
    PROVE  Inv'
  <1>1. PICK n \in AttemptNo : n = call[p].claim
    BY ClaimFacts DEF Publish, At, HasClaim
  <1>2. PICK r \in Outcomes : r = call[p].result
    BY CallTypes DEF Inv
  <1>3. /\ call[p].pc = "PUBLISH" /\ Claims(p) /\ call[p].pc \in HasClaim
        /\ n \in 1..T /\ n \in started /\ response[n] = <<>>
    BY <1>1, ClaimFacts DEF Publish, At, HasClaim, Inv, ProcessInv, Fresh
  <1>4. ~ProvenAbsent(n) /\ State(n) # "SUCCEEDED"
    <2>1. <<>> # <<"ACCEPTED">> /\ <<>> # <<"PROVEN_NOT_SENT">>
      OBVIOUS
    <2> QED BY <1>3, <2>1 DEF ProvenAbsent, Inv, GlobalInv, EffectsAgree
  <1>5. CASE /\ r = "ACCEPTED" /\ SucceedAttempt(Report, n) /\ Return(p)
             /\ response' = [response EXCEPT ![n] = Append(@, r)]
    <2>1. Moves(p) /\ call'[p] = Outside
      BY <1>5, ReturnMoves DEF Inv
    <2>2. /\ n = T /\ State(n) = "RUNNING" /\ X = "RUNNING" /\ X' = "SUCCEEDED"
          /\ runState[Delivery] = "RUNNING" /\ runState'[Delivery] \in {"RUNNING", "SUCCEEDED"}
          /\ T' = T /\ Marks(n, "SUCCEEDED") /\ overdue' = overdue
      BY <1>5, SucceedRow DEF Inv
    <2>3. /\ response' \in [AttemptNo -> Seq(Outcomes)] /\ response'[n] = <<"ACCEPTED">>
          /\ \A k \in AttemptNo \ {n} : response'[k] = response[k]
      BY <1>3, <1>5, FirstResponse DEF Inv
    <2>4. StoreInv'
      BY <1>5, SucceedKeeps, Basics DEF Inv, Types
    <2>5. Types'
      BY <2>1, <2>3, <2>4
      DEF Publish, Inv, Types, TypeOK, StoreInv, Moves, keyVars, remoteVars
    <2>6. /\ T \in Nat /\ T > 0 /\ \A k \in 1..T : k \in AttemptNo
          /\ \A k \in AttemptNo \ {n} : State(k)' = State(k)
          /\ State(n)' = "SUCCEEDED"
          /\ claimed' = claimed /\ resumed' = resumed /\ started' = started
          /\ sent' = sent /\ acceptances' = acceptances /\ owner' = owner
          /\ (Expired' <=> Expired)
      BY <1>3, <2>2, NumberFacts
      DEF Marks, State, Publish, Inv, Expired, keyVars, remoteVars
    <2>7. /\ \A k \in AttemptNo \ {n} : ProvenAbsent(k)' <=> ProvenAbsent(k)
          /\ ~ProvenAbsent(n)'
      <3>1. <<"ACCEPTED">> # <<"PROVEN_NOT_SENT">>
        OBVIOUS
      <3> QED BY <2>3, <3>1 DEF ProvenAbsent
    <2>8. RowsAgree'
      BY <1>3, <2>2, <2>6 DEF Inv, GlobalInv, RowsAgree
    <2>9. EffectsAgree'
      <3>1. \A k \in AttemptNo : response'[k] = <<>> \/ \E o \in Outcomes : response'[k] = <<o>>
        BY <2>3 DEF Inv, GlobalInv, EffectsAgree, Outcomes
      <3>2. \A k \in AttemptNo : response'[k] = <<"ACCEPTED">> <=> State(k)' = "SUCCEEDED"
        BY <2>3, <2>6 DEF Inv, GlobalInv, EffectsAgree
      <3>3. \A k \in AttemptNo : k \notin started => sent[k] = 0 /\ response'[k] = <<>>
        BY <1>3, <2>3 DEF Inv, GlobalInv, EffectsAgree
      <3> QED BY <2>6, <3>1, <3>2, <3>3 DEF Inv, GlobalInv, EffectsAgree
    <2>10. TriedIsSettled'
      BY <2>2, <2>6, <2>7 DEF Inv, GlobalInv, TriedIsSettled, Settled
    <2>11. ResumesAgree'
      BY <2>2, <2>6 DEF Inv, GlobalInv, ResumesAgree
    <2>12. Onward
      BY <1>4, <2>2, <2>6, <2>7 DEF Onward
    <2>13. Apart(p)
      BY <1>1, <1>3, <2>1, <2>2, <2>3, <2>6 DEF Apart, Leaving, Outside
    <2>14. TakenByNewest'
      BY <2>1, <2>2, <2>6, <2>7, TakenStays DEF Inv, Outside
    <2>15. ProcessInv'
      <3>1. call'[p].pc = "OUT" /\ call'[p].sends < MaxSends
        BY <2>1, DeliveryAssumption DEF Outside
      <3> QED BY <2>1, <2>5, <2>12, <2>13, <3>1, PlainKeeps DEF Inv, HasClaim
    <2> QED BY <2>5, <2>8, <2>9, <2>10, <2>11, <2>14, <2>15 DEF Inv, GlobalInv
  <1>6. CASE UNCHANGED <<storeVars, response>> /\ Return(p)
    BY <1>6, QuietReturn DEF Publish, Inv, Types, TypeOK
  <1>7. CASE /\ r # "ACCEPTED" /\ UNCHANGED storeVars /\ Goto(p, "FAIL")
             /\ response' = [response EXCEPT ![n] = Append(@, r)]
    <2>1. /\ Moves(p) /\ call'[p].pc = "FAIL" /\ call'[p].claim = call[p].claim
      BY <1>7, GotoMoves DEF Guarded, Inv
    <2>2. /\ response' \in [AttemptNo -> Seq(Outcomes)] /\ response'[n] = <<r>>
          /\ \A k \in AttemptNo \ {n} : response'[k] = response[k]
      BY <1>3, <1>7, FirstResponse DEF Inv
    <2>3. StoreInv' /\ StoreTypeOK'
      BY <1>7 DEF Inv, Types, StoreInv, StoreTypeOK, OneLiveStepPerRun,
             CurrentAttemptIsTheLiveOne, FencesGrow, LiveRunIsRunning, LiveStep, storeVars
    <2>4. Types'
      BY <2>1, <2>2, <2>3 DEF Publish, Inv, Types, TypeOK, Moves, keyVars, remoteVars
    <2>5. /\ X' = X /\ T' = T /\ (Expired' <=> Expired) /\ \A k : State(k)' = State(k)
          /\ claimed' = claimed /\ resumed' = resumed /\ started' = started
          /\ sent' = sent /\ acceptances' = acceptances /\ owner' = owner
          /\ runState' = runState
      BY <1>7 DEF Publish, storeVars, keyVars, remoteVars, X, T, Expired, State
    <2>6. \A k \in AttemptNo : ProvenAbsent(k) => ProvenAbsent(k)'
      BY <1>4, <2>2 DEF ProvenAbsent
    <2>7. /\ T \in Nat /\ T > 0 /\ \A k \in 1..T : k \in AttemptNo
      BY <1>3, NumberFacts DEF Inv
    <2>8. RowsAgree'
      BY <2>5 DEF Inv, GlobalInv, RowsAgree
    <2>9. EffectsAgree'
      <3>1. \A k \in AttemptNo : response'[k] = <<>> \/ \E o \in Outcomes : response'[k] = <<o>>
        BY <2>2 DEF Inv, GlobalInv, EffectsAgree
      <3>2. \A k \in AttemptNo : response'[k] = <<"ACCEPTED">> <=> State(k) = "SUCCEEDED"
        <4>1. <<r>> # <<"ACCEPTED">>
          BY <1>7
        <4> QED BY <1>4, <2>2, <4>1 DEF Inv, GlobalInv, EffectsAgree
      <3>3. \A k \in AttemptNo : k \notin started => sent[k] = 0 /\ response'[k] = <<>>
        BY <1>3, <2>2 DEF Inv, GlobalInv, EffectsAgree
      <3> QED BY <2>5, <3>1, <3>2, <3>3 DEF Inv, GlobalInv, EffectsAgree
    <2>10. TriedIsSettled'
      BY <2>5, <2>6, <2>7 DEF Inv, GlobalInv, TriedIsSettled, Settled
    <2>11. ResumesAgree'
      BY <2>5 DEF Inv, GlobalInv, ResumesAgree
    <2>12. Onward
      BY <2>5, <2>6, <2>7 DEF Onward
    <2>13. Apart(p)
      BY <1>1, <1>3, <2>1, <2>2, <2>5 DEF Apart, Leaving
    <2>14. TakenByNewest'
      <3>1. response'[T] = <<"PROVEN_NOT_SENT">> => Clean(T)
        <4>1. CASE n = T
          <5>1. <<r>> = <<"PROVEN_NOT_SENT">> => r = "PROVEN_NOT_SENT"
            OBVIOUS
          <5> QED BY <1>1, <1>2, <1>3, <2>2, <4>1, <5>1 DEF Clean
        <4>2. CASE n # T
          BY <2>2, <2>7, <4>2 DEF Clean, ProvenAbsent
        <4> QED BY <4>1, <4>2
      <3>2. ProvenAbsent(T)' => Clean(T)
        BY <2>5, <3>1 DEF ProvenAbsent
      <3> QED BY <2>1, <2>5, <3>2, TakenStays DEF Inv
    <2>15. Fresh(p)'
      BY <2>1 DEF Fresh
    <2>16. ProcessInv'
      BY <1>1, <1>3, <2>1, <2>4, <2>5, <2>12, <2>13, <2>15, UseKeeps DEF HasClaim
    <2> QED BY <2>4, <2>8, <2>9, <2>10, <2>11, <2>14, <2>16 DEF Inv, GlobalInv
  <1> QED BY <1>1, <1>2, <1>5, <1>6, <1>7 DEF Publish, RecordAcceptance

LEMMA FailKeepsInv ==
    ASSUME Inv, NEW p \in Proc, Fail(p)
    PROVE  Inv'
  <1>1. PICK n \in AttemptNo : n = call[p].claim
    BY ClaimFacts DEF Fail, At, HasClaim
  <1>2. CASE /\ FailAttempt(Report, n, TRUE, FALSE)
             /\ \/ Retries(p) /\ Goto(p, "INSPECT")
                \/ ~Retries(p) /\ Return(p)
    <2>1. /\ Moves(p) /\ call'[p].pc \in {"OUT", "INSPECT"}
          /\ call'[p].sends < MaxSends /\ call'[p].checked = FALSE
      <3>1. CASE Retries(p) /\ Goto(p, "INSPECT")
        BY <3>1, GotoMoves DEF Retries, Inv
      <3>2. CASE Return(p)
        <4>1. Moves(p) /\ call'[p] = Outside
          BY <3>2, ReturnMoves DEF Inv
        <4> QED BY <4>1, DeliveryAssumption DEF Outside
      <3> QED BY <1>2, <3>1, <3>2
    <2>2. /\ n = T /\ State(n) = "RUNNING" /\ X = "RUNNING" /\ X' = "WAITING"
          /\ runState[Delivery] = "RUNNING" /\ runState'[Delivery] = "WAITING"
          /\ T' = T /\ Marks(n, "RECONCILIATION_REQUIRED") /\ overdue' = overdue
      BY <1>2, FailRow DEF Inv
    <2>3. StoreInv'
      BY <1>2, FailKeeps, Basics DEF Inv, Types
    <2>4. Types'
      BY <2>1, <2>3, RowTypesKeep DEF Fail, Inv, Types, TypeOK, keyVars
    <2>5. GlobalInv' /\ Onward
      BY <2>2, LeaveRows DEF Fail, Inv, Expired, remoteVars
    <2>6. Apart(p)
      BY <2>1, <2>2 DEF Fail, Apart, Leaving, keyVars, remoteVars
    <2>7. TakenByNewest'
      BY <2>1, <2>2, TakenStays DEF Fail, Inv, remoteVars, Clean, ProvenAbsent
    <2>8. ProcessInv'
      BY <2>1, <2>4, <2>5, <2>6, PlainKeeps DEF Inv, HasClaim
    <2> QED BY <2>4, <2>5, <2>7, <2>8 DEF Inv
  <1>3. CASE UNCHANGED storeVars /\ Return(p)
    BY <1>3, QuietReturn DEF Fail, Inv, Types, TypeOK
  <1> QED BY <1>1, <1>2, <1>3 DEF Fail

-----------------------------------------------------------------------------
(* The clock, the first state and the theorems.                            *)
LEMMA ClockStep ==
    ASSUME Inv, Types', Expired => Expired',
           UNCHANGED <<runState, stepState, tried, attempt, keyVars, response, remoteVars,
                       call, owner>>
    PROVE  Inv'
  <1>1. GlobalInv' /\ Onward
    BY GlobalStill DEF Inv, remoteVars
  <1>2. X' = X /\ T' = T /\ claimed' = claimed /\ started' = started /\ resumed' = resumed
    BY DEF X, T, keyVars
  <1>3. TakenByNewest'
    BY <1>2 DEF Inv, TakenByNewest, Clean, ProvenAbsent, remoteVars
  <1>4. ASSUME NEW p \in Proc
        PROVE  Knows(p)' /\ Fresh(p)' /\ LeaverIsCurrent(p)'
    <2>1. Knows(p)'
      BY <1>1, KnowsStays DEF Inv, ProcessInv
    <2>2. Fresh(p)'
      BY DEF Inv, ProcessInv, Fresh, Claims, remoteVars
    <2>3. LeaverIsCurrent(p)'
      BY <1>2 DEF Inv, ProcessInv, LeaverIsCurrent
    <2> QED BY <2>1, <2>2, <2>3
  <1>5. OneUser' /\ OwnerIsCurrent'
    BY <1>2 DEF Inv, ProcessInv, OneUser, Claims, OwnerIsCurrent, Leaving
  <1> QED BY <1>1, <1>3, <1>4, <1>5 DEF Inv, ProcessInv

LEMMA TickKeeps ==
    ASSUME Inv, Tick
    PROVE  Inv'
  <1>1. StoreInv'
    BY ClockKeeps, Basics DEF Tick, Inv, Types
  <1>2. Types'
    BY <1>1 DEF Tick, Inv, Types, TypeOK, StoreInv, keyVars, remoteVars
  <1>3. UNCHANGED <<runState, stepState, tried, attempt>>
    BY DEF Tick, LeaseTick, DeadlinePasses
  <1>4. overdue[Report] => overdue'[Report]
    BY Basics DEF Tick, LeaseTick, DeadlinePasses, Inv, Types, TypeOK, StoreTypeOK
  <1>5. Expired => Expired'
    BY <1>4 DEF Tick, Expired
  <1> QED BY <1>2, <1>3, <1>5, ClockStep DEF Tick

LEMMA TargetKeeps ==
    ASSUME Inv, TargetBegins
    PROVE  Inv'
  <1>1. StoreInv' /\ StoreTypeOK'
    BY DEF TargetBegins, Inv, Types, StoreInv, StoreTypeOK, OneLiveStepPerRun,
           CurrentAttemptIsTheLiveOne, FencesGrow, LiveRunIsRunning, LiveStep, storeVars
  <1>2. Types'
    BY <1>1 DEF TargetBegins, Inv, Types, TypeOK, keyVars, remoteVars
  <1>3. Expired => Expired'
    BY DEF TargetBegins, Expired, storeVars
  <1> QED BY <1>2, <1>3, ClockStep DEF TargetBegins, storeVars

LEMMA InitHolds ==
    ASSUME Init
    PROVE  Inv
  <1>1. StoreInv
    BY InitKeeps DEF Init
  <1>2. TypeOK
    <2>1. StoreTypeOK /\ owner \in Proc \cup {NoProc} /\ call \in [Proc -> Calls]
      BY <1>1, OutsideIsCall DEF Init, StoreInv
    <2>2. claimed \in [1..(MaxBudget + 1) -> 0..MaxBudget]
      BY Basics DEF Init
    <2>3. response \in [AttemptNo -> Seq(Outcomes)]
      <3>1. <<>> \in Seq(Outcomes)
        OBVIOUS
      <3> QED BY <3>1 DEF Init
    <2>4. sent \in [AttemptNo -> Nat] /\ acceptances \in Nat
      BY DEF Init
    <2> QED BY <2>1, <2>2, <2>3, <2>4 DEF Init, TypeOK
  <1>3. X = "PENDING" /\ runState[Delivery] = "QUEUED" /\ T = 0
    BY Basics DEF Init, StoreInit, X, T, Delivery
  <1>4. \A n \in AttemptNo : State(n) = "ABSENT"
    BY Basics DEF Init, StoreInit, State, NoAttempt
  <1>5. RowsAgree
    BY <1>3, <1>4 DEF Init, RowsAgree
  <1>6. EffectsAgree
    <2>1. <<>> # <<"ACCEPTED">>
      OBVIOUS
    <2> QED BY <1>4, <2>1 DEF Init, EffectsAgree
  <1>7. TriedIsSettled /\ ResumesAgree
    BY <1>3 DEF Init, TriedIsSettled, ResumesAgree
  <1>8. \A p \in Proc : call[p].pc = "OUT" /\ call[p].sends < MaxSends
    BY DeliveryAssumption DEF Init, Outside
  <1>9. ProcessInv
    BY <1>8 DEF ProcessInv, Knows, Fresh, LeaverIsCurrent, OneUser, Claims, OwnerIsCurrent,
                HasClaim
  <1>10. TakenByNewest
    BY DEF Init, TakenByNewest
  <1> QED BY <1>1, <1>2, <1>5, <1>6, <1>7, <1>9, <1>10 DEF Inv, Types, GlobalInv

LEMMA NextKeeps ==
    ASSUME Inv, [Next]_vars
    PROVE  Inv'
  <1>1. CASE UNCHANGED vars
    <2>1. StoreInv' /\ StoreTypeOK'
      BY <1>1 DEF vars, Inv, Types, StoreInv, StoreTypeOK, OneLiveStepPerRun,
             CurrentAttemptIsTheLiveOne, FencesGrow, LiveRunIsRunning, LiveStep, storeVars
    <2>2. Types'
      BY <1>1, <2>1 DEF vars, Inv, Types, TypeOK, keyVars, remoteVars
    <2> QED BY <1>1, <2>2, ClockStep DEF vars, storeVars, Expired
  <1>2. ASSUME NEW p \in Proc, Acquire(p) \/ LoseLock(p) \/ Crash(p) \/ Check(p)
        PROVE  Inv'
    BY <1>2, AcquireKeeps, LoseLockKeeps, CrashKeeps, CheckKeeps
  <1>3. ASSUME NEW p \in Proc, Deliver(p)
        PROVE  Inv'
    BY <1>3, EnterKeeps, RegisterKeeps, StartDeliveryKeeps, RecoverKeepsInv, ExpireKeepsInv,
       InspectKeeps, ResumeKeepsInv, ClaimKeeps, StartKeeps, SendKeeps, PublishKeeps,
       FailKeepsInv
    DEF Deliver
  <1> QED BY <1>1, <1>2, <1>3, TickKeeps, TargetKeeps DEF Next

\* The invariant of the deliver command, from which the rest follows.
THEOREM DeliveryInvariant == Spec => []Inv
  <1>1. Init => Inv
    BY InitHolds
  <1>2. Inv /\ [Next]_vars => Inv'
    BY NextKeeps
  <1> QED BY <1>1, <1>2, PTL DEF Spec

\* The rows, the keys and the state of every process are of their types.
THEOREM DeliveryTypes == Spec => []TypeOK
  <1>1. Inv => TypeOK
    BY DEF Inv, Types
  <1> QED BY <1>1, DeliveryInvariant, PTL

\* The reader gets the report at most once, whatever is lost, late or replayed.
THEOREM OneAcceptance == Spec => []AtMostOneAcceptance
  <1>1. Inv => AtMostOneAcceptance
    BY DEF Inv, TakenByNewest, AtMostOneAcceptance
  <1> QED BY <1>1, DeliveryInvariant, PTL

\* No two processes send under the same Attempt.
THEOREM SentOnce == Spec => []OneSendPerAttempt
  <1>1. Inv => OneSendPerAttempt
    BY DEF Inv, GlobalInv, EffectsAgree, OneSendPerAttempt
  <1> QED BY <1>1, DeliveryInvariant, PTL

\* No Attempt has two responses.
THEOREM OneResponse == Spec => []OneResponsePerAttempt
  <1>1. Inv => OneResponsePerAttempt
    <2> SUFFICES ASSUME Inv, NEW n \in AttemptNo
                 PROVE  Len(response[n]) <= 1
      BY DEF OneResponsePerAttempt
    <2>1. CASE response[n] = <<>>
      BY <2>1
    <2>2. CASE \E r \in Outcomes : response[n] = <<r>>
      BY <2>2
    <2> QED BY <2>1, <2>2 DEF Inv, GlobalInv, EffectsAgree
  <1> QED BY <1>1, DeliveryInvariant, PTL

\* An accepted response and a successful Attempt are the same thing.
THEOREM AcceptanceAgrees == Spec => []AcceptedResponseIsTheSuccess
  <1>1. Inv => AcceptedResponseIsTheSuccess
    <2> SUFFICES ASSUME Inv, NEW n \in AttemptNo
                 PROVE  (\E i \in DOMAIN response[n] : response[n][i] = "ACCEPTED")
                            <=> attempt[Report][n].state = "SUCCEEDED"
      BY DEF AcceptedResponseIsTheSuccess
    <2>1. response[n] = <<"ACCEPTED">> <=> attempt[Report][n].state = "SUCCEEDED"
      BY DEF Inv, GlobalInv, EffectsAgree, State
    <2>2. CASE response[n] = <<>>
      BY <2>1, <2>2
    <2>3. CASE \E r \in Outcomes : response[n] = <<r>>
      <3>1. PICK r \in Outcomes : response[n] = <<r>>
        BY <2>3
      <3>2. DOMAIN response[n] = {1} /\ response[n][1] = r
        BY <3>1
      <3>3. response[n] = <<"ACCEPTED">> <=> r = "ACCEPTED"
        BY <3>1
      <3> QED BY <2>1, <3>2, <3>3
    <2> QED BY <2>2, <2>3 DEF Inv, GlobalInv, EffectsAgree
  <1> QED BY <1>1, DeliveryInvariant, PTL

\* Only the resume command sets a waiting Run going.
LEMMA OnlyResume ==
    ASSUME Inv, Next, X = "WAITING", X' = "READY"
    PROVE  response' = response /\ T' = T
  <1>1. X' # X
    OBVIOUS
  <1>2. stepState' # stepState /\ ~UNCHANGED storeVars
    BY <1>1 DEF X, storeVars
  <1>3. PICK p \in Proc : \/ StartDelivery(p) \/ Recover(p) \/ Expire(p) \/ Resume(p)
                          \/ Claim(p) \/ Start(p) \/ Publish(p) \/ Fail(p)
    BY <1>2
    DEF Next, Acquire, LoseLock, Crash, Check, Deliver, Enter, Register, Inspect, Send, Tick,
        TargetBegins, LeaseTick, DeadlinePasses
  <1>4. response' = response \/ SucceedAttempt(Report, call[p].claim)
    BY <1>2, <1>3
    DEF StartDelivery, Recover, Expire, Resume, Claim, Start, Publish, Fail, RecordAcceptance
  <1>5. response' = response
    BY <1>4 DEF SucceedAttempt, X
  <1>6. T' = T \/ Claimable(Report) \/ ExpireDeadline(Report)
    <2>0. \A n : /\ StartRun(Delivery) => T' = T
                 /\ RecoverExpired(Report, n) => T' = T
                 /\ ResumeWaiting(Report) => T' = T
                 /\ StartAttempt(Report, n) => T' = T
                 /\ SucceedAttempt(Report, n) => T' = T
                 /\ FailAttempt(Report, n, TRUE, FALSE) => T' = T
      BY DEF StartRun, RecoverExpired, ResumeWaiting, StartAttempt, SucceedAttempt,
             FailAttempt, T
    <2>1. CASE StartDelivery(p)
      BY <1>2, <2>0, <2>1 DEF StartDelivery
    <2>2. CASE Recover(p)
      BY <1>2, <2>0, <2>2 DEF Recover
    <2>3. CASE Resume(p)
      BY <1>2, <2>0, <2>3 DEF Resume
    <2>4. CASE Expire(p)
      BY <1>2, <2>0, <2>4 DEF Expire
    <2>5. CASE Claim(p)
      BY <1>2, <2>0, <2>5 DEF Claim
    <2>6. CASE Start(p)
      BY <1>2, <2>0, <2>6 DEF Start
    <2>7. CASE Publish(p)
      BY <1>2, <2>0, <2>7 DEF Publish, RecordAcceptance
    <2>8. CASE Fail(p)
      BY <1>2, <2>0, <2>8 DEF Fail
    <2> QED BY <1>3, <2>1, <2>2, <2>3, <2>4, <2>5, <2>6, <2>7, <2>8
  <1> QED BY <1>5, <1>6 DEF Claimable, ExpireDeadline, DeadlineExpired, X

\* A Run that waits for reconciliation goes on only after proof of absence.
THEOREM ResumeProven == Spec => ResumeHasProof
  <1>1. Inv /\ Inv' /\ [Next]_vars =>
          [ stepState[Report] = "WAITING" /\ stepState'[Report] = "READY"
            => ProvenAbsent(tried[Report]) ]_vars
    <2> SUFFICES ASSUME Inv, Inv', Next, X = "WAITING", X' = "READY"
                 PROVE  ProvenAbsent(T)
      BY DEF X, T
    <2>1. response' = response /\ T' = T
      BY OnlyResume
    <2>2. PICK n \in AttemptNo : n = T /\ T > 0 /\ n \in 1..T
      BY NumberFacts DEF Inv, GlobalInv, RowsAgree
    <2>3. Settled(n)'
      BY <2>1, <2>2 DEF Inv, GlobalInv, TriedIsSettled
    <2>4. n \in started /\ started \subseteq started'
      <3>1. n \in started
        BY <2>2 DEF Inv, GlobalInv, RowsAgree
      <3>2. started \subseteq started'
        BY DEF Next, Acquire, LoseLock, Crash, Check, Deliver, Enter, Register, StartDelivery,
               Recover, Expire, Inspect, Resume, Claim, Start, Send, Publish, Fail, Tick,
               TargetBegins, keyVars
      <3> QED BY <3>1, <3>2
    <2>5. ProvenAbsent(n)
      BY <2>1, <2>3, <2>4 DEF Settled, ProvenAbsent
    <2> QED BY <2>2, <2>5
  <1> QED BY <1>1, DeliveryInvariant, PTL DEF Spec, ResumeHasProof

-----------------------------------------------------------------------------
(* The delivery as one caller of the store among others.                   *)

\* What a process presents at a point where it has a claim is a claim.
LEMMA PresentsClaim ==
    ASSUME Inv, NEW p \in Proc, call[p].pc \in HasClaim
    PROVE  call[p].claim \in AttemptNo
  BY NumberFacts DEF Inv, ProcessInv, Knows

LEMMA DeliverObeys ==
    ASSUME Inv, NEW p \in Proc, Deliver(p)
    PROVE  [StoreNext]_storeVars
  <1>1. CASE Enter(p) \/ Register(p) \/ Inspect(p) \/ Send(p)
    BY <1>1 DEF Enter, Register, Inspect, Send
  <1>2. CASE StartDelivery(p)
    BY <1>2, Basics DEF StartDelivery, StoreNext
  <1>3. CASE Recover(p)
    <2>1. current[Report] # 0 => current[Report] \in AttemptNo
      BY Basics DEF Inv, Types, StoreInv, StoreTypeOK
    <2>2. UNCHANGED storeVars \/ \E n \in AttemptNo : RecoverExpired(Report, n)
      BY <1>3, <2>1 DEF Recover
    <2> QED BY <2>2, Basics DEF StoreNext, AttemptStep
  <1>4. CASE Expire(p)
    BY <1>4, Basics DEF Expire, StoreNext, RowStep
  <1>5. CASE Resume(p)
    BY <1>5, Basics DEF Resume, StoreNext, RowStep
  <1>6. CASE Claim(p)
    BY <1>6, Basics DEF Claim, Claimable, StoreNext, RowStep, TakeClaim
  <1>7. CASE Start(p) \/ Publish(p) \/ Fail(p)
    <2>1. call[p].claim \in AttemptNo
      BY <1>7, PresentsClaim DEF Start, Publish, Fail, At, HasClaim
    <2>2. \/ UNCHANGED storeVars
          \/ StartAttempt(Report, call[p].claim)
          \/ SucceedAttempt(Report, call[p].claim)
          \/ FailAttempt(Report, call[p].claim, TRUE, FALSE)
      BY <1>7 DEF Start, Publish, Fail, RecordAcceptance
    <2> QED BY <2>1, <2>2, Basics DEF StoreNext, AttemptStep
  <1> QED BY <1>1, <1>2, <1>3, <1>4, <1>5, <1>6, <1>7 DEF Deliver

\* Every step of a delivery is a step of the store that its callers may take.
THEOREM DeliveryObeysStore == Spec => StoreSpec
  <1>1. Init => StoreInit
    BY DEF Init
  <1>2. Inv /\ [Next]_vars => [StoreNext]_storeVars
    <2> SUFFICES ASSUME Inv, [Next]_vars PROVE [StoreNext]_storeVars
      OBVIOUS
    <2>1. CASE Tick
      BY <2>1, Basics DEF Tick, StoreNext, TimeStep
    <2>2. CASE TargetBegins \/ UNCHANGED vars
      BY <2>2 DEF TargetBegins, vars
    <2>3. ASSUME NEW p \in Proc, Acquire(p) \/ LoseLock(p) \/ Crash(p) \/ Check(p)
          PROVE  UNCHANGED storeVars
      BY <2>3 DEF Acquire, LoseLock, Crash, Check
    <2> QED BY <2>1, <2>2, <2>3, DeliverObeys DEF Next
  <1> QED BY <1>1, <1>2, DeliveryInvariant, PTL DEF Spec, StoreSpec

\* So the delivery Run is a history of the ledger: the report is handed out to
\* one claim at a time, within its budget, and the Run ends once.
THEOREM DeliveryIsLedger == Spec => ImplementsLedger
BY DeliveryObeysStore, StoreIsLedger, PTL

\* No command, replay or resume takes the report back to where it was.
THEOREM DeliveryGoesOn == Spec => StepsGoForward
BY DeliveryObeysStore, StoreForward, PTL

-----------------------------------------------------------------------------
(* The loop of deliver goes forward.  A replayed resume would lead it round *)
(* in circles if the Run still waited for the Attempt of the receipt.       *)

\* A call that leaves after the expiry does nothing else.
Leaves(p) == call[p].leaving => call[p].pc \in {"RESUME", "RECOVER", "EXPIRE"}

\* Only what waited has been resumed, and what waits has not.
LoopInv ==
    /\ \A p \in Proc : Leaves(p)
    /\ \A n \in resumed \ {0} : n \in AttemptNo /\ State(n) = "RECONCILIATION_REQUIRED"
    /\ X = "WAITING" => T \notin resumed

\* Process p moves, and out or forward.
Down(p) ==
    /\ Moves(p)
    /\ call'[p] = Outside \/ (Leaves(p)' /\ Before(Left(p)', Left(p)))

LEMMA AheadOf ==
    /\ Ahead["REGISTER"] = 4 /\ Ahead["START_RUN"] = 3
    /\ Ahead["RECOVER"] = 2 /\ Ahead["EXPIRE"] = 1
    /\ Ahead["INSPECT"] = 4 /\ Ahead["RESUME"] = 3 /\ Ahead["CLAIM"] = 2
    /\ Ahead["START"] = 4 /\ Ahead["SEND"] = 3
    /\ Ahead["PUBLISH"] = 2 /\ Ahead["FAIL"] = 1 /\ Ahead["OUT"] = 0
  BY DEF Ahead

\* The parts of what is left are natural numbers, before a step and after it.
LEMMA LeftTypes ==
    ASSUME Types, Types', NEW p \in Proc
    PROVE  /\ MaxSends - call[p].sends \in Nat /\ Way(p) \in Nat
           /\ Unresumed(p) \in Nat /\ Place(p) \in Nat
           /\ MaxSends - call'[p].sends \in Nat /\ Way(p)' \in Nat
           /\ Unresumed(p)' \in Nat /\ Place(p)' \in Nat
  <1>1. /\ call[p] \in Calls /\ tried[Report] \in 0..MaxBudget
        /\ call'[p] \in Calls /\ tried'[Report] \in 0..MaxBudget
        /\ MaxSends \in 1..3 /\ MaxBudget \in Nat
    BY Basics, DeliveryAssumption DEF Types, TypeOK, StoreTypeOK
  <1>2. /\ Ahead[call[p].pc] \in Nat /\ Ahead[call'[p].pc] \in Nat
    BY <1>1, AheadOf DEF Calls, Guarded
  <1> QED BY <1>1, <1>2 DEF Calls, Way, Unresumed, Place

LEMMA Lexicographic ==
    ASSUME NEW a1 \in Nat, NEW a2 \in Nat, NEW a3 \in Nat, NEW a4 \in Nat,
           NEW b1 \in Nat, NEW b2 \in Nat, NEW b3 \in Nat, NEW b4 \in Nat,
           \/ a1 < b1
           \/ a1 = b1 /\ a2 < b2
           \/ a1 = b1 /\ a2 = b2 /\ a3 < b3
           \/ a1 = b1 /\ a2 = b2 /\ a3 = b3 /\ a4 < b4
    PROVE  Before(<<a1, a2, a3, a4>>, <<b1, b2, b3, b4>>)
  <1>1. CASE a1 < b1
    BY <1>1 DEF Before
  <1>2. CASE a1 = b1 /\ a2 < b2
    BY <1>2 DEF Before
  <1>3. CASE a1 = b1 /\ a2 = b2 /\ a3 < b3
    BY <1>3 DEF Before
  <1>4. CASE a1 = b1 /\ a2 = b2 /\ a3 = b3 /\ a4 < b4
    BY <1>4 DEF Before
  <1> QED BY <1>1, <1>2, <1>3, <1>4

\* What it takes to have less left.
LEMMA LeftFalls ==
    ASSUME Types, Types', NEW p \in Proc,
           \/ call'[p].sends = call[p].sends + 1
           \/ /\ call'[p].sends = call[p].sends
              /\ \/ Way(p)' < Way(p)
                 \/ Way(p)' = Way(p) /\ Unresumed(p)' < Unresumed(p)
                 \/ Way(p)' = Way(p) /\ Unresumed(p)' = Unresumed(p) /\ Place(p)' < Place(p)
    PROVE  Before(Left(p)', Left(p))
  <1>1. call[p].sends \in Nat /\ MaxSends \in Nat
    BY CallTypes
  <1> DEFINE a1 == MaxSends - call'[p].sends
             b1 == MaxSends - call[p].sends
  <1>2. \/ a1 < b1
        \/ a1 = b1 /\ Way(p)' < Way(p)
        \/ a1 = b1 /\ Way(p)' = Way(p) /\ Unresumed(p)' < Unresumed(p)
        \/ /\ a1 = b1 /\ Way(p)' = Way(p) /\ Unresumed(p)' = Unresumed(p)
           /\ Place(p)' < Place(p)
    BY <1>1
  <1>3. a1 \in Nat /\ b1 \in Nat
    BY LeftTypes
  <1> HIDE DEF a1, b1
  <1>4. Before(<<a1, Way(p)', Unresumed(p)', Place(p)'>>, <<b1, Way(p), Unresumed(p), Place(p)>>)
    BY <1>2, <1>3, LeftTypes, Lexicographic
  <1> QED BY <1>4 DEF a1, b1, Left

\* Past its check, a call goes to a place further on.
LEMMA GotoFalls ==
    ASSUME Types, Types', NEW p \in Proc, NEW pc \in Guarded, Goto(p, pc),
           call[p].pc \notin {"INSPECT", "RESUME", "CLAIM"},
           pc \notin {"INSPECT", "RESUME", "CLAIM"},
           Ahead[pc] < Ahead[call[p].pc], call[p].checked,
           call[p].leaving => pc \in {"RECOVER", "EXPIRE"}
    PROVE  Down(p)
  <1>1. /\ Moves(p) /\ call'[p].pc = pc /\ call'[p].checked = FALSE
        /\ call'[p].leaving = call[p].leaving /\ call'[p].sends = call[p].sends
    BY GotoMoves
  <1>2. Way(p)' = Way(p) /\ Unresumed(p)' = Unresumed(p)
    BY <1>1 DEF Way, Unresumed
  <1>3. Place(p)' < Place(p)
    <2>1. Ahead[pc] \in Nat /\ Ahead[call[p].pc] \in Nat
      BY AheadOf, CallTypes DEF Guarded
    <2> QED BY <1>1, <2>1 DEF Place
  <1>4. Leaves(p)'
    BY <1>1 DEF Leaves
  <1> QED BY <1>1, <1>2, <1>3, <1>4, LeftFalls DEF Down

\* What comes before and after a claim leads into the loop.
LEMMA LoopFalls ==
    ASSUME Types, Types', NEW p \in Proc, Goto(p, "INSPECT"),
           call[p].pc \notin {"INSPECT", "RESUME", "CLAIM"}, ~call[p].leaving
    PROVE  Down(p)
  <1>1. /\ Moves(p) /\ call'[p].pc = "INSPECT"
        /\ call'[p].leaving = call[p].leaving /\ call'[p].sends = call[p].sends
    BY GotoMoves
  <1>2. Way(p)' < Way(p)
    BY <1>1 DEF Way
  <1>3. Leaves(p)'
    BY <1>1 DEF Leaves
  <1> QED BY <1>1, <1>2, <1>3, LeftFalls DEF Down

LEMMA ReturnFalls ==
    ASSUME Types, NEW p \in Proc, Return(p)
    PROVE  Down(p)
  BY ReturnMoves DEF Down

LEMMA WayThrough ==
    ASSUME Inv, Types', LoopInv, NEW p \in Proc,
           \/ Register(p) \/ StartDelivery(p) \/ Recover(p) \/ Expire(p)
           \/ Start(p) \/ Publish(p) \/ Fail(p)
    PROVE  Down(p)
  <1> USE AheadOf DEF Guarded, Leaves, At
  <1>1. Types /\ Leaves(p)
    BY DEF Inv, LoopInv
  <1>2. CASE Register(p)
    BY <1>1, <1>2, GotoFalls DEF Register
  <1>3. CASE StartDelivery(p)
    BY <1>1, <1>3, GotoFalls DEF StartDelivery
  <1>4. CASE Recover(p)
    <2>1. Goto(p, "EXPIRE") \/ Return(p)
      BY <1>4 DEF Recover
    <2>2. call[p].pc = "RECOVER" /\ call[p].checked
      BY <1>4 DEF Recover
    <2> QED BY <1>1, <2>1, <2>2, GotoFalls, ReturnFalls
  <1>5. CASE Expire(p)
    <2>1. Return(p) \/ (Goto(p, "INSPECT") /\ ~call[p].leaving)
      BY <1>5 DEF Expire, ToLoop
    <2>2. call[p].pc = "EXPIRE"
      BY <1>5 DEF Expire
    <2> QED BY <1>1, <2>1, <2>2, LoopFalls, ReturnFalls
  <1>6. CASE Start(p)
    <2>1. Goto(p, "SEND") \/ Return(p)
      BY <1>6 DEF Start
    <2>2. call[p].pc = "START" /\ call[p].checked
      BY <1>6 DEF Start
    <2> QED BY <1>1, <2>1, <2>2, GotoFalls, ReturnFalls
  <1>7. CASE Publish(p)
    <2>1. Goto(p, "FAIL") \/ Return(p)
      BY <1>7 DEF Publish
    <2>2. call[p].pc = "PUBLISH" /\ call[p].checked
      BY <1>7 DEF Publish
    <2> QED BY <1>1, <2>1, <2>2, GotoFalls, ReturnFalls
  <1>8. CASE Fail(p)
    <2>1. Goto(p, "INSPECT") \/ Return(p)
      BY <1>8 DEF Fail
    <2>2. call[p].pc = "FAIL"
      BY <1>8 DEF Fail
    <2> QED BY <1>1, <2>1, <2>2, LoopFalls, ReturnFalls
  <1> QED BY <1>2, <1>3, <1>4, <1>5, <1>6, <1>7, <1>8

\* The message goes out and its answer is brought in.
LEMMA SendFalls ==
    ASSUME Inv, Types', LoopInv, NEW p \in Proc, Send(p)
    PROVE  Down(p)
  <1>1. PICK r \in Outcomes :
            call' = [call EXCEPT ![p] = [@ EXCEPT !.pc = "PUBLISH", !.checked = FALSE, !.result = r]]
    BY DEF Send, Outcomes
  <1> DEFINE c == [call[p] EXCEPT !.pc = "PUBLISH", !.checked = FALSE, !.result = r]
  <1>2. call[p] \in Calls /\ call \in [Proc -> Calls]
    BY DEF Inv, Types, TypeOK
  <1>3. /\ c.pc = "PUBLISH" /\ c.checked = FALSE /\ c.leaving = call[p].leaving
        /\ c.sends = call[p].sends
    BY <1>2 DEF Calls
  <1>4. call' = [call EXCEPT ![p] = c]
    BY <1>1
  <1> HIDE DEF c
  <1>5. Moves(p) /\ call'[p] = c
    BY <1>2, <1>4 DEF Moves, Types, TypeOK
  <1>6. call[p].pc = "SEND" /\ call[p].checked /\ ~call[p].leaving
    BY DEF Send, At, LoopInv, Leaves
  <1>7. Way(p)' = Way(p) /\ Unresumed(p)' = Unresumed(p) /\ Place(p)' < Place(p)
    BY <1>3, <1>5, <1>6, AheadOf DEF Way, Unresumed, Place
  <1> QED BY <1>3, <1>5, <1>6, <1>7, LeftFalls DEF Down, Leaves, Inv

\* A claim uses up a send.
LEMMA ClaimFalls ==
    ASSUME Inv, Types', LoopInv, NEW p \in Proc, Claim(p)
    PROVE  Down(p)
  <1>1. call[p].pc = "CLAIM" /\ call[p].sends < MaxSends /\ ~call[p].leaving
    BY DEF Claim, At, Inv, ProcessInv, Knows, HasClaim, LoopInv, Leaves
  <1>2. CASE Return(p)
    BY <1>2, ReturnFalls DEF Inv
  <1>3. ASSUME NEW n, call' = [call EXCEPT ![p].pc = "START", ![p].checked = FALSE,
                                           ![p].claim = n, ![p].sends = @ + 1]
        PROVE  Down(p)
    <2> DEFINE c == [call[p] EXCEPT !.pc = "START", !.checked = FALSE, !.claim = n,
                                    !.sends = call[p].sends + 1]
    <2>1. call[p] \in Calls /\ call \in [Proc -> Calls]
      BY DEF Inv, Types, TypeOK
    <2>2. c.sends = call[p].sends + 1 /\ c.leaving = call[p].leaving
      BY <2>1 DEF Calls
    <2>3. call' = [call EXCEPT ![p] = c]
      BY <1>3
    <2> HIDE DEF c
    <2>4. Moves(p) /\ call'[p] = c
      BY <2>1, <2>3 DEF Moves, Types, TypeOK
    <2> QED BY <1>1, <2>2, <2>4, LeftFalls DEF Down, Leaves, Inv
  <1> QED BY <1>2, <1>3 DEF Claim

\* From the top of the loop to a claim, out, or to the resume of an Attempt that
\* has not been resumed.
LEMMA InspectFalls ==
    ASSUME Inv, Types', LoopInv, NEW p \in Proc, Inspect(p)
    PROVE  Down(p)
  <1>1. CASE Return(p)
    BY <1>1, ReturnFalls DEF Inv
  <1>2. CASE ~Return(p)
    <2>1. PICK v \in {"LEAVE", "RESUME", "CLAIM"} : v = Verdict
      BY <1>2 DEF Inspect, Verdict
    <2> DEFINE c == [call[p] EXCEPT !.pc = IF v = "LEAVE" THEN "RESUME" ELSE v,
                                    !.leaving = (v = "LEAVE"),
                                    !.fence = fence[Report], !.attempts = tried[Report]]
    <2>2. call' = [call EXCEPT ![p] = c]
      BY <1>2, <2>1 DEF Inspect
    <2>3. call[p] \in Calls /\ call \in [Proc -> Calls]
      BY DEF Inv, Types, TypeOK
    <2>4. /\ c.attempts = T /\ c.checked = call[p].checked /\ c.sends = call[p].sends
          /\ c.leaving = (v = "LEAVE") /\ c.pc = (IF v = "LEAVE" THEN "RESUME" ELSE v)
      BY <2>3 DEF Calls, T
    <2> HIDE DEF c
    <2>5. Moves(p) /\ call'[p] = c
      BY <2>2, <2>3 DEF Moves, Types, TypeOK
    <2>6. /\ call[p].pc = "INSPECT" /\ ~call[p].leaving /\ ~call[p].checked
          /\ UNCHANGED <<tried, resumed>>
      BY DEF Inspect, storeVars, keyVars, LoopInv, Leaves, Inv, ProcessInv, Knows
    <2>7. v = "RESUME" => T \notin resumed
      BY <2>1 DEF Verdict, LoopInv, Inv, GlobalInv, RowsAgree
    <2>8. Way(p) = 1
      BY <2>6 DEF Way
    <2>9. CASE v = "LEAVE"
      <3>1. Way(p)' = 0
        BY <2>4, <2>5, <2>9 DEF Way
      <3> QED BY <2>4, <2>5, <2>8, <2>9, <3>1, LeftFalls DEF Down, Leaves, Inv
    <2>10. CASE v = "CLAIM"
      <3>1. Way(p)' = 1 /\ Unresumed(p)' = 0
        BY <2>4, <2>5, <2>10 DEF Way, Unresumed
      <3>2. Place(p)' < Place(p)
        BY <2>4, <2>5, <2>6, <2>10, AheadOf DEF Place
      <3>3. Unresumed(p)' < Unresumed(p) \/ Unresumed(p)' = Unresumed(p)
        BY <3>1, LeftTypes DEF Inv
      <3> QED BY <2>4, <2>5, <2>8, <2>10, <3>1, <3>2, <3>3, LeftFalls DEF Down, Leaves, Inv
    <2>11. CASE v = "RESUME"
      <3>1. Way(p)' = 1 /\ Unresumed(p)' = Unresumed(p)
        BY <2>4, <2>5, <2>6, <2>7, <2>11 DEF Way, Unresumed, T
      <3>2. Place(p)' < Place(p)
        BY <2>4, <2>5, <2>6, <2>11, AheadOf DEF Place
      <3> QED BY <2>4, <2>5, <2>8, <2>11, <3>1, <3>2, LeftFalls DEF Down, Leaves, Inv
    <2> QED BY <2>9, <2>10, <2>11
  <1> QED BY <1>1, <1>2

\* A resume, replayed or not, leaves an Attempt behind that has been resumed.
LEMMA ResumeFalls ==
    ASSUME Inv, Types', LoopInv, NEW p \in Proc, Resume(p), T' = T
    PROVE  Down(p)
  <1>1. CASE Return(p)
    BY <1>1, ReturnFalls DEF Inv
  <1>2. CASE call[p].leaving /\ ~Return(p)
    <2>1. Goto(p, "RECOVER")
      BY <1>2 DEF Resume
    <2>2. /\ Moves(p) /\ call'[p].pc = "RECOVER" /\ call'[p].leaving
          /\ call'[p].sends = call[p].sends
      BY <1>2, <2>1, GotoMoves DEF Guarded, Inv
    <2>3. Way(p)' = Way(p) /\ Unresumed(p)' < Unresumed(p)
      BY <1>2, <2>2, CallTypes, Basics DEF Way, Unresumed, Resume, At, Inv
    <2> QED BY <2>2, <2>3, LeftFalls DEF Down, Leaves, Inv
  <1>3. CASE ~call[p].leaving /\ ~Return(p)
    <2>1. Goto(p, "INSPECT") /\ call[p].attempts \in resumed'
      BY <1>3 DEF Resume, ResumeReplays
    <2>2. /\ Moves(p) /\ call'[p].pc = "INSPECT" /\ ~call'[p].leaving
          /\ call'[p].sends = call[p].sends
      BY <1>3, <2>1, GotoMoves DEF Inv
    <2>3. call[p].pc = "RESUME" /\ call[p].attempts \in 1..T
      BY DEF Resume, At, Inv, ProcessInv, Knows
    <2>4. T \in Nat /\ T <= MaxBudget /\ MaxBudget \in Nat
      BY NumberFacts DEF Inv
    <2>5. Way(p)' = Way(p)
      BY <1>3, <2>2, <2>3 DEF Way
    <2>6. Unresumed(p)' < Unresumed(p)
      <3>1. Unresumed(p) = 2 * (MaxBudget - call[p].attempts) + 1
        BY <2>3 DEF Unresumed
      <3>2. CASE call[p].attempts = T
        <4>1. Unresumed(p)' = 2 * (MaxBudget - T)
          BY <2>1, <2>2, <2>4, <3>2 DEF Unresumed, T
        <4> QED BY <2>4, <3>1, <3>2, <4>1
      <3>3. CASE call[p].attempts # T
        <4>1. Unresumed(p)' <= 2 * (MaxBudget - T) + 1
          BY <2>2, <2>4 DEF Unresumed, T
        <4>2. call[p].attempts < T
          BY <2>3, <2>4, <3>3
        <4> QED BY <2>3, <2>4, <3>1, <4>1, <4>2, LeftTypes DEF Inv
      <3> QED BY <3>2, <3>3
    <2> QED BY <2>2, <2>5, <2>6, LeftFalls DEF Down, Leaves, Inv
  <1> QED BY <1>1, <1>2, <1>3

\* A check brings a call one forward, or out.
LEMMA CheckFalls ==
    ASSUME Inv, Types', LoopInv, NEW p \in Proc, Check(p)
    PROVE  Down(p)
  <1>1. CASE Return(p)
    BY <1>1, ReturnFalls DEF Inv
  <1>2. CASE call' = [call EXCEPT ![p].checked = TRUE]
    <2>1. /\ Moves(p) /\ ~call[p].checked /\ call'[p].checked
          /\ call'[p].pc = call[p].pc /\ call'[p].leaving = call[p].leaving
          /\ call'[p].sends = call[p].sends /\ call'[p].attempts = call[p].attempts
      BY <1>2 DEF Check, Moves, Inv, Types, TypeOK, Calls
    <2>2. UNCHANGED <<tried, resumed>>
      BY DEF Check, storeVars, keyVars
    <2>3. Way(p)' = Way(p) /\ Unresumed(p)' = Unresumed(p)
      BY <2>1, <2>2 DEF Way, Unresumed
    <2>4. Place(p)' < Place(p)
      <3>1. Ahead[call[p].pc] \in Nat
        BY AheadOf, CallTypes DEF Guarded, Inv
      <3> QED BY <2>1, <3>1 DEF Place
    <2> QED BY <2>1, <2>3, <2>4, LeftFalls DEF Down, Leaves, Inv, LoopInv
  <1> QED BY <1>1, <1>2 DEF Check

-----------------------------------------------------------------------------
(* Every step of the system.                                               *)
\* The store's part: no Attempt is taken back, and what begins to wait was running.
LEMMA RowsGoOn ==
    ASSUME Inv, Inv', NEW p \in Proc, Deliver(p)
    PROVE  /\ T <= T'
           /\ \A n \in AttemptNo : State(n) = "RECONCILIATION_REQUIRED" => State(n)' = State(n)
  <1>1. [StoreNext]_storeVars /\ StoreInv
    BY DeliverObeys DEF Inv, Types
  <1>2. GoesForward(Report)
    BY <1>1, ForwardStep, Basics
  <1>3. T \in Nat /\ T' \in Nat
    BY Basics DEF Inv, Types, TypeOK, StoreTypeOK, T
  <1>4. T <= T'
    BY <1>2, <1>3 DEF GoesForward, T
  <1>5. ASSUME NEW n \in AttemptNo, State(n) = "RECONCILIATION_REQUIRED"
        PROVE  State(n)' = State(n)
    <2>1. Ended(Report, n)
      BY <1>5 DEF Ended, State, LiveStates
    <2> QED BY <1>1, <2>1, EndsOnceStep, Basics DEF State
  <1> QED BY <1>4, <1>5

\* A Run that waits after a step waited before it, or its Attempt was running.
LEMMA WaitsAnew ==
    ASSUME Inv, NEW p \in Proc, Deliver(p), X' = "WAITING"
    PROVE  T' = T /\ (X = "WAITING" \/ (T \in AttemptNo /\ State(T) = "RUNNING"))
  <1>1. CASE UNCHANGED storeVars
    BY <1>1 DEF storeVars, X, T
  <1>2. CASE ~UNCHANGED storeVars
    <2>1. CASE StartDelivery(p)
      BY <1>2, <2>1, StartRunRow DEF StartDelivery, Inv
    <2>2. CASE Recover(p)
      <3>1. RecoverExpired(Report, current[Report]) /\ current[Report] # 0
        BY <1>2, <2>2 DEF Recover
      <3>2. current[Report] \in AttemptNo
        BY <3>1, Basics DEF Inv, Types, StoreInv, StoreTypeOK
      <3> QED BY <3>1, <3>2, RecoverRow DEF Inv
    <2>3. CASE Expire(p)
      BY <1>2, <2>3, ExpireRow DEF Expire, Inv, GlobalInv
    <2>4. CASE Resume(p)
      BY <1>2, <2>4, ResumeRow DEF Resume, Inv
    <2>5. CASE Claim(p)
      BY <1>2, <2>5, ClaimRow DEF Claim, Inv
    <2>6. CASE Start(p)
      <3>1. call[p].claim \in AttemptNo
        BY <2>6, PresentsClaim DEF Start, At, HasClaim
      <3> QED BY <1>2, <2>6, <3>1, BeginRow DEF Start, Inv
    <2>7. CASE Publish(p)
      <3>1. call[p].claim \in AttemptNo
        BY <2>7, PresentsClaim DEF Publish, At, HasClaim
      <3> QED BY <1>2, <2>7, <3>1, SucceedRow DEF Publish, RecordAcceptance, Inv
    <2>8. CASE Fail(p)
      <3>1. call[p].claim \in AttemptNo
        BY <2>8, PresentsClaim DEF Fail, At, HasClaim
      <3> QED BY <1>2, <2>8, <3>1, FailRow DEF Fail, Inv
    <2> QED BY <1>2, <2>1, <2>2, <2>3, <2>4, <2>5, <2>6, <2>7, <2>8
            DEF Deliver, Enter, Register, Inspect, Send
  <1> QED BY <1>1, <1>2

\* Within deliver every step of a process brings it forward or out.
LEMMA DeliverFalls ==
    ASSUME Inv, Inv', LoopInv, NEW p \in Proc, Deliver(p), call[p] # Outside
    PROVE  Down(p)
  <1>1. Types'
    BY DEF Inv
  <1>2. CASE Resume(p)
    <2>1. T' = T
      <3>1. CASE UNCHANGED storeVars
        BY <3>1 DEF storeVars, T
      <3>2. CASE ResumeWaiting(Report)
        BY <3>2, ResumeRow DEF Inv
      <3> QED BY <1>2, <3>1, <3>2 DEF Resume
    <2> QED BY <1>1, <1>2, <2>1, ResumeFalls
  <1>3. CASE Inspect(p) \/ Claim(p) \/ Send(p)
    BY <1>1, <1>3, InspectFalls, ClaimFalls, SendFalls
  <1> QED BY <1>1, <1>2, <1>3, WayThrough DEF Deliver, Enter

\* A process enters the loop from outside and moves alone.
LEMMA EnterMoves ==
    ASSUME Inv, NEW p \in Proc, Enter(p)
    PROVE  Moves(p) /\ Leaves(p)'
  <1>1. Goto(p, "REGISTER") /\ ~call[p].leaving
    BY DEF Enter, Outside
  <1> QED BY <1>1, GotoMoves DEF Inv, Guarded, Leaves

LEMMA DeliverMoves ==
    ASSUME Inv, Inv', LoopInv, NEW p \in Proc, Deliver(p)
    PROVE  Moves(p) /\ Leaves(p)'
  <1>1. CASE Enter(p)
    BY <1>1, EnterMoves
  <1>2. CASE call[p] # Outside
    BY <1>2, DeliverFalls DEF Down, Outside, Leaves
  <1>3. CASE call[p] = Outside /\ ~Enter(p)
    BY <1>3 DEF Deliver, Register, StartDelivery, Recover, Expire, Inspect, Resume, Claim,
                Start, Send, Publish, Fail, At, Outside
  <1> QED BY <1>1, <1>2, <1>3

LEMMA LoopKept ==
    ASSUME Inv, Inv', LoopInv, NEW p \in Proc, Deliver(p)
    PROVE  LoopInv'
  <1>1. Moves(p) /\ Leaves(p)'
    BY DeliverMoves
  <1>2. \A q \in Proc : Leaves(q)'
    BY <1>1 DEF Moves, LoopInv, Leaves
  <1>3. resumed' = resumed \/ (Resume(p) /\ ResumeWaiting(Report))
    BY DEF Deliver, Enter, Register, StartDelivery, Recover, Expire, Inspect, Resume, Claim, Start,
           Send, Publish, Fail, keyVars
  <1>4. resumed' \subseteq resumed \cup {0, call[p].attempts}
    BY <1>3 DEF Resume
  <1>5. Resume(p) /\ ~call[p].leaving =>
            call[p].attempts \in AttemptNo /\ State(call[p].attempts) = "RECONCILIATION_REQUIRED"
    BY NumberFacts DEF Resume, At, Inv, ProcessInv, Knows
  <1>6. resumed' \subseteq resumed \cup {0} \/ (Resume(p) /\ ~call[p].leaving)
    BY <1>3 DEF Resume
  <1>7. \A n \in resumed' \ {0} : n \in AttemptNo /\ State(n) = "RECONCILIATION_REQUIRED"
    BY <1>4, <1>5, <1>6 DEF LoopInv
  <1>8. \A n \in resumed' \ {0} : n \in AttemptNo /\ State(n)' = "RECONCILIATION_REQUIRED"
    BY <1>7, RowsGoOn
  <1>9. X' = "WAITING" => T' \notin resumed'
    <2> SUFFICES ASSUME X' = "WAITING" PROVE T' \notin resumed'
      OBVIOUS
    <2>1. T' = T /\ (X = "WAITING" \/ (T \in AttemptNo /\ State(T) = "RUNNING"))
      BY WaitsAnew
    <2>2. resumed' = resumed
      BY <1>3, ResumeRow DEF Inv
    <2>3. CASE X = "WAITING"
      BY <2>1, <2>2, <2>3 DEF LoopInv
    <2>4. CASE T \in AttemptNo /\ State(T) = "RUNNING"
      BY <2>1, <2>2, <2>4 DEF LoopInv
    <2> QED BY <2>1, <2>3, <2>4
  <1> QED BY <1>2, <1>8, <1>9 DEF LoopInv, State

\* What the others do, a call only sees as an Attempt more or a resume more.
LEMMA Onlooker ==
    ASSUME Types, Types', NEW q \in Proc, call'[q] = call[q], T <= T', resumed \subseteq resumed'
    PROVE  Left(q)' = Left(q) \/ Before(Left(q)', Left(q))
  <1>1. Way(q)' = Way(q) /\ Place(q)' = Place(q) /\ call'[q].sends = call[q].sends
    BY DEF Way, Place
  <1>2. T \in Nat /\ T' \in Nat /\ T <= MaxBudget /\ T' <= MaxBudget /\ MaxBudget \in Nat
    BY Basics DEF Types, TypeOK, StoreTypeOK, T
  <1>3. Unresumed(q)' <= Unresumed(q)
    <2>1. CASE call[q].pc = "INSPECT"
      <3>1. CASE T' = T
        BY <1>2, <2>1, <3>1 DEF Unresumed, T
      <3>2. CASE T < T'
        <4>1. /\ Unresumed(q)' <= 2 * (MaxBudget - T') + 1
              /\ Unresumed(q) >= 2 * (MaxBudget - T)
          BY <1>2, <2>1 DEF Unresumed, T
        <4> QED BY <1>2, <3>2, <4>1, LeftTypes
      <3> QED BY <1>2, <3>1, <3>2
    <2>2. CASE call[q].pc # "INSPECT"
      <3>1. Unresumed(q)' = Unresumed(q)
        BY <2>2 DEF Unresumed
      <3> QED BY <3>1, LeftTypes
    <2> QED BY <2>1, <2>2
  <1>4. CASE Unresumed(q)' < Unresumed(q)
    BY <1>1, <1>4, LeftFalls
  <1>5. CASE Unresumed(q)' = Unresumed(q)
    BY <1>1, <1>5 DEF Left
  <1> QED BY <1>3, <1>4, <1>5, LeftTypes

\* The steps outside deliver write neither the keys nor the number of Attempts.
LEMMA Bystanders ==
    ASSUME \/ Tick \/ TargetBegins \/ UNCHANGED vars
           \/ \E p \in Proc : Acquire(p) \/ LoseLock(p) \/ Crash(p) \/ Check(p)
    PROVE  T' = T /\ resumed' = resumed /\ X' = X /\ \A n : State(n)' = State(n)
  BY DEF Tick, LeaseTick, DeadlinePasses, TargetBegins, vars, Acquire, LoseLock, Crash, Check,
         storeVars, keyVars, T, X, State

LEMMA LoopStep ==
    ASSUME Inv, Inv', LoopInv, [Next]_vars
    PROVE  LoopInv'
  <1>1. ASSUME NEW p \in Proc, Deliver(p)
        PROVE  LoopInv'
    BY <1>1, LoopKept
  <1>2. ASSUME NEW p \in Proc, Acquire(p) \/ LoseLock(p) \/ Crash(p) \/ Check(p)
        PROVE  LoopInv'
    <2>1. \A q \in Proc : Leaves(q)'
      <3>1. CASE Check(p)
        BY <3>1, CheckFalls DEF Inv, Down, Moves, LoopInv, Leaves, Outside
      <3>2. CASE Crash(p)
        BY <3>2, ReturnMoves DEF Inv, Crash, Moves, LoopInv, Leaves, Outside
      <3>3. CASE Acquire(p) \/ LoseLock(p)
        BY <3>3 DEF Acquire, LoseLock, LoopInv, Leaves
      <3> QED BY <1>2, <3>1, <3>2, <3>3
    <2> QED BY <1>2, <2>1, Bystanders DEF LoopInv
  <1>3. CASE Tick \/ TargetBegins \/ UNCHANGED vars
    <2>1. call' = call
      BY <1>3 DEF Tick, TargetBegins, vars
    <2> QED BY <1>3, <2>1, Bystanders DEF LoopInv, Leaves
  <1> QED BY <1>1, <1>2, <1>3 DEF Next

LEMMA LoopInvAlways == Spec => [](Inv /\ LoopInv)
  <1>1. Init => LoopInv
    BY Basics DEF Init, StoreInit, Outside, LoopInv, Leaves, X
  <1>2. Inv /\ Inv' /\ LoopInv /\ [Next]_vars => LoopInv'
    BY LoopStep
  <1> QED BY <1>1, <1>2, DeliveryInvariant, PTL DEF Spec

\* Whatever the loop meets, replayed resumes, other processes and lost locks
\* included, it does not go round: a call that is not stopped comes to its end.
THEOREM LoopGoesForward == Spec => DeliverGoesForward
  <1> DEFINE Forward(p) ==
        call[p] # Outside =>
           \/ call'[p] = Outside
           \/ Before(Left(p)', Left(p))
           \/ call'[p] = call[p] /\ Left(p)' = Left(p)
  <1>1. ASSUME Inv, Inv', LoopInv, Next, NEW q \in Proc
        PROVE  Forward(q)
    <2>0. Types /\ Types' /\ T \in Nat
      BY <1>1, NumberFacts DEF Inv
    <2>1. ASSUME NEW p \in Proc, Deliver(p)
          PROVE  Forward(q)
      <3>1. CASE p = q
        BY <1>1, <2>1, <3>1, DeliverFalls DEF Down
      <3>2. CASE p # q
        <4>1. Moves(p)
          BY <1>1, <2>1, DeliverMoves
        <4>2. call'[q] = call[q]
          BY <3>2, <4>1 DEF Moves
        <4>3. resumed \subseteq resumed'
          BY <2>1 DEF Deliver, Enter, Register, StartDelivery, Recover, Expire, Inspect, Resume,
                      Claim, Start, Send, Publish, Fail, keyVars
        <4>4. T <= T'
          BY <1>1, <2>1, RowsGoOn
        <4> QED BY <2>0, <4>2, <4>3, <4>4, Onlooker
      <3> QED BY <3>1, <3>2
    <2>2. ASSUME NEW p \in Proc, Acquire(p) \/ LoseLock(p) \/ Crash(p) \/ Check(p)
          PROVE  Forward(q)
      <3>1. call'[q] = call[q] => Forward(q)
        BY <2>0, <2>2, Bystanders, Onlooker
      <3>2. CASE Check(p)
        BY <1>1, <2>0, <3>1, <3>2, CheckFalls DEF Down, Moves
      <3>3. CASE Crash(p)
        BY <2>0, <3>1, <3>3, ReturnMoves DEF Crash, Moves
      <3>4. CASE Acquire(p) \/ LoseLock(p)
        BY <3>1, <3>4 DEF Acquire, LoseLock
      <3> QED BY <2>2, <3>2, <3>3, <3>4
    <2>3. CASE Tick \/ TargetBegins
      <3>1. call' = call
        BY <2>3 DEF Tick, TargetBegins
      <3> QED BY <2>0, <2>3, <3>1, Bystanders, Onlooker
    <2> QED BY <1>1, <2>1, <2>2, <2>3 DEF Next
  <1>2. Inv /\ Inv' /\ LoopInv /\ [Next]_vars => [\A p \in Proc : Forward(p)]_vars
    BY <1>1
  <1> QED BY <1>2, LoopInvAlways, PTL DEF Spec, DeliverGoesForward
=============================================================================
