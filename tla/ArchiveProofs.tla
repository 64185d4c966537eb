---------------------------- MODULE ArchiveProofs ----------------------------
(***************************************************************************)
(* The properties of ArchiveCollection, for any number of processes,       *)
(* slices, Runs and Attempts.                                              *)
(***************************************************************************)
EXTENDS ArchiveCollection, StoreProofs

USE DEF AttemptNo

-----------------------------------------------------------------------------
(* Types of the processes.  A process that works on a slice has an Attempt. *)
HasAttempt == Executing \cup {"START", "FAIL"}

WorkIsNamed ==
    \A p \in Proc :
        /\ call[p].pc \in HasAttempt \cup {"CLAIM"} => call[p].slice \in Step
        /\ call[p].pc \in HasAttempt => call[p].claim \in AttemptNo

Types == StoreInv /\ TypeOK /\ WorkIsNamed

\* A process moves, and its local state remains of its type.
Moves(p) ==
    /\ call' \in [Proc -> Calls]
    /\ call'[p].pc \in HasAttempt \cup {"CLAIM"} => call'[p].slice \in Step
    /\ call'[p].pc \in HasAttempt => call'[p].claim \in AttemptNo
    /\ \A q \in Proc \ {p} : call'[q] = call[q]

LEMMA OutsideMoves ==
    ASSUME Types, NEW p \in Proc, Return(p)
    PROVE  Moves(p)
  BY BudgetAssumption
  DEF Types, TypeOK, WorkIsNamed, Return, Moves, Outside, Calls, HasAttempt, Guarded,
      Executing, Answers

\* A process in state c, if c is of its type.
LEMMA ToMoves ==
    ASSUME Types, NEW p \in Proc, NEW c \in Calls, call' = [call EXCEPT ![p] = c],
           c.pc \in HasAttempt \cup {"CLAIM"} => c.slice \in Step,
           c.pc \in HasAttempt => c.claim \in AttemptNo
    PROVE  Moves(p)
  BY DEF Types, TypeOK, Moves

LEMMA ContinueMoves ==
    ASSUME Types, NEW p \in Proc, NEW left \in SUBSET Step, Continue(p, left)
    PROVE  Moves(p)
  <1> DEFINE c == [Outside EXCEPT !.pc = "LOOK", !.due = left]
  <1>1. 0 \in 0..MaxBudget
    BY BudgetAssumption
  <1>3. Outside \in Calls
    BY <1>1 DEF Outside, Calls, Answers
  <1>4. c \in Calls /\ c.pc = "LOOK"
    BY <1>3 DEF Calls
  <1>2. call' = [call EXCEPT ![p] = c]
    BY DEF Continue
  <1> HIDE DEF c
  <1> QED BY <1>2, <1>4, ToMoves DEF HasAttempt, Executing

LEMMA GotoMoves ==
    ASSUME Types, NEW p \in Proc,
           NEW pc \in Guarded \cup Executing \cup {"DUE", "LOOK", "FAIL"}, Goto(p, pc),
           \/ call[p].pc \in HasAttempt
           \/ pc \notin HasAttempt \cup {"CLAIM"}
    PROVE  Moves(p)
  <1> DEFINE c == [call[p] EXCEPT !.pc = pc, !.checked = FALSE]
  <1>1. call[p] \in Calls
    BY DEF Types, TypeOK
  <1>2. c \in Calls /\ c.pc = pc /\ c.slice = call[p].slice /\ c.claim = call[p].claim
    BY <1>1 DEF Calls
  <1>3. call' = [call EXCEPT ![p] = c]
    BY DEF Goto
  <1> HIDE DEF c
  <1> QED BY <1>2, <1>3, ToMoves DEF Types, WorkIsNamed

LEMMA RaiseMoves ==
    ASSUME Types, NEW p \in Proc, NEW why \in {"PROVIDER", "INTEGRITY"}, Raise(p, why),
           call[p].pc \in HasAttempt
    PROVE  Moves(p)
  <1> DEFINE c == [call[p] EXCEPT !.pc = "FAIL", !.checked = FALSE, !.why = why]
  <1>1. call[p] \in Calls
    BY DEF Types, TypeOK
  <1>2. c \in Calls /\ c.slice = call[p].slice /\ c.claim = call[p].claim
    BY <1>1 DEF Calls
  <1>3. call' = [call EXCEPT ![p] = c]
    BY DEF Raise
  <1> HIDE DEF c
  <1> QED BY <1>2, <1>3, ToMoves DEF Types, WorkIsNamed

LEMMA MovesKeep ==
    ASSUME Types, NEW p \in Proc, Moves(p), StoreInv',
           UNCHANGED <<owner, claimed, started, sliceVars>>
    PROVE  Types'
  BY DEF Types, StoreInv, TypeOK, WorkIsNamed, Moves, sliceVars

LEMMA StillKeep ==
    ASSUME Types, UNCHANGED call, StoreInv', UNCHANGED <<claimed, started, sliceVars>>,
           owner' \in Proc \cup {NoProc}
    PROVE  Types'
  BY DEF Types, StoreInv, TypeOK, WorkIsNamed, sliceVars

LEMMA SameStore ==
    ASSUME StoreInv, UNCHANGED storeVars
    PROVE  StoreInv'
  BY DEF StoreInv, StoreTypeOK, OneLiveStepPerRun, CurrentAttemptIsTheLiveOne, FencesGrow,
         LiveRunIsRunning, LiveStep, storeVars

\* The actions of a process that leave the store's rows alone.
LEMMA LocalTypes ==
    ASSUME Types, NEW p \in Proc,
           \/ Acquire(p) \/ LoseLock(p) \/ Crash(p) \/ Check(p) \/ Enter(p) \/ Due(p)
           \/ Look(p) \/ Load(p) \/ Preflight(p) \/ BeforeAsk(p) \/ Falter(p)
    PROVE  Types'
  <1> USE SameStore DEF Types
  <1>1. CASE Acquire(p)
    BY <1>1, StillKeep DEF Acquire, TypeOK
  <1>2. CASE LoseLock(p)
    BY <1>2, StillKeep DEF LoseLock, TypeOK
  <1>3. CASE Crash(p)
    <2>1. Moves(p)
      BY <1>3, OutsideMoves DEF Crash
    <2> QED BY <1>3, <2>1 DEF Crash, TypeOK, StoreInv, WorkIsNamed, Moves, sliceVars
  <1>4. CASE Check(p)
    <2>1. CASE call' = [call EXCEPT ![p].checked = TRUE]
      <3> DEFINE c == [call[p] EXCEPT !.checked = TRUE]
      <3>1. call[p] \in Calls
        BY DEF TypeOK
      <3>2. c \in Calls /\ c.pc = call[p].pc /\ c.slice = call[p].slice /\ c.claim = call[p].claim
        BY <3>1 DEF Calls
      <3>3. call' = [call EXCEPT ![p] = c]
        BY <2>1
      <3> HIDE DEF c
      <3>4. Moves(p)
        BY <3>2, <3>3, ToMoves DEF WorkIsNamed
      <3> QED BY <1>4, <3>4, MovesKeep DEF Check, TypeOK
    <2>2. CASE Return(p)
      BY <1>4, <2>2, OutsideMoves, MovesKeep DEF Check, TypeOK
    <2> QED BY <1>4, <2>1, <2>2 DEF Check
  <1>5. CASE Enter(p)
    <2>1. Moves(p)
      BY <1>5, GotoMoves DEF Enter, Guarded, HasAttempt, Executing
    <2> QED BY <1>5, <2>1, MovesKeep DEF Enter, TypeOK
  <1>6. CASE Due(p)
    <2> DEFINE left == {s \in Step : ~overdue[s] /\ terminal[s] = "NONE"}
               c == [call[p] EXCEPT !.pc = "LOOK", !.due = left]
    <2>1. call[p] \in Calls /\ left \in SUBSET Step
      BY DEF TypeOK
    <2> HIDE DEF left
    <2>2. c \in Calls /\ c.pc = "LOOK"
      BY <2>1 DEF Calls
    <2>3. call' = [call EXCEPT ![p] = c]
      BY <1>6 DEF Due, left
    <2> HIDE DEF c
    <2>4. Moves(p)
      BY <2>2, <2>3, ToMoves DEF HasAttempt, Executing
    <2> QED BY <1>6, <2>4, MovesKeep DEF Due, TypeOK
  <1>7. CASE Look(p)
    <2>1. ASSUME NEW s \in Step,
                 call' = [call EXCEPT ![p].pc = "CLAIM", ![p].slice = s,
                                      ![p].attempts = tried[s]]
          PROVE  Moves(p)
      <3> DEFINE c == [call[p] EXCEPT !.pc = "CLAIM", !.slice = s, !.attempts = tried[s]]
      <3>1. call[p] \in Calls /\ tried[s] \in 0..MaxBudget
        BY DEF TypeOK, StoreTypeOK
      <3>2. c \in Calls /\ c.pc = "CLAIM" /\ c.slice = s
        BY <3>1 DEF Calls, Guarded
      <3>3. call' = [call EXCEPT ![p] = c]
        BY <2>1
      <3> HIDE DEF c
      <3> QED BY <3>2, <3>3, ToMoves DEF HasAttempt, Executing
    <2>2. call[p].due \subseteq Step
      BY DEF TypeOK, Calls
    <2>3. CASE Return(p)
      BY <1>7, <2>3, OutsideMoves, MovesKeep DEF Look, TypeOK
    <2>4. CASE ~Return(p)
      BY <1>7, <2>1, <2>2, <2>4, MovesKeep DEF Look, TypeOK
    <2> QED BY <2>3, <2>4
  <1>8. CASE Load(p)
    <2>1. ASSUME NEW pc \in {"STOP", "PREFLIGHT"}, NEW first \in BOOLEAN,
                 call' = [call EXCEPT ![p].pc = pc, ![p].first = first]
          PROVE  Moves(p)
      <3> DEFINE c == [call[p] EXCEPT !.pc = pc, !.first = first]
      <3>1. call[p] \in Calls
        BY DEF TypeOK
      <3>2. c \in Calls /\ c.slice = call[p].slice /\ c.claim = call[p].claim
        BY <3>1 DEF Calls, Executing
      <3>3. call' = [call EXCEPT ![p] = c]
        BY <2>1
      <3> HIDE DEF c
      <3> QED BY <1>8, <3>2, <3>3, ToMoves DEF Load, WorkIsNamed, HasAttempt, Executing
    <2>2. \A s : Requested(s) \subseteq BOOLEAN
      BY DEF Requested
    <2>3. CASE Goto(p, "RECONCILE")
      BY <1>8, <2>3, GotoMoves, MovesKeep DEF Load, TypeOK, HasAttempt, Executing
    <2>4. CASE ~Goto(p, "RECONCILE")
      BY <1>8, <2>1, <2>2, <2>4, MovesKeep DEF Load, TypeOK
    <2> QED BY <2>3, <2>4
  <1>9. CASE Preflight(p)
    <2>1. \A kind : NextAfter(kind) \in Executing
      BY DEF NextAfter, Executing
    <2>2. \E pc \in Executing : Goto(p, pc)
      BY <1>9, <2>1 DEF Preflight, Executing
    <2>3. Moves(p)
      BY <1>9, <2>2, GotoMoves DEF Preflight, HasAttempt, Executing
    <2> QED BY <1>9, <2>3, MovesKeep DEF Preflight, TypeOK
  <1>10. CASE BeforeAsk(p)
    <2>1. call[p].pc \in HasAttempt
      BY <1>10 DEF BeforeAsk, HasAttempt, Executing
    <2>2. CASE call' = [call EXCEPT ![p].checked = TRUE]
      <3> DEFINE c == [call[p] EXCEPT !.checked = TRUE]
      <3>1. call[p] \in Calls
        BY DEF TypeOK
      <3>2. c \in Calls /\ c.pc = call[p].pc /\ c.slice = call[p].slice /\ c.claim = call[p].claim
        BY <3>1 DEF Calls
      <3>3. call' = [call EXCEPT ![p] = c]
        BY <2>2
      <3> HIDE DEF c
      <3> QED BY <1>10, <3>2, <3>3, ToMoves, MovesKeep DEF WorkIsNamed, BeforeAsk, TypeOK
    <2>3. CASE Raise(p, "INTEGRITY") \/ Goto(p, "REJECT")
      BY <1>10, <2>1, <2>3, RaiseMoves, GotoMoves, MovesKeep DEF BeforeAsk, TypeOK, Executing
    <2> QED BY <1>10, <2>2, <2>3 DEF BeforeAsk
  <1>11. CASE Falter(p)
    BY <1>11, RaiseMoves, MovesKeep DEF Falter, TypeOK, HasAttempt
  <1> QED BY <1>1, <1>2, <1>3, <1>4, <1>5, <1>6, <1>7, <1>8, <1>9, <1>10, <1>11

\* The actions that write rows.
LEMMA RowTypes ==
    ASSUME Types, NEW p \in Proc,
           \/ Register(p) \/ Recover(p) \/ Claim(p) \/ Start(p) \/ Reject(p)
           \/ Complete(p) \/ Normalize(p) \/ Reconcile(p) \/ Fail(p)
    PROVE  Types'
  <1> USE SameStore DEF Types
  <1>d. call[p].due \subseteq Step
    BY DEF TypeOK, Calls
  <1>1. CASE Register(p)
    <2>1. CASE \E r \in Run : StartRun(r) /\ UNCHANGED call
      BY <1>1, <2>1, StartRunKeeps, StillKeep DEF Register, TypeOK
    <2>2. CASE ~ \E r \in Run : StartRun(r) /\ UNCHANGED call
      <3>1. Goto(p, "SWEEP") \/ Return(p)
        BY <1>1, <2>2 DEF Register
      <3>2. Moves(p)
        BY <3>1, GotoMoves, OutsideMoves DEF Guarded, HasAttempt, Executing
      <3> QED BY <1>1, <2>2, <3>2, MovesKeep DEF Register, TypeOK
    <2> QED BY <2>1, <2>2
  <1>2. CASE Recover(p)
    <2>1. CASE \E s \in Step : \/ current[s] # 0 /\ RecoverExpired(s, current[s])
                              \/ ExpireDeadline(s)
      <3>1. \A s \in Step : current[s] # 0 => current[s] \in AttemptNo
        BY BudgetAssumption DEF TypeOK, StoreTypeOK
      <3>2. StoreInv'
        BY <2>1, <3>1, RecoverKeeps, ExpireKeeps
      <3>3. CASE UNCHANGED call
        BY <1>2, <3>2, <3>3, StillKeep DEF Recover, TypeOK
      <3>4. CASE Goto(p, "DUE") \/ Return(p)
        BY <1>2, <3>2, <3>4, GotoMoves, OutsideMoves, MovesKeep DEF Recover, HasAttempt, Executing
      <3> QED BY <1>2, <3>3, <3>4 DEF Recover
    <2>2. CASE ~ \E s \in Step : \/ current[s] # 0 /\ RecoverExpired(s, current[s])
                                \/ ExpireDeadline(s)
      BY <1>2, <2>2, GotoMoves, OutsideMoves, MovesKeep DEF Recover, TypeOK, HasAttempt, Executing
    <2> QED BY <2>1, <2>2
  <1>4. CASE Start(p)
    <2> DEFINE s == call[p].slice
               n == call[p].claim
    <2>1. s \in Step /\ n \in AttemptNo /\ call[p].pc \in HasAttempt
      BY <1>4 DEF Start, WorkIsNamed, HasAttempt
    <2> HIDE DEF s, n
    <2>2. StoreInv' /\ started' \subseteq Step \X (1..MaxBudget)
      BY <1>4, <2>1, StartAttemptKeeps DEF Start, TypeOK, s, n
    <2>3. Moves(p)
      BY <1>4, <2>1, GotoMoves, OutsideMoves DEF Start, Executing
    <2> QED BY <1>4, <2>2, <2>3 DEF Start, TypeOK, StoreInv, WorkIsNamed, Moves, sliceVars
  <1>5. CASE Reject(p)
    <2>1. /\ call[p].slice \in Step /\ call[p].pc \in HasAttempt
          /\ call[p].claim \in AttemptNo
      BY <1>5 DEF Reject, WorkIsNamed, HasAttempt, Executing
    <2>2. StoreInv'
      BY <1>5, <2>1, FailKeeps DEF Reject, TypeOK
    <2>3. Moves(p)
      BY <1>5, <2>1, GotoMoves, OutsideMoves DEF Reject, Executing
    <2>4. capture' \in [Step -> Captures]
      <3>1. CASE UNCHANGED capture
        BY <3>1 DEF TypeOK
      <3>2. CASE capture' = [capture EXCEPT ![call[p].slice].kind = "REJECTED"]
        <4> DEFINE c == [capture[call[p].slice] EXCEPT !.kind = "REJECTED"]
        <4>1. c \in Captures
          BY <2>1 DEF TypeOK, Captures
        <4>2. capture' = [capture EXCEPT ![call[p].slice] = c]
          BY <3>2
        <4> HIDE DEF c
        <4> QED BY <4>1, <4>2 DEF TypeOK
      <3> QED BY <1>5, <3>1, <3>2 DEF Reject
    <2> QED BY <1>5, <2>2, <2>3, <2>4 DEF Reject, TypeOK, StoreInv, WorkIsNamed, Moves
  <1>6. CASE Complete(p)
    BY <1>6, <1>d, SucceedKeeps, ContinueMoves, MovesKeep
    DEF Complete, TypeOK, WorkIsNamed, HasAttempt, Executing
  <1>7. CASE Normalize(p)
    <2>1. /\ call[p].slice \in Step /\ call[p].pc \in HasAttempt
          /\ call[p].claim \in AttemptNo
      BY <1>7 DEF Normalize, WorkIsNamed, HasAttempt, Executing
    <2>2. StoreInv' /\ Moves(p)
      BY <1>7, <2>1, FailKeeps, GotoMoves, OutsideMoves DEF Normalize, TypeOK, Executing
    <2> QED BY <1>7, <2>2, MovesKeep DEF Normalize
  <1>8. CASE Reconcile(p)
    BY <1>8, <1>d, SucceedKeeps, ContinueMoves, MovesKeep
    DEF Reconcile, TypeOK, WorkIsNamed, HasAttempt, Executing
  <1>9. CASE Fail(p)
    <2>1. call[p].slice \in Step /\ call[p].claim \in AttemptNo
      BY <1>9 DEF Fail, WorkIsNamed, HasAttempt
    <2>2. StoreInv'
      BY <1>9, <2>1, FailKeeps DEF Fail, TypeOK
    <2>3. Continue(p, call[p].due) \/ Return(p)
      BY <1>9 DEF Fail
    <2> QED BY <1>9, <1>d, <2>2, <2>3, ContinueMoves, OutsideMoves, MovesKeep DEF Fail
  <1>3. CASE Claim(p)
    <2> DEFINE s == call[p].slice
               key == call[p].attempts + 1
    <2>1. s \in Step /\ key \in 1..(MaxBudget + 1) /\ call[p] \in Calls
      <3>1. s \in Step /\ call[p] \in Calls
        BY <1>3 DEF Claim, At, WorkIsNamed, TypeOK
      <3>2. call[p].attempts \in 0..MaxBudget /\ MaxBudget \in Nat
        BY <3>1, BudgetAssumption DEF Calls
      <3> QED BY <3>1, <3>2
    <2>2. ASSUME NEW m \in AttemptNo,
                 call' = [call EXCEPT ![p].pc = "START", ![p].checked = FALSE, ![p].claim = m]
          PROVE  Moves(p)
      <3> DEFINE c == [call[p] EXCEPT !.pc = "START", !.checked = FALSE, !.claim = m]
      <3>1. m \in 0..MaxBudget
        BY BudgetAssumption
      <3>2. c \in Calls /\ c.pc = "START" /\ c.slice = s /\ c.claim = m
        BY <2>1, <3>1 DEF Calls
      <3>3. call' = [call EXCEPT ![p] = c]
        BY <2>2
      <3> HIDE DEF c, s
      <3> QED BY <2>1, <3>2, <3>3, ToMoves
    <2>3. CASE /\ Claimable(s) /\ InsertClaim(s)
               /\ claimed' = [claimed EXCEPT ![s][key] = tried[s] + 1]
               /\ call' = [call EXCEPT ![p].pc = "START", ![p].checked = FALSE,
                                       ![p].claim = tried[s] + 1]
      <3>1. tried[s] + 1 \in AttemptNo /\ tried[s] + 1 \in 0..MaxBudget
        <4>1. /\ tried[s] \in 0..MaxBudget /\ MaxAttempts[s] \in 1..MaxBudget
              /\ tried[s] + 1 <= MaxAttempts[s] /\ MaxBudget \in Nat
          BY <2>1, <2>3, BudgetAssumption DEF InsertClaim, TypeOK, StoreTypeOK
        <4> QED BY <4>1
      <3>2. Moves(p) /\ StoreInv'
        BY <2>1, <2>2, <2>3, <3>1, InsertClaimKeeps DEF Claimable
      <3>3. claimed' \in [Step -> [1..(MaxBudget + 1) -> 0..MaxBudget]]
        BY <2>1, <2>3, <3>1 DEF TypeOK
      <3> QED BY <1>3, <3>2, <3>3 DEF Claim, TypeOK, StoreInv, WorkIsNamed, Moves, sliceVars
    <2>4. CASE /\ claimed[s][key] # 0
               /\ call' = [call EXCEPT ![p].pc = "START", ![p].checked = FALSE,
                                       ![p].claim = claimed[s][key]]
               /\ UNCHANGED <<storeVars, claimed>>
      <3>1. claimed[s][key] \in AttemptNo
        BY <2>1, <2>4, BudgetAssumption DEF TypeOK
      <3>2. Moves(p) /\ StoreInv'
        BY <2>2, <2>4, <3>1 DEF TypeOK
      <3> QED BY <1>3, <2>4, <3>2, MovesKeep DEF Claim
    <2>5. CASE /\ \/ Continue(p, {z \in call[p].due : RunOf[z] # RunOf[s]})
                  \/ Return(p)
               /\ UNCHANGED <<storeVars, claimed>>
      <3>1. {z \in call[p].due : RunOf[z] # RunOf[s]} \in SUBSET Step
        BY <1>d
      <3>2. Moves(p)
        BY <2>5, <3>1, ContinueMoves, OutsideMoves
      <3> QED BY <1>3, <2>5, <3>2, MovesKeep DEF Claim, TypeOK
    <2> QED BY <1>3, <2>3, <2>4, <2>5 DEF Claim
  <1> QED BY <1>1, <1>2, <1>3, <1>4, <1>5, <1>6, <1>7, <1>8, <1>9

LEMMA SliceTypes ==
    ASSUME Types, NEW p \in Proc,
           \/ Sweep(p) \/ Stop(p) \/ Ask(p) \/ Bind(p) \/ Gap(p) \/ Observe(p)
    PROVE  Types'
  <1> USE SameStore DEF Types
  <1>d. call[p].due \subseteq Step
    BY DEF TypeOK, Calls
  <1>t. ASSUME NEW x \in Terminals, Terminate(p, x), call[p].pc \in HasAttempt
        PROVE  Types'
    <2>1. StoreInv' /\ Moves(p)
      BY <1>d, <1>t, SucceedKeeps, ContinueMoves DEF Terminate, TypeOK, WorkIsNamed
    <2>2. terminal' \in [Step -> Terminals \cup {"NONE"}]
      BY <1>t DEF Terminate, TypeOK
    <2> QED BY <1>t, <2>1, <2>2 DEF Terminate, TypeOK, StoreInv, WorkIsNamed, Moves
  <1>1. CASE Sweep(p)
    <2>1. Moves(p)
      BY <1>1, GotoMoves DEF Sweep, Guarded, HasAttempt, Executing
    <2>2. terminal' \in [Step -> Terminals \cup {"NONE"}]
      BY <1>1 DEF Sweep, TypeOK, Terminals
    <2> QED BY <1>1, <2>1, <2>2 DEF Sweep, TypeOK, StoreInv, WorkIsNamed, Moves
  <1>2. CASE Stop(p)
    BY <1>2, <1>t DEF Stop, Terminals, HasAttempt, Executing
  <1>3. CASE Gap(p)
    BY <1>3, <1>t DEF Gap, Terminals, HasAttempt, Executing
  <1>4. CASE Observe(p)
    <2>1. CASE Terminate(p, Timeliness(call[p].slice))
      <3>1. Timeliness(call[p].slice) \in Terminals
        BY DEF Timeliness, Terminals
      <3> QED BY <1>4, <1>t, <2>1, <3>1 DEF Observe, HasAttempt, Executing
    <2>2. CASE ~Terminate(p, Timeliness(call[p].slice))
      BY <1>4, <2>2, RaiseMoves, MovesKeep DEF Observe, TypeOK, HasAttempt, Executing
    <2> QED BY <2>1, <2>2
  <1>5. CASE Ask(p)
    <2>1. call[p].slice \in Step /\ call[p].pc \in HasAttempt /\ call[p] \in Calls
      BY <1>5 DEF Ask, At, WorkIsNamed, HasAttempt, Executing, TypeOK
    <2>2. ASSUME NEW a \in Answers,
                 call' = [call EXCEPT ![p].pc = "BIND", ![p].checked = FALSE, ![p].answer = a]
          PROVE  Moves(p)
      <3> DEFINE c == [call[p] EXCEPT !.pc = "BIND", !.checked = FALSE, !.answer = a]
      <3>1. c \in Calls /\ c.slice = call[p].slice /\ c.claim = call[p].claim
        BY <2>1 DEF Calls, Executing
      <3>2. call' = [call EXCEPT ![p] = c]
        BY <2>2
      <3> HIDE DEF c
      <3> QED BY <2>1, <3>1, <3>2, ToMoves DEF WorkIsNamed
    <2>3. Moves(p)
      BY <1>5, <2>1, <2>2, GotoMoves, RaiseMoves DEF Ask, Executing
    <2>4. asked' \in [Step -> Nat]
      BY <1>5, <2>1 DEF Ask, TypeOK
    <2> QED BY <1>5, <2>3, <2>4 DEF Ask, TypeOK, StoreInv, WorkIsNamed, Moves
  <1>6. CASE Bind(p)
    <2>1. call[p].slice \in Step /\ call[p].pc \in HasAttempt /\ call[p] \in Calls
      BY <1>6 DEF Bind, WorkIsNamed, HasAttempt, Executing, TypeOK
    <2>2. \A kind : NextAfter(kind) \in Executing
      BY DEF NextAfter, Executing
    <2>3. \/ \E pc \in Executing : Goto(p, pc)
          \/ Raise(p, "PROVIDER")
      BY <1>6, <2>2 DEF Bind, Executing
    <2>4. Moves(p)
      BY <2>1, <2>3, GotoMoves, RaiseMoves
    <2>5. capture' \in [Step -> Captures]
      <3> DEFINE c == [kind |-> call[p].answer, late |-> overdue[call[p].slice]]
      <3>1. c \in Captures
        BY <2>1 DEF Calls, Captures, TypeOK, StoreTypeOK
      <3>2. UNCHANGED capture \/ capture' = [capture EXCEPT ![call[p].slice] = c]
        BY <1>6 DEF Bind
      <3> HIDE DEF c
      <3> QED BY <3>1, <3>2 DEF TypeOK
    <2> QED BY <1>6, <2>4, <2>5 DEF Bind, TypeOK, StoreInv, WorkIsNamed, Moves
  <1> QED BY <1>1, <1>2, <1>3, <1>4, <1>5, <1>6

LEMMA TypesStep == Types /\ [Next]_vars => Types'
  <1> SUFFICES ASSUME Types, [Next]_vars
               PROVE  Types'
    OBVIOUS
  <1>1. ASSUME NEW s \in Step, Time(s)
        PROVE  Types'
    BY <1>1, ClockKeeps, StillKeep DEF Time, Types, TypeOK
  <1>2. CASE UNCHANGED vars
    BY <1>2, SameStore, StillKeep DEF vars, Types, TypeOK
  <1> QED BY <1>1, <1>2, LocalTypes, RowTypes, SliceTypes DEF Next

LEMMA TypesInit == Init => Types
  <1> SUFFICES ASSUME Init
               PROVE  Types
    OBVIOUS
  <1>1. StoreInv
    BY InitKeeps DEF Init
  <1> QED BY <1>1, BudgetAssumption
      DEF Init, Types, StoreInv, TypeOK, WorkIsNamed, Outside, Calls, HasAttempt, Guarded,
          Executing, Answers, Captures

\* Rows and processes keep their types, and who works on a slice has an Attempt.
THEOREM CollectionTypes == Spec => []TypeOK
  <1>1. Types => TypeOK
    BY DEF Types
  <1> QED BY <1>1, TypesInit, TypesStep, PTL DEF Spec

-----------------------------------------------------------------------------
(* One call of the provider.  The first Attempt alone may ask, so what must *)
(* be shown is that only one process gets to ask under it: the one that     *)
(* made the claim while it owned the lock.  A process that replays the      *)
(* claim does not own the lock, and it does not get it back within its call. *)

\* A claim receipt is under the number of its Attempt, and the Attempt exists.
ReceiptsInOrder ==
    \A s \in Step, k \in 1..(MaxBudget + 1) :
        claimed[s][k] # 0 => claimed[s][k] = k /\ k <= tried[s]

\* Attempts that somebody works on, or asked the provider under, were made.
AttemptsMade ==
    /\ \A p \in Proc : call[p].pc \in HasAttempt => call[p].claim <= tried[call[p].slice]
    /\ \A s \in Step : asked[s] > 0 => tried[s] >= 1

\* What the owner read before its claim still holds.
OwnerIsCurrent ==
    \A p \in Proc : owner = p /\ call[p].pc = "CLAIM" =>
        call[p].attempts = tried[call[p].slice]

\* p may be about to ask; p has passed the check and asks next.
BeforeCall(p) ==
    \/ call[p].pc \in {"START", "LOAD", "CALL"}
    \/ call[p].pc = "PREFLIGHT" /\ capture[call[p].slice].kind = "NONE"

Asking(p) == At(p, "CALL")

\* Nobody has asked for p's slice, and nobody else asks next.
Alone(p) ==
    /\ asked[call[p].slice] = 0
    /\ \A q \in Proc \ {p} : Asking(q) => call[q].slice # call[p].slice

FirstIsAlone ==
    \A p \in Proc :
        /\ owner = p /\ BeforeCall(p) /\ call[p].claim = 1 => Alone(p)
        /\ Asking(p) => call[p].claim = 1 /\ Alone(p)

Order ==
    ReceiptsInOrder /\ AttemptsMade /\ OwnerIsCurrent /\ FirstIsAlone /\ OneProviderCall

\* A step that makes no claim, Attempt or call, and brings p no nearer to one.
Quiet(p) ==
    /\ UNCHANGED <<claimed, tried, asked>>
    /\ owner' \in {owner, NoProc}
    /\ \A q \in Proc \ {p} : call'[q] = call[q]
    /\ \A s \in Step : capture[s].kind # "NONE" => capture'[s].kind # "NONE"
    /\ call'[p].pc = "CLAIM" =>
          /\ call[p].pc = "CLAIM"
          /\ call'[p].slice = call[p].slice /\ call'[p].attempts = call[p].attempts
    /\ call'[p].pc \in HasAttempt =>
          /\ call[p].pc \in HasAttempt
          /\ call'[p].slice = call[p].slice /\ call'[p].claim = call[p].claim
          /\ BeforeCall(p)' => BeforeCall(p)
    /\ Asking(p)' => Asking(p)

LEMMA QuietOrder ==
    ASSUME Types, Types', Order, NEW p \in Proc, Quiet(p)
    PROVE  Order'
  <1> USE DEF Order, Quiet
  <1>1. ReceiptsInOrder' /\ OneProviderCall'
    BY DEF ReceiptsInOrder, OneProviderCall
  <1>2. AttemptsMade'
    BY DEF AttemptsMade, Types, WorkIsNamed
  <1>3. OwnerIsCurrent'
    BY CollectionAssumption DEF OwnerIsCurrent
  <1>4. ASSUME NEW q \in Proc, BeforeCall(q)' \/ Asking(q)'
        PROVE  /\ call'[q].slice = call[q].slice /\ call'[q].claim = call[q].claim
               /\ call[q].slice \in Step
               /\ BeforeCall(q)' => BeforeCall(q)
               /\ Asking(q)' => Asking(q)
    <2>1. call'[q].pc \in HasAttempt
      BY <1>4 DEF BeforeCall, Asking, At, HasAttempt, Executing
    <2>2. CASE q = p
      BY <2>1, <2>2, <1>4 DEF Types, WorkIsNamed
    <2>3. CASE q # p
      BY <2>1, <2>3, <1>4 DEF Types, WorkIsNamed, BeforeCall, Asking, At
    <2> QED BY <2>2, <2>3
  <1>5. FirstIsAlone'
    BY <1>4, CollectionAssumption DEF FirstIsAlone, Alone
  <1> QED BY <1>1, <1>2, <1>3, <1>5

\* What the commands of the store leave alone.
LEMMA StoreLeavesTried ==
    ASSUME NEW s, NEW n, NEW x, NEW y,
           \/ StartRun(s) \/ StartAttempt(s, n) \/ SucceedAttempt(s, n)
           \/ FailAttempt(s, n, x, y) \/ RecoverExpired(s, n)
           \/ LeaseTick(s) \/ DeadlinePasses(s) \/ BackoffElapses(s)
           \/ UNCHANGED storeVars
    PROVE  UNCHANGED tried
  BY DEF StartRun, StartAttempt, SucceedAttempt, FailAttempt, RecoverExpired,
     LeaseTick, DeadlinePasses, BackoffElapses, storeVars

\* Where a process ends up.
LEMMA Arrives ==
    ASSUME Types, NEW p \in Proc
    PROVE  /\ Return(p) => call'[p] = Outside
           /\ \A left : Continue(p, left) => call'[p].pc = "LOOK"
           /\ \A pc : Goto(p, pc) =>
                 /\ call'[p].pc = pc /\ call'[p].checked = FALSE
                 /\ call'[p].slice = call[p].slice /\ call'[p].claim = call[p].claim
           /\ \A why : Raise(p, why) =>
                 /\ call'[p].pc = "FAIL"
                 /\ call'[p].slice = call[p].slice /\ call'[p].claim = call[p].claim
           /\ \/ Return(p) \/ \E left : Continue(p, left)
              \/ \E pc : Goto(p, pc) \/ \E why : Raise(p, why)
              => \A q \in Proc \ {p} : call'[q] = call[q]
  <1>1. call \in [Proc -> Calls] /\ call[p] \in Calls
    BY DEF Types, TypeOK
  <1>2. Return(p) => call'[p] = Outside
    BY <1>1 DEF Return
  <1>3. ASSUME NEW left, Continue(p, left)
        PROVE  call'[p].pc = "LOOK"
    BY <1>1, <1>3 DEF Continue, Outside
  <1>4. ASSUME NEW pc, Goto(p, pc)
        PROVE  /\ call'[p].pc = pc /\ call'[p].checked = FALSE
               /\ call'[p].slice = call[p].slice /\ call'[p].claim = call[p].claim
    BY <1>1, <1>4 DEF Goto, Calls
  <1>5. ASSUME NEW why, Raise(p, why)
        PROVE  /\ call'[p].pc = "FAIL"
               /\ call'[p].slice = call[p].slice /\ call'[p].claim = call[p].claim
    BY <1>1, <1>5 DEF Raise, Calls
  <1>6. \/ Return(p) \/ \E left : Continue(p, left)
        \/ \E pc : Goto(p, pc) \/ \E why : Raise(p, why)
        => \A q \in Proc \ {p} : call'[q] = call[q]
    BY <1>1 DEF Return, Continue, Goto, Raise
  <1> QED BY <1>2, <1>3, <1>4, <1>5, <1>6

\* Leaving what one is at, for good.
LEMMA LeavingIsQuiet ==
    ASSUME Types, NEW p \in Proc, Return(p) \/ \E left : Continue(p, left),
           UNCHANGED <<claimed, tried, asked>>, owner' \in {owner, NoProc},
           \A s \in Step : capture[s].kind # "NONE" => capture'[s].kind # "NONE"
    PROVE  Quiet(p)
  <1>1. call'[p].pc \in {"OUT", "LOOK"}
    <2>1. CASE Return(p)
      BY <2>1 DEF Return, Outside, Types, TypeOK
    <2>2. CASE \E left : Continue(p, left)
      BY <2>2, Arrives
    <2> QED BY <2>1, <2>2
  <1>2. \A q \in Proc \ {p} : call'[q] = call[q]
    BY Arrives
  <1> QED BY <1>1, <1>2 DEF Quiet, HasAttempt, Executing, Asking, At

\* Raising, and going on to a point after the call.
LEMMA AfterCallIsQuiet ==
    ASSUME Types, NEW p \in Proc, call[p].pc \in HasAttempt,
           \/ \E why : Raise(p, why)
           \/ \E pc \in Executing \ {"LOAD", "CALL", "PREFLIGHT"} : Goto(p, pc)
           \/ Goto(p, "PREFLIGHT") /\ capture'[call[p].slice].kind # "NONE"
           \/ call[p].pc = "START" /\ Goto(p, "LOAD")
           \/ BeforeCall(p) /\ Goto(p, "CALL"),
           UNCHANGED <<claimed, tried, asked, owner>>,
           \A s \in Step : capture[s].kind # "NONE" => capture'[s].kind # "NONE"
    PROVE  Quiet(p)
  <1>1. /\ call'[p].slice = call[p].slice /\ call'[p].claim = call[p].claim
        /\ \A q \in Proc \ {p} : call'[q] = call[q]
    BY Arrives
  <1>2. CASE \E why : Raise(p, why)
    <2>1. call'[p].pc = "FAIL"
      BY <1>2, Arrives
    <2> QED BY <1>1, <2>1 DEF Quiet, BeforeCall, Asking, At
  <1>3. CASE \E pc \in Executing \ {"LOAD", "CALL", "PREFLIGHT"} : Goto(p, pc)
    <2>1. call'[p].pc \in Executing \ {"LOAD", "CALL", "PREFLIGHT"}
      BY <1>3, Arrives
    <2> QED BY <1>1, <2>1 DEF Quiet, BeforeCall, Asking, At, Executing
  <1>4. CASE Goto(p, "PREFLIGHT") /\ capture'[call[p].slice].kind # "NONE"
    <2>1. call'[p].pc = "PREFLIGHT"
      BY <1>4, Arrives
    <2> QED BY <1>1, <1>4, <2>1 DEF Quiet, BeforeCall, Asking, At
  <1>5. CASE call[p].pc = "START" /\ Goto(p, "LOAD")
    <2>1. call'[p].pc = "LOAD"
      BY <1>5, Arrives
    <2> QED BY <1>1, <1>5, <2>1 DEF Quiet, BeforeCall, Asking, At
  <1>6. CASE BeforeCall(p) /\ Goto(p, "CALL")
    <2>1. call'[p].pc = "CALL" /\ call'[p].checked = FALSE
      BY <1>6, Arrives
    <2> QED BY <1>1, <1>6, <2>1 DEF Quiet, BeforeCall, Asking, At
  <1> QED BY <1>2, <1>3, <1>4, <1>5, <1>6

\* Going from point to point of a tick, without an Attempt.
LEMMA TickIsQuiet ==
    ASSUME Types, NEW p \in Proc, NEW pc, Goto(p, pc),
           pc \notin HasAttempt \cup {"CLAIM"},
           UNCHANGED <<claimed, tried, asked, owner, capture>>
    PROVE  Quiet(p)
  BY Arrives DEF Quiet, HasAttempt, Executing, Asking, At

\* A step of no process.
LEMMA StillIsQuiet ==
    ASSUME NEW p \in Proc, owner' \in {owner, NoProc},
           UNCHANGED <<claimed, tried, asked, call, capture>>
    PROVE  Quiet(p)
  BY DEF Quiet, Asking, At, BeforeCall

\* All but the few actions that make a claim, an Attempt or a call.
LEMMA MostAreQuiet ==
    ASSUME Types, NEW p \in Proc,
           \/ LoseLock(p) \/ Crash(p) \/ Check(p) \/ Enter(p) \/ Register(p) \/ Sweep(p)
           \/ Due(p) \/ Start(p) \/ Load(p) \/ Stop(p) \/ Preflight(p) \/ Reject(p)
           \/ Bind(p) \/ Gap(p) \/ Complete(p) \/ Normalize(p) \/ Observe(p)
           \/ Reconcile(p) \/ Falter(p) \/ Fail(p)
    PROVE  Quiet(p)
  <1> USE DEF sliceVars
  <1>r. call \in [Proc -> Calls] /\ call[p] \in Calls
    BY DEF Types, TypeOK
  <1>s. UNCHANGED storeVars => UNCHANGED tried
    BY DEF storeVars
  <1>t. ASSUME NEW x, Terminate(p, x)
        PROVE  Quiet(p)
    <2>1. UNCHANGED tried
      BY <1>t, StoreLeavesTried DEF Terminate
    <2>2. \E left : Continue(p, left)
      BY <1>t DEF Terminate
    <2> QED BY <1>t, <2>1, <2>2, LeavingIsQuiet DEF Terminate
  <1>1. CASE LoseLock(p)
    BY <1>1, <1>s, StillIsQuiet DEF LoseLock
  <1>2. CASE Crash(p)
    BY <1>2, <1>s, LeavingIsQuiet DEF Crash
  <1>3. CASE Check(p)
    <2>1. CASE Return(p)
      BY <1>3, <1>s, <2>1, LeavingIsQuiet DEF Check
    <2>2. CASE call' = [call EXCEPT ![p].checked = TRUE]
      <3>1. /\ call'[p].pc = call[p].pc /\ call'[p].slice = call[p].slice
            /\ call'[p].claim = call[p].claim /\ call'[p].attempts = call[p].attempts
            /\ \A q \in Proc \ {p} : call'[q] = call[q]
        BY <2>2, <1>r DEF Calls
      <3> QED BY <1>3, <1>s, <3>1 DEF Check, Quiet, Guarded, Asking, At, BeforeCall
    <2> QED BY <1>3, <2>1, <2>2 DEF Check
  <1>4. CASE Enter(p)
    BY <1>4, <1>s, TickIsQuiet DEF Enter, HasAttempt, Executing
  <1>5. CASE Register(p)
    <2>1. UNCHANGED tried
      BY <1>5, <1>s, StoreLeavesTried DEF Register
    <2>2. CASE UNCHANGED call
      BY <1>5, <2>1, <2>2, StillIsQuiet DEF Register
    <2>3. CASE Goto(p, "SWEEP") \/ Return(p)
      BY <1>5, <2>1, <2>3, TickIsQuiet, LeavingIsQuiet DEF Register, HasAttempt, Executing
    <2> QED BY <1>5, <2>2, <2>3 DEF Register
  <1>6. CASE Sweep(p)
    BY <1>6, <1>s, TickIsQuiet DEF Sweep, HasAttempt, Executing
  <1>7. CASE Due(p)
    <2>1. call'[p].pc = "LOOK" /\ \A q \in Proc \ {p} : call'[q] = call[q]
      BY <1>7, <1>r DEF Due, Calls
    <2> QED BY <1>7, <1>s, <2>1 DEF Due, Quiet, HasAttempt, Executing, Asking, At
  <1>8. CASE Start(p)
    <2>1. UNCHANGED tried
      BY <1>8, <1>s, StoreLeavesTried DEF Start
    <2>2. call[p].pc \in HasAttempt
      BY <1>8 DEF Start, HasAttempt
    <2>3. CASE Goto(p, "LOAD")
      BY <1>8, <2>1, <2>2, <2>3, AfterCallIsQuiet DEF Start
    <2>4. CASE Return(p)
      BY <1>8, <2>1, <2>4, LeavingIsQuiet DEF Start
    <2> QED BY <1>8, <2>3, <2>4 DEF Start
  <1>9. CASE Load(p)
    <2>1. /\ call'[p].pc \in {"RECONCILE", "STOP", "PREFLIGHT"}
          /\ call'[p].slice = call[p].slice /\ call'[p].claim = call[p].claim
          /\ \A q \in Proc \ {p} : call'[q] = call[q]
      BY <1>9, <1>r DEF Load, Goto, Calls
    <2> QED BY <1>9, <1>s, <2>1 DEF Load, Quiet, HasAttempt, Executing, Asking, At, BeforeCall
  <1>10. CASE Stop(p)
    BY <1>10, <1>t DEF Stop
  <1>11. CASE Preflight(p)
    <2>1. call[p].pc \in HasAttempt
      BY <1>11 DEF Preflight, HasAttempt, Executing
    <2>2. \A kind : NextAfter(kind) \in Executing \ {"LOAD", "CALL", "PREFLIGHT"}
      BY DEF NextAfter, Executing
    <2>3. \/ BeforeCall(p) /\ Goto(p, "CALL")
          \/ \E pc \in Executing \ {"LOAD", "CALL", "PREFLIGHT"} : Goto(p, pc)
      BY <1>11, <2>2 DEF Preflight, BeforeCall
    <2> QED BY <1>11, <1>s, <2>1, <2>3, AfterCallIsQuiet DEF Preflight
  <1>12. CASE Reject(p)
    <2>1. call[p].pc \in HasAttempt
      BY <1>12 DEF Reject, HasAttempt, Executing
    <2>2. UNCHANGED tried
      BY <1>12, <1>s, StoreLeavesTried DEF Reject
    <2>3. \A s \in Step : capture[s].kind # "NONE" => capture'[s].kind # "NONE"
      BY <1>12 DEF Reject, Types, TypeOK, Captures
    <2>4. CASE Return(p)
      BY <1>12, <2>2, <2>3, <2>4, LeavingIsQuiet DEF Reject
    <2>5. CASE ~Return(p)
      BY <1>12, <2>1, <2>2, <2>3, <2>5, AfterCallIsQuiet DEF Reject
    <2> QED BY <2>4, <2>5
  <1>13. CASE Bind(p)
    <2>1. call[p].pc \in HasAttempt
      BY <1>13 DEF Bind, HasAttempt, Executing
    <2>2. \A kind : NextAfter(kind) \in Executing \ {"LOAD", "CALL", "PREFLIGHT"}
      BY DEF NextAfter, Executing
    <2>3. \A s \in Step : capture[s].kind # "NONE" => capture'[s].kind # "NONE"
      BY <1>13 DEF Bind, Types, TypeOK
    <2>4. \/ \E why : Raise(p, why)
          \/ \E pc \in Executing \ {"LOAD", "CALL", "PREFLIGHT"} : Goto(p, pc)
      BY <1>13, <2>2 DEF Bind, Executing
    <2> QED BY <1>13, <1>s, <2>1, <2>3, <2>4, AfterCallIsQuiet DEF Bind
  <1>14. CASE Gap(p)
    BY <1>14, <1>t DEF Gap
  <1>15. CASE Complete(p) \/ Reconcile(p)
    <2>1. UNCHANGED tried
      BY <1>15, StoreLeavesTried DEF Complete, Reconcile
    <2>2. \E left : Continue(p, left)
      BY <1>15 DEF Complete, Reconcile
    <2> QED BY <1>15, <2>1, <2>2, LeavingIsQuiet DEF Complete, Reconcile
  <1>16. CASE Normalize(p)
    <2>1. call[p].pc \in HasAttempt
      BY <1>16 DEF Normalize, HasAttempt, Executing
    <2>2. UNCHANGED tried
      BY <1>16, <1>s, StoreLeavesTried DEF Normalize
    <2>3. CASE Return(p)
      BY <1>16, <2>2, <2>3, LeavingIsQuiet DEF Normalize
    <2>4. CASE Goto(p, "OBSERVE")
      BY <1>16, <2>1, <2>2, <2>4, AfterCallIsQuiet DEF Normalize, Executing
    <2> QED BY <1>16, <2>3, <2>4 DEF Normalize
  <1>17. CASE Observe(p)
    <2>1. CASE Terminate(p, Timeliness(call[p].slice))
      BY <2>1, <1>t
    <2>2. CASE ~Terminate(p, Timeliness(call[p].slice))
      <3>1. call[p].pc \in HasAttempt
        BY <1>17 DEF Observe, HasAttempt, Executing
      <3> QED BY <1>17, <1>s, <2>2, <3>1, AfterCallIsQuiet DEF Observe
    <2> QED BY <2>1, <2>2
  <1>18. CASE Falter(p)
    BY <1>18, <1>s, AfterCallIsQuiet DEF Falter, HasAttempt
  <1>19. CASE Fail(p)
    <2>1. UNCHANGED tried
      BY <1>19, <1>s, StoreLeavesTried DEF Fail
    <2>2. Return(p) \/ \E left : Continue(p, left)
      BY <1>19 DEF Fail
    <2> QED BY <1>19, <2>1, <2>2, LeavingIsQuiet DEF Fail
  <1> QED BY <1>1, <1>2, <1>3, <1>4, <1>5, <1>6, <1>7, <1>8, <1>9, <1>10, <1>11, <1>12,
             <1>13, <1>14, <1>15, <1>16, <1>17, <1>18, <1>19

\* The lock goes only to a process that is outside.
LEMMA AcquireOrder ==
    ASSUME Types, Order, NEW p \in Proc, Acquire(p)
    PROVE  Order'
  <1>1. UNCHANGED <<claimed, tried, asked, call, capture>> /\ call[p].pc = "OUT" /\ owner' = p
    BY DEF Acquire, Outside, storeVars, sliceVars
  <1>2. ~BeforeCall(p) /\ ~Asking(p)
    BY <1>1 DEF BeforeCall, Asking, At
  <1> QED BY <1>1, <1>2 DEF Order, ReceiptsInOrder, AttemptsMade, OwnerIsCurrent, FirstIsAlone,
             OneProviderCall, BeforeCall, Asking, Alone, At

\* The owner reads what it will claim under.
LEMMA LookOrder ==
    ASSUME Types, Order, NEW p \in Proc, Look(p)
    PROVE  Order'
  <1>1. UNCHANGED <<owner, claimed, tried, asked, capture>>
    BY DEF Look, storeVars, sliceVars
  <1>2. CASE Return(p)
    BY <1>1, <1>2, LeavingIsQuiet, QuietOrder, LocalTypes
  <1>3. CASE ~Return(p)
    <2>1. call \in [Proc -> Calls] /\ call[p] \in Calls /\ call[p].due \subseteq Step
      BY DEF Types, TypeOK, Calls
    <2>2. /\ call'[p].pc = "CLAIM" /\ call'[p].slice \in Step
          /\ call'[p].attempts = tried[call'[p].slice]
          /\ \A q \in Proc \ {p} : call'[q] = call[q]
      <3>1. PICK s \in Step :
                call' = [call EXCEPT ![p].pc = "CLAIM", ![p].slice = s,
                                     ![p].attempts = tried[s]]
        BY <1>3, <2>1 DEF Look
      <3> QED BY <1>1, <2>1, <3>1 DEF Calls
    <2>3. ~BeforeCall(p)' /\ ~Asking(p)' /\ call'[p].pc \notin HasAttempt
      BY <2>2 DEF BeforeCall, Asking, At, HasAttempt, Executing
    <2>4. ReceiptsInOrder' /\ AttemptsMade' /\ OwnerIsCurrent' /\ OneProviderCall'
      BY <1>1, <2>2, <2>3
      DEF Order, ReceiptsInOrder, AttemptsMade, OwnerIsCurrent, OneProviderCall
    <2>5. FirstIsAlone'
      BY <1>1, <2>2, <2>3 DEF Order, FirstIsAlone, BeforeCall, Asking, Alone, At
    <2> QED BY <2>4, <2>5 DEF Order
  <1> QED BY <1>2, <1>3

\* A first claim is made by an owner for a slice that nobody works on.
LEMMA ClaimOrder ==
    ASSUME Types, Types', Order, NEW p \in Proc, Claim(p)
    PROVE  Order'
  <1> DEFINE s == call[p].slice
             key == call[p].attempts + 1
  <1>1. UNCHANGED <<owner, asked, capture>>
    BY DEF Claim, sliceVars
  <1>2. /\ call \in [Proc -> Calls] /\ call[p] \in Calls /\ call[p].pc = "CLAIM"
        /\ s \in Step /\ key \in 1..(MaxBudget + 1) /\ tried[s] \in 0..MaxBudget
    <2>1. /\ call \in [Proc -> Calls] /\ call[p] \in Calls /\ call[p].pc = "CLAIM"
          /\ s \in Step
      BY DEF Types, TypeOK, WorkIsNamed, Claim, At
    <2>2. /\ call[p].attempts \in 0..MaxBudget /\ MaxBudget \in Nat /\ tried[s] \in 0..MaxBudget
      BY <2>1, BudgetAssumption DEF Types, TypeOK, StoreTypeOK, Calls
    <2> QED BY <2>1, <2>2
  <1>3. CASE /\ claimed[s][key] = 0 /\ Owns(p) /\ InsertClaim(s)
             /\ claimed' = [claimed EXCEPT ![s][key] = tried[s] + 1]
             /\ call' = [call EXCEPT ![p].pc = "START", ![p].checked = FALSE,
                                     ![p].claim = tried[s] + 1]
    <2>1. key = tried[s] + 1 /\ owner = p
      BY <1>2, <1>3 DEF Order, OwnerIsCurrent, Owns
    <2>2. /\ call'[p].pc = "START" /\ call'[p].slice = s /\ call'[p].claim = key
          /\ \A q \in Proc \ {p} : call'[q] = call[q]
      BY <1>2, <1>3, <2>1 DEF Calls
    <2>3. /\ tried'[s] = key
          /\ \A t \in Step : tried[t] <= tried'[t]
      BY <1>2, <1>3, <2>1 DEF InsertClaim, Types, TypeOK, StoreTypeOK
    <2>4. ReceiptsInOrder'
      <3> SUFFICES ASSUME NEW t \in Step, NEW k \in 1..(MaxBudget + 1), claimed'[t][k] # 0
                   PROVE  claimed'[t][k] = k /\ k <= tried'[t]
        BY DEF ReceiptsInOrder
      <3>1. CASE t = s /\ k = key
        BY <1>2, <1>3, <2>1, <2>3, <3>1 DEF Types, TypeOK
      <3>2. CASE ~(t = s /\ k = key)
        <4>1. claimed'[t][k] = claimed[t][k]
          BY <1>2, <1>3, <3>2 DEF Types, TypeOK
        <4>2. claimed[t][k] = k /\ k <= tried[t] /\ tried[t] \in Nat /\ tried'[t] \in Nat
          BY <4>1 DEF Order, ReceiptsInOrder, Types, TypeOK, StoreTypeOK
        <4> QED BY <4>1, <4>2, <2>3
      <3> QED BY <3>1, <3>2
    <2>5. AttemptsMade'
      <3>1. ASSUME NEW q \in Proc, call'[q].pc \in HasAttempt
            PROVE  call'[q].claim <= tried'[call'[q].slice]
        <4>1. CASE q = p
          BY <2>2, <2>3, <4>1, <1>2
        <4>2. CASE q # p
          <5>1. /\ call'[q] = call[q] /\ call[q].slice \in Step /\ call[q].claim \in AttemptNo
                /\ call[q].claim <= tried[call[q].slice]
            BY <2>2, <4>2, <3>1 DEF Order, AttemptsMade, Types, WorkIsNamed
          <5>2. tried[call[q].slice] \in Nat /\ tried'[call[q].slice] \in Nat
            BY <5>1 DEF Types, TypeOK, StoreTypeOK
          <5> QED BY <5>1, <5>2, <2>3
        <4> QED BY <4>1, <4>2
      <3>2. ASSUME NEW t \in Step, asked'[t] > 0
            PROVE  tried'[t] >= 1
        <4>1. tried[t] >= 1 /\ tried[t] \in Nat /\ tried'[t] \in Nat
          BY <1>1, <3>2 DEF Order, AttemptsMade, Types, TypeOK, StoreTypeOK
        <4> QED BY <4>1, <2>3
      <3> QED BY <3>1, <3>2 DEF AttemptsMade
    <2>6. OwnerIsCurrent'
      BY <1>1, <2>1, <2>2 DEF OwnerIsCurrent
    <2>7. FirstIsAlone'
      <3>1. ASSUME key = 1
            PROVE  asked[s] = 0 /\ \A q \in Proc \ {p} : Asking(q) => call[q].slice # s
        <4>1. tried[s] = 0
          BY <1>2, <2>1, <3>1
        <4>2. asked[s] = 0
          <5>1. ~(asked[s] > 0)
            BY <1>2, <4>1 DEF Order, AttemptsMade
          <5>2. asked[s] \in Nat
            BY <1>2 DEF Types, TypeOK
          <5> QED BY <5>1, <5>2
        <4>3. ASSUME NEW q \in Proc \ {p}, Asking(q), call[q].slice = s
              PROVE  FALSE
          BY <4>1, <4>3 DEF Order, AttemptsMade, Asking, At, HasAttempt, Executing, Types,
             WorkIsNamed
        <4> QED BY <4>2, <4>3
      <3>2. /\ ~Asking(p)' /\ ~Asking(p)
            /\ \A q \in Proc \ {p} : /\ Asking(q)' <=> Asking(q)
                                     /\ BeforeCall(q)' <=> BeforeCall(q)
        BY <1>1, <1>2, <2>2 DEF Asking, At, BeforeCall
      <3> QED BY <1>1, <2>1, <2>2, <3>1, <3>2 DEF Order, FirstIsAlone, Alone
    <2> QED BY <1>1, <2>4, <2>5, <2>6, <2>7 DEF Order, OneProviderCall
  <1>4. CASE /\ claimed[s][key] # 0
             /\ call' = [call EXCEPT ![p].pc = "START", ![p].checked = FALSE,
                                     ![p].claim = claimed[s][key]]
             /\ UNCHANGED <<storeVars, claimed>>
    <2>1. /\ call'[p].pc = "START" /\ call'[p].slice = s /\ call'[p].claim = key
          /\ \A q \in Proc \ {p} : call'[q] = call[q]
          /\ key <= tried[s]
      BY <1>2, <1>4 DEF Order, ReceiptsInOrder, Calls
    <2>2. owner # p
      BY <1>2, <2>1 DEF Order, OwnerIsCurrent
    <2>3. UNCHANGED tried
      BY <1>4 DEF storeVars
    <2>4. ~Asking(p)' /\ ~Asking(p)
      BY <1>2, <2>1 DEF Asking, At
    <2>5. FirstIsAlone'
      BY <1>1, <2>1, <2>2, <2>4 DEF Order, FirstIsAlone, Alone, Asking, At, BeforeCall
    <2> QED BY <1>1, <1>2, <1>4, <2>1, <2>3, <2>5
        DEF Order, ReceiptsInOrder, AttemptsMade, OwnerIsCurrent, OneProviderCall
  <1>5. CASE /\ (\E left : Continue(p, left)) \/ Return(p)
             /\ UNCHANGED <<storeVars, claimed>>
    BY <1>1, <1>5, LeavingIsQuiet, QuietOrder DEF storeVars
  <1> QED BY <1>3, <1>4, <1>5 DEF Claim

\* Only the owner passes the check, and only at its first Attempt.
LEMMA BeforeAskOrder ==
    ASSUME Types, Types', Order, NEW p \in Proc, BeforeAsk(p)
    PROVE  Order'
  <1>1. UNCHANGED <<owner, claimed, tried, asked, capture>> /\ call[p].pc = "CALL"
    BY DEF BeforeAsk, storeVars, sliceVars
  <1>2. call \in [Proc -> Calls] /\ call[p] \in Calls
    BY DEF Types, TypeOK
  <1>3. CASE Raise(p, "INTEGRITY") \/ Goto(p, "REJECT")
    BY <1>1, <1>3, AfterCallIsQuiet, QuietOrder DEF HasAttempt, Executing
  <1>4. CASE MayStart(p) /\ Owns(p) /\ call' = [call EXCEPT ![p].checked = TRUE]
    <2>1. /\ call'[p].pc = "CALL" /\ call'[p].slice = call[p].slice
          /\ call'[p].claim = call[p].claim /\ call[p].claim = 1
          /\ \A q \in Proc \ {p} : call'[q] = call[q]
      BY <1>1, <1>2, <1>4 DEF MayStart, Calls
    <2>2. Alone(p)
      BY <1>1, <1>4, <2>1 DEF Order, FirstIsAlone, Owns, BeforeCall
    <2>3. \A q \in Proc \ {p} : (Asking(q)' <=> Asking(q)) /\ (BeforeCall(q)' <=> BeforeCall(q))
      BY <1>1, <2>1 DEF Asking, At, BeforeCall
    <2>4. ASSUME NEW q \in Proc \ {p}, Asking(q)' \/ (owner' = q /\ BeforeCall(q)')
          PROVE  (call'[q].claim = 1 => Alone(q)') /\ (Asking(q)' => call'[q].claim = 1)
      <3>1. CASE Asking(q)
        <4>1. call[q].slice # call[p].slice
          BY <2>2, <3>1 DEF Alone
        <4> QED BY <1>1, <2>1, <2>3, <3>1, <4>1 DEF Order, FirstIsAlone, Alone
      <3>2. CASE ~Asking(q)
        BY <1>1, <1>4, <2>3, <2>4, <3>2 DEF Owns
      <3> QED BY <3>1, <3>2
    <2>5. Alone(p)'
      BY <1>1, <2>1, <2>2, <2>3 DEF Alone
    <2>6. FirstIsAlone'
      BY <2>1, <2>4, <2>5 DEF FirstIsAlone
    <2> QED BY <1>1, <2>1, <2>6
        DEF Order, ReceiptsInOrder, AttemptsMade, OwnerIsCurrent, OneProviderCall, HasAttempt,
            Executing
  <1> QED BY <1>3, <1>4 DEF BeforeAsk

\* The call itself.
LEMMA AskOrder ==
    ASSUME Types, Order, NEW p \in Proc, Ask(p)
    PROVE  Order'
  <1> DEFINE s == call[p].slice
  <1>1. /\ UNCHANGED <<owner, claimed, tried, capture>> /\ Asking(p)
        /\ s \in Step /\ asked \in [Step -> Nat]
    BY DEF Ask, Asking, At, storeVars, Types, TypeOK, WorkIsNamed, HasAttempt, Executing
  <1>2. call \in [Proc -> Calls] /\ call[p] \in Calls
    BY DEF Types, TypeOK
  <1>3. /\ call'[p].pc \in {"BIND", "REJECT", "FAIL"}
        /\ call'[p].slice = s /\ call'[p].claim = call[p].claim
        /\ \A q \in Proc \ {p} : call'[q] = call[q]
    BY <1>2 DEF Ask, Goto, Raise, Calls
  <1>4. /\ asked[s] = 0 /\ \A q \in Proc \ {p} : Asking(q) => call[q].slice # s
    BY <1>1 DEF Order, FirstIsAlone, Alone
  <1>5. asked'[s] = 1 /\ \A t \in Step \ {s} : asked'[t] = asked[t]
    BY <1>1, <1>4 DEF Ask
  <1>6. /\ ~Asking(p)' /\ ~BeforeCall(p)'
        /\ \A q \in Proc \ {p} : /\ Asking(q)' <=> Asking(q)
                                 /\ BeforeCall(q)' <=> BeforeCall(q)
    BY <1>1, <1>3 DEF Asking, At, BeforeCall
  <1>7. ASSUME NEW q \in Proc \ {p}, Asking(q) \/ (owner = q /\ BeforeCall(q)), call[q].claim = 1
        PROVE  call[q].slice \in Step \ {s}
    <2>1. call[q].slice \in Step
      BY <1>7 DEF Types, WorkIsNamed, Asking, At, BeforeCall, HasAttempt, Executing
    <2>2. CASE Asking(q)
      BY <1>4, <2>1, <2>2
    <2>3. CASE owner = q /\ BeforeCall(q)
      BY <1>1, <1>7, <2>1, <2>3 DEF Order, FirstIsAlone, Alone
    <2> QED BY <1>7, <2>2, <2>3
  <1>8. FirstIsAlone'
    <2>1. ASSUME NEW q \in Proc \ {p},
                 Asking(q) \/ (owner = q /\ BeforeCall(q) /\ call[q].claim = 1)
          PROVE  call[q].claim = 1 /\ Alone(q)'
      <3>1. call[q].claim = 1 /\ Alone(q)
        BY <2>1 DEF Order, FirstIsAlone
      <3>2. asked'[call[q].slice] = asked[call[q].slice]
        BY <1>5, <1>7, <2>1, <3>1
      <3> QED BY <1>3, <1>6, <3>1, <3>2 DEF Alone
    <2> QED BY <1>1, <1>3, <1>6, <2>1 DEF FirstIsAlone
  <1>9. OneProviderCall'
    BY <1>5 DEF Order, OneProviderCall
  <1>10. AttemptsMade'
    <2>1. tried[s] >= 1
      BY <1>1, <1>2 DEF Order, AttemptsMade, FirstIsAlone, Asking, At, HasAttempt, Executing
    <2>2. ASSUME NEW q \in Proc, call'[q].pc \in HasAttempt
          PROVE  call'[q].claim <= tried'[call'[q].slice]
      BY <1>1, <1>3, <2>2 DEF Order, AttemptsMade, Asking, At, HasAttempt, Executing
    <2> QED BY <1>1, <1>5, <2>1, <2>2 DEF Order, AttemptsMade
  <1> QED BY <1>1, <1>3, <1>8, <1>9, <1>10 DEF Order, ReceiptsInOrder, OwnerIsCurrent

\* An Attempt may be made for a Step whose deadline has passed, by the owner.
LEMMA RecoverOrder ==
    ASSUME Types, Types', Order, NEW p \in Proc, Recover(p)
    PROVE  Order'
  <1>1. UNCHANGED <<owner, claimed, asked, capture>> /\ call[p].pc = "RECOVER"
    BY DEF Recover, At, sliceVars
  <1>2. CASE UNCHANGED tried
    <2>1. CASE UNCHANGED call
      BY <1>1, <1>2, <2>1, StillIsQuiet, QuietOrder
    <2>2. CASE Goto(p, "DUE") \/ Return(p)
      BY <1>1, <1>2, <2>2, TickIsQuiet, LeavingIsQuiet, QuietOrder DEF HasAttempt, Executing
    <2> QED BY <2>1, <2>2 DEF Recover
  <1>3. CASE ~UNCHANGED tried
    <2>1. PICK s \in Step : ExpireDeadline(s) /\ UNCHANGED call /\ owner = p
      BY <1>3, StoreLeavesTried DEF Recover, Owns
    <2>2. \A t \in Step : tried[t] \in Nat /\ tried'[t] \in Nat /\ tried[t] <= tried'[t]
      BY <2>1 DEF ExpireDeadline, Types, TypeOK, StoreTypeOK
    <2>3. ReceiptsInOrder'
      BY <1>1, <2>2 DEF Order, ReceiptsInOrder
    <2>4. AttemptsMade'
      BY <1>1, <2>1, <2>2 DEF Order, AttemptsMade, Types, WorkIsNamed
    <2>5. OwnerIsCurrent'
      BY <1>1, <2>1 DEF OwnerIsCurrent
    <2> QED BY <1>1, <2>1, <2>3, <2>4, <2>5
        DEF Order, FirstIsAlone, Alone, Asking, At, BeforeCall, OneProviderCall
  <1> QED BY <1>2, <1>3

LEMMA OrderStep == Types /\ Types' /\ Order /\ [Next]_vars => Order'
  <1> SUFFICES ASSUME Types, Types', Order, [Next]_vars
               PROVE  Order'
    OBVIOUS
  <1>1. ASSUME NEW s \in Step, Time(s)
        PROVE  Order'
    <2>1. UNCHANGED <<owner, call, claimed, tried, asked, capture>>
      BY <1>1, StoreLeavesTried DEF Time, sliceVars
    <2> QED BY <2>1 DEF Order, ReceiptsInOrder, AttemptsMade, OwnerIsCurrent, FirstIsAlone,
               OneProviderCall, Alone, Asking, At, BeforeCall
  <1>2. CASE UNCHANGED vars
    <2>1. UNCHANGED <<owner, call, claimed, tried, asked, capture>>
      BY <1>2 DEF vars, storeVars, sliceVars
    <2> QED BY <2>1 DEF Order, ReceiptsInOrder, AttemptsMade, OwnerIsCurrent, FirstIsAlone,
               OneProviderCall, Alone, Asking, At, BeforeCall
  <1> QED BY <1>1, <1>2, MostAreQuiet, QuietOrder, AcquireOrder, LookOrder, ClaimOrder,
             BeforeAskOrder, AskOrder, RecoverOrder DEF Next

LEMMA OrderInit == Init => Order
  BY DEF Init, StoreInit, Outside, Order, ReceiptsInOrder, AttemptsMade, OwnerIsCurrent,
     FirstIsAlone, OneProviderCall, Alone, Asking, At, BeforeCall, HasAttempt, Executing

\* The provider is asked at most once for a slice.
THEOREM AskedOnce == Spec => []OneProviderCall
  <1>1. Order => OneProviderCall
    BY DEF Order
  <1> QED BY <1>1, TypesInit, TypesStep, OrderInit, OrderStep, PTL DEF Spec

-----------------------------------------------------------------------------
(* The terminal rows.  A process that is past the Capture is at a point    *)
(* that fits it, and a Capture that was rejected has ended its Run.        *)
PointMatches(p) ==
    LET s == call[p].slice IN
    /\ call[p].pc = "GAP" => capture[s].kind = "PROVIDER_FAILURE"
    /\ call[p].pc \in {"NORMALIZE", "OBSERVE"} => capture[s].kind = "DATA"
    /\ call[p].pc = "COMPLETE" => capture[s].kind = "IMMATURE"
    /\ call[p].pc = "RECONCILE" => terminal[s] # "NONE"

RejectedEnded ==
    \A s \in Step : capture[s].kind = "REJECTED" => runState[RunOf[s]] = "FAILED"

Evidence ==
    TerminalMatchesEvidence /\ RejectedEnded /\ \A p \in Proc : PointMatches(p)

\* The terminal row of s, if any, is what the Capture and the clock call for.
RowMatches(s) ==
    LET kind == capture[s].kind IN
    /\ terminal[s] = "CAPTURED_ON_TIME" => kind = "DATA" /\ ~capture[s].late
    /\ terminal[s] = "CAPTURED_LATE" => kind = "DATA" /\ capture[s].late
    /\ terminal[s] = "PROVIDER_GAP" => kind = "PROVIDER_FAILURE"
    /\ terminal[s] = "MISSED" => overdue[s]

\* A command of the store with which no Attempt succeeds.
StoreGoesOn ==
    /\ \A s \in Step : overdue[s] => overdue'[s]
    /\ \A s \in Step : runState[RunOf[s]] = "FAILED" => runState'[RunOf[s]] = "FAILED"
    /\ \A s \in Step : stepState'[s] = "SUCCEEDED" => stepState[s] = "SUCCEEDED"

\* What every step does to the rows.
RowsGoOn ==
    /\ \A s \in Step : overdue[s] => overdue'[s]
    /\ \A s \in Step : runState[RunOf[s]] = "FAILED" => runState'[RunOf[s]] = "FAILED"
    /\ \A s \in Step : stepState'[s] = "SUCCEEDED" =>
          stepState[s] = "SUCCEEDED" \/ terminal'[s] # "NONE" \/ capture'[s].kind = "IMMATURE"
    /\ \A s \in Step :
          /\ capture[s].kind # "NONE" => capture'[s] = capture[s]
          /\ capture'[s].kind = "REJECTED" =>
                capture[s].kind = "REJECTED" \/ runState'[RunOf[s]] = "FAILED"
    /\ \A s \in Step :
          /\ terminal[s] # "NONE" => terminal'[s] = terminal[s]
          /\ terminal'[s] = terminal[s] \/ RowMatches(s)'

MovesSoundly(p) == PointMatches(p)' /\ \A q \in Proc \ {p} : call'[q] = call[q]

LEMMA EvidenceKeeps ==
    ASSUME Types, Evidence, RowsGoOn,
           UNCHANGED call \/ \E p \in Proc : MovesSoundly(p)
    PROVE  Evidence'
  <1>1. ASSUME NEW s \in Step
        PROVE  RowMatches(s)'
    <2>1. RowMatches(s)
      BY DEF Evidence, TerminalMatchesEvidence, RowMatches
    <2> QED BY <2>1 DEF RowsGoOn, RowMatches
  <1>2. ASSUME NEW s \in Step, stepState'[s] = "SUCCEEDED"
        PROVE  terminal'[s] # "NONE" \/ capture'[s].kind = "IMMATURE"
    BY <1>2 DEF RowsGoOn, Evidence, TerminalMatchesEvidence
  <1>3. TerminalMatchesEvidence'
    BY <1>1, <1>2 DEF TerminalMatchesEvidence, RowMatches
  <1>4. RejectedEnded'
    BY DEF RowsGoOn, Evidence, RejectedEnded
  <1>5. ASSUME NEW q \in Proc, call'[q] = call[q]
        PROVE  PointMatches(q)'
    <2>1. CASE call[q].pc \in {"GAP", "NORMALIZE", "OBSERVE", "COMPLETE", "RECONCILE"}
      <3>1. call[q].slice \in Step
        BY <2>1 DEF Types, WorkIsNamed, HasAttempt, Executing
      <3> QED BY <1>5, <2>1, <3>1 DEF RowsGoOn, Evidence, PointMatches
    <2>2. CASE call[q].pc \notin {"GAP", "NORMALIZE", "OBSERVE", "COMPLETE", "RECONCILE"}
      BY <1>5, <2>2 DEF PointMatches
    <2> QED BY <2>1, <2>2
  <1>6. \A q \in Proc : PointMatches(q)'
    BY <1>5 DEF MovesSoundly
  <1> QED BY <1>3, <1>4, <1>6 DEF Evidence

LEMMA StoreIsSteady ==
    ASSUME Types, NEW s, NEW n, NEW x, NEW y,
           \/ s \in Run /\ StartRun(s)
           \/ s \in Step /\ (\/ InsertClaim(s) \/ StartAttempt(s, n) \/ FailAttempt(s, n, x, y)
                             \/ RecoverExpired(s, n) \/ ExpireDeadline(s)
                             \/ LeaseTick(s) \/ DeadlinePasses(s) \/ BackoffElapses(s))
           \/ UNCHANGED storeVars
    PROVE  StoreGoesOn
  <1> USE PlanAssumption DEF Types, TypeOK, StoreTypeOK, StoreGoesOn
  <1>1. CASE s \in Run /\ StartRun(s)
    BY <1>1 DEF StartRun
  <1>2. CASE s \in Step /\ InsertClaim(s)
    BY <1>2 DEF InsertClaim
  <1>3. CASE s \in Step /\ StartAttempt(s, n)
    BY <1>3 DEF StartAttempt
  <1>4. CASE s \in Step /\ FailAttempt(s, n, x, y)
    <2>1. UNCHANGED overdue /\ runState[RunOf[s]] = "RUNNING"
      BY <1>4 DEF FailAttempt, OwnsFence
    <2>2. runState' = runState \/ \E z : runState' = [runState EXCEPT ![RunOf[s]] = z]
      BY <1>4 DEF FailAttempt
    <2>3. \E z \in StepStates \ {"SUCCEEDED"} : stepState' = [stepState EXCEPT ![s] = z]
      BY <1>4 DEF FailAttempt, StepStates
    <2>4. \A t \in Step : runState[RunOf[t]] = "FAILED" => runState'[RunOf[t]] = "FAILED"
      BY <1>4, <2>1, <2>2
    <2>5. \A t \in Step : stepState'[t] = "SUCCEEDED" => stepState[t] = "SUCCEEDED"
      BY <1>4, <2>3
    <2> QED BY <2>1, <2>4, <2>5
  <1>5. CASE s \in Step /\ RecoverExpired(s, n)
    BY <1>5 DEF RecoverExpired, RecoveryVerdict, ExpiredAttempt
  <1>6. CASE s \in Step /\ ExpireDeadline(s)
    BY <1>6 DEF ExpireDeadline
  <1>7. CASE s \in Step /\ LeaseTick(s)
    BY <1>7 DEF LeaseTick
  <1>8. CASE s \in Step /\ DeadlinePasses(s)
    BY <1>8 DEF DeadlinePasses
  <1>9. CASE s \in Step /\ BackoffElapses(s)
    BY <1>9 DEF BackoffElapses
  <1>10. CASE UNCHANGED storeVars
    BY <1>10 DEF storeVars
  <1> QED BY <1>1, <1>2, <1>3, <1>4, <1>5, <1>6, <1>7, <1>8, <1>9, <1>10

LEMMA SucceedGoesOn ==
    ASSUME Types, NEW s \in Step, NEW n, SucceedAttempt(s, n)
    PROVE  /\ UNCHANGED overdue
           /\ \A t \in Step : runState[RunOf[t]] = "FAILED" => runState'[RunOf[t]] = "FAILED"
           /\ \A t \in Step \ {s} : stepState'[t] = "SUCCEEDED" => stepState[t] = "SUCCEEDED"
  <1> USE PlanAssumption DEF Types, TypeOK, StoreTypeOK
  <1>1. UNCHANGED overdue
    BY DEF SucceedAttempt
  <1>2. \A t \in Step : runState[RunOf[t]] = "FAILED" => runState'[RunOf[t]] = "FAILED"
    BY DEF SucceedAttempt, OwnsFence
  <1>3. \A t \in Step \ {s} : stepState'[t] = "SUCCEEDED" => stepState[t] = "SUCCEEDED"
    BY DEF SucceedAttempt, ReleaseSuccessors
  <1> QED BY <1>1, <1>2, <1>3

\* A step that leaves the rows of the archive alone.
LEMMA StoreRowsGoOn ==
    ASSUME StoreGoesOn, UNCHANGED sliceVars
    PROVE  RowsGoOn
  BY DEF StoreGoesOn, RowsGoOn, sliceVars

\* Points that need no evidence.
LEMMA PlainMoves ==
    ASSUME NEW p \in Proc, \A q \in Proc \ {p} : call'[q] = call[q],
           call'[p].pc \notin {"GAP", "NORMALIZE", "OBSERVE", "COMPLETE", "RECONCILE"}
    PROVE  MovesSoundly(p)
  BY DEF MovesSoundly, PointMatches

LEMMA PlainPoints ==
    ASSUME Types, NEW p \in Proc,
           \/ Return(p) \/ \E left : Continue(p, left) \/ \E why : Raise(p, why)
           \/ \E pc : /\ Goto(p, pc)
                      /\ pc \notin {"GAP", "NORMALIZE", "OBSERVE", "COMPLETE", "RECONCILE"}
    PROVE  MovesSoundly(p)
  <1>1. \A q \in Proc \ {p} : call'[q] = call[q]
    BY Arrives
  <1>2. CASE Return(p)
    <2>1. call'[p].pc = "OUT"
      BY <1>2 DEF Return, Outside, Types, TypeOK
    <2> QED BY <1>1, <2>1, PlainMoves
  <1>3. CASE \E left : Continue(p, left)
    <2>1. call'[p].pc = "LOOK"
      BY <1>3, Arrives
    <2> QED BY <1>1, <2>1, PlainMoves
  <1>4. CASE \E why : Raise(p, why)
    <2>1. call'[p].pc = "FAIL"
      BY <1>4, Arrives
    <2> QED BY <1>1, <2>1, PlainMoves
  <1>5. CASE \E pc : /\ Goto(p, pc)
                    /\ pc \notin {"GAP", "NORMALIZE", "OBSERVE", "COMPLETE", "RECONCILE"}
    <2>1. call'[p].pc \notin {"GAP", "NORMALIZE", "OBSERVE", "COMPLETE", "RECONCILE"}
      BY <1>5, Arrives
    <2> QED BY <1>1, <2>1, PlainMoves
  <1> QED BY <1>2, <1>3, <1>4, <1>5

\* Going where the slice's Capture leads.
LEMMA CaptureLeads ==
    ASSUME Types, NEW p \in Proc, NEW kind \in Answers, Goto(p, NextAfter(kind)),
           capture'[call[p].slice].kind = kind
    PROVE  MovesSoundly(p)
  <1>1. /\ call'[p].pc = NextAfter(kind) /\ call'[p].slice = call[p].slice
        /\ \A q \in Proc \ {p} : call'[q] = call[q]
    BY Arrives
  <1> QED BY <1>1 DEF MovesSoundly, PointMatches, NextAfter, Answers

\* The actions that write nothing about a slice.
LEMMA PlainEvidence ==
    ASSUME Types, Evidence, NEW p \in Proc,
           \/ Acquire(p) \/ LoseLock(p) \/ Crash(p) \/ Check(p) \/ Enter(p) \/ Register(p)
           \/ Recover(p) \/ Due(p) \/ Look(p) \/ Claim(p) \/ Start(p) \/ Load(p)
           \/ Preflight(p) \/ BeforeAsk(p) \/ Normalize(p) \/ Falter(p) \/ Fail(p)
    PROVE  RowsGoOn /\ (UNCHANGED call \/ MovesSoundly(p))
  <1>r. call \in [Proc -> Calls] /\ call[p] \in Calls
    BY DEF Types, TypeOK
  <1>s. call[p].pc \in HasAttempt \cup {"CLAIM"} => call[p].slice \in Step
    BY DEF Types, WorkIsNamed
  <1>i. UNCHANGED storeVars => StoreGoesOn
    BY StoreIsSteady
  <1>1. CASE Acquire(p)
    BY <1>1, <1>i, StoreRowsGoOn DEF Acquire
  <1>2. CASE LoseLock(p)
    BY <1>2, <1>i, StoreRowsGoOn DEF LoseLock
  <1>3. CASE Crash(p)
    BY <1>3, <1>i, StoreRowsGoOn, PlainPoints DEF Crash, sliceVars
  <1>4. CASE Check(p)
    <2>1. CASE Return(p)
      BY <1>4, <1>i, <2>1, StoreRowsGoOn, PlainPoints DEF Check
    <2>2. CASE call' = [call EXCEPT ![p].checked = TRUE]
      <3>1. call'[p].pc = call[p].pc /\ \A q \in Proc \ {p} : call'[q] = call[q]
        BY <1>r, <2>2 DEF Calls
      <3>2. MovesSoundly(p)
        BY <1>4, <3>1, PlainMoves DEF Check, Guarded
      <3> QED BY <1>4, <1>i, <3>2, StoreRowsGoOn DEF Check
    <2> QED BY <1>4, <2>1, <2>2 DEF Check
  <1>5. CASE Enter(p)
    BY <1>5, <1>i, StoreRowsGoOn, PlainPoints DEF Enter
  <1>6. CASE Register(p)
    <2>1. StoreGoesOn
      BY <1>6, StoreIsSteady DEF Register
    <2> QED BY <1>6, <2>1, StoreRowsGoOn, PlainPoints DEF Register
  <1>7. CASE Recover(p)
    <2>1. StoreGoesOn
      BY <1>7, StoreIsSteady DEF Recover
    <2> QED BY <1>7, <2>1, StoreRowsGoOn, PlainPoints DEF Recover
  <1>8. CASE Due(p)
    <2>1. call'[p].pc = "LOOK" /\ \A q \in Proc \ {p} : call'[q] = call[q]
      BY <1>8, <1>r DEF Due, Calls
    <2> QED BY <1>8, <1>i, <2>1, StoreRowsGoOn, PlainMoves DEF Due
  <1>9. CASE Look(p)
    <2>1. CASE Return(p)
      BY <1>9, <1>i, <2>1, StoreRowsGoOn, PlainPoints DEF Look
    <2>2. CASE ~Return(p)
      <3>1. PICK z : call' = [call EXCEPT ![p].pc = "CLAIM", ![p].slice = z,
                                          ![p].attempts = tried[z]]
        BY <1>9, <2>2 DEF Look
      <3>2. call'[p].pc = "CLAIM" /\ \A q \in Proc \ {p} : call'[q] = call[q]
        BY <1>r, <3>1 DEF Calls
      <3> QED BY <1>9, <1>i, <3>2, StoreRowsGoOn, PlainMoves DEF Look
    <2> QED BY <2>1, <2>2
  <1>10. CASE Claim(p)
    <2>1. call[p].slice \in Step
      BY <1>10, <1>s DEF Claim, At
    <2>2. StoreGoesOn
      BY <1>10, <2>1, StoreIsSteady DEF Claim
    <2>3. \/ Return(p) \/ \E left : Continue(p, left)
          \/ \E m : call' = [call EXCEPT ![p].pc = "START", ![p].checked = FALSE, ![p].claim = m]
      BY <1>10 DEF Claim
    <2>4. CASE \E m : call' = [call EXCEPT ![p].pc = "START", ![p].checked = FALSE, ![p].claim = m]
      <3>1. call'[p].pc = "START" /\ \A q \in Proc \ {p} : call'[q] = call[q]
        BY <1>r, <2>4 DEF Calls
      <3> QED BY <1>10, <2>2, <3>1, StoreRowsGoOn, PlainMoves DEF Claim
    <2>5. CASE Return(p) \/ \E left : Continue(p, left)
      BY <1>10, <2>2, <2>5, StoreRowsGoOn, PlainPoints DEF Claim
    <2> QED BY <2>3, <2>4, <2>5
  <1>11. CASE Start(p)
    <2>1. call[p].slice \in Step
      BY <1>11, <1>s DEF Start, HasAttempt
    <2>2. StoreGoesOn
      BY <1>11, <2>1, StoreIsSteady DEF Start
    <2>3. Return(p) \/ Goto(p, "LOAD")
      BY <1>11 DEF Start
    <2> QED BY <1>11, <2>2, <2>3, StoreRowsGoOn, PlainPoints DEF Start
  <1>12. CASE Load(p)
    <2>1. CASE terminal[call[p].slice] # "NONE" /\ Goto(p, "RECONCILE")
      <3>1. /\ call'[p].pc = "RECONCILE" /\ call'[p].slice = call[p].slice
            /\ \A q \in Proc \ {p} : call'[q] = call[q]
        BY <2>1, Arrives
      <3>2. MovesSoundly(p)
        BY <1>12, <2>1, <3>1 DEF Load, MovesSoundly, PointMatches, sliceVars
      <3> QED BY <1>12, <1>i, <3>2, StoreRowsGoOn DEF Load
    <2>2. CASE ~(terminal[call[p].slice] # "NONE" /\ Goto(p, "RECONCILE"))
      <3>1. /\ call'[p].pc \in {"STOP", "PREFLIGHT"}
            /\ \A q \in Proc \ {p} : call'[q] = call[q]
        BY <1>12, <1>r, <2>2 DEF Load, Calls
      <3> QED BY <1>12, <1>i, <3>1, StoreRowsGoOn, PlainMoves DEF Load
    <2> QED BY <2>1, <2>2
  <1>13. CASE Preflight(p)
    <2>1. CASE Goto(p, "CALL")
      BY <1>13, <1>i, <2>1, StoreRowsGoOn, PlainPoints DEF Preflight
    <2>2. CASE ~Goto(p, "CALL")
      BY <1>13, <1>i, <2>2, StoreRowsGoOn, CaptureLeads DEF Preflight, sliceVars
    <2> QED BY <2>1, <2>2
  <1>14. CASE BeforeAsk(p)
    <2>1. CASE call' = [call EXCEPT ![p].checked = TRUE]
      <3>1. call'[p].pc = "CALL" /\ \A q \in Proc \ {p} : call'[q] = call[q]
        BY <1>14, <1>r, <2>1 DEF BeforeAsk, Calls
      <3> QED BY <1>14, <1>i, <3>1, StoreRowsGoOn, PlainMoves DEF BeforeAsk
    <2>2. CASE Raise(p, "INTEGRITY") \/ Goto(p, "REJECT")
      BY <1>14, <1>i, <2>2, StoreRowsGoOn, PlainPoints DEF BeforeAsk
    <2> QED BY <1>14, <2>1, <2>2 DEF BeforeAsk
  <1>15. CASE Normalize(p)
    <2>1. call[p].slice \in Step
      BY <1>15, <1>s DEF Normalize, HasAttempt, Executing
    <2>2. StoreGoesOn
      BY <1>15, <2>1, StoreIsSteady DEF Normalize
    <2>3. CASE Return(p)
      BY <1>15, <2>2, <2>3, StoreRowsGoOn, PlainPoints DEF Normalize
    <2>4. CASE Goto(p, "OBSERVE")
      <3>1. /\ call'[p].pc = "OBSERVE" /\ call'[p].slice = call[p].slice
            /\ \A q \in Proc \ {p} : call'[q] = call[q]
        BY <2>4, Arrives
      <3>2. capture'[call[p].slice].kind = "DATA"
        BY <1>15 DEF Normalize, Evidence, PointMatches, sliceVars
      <3>3. MovesSoundly(p)
        BY <3>1, <3>2 DEF MovesSoundly, PointMatches
      <3> QED BY <1>15, <2>2, <3>3, StoreRowsGoOn DEF Normalize
    <2> QED BY <1>15, <2>3, <2>4 DEF Normalize
  <1>16. CASE Falter(p)
    BY <1>16, <1>i, StoreRowsGoOn, PlainPoints DEF Falter
  <1>17. CASE Fail(p)
    <2>1. call[p].slice \in Step
      BY <1>17, <1>s DEF Fail, HasAttempt
    <2>2. StoreGoesOn
      BY <1>17, <2>1, StoreIsSteady DEF Fail
    <2>3. Return(p) \/ \E left : Continue(p, left)
      BY <1>17 DEF Fail
    <2> QED BY <1>17, <2>2, <2>3, StoreRowsGoOn, PlainPoints DEF Fail
  <1> QED BY <1>1, <1>2, <1>3, <1>4, <1>5, <1>6, <1>7, <1>8, <1>9, <1>10, <1>11, <1>12,
             <1>13, <1>14, <1>15, <1>16, <1>17

\* A terminal row with the success of its Attempt.
LEMMA TerminateEvidence ==
    ASSUME Types, NEW p \in Proc, NEW x \in Terminals, Terminate(p, x),
           call[p].slice \in Step,
           LET c == capture[call[p].slice] IN
             /\ x = "CAPTURED_ON_TIME" => c.kind = "DATA" /\ ~c.late
             /\ x = "CAPTURED_LATE" => c.kind = "DATA" /\ c.late
             /\ x = "PROVIDER_GAP" => c.kind = "PROVIDER_FAILURE"
             /\ x # "MISSED"
    PROVE  RowsGoOn /\ MovesSoundly(p)
  <1> PICK s \in Step : s = call[p].slice
    OBVIOUS
  <1>1. /\ terminal[s] = "NONE" /\ terminal'[s] = x /\ x # "NONE"
        /\ \A t \in Step \ {s} : terminal'[t] = terminal[t]
        /\ UNCHANGED capture
    BY DEF Terminate, Types, TypeOK, Terminals
  <1>2. MovesSoundly(p)
    BY PlainPoints DEF Terminate
  <1>3. SucceedAttempt(s, call[p].claim)
    BY DEF Terminate
  <1>4. /\ x = "CAPTURED_ON_TIME" => capture[s].kind = "DATA" /\ ~capture[s].late
        /\ x = "CAPTURED_LATE" => capture[s].kind = "DATA" /\ capture[s].late
        /\ x = "PROVIDER_GAP" => capture[s].kind = "PROVIDER_FAILURE"
        /\ x # "MISSED"
    OBVIOUS
  <1>5. RowMatches(s)'
    BY <1>1, <1>4 DEF RowMatches
  <1>6. \A t \in Step : overdue[t] => overdue'[t]
    BY <1>3, SucceedGoesOn
  <1>7. \A t \in Step : stepState'[t] = "SUCCEEDED" =>
            stepState[t] = "SUCCEEDED" \/ terminal'[t] # "NONE"
    BY <1>1, <1>3, SucceedGoesOn
  <1>8. \A t \in Step : /\ terminal[t] # "NONE" => terminal'[t] = terminal[t]
                        /\ terminal'[t] = terminal[t] \/ RowMatches(t)'
    BY <1>1, <1>5
  <1> QED BY <1>1, <1>2, <1>3, <1>6, <1>7, <1>8, SucceedGoesOn DEF RowsGoOn

\* The actions that write about a slice.
LEMMA SliceEvidence ==
    ASSUME Types, Evidence, NEW p \in Proc,
           \/ Sweep(p) \/ Stop(p) \/ Ask(p) \/ Reject(p) \/ Bind(p) \/ Gap(p)
           \/ Complete(p) \/ Observe(p) \/ Reconcile(p)
    PROVE  RowsGoOn /\ MovesSoundly(p)
  <1> DEFINE s == call[p].slice
  <1>r. call \in [Proc -> Calls] /\ call[p] \in Calls
    BY DEF Types, TypeOK
  <1>s. call[p].pc \in HasAttempt => s \in Step
    BY DEF Types, WorkIsNamed
  <1>p. PointMatches(p)
    BY DEF Evidence
  <1>1. CASE Sweep(p)
    <2>1. MovesSoundly(p)
      BY <1>1, PlainPoints DEF Sweep
    <2>2. UNCHANGED <<overdue, runState, stepState, capture>>
      BY <1>1 DEF Sweep, storeVars
    <2>3. ASSUME NEW t \in Step
          PROVE  \/ terminal'[t] = terminal[t]
                 \/ terminal[t] = "NONE" /\ overdue[t] /\ terminal'[t] = "MISSED"
      <3>1. terminal' = [z \in Step |-> IF z \in Overdue THEN "MISSED" ELSE terminal[z]]
        BY <1>1 DEF Sweep
      <3>2. CASE t \in Overdue
        BY <3>1, <3>2 DEF Overdue
      <3>3. CASE t \notin Overdue
        BY <3>1, <3>3
      <3> QED BY <3>2, <3>3
    <2> QED BY <2>1, <2>2, <2>3 DEF RowsGoOn, RowMatches
  <1>2. CASE Stop(p)
    BY <1>2, <1>s, TerminateEvidence DEF Stop, Terminals, HasAttempt, Executing
  <1>3. CASE Gap(p)
    BY <1>3, <1>s, <1>p, TerminateEvidence DEF Gap, Terminals, HasAttempt, Executing, PointMatches
  <1>4. CASE Observe(p)
    <2>1. CASE Terminate(p, Timeliness(s))
      <3>1. Timeliness(s) \in {"CAPTURED_LATE", "CAPTURED_ON_TIME"}
        BY DEF Timeliness
      <3>2. Timeliness(s) = "CAPTURED_LATE" <=> capture[s].late
        BY DEF Timeliness
      <3>3. capture[s].kind = "DATA" /\ s \in Step
        BY <1>4, <1>s, <1>p DEF Observe, PointMatches, HasAttempt, Executing
      <3> HIDE DEF s
      <3> QED BY <2>1, <3>1, <3>2, <3>3, TerminateEvidence DEF Terminals, s
    <2>2. CASE ~Terminate(p, Timeliness(s))
      <3>1. StoreGoesOn
        BY <1>4, <2>2, StoreIsSteady DEF Observe
      <3> QED BY <1>4, <2>2, <3>1, StoreRowsGoOn, PlainPoints DEF Observe
    <2> QED BY <2>1, <2>2
  <1>5. CASE Ask(p)
    <2>1. /\ call'[p].pc \in {"BIND", "REJECT", "FAIL"}
          /\ \A q \in Proc \ {p} : call'[q] = call[q]
      BY <1>5, <1>r DEF Ask, Goto, Raise, Calls
    <2>2. MovesSoundly(p)
      BY <2>1, PlainMoves
    <2>3. UNCHANGED <<overdue, runState, stepState, capture, terminal>>
      BY <1>5 DEF Ask, storeVars
    <2> QED BY <2>2, <2>3 DEF RowsGoOn
  <1>6. CASE Reject(p)
    <2>1. s \in Step
      BY <1>6, <1>s DEF Reject, HasAttempt, Executing
    <2>2. CASE Return(p) /\ capture[s].kind = "NONE" /\ FailAttempt(s, call[p].claim, FALSE, FALSE)
               /\ capture' = [capture EXCEPT ![s].kind = "REJECTED"]
      <3>1. StoreGoesOn
        BY <2>1, <2>2, StoreIsSteady
      <3>2. runState'[RunOf[s]] = "FAILED"
        <4>1. runState' = [runState EXCEPT ![RunOf[s]] = "FAILED"]
          BY <2>1, <2>2, CollectionAssumption DEF FailAttempt
        <4>2. RunOf[s] \in Run /\ runState \in [Run -> RunStates]
          BY <2>1, PlanAssumption DEF Types, TypeOK, StoreTypeOK
        <4> HIDE DEF s
        <4> QED BY <4>1, <4>2
      <3>3. \A t \in Step \ {s} : capture'[t] = capture[t]
        BY <2>2 DEF Types, TypeOK
      <3>4. RowsGoOn
        BY <1>6, <2>1, <2>2, <3>1, <3>2, <3>3 DEF Reject, RowsGoOn, StoreGoesOn
      <3> QED BY <2>2, <3>4, PlainPoints
    <2>3. CASE Goto(p, "PREFLIGHT") /\ UNCHANGED <<storeVars, capture>>
      <3>1. StoreGoesOn
        BY <2>3, StoreIsSteady
      <3> QED BY <1>6, <2>3, <3>1, StoreRowsGoOn, PlainPoints DEF Reject, sliceVars
    <2> QED BY <1>6, <2>2, <2>3 DEF Reject
  <1>7. CASE Bind(p)
    <2>1. s \in Step /\ call[p].answer \in Answers /\ runState[RunOf[s]] = "RUNNING"
      BY <1>7, <1>r, <1>s DEF Bind, HasAttempt, Executing, Calls, Live, OwnsFence
    <2>2. UNCHANGED <<overdue, runState, stepState, terminal>>
      BY <1>7 DEF Bind, storeVars
    <2>3. CASE /\ capture[s].kind = "NONE"
               /\ capture' = [capture EXCEPT ![s] = [kind |-> call[p].answer, late |-> overdue[s]]]
               /\ Goto(p, NextAfter(call[p].answer)) \/ Raise(p, "PROVIDER")
      <3>1. capture'[s].kind = call[p].answer /\ \A t \in Step \ {s} : capture'[t] = capture[t]
        BY <2>1, <2>3 DEF Types, TypeOK
      <3>2. MovesSoundly(p)
        BY <2>1, <2>3, <3>1, CaptureLeads, PlainPoints
      <3>3. RowsGoOn
        BY <2>1, <2>2, <2>3, <3>1 DEF RowsGoOn, Answers
      <3> QED BY <3>2, <3>3
    <2>4. CASE capture[s].kind # "NONE" /\ Goto(p, NextAfter(capture[s].kind)) /\ UNCHANGED capture
      <3>1. capture[s].kind \in Answers
        BY <2>1, <2>4 DEF Evidence, RejectedEnded, Types, TypeOK, Captures
      <3>2. MovesSoundly(p)
        BY <2>4, <3>1, CaptureLeads
      <3> QED BY <2>2, <2>4, <3>2 DEF RowsGoOn
    <2>5. CASE Goto(p, "REJECT") /\ UNCHANGED capture
      BY <2>2, <2>5, PlainPoints DEF RowsGoOn
    <2> QED BY <1>7, <2>3, <2>4, <2>5 DEF Bind
  <1>8. CASE Complete(p)
    <2>1. s \in Step /\ capture[s].kind = "IMMATURE" /\ SucceedAttempt(s, call[p].claim)
      BY <1>8, <1>s, <1>p DEF Complete, HasAttempt, Executing, PointMatches
    <2>2. MovesSoundly(p)
      BY <1>8, PlainPoints DEF Complete
    <2> QED BY <1>8, <2>1, <2>2, SucceedGoesOn DEF Complete, RowsGoOn, sliceVars
  <1>9. CASE Reconcile(p)
    <2>1. s \in Step /\ terminal[s] # "NONE" /\ SucceedAttempt(s, call[p].claim)
      BY <1>9, <1>s, <1>p DEF Reconcile, HasAttempt, Executing, PointMatches
    <2>2. MovesSoundly(p)
      BY <1>9, PlainPoints DEF Reconcile
    <2> QED BY <1>9, <2>1, <2>2, SucceedGoesOn DEF Reconcile, RowsGoOn, sliceVars
  <1> QED BY <1>1, <1>2, <1>3, <1>4, <1>5, <1>6, <1>7, <1>8, <1>9

LEMMA EvidenceStep ==
    Types /\ Evidence /\ [Next]_vars => Evidence' /\ RowsGoOn
  <1> SUFFICES ASSUME Types, Evidence, [Next]_vars
               PROVE  RowsGoOn /\ (UNCHANGED call \/ \E p \in Proc : MovesSoundly(p))
    BY EvidenceKeeps
  <1>1. ASSUME NEW s \in Step, Time(s)
        PROVE  RowsGoOn /\ UNCHANGED call
    <2>1. StoreGoesOn
      BY <1>1, StoreIsSteady DEF Time
    <2> QED BY <1>1, <2>1, StoreRowsGoOn DEF Time
  <1>2. CASE UNCHANGED vars
    <2>1. StoreGoesOn
      BY <1>2, StoreIsSteady DEF vars
    <2> QED BY <1>2, <2>1, StoreRowsGoOn DEF vars
  <1> QED BY <1>1, <1>2, PlainEvidence, SliceEvidence DEF Next

LEMMA EvidenceInit == Init => Evidence
  BY PlanAssumption
  DEF Init, StoreInit, Outside, Evidence, TerminalMatchesEvidence, RejectedEnded, PointMatches

\* The terminal row says what happened, for any number of slices and Attempts.
THEOREM TerminalIsTrue == Spec => []TerminalMatchesEvidence
  <1>1. Evidence => TerminalMatchesEvidence
    BY DEF Evidence
  <1> QED BY <1>1, TypesInit, TypesStep, EvidenceInit, EvidenceStep, PTL DEF Spec

\* What became of a slice is never rewritten.
THEOREM TerminalStays == Spec => TerminalIsFinal
  <1> DEFINE Stays == \A s \in Step : terminal[s] # "NONE" => terminal'[s] = terminal[s]
  <1>1. Types /\ Evidence /\ [Next]_vars => [Stays]_vars
    BY EvidenceStep DEF RowsGoOn
  <1>2. Spec => [][Stays]_vars
    BY <1>1, TypesInit, TypesStep, EvidenceInit, EvidenceStep, PTL DEF Spec
  <1> QED BY <1>2 DEF TerminalIsFinal

-----------------------------------------------------------------------------
(* The collection as one caller of the store among others.                 *)

LEMMA RowsObey ==
    ASSUME Types, NEW p \in Proc,
           \/ Register(p) \/ Recover(p) \/ Claim(p) \/ Start(p) \/ Fail(p)
           \/ Stop(p) \/ Reject(p) \/ Gap(p) \/ Complete(p) \/ Normalize(p)
           \/ Observe(p) \/ Reconcile(p)
    PROVE  [StoreNext]_storeVars
  <1>1. CASE Register(p)
    BY <1>1 DEF Register, StoreNext
  <1>2. CASE Recover(p)
    <2>1. \A s \in Step : current[s] # 0 => current[s] \in AttemptNo
      BY BudgetAssumption DEF Types, StoreInv, StoreTypeOK
    <2> QED BY <1>2, <2>1 DEF Recover, StoreNext, AttemptStep, RowStep
  <1>3. CASE Claim(p)
    <2>1. call[p].slice \in Step
      BY <1>3 DEF Claim, At, Types, WorkIsNamed
    <2> QED BY <1>3, <2>1 DEF Claim, Claimable, StoreNext, RowStep, TakeClaim
  <1>4. CASE ~Register(p) /\ ~Recover(p) /\ ~Claim(p)
    <2>1. call[p].pc \in HasAttempt
      BY <1>4 DEF Start, Fail, Stop, Reject, Gap, Complete, Normalize, Observe,
         Reconcile, HasAttempt, Executing
    <2>2. call[p].slice \in Step /\ call[p].claim \in AttemptNo
      BY <2>1 DEF Types, WorkIsNamed
    <2>3. \/ UNCHANGED storeVars
          \/ StartAttempt(call[p].slice, call[p].claim)
          \/ SucceedAttempt(call[p].slice, call[p].claim)
          \/ FailAttempt(call[p].slice, call[p].claim, FALSE, FALSE)
          \/ FailAttempt(call[p].slice, call[p].claim, call[p].why = "PROVIDER", TRUE)
      BY <1>4 DEF Start, Fail, Stop, Reject, Gap, Complete, Normalize, Observe,
         Reconcile, Terminate
    <2> QED BY <2>2, <2>3 DEF StoreNext, AttemptStep
  <1> QED BY <1>1, <1>2, <1>3, <1>4

\* Every step of a collection is a step of the store that its callers may take.
THEOREM CollectionObeysStore == Spec => StoreSpec
  <1>1. Init => StoreInit
    BY DEF Init
  <1>2. Types /\ [Next]_vars => [StoreNext]_storeVars
    <2> SUFFICES ASSUME Types, [Next]_vars PROVE [StoreNext]_storeVars
      OBVIOUS
    <2>1. ASSUME NEW p \in Proc,
                 \/ Acquire(p) \/ LoseLock(p) \/ Crash(p) \/ Check(p)
                 \/ Enter(p) \/ Sweep(p) \/ Due(p) \/ Look(p) \/ Load(p)
                 \/ Preflight(p) \/ BeforeAsk(p) \/ Ask(p) \/ Bind(p) \/ Falter(p)
          PROVE  UNCHANGED storeVars
      BY <2>1 DEF Acquire, LoseLock, Crash, Check, Enter, Sweep, Due, Look, Load,
         Preflight, BeforeAsk, Ask, Bind, Falter
    <2>2. ASSUME NEW s \in Step, Time(s)
          PROVE  StoreNext
      BY <2>2 DEF Time, StoreNext, TimeStep
    <2>3. CASE UNCHANGED vars
      BY <2>3 DEF vars
    <2> QED BY <2>1, <2>2, <2>3, RowsObey DEF Next
  <1> QED BY <1>1, <1>2, TypesInit, TypesStep, PTL DEF Spec, StoreSpec

\* So the collection's Runs are a history of the ledger: one slice of a Run at
\* a time, each within its budget, and one end.
THEOREM CollectionIsLedger == Spec => ImplementsLedger
BY CollectionObeysStore, StoreIsLedger, PTL
=============================================================================
