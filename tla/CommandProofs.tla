---------------------------- MODULE CommandProofs ---------------------------
(***************************************************************************)
(* A command takes effect once, and what receipt, Attempts and callers say *)
(* of it agrees, for any number of callers, Steps, requests and Attempts.  *)
(*                                                                         *)
(* CommandReceipts's invariants need what a call knows at each of its      *)
(* points, and that an Attempt that goes on has no result.                 *)
(***************************************************************************)
EXTENDS CommandReceipts, TLAPS

\* A call is for the request of its Step and for an Attempt that was made; it
\* has no answer while it goes on, and rejects only a key that is taken.
CallIsSound(c) ==
    LET k == call[c] IN
    /\ k.step # NoStep => k.request = RequestOf[k.step] /\ k.n <= attempt[k.step].n
    /\ k.at # "IDLE" => k.answer = "NONE" /\ k.request \in Request
    /\ k.at = "REJECTING" => Taken(c)

CallsAreSound == \A c \in Caller : CallIsSound(c)

\* An Attempt that goes on or has lapsed has no result.
OpenHasNoResult ==
    \A s \in Step : attempt[s].state \in {"LIVE", "LAPSED"} => attempt[s].by = "NOTHING"

\* No receipt, no request or Step on it.
BlankReceipt ==
    /\ receipt.status = "NONE" => receipt.step = NoStep
    /\ receipt.status # "NONE" => receipt.request \in Request

Inv ==
    /\ TypeOK
    /\ EffectOnce
    /\ AttemptMatchesReceipt
    /\ ReceiptNamesItsAttempt
    /\ AnswersAreTrue
    /\ CallsAreSound
    /\ OpenHasNoResult
    /\ BlankReceipt

LEMMA InitInv == Init => Inv
  BY RequestAssumption
  DEF Init, Inv, TypeOK, EffectOnce, AttemptMatchesReceipt, ReceiptNamesItsAttempt,
      AnswersAreTrue, AnswerIsTrue, CallsAreSound, CallIsSound, OpenHasNoResult,
      BlankReceipt, Receipt, Attempt, Call, MaxTries

-----------------------------------------------------------------------------
(* How a call moves.                                                       *)
\* Only caller c moved, within its call, to a point and an answer in X.
Moved(c, X) ==
    /\ call' \in [Caller -> Call]
    /\ \A d \in Caller \ {c} : call'[d] = call[d]
    /\ call'[c].step = call[c].step
    /\ call'[c].n = call[c].n
    /\ call'[c].request = call[c].request
    /\ <<call'[c].at, call'[c].answer>> \in X

Answers == {"NONE", "RESULT", "REFUSED", "REUSED", "CONCURRENT", "STALE", "GAVE_UP"}

\* An answer ends a call.
LEMMA AnswerMoves ==
  ASSUME TypeOK, NEW c \in Caller, NEW a \in Answers, Answer(c, a)
  PROVE  Moved(c, {<<"IDLE", a>>})
  BY DEF TypeOK, Answer, Moved, Call, MaxTries, Answers

\* A retry goes back to the start, or gives up.
LEMMA RetryMoves ==
  ASSUME TypeOK, NEW c \in Caller, Retry(c)
  PROVE  Moved(c, {<<"READY", call[c].answer>>, <<"IDLE", "GAVE_UP">>})
<1>1. CASE call[c].tries < MaxTries
  BY <1>1 DEF TypeOK, Retry, Call
<1>2. CASE ~(call[c].tries < MaxTries)
  BY <1>2, AnswerMoves DEF Retry, Moved, Answers
<1> QED  BY <1>1, <1>2

\* After a commit a call is answered or retried.
LEMMA CommittedMoves ==
  ASSUME TypeOK, NEW c \in Caller, NEW a \in Answers, Committed(c, a)
  PROVE  Moved(c, {<<"IDLE", a>>, <<"READY", call[c].answer>>, <<"IDLE", "GAVE_UP">>})
  BY AnswerMoves, RetryMoves DEF Committed, Moved

\* Going from point to point within a call.
LEMMA PassMoves ==
  ASSUME TypeOK, NEW c \in Caller, NEW p \in {"READY", "FAILING", "REJECTING"},
         \/ call' = [call EXCEPT ![c].at = p]
         \/ call' = [call EXCEPT ![c].at = p, ![c].again = 1]
  PROVE  Moved(c, {<<p, call[c].answer>>})
  BY DEF TypeOK, Moved, Call

\* A step that leaves receipt and Attempts alone preserves the invariant if its
\* caller's answer, if any, says nothing of the command.
LEMMA MoveInv ==
  ASSUME Inv, NEW c \in Caller, UNCHANGED <<receipt, effect, attempt>>,
         NEW X, Moved(c, X), call[c].at # "IDLE",
         \A x \in X : \/ x[1] \in {"READY", "FAILING"} /\ x[2] = call[c].answer
                      \/ x[1] = "REJECTING" /\ x[2] = call[c].answer /\ Taken(c)
                      \/ x[1] = "IDLE" /\ x[2] \in {"NONE", "STALE", "GAVE_UP"}
                      \/ x = <<"IDLE", "CONCURRENT">> /\ Found(c, "SUCCEEDED")
  PROVE  Inv'
<1> DEFINE k == call'[c]
<1>0. \/ k.at \in {"READY", "FAILING"} /\ k.answer = call[c].answer
      \/ k.at = "REJECTING" /\ k.answer = call[c].answer /\ Taken(c)
      \/ k.at = "IDLE" /\ k.answer \in {"NONE", "STALE", "GAVE_UP"}
      \/ k.at = "IDLE" /\ k.answer = "CONCURRENT" /\ Found(c, "SUCCEEDED")
  BY DEF Moved
<1>1. TypeOK'
  BY DEF Inv, TypeOK, Moved
<1>2. EffectOnce' /\ AttemptMatchesReceipt' /\ ReceiptNamesItsAttempt'
      /\ OpenHasNoResult' /\ BlankReceipt'
  BY DEF Inv, EffectOnce, AttemptMatchesReceipt, ReceiptNamesItsAttempt,
     OpenHasNoResult, BlankReceipt
<1>3. AnswersAreTrue'
  BY <1>0 DEF Inv, AnswersAreTrue, AnswerIsTrue, Moved, Found
<1>4. CallsAreSound'
  BY <1>0 DEF Inv, CallsAreSound, CallIsSound, Moved, Taken
<1> QED  BY <1>1, <1>2, <1>3, <1>4 DEF Inv

-----------------------------------------------------------------------------
(* One lemma per action that writes.                                       *)
\* The Attempt of call c, if any, is live, and not the one on the receipt.
IsLive(c) ==
    call[c].step # NoStep =>
        /\ call[c].step \in Step
        /\ attempt[call[c].step].n = call[c].n
        /\ attempt[call[c].step].n \in 1..Budget
        /\ attempt[call[c].step].state = "LIVE"
        /\ attempt[call[c].step].by = "NOTHING"
        /\ call[c].request = RequestOf[call[c].step]
        /\ receipt.step # call[c].step

\* It ends in state x by result b.
AttemptEnds(c, x, b) ==
    /\ attempt' \in [Step -> Attempt]
    /\ \A s \in Step : s # call[c].step => attempt'[s] = attempt[s]
    /\ call[c].step # NoStep =>
           /\ attempt'[call[c].step].n = attempt[call[c].step].n
           /\ attempt'[call[c].step].state = x
           /\ attempt'[call[c].step].by = b

\* Call c is answered a, or gives up, or goes back to the start.
Answered(c, a) ==
    /\ call' \in [Caller -> Call]
    /\ \A d \in Caller \ {c} : call'[d] = call[d]
    /\ call'[c].step = call[c].step
    /\ call'[c].n = call[c].n
    /\ call'[c].request = call[c].request
    /\ call[c].request \in Request
    /\ call'[c].at # "REJECTING"
    /\ call'[c].at # "IDLE" => call'[c].answer = "NONE"
    /\ call'[c].answer \in {a, "NONE", "GAVE_UP"}

LEMMA FencedIsLive ==
  ASSUME Inv, NEW c \in Caller, Fenced(c)
  PROVE  IsLive(c)
  BY DEF Inv, TypeOK, Call, Attempt, Receipt, Fenced, Holds, OpenHasNoResult,
     CallsAreSound, CallIsSound, ReceiptNamesItsAttempt, IsLive

LEMMA EndEnds ==
  ASSUME Inv, NEW c \in Caller, Fenced(c), NEW x \in {"SUCCEEDED", "FAILED"},
         NEW b \in {"RECEIPT", "REJECTION", "EXECUTOR"}, End(c, x, b)
  PROVE  AttemptEnds(c, x, b)
<1>1. CASE call[c].step = NoStep
  BY <1>1, RequestAssumption DEF Inv, TypeOK, End, AttemptEnds
<1>2. CASE call[c].step # NoStep
  BY <1>2, FencedIsLive DEF Inv, TypeOK, End, Attempt, IsLive
<1> QED  BY <1>1, <1>2

LEMMA CommitAnswers ==
  ASSUME Inv, NEW c \in Caller, call[c].at # "IDLE", NEW a \in Answers,
         Committed(c, a) \/ Answer(c, a)
  PROVE  Answered(c, a)
<1>1. Moved(c, {<<"IDLE", a>>, <<"READY", call[c].answer>>, <<"IDLE", "GAVE_UP">>})
  BY CommittedMoves, AnswerMoves DEF Inv, Moved
<1>2. call[c].answer = "NONE" /\ call[c].request \in Request
  BY DEF Inv, CallsAreSound, CallIsSound
<1> QED  BY <1>1, <1>2 DEF Moved, Answered

LEMMA ExecuteInv ==
  ASSUME Inv, NEW c \in Caller, Execute(c)
  PROVE  Inv'
<1>1. AttemptEnds(c, "SUCCEEDED", "RECEIPT")
  BY EndEnds DEF Execute
<1>2. Answered(c, "RESULT")
  BY CommitAnswers DEF Execute, Answers
<1>3. IsLive(c)
  BY FencedIsLive DEF Execute
<1>4. TypeOK'
  BY <1>1, <1>2, <1>3, RequestAssumption
  DEF Inv, TypeOK, Receipt, Call, Execute, Ended, AttemptEnds, Answered
<1>5. EffectOnce'
  BY <1>1, <1>2, <1>3, RequestAssumption
  DEF Inv, EffectOnce, Execute, Ended
<1>6. AttemptMatchesReceipt'
  BY <1>1, <1>2, <1>3, RequestAssumption
  DEF Inv, AttemptMatchesReceipt, Attempt, Execute, Ended, AttemptEnds,
      CallsAreSound, CallIsSound
<1>7. ReceiptNamesItsAttempt'
  BY <1>1, <1>2, <1>3, RequestAssumption
  DEF ReceiptNamesItsAttempt, Execute, Ended, AttemptEnds, IsLive
<1>8. AnswersAreTrue'
  <2>1. ASSUME NEW d \in Caller \ {c} PROVE AnswerIsTrue(d)'
    BY <1>1, <1>2, <1>3, RequestAssumption
    DEF Inv, AnswersAreTrue, Execute, Answered, AnswerIsTrue
  <2>2. AnswerIsTrue(c)'
    BY <1>1, <1>2, <1>3, RequestAssumption
    DEF Execute, Ended, AttemptEnds, Answered, AnswerIsTrue
  <2> QED  BY <2>1, <2>2 DEF AnswersAreTrue
<1>9. CallsAreSound'
  <2>1. ASSUME NEW d \in Caller \ {c} PROVE CallIsSound(d)'
    <3>1. \A s \in Step : attempt'[s].n = attempt[s].n
      BY <1>1, RequestAssumption DEF AttemptEnds
    <3>2. call'[d] = call[d] /\ call[d].step \in Step \cup {NoStep} /\ CallIsSound(d)
      BY <1>2 DEF Inv, Call, CallsAreSound, Answered
    <3>3. Taken(d) => receipt' = receipt
      BY DEF Execute, Taken
    <3> QED  BY <3>1, <3>2, <3>3 DEF CallIsSound, Taken
  <2>2. CallIsSound(c)'
    BY <1>1, <1>2, <1>3, RequestAssumption
    DEF AttemptEnds, Answered, IsLive, CallIsSound
  <2> QED  BY <2>1, <2>2 DEF CallsAreSound
<1>10. OpenHasNoResult'
  BY <1>1, <1>2, <1>3, RequestAssumption
  DEF Inv, OpenHasNoResult, AttemptEnds
<1>11. BlankReceipt'
  BY <1>1, <1>2, <1>3, RequestAssumption
  DEF BlankReceipt, Execute, Ended, Answered
<1> QED  BY <1>4, <1>5, <1>6, <1>7, <1>8, <1>9, <1>10, <1>11 DEF Inv

LEMMA ReplayInv ==
  ASSUME Inv, NEW c \in Caller, Replay(c)
  PROVE  Inv'
<1>1. AttemptEnds(c, "SUCCEEDED", "RECEIPT")
  BY EndEnds DEF Replay
<1>2. Answered(c, "RESULT")
  BY CommitAnswers DEF Replay, Answers
<1>3. IsLive(c)
  BY FencedIsLive DEF Replay
<1>4. TypeOK'
  BY <1>1, <1>2, <1>3, RequestAssumption
  DEF Inv, TypeOK, Replay, AttemptEnds, Answered
<1>5. EffectOnce'
  BY <1>1, <1>2, <1>3, RequestAssumption
  DEF Inv, EffectOnce, Replay
<1>6. AttemptMatchesReceipt'
  BY <1>1, <1>2, <1>3, RequestAssumption
  DEF Inv, AttemptMatchesReceipt, Replay, Found, AttemptEnds, CallsAreSound,
      CallIsSound
<1>7. ReceiptNamesItsAttempt'
  BY <1>1, <1>2, <1>3, RequestAssumption
  DEF Inv, ReceiptNamesItsAttempt, TypeOK, Receipt, Replay, AttemptEnds, IsLive
<1>8. AnswersAreTrue'
  <2>1. ASSUME NEW d \in Caller \ {c} PROVE AnswerIsTrue(d)'
    BY <1>1, <1>2, <1>3, RequestAssumption
    DEF Inv, AnswersAreTrue, Call, Replay, AttemptEnds, Answered, IsLive,
        AnswerIsTrue
  <2>2. AnswerIsTrue(c)'
    BY <1>1, <1>2, <1>3, RequestAssumption
    DEF Replay, Found, AttemptEnds, Answered, AnswerIsTrue
  <2> QED  BY <2>1, <2>2 DEF AnswersAreTrue
<1>9. CallsAreSound'
  <2>1. ASSUME NEW d \in Caller \ {c} PROVE CallIsSound(d)'
    <3>1. \A s \in Step : attempt'[s].n = attempt[s].n
      BY <1>1, RequestAssumption DEF AttemptEnds
    <3>2. call'[d] = call[d] /\ call[d].step \in Step \cup {NoStep} /\ CallIsSound(d)
      BY <1>2 DEF Inv, Call, CallsAreSound, Answered
    <3>3. Taken(d) => receipt' = receipt
      BY DEF Replay
    <3> QED  BY <3>1, <3>2, <3>3 DEF CallIsSound, Taken
  <2>2. CallIsSound(c)'
    BY <1>1, <1>2, <1>3, RequestAssumption
    DEF AttemptEnds, Answered, IsLive, CallIsSound
  <2> QED  BY <2>1, <2>2 DEF CallsAreSound
<1>10. OpenHasNoResult'
  BY <1>1, <1>2, <1>3, RequestAssumption
  DEF Inv, OpenHasNoResult, AttemptEnds
<1>11. BlankReceipt'
  BY <1>1, <1>2, <1>3, RequestAssumption
  DEF BlankReceipt, Replay, Found, Answered
<1> QED  BY <1>4, <1>5, <1>6, <1>7, <1>8, <1>9, <1>10, <1>11 DEF Inv

LEMMA RecordFailureInv ==
  ASSUME Inv, NEW c \in Caller, RecordFailure(c)
  PROVE  Inv'
<1>1. AttemptEnds(c, "FAILED", "RECEIPT")
  BY EndEnds DEF RecordFailure
<1>2. Answered(c, "REFUSED")
  BY CommitAnswers DEF RecordFailure, Answers
<1>3. IsLive(c)
  BY FencedIsLive DEF RecordFailure
<1>4. TypeOK'
  BY <1>1, <1>2, <1>3, RequestAssumption
  DEF Inv, TypeOK, Receipt, Call, RecordFailure, Ended, AttemptEnds, Answered
<1>5. EffectOnce'
  BY <1>1, <1>2, <1>3, RequestAssumption
  DEF Inv, EffectOnce, RecordFailure, Ended
<1>6. AttemptMatchesReceipt'
  BY <1>1, <1>2, <1>3, RequestAssumption
  DEF Inv, AttemptMatchesReceipt, Attempt, RecordFailure, Ended, Found,
      AttemptEnds, CallsAreSound, CallIsSound
<1>7. ReceiptNamesItsAttempt'
  BY <1>1, <1>2, <1>3, RequestAssumption
  DEF Inv, ReceiptNamesItsAttempt, TypeOK, Receipt, RecordFailure, Ended,
      AttemptEnds, IsLive
<1>8. AnswersAreTrue'
  <2>1. ASSUME NEW d \in Caller \ {c} PROVE AnswerIsTrue(d)'
    BY <1>1, <1>2, <1>3, RequestAssumption
    DEF Inv, AnswersAreTrue, Call, RecordFailure, AttemptEnds, Answered, IsLive,
        AnswerIsTrue
  <2>2. AnswerIsTrue(c)'
    BY <1>1, <1>2, <1>3, RequestAssumption
    DEF RecordFailure, Ended, Found, AttemptEnds, Answered, AnswerIsTrue
  <2> QED  BY <2>1, <2>2 DEF AnswersAreTrue
<1>9. CallsAreSound'
  <2>1. ASSUME NEW d \in Caller \ {c} PROVE CallIsSound(d)'
    <3>1. \A s \in Step : attempt'[s].n = attempt[s].n
      BY <1>1, RequestAssumption DEF AttemptEnds
    <3>2. call'[d] = call[d] /\ call[d].step \in Step \cup {NoStep} /\ CallIsSound(d)
      BY <1>2 DEF Inv, Call, CallsAreSound, Answered
    <3>3. Taken(d) => receipt' = receipt
      BY DEF RecordFailure, Taken
    <3> QED  BY <3>1, <3>2, <3>3 DEF CallIsSound, Taken
  <2>2. CallIsSound(c)'
    BY <1>1, <1>2, <1>3, RequestAssumption
    DEF AttemptEnds, Answered, IsLive, CallIsSound
  <2> QED  BY <2>1, <2>2 DEF CallsAreSound
<1>10. OpenHasNoResult'
  BY <1>1, <1>2, <1>3, RequestAssumption
  DEF Inv, OpenHasNoResult, AttemptEnds
<1>11. BlankReceipt'
  BY <1>1, <1>2, <1>3, RequestAssumption
  DEF BlankReceipt, RecordFailure, Ended, Found, Answered
<1> QED  BY <1>4, <1>5, <1>6, <1>7, <1>8, <1>9, <1>10, <1>11 DEF Inv

LEMMA RejectInv ==
  ASSUME Inv, NEW c \in Caller, Reject(c)
  PROVE  Inv'
<1>1. AttemptEnds(c, "FAILED", "REJECTION")
  BY EndEnds DEF Reject
<1>2. Answered(c, "REUSED")
  BY CommitAnswers DEF Reject, Answers
<1>3. IsLive(c)
  BY FencedIsLive DEF Reject
<1>4. TypeOK'
  BY <1>1, <1>2, <1>3, RequestAssumption
  DEF Inv, TypeOK, Reject, AttemptEnds, Answered
<1>5. EffectOnce'
  BY <1>1, <1>2, <1>3, RequestAssumption
  DEF Inv, EffectOnce, Reject
<1>6. AttemptMatchesReceipt'
  BY <1>1, <1>2, <1>3, RequestAssumption
  DEF Inv, AttemptMatchesReceipt, Reject, Taken, AttemptEnds, CallsAreSound,
      CallIsSound
<1>7. ReceiptNamesItsAttempt'
  BY <1>1, <1>2, <1>3, RequestAssumption
  DEF Inv, ReceiptNamesItsAttempt, TypeOK, Receipt, Reject, AttemptEnds, IsLive
<1>8. AnswersAreTrue'
  <2>1. ASSUME NEW d \in Caller \ {c} PROVE AnswerIsTrue(d)'
    BY <1>1, <1>2, <1>3, RequestAssumption
    DEF Inv, AnswersAreTrue, Call, Reject, AttemptEnds, Answered, IsLive,
        AnswerIsTrue
  <2>2. AnswerIsTrue(c)'
    BY <1>1, <1>2, <1>3, RequestAssumption
    DEF Inv, Reject, Taken, AttemptEnds, Answered, CallsAreSound, CallIsSound,
        AnswerIsTrue
  <2> QED  BY <2>1, <2>2 DEF AnswersAreTrue
<1>9. CallsAreSound'
  <2>1. ASSUME NEW d \in Caller \ {c} PROVE CallIsSound(d)'
    BY <1>1, <1>2, <1>3, RequestAssumption
    DEF Inv, CallsAreSound, Call, Reject, Taken, AttemptEnds, Answered, CallIsSound
  <2>2. CallIsSound(c)'
    BY <1>1, <1>2, <1>3, RequestAssumption
    DEF AttemptEnds, Answered, IsLive, CallIsSound
  <2> QED  BY <2>1, <2>2 DEF CallsAreSound
<1>10. OpenHasNoResult'
  BY <1>1, <1>2, <1>3, RequestAssumption
  DEF Inv, OpenHasNoResult, AttemptEnds
<1>11. BlankReceipt'
  BY <1>1, <1>2, <1>3, RequestAssumption
  DEF Inv, BlankReceipt, Reject
<1> QED  BY <1>4, <1>5, <1>6, <1>7, <1>8, <1>9, <1>10, <1>11 DEF Inv

LEMMA StaleInv ==
  ASSUME Inv, NEW c \in Caller, Stale(c)
  PROVE  Inv'
<1>1. Moved(c, {<<"IDLE", "STALE">>})
  BY AnswerMoves DEF Inv, Stale, Answers
<1> QED  BY <1>1, MoveInv DEF Stale

LEMMA RefuseInv ==
  ASSUME Inv, NEW c \in Caller, Refuse(c)
  PROVE  Inv'
<1>1. Moved(c, {<<"FAILING", call[c].answer>>})
  BY PassMoves DEF Inv, Refuse
<1> QED  BY <1>1, MoveInv DEF Refuse

LEMMA YieldToSuccessInv ==
  ASSUME Inv, NEW c \in Caller, YieldToSuccess(c)
  PROVE  Inv'
<1>1. Moved(c, {<<"IDLE", "CONCURRENT">>, <<"READY", call[c].answer>>})
  BY AnswerMoves, PassMoves DEF Inv, YieldToSuccess, Moved, Answers
<1> QED  BY <1>1, MoveInv DEF YieldToSuccess

LEMMA CollideInv ==
  ASSUME Inv, NEW c \in Caller, Collide(c)
  PROVE  Inv'
<1>1. Moved(c, {<<"REJECTING", call[c].answer>>})
  BY PassMoves DEF Inv, Collide
<1> QED  BY <1>1, MoveInv DEF Collide

LEMMA TransientInv ==
  ASSUME Inv, NEW c \in Caller, Transient(c)
  PROVE  Inv'
<1>1. Moved(c, {<<"READY", call[c].answer>>, <<"IDLE", "GAVE_UP">>})
  BY RetryMoves DEF Inv, Transient
<1> QED  BY <1>1, MoveInv DEF Transient

LEMMA DieInv ==
  ASSUME Inv, NEW c \in Caller, Die(c)
  PROVE  Inv'
<1>1. Moved(c, {<<"IDLE", "NONE">>})
  BY AnswerMoves DEF Inv, Die, Answers
<1> QED  BY <1>1, MoveInv DEF Die

LEMMA StartInv ==
  ASSUME Inv, NEW c \in Caller, NEW s \in Step \cup {NoStep}, NEW q \in Request,
  Start(c, s, q)
  PROVE  Inv'
<1>1. TypeOK'
  BY RequestAssumption
  DEF Inv, TypeOK, Attempt, Call, Start, MaxTries
<1>2. EffectOnce'
  BY RequestAssumption
  DEF Inv, EffectOnce, Start
<1>3. AttemptMatchesReceipt'
  BY RequestAssumption
  DEF Inv, AttemptMatchesReceipt, Start
<1>4. ReceiptNamesItsAttempt'
  BY RequestAssumption
  DEF Inv, ReceiptNamesItsAttempt, Start
<1>5. AnswersAreTrue'
  <2>1. ASSUME NEW d \in Caller \ {c} PROVE AnswerIsTrue(d)'
    BY RequestAssumption
    DEF Inv, AnswersAreTrue, Start, AnswerIsTrue
  <2>2. AnswerIsTrue(c)'
    BY RequestAssumption
    DEF Inv, TypeOK, Start, AnswerIsTrue
  <2> QED  BY <2>1, <2>2 DEF AnswersAreTrue
<1>6. CallsAreSound'
  <2>1. ASSUME NEW d \in Caller \ {c} PROVE CallIsSound(d)'
    BY RequestAssumption
    DEF Inv, CallsAreSound, Start, Taken, CallIsSound
  <2>2. CallIsSound(c)'
    BY RequestAssumption
    DEF Inv, TypeOK, Attempt, Start, CallIsSound
  <2> QED  BY <2>1, <2>2 DEF CallsAreSound
<1>7. OpenHasNoResult'
  BY RequestAssumption
  DEF Inv, OpenHasNoResult, Start
<1>8. BlankReceipt'
  BY RequestAssumption
  DEF Inv, BlankReceipt, Start
<1> QED  BY <1>1, <1>2, <1>3, <1>4, <1>5, <1>6, <1>7, <1>8 DEF Inv

LEMMA FailAttemptInv ==
  ASSUME Inv, NEW c \in Caller, FailAttempt(c)
  PROVE  Inv'
<1>1. AttemptEnds(c, "FAILED", "EXECUTOR")
  BY EndEnds DEF FailAttempt
<1>2. IsLive(c)
  BY FencedIsLive DEF FailAttempt
<1>3. TypeOK'
  BY <1>1, <1>2, RequestAssumption
  DEF Inv, TypeOK, FailAttempt, AttemptEnds
<1>4. EffectOnce'
  BY <1>1, <1>2, RequestAssumption
  DEF Inv, EffectOnce, FailAttempt
<1>5. AttemptMatchesReceipt'
  BY <1>1, <1>2, RequestAssumption
  DEF Inv, AttemptMatchesReceipt, FailAttempt, AttemptEnds
<1>6. ReceiptNamesItsAttempt'
  BY <1>1, <1>2, RequestAssumption
  DEF Inv, ReceiptNamesItsAttempt, TypeOK, Receipt, FailAttempt, AttemptEnds, IsLive
<1>7. AnswersAreTrue'
  <2>1. ASSUME NEW d \in Caller \ {c} PROVE AnswerIsTrue(d)'
    BY <1>1, <1>2, RequestAssumption
    DEF Inv, AnswersAreTrue, TypeOK, Receipt, Attempt, Call, FailAttempt, Taken,
        MaxTries, AttemptMatchesReceipt, BlankReceipt, CallsAreSound, CallIsSound,
        ReceiptNamesItsAttempt, OpenHasNoResult, AttemptEnds, IsLive, AnswerIsTrue
  <2>2. AnswerIsTrue(c)'
    BY <1>1, <1>2, RequestAssumption
    DEF Inv, AnswersAreTrue, FailAttempt, IsLive, AnswerIsTrue
  <2> QED  BY <2>1, <2>2 DEF AnswersAreTrue
<1>8. CallsAreSound'
  <2>1. ASSUME NEW d \in Caller \ {c} PROVE CallIsSound(d)'
    BY <1>1, <1>2, RequestAssumption
    DEF Inv, CallsAreSound, TypeOK, Call, FailAttempt, Taken, AttemptEnds,
        CallIsSound
  <2>2. CallIsSound(c)'
    BY <1>1, <1>2, RequestAssumption
    DEF FailAttempt, AttemptEnds, IsLive, CallIsSound
  <2> QED  BY <2>1, <2>2 DEF CallsAreSound
<1>9. OpenHasNoResult'
  BY <1>1, <1>2, RequestAssumption
  DEF Inv, OpenHasNoResult, AttemptEnds
<1>10. BlankReceipt'
  BY <1>1, <1>2, RequestAssumption
  DEF Inv, BlankReceipt, FailAttempt
<1> QED  BY <1>3, <1>4, <1>5, <1>6, <1>7, <1>8, <1>9, <1>10 DEF Inv

LEMMA LapseInv ==
  ASSUME Inv, NEW s \in Step, Lapse(s)
  PROVE  Inv'
<1>1. TypeOK'
  BY RequestAssumption
  DEF Inv, TypeOK, Attempt, Lapse
<1>2. EffectOnce'
  BY RequestAssumption
  DEF Inv, EffectOnce, Lapse
<1>3. AttemptMatchesReceipt'
  BY RequestAssumption
  DEF Inv, AttemptMatchesReceipt, Lapse, OpenHasNoResult
<1>4. ReceiptNamesItsAttempt'
  BY RequestAssumption
  DEF Inv, ReceiptNamesItsAttempt, TypeOK, Receipt, Lapse
<1>5. AnswersAreTrue'
  BY RequestAssumption
  DEF Inv, AnswersAreTrue, AnswerIsTrue, Lapse
<1>6. CallsAreSound'
  BY RequestAssumption
  DEF Inv, CallsAreSound, CallIsSound, Lapse, Taken
<1>7. OpenHasNoResult'
  BY RequestAssumption
  DEF Inv, OpenHasNoResult, Lapse
<1>8. BlankReceipt'
  BY RequestAssumption
  DEF Inv, BlankReceipt, Lapse
<1> QED  BY <1>1, <1>2, <1>3, <1>4, <1>5, <1>6, <1>7, <1>8 DEF Inv

LEMMA ReclaimInv ==
  ASSUME Inv, NEW s \in Step, Reclaim(s)
  PROVE  Inv'
<1>1. TypeOK'
  BY RequestAssumption
  DEF Inv, TypeOK, Attempt, Reclaim
<1>2. EffectOnce'
  BY RequestAssumption
  DEF Inv, EffectOnce, Reclaim
<1>3. AttemptMatchesReceipt'
  BY RequestAssumption
  DEF Inv, AttemptMatchesReceipt, Reclaim
<1>4. ReceiptNamesItsAttempt'
  BY RequestAssumption
  DEF Inv, ReceiptNamesItsAttempt, TypeOK, Receipt, Reclaim
<1>5. AnswersAreTrue'
  BY RequestAssumption
  DEF Inv, AnswersAreTrue, AnswerIsTrue, Reclaim
<1>6. CallsAreSound'
  BY RequestAssumption
  DEF Inv, CallsAreSound, CallIsSound, TypeOK, Attempt, Call, Reclaim, Taken
<1>7. OpenHasNoResult'
  BY RequestAssumption
  DEF Inv, OpenHasNoResult, Reclaim
<1>8. BlankReceipt'
  BY RequestAssumption
  DEF Inv, BlankReceipt, Reclaim
<1> QED  BY <1>1, <1>2, <1>3, <1>4, <1>5, <1>6, <1>7, <1>8 DEF Inv

-----------------------------------------------------------------------------
(* The theorems.                                                           *)
LEMMA StepInv == Inv /\ [Next]_vars => Inv'
<1> SUFFICES ASSUME Inv, [Next]_vars PROVE Inv'
  OBVIOUS
<1>1. CASE \E c \in Caller : \E s \in Step \cup {NoStep}, q \in Request : Start(c,
s, q)
  BY <1>1, StartInv
<1>2. CASE \E c \in Caller : Proceed(c)
  BY <1>2, StaleInv, ExecuteInv, ReplayInv, RefuseInv, RecordFailureInv,
     YieldToSuccessInv, CollideInv, RejectInv, TransientInv DEF Proceed
<1>3. CASE \E c \in Caller : FailAttempt(c) \/ Die(c)
  BY <1>3, FailAttemptInv, DieInv
<1>4. CASE \E s \in Step : Lapse(s) \/ Reclaim(s)
  BY <1>4, LapseInv, ReclaimInv
<1>5. CASE UNCHANGED vars
  BY <1>5 DEF vars, Inv, TypeOK, EffectOnce, AttemptMatchesReceipt,
     ReceiptNamesItsAttempt, AnswersAreTrue, AnswerIsTrue, CallsAreSound,
     CallIsSound, OpenHasNoResult, BlankReceipt, Taken
<1> QED  BY <1>1, <1>2, <1>3, <1>4, <1>5 DEF Next

\* Everything below follows from this invariant.
THEOREM CommandInvariant == Spec => []Inv
  BY InitInv, StepInv, PTL DEF Spec

\* TypeOK: no call makes more than its three tries, no Step more than its
\* Attempts.
THEOREM CommandTypes == Spec => []TypeOK
<1>1. Inv => TypeOK
  BY DEF Inv
<1> QED  BY <1>1, CommandInvariant, PTL

\* EffectOnce: the business rows are written once for a success, never for a
\* failure.
THEOREM TakesEffectOnce == Spec => []EffectOnce
<1>1. Inv => EffectOnce
  BY DEF Inv
<1> QED  BY <1>1, CommandInvariant, PTL

\* AttemptMatchesReceipt: no Attempt fails by the recorder's hand beside a
\* success of its request.
THEOREM AttemptsMatch == Spec => []AttemptMatchesReceipt
<1>1. Inv => AttemptMatchesReceipt
  BY DEF Inv
<1> QED  BY <1>1, CommandInvariant, PTL

\* ReceiptNamesItsAttempt: receipt and Attempt end together, for good.
THEOREM ReceiptNames == Spec => []ReceiptNamesItsAttempt
<1>1. Inv => ReceiptNamesItsAttempt
  BY DEF Inv
<1> QED  BY <1>1, CommandInvariant, PTL

\* AnswersAreTrue: what a caller is told stays true.
THEOREM CallersKnow == Spec => []AnswersAreTrue
<1>1. Inv => AnswersAreTrue
  BY DEF Inv
<1> QED  BY <1>1, CommandInvariant, PTL

\* ReceiptIsFinal: whoever comes later leaves the receipt as it is.
THEOREM ReceiptStays == Spec => ReceiptIsFinal
<1>1. Inv /\ [Next]_vars => [receipt.status # "NONE" => receipt' = receipt]_vars
  <2> SUFFICES ASSUME Inv,
  [Next]_vars PROVE receipt.status # "NONE" => receipt' = receipt
    OBVIOUS
  <2> QED  BY DEF Next, Proceed, vars, Start, Stale, Execute, Replay, Refuse,
  RecordFailure, YieldToSuccess, Collide, Reject, Transient, FailAttempt, Die,
  Lapse, Reclaim
<1>2. [][receipt.status # "NONE" => receipt' = receipt]_vars <=> ReceiptIsFinal
  BY DEF ReceiptIsFinal
<1> QED  BY <1>1, <1>2, CommandInvariant, PTL DEF Spec

-----------------------------------------------------------------------------
(* A call goes forward.                                                    *)
\* Only caller c moved, and has less left.
Shortens(c) ==
    /\ \A d \in Caller \ {c} : call'[d] = call[d]
    /\ Left(c)' < Left(c)

\* What goes on has something left.
LEMMA SomethingLeft ==
  ASSUME TypeOK, NEW c \in Caller, call[c].at # "IDLE"
  PROVE  /\ Left(c) \in Nat /\ Left(c) > 0
         /\ call[c].tries \in 0..3 /\ call[c].again \in 0..1
<1>1. call[c].at \in {"READY", "FAILING", "REJECTING"} /\ call[c].tries \in 0..3
      /\ call[c].again \in 0..1
  BY DEF TypeOK, Call, MaxTries
<1>2. CASE call[c].at = "READY"
  BY <1>1, <1>2 DEF Left, MaxTries
<1>3. CASE call[c].at = "FAILING"
  BY <1>1, <1>3 DEF Left, MaxTries
<1>4. CASE call[c].at = "REJECTING"
  BY <1>1, <1>4 DEF Left, MaxTries
<1> QED  BY <1>1, <1>2, <1>3, <1>4

LEMMA AnswerShortens ==
  ASSUME TypeOK, NEW c \in Caller, call[c].at # "IDLE", NEW a, Answer(c, a)
  PROVE  Shortens(c)
<1>1. call'[c].at = "IDLE" /\ \A d \in Caller \ {c} : call'[d] = call[d]
  BY DEF TypeOK, Answer
<1>2. Left(c)' = 0
  BY <1>1 DEF Left
<1> QED  BY <1>1, <1>2, SomethingLeft DEF Shortens

\* A retry starts a new way, with one try less.
LEMMA RetryShortens ==
  ASSUME TypeOK, NEW c \in Caller, call[c].at # "IDLE", Retry(c)
  PROVE  Shortens(c)
<1>1. CASE call[c].tries < MaxTries
  <2>1. /\ call'[c].at = "READY" /\ call'[c].again = 0
        /\ call'[c].tries = call[c].tries + 1
        /\ \A d \in Caller \ {c} : call'[d] = call[d]
    BY <1>1 DEF TypeOK, Call, Retry
  <2>2. Left(c)' = 5 * (3 - (call[c].tries + 1)) + 5
    BY <2>1, SomethingLeft DEF Left, MaxTries
  <2>3. Left(c) >= 5 * (3 - call[c].tries) + 1
    BY SomethingLeft DEF Left, MaxTries, TypeOK, Call
  <2> QED  BY <2>1, <2>2, <2>3, SomethingLeft DEF Shortens
<1>2. CASE ~(call[c].tries < MaxTries)
  BY <1>2, AnswerShortens DEF Retry
<1> QED  BY <1>1, <1>2

LEMMA CommittedShortens ==
  ASSUME TypeOK, NEW c \in Caller, call[c].at # "IDLE", NEW a, Committed(c, a)
  PROVE  Shortens(c)
  BY AnswerShortens, RetryShortens DEF Committed

\* To the failure recorder, and to a rejection.
LEMMA PassShortens ==
  ASSUME TypeOK, NEW c \in Caller,
         \/ call[c].at = "READY" /\ call' = [call EXCEPT ![c].at = "FAILING"]
         \/ call[c].at \in {"READY", "FAILING"} /\ call' = [call EXCEPT ![c].at = "REJECTING"]
         \/ /\ call[c].at = "FAILING" /\ call[c].again # 1
            /\ call' = [call EXCEPT ![c].at = "READY", ![c].again = 1]
  PROVE  Shortens(c)
<1>1. /\ call[c].at # "IDLE"
      /\ call'[c].tries = call[c].tries
      /\ \A d \in Caller \ {c} : call'[d] = call[d]
      /\ \/ call[c].at = "READY" /\ call'[c].at = "FAILING" /\ call'[c].again = call[c].again
         \/ call[c].at \in {"READY", "FAILING"} /\ call'[c].at = "REJECTING"
         \/ /\ call[c].at = "FAILING" /\ call[c].again # 1
            /\ call'[c].at = "READY" /\ call'[c].again = 1
  BY DEF TypeOK, Call
<1>2. call[c].tries \in 0..3 /\ call[c].again \in 0..1
  BY <1>1, SomethingLeft
<1>3. CASE call[c].at = "READY"
  <2>1. \/ call'[c].at = "FAILING" /\ call'[c].again = call[c].again
        \/ call'[c].at = "REJECTING"
    BY <1>1, <1>3
  <2> QED  BY <1>1, <1>2, <1>3, <2>1 DEF Left, Shortens, MaxTries
<1>4. CASE call[c].at = "FAILING"
  <2>1. \/ call'[c].at = "REJECTING"
        \/ call[c].again = 0 /\ call'[c].at = "READY" /\ call'[c].again = 1
    BY <1>1, <1>2, <1>4
  <2> QED  BY <1>1, <1>2, <1>4, <2>1 DEF Left, Shortens, MaxTries
<1> QED  BY <1>1, <1>3, <1>4

LEMMA ProceedShortens ==
  ASSUME TypeOK, NEW c \in Caller, Proceed(c) \/ Die(c)
  PROVE  Shortens(c)
<1>1. CASE Stale(c) \/ Die(c)
  BY <1>1, AnswerShortens DEF Stale, Die
<1>2. CASE Execute(c) \/ RecordFailure(c)
  BY <1>2, CommittedShortens DEF Execute, RecordFailure
<1>3. CASE Replay(c) \/ Reject(c)
  BY <1>3, CommittedShortens, AnswerShortens DEF Replay, Reject
<1>4. CASE Refuse(c) \/ Collide(c)
  BY <1>4, PassShortens DEF Refuse, Collide
<1>5. CASE YieldToSuccess(c)
  BY <1>5, PassShortens, AnswerShortens DEF YieldToSuccess
<1>6. CASE Transient(c)
  BY <1>6, RetryShortens DEF Transient
<1> QED  BY <1>1, <1>2, <1>3, <1>4, <1>5, <1>6 DEF Proceed

\* CallsGoForward: retries, concurrent successes and rejections together cannot
\* keep a call going; with a caller that is not stopped it ends.
THEOREM CallsShorten == Spec => CallsGoForward
<1> DEFINE Forward ==
      \A c \in Caller : call[c].at # "IDLE" /\ call'[c] # call[c] => Left(c)' < Left(c)
<1>1. ASSUME Inv, Next
      PROVE  Forward
  <2>1. TypeOK
    BY <1>1 DEF Inv
  <2>2. ASSUME NEW c \in Caller, Proceed(c) \/ Die(c)
        PROVE  Forward
    BY <2>1, <2>2, ProceedShortens DEF Shortens
  <2>3. ASSUME NEW c \in Caller, NEW s \in Step \cup {NoStep}, NEW q \in Request, Start(c, s, q)
        PROVE  Forward
    BY <2>1, <2>3 DEF Start, TypeOK
  <2>4. ASSUME \/ \E c \in Caller : FailAttempt(c)
               \/ \E s \in Step : Lapse(s) \/ Reclaim(s)
        PROVE  Forward
    BY <2>4 DEF FailAttempt, Lapse, Reclaim
  <2> QED  BY <1>1, <2>2, <2>3, <2>4 DEF Next
<1>2. Inv /\ [Next]_vars => [Forward]_vars
  BY <1>1
<1> QED  BY <1>2, CommandInvariant, PTL DEF Spec, CallsGoForward
=============================================================================
