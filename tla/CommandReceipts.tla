--------------------------- MODULE CommandReceipts --------------------------
(***************************************************************************)
(* One owner command under its idempotency key                             *)
(* (research_qualification/application/_command_support.py,                 *)
(* runtime/application/command_failure.py, runtime_finalization.py).        *)
(*                                                                         *)
(* Callers execute the command, some for a claim of a Runtime Step, some   *)
(* without; the Steps may belong to different Runs, and a key may be used   *)
(* for two requests.  Each business transaction locks the claim, takes the *)
(* receipt, writes, and ends receipt and Attempt.  If it fails it is rolled *)
(* back, and another transaction puts the failure on record; in between the *)
(* same command may have succeeded elsewhere.                              *)
(*                                                                         *)
(* A receipt is inserted PENDING and ended by the same transaction, and    *)
(* start waits for the transaction that holds its key: one transaction is  *)
(* one step, and nobody sees PENDING.  A preflight transaction that finds  *)
(* no receipt is rolled back and changes nothing.                          *)
(***************************************************************************)
EXTENDS Naturals

CONSTANTS
    Caller,         \* threads that execute the command
    Step,           \* Runtime Steps that stand for it
    Request,        \* request hashes
    RequestOf,      \* the request of each Step
    Budget,         \* Attempts of a Step
    NoStep,         \* a call without runtime_claim
    NoRequest

ASSUME RequestAssumption ==
    /\ RequestOf \in [Step -> Request]
    /\ NoStep \notin Step
    /\ NoRequest \notin Request
    /\ Budget \in Nat \ {0}

VARIABLES
    receipt,        \* the command's receipt
    effect,         \* how often the business rows were written
    attempt,        \* the current Attempt of each Step, and what ended it
    call            \* where each caller is

vars == <<receipt, effect, attempt, call>>

Init ==
    /\ receipt = [status |-> "NONE", request |-> NoRequest, step |-> NoStep, n |-> 0]
    /\ effect = 0
    /\ attempt = [s \in Step |-> [n |-> 1, state |-> "LIVE", by |-> "NOTHING"]]
    /\ call = [c \in Caller |->
                  [at |-> "IDLE", step |-> NoStep, n |-> 0, request |-> NoRequest,
                   tries |-> 0, again |-> 0, answer |-> "NONE"]]

-----------------------------------------------------------------------------
(* A call and its answer.                                                  *)
MaxTries == 3

\* A caller executes the command, with the claim of Step s or without one.
Start(c, s, q) ==
    /\ call[c].at = "IDLE"
    /\ s # NoStep => q = RequestOf[s]
    /\ call' = [call EXCEPT ![c] =
           [at |-> "READY", step |-> s, n |-> IF s = NoStep THEN 0 ELSE attempt[s].n,
            request |-> q, tries |-> 1, again |-> 0, answer |-> "NONE"]]
    /\ UNCHANGED <<receipt, effect, attempt>>

\* The call returns, or raises.
Answer(c, a) ==
    call' = [call EXCEPT ![c] =
        [at |-> "IDLE", step |-> @.step, n |-> @.n, request |-> @.request,
         tries |-> 0, again |-> 0, answer |-> a]]

\* Mutant of Retry: retries are not counted.
RetryForever(c) ==
    call' = [call EXCEPT ![c].at = "READY", ![c].again = 0]

\* retry_transient_transaction: a transient error, or a commit without an
\* answer, runs the command again, twice.
Retry(c) ==
    IF call[c].tries < MaxTries
    THEN call' = [call EXCEPT ![c].at = "READY", ![c].tries = @ + 1, ![c].again = 0]
    ELSE Answer(c, "GAVE_UP")

\* A transaction that committed is answered, or its answer is lost.
Committed(c, a) == Answer(c, a) \/ Retry(c)

Holds(s, n) == s # NoStep => attempt[s].n = n /\ attempt[s].state = "LIVE"

\* Mutant of Fenced: any Attempt of the Step will do.
FencedByStep(c) == call[c].step # NoStep => attempt[call[c].step].state = "LIVE"

\* lock_live: the claim is that of the current Attempt, and its lease has not
\* run out.
Fenced(c) == Holds(call[c].step, call[c].n)

\* The Attempt of a call ends in state x, its result being receipt b.
End(c, x, b) ==
    attempt' = IF call[c].step = NoStep THEN attempt
               ELSE [attempt EXCEPT ![call[c].step].state = x, ![call[c].step].by = b]

Taken(c) == receipt.status # "NONE" /\ receipt.request # call[c].request
Found(c, x) == receipt.status = x /\ receipt.request = call[c].request

\* The receipt of this call, ended with status x.
Ended(c, x) == [status |-> x, request |-> call[c].request,
                step |-> call[c].step, n |-> call[c].n]

-----------------------------------------------------------------------------
(* The command.                                                            *)
\* Any transaction of a call whose claim is not live raises StaleFenceError,
\* which no wrapper handles: so does the retry after a commit of the call's own
\* whose answer was lost, for that commit has ended the Attempt.
Stale(c) ==
    /\ call[c].at # "IDLE"
    /\ ~Fenced(c)
    /\ Answer(c, "STALE")
    /\ UNCHANGED <<receipt, effect, attempt>>

\* Mutant of Execute: the business rows are committed ahead of the receipt.
ExecuteAhead(c) ==
    /\ call[c].at = "READY"
    /\ Fenced(c)
    /\ receipt.status = "NONE"
    /\ effect' = effect + 1
    /\ \/ receipt' = Ended(c, "SUCCEEDED") /\ End(c, "SUCCEEDED", "RECEIPT")
       \/ UNCHANGED <<receipt, attempt>>
    /\ Committed(c, "RESULT")

\* The business transaction, or the last of several.
Execute(c) ==
    /\ call[c].at = "READY"
    /\ Fenced(c)
    /\ receipt.status = "NONE"
    /\ receipt' = Ended(c, "SUCCEEDED")
    /\ effect' = effect + 1
    /\ End(c, "SUCCEEDED", "RECEIPT")
    /\ Committed(c, "RESULT")

\* Mutant of Replay: the result goes out, and the Attempt stays as it is.
ReplayResultOnly(c) ==
    /\ call[c].at = "READY"
    /\ Fenced(c)
    /\ Found(c, "SUCCEEDED")
    /\ Answer(c, "RESULT")
    /\ UNCHANGED <<receipt, effect, attempt>>

\* The receipt of a success: its result is returned, and ends the Attempt.
Replay(c) ==
    /\ call[c].at = "READY"
    /\ Fenced(c)
    /\ Found(c, "SUCCEEDED")
    /\ End(c, "SUCCEEDED", "RECEIPT")
    /\ IF call[c].step = NoStep THEN Answer(c, "RESULT")
       ELSE Committed(c, "RESULT")
    /\ UNCHANGED <<receipt, effect>>

\* The command raises, the transaction is rolled back and the failure boundary
\* entered: a validity error, bytes that fail verification, an input that has
\* changed, a receipt of a failure (CommandPreviouslyFailedError), or a receipt of
\* a success that no longer matches what it names.
Refuse(c) ==
    /\ call[c].at = "READY"
    /\ call' = [call EXCEPT ![c].at = "FAILING"]
    /\ UNCHANGED <<receipt, effect, attempt>>

-----------------------------------------------------------------------------
(* The failure recorder.                                                   *)
\* record finds no receipt, or that of an earlier failure.
RecordFailure(c) ==
    /\ call[c].at = "FAILING"
    /\ Fenced(c)
    /\ receipt.status = "NONE" \/ Found(c, "FAILED")
    /\ receipt' = IF receipt.status = "NONE" THEN Ended(c, "FAILED") ELSE receipt
    /\ End(c, "FAILED", "RECEIPT")
    /\ Committed(c, "REFUSED")
    /\ UNCHANGED effect

\* Mutant of YieldToSuccess: the failure is recorded for the Attempt all the
\* same.
FailBesideSuccess(c) ==
    /\ call[c].at = "FAILING"
    /\ Fenced(c)
    /\ Found(c, "SUCCEEDED")
    /\ End(c, "FAILED", "RECEIPT")
    /\ Committed(c, "REFUSED")
    /\ UNCHANGED <<receipt, effect>>

\* record finds a success (ConcurrentCommandSucceeded): replay_concurrent_success
\* runs the command once more, and then lets the exception pass.
YieldToSuccess(c) ==
    /\ call[c].at = "FAILING"
    /\ Fenced(c)
    /\ Found(c, "SUCCEEDED")
    /\ IF call[c].again = 1 THEN Answer(c, "CONCURRENT")
       ELSE call' = [call EXCEPT ![c].at = "READY", ![c].again = 1]
    /\ UNCHANGED <<receipt, effect, attempt>>

\* The key is taken by another request, for the command or for its failure.
Collide(c) ==
    /\ call[c].at \in {"READY", "FAILING"}
    /\ Fenced(c)
    /\ Taken(c)
    /\ call' = [call EXCEPT ![c].at = "REJECTING"]
    /\ UNCHANGED <<receipt, effect, attempt>>

\* Mutant of Reject: the receipt of the key is taken over.
RejectInPlace(c) ==
    /\ call[c].at = "REJECTING"
    /\ Fenced(c)
    /\ receipt' = Ended(c, "FAILED")
    /\ End(c, "FAILED", "RECEIPT")
    /\ Committed(c, "REUSED")
    /\ UNCHANGED effect

\* record_idempotency_rejection: the Attempt fails with a receipt of its own,
\* under a key made of its identity.
Reject(c) ==
    /\ call[c].at = "REJECTING"
    /\ Fenced(c)
    /\ End(c, "FAILED", "REJECTION")
    /\ IF call[c].step = NoStep THEN Answer(c, "REUSED")
       ELSE Committed(c, "REUSED")
    /\ UNCHANGED <<receipt, effect>>

\* A serialization failure, a deadlock or a lost connection before the commit, or
\* a commit that did not come about and is not known not to have.
Transient(c) ==
    /\ call[c].at # "IDLE"
    /\ Retry(c)
    /\ UNCHANGED <<receipt, effect, attempt>>

-----------------------------------------------------------------------------
(* Around the command.                                                     *)
\* The executor of a Step whose command raised fails the Attempt, if it still
\* runs, with a receipt of its own.
FailAttempt(c) ==
    /\ call[c].at = "IDLE"
    /\ call[c].answer \notin {"NONE", "RESULT"}
    /\ call[c].step # NoStep
    /\ Fenced(c)
    /\ End(c, "FAILED", "EXECUTOR")
    /\ UNCHANGED <<receipt, effect, call>>

\* The caller dies.
Die(c) ==
    /\ call[c].at # "IDLE"
    /\ Answer(c, "NONE")
    /\ UNCHANGED <<receipt, effect, attempt>>

\* The lease of an Attempt runs out, and a sweep recovers it.
Lapse(s) ==
    /\ attempt[s].state = "LIVE"
    /\ attempt' = [attempt EXCEPT ![s].state = "LAPSED"]
    /\ UNCHANGED <<receipt, effect, call>>

\* The Step is claimed anew.
Reclaim(s) ==
    /\ attempt[s].state = "LAPSED"
    /\ attempt[s].n < Budget
    /\ attempt' = [attempt EXCEPT ![s] = [n |-> @.n + 1, state |-> "LIVE", by |-> "NOTHING"]]
    /\ UNCHANGED <<receipt, effect, call>>

\* What a caller does by going on.
Proceed(c) ==
    \/ Stale(c)
    \/ Execute(c) \/ Replay(c) \/ Refuse(c)
    \/ RecordFailure(c) \/ YieldToSuccess(c)
    \/ Collide(c) \/ Reject(c)
    \/ Transient(c)

Next ==
    \/ \E c \in Caller :
          \/ \E s \in Step \cup {NoStep}, q \in Request : Start(c, s, q)
          \/ Proceed(c)
          \/ FailAttempt(c) \/ Die(c)
    \/ \E s \in Step : Lapse(s) \/ Reclaim(s)

Spec == Init /\ [][Next]_vars

\* A caller that is alive goes on.
FairSpec == Spec /\ \A c \in Caller : WF_vars(Proceed(c))

-----------------------------------------------------------------------------
(* Properties.                                                             *)
Receipt == [status : {"NONE", "SUCCEEDED", "FAILED"}, request : Request \cup {NoRequest},
            step : Step \cup {NoStep}, n : 0..Budget]
Attempt == [n : 1..Budget, state : {"LIVE", "LAPSED", "SUCCEEDED", "FAILED"},
            by : {"NOTHING", "RECEIPT", "REJECTION", "EXECUTOR"}]
Call == [at : {"IDLE", "READY", "FAILING", "REJECTING"}, step : Step \cup {NoStep},
         n : 0..Budget, request : Request \cup {NoRequest}, tries : 0..MaxTries,
         again : 0..1,
         answer : {"NONE", "RESULT", "REFUSED", "REUSED", "CONCURRENT", "STALE", "GAVE_UP"}]

\* Receipt, Attempts and calls are of their types; no call tries too often.
TypeOK ==
    /\ receipt \in Receipt
    /\ effect \in Nat
    /\ attempt \in [Step -> Attempt]
    /\ call \in [Caller -> Call]

\* The command takes effect exactly once if its receipt tells of a success, and
\* not at all if it tells of a failure or there is none: retries after a lost
\* answer, replays and second Runs included.
EffectOnce == effect = IF receipt.status = "SUCCEEDED" THEN 1 ELSE 0

\* What an Attempt ended with is true of the command: its success is the
\* receipt's, and a failure recorded for the command is never recorded beside a
\* success of the same request.
AttemptMatchesReceipt ==
    \A s \in Step :
        LET a == attempt[s]
            own == receipt.request = RequestOf[s] IN
        /\ a.state = "SUCCEEDED" => receipt.status = "SUCCEEDED" /\ own
        /\ a.by = "RECEIPT" => receipt.status = a.state /\ own
        /\ a.by = "REJECTION" => receipt.status # "NONE" /\ ~own

\* The Attempt that a receipt names ended with that receipt, in the same
\* transaction: no lapse, no newer Attempt and no executor that takes a lost
\* answer for a failure came in between, or can come after.
ReceiptNamesItsAttempt ==
    receipt.step # NoStep =>
        /\ attempt[receipt.step].n = receipt.n
        /\ attempt[receipt.step].state = receipt.status

AnswerIsTrue(c) ==
    LET k == call[c]
        own == receipt.request = k.request
        ended(x) == k.step # NoStep => attempt[k.step].state = x IN
    /\ k.answer = "RESULT" => receipt.status = "SUCCEEDED" /\ own /\ ended("SUCCEEDED")
    /\ k.answer = "REFUSED" => receipt.status = "FAILED" /\ own /\ ended("FAILED")
    /\ k.answer = "REUSED" => receipt.status # "NONE" /\ ~own /\ ended("FAILED")
    /\ k.answer = "CONCURRENT" => receipt.status = "SUCCEEDED" /\ own

\* A caller that is told how the command ended is told the truth, and its
\* Attempt has ended accordingly.
AnswersAreTrue == \A c \in Caller : AnswerIsTrue(c)

\* A receipt that has been written is never written again, by whom ever.
ReceiptIsFinal == [][receipt.status # "NONE" => receipt' = receipt]_vars

\* What is left of a call: its tries, and within one the way from the command by
\* way of the failure recorder, once round again after a concurrent success, to a
\* rejection.
Left(c) ==
    LET k == call[c] IN
    CASE k.at = "IDLE" -> 0
      [] k.at = "READY" -> 5 * (MaxTries - k.tries) + 5 - 2 * k.again
      [] k.at = "FAILING" -> 5 * (MaxTries - k.tries) + 4 - 2 * k.again
      [] OTHER -> 5 * (MaxTries - k.tries) + 1

\* Whatever a call meets, it goes forward: no step of anybody gives it back what
\* it has used up, so that it takes 15 steps at the most.
CallsGoForward ==
    [][\A c \in Caller :
           call[c].at # "IDLE" /\ call'[c] # call[c] => Left(c)' < Left(c)]_vars

\* Every call ends, however many retries and concurrent successes it meets.
EveryCallEnds == \A c \in Caller : call[c].at # "IDLE" ~> call[c].at = "IDLE"
=============================================================================
