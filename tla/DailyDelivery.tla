---------------------------- MODULE DailyDelivery ----------------------------
(***************************************************************************)
(* DailyReportDelivery.deliver (interfaces/daily_delivery.py): one report  *)
(* goes to one channel through a Run with one Step, whose effect is a      *)
(* remote command that no transaction covers.                              *)
(*                                                                         *)
(* A process may act only while its supervisor session holds the           *)
(* database-wide writer lock.  The code checks that before every command   *)
(* (before_action, canonical_writer_admission) and executes the command    *)
(* later; claims and recovery look again under the admission lock          *)
(* (admit_runtime_attempt).  A process whose supervisor connection dropped *)
(* goes on until its next check, so two processes can be inside deliver.   *)
(*                                                                         *)
(* Commands carry idempotency keys; a key that is taken makes the command  *)
(* a replay that changes nothing.  ACCEPTED stands for DELIVERED too.      *)
(***************************************************************************)
EXTENDS RuntimeStore, Sequences

CONSTANTS
    Proc,           \* processes that run the daily service
    NoProc,         \* nobody holds the writer lock
    Report,         \* the deliver-report Step
    MaxSends        \* maximum_attempts of a deliver call

ASSUME DeliveryAssumption ==
    /\ Step = {Report}
    /\ Report \in Remote
    /\ Report \in Dated
    /\ NoProc \notin Proc
    /\ MaxSends \in 1..3

VARIABLES
    owner,          \* the process whose session holds the writer lock
    call,           \* the local state of each process
    registered,     \* the Run exists
    begun,          \* the target window has started
    claimed,        \* claim receipts: key "claim:<fence>" to attempt number
    started,        \* attempts with a start receipt
    resumed,        \* keys of resume receipts; 0 is "expire-proven-absent"
    response,       \* states of the responses published for an attempt
    sent,           \* how often an attempt was handed to the remote side
    acceptances     \* messages the remote side took

keyVars    == <<claimed, started, resumed>>
remoteVars == <<sent, acceptances>>
vars == <<storeVars, owner, call, registered, begun, keyVars, response,
          remoteVars>>

Delivery == RunOf[Report]
Outcomes == {"ACCEPTED", "PROVEN_NOT_SENT", "UNKNOWN"}

\* Program points at which the next thing deliver does is to check ownership.
Guarded == {"REGISTER", "START_RUN", "RECOVER", "EXPIRE", "RESUME", "CLAIM",
            "START", "SEND", "PUBLISH", "FAIL"}

Outside == [pc |-> "OUT", checked |-> FALSE, fence |-> 0, attempts |-> 0,
            leaving |-> FALSE, claim |-> 0, result |-> "UNKNOWN", sends |-> 0]

Calls == [pc : Guarded \cup {"OUT", "INSPECT"}, checked : BOOLEAN,
          fence : Nat, attempts : 0..MaxBudget, leaving : BOOLEAN,
          claim : 0..MaxBudget, result : Outcomes, sends : 0..MaxSends]

Init ==
    /\ StoreInit
    /\ owner       = NoProc
    /\ call        = [p \in Proc |-> Outside]
    /\ registered  = FALSE
    /\ begun       = FALSE
    /\ claimed     = [k \in 1..(MaxBudget + 1) |-> 0]
    /\ started     = {}
    /\ resumed     = {}
    /\ response    = [n \in AttemptNo |-> <<>>]
    /\ sent        = [n \in AttemptNo |-> 0]
    /\ acceptances = 0

\* now >= min(frozen.expires_at, business_expires_at).  A frozen plan may
\* expire before or after the target window starts.
Expired == overdue[Report] \/ begun

\* Mutant of Owns: nobody asks.
OwnsUnchecked(p) == TRUE

\* require_supervisor_lock.
Owns(p) == owner = p

Goto(p, pc) == call' = [call EXCEPT ![p].pc = pc, ![p].checked = FALSE]

\* deliver returns or raises; the service goes on without it.
Return(p) == call' = [call EXCEPT ![p] = Outside]

At(p, pc) == call[p].pc = pc /\ call[p].checked

-----------------------------------------------------------------------------
(* The writer lock.                                                        *)
Acquire(p) ==
    /\ owner = NoProc
    /\ call[p] = Outside
    /\ owner' = p
    /\ UNCHANGED <<storeVars, call, registered, begun, keyVars, response,
                   remoteVars>>

\* The supervisor connection drops; the process does not know yet.
LoseLock(p) ==
    /\ owner = p
    /\ owner' = NoProc
    /\ UNCHANGED <<storeVars, call, registered, begun, keyVars, response,
                   remoteVars>>

Crash(p) ==
    /\ call[p] # Outside
    /\ Return(p)
    /\ owner' = IF owner = p THEN NoProc ELSE owner
    /\ UNCHANGED <<storeVars, registered, begun, keyVars, response, remoteVars>>

Check(p) ==
    /\ call[p].pc \in Guarded
    /\ ~call[p].checked
    /\ \/ Owns(p) /\ call' = [call EXCEPT ![p].checked = TRUE]
       \/ ~Owns(p) /\ Return(p)
    /\ UNCHANGED <<storeVars, owner, registered, begun, keyVars, response,
                   remoteVars>>

-----------------------------------------------------------------------------
(* deliver, up to the loop.                                                *)
\* daily_delivery_admission refuses while an unexpired Attempt is live.
Enter(p) ==
    /\ call[p] = Outside
    /\ Owns(p)
    /\ registered \/ ~begun
    /\ ~(LiveStep(Report) /\ lease[Report] > 0)
    /\ Goto(p, "REGISTER")
    /\ UNCHANGED <<storeVars, owner, registered, begun, keyVars, response,
                   remoteVars>>

Register(p) ==
    /\ At(p, "REGISTER")
    /\ registered' = TRUE
    /\ Goto(p, "START_RUN")
    /\ UNCHANGED <<storeVars, owner, begun, keyVars, response, remoteVars>>

StartDelivery(p) ==
    /\ At(p, "START_RUN")
    /\ \/ StartRun(Delivery)
       \/ runState[Delivery] # "QUEUED" /\ UNCHANGED storeVars
    /\ Goto(p, "RECOVER")
    /\ UNCHANGED <<owner, registered, begun, keyVars, response, remoteVars>>

\* recover_expired, first half.
Recover(p) ==
    LET n      == current[Report]
        lapsed == n # 0 /\ ExpiredAttempt(Report, n)
    IN  /\ At(p, "RECOVER")
        /\ \/ lapsed /\ Owns(p) /\ RecoverExpired(Report, n) /\ Goto(p, "EXPIRE")
           \/ ~lapsed /\ UNCHANGED storeVars /\ Goto(p, "EXPIRE")
           \/ /\ lapsed /\ ~(Owns(p) /\ RecoveryAllowed(Report, n))
              /\ UNCHANGED storeVars
              /\ Return(p)
        /\ UNCHANGED <<owner, registered, begun, keyVars, response, remoteVars>>

ToLoop(p) == IF call[p].leaving THEN Return(p) ELSE Goto(p, "INSPECT")

\* recover_expired, second half.
Expire(p) ==
    LET late == DeadlineExpired(Report)
    IN  /\ At(p, "EXPIRE")
        /\ \/ late /\ Owns(p) /\ ExpireDeadline(Report) /\ ToLoop(p)
           \/ ~late /\ UNCHANGED storeVars /\ ToLoop(p)
           \/ /\ late /\ ~(Owns(p) /\ tried[Report] < MaxAttempts[Report])
              /\ UNCHANGED storeVars
              /\ Return(p)
        /\ UNCHANGED <<owner, registered, begun, keyVars, response, remoteVars>>

-----------------------------------------------------------------------------
(* One round of the loop.                                                  *)
\* Mutant of ProvenAbsent: an Attempt without a response was not sent.
NoAcceptanceKnown(n) == response[n] # <<"ACCEPTED">>

\* The one published response of the Attempt proves that nothing was sent.
ProvenAbsent(n) == response[n] = <<"PROVEN_NOT_SENT">>

\* What the round does, from one read of the Run, its response and the clock.
Verdict ==
    LET n == tried[Report]
    IN  CASE runState[Delivery] = "WAITING" /\ ProvenAbsent(n) ->
                 IF Expired THEN "LEAVE"
                 ELSE IF n >= MaxAttempts[Report] THEN "OUT" ELSE "RESUME"
          [] runState[Delivery] = "RUNNING" /\ ~Expired -> "CLAIM"
          [] OTHER -> "OUT"

Inspect(p) ==
    /\ call[p].pc = "INSPECT"
    /\ \/ Verdict = "OUT" /\ Return(p)
       \/ /\ Verdict # "OUT"
          /\ call' = [call EXCEPT ![p] =
                 [@ EXCEPT !.pc = IF Verdict = "LEAVE" THEN "RESUME" ELSE Verdict,
                           !.leaving = (Verdict = "LEAVE"),
                           !.fence = fence[Report],
                           !.attempts = tried[Report]]]
    /\ UNCHANGED <<storeVars, owner, registered, begun, keyVars, response,
                   remoteVars>>

\* Mutant of ResumeReplays: the key is no key.
ResumeNeverReplays(key) == FALSE

\* Mutant of ResumeReplays: the key does not name the Attempt.
ResumeReplaysAny(key) == resumed # {}

ResumeReplays(key) == key \in resumed

Resume(p) ==
    LET key == IF call[p].leaving THEN 0 ELSE call[p].attempts
        go  == Goto(p, IF call[p].leaving THEN "RECOVER" ELSE "INSPECT")
    IN  /\ At(p, "RESUME")
        /\ \/ ResumeReplays(key) /\ UNCHANGED <<storeVars, resumed>> /\ go
           \/ /\ ~ResumeReplays(key)
              /\ ResumeWaiting(Report)
              /\ resumed' = resumed \cup {key}
              /\ go
           \/ /\ ~ResumeReplays(key)
              /\ stepState[Report] # "WAITING"
              /\ UNCHANGED <<storeVars, resumed>>
              /\ Return(p)
        /\ UNCHANGED <<owner, registered, begun, claimed, started, response,
                       remoteVars>>

\* Mutant of ClaimKey: the key does not name the fence that was read.
FixedClaimKey(p) == 1

ClaimKey(p) == call[p].fence + 1

\* claim_next.  A replay returns the claim of the receipt, unchecked.
Claim(p) ==
    LET key == ClaimKey(p)
        n   == tried[Report] + 1
        new == claimed[key] = 0
    IN  /\ At(p, "CLAIM")
        /\ \/ /\ new /\ Owns(p) /\ Claimable(Report)
              /\ InsertClaim(Report)
              /\ claimed' = [claimed EXCEPT ![key] = n]
              /\ call' = [call EXCEPT
                     ![p].pc = "START", ![p].checked = FALSE,
                     ![p].claim = n, ![p].sends = @ + 1]
           \/ /\ ~new
              /\ UNCHANGED <<storeVars, claimed>>
              /\ call' = [call EXCEPT
                     ![p].pc = "START", ![p].checked = FALSE,
                     ![p].claim = claimed[key], ![p].sends = @ + 1]
           \/ /\ new
              /\ ~(/\ Owns(p)
                   /\ Claimable(Report)
                   /\ n <= MaxAttempts[Report])
              /\ UNCHANGED <<storeVars, claimed>>
              /\ Return(p)
        /\ UNCHANGED <<owner, registered, begun, started, resumed, response,
                       remoteVars>>

Start(p) ==
    LET n == call[p].claim
    IN  /\ At(p, "START")
        /\ \/ /\ n \notin started
              /\ StartAttempt(Report, n)
              /\ started' = started \cup {n}
              /\ Goto(p, "SEND")
           \/ n \in started /\ UNCHANGED <<storeVars, started>> /\ Goto(p, "SEND")
           \/ /\ n \notin started
              /\ ~OwnsFence(Report, n, {"CLAIMED"})
              /\ UNCHANGED <<storeVars, started>>
              /\ Return(p)
        /\ UNCHANGED <<owner, registered, begun, claimed, resumed, response,
                       remoteVars>>

\* The remote side may take a message and its answer may still be lost: then
\* the result is UNKNOWN.  PROVEN_NOT_SENT is true when an adapter says so.
Send(p) ==
    LET n == call[p].claim
        Answer(result) == call' = [call EXCEPT ![p] = [@ EXCEPT
            !.pc = "PUBLISH", !.checked = FALSE, !.result = result]]
    IN  /\ At(p, "SEND")
        /\ \/ Expired /\ Answer("PROVEN_NOT_SENT") /\ UNCHANGED remoteVars
           \/ /\ ~Expired
              /\ sent' = [sent EXCEPT ![n] = @ + 1]
              /\ \/ acceptances' = acceptances + 1 /\ Answer("ACCEPTED")
                 \/ acceptances' = acceptances + 1 /\ Answer("UNKNOWN")
                 \/ UNCHANGED acceptances /\ Answer("UNKNOWN")
                 \/ UNCHANGED acceptances /\ Answer("PROVEN_NOT_SENT")
        /\ UNCHANGED <<storeVars, owner, registered, begun, keyVars, response>>

\* Mutant of RecordAcceptance: the response is published without the claim.
RecordUnfenced(n) == UNCHANGED storeVars

\* The response, its receipt and the end of the Attempt are one transaction.
RecordAcceptance(n) == SucceedAttempt(Report, n)

Publish(p) ==
    LET n       == call[p].claim
        result  == call[p].result
        publish == response' = [response EXCEPT ![n] = Append(@, result)]
    IN  /\ At(p, "PUBLISH")
        /\ \/ /\ result = "ACCEPTED"
              /\ RecordAcceptance(n)
              /\ publish
              /\ Return(p)
           \/ /\ result = "ACCEPTED"
              /\ ~OwnsFence(Report, n, {"RUNNING"})
              /\ UNCHANGED <<storeVars, response>>
              /\ Return(p)
           \/ /\ result # "ACCEPTED"
              /\ publish
              /\ UNCHANGED storeVars
              /\ Goto(p, "FAIL")
        /\ UNCHANGED <<owner, registered, begun, keyVars, remoteVars>>

\* The loop goes on.
Retries(p) == call[p].result = "PROVEN_NOT_SENT" /\ call[p].sends < MaxSends

\* fail_attempt: the effect is remote, so the Run waits for reconciliation.
Fail(p) ==
    LET n == call[p].claim
    IN  /\ At(p, "FAIL")
        /\ \/ /\ FailAttempt(Report, n, TRUE, FALSE)
              /\ \/ Retries(p) /\ Goto(p, "INSPECT")
                 \/ ~Retries(p) /\ Return(p)
           \/ /\ ~OwnsFence(Report, n, {"RUNNING"})
              /\ UNCHANGED storeVars
              /\ Return(p)
        /\ UNCHANGED <<owner, registered, begun, keyVars, response, remoteVars>>

-----------------------------------------------------------------------------
Tick ==
    /\ LeaseTick(Report) \/ DeadlinePasses(Report)
    /\ UNCHANGED <<owner, call, registered, begun, keyVars, response, remoteVars>>

TargetBegins ==
    /\ ~begun
    /\ begun' = TRUE
    /\ UNCHANGED <<storeVars, owner, call, registered, keyVars, response,
                   remoteVars>>

Deliver(p) ==
    \/ Enter(p) \/ Register(p) \/ StartDelivery(p) \/ Recover(p) \/ Expire(p)
    \/ Inspect(p) \/ Resume(p) \/ Claim(p) \/ Start(p) \/ Send(p)
    \/ Publish(p) \/ Fail(p)

Next ==
    \/ \E p \in Proc : \/ Acquire(p) \/ LoseLock(p) \/ Crash(p) \/ Check(p)
                       \/ Deliver(p)
    \/ Tick
    \/ TargetBegins

Spec == Init /\ [][Next]_vars

-----------------------------------------------------------------------------
(* Properties.                                                             *)

\* The rows, the keys and the local state of every process are of their types.
TypeOK ==
    /\ StoreTypeOK
    /\ owner \in Proc \cup {NoProc}
    /\ call \in [Proc -> Calls]
    /\ registered \in BOOLEAN /\ begun \in BOOLEAN
    /\ claimed \in [1..(MaxBudget + 1) -> 0..MaxBudget]
    /\ started \subseteq AttemptNo
    /\ resumed \subseteq 0..MaxBudget
    /\ response \in [AttemptNo -> Seq(Outcomes)]
    /\ sent \in [AttemptNo -> Nat]
    /\ acceptances \in Nat

\* The reader gets the report at most once: whatever is lost, replayed or
\* late, a second message is sent only after proof that the first was not.
AtMostOneAcceptance == acceptances <= 1

\* Two processes never send under the same Attempt, although a replayed claim
\* and a replayed start hand the Attempt out again without any check.
OneSendPerAttempt == \A n \in AttemptNo : sent[n] <= 1

\* published_artifact finds at most one response of an Attempt: a second one,
\* under another content hash, would make every later inspection raise.
OneResponsePerAttempt == \A n \in AttemptNo : Len(response[n]) <= 1

\* An acceptance is on record exactly when its Attempt has succeeded, so
\* inspect never meets a successful Run without the accepted response.
AcceptedResponseIsTheSuccess ==
    \A n \in AttemptNo :
        (\E i \in DOMAIN response[n] : response[n][i] = "ACCEPTED")
            <=> attempt[Report][n].state = "SUCCEEDED"

\* A Run that waits because a message may have been taken is never set going
\* by a resume that was decided about an earlier Attempt.
ResumeHasProof ==
    [][ stepState[Report] = "WAITING" /\ stepState'[Report] = "READY"
        => ProvenAbsent(tried[Report]) ]_vars

\* A Step the retry loop may claim has retry budget left: claim_next and
\* expire_step_deadline treat the contrary as a state that cannot be.
ReadyStepHasBudget ==
    stepState[Report] = "READY" => tried[Report] < MaxAttempts[Report]

-----------------------------------------------------------------------------
(* The loop of deliver goes forward.                                       *)
\* How much lies ahead of each place, the way out after the expiry being the last
\* and the way to a claim the last but one.
Ahead == [REGISTER |-> 4, START_RUN |-> 3, RECOVER |-> 2, EXPIRE |-> 1,
          INSPECT |-> 4, RESUME |-> 3, CLAIM |-> 2,
          START |-> 4, SEND |-> 3, PUBLISH |-> 2, FAIL |-> 1, OUT |-> 0]

Way(p) ==
    IF call[p].leaving THEN 0
    ELSE IF call[p].pc \in {"INSPECT", "RESUME", "CLAIM"} THEN 1 ELSE 2

\* The Attempts that may still have to be resumed before the next claim.
Unresumed(p) ==
    CASE call[p].pc = "INSPECT" ->
             2 * (MaxBudget - tried[Report]) + (IF tried[Report] \in resumed THEN 0 ELSE 1)
      [] call[p].pc = "RESUME" -> 2 * (MaxBudget - call[p].attempts) + 1
      [] OTHER -> 0

Place(p) == 2 * Ahead[call[p].pc] + (IF call[p].checked THEN 0 ELSE 1)

\* What is left of a call: its sends, the ways that each of them takes, the resumes
\* on a way, and the places with their checks.
Left(p) == <<MaxSends - call[p].sends, Way(p), Unresumed(p), Place(p)>>

\* a comes before b in the lexicographic order of natural numbers.
Before(a, b) ==
    /\ \A i \in 1..4 : a[i] >= 0
    /\ \E i \in 1..4 : a[i] < b[i] /\ \A j \in 1..4 : j < i => a[j] = b[j]

\* deliver does not go round in circles: no step of any process, of another owner
\* of the lock or of the clock gives a call back what it has used up.  A replayed
\* resume leads it to an Attempt that has been resumed, or to a newer one.
DeliverGoesForward ==
    [][\A p \in Proc : call[p] # Outside =>
           \/ call'[p] = Outside
           \/ Before(Left(p)', Left(p))
           \/ call'[p] = call[p] /\ Left(p)' = Left(p)]_vars
=============================================================================
