-------------------------- MODULE ArchiveCollection --------------------------
(***************************************************************************)
(* The collection of a prospective archive: the tick of                    *)
(* ProspectiveArchiveRuntimeApplication (market/application/               *)
(* prospective_runtime.py) and the slice that it executes                  *)
(* (archive_operations.py, capture.py, archive.py).                        *)
(*                                                                         *)
(* A slice of the archive is a Step whose deadline is the end of the       *)
(* slice's window.  Its Attempt asks the provider, binds the answer as a   *)
(* Capture, normalizes it, and ends with the row that says what became of  *)
(* the slice; each is a transaction of its own under the claim.  What the  *)
(* window leaves open is recorded as MISSED.                               *)
(*                                                                         *)
(* As in DailyDelivery a process checks that its session holds the writer  *)
(* lock, and acts later.  The model begins when the windows have opened    *)
(* (run_due reads the clock first, so NOT_DUE does not arise), leaves the  *)
(* Run that the sweep has of its own to RuntimeService, and does not tell  *)
(* why predeclare refuses: it lets in more ticks than the code.            *)
(***************************************************************************)
EXTENDS RuntimeStore

CONSTANTS
    Proc,           \* processes that run the prospective service
    NoProc,         \* nobody holds the writer lock
    NoSlice         \* a process that executes no slice

ASSUME CollectionAssumption ==
    /\ Remote = {}
    /\ Dated = Step
    /\ NoProc \notin Proc
    /\ NoSlice \notin Step

VARIABLES
    owner,          \* the process whose session holds the writer lock
    call,           \* the local state of each process
    claimed,        \* claim receipts of a Step: key "claim:<k>" to attempt_no
    started,        \* claims with a start receipt
    asked,          \* how often the provider was asked for a slice
    capture,        \* the Capture of a slice, or the receipt of its rejection
    terminal        \* prospective_archive_slice_terminal

sliceVars == <<asked, capture, terminal>>
vars == <<storeVars, owner, call, claimed, started, sliceVars>>

Answers   == {"DATA", "IMMATURE", "PROVIDER_FAILURE"}
Terminals == {"CAPTURED_ON_TIME", "CAPTURED_LATE", "PROVIDER_GAP",
              "RESOURCE_STOP", "MISSED"}

\* Program points at which a tick checks ownership, and those of execute_slice.
Guarded   == {"REGISTER", "SWEEP", "RECOVER", "CLAIM"}
Executing == {"LOAD", "STOP", "PREFLIGHT", "CALL", "REJECT", "BIND", "GAP",
              "COMPLETE", "NORMALIZE", "OBSERVE", "RECONCILE"}

Outside == [pc |-> "OUT", checked |-> FALSE, due |-> {}, slice |-> NoSlice,
            attempts |-> 0, claim |-> 0, first |-> FALSE, answer |-> "DATA",
            why |-> "PROVIDER"]

Calls == [pc : Guarded \cup Executing \cup {"OUT", "DUE", "LOOK", "START", "FAIL"},
          checked : BOOLEAN, due : SUBSET Step, slice : Step \cup {NoSlice},
          attempts : 0..MaxBudget, claim : 0..MaxBudget, first : BOOLEAN,
          answer : Answers, why : {"PROVIDER", "INTEGRITY"}]

Init ==
    /\ StoreInit
    /\ owner    = NoProc
    /\ call     = [p \in Proc |-> Outside]
    /\ claimed  = [s \in Step |-> [k \in 1..(MaxBudget + 1) |-> 0]]
    /\ started  = {}
    /\ asked    = [s \in Step |-> 0]
    /\ capture  = [s \in Step |-> [kind |-> "NONE", late |-> FALSE]]
    /\ terminal = [s \in Step |-> "NONE"]

Owns(p) == owner = p

Goto(p, pc) == call' = [call EXCEPT ![p].pc = pc, ![p].checked = FALSE]
Return(p)   == call' = [call EXCEPT ![p] = Outside]

\* The loop goes on with what is left of the slices that were due.
Continue(p, left) ==
    call' = [call EXCEPT ![p] = [Outside EXCEPT !.pc = "LOOK", !.due = left]]

At(p, pc) == call[p].pc = pc /\ call[p].checked

\* lock_live: the claim of the process still owns its Step.
Live(p) == OwnsFence(call[p].slice, call[p].claim, {"RUNNING"})

\* An exception leaves execute_slice: an integrity error ends the tick too.
Raise(p, why) == call' = [call EXCEPT ![p].pc = "FAIL", ![p].checked = FALSE,
                                      ![p].why = why]

-----------------------------------------------------------------------------
(* The writer lock.                                                        *)
Acquire(p) ==
    /\ owner = NoProc
    /\ call[p] = Outside
    /\ owner' = p
    /\ UNCHANGED <<storeVars, call, claimed, started, sliceVars>>

\* The session drops; the process does not know yet.
LoseLock(p) ==
    /\ owner = p
    /\ owner' = NoProc
    /\ UNCHANGED <<storeVars, call, claimed, started, sliceVars>>

Crash(p) ==
    /\ call[p] # Outside
    /\ Return(p)
    /\ owner' = IF owner = p THEN NoProc ELSE owner
    /\ UNCHANGED <<storeVars, claimed, started, sliceVars>>

\* before_action: the lock is held; Attempts of others and the resources may
\* speak against the action too.
Check(p) ==
    /\ call[p].pc \in Guarded
    /\ ~call[p].checked
    /\ \/ Owns(p) /\ call' = [call EXCEPT ![p].checked = TRUE]
       \/ Return(p)
    /\ UNCHANGED <<storeVars, owner, claimed, started, sliceVars>>

-----------------------------------------------------------------------------
(* The tick: continue_series, up to the slices that are due.               *)
Enter(p) ==
    /\ call[p] = Outside
    /\ Owns(p)
    /\ Goto(p, "REGISTER")
    /\ UNCHANGED <<storeVars, owner, claimed, started, sliceVars>>

\* predeclare starts what an earlier tick left out.  A Run that FAILED ends the
\* tick, unless nothing but its deadline or its normalization failed it.
Register(p) ==
    /\ At(p, "REGISTER")
    /\ \/ \E r \in Run : StartRun(r) /\ UNCHANGED call
       \/ /\ \A r \in Run : runState[r] # "QUEUED"
          /\ Goto(p, "SWEEP")
          /\ UNCHANGED storeVars
       \/ /\ \E r \in Run : runState[r] = "FAILED"
          /\ Return(p)
          /\ UNCHANGED storeVars
    /\ UNCHANGED <<owner, claimed, started, sliceVars>>

\* Mutant of Overdue: what became of the slice is not asked.
WindowElapsed == {s \in Step : overdue[s]}

\* What finalize_overdue selects.
Overdue == {s \in Step : overdue[s] /\ terminal[s] = "NONE"}

\* finalize_overdue, in a Run of its own.
Sweep(p) ==
    /\ At(p, "SWEEP")
    /\ terminal' = [s \in Step |-> IF s \in Overdue THEN "MISSED" ELSE terminal[s]]
    /\ Goto(p, "RECOVER")
    /\ UNCHANGED <<storeVars, owner, claimed, started, asked, capture>>

\* recover_expired, item by item; an item that raises ends the tick.
Recover(p) ==
    /\ At(p, "RECOVER")
    /\ \/ /\ Owns(p)
          /\ \E s \in Step :
                \/ current[s] # 0 /\ RecoverExpired(s, current[s])
                \/ ExpireDeadline(s)
          /\ UNCHANGED call
       \/ Goto(p, "DUE") /\ UNCHANGED storeVars
       \/ Return(p) /\ UNCHANGED storeVars
    /\ UNCHANGED <<owner, claimed, started, sliceVars>>

\* due_slice_ids.
Due(p) ==
    /\ call[p].pc = "DUE"
    /\ call' = [call EXCEPT ![p].pc = "LOOK",
           ![p].due = {s \in Step : ~overdue[s] /\ terminal[s] = "NONE"}]
    /\ UNCHANGED <<storeVars, owner, claimed, started, sliceVars>>

-----------------------------------------------------------------------------
(* The loop of run_due over the READY Steps.                               *)
\* One read of the Run; the loop also ends when maximum_attempts is reached.
Look(p) ==
    /\ call[p].pc = "LOOK"
    /\ \/ \E s \in call[p].due :
            /\ runState[RunOf[s]] = "RUNNING"
            /\ stepState[s] = "READY"
            /\ call' = [call EXCEPT ![p].pc = "CLAIM", ![p].slice = s,
                                    ![p].attempts = tried[s]]
       \/ Return(p)
    /\ UNCHANGED <<storeVars, owner, claimed, started, sliceVars>>

\* claim_next.  A replay returns the claim of the receipt, unchecked.
Claim(p) ==
    LET s   == call[p].slice
        key == call[p].attempts + 1
        n   == tried[s] + 1
        new == claimed[s][key] = 0
        Take(m) == call' = [call EXCEPT ![p].pc = "START", ![p].checked = FALSE,
                                        ![p].claim = m]
    IN  /\ At(p, "CLAIM")
        /\ \/ /\ new /\ Owns(p) /\ Claimable(s)
              /\ InsertClaim(s)
              /\ claimed' = [claimed EXCEPT ![s][key] = n]
              /\ Take(n)
           \/ ~new /\ Take(claimed[s][key]) /\ UNCHANGED <<storeVars, claimed>>
           \/ /\ new
              /\ \/ ~Claimable(s) /\ Continue(p, {z \in call[p].due : RunOf[z] # RunOf[s]})
                 \/ ~(Owns(p) /\ n <= MaxAttempts[s]) /\ Return(p)
              /\ UNCHANGED <<storeVars, claimed>>
        /\ UNCHANGED <<owner, started, sliceVars>>

Start(p) ==
    LET s == call[p].slice
        n == call[p].claim
    IN  /\ call[p].pc = "START"
        /\ \/ /\ <<s, n>> \notin started
              /\ StartAttempt(s, n)
              /\ started' = started \cup {<<s, n>>}
              /\ Goto(p, "LOAD")
           \/ /\ <<s, n>> \in started
              /\ Goto(p, "LOAD")
              /\ UNCHANGED <<storeVars, started>>
           \/ /\ <<s, n>> \notin started
              /\ ~OwnsFence(s, n, {"CLAIMED"})
              /\ Return(p)
              /\ UNCHANGED <<storeVars, started>>
        /\ UNCHANGED <<owner, claimed, sliceVars>>

-----------------------------------------------------------------------------
(* execute_slice.                                                          *)
\* requested_at is before the start of the Capture, if that is still to come.
\* While a call is about to be made the order of the two is open.
Requested(s) ==
    IF asked[s] > 0 THEN {FALSE}
    ELSE IF \E q \in Proc : call[q].pc = "CALL" /\ call[q].slice = s THEN BOOLEAN
    ELSE {TRUE}

\* The slice's contract and the clock are read, and the disk is looked at.
Load(p) ==
    LET s == call[p].slice
    IN  /\ call[p].pc = "LOAD"
        /\ \/ terminal[s] # "NONE" /\ Goto(p, "RECONCILE")
           \/ /\ terminal[s] = "NONE"
              /\ \E pc \in {"STOP", "PREFLIGHT"}, first \in Requested(s) :
                    call' = [call EXCEPT ![p].pc = pc, ![p].first = first]
        /\ UNCHANGED <<storeVars, owner, claimed, started, sliceVars>>

\* The row about what became of the slice, and the success of the Attempt.  A
\* second row for a slice is rejected: Falter.
Terminate(p, state) ==
    LET s == call[p].slice
    IN  /\ terminal[s] = "NONE"
        /\ SucceedAttempt(s, call[p].claim)
        /\ terminal' = [terminal EXCEPT ![s] = state]
        /\ Continue(p, call[p].due)
        /\ UNCHANGED <<owner, claimed, started, asked, capture>>

\* record_resource_stop: the disk is too full.
Stop(p) == call[p].pc = "STOP" /\ Terminate(p, "RESOURCE_STOP")

\* Where a Capture leads.
NextAfter(kind) ==
    CASE kind = "PROVIDER_FAILURE" -> "GAP"
      [] kind = "IMMATURE" -> "COMPLETE"
      [] OTHER -> "NORMALIZE"

\* _capture_replay_before_io.
Preflight(p) ==
    LET kind == capture[call[p].slice].kind
    IN  /\ call[p].pc = "PREFLIGHT"
        /\ Live(p)
        /\ \/ kind = "NONE" /\ Goto(p, "CALL")
           \/ kind \in Answers /\ Goto(p, NextAfter(kind))
        /\ UNCHANGED <<storeVars, owner, claimed, started, sliceVars>>

\* Mutant of MayStart: a retry may repeat the call.
AlwaysStarts(p) == call[p].claim > 0

\* _ReconciledCaptureProvider: the first Attempt alone may ask the provider.
MayStart(p) == call[p].claim = 1

\* The call, after before_effect let it pass: an answer (a MarketProviderError
\* is one), a response that is rejected, or an exception of another kind.
Ask(p) ==
    LET s == call[p].slice
    IN  /\ At(p, "CALL")
        /\ asked' = [asked EXCEPT ![s] = @ + 1]
        /\ \/ \E a \in Answers :
                 call' = [call EXCEPT ![p].pc = "BIND", ![p].checked = FALSE,
                                      ![p].answer = a]
           \/ Goto(p, "REJECT")
           \/ Raise(p, "PROVIDER")
        /\ UNCHANGED <<storeVars, owner, claimed, started, capture, terminal>>

\* The check before the call; what it raises is a ValueError.
BeforeAsk(p) ==
    /\ call[p].pc = "CALL"
    /\ ~call[p].checked
    /\ \/ ~MayStart(p) /\ Raise(p, "INTEGRITY")
       \/ MayStart(p) /\ Owns(p) /\ call' = [call EXCEPT ![p].checked = TRUE]
       \/ MayStart(p) /\ Goto(p, "REJECT")
    /\ UNCHANGED <<storeVars, owner, claimed, started, sliceVars>>

\* The failure boundary of capture: the rejection is recorded with the end of
\* the Attempt, unless the same command has succeeded meanwhile.
Reject(p) ==
    LET s == call[p].slice
    IN  /\ call[p].pc = "REJECT"
        /\ \/ /\ capture[s].kind = "NONE"
              /\ FailAttempt(s, call[p].claim, FALSE, FALSE)
              /\ capture' = [capture EXCEPT ![s].kind = "REJECTED"]
              /\ Return(p)
           \/ /\ capture[s].kind # "NONE"
              /\ Live(p)
              /\ Goto(p, "PREFLIGHT")
              /\ UNCHANGED <<storeVars, capture>>
        /\ UNCHANGED <<owner, claimed, started, asked, terminal>>

\* The answer becomes the slice's Capture, once; the acknowledgement of the
\* commit may be lost.  Bytes that cannot be verified are rejected.
Bind(p) ==
    LET s == call[p].slice
        a == call[p].answer
    IN  /\ call[p].pc = "BIND"
        /\ Live(p)
        /\ \/ /\ capture[s].kind = "NONE"
              /\ capture' = [capture EXCEPT ![s] = [kind |-> a, late |-> overdue[s]]]
              /\ Goto(p, NextAfter(a)) \/ Raise(p, "PROVIDER")
           \/ /\ capture[s].kind # "NONE"
              /\ Goto(p, NextAfter(capture[s].kind))
              /\ UNCHANGED capture
           \/ Goto(p, "REJECT") /\ UNCHANGED capture
        /\ UNCHANGED <<storeVars, owner, claimed, started, asked, terminal>>

\* record_slice_gap: the provider failed.
Gap(p) == call[p].pc = "GAP" /\ Terminate(p, "PROVIDER_GAP")

\* NO_MATURE_INTERVAL: the replay of the Capture closes the Attempt, and the
\* slice stays open.
Complete(p) ==
    /\ call[p].pc = "COMPLETE"
    /\ SucceedAttempt(call[p].slice, call[p].claim)
    /\ Continue(p, call[p].due)
    /\ UNCHANGED <<owner, claimed, started, sliceVars>>

\* normalize, or its deterministic rejection.
Normalize(p) ==
    /\ call[p].pc = "NORMALIZE"
    /\ \/ Live(p) /\ Goto(p, "OBSERVE") /\ UNCHANGED storeVars
       \/ FailAttempt(call[p].slice, call[p].claim, FALSE, FALSE) /\ Return(p)
    /\ UNCHANGED <<owner, claimed, started, sliceVars>>

\* Mutant of Timeliness: read when the observation is recorded.
TimelinessNow(s) == IF overdue[s] THEN "CAPTURED_LATE" ELSE "CAPTURED_ON_TIME"

\* Timeliness of an observation: when its Capture became known.
Timeliness(s) == IF capture[s].late THEN "CAPTURED_LATE" ELSE "CAPTURED_ON_TIME"

\* record_capture_observation: requested_at may not be after the Capture began.
Observe(p) ==
    /\ call[p].pc = "OBSERVE"
    /\ \/ call[p].first /\ Terminate(p, Timeliness(call[p].slice))
       \/ /\ ~call[p].first
          /\ Live(p)
          /\ Raise(p, "INTEGRITY")
          /\ UNCHANGED <<storeVars, owner, claimed, started, sliceVars>>

\* ALREADY_TERMINAL.
Reconcile(p) ==
    /\ call[p].pc = "RECONCILE"
    /\ SucceedAttempt(call[p].slice, call[p].claim)
    /\ Continue(p, call[p].due)
    /\ UNCHANGED <<owner, claimed, started, sliceVars>>

\* A stale claim, a second terminal row, a database that does not answer.
Falter(p) ==
    /\ call[p].pc \in Executing
    /\ Raise(p, "PROVIDER")
    /\ UNCHANGED <<storeVars, owner, claimed, started, sliceVars>>

\* The handlers of run_due: the Attempt fails if the Step is live, and an
\* integrity error is raised again.
Fail(p) ==
    LET s    == call[p].slice
        goOn == IF call[p].why = "PROVIDER" THEN Continue(p, call[p].due) ELSE Return(p)
    IN  /\ call[p].pc = "FAIL"
        /\ \/ FailAttempt(s, call[p].claim, call[p].why = "PROVIDER", TRUE) /\ goOn
           \/ ~LiveStep(s) /\ goOn /\ UNCHANGED storeVars
           \/ LiveStep(s) /\ ~Live(p) /\ Return(p) /\ UNCHANGED storeVars
        /\ UNCHANGED <<owner, claimed, started, sliceVars>>

-----------------------------------------------------------------------------
Time(s) ==
    /\ LeaseTick(s) \/ DeadlinePasses(s) \/ BackoffElapses(s)
    /\ UNCHANGED <<owner, call, claimed, started, sliceVars>>

Next ==
    \/ \E p \in Proc :
          \/ Acquire(p) \/ LoseLock(p) \/ Crash(p) \/ Check(p)
          \/ Enter(p) \/ Register(p) \/ Sweep(p) \/ Recover(p) \/ Due(p)
          \/ Look(p) \/ Claim(p) \/ Start(p)
          \/ Load(p) \/ Stop(p) \/ Preflight(p) \/ BeforeAsk(p) \/ Ask(p)
          \/ Reject(p) \/ Bind(p) \/ Gap(p) \/ Complete(p) \/ Normalize(p)
          \/ Observe(p) \/ Reconcile(p) \/ Falter(p) \/ Fail(p)
    \/ \E s \in Step : Time(s)

Spec == Init /\ [][Next]_vars

-----------------------------------------------------------------------------
(* Properties.                                                             *)
Captures == [kind : Answers \cup {"NONE", "REJECTED"}, late : BOOLEAN]

\* Rows and processes are of their types.
TypeOK ==
    /\ StoreTypeOK
    /\ owner \in Proc \cup {NoProc}
    /\ call \in [Proc -> Calls]
    /\ claimed \in [Step -> [1..(MaxBudget + 1) -> 0..MaxBudget]]
    /\ started \subseteq Step \X (1..MaxBudget)
    /\ asked \in [Step -> Nat]
    /\ capture \in [Step -> Captures]
    /\ terminal \in [Step -> Terminals \cup {"NONE"}]

\* The provider is asked at most once for a slice, whatever is retried,
\* restarted or replayed.
OneProviderCall == \A s \in Step : asked[s] <= 1

\* What the terminal row says is what happened, and an Attempt that succeeded
\* has left a row, unless its Capture said that it is too early.
TerminalMatchesEvidence ==
    \A s \in Step :
        LET kind == capture[s].kind IN
        /\ terminal[s] = "CAPTURED_ON_TIME" => kind = "DATA" /\ ~capture[s].late
        /\ terminal[s] = "CAPTURED_LATE" => kind = "DATA" /\ capture[s].late
        /\ terminal[s] = "PROVIDER_GAP" => kind = "PROVIDER_FAILURE"
        /\ terminal[s] = "MISSED" => overdue[s]
        /\ stepState[s] = "SUCCEEDED" => terminal[s] # "NONE" \/ kind = "IMMATURE"

\* What became of a slice is never rewritten, neither by the sweep of what its
\* window left open nor by an Attempt that outlived the window.
TerminalIsFinal ==
    [][\A s \in Step : terminal[s] # "NONE" => terminal'[s] = terminal[s]]_vars

\* An Attempt that finds the Capture of an earlier one is not an integrity
\* failure: what the earlier one obtained is brought to its end.
RetryReconciles ==
    \A p \in Proc :
        call[p].pc = "FAIL" /\ call[p].why = "INTEGRITY" /\ call[p].claim > 1 =>
            capture[call[p].slice].kind = "NONE"
=============================================================================
