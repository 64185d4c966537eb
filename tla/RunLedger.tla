------------------------------ MODULE RunLedger ------------------------------
(***************************************************************************)
(* What the Runtime promises its callers, without Attempts, leases, locks, *)
(* receipts or sweeps: a Run hands out its Steps one at a time, never one  *)
(* whose predecessors are not done, never more often than the Step's       *)
(* budget; it parks while an external effect is unknown, and it ends once. *)
(***************************************************************************)
EXTENDS Naturals

CONSTANTS Run, Step, RunOf, Before, Budget

VARIABLES
    status,     \* where a Run is
    held,       \* the Steps somebody may be working on
    done,       \* the Steps that have succeeded
    grants      \* how often a Step has been handed out, or written off

ledgerVars == <<status, held, done, grants>>

StepsOf(r) == {s \in Step : RunOf[s] = r}

LedgerInit ==
    /\ status = [r \in Run |-> "NEW"]
    /\ held = {}
    /\ done = {}
    /\ grants = [s \in Step |-> 0]

Open(r) ==
    /\ status[r] = "NEW"
    /\ status' = [status EXCEPT ![r] = "OPEN"]
    /\ UNCHANGED <<held, done, grants>>

Grant(s) ==
    /\ status[RunOf[s]] = "OPEN"
    /\ held \cap StepsOf(RunOf[s]) = {}
    /\ s \notin done
    /\ Before[s] \subseteq done
    /\ grants[s] < Budget[s]
    /\ held' = held \cup {s}
    /\ grants' = [grants EXCEPT ![s] = @ + 1]
    /\ UNCHANGED <<status, done>>

\* The holder gave up or is presumed dead, and the Step may be handed out again.
Drop(s) ==
    /\ s \in held
    /\ grants[s] < Budget[s]
    /\ held' = held \ {s}
    /\ UNCHANGED <<status, done, grants>>

Finish(s) ==
    /\ s \in held
    /\ held' = held \ {s}
    /\ done' = done \cup {s}
    /\ status' = IF StepsOf(RunOf[s]) \subseteq done'
                 THEN [status EXCEPT ![RunOf[s]] = "WON"] ELSE status
    /\ UNCHANGED grants

Park(s) ==
    /\ s \in held
    /\ held' = held \ {s}
    /\ status' = [status EXCEPT ![RunOf[s]] = "PARKED"]
    /\ UNCHANGED <<done, grants>>

Unpark(r) ==
    /\ status[r] = "PARKED"
    /\ status' = [status EXCEPT ![r] = "OPEN"]
    /\ UNCHANGED <<held, done, grants>>

\* The Run is lost with the Step that is held.
LoseHeld(s) ==
    /\ s \in held
    /\ held' = held \ {s}
    /\ status' = [status EXCEPT ![RunOf[s]] = "LOST"]
    /\ UNCHANGED <<done, grants>>

\* The Run is lost with a Step nobody holds: one more grant writes it off.
LoseIdle(s) ==
    /\ status[RunOf[s]] = "OPEN"
    /\ held \cap StepsOf(RunOf[s]) = {}
    /\ s \notin done
    /\ grants[s] < Budget[s]
    /\ status' = [status EXCEPT ![RunOf[s]] = "LOST"]
    /\ grants' = [grants EXCEPT ![s] = @ + 1]
    /\ UNCHANGED <<held, done>>

LedgerNext ==
    \/ \E r \in Run : Open(r) \/ Unpark(r)
    \/ \E s \in Step : \/ Grant(s) \/ Drop(s) \/ Finish(s) \/ Park(s)
                       \/ LoseHeld(s) \/ LoseIdle(s)

LedgerSpec == LedgerInit /\ [][LedgerNext]_ledgerVars
=============================================================================
