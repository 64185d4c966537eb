-------------------------- MODULE StoreRefinement ---------------------------
(***************************************************************************)
(* The store implements RunLedger, under any callers.  A Step is held      *)
(* while it is live, done once SUCCEEDED, and its grants are its Attempts. *)
(***************************************************************************)
EXTENDS StoreCommands

LedgerStatus(state) ==
    CASE state = "QUEUED"    -> "NEW"
      [] state = "RUNNING"   -> "OPEN"
      [] state = "WAITING"   -> "PARKED"
      [] state = "SUCCEEDED" -> "WON"
      [] state = "FAILED"    -> "LOST"

Ledger == INSTANCE RunLedger WITH
    Before <- [s \in Step |-> Preds(s)],
    Budget <- MaxAttempts,
    status <- [r \in Run |-> LedgerStatus(runState[r])],
    held   <- {s \in Step : LiveStep(s)},
    done   <- {s \in Step : stepState[s] = "SUCCEEDED"},
    grants <- tried

\* Every interleaving of what the callers do is a history of the ledger: one
\* Step at a time, in dependency order, within the budget, one end.
ImplementsLedger == Ledger!LedgerSpec
=============================================================================
