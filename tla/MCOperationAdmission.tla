------------------------ MODULE MCOperationAdmission ------------------------
(***************************************************************************)
(* Two supervisors, two narrow clients, two retained clients, three  *)
(* Runs, one of each kind, and room for two live Attempts.                 *)
(***************************************************************************)
EXTENDS OperationAdmission, TLC

CONSTANTS n1, n2, s1, s2, q1, q2, r1, r2, r3, a1, a2

MCNarrow     == {n1, n2}
MCSupervisor == {s1, s2}
MCRetained   == {q1, q2}
MCRun        == {r1, r2, r3}
MCKind       == (r1 :> "DAILY") @@ (r2 :> "PROSPECTIVE") @@ (r3 :> "BACKTEST")
MCRecoverable == {r2}
MCSlot       == {a1, a2}

Clients ==
    Permutations(MCNarrow) \cup Permutations(MCSupervisor)
        \cup Permutations(MCRetained) \cup Permutations(MCSlot)
=============================================================================
