--------------------------- MODULE MCDailyDelivery ---------------------------
(***************************************************************************)
(* One delivery Run, two processes of the daily service: the one that has  *)
(* the writer lock and one that had it before.                             *)
(***************************************************************************)
EXTENDS DailyDelivery, StoreRefinement, TLC

CONSTANTS run, report, p1, p2

MCRun         == {run}
MCStep        == {report}
MCRunOf       == (report :> run)
MCNone        == (report :> {})
MCMaxAttempts == (report :> MaxBudget)
MCProc        == {p1, p2}
MCOneProc     == {p1}

Processes     == Permutations(MCProc)
=============================================================================
