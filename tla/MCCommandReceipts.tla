------------------------- MODULE MCCommandReceipts -------------------------
(***************************************************************************)
(* A command that two callers execute, for a Step or for none; without a    *)
(* Step, the key may stand for another request.                            *)
(***************************************************************************)
EXTENDS CommandReceipts, TLC

CONSTANTS c1, c2, s1, q1, q2

One == s1 :> q1
=============================================================================
