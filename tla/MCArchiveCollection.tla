------------------------- MODULE MCArchiveCollection -------------------------
(***************************************************************************)
(* One Run with one slice, two processes and three Attempts: a tick that   *)
(* stalls or dies anywhere and the tick of the process that takes over.    *)
(***************************************************************************)
EXTENDS ArchiveCollection, TLC

CONSTANTS r1, s1, p1, p2

MCRunOf == (s1 :> r1)
MCNone  == (s1 :> {})
MCMax   == (s1 :> 3)
Processes == Permutations(Proc)
=============================================================================
