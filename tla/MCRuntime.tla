------------------------------ MODULE MCRuntime ------------------------------
(***************************************************************************)
(* Two Runs for TLC.  The first has two Steps that are READY at once and a *)
(* third that waits for both, for one by success and for one by its end;   *)
(* one of them is a remote command.  The second has one Step with a        *)
(* deadline.                                                               *)
(***************************************************************************)
EXTENDS RuntimeService, StoreRefinement, TLC

CONSTANTS r1, r2, a, b, c, d, w1, w2, p1, p2

MCRun      == {r1, r2}
MCStep     == {a, b, c, d}
MCRunOf    == [s \in MCStep |-> IF s = d THEN r2 ELSE r1]
MCNeeds    == (a :> {}) @@ (b :> {}) @@ (c :> {a}) @@ (d :> {})
MCAfter    == (a :> {}) @@ (b :> {}) @@ (c :> {b}) @@ (d :> {})
MCRequired == {a, b, d}
MCRemote   == {b}
MCDated    == {c, d}
MCMaxAttempts == (a :> 2) @@ (b :> 2) @@ (c :> 1) @@ (d :> 1)
MCSession  == {w1, w2}
MCSweeper  == {p1, p2}

Workers    == Permutations(MCSession) \cup Permutations(MCSweeper)
=============================================================================
