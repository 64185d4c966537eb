---------------------------- MODULE MCRuntimeLive ----------------------------
(***************************************************************************)
(* One Run of three Steps for TLC's liveness runs: a Step with a retry, a  *)
(* remote Step with a retry and a deadline that comes after it, and a Step *)
(* of one try with a deadline of its own, so that a sweep has several      *)
(* items.                                                                  *)
(***************************************************************************)
EXTENDS RuntimeLiveness, TLC

CONSTANTS r1, a, b, c, w1, p1

MCRun      == {r1}
MCStep     == {a, b, c}
MCRunOf    == [s \in MCStep |-> r1]
MCNeeds    == (a :> {}) @@ (b :> {a}) @@ (c :> {})
MCAfter    == (a :> {}) @@ (b :> {}) @@ (c :> {})
MCRequired == {a, b, c}
MCRemote   == {b}
MCDated    == {b, c}
MCMaxAttempts == (a :> 2) @@ (b :> 2) @@ (c :> 1)
MCSession  == {w1}
MCSweeper  == {p1}
=============================================================================
