---------------------------- MODULE MCHoldoutSeal ---------------------------
(***************************************************************************)
(* A small world for the seal: two reservations whose windows overlap, one  *)
(* commitment of the held-out Run and one of another Run in the first       *)
(* window that ends late, a development Evaluation and the one that the     *)
(* opening plans.                                                          *)
(***************************************************************************)
EXTENDS HoldoutSeal, TLC

CONSTANTS w1, w2, h1, h2, dev, held, held2, c1, c2, e1, e2, i1

MCDevelopment == [h \in Holdout |-> dev]
MCFuture == h1 :> held @@ h2 :> held2
MCSample == [h \in Holdout |-> {i1}]
MCStart == h1 :> 1 @@ h2 :> 2
MCStop == h1 :> 3 @@ h2 :> 4
MCPlanned == [h \in Holdout |-> IF h = h1 THEN {e2} ELSE {}]
MCRunOf == c1 :> held @@ c2 :> dev
MCOf == [c \in Commitment |-> i1]
MCAt == c1 :> 1 @@ c2 :> 0
MCDue == c1 :> 2 @@ c2 :> 4
Connections == Permutations(Worker)
MCRequired == [r \in Run |-> IF r = dev THEN {e1} ELSE {}]
=============================================================================
