-------------------------- MODULE MCArtifactStore --------------------------
(***************************************************************************)
(* One hash, and a few processes of each kind.                             *)
(***************************************************************************)
EXTENDS ArtifactStore, TLC

CONSTANTS h1, p1, v1, s1, s2, d1, d2

OneHash == {h1}

\* Scans are alike, and so are deletions.
Crowd == Permutations({s1, s2}) \cup Permutations({d1, d2})
=============================================================================
