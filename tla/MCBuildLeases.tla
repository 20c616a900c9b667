--------------------------- MODULE MCBuildLeases ---------------------------
(***************************************************************************)
(* Instances of BuildLeases small enough for TLC.                          *)
(***************************************************************************)
EXTENDS BuildLeases, TLC

CONSTANTS w1, w2, w3, b1, b2, t1, t2, t3

\* Replicas that may all die, or none, are interchangeable, and so are builds.
Symmetry == Permutations(Workers) \cup Permutations(Builds)

\* One transform after another, and one that reads nothing.
ChainPlan == <<t1, t2, t3>>
ChainInputs == (t1 :> {}) @@ (t2 :> {t1}) @@ (t3 :> {t2})
PairPlan == <<t1, t2>>
PairInputs == (t1 :> {}) @@ (t2 :> {})
=============================================================================
