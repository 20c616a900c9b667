-------------------------- MODULE MCDatasetCatalog --------------------------
(***************************************************************************)
(* Instances of DatasetCatalog small enough for TLC.  Part keys and calls  *)
(* are interchangeable, so both are symmetry sets where no liveness        *)
(* property is checked.  Parts bounds the number of calls a behaviour has. *)
(***************************************************************************)
EXTENDS DatasetCatalog, TLC

Symmetry == Permutations(Calls) \cup Permutations(Parts)
=============================================================================
