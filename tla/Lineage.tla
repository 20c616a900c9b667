------------------------------- MODULE Lineage -------------------------------
(***************************************************************************)
(* The datasets and which is derived from which: what the propagation of   *)
(* markings (db.py), the comparator of changes and the importer share.     *)
(***************************************************************************)
CONSTANTS
    Datasets

\* The closure of the explicit markings over the edges (upstream, downstream),
\* which have no cycle.
Propagate(edges, explicit) ==
    LET effective[d \in Datasets] ==
            explicit[d] \cup UNION {effective[u] : u \in {v \in Datasets : <<v, d>> \in edges}}
    IN  effective
=============================================================================
