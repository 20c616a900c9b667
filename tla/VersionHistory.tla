--------------------------- MODULE VersionHistory ---------------------------
(***************************************************************************)
(* What a dataset promises its readers, with every mechanism left out: a   *)
(* history of versions 1, 2, 3, ... each of which is a set of row batches  *)
(* that never changes once published.  DatasetCatalog implements it.       *)
(***************************************************************************)
EXTENDS Naturals, Sequences

CONSTANT Batches      \* what a writer hands to one call: an opaque set of rows

VARIABLE history      \* history[v]: the rows a reader of version v sees

HistoryInit == history = << >>

\* A call publishes one version; numbers are handed out without gaps.
Publish(rows) == history' = Append(history, rows)

HistoryNext == \E rows \in SUBSET Batches : Publish(rows)

HistorySpec == HistoryInit /\ [][HistoryNext]_history
=============================================================================
