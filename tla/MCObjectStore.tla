--------------------------- MODULE MCObjectStore ---------------------------
(***************************************************************************)
(* Instances of ObjectStore small enough for TLC.                          *)
(***************************************************************************)
EXTENDS ObjectStore, TLC

CONSTANTS a1, a2, a3, k1, k2, c1, c2

Symmetry == Permutations(Actors) \cup Permutations(Keys) \cup Permutations(Cols)

Mix(ops, kinds, start, faults, calls, edits) ==
    [ops |-> ops, kinds |-> kinds, start |-> start, faults |-> faults,
     calls |-> calls, edits |-> edits]

\* Edits alone: two of any kind at once, and updates of which three catch up.
Editing ==
    {Mix({"edit"}, Kinds, start, FALSE, 2, 3) : start \in {"unbuilt", "level"}}
    \cup {Mix({"edit"}, {"update"}, "behind", FALSE, 3, 4)}

\* Rebuilds against new rows and against folds.
Rebuilding ==
    {Mix(ops, Kinds, start, TRUE, 2, 1) :
        ops \in {{"rebuild", "upload"}, {"rebuild", "fold", "prune"}},
        start \in {"unbuilt", "behind"}}

\* Folds against edits, and scans against both.
Folding ==
    {Mix({"edit", "fold", "prune"}, Kinds, "unbuilt", TRUE, 2, 2),
     Mix({"edit", "fold", "prune"}, {"update", "delete"}, "unbuilt", TRUE, 2, 3),
     Mix({"edit", "fold", "scan", "upload"}, {"update"}, "unbuilt", TRUE, 2, 2),
     Mix({"rebuild", "fold", "scan", "upload"}, {"update"}, "behind", TRUE, 2, 1)}

\* One call after another, each of which may stop half-way.
Stopping ==
    {Mix({"edit", "rebuild", "fold", "prune", "upload"}, Kinds, start, TRUE, 1, 2) :
        start \in {"unbuilt", "level"}}

Mixes == Editing \cup Rebuilding \cup Folding \cup Stopping

\* The runs stay within what is proved of the index.
ASSUME MixesAreHonest == \A w \in Mixes : HonestMix(w)

\* Edits against a rebuild of an index that is level with the log.
Overtaking == {Mix({"edit", "rebuild"}, {"update"}, "level", FALSE, 2, 2)}
=============================================================================
