--------------------------- MODULE ObjectHistory ---------------------------
(***************************************************************************)
(* What an object type promises its readers, with the edit log, the folds  *)
(* and the pruning left out: objects that change when somebody edits one,  *)
(* or when new rows replace the dataset they come from.  ObjectStore       *)
(* implements it.                                                          *)
(***************************************************************************)
EXTENDS Integers

CONSTANTS
    Keys,           \* primary keys
    Cols            \* declared properties

VARIABLES
    objects,        \* key -> the object, Gone when there is none
    edits,          \* how many edits have been made
    generation      \* how often the rows underneath were replaced

Gone == << >>

\* An object names, for each property, the edit that assigned it.
Objects == [Keys -> [Cols -> Int] \cup {Gone}]

\* The history may be joined anywhere.
HistoryInit == objects \in Objects /\ edits \in Nat /\ generation \in Nat

Create(k, n) == objects' = [objects EXCEPT ![k] = [c \in Cols |-> n]]

Delete(k) == objects' = [objects EXCEPT ![k] = Gone]

\* An update of an object that somebody has just deleted does nothing.
Update(k, c, n) ==
    objects' = [objects EXCEPT ![k] = IF @ = Gone THEN Gone ELSE [@ EXCEPT ![c] = n]]

Edit ==
    /\ edits' = edits + 1
    /\ \E k \in Keys :
          \/ Create(k, edits') \/ Delete(k)
          \/ \E c \in Cols : Update(k, c, edits')
    /\ UNCHANGED generation

NewRows ==
    /\ generation' = generation + 1
    /\ objects' \in Objects
    /\ UNCHANGED edits

HistoryNext == Edit \/ NewRows

HistorySpec == HistoryInit /\ [][HistoryNext]_<<objects, edits, generation>>
=============================================================================
