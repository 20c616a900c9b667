--------------------------- MODULE ObjectOverlay ---------------------------
(***************************************************************************)
(* The four ways laurelin/ontology/service.py computes the objects of a    *)
(* type from dataset rows and edits, in order: replaying the log into a    *)
(* dict (_materialize, "the oracle"), merging an overlay in SQL (_overlay, *)
(* _build_sql), numbering a rebuilt index (_object_ordinals), and keeping  *)
(* that index up to date edit by edit (_rows_for_edit).  Nothing is        *)
(* concurrent here: ObjectStore has the transactions, and takes from this  *)
(* module that the four agree.                                             *)
(*                                                                         *)
(* A value is named by the edit that assigned it, a value of row i of the  *)
(* dataset by -i, and NULL by 0.  A dict is a function on the keys in it.  *)
(***************************************************************************)
EXTENDS Integers, Sequences, FiniteSets

CONSTANTS
    Keys,           \* primary keys
    Cols,           \* declared properties
    MaxRows,        \* bound: rows of the first version
    MaxEdits,       \* bound: edits in a behaviour
    OrdCreatedBase  \* where the ordinals of created objects begin

\* After the ordinals of all rows that a dataset can have.
ASSUME BoundsAssumption ==
    MaxRows \in Nat /\ MaxEdits \in Nat /\ OrdCreatedBase \in Nat
    /\ MaxRows + MaxEdits <= OrdCreatedBase

VARIABLES
    base,       \* the rows of the newest version, in file order
    log,        \* the live edits, in log order
    taken,      \* edit_seq of the newest edit that was folded
    index       \* the materialization: key -> [ord, at, vals]

overlayVars == <<base, log, taken, index>>

Null == 0

-----------------------------------------------------------------------------
(* Edits. *)

Absent == [c \in Cols |-> "absent"]

\* A payload assigns a property, clears it, or says nothing of it.
Edits ==
    [kind : {"create", "update"}, key : Keys, payload : [Cols -> {"new", "null", "absent"}]]
    \cup [kind : {"delete"}, key : Keys, payload : {Absent}]

Payload(e, n) ==
    [c \in {x \in Cols : e.payload[x] # "absent"} |-> IF e.payload[c] = "new" THEN n ELSE Null]

Pad == [c \in Cols |-> Null]

Position(i) == taken + i

CreatedOrd(n) == OrdCreatedBase + n

\* Dicts.
NoDict == [x \in {} |-> Null]
With(dict, k, v) == [x \in DOMAIN dict \cup {k} |-> IF x = k THEN v ELSE dict[x]]
Without(dict, k) == [x \in DOMAIN dict \ {k} |-> dict[x]]
SetDefault(dict, k, v) == IF k \in DOMAIN dict THEN dict ELSE With(dict, k, v)
Over(f, g) == [x \in DOMAIN f \cup DOMAIN g |-> IF x \in DOMAIN f THEN f[x] ELSE g[x]]

\* The fold of f over the live edits and their positions.
OverLog(f(_, _, _), start) ==
    LET upto[i \in 0..Len(log)] == IF i = 0 THEN start ELSE f(upto[i - 1], log[i], Position(i))
    IN  upto[Len(log)]

-----------------------------------------------------------------------------
(* _overlay: the log as four small sets. *)

NoOverlay ==
    [deleted |-> {}, updates |-> NoDict, creates |-> NoDict, ord |-> NoDict, fresh |-> NoDict]

\* A create after a delete is a new object, and a replacement of it still is.
Fresh(o, k) == (k \in DOMAIN o.fresh /\ o.fresh[k]) \/ k \in o.deleted

Create(o, k, payload, n) ==
    [deleted |-> o.deleted \ {k},
     updates |-> Without(o.updates, k),
     creates |-> With(o.creates, k, payload),
     ord     |-> SetDefault(o.ord, k, CreatedOrd(n)),
     fresh   |-> With(o.fresh, k, Fresh(o, k))]

Update(o, k, payload) ==
    IF k \in DOMAIN o.creates
    THEN [o EXCEPT !.creates = With(@, k, Over(payload, @[k]))]
    ELSE [o EXCEPT !.updates =
            With(@, k, IF k \in DOMAIN @ THEN Over(payload, @[k]) ELSE payload)]

Delete(o, k) ==
    [deleted |-> o.deleted \cup {k}, updates |-> Without(o.updates, k),
     creates |-> Without(o.creates, k), ord |-> Without(o.ord, k), fresh |-> Without(o.fresh, k)]

OverlayEdit(o, e, n) ==
    CASE e.kind = "create" -> Create(o, e.key, Payload(e, n), n)
      [] e.kind = "update" -> Update(o, e.key, Payload(e, n))
      [] e.kind = "delete" -> Delete(o, e.key)

Overlay == OverLog(OverlayEdit, NoOverlay)

-----------------------------------------------------------------------------
(* _build_sql: the overlay merged with the rows. *)

BaseKeys == {base[i].key : i \in DOMAIN base}

\* The row of a key; of several, the last one in the file would count.
LastRow(k) == CHOOSE i \in DOMAIN base : base[i].key = k

\* A mutant: COALESCE, which takes a NULL for no assignment.
Coalesced(payload, vals) ==
    Over([c \in {x \in DOMAIN payload : payload[x] # Null} |-> payload[c]], vals)

\* CASE WHEN u.__set__c THEN u.c ELSE b.c END
Merge(payload, vals) == Over(payload, vals)

\* __merged: the rows that are not deleted, updated in place.
Merged(o) ==
    [k \in BaseKeys \ o.deleted |->
        LET i == LastRow(k) IN
        [key |-> k, ord |-> i, rest |-> base[i].rest,
         vals |-> IF k \in DOMAIN o.updates THEN Merge(o.updates[k], base[i].vals)
                                            ELSE base[i].vals]]

\* A replacement keeps the columns no property is declared for.
Inherited(o, k, merged) ==
    IF o.fresh[k] \/ k \notin DOMAIN merged THEN Null ELSE merged[k].rest

Created(o, k, merged) ==
    [key |-> k, vals |-> Over(o.creates[k], Pad), rest |-> Inherited(o, k, merged),
     ord |-> IF o.fresh[k] \/ k \notin DOMAIN merged THEN o.ord[k] ELSE merged[k].ord]

\* ORDER BY
ByOrd(rows) ==
    CHOOSE list \in [1..Cardinality(rows) -> rows] :
        /\ {list[i] : i \in DOMAIN list} = rows
        /\ \A i, j \in DOMAIN list : i < j => list[i].ord < list[j].ord

Pushdown ==
    LET o == Overlay
        merged == Merged(o)
        created == DOMAIN o.creates IN
    ByOrd({Created(o, k, merged) : k \in created}
          \cup {merged[k] : k \in DOMAIN merged \ created})

-----------------------------------------------------------------------------
(* _materialize: a dict keeps the position a key was first put at. *)

Put(d, k, row) ==
    [order |-> IF k \in DOMAIN d.rows THEN d.order ELSE Append(d.order, k),
     rows |-> With(d.rows, k, row)]

Pop(d, k) ==
    LET at == CHOOSE i \in DOMAIN d.order : d.order[i] = k IN
    IF k \notin DOMAIN d.rows THEN d
    ELSE [order |-> [i \in 1..(Len(d.order) - 1) |-> d.order[IF i < at THEN i ELSE i + 1]],
          rows |-> Without(d.rows, k)]

BaseDict ==
    LET upto[i \in 0..Len(base)] ==
            IF i = 0 THEN [order |-> << >>, rows |-> NoDict]
            ELSE Put(upto[i - 1], base[i].key, base[i].vals)
    IN  upto[Len(base)]

\* A create that a later delete undoes is skipped (admitted).
ReplayEdit(admitted, d, e, n) ==
    CASE e.kind = "create" ->
            IF e.key \notin DOMAIN admitted THEN d
            ELSE Put(d, e.key, Over(admitted[e.key], Over(Payload(e, n), Pad)))
      [] e.kind = "update" ->
            IF e.key \notin DOMAIN d.rows THEN d
            ELSE Put(d, e.key, Over(Payload(e, n), d.rows[e.key]))
      [] e.kind = "delete" -> Pop(d, e.key)

Materialized ==
    LET admitted == Overlay.creates IN
    OverLog(LAMBDA d, e, n : ReplayEdit(admitted, d, e, n), BaseDict)

-----------------------------------------------------------------------------
(* The materialization, rebuilt and incremental. *)

\* _object_ordinals: the position a key pages at, and its last edit.
BaseOrdinals == [k \in BaseKeys |-> LastRow(k)]

OrdinalEdit(d, e, n) ==
    CASE e.kind = "create" -> [ord |-> SetDefault(d.ord, e.key, CreatedOrd(n)), at |-> With(d.at, e.key, n)]
      [] e.kind = "update" -> [d EXCEPT !.at = With(@, e.key, n)]
      [] e.kind = "delete" -> [ord |-> Without(d.ord, e.key), at |-> Without(d.at, e.key)]

Ordinals == OverLog(OrdinalEdit, [ord |-> BaseOrdinals, at |-> NoDict])

\* reindex
Rebuilt ==
    LET rows == Materialized.rows
        o == Ordinals IN
    [k \in DOMAIN rows |->
        [ord |-> o.ord[k], at |-> IF k \in DOMAIN o.at THEN o.at[k] ELSE 0, vals |-> rows[k]]]

\* A create of a key that is there replaces it in place.
Ordinal(k, n) == IF k \in DOMAIN index THEN index[k].ord ELSE CreatedOrd(n)

\* _rows_for_edit, written by _apply_index_delta.
Incremented(e, n) ==
    LET k == e.key IN
    CASE e.kind = "delete" -> Without(index, k)
      [] e.kind = "create" ->
            With(index, k, [ord |-> Ordinal(k, n), at |-> n, vals |-> Over(Payload(e, n), Pad)])
      [] e.kind = "update" ->
            IF k \notin DOMAIN index THEN index
            ELSE With(index, k, [ord |-> index[k].ord, at |-> n,
                                 vals |-> Over(Payload(e, n), index[k].vals)])

-----------------------------------------------------------------------------
Row(k, i) == [key |-> k, vals |-> [c \in Cols |-> -i], rest |-> -i]

\* The first version is any rows whose keys differ.
OverlayInit ==
    /\ \E m \in 0..MaxRows : \E ks \in [1..m -> Keys] :
          /\ \A i, j \in 1..m : ks[i] = ks[j] => i = j
          /\ base = [i \in 1..m |-> Row(ks[i], i)]
    /\ log = << >> /\ taken = 0
    /\ index = [k \in BaseKeys |-> [ord |-> LastRow(k), at |-> 0, vals |-> base[LastRow(k)].vals]]

Edit(e) ==
    /\ taken + Len(log) < MaxEdits
    /\ log' = Append(log, e)
    /\ index' = Incremented(e, taken + Len(log) + 1)
    /\ UNCHANGED <<base, taken>>

\* writeback, with every column of the dataset, and the rebuild after it.
\* _refuse_duplicate_keys has nothing to refuse here.
Fold ==
    /\ log # << >>
    /\ LET rows == Pushdown IN
          /\ base' = [i \in DOMAIN rows |->
                        [key |-> rows[i].key, vals |-> rows[i].vals, rest |-> rows[i].rest]]
          /\ index' = [k \in {rows[i].key : i \in DOMAIN rows} |->
                        LET i == CHOOSE j \in DOMAIN rows : rows[j].key = k IN
                        [ord |-> i, at |-> 0, vals |-> rows[i].vals]]
    /\ taken' = taken + Len(log)
    /\ log' = << >>

OverlayNext == (\E e \in Edits : Edit(e)) \/ Fold

OverlaySpec == OverlayInit /\ [][OverlayNext]_overlayVars

-----------------------------------------------------------------------------
(* What is claimed of the four paths. *)

Replayed ==
    LET d == Materialized IN [i \in DOMAIN d.order |-> <<d.order[i], d.rows[d.order[i]]>>]

\* _sql_query: "Semantics match _materialize".  The merge in SQL pages through
\* the objects a replay of the log gives, in the same order.
PushdownIsReplay ==
    LET rows == Pushdown IN [i \in DOMAIN rows |-> <<rows[i].key, rows[i].vals>>] = Replayed

\* The index that edits maintain is the one a rebuild would write, positions,
\* ordinals and all (so the digests agree), and it pages like the replay.
IndexIsReplay ==
    /\ index = Rebuilt
    /\ LET page == ByOrd({[key |-> k, ord |-> index[k].ord] : k \in DOMAIN index})
           order == Materialized.order IN
       [i \in DOMAIN page |-> page[i].key] = order

\* Columns of the dataset that no property is declared for survive every edit
\* and every fold: an object shows the row's, replaced or not, until an edit
\* deletes it, and an object that was deleted and created again shows none.
UndeclaredSurvives ==
    LET rows == Pushdown IN
    \A i \in DOMAIN rows :
       LET k == rows[i].key
           deleted == \E j \in DOMAIN log : log[j].kind = "delete" /\ log[j].key = k IN
       rows[i].rest = IF k \in BaseKeys /\ ~deleted THEN base[LastRow(k)].rest ELSE Null

\* "Semantics match _materialize", said of each of the other three: whatever
\* edits came, the four implementations give one set of objects in one order.
ImplementationsAgree == PushdownIsReplay /\ IndexIsReplay /\ UndeclaredSurvives
=============================================================================
