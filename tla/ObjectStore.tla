---------------------------- MODULE ObjectStore ----------------------------
(***************************************************************************)
(* One object type of laurelin/ontology: the rows of its backing dataset,  *)
(* the log of edits made on top of them, and the materialization that lets *)
(* a query skip both (MetadataObjectStore of laurelin/ontology/store.py).  *)
(* A read replays the live edits over the newest version, or answers from  *)
(* the materialization when that can prove it is level with the log.       *)
(*                                                                         *)
(* Editing, rebuilding, folding and pruning are sequences of transactions  *)
(* in any thread of any replica; each action below is one transaction, or  *)
(* reads that follow each other and that nothing can tell apart.           *)
(*                                                                         *)
(* A property value is named by the edit that assigned it, and a value of  *)
(* dataset version v that no edit assigned by -v.                          *)
(***************************************************************************)
EXTENDS Integers, FiniteSets

CONSTANTS
    Keys,           \* primary keys
    Cols,           \* declared properties
    Actors,         \* request threads and build workers
    Workloads,      \* bound: the mixes of calls a behaviour may be made of
    MaxEdits,       \* bound: edits in a behaviour
    MaxVersions     \* bound: versions in a behaviour

Kinds == {"create", "update", "delete"}

\* The operations and the kinds of edit that occur; whether the index is found
\* unbuilt, level or an edit behind; whether a store call may raise and a
\* thread die; how many calls are in flight at once, and the edits in all.
WorkloadRecords ==
    [ops : SUBSET {"edit", "rebuild", "fold", "prune", "scan", "upload"},
     kinds : SUBSET Kinds, start : {"unbuilt", "level", "behind"},
     faults : BOOLEAN, calls : Nat, edits : 0..MaxEdits]

ASSUME BoundsAssumption == MaxEdits \in Nat \ {0} /\ MaxVersions \in Nat \ {0}
ASSUME WorkloadsAssumption == Workloads \subseteq WorkloadRecords

VARIABLES
    workload,   \* the mix of calls of this behaviour, which never changes
    log,        \* object_edits: edit_seq -> row
    versions,   \* the versions of the backing dataset
    index,      \* object_index and its state row, NoIndex when never built
    actor,      \* what each actor is doing (view and live of a scan: history)
    made        \* how many edits were ever committed (history)

vars == <<workload, log, versions, index, actor, made>>

-----------------------------------------------------------------------------
(* Objects, edits, and replay. *)

Gone == << >>

Objects == [Keys -> [Cols -> Int] \cup {Gone}]

Positions == 1..MaxEdits
Edits == [kind : workload.kinds, key : Keys, col : Cols]

\* One edit at position n is an absolute assignment: a create of every
\* property, an update of its own; an update of nothing is nothing.
Edited(object, e, n) ==
    CASE e.kind = "create" -> [c \in Cols |-> n]
      [] e.kind = "delete" -> Gone
      [] e.kind = "update" -> IF object = Gone THEN Gone ELSE [object EXCEPT ![e.col] = n]

Live(edits) == {n \in DOMAIN edits : edits[n].folded = 0}

\* _materialize: the rows, with the live edits replayed in order.
Replay(rows, edits) ==
    LET upto[n \in 0..MaxEdits] ==
            IF n = 0 THEN rows
            ELSE IF n \in Live(edits)
            THEN [upto[n - 1] EXCEPT ![edits[n].key] = Edited(@, edits[n], n)]
            ELSE upto[n - 1]
    IN  upto[MaxEdits]

Latest == Cardinality(DOMAIN versions)
Base == versions[Latest].rows

\* What the object type is: the oracle of every read path.
View == Replay(Base, log)

\* max_edit_seq
MaxSeq == IF DOMAIN log = {} THEN 0 ELSE CHOOSE n \in DOMAIN log : \A m \in DOMAIN log : m <= n

-----------------------------------------------------------------------------
(* The materialization. *)

NoIndex == [version |-> 0]
Built == index # NoIndex

\* _state_is_current: built from the newest version, and level with the log.
Current == Built /\ index.version = Latest /\ index.applied >= MaxSeq

IndexObjects == [k \in Keys |-> index.rows[k].object]

\* ON CONFLICT ... WHERE excluded.applied_seq > object_index.applied_seq; there
\* is no conflict when there is no row, and a DELETE has no WHERE of the kind.
Newer(row, n) == row.object = Gone \/ n > row.at

Delta(row, e, n) ==
    LET object == Edited(row.object, e, n) IN
    IF object = Gone THEN [object |-> Gone, at |-> 0]
    ELSE IF Newer(row, n) THEN [object |-> object, at |-> n] ELSE row

\* _apply_index_delta: the rows, then the watermark.
Applied(e, n) ==
    [version |-> index.version,
     applied |-> IF n > index.applied THEN n ELSE index.applied,
     rows |-> [index.rows EXCEPT ![e.key] = Delta(@, e, n)]]

-----------------------------------------------------------------------------
Idle == [pc |-> "idle"]

\* A log row, of an edit that no fold has taken.
Unfolded(e) == [kind |-> e.kind, key |-> e.key, col |-> e.col, folded |-> 0]

\* The first version holds every object or none.
StoreInit ==
    /\ workload \in Workloads
    /\ \E object \in {Gone, [c \in Cols |-> -1]} :
          versions = [v \in {1} |-> [rows |-> [k \in Keys |-> object], source |-> "upload"]]
    /\ IF workload.start = "behind"
       THEN \E e \in Edits : log = [n \in {1} |-> Unfolded(e)]
       ELSE log = << >>
    /\ index = IF workload.start = "unbuilt" THEN NoIndex
               ELSE [version |-> 1, applied |-> 0,
                     rows |-> [k \in Keys |-> [object |-> versions[1].rows[k], at |-> 0]]]
    /\ actor = [a \in Actors |-> Idle]
    /\ made = MaxSeq

\* An idle thread may make a call of this behaviour's mix.
Calls(a, op) ==
    /\ op \in workload.ops /\ actor[a] = Idle
    /\ Cardinality({b \in Actors : actor[b] # Idle}) < workload.calls

Step(a, record) == actor' = [actor EXCEPT ![a] = record]
Goto(a, pc) == actor' = [actor EXCEPT ![a].pc = pc]

-----------------------------------------------------------------------------
(* apply_action and _commit_edit. *)

\* get: through the index when it is current.
Exists(k) == (IF Current THEN IndexObjects[k] ELSE View[k]) # Gone

\* An update or a delete insists on an object; a create replaces one.
Act(a, e) ==
    /\ Calls(a, "edit")
    /\ made < workload.edits
    /\ e.kind # "create" => Exists(e.key)
    /\ Step(a, [pc |-> "check", edit |-> e])
    /\ UNCHANGED <<workload, log, versions, index, made>>

\* What catch_up owes; a new version is not a delta.
Pending == IF index.version = Latest THEN {n \in Live(log) : n > index.applied} ELSE {}

Owed == [n \in Pending |-> log[n]]

Check(a) ==
    /\ actor[a].pc = "check"
    /\ Step(a, IF ~Built THEN [pc |-> "append", edit |-> actor[a].edit]
               ELSE IF Current THEN [pc |-> "commit", edit |-> actor[a].edit]
               ELSE [pc |-> "catch up", edit |-> actor[a].edit, owed |-> Owed])
    /\ UNCHANGED <<workload, log, versions, index, made>>

First(seqs) == CHOOSE n \in seqs : \A m \in seqs : n <= m

\* The edits are replayed as they were read: a fold may have marked them
\* since, and pruning deleted them.  A store that raises ends the replay.
CatchUp(a) ==
    LET owed == actor[a].owed
        n == First(DOMAIN owed)
        Rest(seqs) == Step(a, [pc |-> "catch up", edit |-> actor[a].edit,
                               owed |-> [m \in seqs |-> owed[m]]])
    IN
    /\ actor[a].pc = "catch up" /\ DOMAIN owed # {}
    /\ \/ Built /\ index' = Applied(owed[n], n) /\ Rest(DOMAIN owed \ {n})
       \/ (Built => workload.faults) /\ UNCHANGED index /\ Rest({})
    /\ UNCHANGED <<workload, log, versions, made>>

Recheck(a) ==
    /\ actor[a].pc = "catch up" /\ DOMAIN actor[a].owed = {}
    /\ Step(a, [pc |-> IF Current THEN "commit" ELSE "append", edit |-> actor[a].edit])
    /\ UNCHANGED <<workload, log, versions, index, made>>

\* _append_edit allocates MAX(edit_seq) + 1.
Logged(e) ==
    [n \in DOMAIN log \cup {MaxSeq + 1} |-> IF n = MaxSeq + 1 THEN Unfolded(e) ELSE log[n]]

\* commit_object_edit: the log row, the index row and the watermark.
Commit(a) ==
    /\ actor[a].pc = "commit" /\ Built
    /\ made < workload.edits
    /\ log' = Logged(actor[a].edit)
    /\ index' = Applied(actor[a].edit, MaxSeq + 1)
    /\ made' = made + 1
    /\ Step(a, Idle)
    /\ UNCHANGED <<workload, versions>>

\* The index was dropped, or the store raised: nothing was logged.
CommitFails(a) ==
    /\ actor[a].pc = "commit" /\ (Built => workload.faults)
    /\ Goto(a, "append")
    /\ UNCHANGED <<workload, log, versions, index, made>>

\* add_object_edit
AppendOnly(a) ==
    /\ actor[a].pc = "append"
    /\ made < workload.edits
    /\ log' = Logged(actor[a].edit)
    /\ made' = made + 1
    /\ Step(a, Idle)
    /\ UNCHANGED <<workload, versions, index>>

-----------------------------------------------------------------------------
(* reindex. *)

\* The version and the watermark are read before the snapshot.
Rebuild == [pc |-> "pin base", version |-> Latest, applied |-> MaxSeq]

StartRebuild(a) ==
    /\ Calls(a, "rebuild")
    /\ Step(a, Rebuild)
    /\ UNCHANGED <<workload, log, versions, index, made>>

PinBase(a) ==
    /\ actor[a].pc = "pin base"
    /\ Step(a, [pc |-> "pin edits", version |-> actor[a].version,
                applied |-> actor[a].applied, rows |-> Base])
    /\ UNCHANGED <<workload, log, versions, index, made>>

\* The position of a row is that of the last live edit of its key.
LastEdit(k) ==
    LET seqs == {n \in Live(log) : log[n].key = k} IN
    IF seqs = {} THEN 0 ELSE CHOOSE n \in seqs : \A m \in seqs : m <= n

Materialized(rows) ==
    LET objects == Replay(rows, log) IN
    [k \in Keys |-> [object |-> objects[k], at |-> IF objects[k] = Gone THEN 0 ELSE LastEdit(k)]]

PinEdits(a) ==
    /\ actor[a].pc = "pin edits"
    /\ Step(a, [pc |-> "replace", version |-> actor[a].version,
                applied |-> actor[a].applied, built |-> Materialized(actor[a].rows)])
    /\ UNCHANGED <<workload, log, versions, index, made>>

\* A mutant: the version is looked up when the rows are swapped in.
LabelledAtTheEnd(r) == Latest

Label(r) == r.version

Replace(a) ==
    /\ actor[a].pc = "replace"
    /\ index' = [version |-> Label(actor[a]), applied |-> actor[a].applied, rows |-> actor[a].built]
    /\ Step(a, Idle)
    /\ UNCHANGED <<workload, log, versions, made>>

\* _refresh_object_indexes after a build: a rebuild that raises drops the index.
RebuildFails(a) ==
    /\ workload.faults /\ actor[a].pc \in {"pin base", "pin edits", "replace"}
    /\ index' = NoIndex
    /\ Step(a, Idle)
    /\ UNCHANGED <<workload, log, versions, made>>

-----------------------------------------------------------------------------
(* writeback. *)

\* T0: the version to build on, and exactly the edits that are folded.
StartFold(a) ==
    /\ Calls(a, "fold")
    /\ Live(log) # {} /\ Latest < MaxVersions
    /\ Step(a, [pc |-> "fold base", version |-> Latest, ids |-> Live(log)])
    /\ UNCHANGED <<workload, log, versions, index, made>>

\* T1: _object_scan reads the newest version ...
FoldBase(a) ==
    /\ actor[a].pc = "fold base"
    /\ Step(a, [pc |-> "fold edits", version |-> actor[a].version, ids |-> actor[a].ids,
                rows |-> Base])
    /\ UNCHANGED <<workload, log, versions, index, made>>

\* ... and then the overlay.
FoldEdits(a) ==
    /\ actor[a].pc = "fold edits"
    /\ Step(a, [pc |-> "publish", version |-> actor[a].version, ids |-> actor[a].ids,
                rows |-> Replay(actor[a].rows, log)])
    /\ UNCHANGED <<workload, log, versions, index, made>>

NewVersion(rows, source) ==
    /\ Latest < MaxVersions
    /\ versions' = [v \in 1..(Latest + 1) |->
                      IF v > Latest THEN [rows |-> rows, source |-> source] ELSE versions[v]]

\* expect_version
SameBase(f) == Latest = f.version

\* T2: catalog.write with expect_version.
Publish(a) ==
    /\ actor[a].pc = "publish"
    /\ SameBase(actor[a])
    /\ NewVersion(actor[a].rows, "writeback")
    /\ Step(a, [pc |-> "mark", version |-> Latest + 1, ids |-> actor[a].ids])
    /\ UNCHANGED <<workload, log, index, made>>

StaleBase(a) ==
    /\ actor[a].pc = "publish"
    /\ ~SameBase(actor[a])
    /\ Step(a, Idle)
    /\ UNCHANGED <<workload, log, versions, index, made>>

\* A mutant: every edit that is live by now.
MarkAll(f) == DOMAIN log

\* An explicit list of ids.
ToMark(f) == f.ids

\* T3, and T4: reindex if anything is materialized.
Mark(a) ==
    /\ actor[a].pc = "mark"
    /\ log' = [n \in DOMAIN log |->
                  IF n \in ToMark(actor[a]) /\ log[n].folded = 0
                  THEN [log[n] EXCEPT !.folded = actor[a].version] ELSE log[n]]
    /\ Step(a, IF Built THEN Rebuild ELSE Idle)
    /\ UNCHANGED <<workload, versions, index, made>>

\* The thread dies, or an exception ends the call, between two transactions.
Abandon(a) ==
    /\ workload.faults /\ actor[a] # Idle
    /\ Step(a, Idle)
    /\ UNCHANGED <<workload, log, versions, index, made>>

\* A build, an upload or a sync writes the dataset; the bound is that none
\* does between T2 and T3 of a fold, whose edits it would lose.
Upload ==
    /\ "upload" \in workload.ops
    /\ \A a \in Actors : actor[a].pc # "mark"
    /\ NewVersion([k \in Keys |-> [c \in Cols |-> -(Latest + 1)]], "upload")
    /\ UNCHANGED <<workload, log, index, actor, made>>

-----------------------------------------------------------------------------
(* prune_object_edits. *)

\* _superseding_version: the newest version that is not a fold.
Superseding ==
    LET vs == {v \in DOMAIN versions : versions[v].source # "writeback"} IN
    CHOOSE v \in vs : \A u \in vs : u <= v

\* prune_plan with keep = 0.
Prunable ==
    {n \in DOMAIN log : log[n].folded # 0 /\ log[n].folded >= Superseding /\ n < MaxSeq}

Plan(a) ==
    /\ Calls(a, "prune")
    /\ Prunable # {}
    /\ Step(a, [pc |-> "prune", ids |-> Prunable])
    /\ UNCHANGED <<workload, log, versions, index, made>>

\* folded_at IS NOT NULL AND edit_seq < MAX(edit_seq), with the MAX of the
\* transaction that deletes.
Deleted(a) == {n \in actor[a].ids \cap DOMAIN log : log[n].folded # 0 /\ n < MaxSeq}

Prune(a) ==
    /\ actor[a].pc = "prune"
    /\ log' = [n \in DOMAIN log \ Deleted(a) |-> log[n]]
    /\ Step(a, Idle)
    /\ UNCHANGED <<workload, versions, index, made>>

-----------------------------------------------------------------------------
(* A scan: the newest version, and then the overlay. *)

\* A mutant: the version the index was built from.
IndexedVersion == IF Built THEN versions[index.version].rows ELSE Base

\* _pinned: the latest version.
ScanRows == Base

ScanBase(a) ==
    /\ Calls(a, "scan")
    /\ Step(a, [pc |-> "scan", rows |-> ScanRows, view |-> View, live |-> Live(log)])
    /\ UNCHANGED <<workload, log, versions, index, made>>

ScanEdits(a) ==
    /\ actor[a].pc = "scan"
    /\ Step(a, Idle)
    /\ UNCHANGED <<workload, log, versions, index, made>>

-----------------------------------------------------------------------------
StoreNext ==
    \/ \E a \in Actors :
          \/ \E e \in Edits : Act(a, e)
          \/ Check(a) \/ CatchUp(a) \/ Recheck(a)
          \/ Commit(a) \/ CommitFails(a) \/ AppendOnly(a)
          \/ StartRebuild(a) \/ PinBase(a) \/ PinEdits(a) \/ Replace(a) \/ RebuildFails(a)
          \/ StartFold(a) \/ FoldBase(a) \/ FoldEdits(a) \/ Publish(a) \/ StaleBase(a) \/ Mark(a)
          \/ Plan(a) \/ Prune(a)
          \/ ScanBase(a) \/ ScanEdits(a)
          \/ Abandon(a)
    \/ Upload

StoreSpec == StoreInit /\ [][StoreNext]_vars

-----------------------------------------------------------------------------
(* What is claimed of the store. *)

\* store.py, rules 1 and 2: a store that is behind never answers.  When the
\* index may answer, its objects are the ones a replay of the log gives, so
\* the watermark is never ahead of the rows it certifies.
IndexIsHonest == Current => IndexObjects = View

(* The mixes for which that is so. What makes the watermark pass an edit   *)
(* that the rows lack is an edit that goes to the log alone while another  *)
(* is about to be committed, or a rebuild that swaps in what it read       *)
(* before one was: for that it takes two calls, an edit, and an index.     *)
EditsAlone(w) ==
    /\ w.ops \cap {"rebuild", "fold"} = {} /\ ~w.faults
    /\ w.start = "behind" => ~({"create", "delete"} \subseteq w.kinds)

HonestMix(w) ==
    \/ w.calls <= 1
    \/ "edit" \notin w.ops
    \/ w.start = "unbuilt" /\ "rebuild" \notin w.ops
    \/ EditsAlone(w)

\* Folding and pruning are invisible: the objects change by edits and by new
\* rows only, whatever is folded, abandoned half-way or pruned meanwhile.
Uploads == Cardinality({v \in DOMAIN versions : versions[v].source = "upload"}) - 1

History == INSTANCE ObjectHistory
    WITH objects <- View, edits <- made, generation <- Uploads

ImplementsHistory == History!HistorySpec

\* A fold takes the edits off the overlay after it has put them in the dataset,
\* and uploads come and go: a scan during which the objects did not change
\* still returns them, unless a fold marked an edit while it ran.
UndisturbedScan ==
    \A a \in Actors :
        /\ actor[a].pc = "scan" /\ actor'[a].pc # "scan"
        /\ actor[a].view = View /\ actor[a].live \subseteq Live(log)
        => Replay(actor[a].rows, log) = View

UndisturbedScansAreCorrect == [][UndisturbedScan]_vars
=============================================================================
