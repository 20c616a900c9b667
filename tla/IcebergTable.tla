---------------------------- MODULE IcebergTable ----------------------------
(***************************************************************************)
(* A dataset kept as an Iceberg table (core/iceberg.py, catalog.py): its   *)
(* snapshots and branches live in pyiceberg's catalog, its versions and    *)
(* the path that readers scan in the metadata store, and no transaction    *)
(* spans the two.                                                          *)
(*                                                                         *)
(* pyiceberg is external: a commit swaps the table's metadata provided the *)
(* branch it is for is where the caller loaded it.  Replacing leaves one   *)
(* snapshot here, columns are left out, and other engines write to         *)
(* branches only.                                                          *)
(***************************************************************************)
EXTENDS Naturals, Sequences, FiniteSets

CONSTANTS
    Branches,       \* besides main
    LakeCalls,      \* requests at a time
    MaxSnapshots, MaxLakeCalls      \* bounds

ASSUME IcebergAssumption == {MaxSnapshots, MaxLakeCalls} \subseteq Nat /\ "main" \notin Branches

VARIABLES
    snapshots,      \* Seq of [parent, rows], in the order of the commits
    refs,           \* "main" and branches -> snapshot, 0 if none
    metadata,       \* Seq of where main was: the metadata files
    pointer,        \* the metadata that readers scan, 0 if none yet
    versions,       \* Seq of [snapshot, rows, alone]
    lake,           \* call -> frame
    lakeCalls,      \* begun so far
    adrift          \* history: pointer may be behind, after a death or an overlap

icebergVars == <<snapshots, refs, metadata, pointer, versions, lake, lakeCalls, adrift>>
lakeTable == <<snapshots, refs, metadata>>

NoLakeCall ==
    [pc |-> "idle", mode |-> "none", alone |-> TRUE, base |-> 0, pin |-> 0, rows |-> {},
     metadata |-> 0, snapshot |-> 0, count |-> 0, number |-> 0]
Main == refs["main"]
RowsAt(s) == IF s = 0 THEN {} ELSE snapshots[s].rows

\* The dataset is new, or was Parquet for a version, which pins no snapshot.
IcebergInit ==
    /\ snapshots = <<>> /\ refs = [b \in Branches \cup {"main"} |-> 0]
    /\ metadata = <<>> /\ pointer = 0 /\ adrift = FALSE /\ lakeCalls = 0
    /\ versions \in {<<>>, <<[snapshot |-> 0, rows |-> 1, alone |-> TRUE]>>}
    /\ lake = [c \in LakeCalls |-> NoLakeCall]

\* s and the snapshots on its parent chain.
Lineage(s) ==
    LET chain[n \in 0..Len(snapshots)] ==
            IF n = 0 THEN {} ELSE {n} \cup chain[snapshots[n].parent]
    IN  chain[s]

-----------------------------------------------------------------------------
Enter(c, frame) ==
    /\ lake[c] = NoLakeCall /\ lakeCalls < MaxLakeCalls /\ lakeCalls' = lakeCalls + 1
    /\ lake' = [lake EXCEPT ![c] = frame]

Then(c, frame) == lake' = [lake EXCEPT ![c] = frame]
Conclude(c) == lake' = [lake EXCEPT ![c] = NoLakeCall]

\* A step that others may not have reckoned with.
Crossing(c, frame) ==
    lake' = [d \in LakeCalls |->
                IF d = c THEN frame
                ELSE IF lake[d] = NoLakeCall THEN lake[d]
                ELSE [lake[d] EXCEPT !.alone = FALSE]]

CommitSnapshot(ref, rows) ==
    /\ snapshots' = Append(snapshots, [parent |-> refs[ref], rows |-> rows])
    /\ refs' = [refs EXCEPT ![ref] = Len(snapshots) + 1]
    /\ metadata' = Append(metadata, refs'["main"])

-----------------------------------------------------------------------------
(* write_iceberg and compact. *)

LoadTable(c) == \E mode \in {"append", "replace"} :
    /\ Enter(c, [NoLakeCall EXCEPT !.pc = "commit", !.mode = mode, !.base = Main])
    /\ UNCHANGED <<lakeTable, pointer, versions, adrift>>

\* Every row is read, to be written back as one snapshot.
ReadToCompact(c) ==
    /\ Main # 0 /\ versions # <<>>
    /\ Enter(c, [NoLakeCall EXCEPT !.pc = "load", !.rows = RowsAt(Main)])
    /\ UNCHANGED <<lakeTable, pointer, versions, adrift>>

LoadToCompact(c) ==
    /\ lake[c].pc = "load"
    /\ Then(c, [lake[c] EXCEPT !.pc = "commit", !.mode = "compact", !.base = Main])
    /\ UNCHANGED <<lakeTable, pointer, versions, lakeCalls, adrift>>

\* A batch is named by the snapshot that brought it.
Written(c) ==
    LET batch == {Len(snapshots) + 1} IN
    CASE lake[c].mode = "append" -> RowsAt(Main) \cup batch
      [] lake[c].mode = "replace" -> batch
      [] lake[c].mode = "compact" -> lake[c].rows

\* Another commit on main came first: pyiceberg raises.
Commit(c) ==
    /\ lake[c].pc = "commit"
    /\ IF lake[c].base # Main
       THEN Conclude(c) /\ UNCHANGED lakeTable
       ELSE /\ Len(snapshots) < MaxSnapshots
            /\ CommitSnapshot("main", Written(c))
            /\ Crossing(c, [lake[c] EXCEPT !.pc = "state"])
    /\ UNCHANGED <<pointer, versions, lakeCalls, adrift>>

\* state(): the table as it is by now, which may be another writer's.
ReadTable(c) ==
    /\ lake[c].pc = "state"
    /\ Then(c, [lake[c] EXCEPT !.pc = "point", !.metadata = Len(metadata),
                               !.snapshot = IF lake[c].pin # 0 THEN lake[c].pin ELSE Main,
                               !.count = Cardinality(RowsAt(Main))])
    /\ UNCHANGED <<lakeTable, pointer, versions, lakeCalls, adrift>>

SetSource(c) ==
    /\ lake[c].pc = "point"
    /\ pointer' = lake[c].metadata /\ adrift' = ~lake[c].alone
    /\ IF lake[c].mode = "schema" THEN Conclude(c)
       ELSE Then(c, [lake[c] EXCEPT !.pc = IF lake[c].pin = 0 THEN "number" ELSE "count"])
    /\ UNCHANGED <<lakeTable, versions, lakeCalls>>

\* A merge reads the table again for its rows.
CountRows(c) ==
    /\ lake[c].pc = "count"
    /\ Then(c, [lake[c] EXCEPT !.pc = "number", !.count = Cardinality(RowsAt(Main))])
    /\ UNCHANGED <<lakeTable, pointer, versions, lakeCalls, adrift>>

NextVersion(c) ==
    /\ lake[c].pc = "number"
    /\ Then(c, [lake[c] EXCEPT !.pc = "insert", !.number = Len(versions) + 1])
    /\ UNCHANGED <<lakeTable, pointer, versions, lakeCalls, adrift>>

\* The number was taken meanwhile: the call raises, and its snapshot stays.
AddVersion(c) ==
    /\ lake[c].pc = "insert"
    /\ versions' = IF lake[c].number # Len(versions) + 1 THEN versions
                   ELSE Append(versions, [snapshot |-> lake[c].snapshot, rows |-> lake[c].count,
                                          alone |-> lake[c].alone])
    /\ Conclude(c)
    /\ UNCHANGED <<lakeTable, pointer, lakeCalls, adrift>>

-----------------------------------------------------------------------------
(* Branches, and changes of the schema. *)

\* A version that pins nothing stands for main.
CreateBranch == \E b \in Branches, v \in 0..Len(versions) :
    LET pinned == IF v = 0 THEN 0 ELSE versions[v].snapshot
        base == IF pinned # 0 THEN pinned ELSE Main IN
    /\ refs[b] = 0 /\ base # 0
    /\ lakeCalls < MaxLakeCalls /\ lakeCalls' = lakeCalls + 1
    /\ refs' = [refs EXCEPT ![b] = base] /\ metadata' = Append(metadata, Main)
    /\ UNCHANGED <<snapshots, pointer, versions, lake, adrift>>

DeleteBranch == \E b \in Branches :
    /\ refs[b] # 0
    /\ lakeCalls < MaxLakeCalls /\ lakeCalls' = lakeCalls + 1
    /\ refs' = [refs EXCEPT ![b] = 0] /\ metadata' = Append(metadata, Main)
    /\ UNCHANGED <<snapshots, pointer, versions, lake, adrift>>

\* Another engine appends to a branch.
WriteBranch == \E b \in Branches :
    /\ refs[b] # 0 /\ Len(snapshots) < MaxSnapshots
    /\ CommitSnapshot(b, RowsAt(refs[b]) \cup {Len(snapshots) + 1})
    /\ UNCHANGED <<pointer, versions, lake, lakeCalls, adrift>>

\* A mutant: any branch that is not main merges.
AnyBranch(tip) == TRUE

\* _descends_from: only a fast-forward.
FastForward(tip) == Main \in Lineage(tip)

LoadToMerge(c) == \E b \in Branches :
    /\ refs[b] # 0 /\ Main # 0 /\ FastForward(refs[b])
    /\ Enter(c, [NoLakeCall EXCEPT !.pc = IF refs[b] = Main THEN "state" ELSE "swap",
                                   !.mode = "merge", !.base = Main, !.pin = refs[b]])
    /\ UNCHANGED <<lakeTable, pointer, versions, adrift>>

SwapMain(c) ==
    /\ lake[c].pc = "swap"
    /\ IF lake[c].base # Main
       THEN Conclude(c) /\ UNCHANGED lakeTable
       ELSE /\ refs' = [refs EXCEPT !["main"] = lake[c].pin]
            /\ metadata' = Append(metadata, lake[c].pin)
            /\ Crossing(c, [lake[c] EXCEPT !.pc = "state"])
            /\ UNCHANGED snapshots
    /\ UNCHANGED <<pointer, versions, lakeCalls, adrift>>

EvolveSchema(c) ==
    /\ Main # 0
    /\ Enter(c, [NoLakeCall EXCEPT !.pc = "state", !.mode = "schema"])
    /\ metadata' = Append(metadata, Main)
    /\ UNCHANGED <<snapshots, refs, pointer, versions, adrift>>

\* A query or a commit fails, or the server dies. What is committed stays.
Die(c) ==
    /\ lake[c] # NoLakeCall /\ Conclude(c)
    /\ adrift' = (adrift \/ lake[c].pc \in {"state", "point"})
    /\ UNCHANGED <<lakeTable, pointer, versions, lakeCalls>>

IcebergNext ==
    \/ CreateBranch \/ DeleteBranch \/ WriteBranch
    \/ \E c \in LakeCalls :
        \/ LoadTable(c) \/ ReadToCompact(c) \/ LoadToCompact(c) \/ Commit(c)
        \/ ReadTable(c) \/ SetSource(c) \/ CountRows(c) \/ NextVersion(c) \/ AddVersion(c)
        \/ LoadToMerge(c) \/ SwapMain(c) \/ EvolveSchema(c) \/ Die(c)

IcebergSpec == IcebergInit /\ [][IcebergNext]_icebergVars

-----------------------------------------------------------------------------
Pinned == {v \in DOMAIN versions : versions[v].snapshot # 0}
TrueVersions == {v \in Pinned : versions[v].alone}

(* "A version number and a snapshot id refer to the same point in          *)
(* history": every snapshot that a version pins is still in main's         *)
(* history, merges and compactions notwithstanding, and has the rows its   *)
(* version says; versions come in the order of their snapshots; and when   *)
(* nobody is at work readers scan main as it is.  The last three are said  *)
(* of versions whose call no other writer crossed: no transaction spans    *)
(* the table and the versions.                                             *)
VersionsNameSnapshots ==
    /\ \A v \in Pinned : versions[v].snapshot \in Lineage(Main)
    /\ \A v \in TrueVersions : versions[v].rows = Cardinality(RowsAt(versions[v].snapshot))
    /\ \A v, w \in TrueVersions : v < w => versions[v].snapshot \in Lineage(versions[w].snapshot)
    /\ ~adrift /\ (\A c \in LakeCalls : lake[c] = NoLakeCall) =>
            IF pointer = 0 THEN Main = 0 ELSE metadata[pointer] = Main
=============================================================================
