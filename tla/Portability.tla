---------------------------- MODULE Portability ----------------------------
(***************************************************************************)
(* Export and import of a workspace (export/writer.py, export/reader.py,   *)
(* the routes of export_routes.py): one managed dataset with its markings, *)
(* and the pipeline files.                                                 *)
(*                                                                         *)
(* An export is no snapshot: the parts are planned, then every table is    *)
(* read by a statement of its own, then the parts are streamed, while the  *)
(* source goes on. An import checks the archive and the target, and then   *)
(* writes rows (in a transaction), parts, the gate in front of imported    *)
(* pipelines and the files; it commits last, and undoes what it wrote when *)
(* a step fails. The process may die anywhere. Imports come one at a time. *)
(***************************************************************************)
EXTENDS Integers, Sequences, FiniteSets

CONSTANTS
    Marks,          \* markings
    Files,          \* names of pipeline files, as numbers: they land in their order
    MaxParts,       \* bound on the part files the source writes
    MaxMarkings,    \* bound on the changes of markings
    MaxImports      \* bound on the imports

ASSUME PortabilityAssumption ==
    MaxParts \in Nat /\ MaxMarkings \in Nat /\ MaxImports \in Nat /\ Files \subseteq Nat

VARIABLES
    versions,   \* of the dataset, at the source: the parts of each
    needs,      \* history: the markings there were when the version was committed, less those
                \* an administrator has since taken off
    marks,      \* the dataset's markings, at the source
    parts,      \* part files written so far: their keys are <<1, 0>>, <<2, 0>>, ...
    markings,   \* changes of markings so far
    export,     \* the export in progress, or the archive it wrote
    own,        \* parts the target had before, under the same keys
    storage,    \* key -> whose part it is
    files,      \* name -> 0, or the import that landed it, or Own
    gate,       \* the import state file
    import,     \* the import in progress
    imports,    \* imports begun so far
    imported,   \* import -> what it committed
    admitted    \* history: the imports an acknowledgement came after the beginning of

portabilityVars == <<versions, needs, marks, parts, markings, export, own, storage, files,
                     gate, import, imports, imported, admitted>>
sourceVars == <<versions, needs, marks, parts, markings>>
targetVars == <<own, storage, files, gate, import, imports, imported, admitted>>

Own == -1
Keys == (1..MaxParts) \X (0..MaxImports)
Nothing == [data |-> FALSE, keys |-> {}, versions |-> 0, marks |-> {}]
NoExport == [pc |-> "idle", planned |-> {}, tables |-> 0, versions |-> <<>>, marks |-> {}]
NoImport == [pc |-> "idle", rows |-> Nothing, arriving |-> {}, skipped |-> {},
             written |-> {}, landed |-> {}, backup |-> "none"]

PortabilityInit ==
    /\ versions = <<>> /\ needs = <<>> /\ marks = {} /\ parts = 0 /\ markings = 0
    /\ export = NoExport
    /\ own \in SUBSET (1..MaxParts)
    /\ storage = [k \in Keys |-> IF k[2] = 0 /\ k[1] \in own THEN "own" ELSE "none"]
    /\ files = [f \in Files |-> 0]
    /\ gate = "absent"
    /\ import = NoImport /\ imports = 0
    /\ imported = [n \in 1..MaxImports |-> Nothing]
    /\ admitted = {}

-----------------------------------------------------------------------------
(* The source goes on. *)

\* A write has one new part; an append has those of the version before too.
CommitVersion == \E append \in BOOLEAN :
    /\ parts < MaxParts /\ parts' = parts + 1
    /\ versions' = Append(versions,
            {parts + 1} \cup IF append /\ versions # <<>> THEN versions[Len(versions)] ELSE {})
    /\ needs' = Append(needs, marks)
    /\ UNCHANGED <<marks, markings, export, targetVars>>

Mark == \E m \in Marks \ marks :
    /\ markings < MaxMarkings /\ markings' = markings + 1
    /\ marks' = marks \cup {m}
    /\ UNCHANGED <<versions, needs, parts, export, targetVars>>

Unmark == \E m \in marks :
    /\ markings < MaxMarkings /\ markings' = markings + 1
    /\ marks' = marks \ {m}
    /\ needs' = [v \in DOMAIN needs |-> needs[v] \ {m}]
    /\ UNCHANGED <<versions, parts, export, targetVars>>

-----------------------------------------------------------------------------
(* Export. *)

PartsOf(vs) == UNION {vs[v] : v \in DOMAIN vs}

\* The order of the tables that matter here.
ExportedTables == <<"dataset_versions", "dataset_markings">>

\* The parts of every version there is; an export of metadata has none.
Plan == \E metadataOnly \in BOOLEAN :
    /\ export.pc = "idle"
    /\ export' = [NoExport EXCEPT !.pc = "tables",
                                  !.planned = IF metadataOnly THEN {} ELSE PartsOf(versions)]
    /\ UNCHANGED <<sourceVars, targetVars>>

ReadTable ==
    /\ export.pc = "tables" /\ export.tables < Len(ExportedTables)
    /\ export' = IF ExportedTables[export.tables + 1] = "dataset_versions"
                 THEN [export EXCEPT !.tables = @ + 1, !.versions = versions]
                 ELSE [export EXCEPT !.tables = @ + 1, !.marks = marks]
    /\ UNCHANGED <<sourceVars, targetVars>>

\* The parts are streamed and the trailer closes the archive.
CloseArchive ==
    /\ export.pc = "tables" /\ export.tables = Len(ExportedTables)
    /\ export' = [export EXCEPT !.pc = "archive"]
    /\ UNCHANGED <<sourceVars, targetVars>>

\* Without its trailer an archive is refused: it may as well not be there.
Truncate ==
    /\ export.pc = "tables" /\ export' = NoExport
    /\ UNCHANGED <<sourceVars, targetVars>>

Discard ==
    /\ export.pc = "archive" /\ import.pc = "idle" /\ export' = NoExport
    /\ UNCHANGED <<sourceVars, targetVars>>

-----------------------------------------------------------------------------
(* Import. *)

\* A mutant: an arriving part keeps its key.
KeysVerbatim == {}

\* The arriving parts whose key the target uses already get a new one.
Relocated == {p \in export.planned : storage[<<p, 0>>] # "none"}

\* Whether all the parts arrive, of all the versions that do.
DataIncluded(metadataOnly) == ~metadataOnly /\ PartsOf(export.versions) \subseteq export.planned

KeyOf(p, moved) == <<p, IF p \in moved THEN imports + 1 ELSE 0>>

\* What the archive has under its digest: none of the data when it is asked not to.
Arriving(metadataOnly, moved) ==
    IF metadataOnly THEN {} ELSE {KeyOf(p, moved) : p \in export.planned}

\* The rows of the transaction, with the keys they will name.
ArrivingRows(metadataOnly, moved) ==
    [data |-> DataIncluded(metadataOnly),
     keys |-> {KeyOf(p, moved) : p \in PartsOf(export.versions)},
     versions |-> Len(export.versions), marks |-> export.marks]

\* The archive's own files, left by another import, are there already.
Skipped == {f \in Files : files[f] # 0}

\* Everything that is looked at before anything is written. A file of the same
\* name with other contents is a refusal.
Inspect == \E metadataOnly \in BOOLEAN :
    LET moved == IF metadataOnly THEN {} ELSE Relocated
    IN /\ export.pc = "archive" /\ import.pc = "idle"
       /\ imports < MaxImports /\ imports' = imports + 1
       /\ \A f \in Files : files[f] # Own
       /\ import' = [NoImport EXCEPT !.pc = "parts", !.skipped = Skipped,
                                     !.rows = ArrivingRows(metadataOnly, moved),
                                     !.arriving = Arriving(metadataOnly, moved)]
       /\ UNCHANGED <<sourceVars, export, own, storage, files, gate, imported, admitted>>

First(names) == CHOOSE n \in names : \A o \in names : n <= o
FirstKey(keys) == CHOOSE k \in keys : \A o \in keys : k[1] <= o[1]

\* The parts of the archive, each under its key.
WritePart == LET k == FirstKey(import.arriving \ import.written) IN
    /\ import.pc = "parts" /\ import.written # import.arriving
    /\ storage' = [storage EXCEPT ![k] = "imported"]
    /\ import' = [import EXCEPT !.written = @ \cup {k}]
    /\ UNCHANGED <<sourceVars, export, own, files, gate, imports, imported, admitted>>

ShutGate ==
    /\ import.pc = "parts" /\ import.written = import.arriving
    /\ gate' = "shut"
    /\ import' = [import EXCEPT !.pc = "check", !.backup = gate]
    /\ UNCHANGED <<sourceVars, export, own, storage, files, imports, imported, admitted>>

\* The second look, for a file the target has had since the first.
CheckFiles ==
    /\ import.pc = "check"
    /\ \A f \in Files \ import.skipped : files[f] = 0
    /\ import' = [import EXCEPT !.pc = "land"]
    /\ UNCHANGED <<sourceVars, export, own, storage, files, gate, imports, imported, admitted>>

LandFile == LET f == First(Files \ (import.skipped \cup import.landed)) IN
    /\ import.pc = "land" /\ import.landed # Files \ import.skipped
    /\ files' = [files EXCEPT ![f] = imports]
    /\ import' = [import EXCEPT !.landed = @ \cup {f}]
    /\ UNCHANGED <<sourceVars, export, own, storage, gate, imports, imported, admitted>>

Commit ==
    /\ import.pc = "land" /\ import.landed = Files \ import.skipped
    /\ imported' = [imported EXCEPT ![imports] = import.rows]
    /\ import' = NoImport
    /\ UNCHANGED <<sourceVars, export, own, storage, files, gate, imports, admitted>>

-----------------------------------------------------------------------------
(* A step fails; the process dies. *)

\* The transaction is rolled back, and the rest is undone.
Fail ==
    /\ import.pc \in {"parts", "check", "land"}
    /\ import' = [import EXCEPT !.pc = "undo"]
    /\ UNCHANGED <<sourceVars, export, own, storage, files, gate, imports, imported, admitted>>

UndoPart == LET k == FirstKey(import.written) IN
    /\ import.pc = "undo" /\ import.written # {}
    /\ storage' = [storage EXCEPT ![k] = "none"]
    /\ import' = [import EXCEPT !.written = @ \ {k}]
    /\ UNCHANGED <<sourceVars, export, own, files, gate, imports, imported, admitted>>

UndoFile == LET f == First(import.landed) IN
    /\ import.pc = "undo" /\ import.written = {} /\ import.landed # {}
    /\ files' = [files EXCEPT ![f] = 0]
    /\ import' = [import EXCEPT !.landed = @ \ {f}]
    /\ UNCHANGED <<sourceVars, export, own, storage, gate, imports, imported, admitted>>

\* A mutant: the gate comes off before the files.
RightAway == import.written = {}

AllUndone == import.written = {} /\ import.landed = {}

\* The gate comes off last.
UndoGate ==
    /\ import.pc = "undo" /\ AllUndone
    /\ gate' = IF import.backup = "none" THEN gate ELSE import.backup
    /\ import' = NoImport
    /\ UNCHANGED <<sourceVars, export, own, storage, files, imports, imported, admitted>>

Die ==
    /\ import.pc # "idle"
    /\ import' = NoImport
    /\ UNCHANGED <<sourceVars, export, own, storage, files, gate, imports, imported, admitted>>

-----------------------------------------------------------------------------
(* The target goes on. *)

SavePipeline == \E f \in Files :
    /\ files[f] = 0 /\ files' = [files EXCEPT ![f] = Own]
    /\ UNCHANGED <<sourceVars, export, own, storage, gate, import, imports, imported, admitted>>

AcknowledgePipelines ==
    /\ gate = "shut" /\ gate' = "acknowledged"
    /\ admitted' = 1..imports
    /\ UNCHANGED <<sourceVars, export, own, storage, files, import, imports, imported>>

PortabilityNext ==
    \/ CommitVersion \/ Mark \/ Unmark
    \/ Plan \/ ReadTable \/ CloseArchive \/ Truncate \/ Discard
    \/ Inspect \/ WritePart \/ ShutGate \/ CheckFiles \/ LandFile \/ Commit
    \/ Fail \/ UndoPart \/ UndoFile \/ UndoGate \/ Die
    \/ SavePipeline \/ AcknowledgePipelines

PortabilitySpec == PortabilityInit /\ [][PortabilityNext]_portabilityVars

-----------------------------------------------------------------------------
(* A dataset an import registered as readable has all its parts, whatever  *)
(* the source committed during the export and whatever failed before. The  *)
(* parts the target had are still its own, also when the archive names the *)
(* same keys and the import fails: the reader calls both measured defects. *)
NothingDangles ==
    /\ \A n \in 1..MaxImports :
          imported[n].data => \A k \in imported[n].keys : storage[k] = "imported"
    /\ \A p \in own : storage[<<p, 0>>] = "own"

(* A pipeline file that an import has landed, finished or not, undone by   *)
(* half or left by a process that died, waits behind the gate for an       *)
(* acknowledgement: one no older than the import.                          *)
ImportedCodeWaits ==
    \A f \in Files : files[f] \in (1..MaxImports) \ admitted => gate = "shut"

(* Versions do not travel without the markings the dataset had when they   *)
(* were committed, though both are read while they change: only an         *)
(* administrator's own removal of a marking takes it off.                  *)
TravelsWithItsMarkings ==
    /\ export.pc = "archive" =>
          \A v \in DOMAIN export.versions : needs[v] \subseteq export.marks
    /\ \A n \in 1..MaxImports : \A v \in 1..imported[n].versions :
          needs[v] \subseteq imported[n].marks

(* What arrives is whole: the rows with their parts, and their markings.   *)
ArrivesWhole == NothingDangles /\ TravelsWithItsMarkings

\* An import that is over or interrupted has left nothing half done that a
\* reader, a listing of transforms or a policy would trip over.
ImportsHold == ArrivesWhole /\ ImportedCodeWaits
=============================================================================
