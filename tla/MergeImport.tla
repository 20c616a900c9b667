---------------------------- MODULE MergeImport ----------------------------
(***************************************************************************)
(* An import into a workspace that is not empty (export/reader.py,         *)
(* `laurelin import --merge`). A first call reports what the archive and   *)
(* the target disagree about and writes nothing; a second one has to quote *)
(* the digest of that report, reports again, and applies.                  *)
(*                                                                         *)
(* A workspace is its tables and files:                                    *)
(*   datasets   the catalog            granted    dataset -> grants        *)
(*   described  marking -> description explicit   dataset -> markings      *)
(*   lineage    upstream, downstream   typed      object type -> grants    *)
(*   authored   names of dashboards, schedules, sources...                 *)
(*   declares   ontology file -> the object type and the text in it        *)
(*   review     second-approver mode                                       *)
(* The grants of a dataset stand for its row policy and its versions too.  *)
(* There may be grants for object types that no file declares any more,    *)
(* and for outputs of transforms that no build has written yet.            *)
(***************************************************************************)
EXTENDS Naturals, FiniteSets, Functions

CONSTANTS
    DatasetNames,   \* at the source and at the target
    Prefixed,       \* dataset -> its name under --rename-prefix
    MarkingNames,
    Namespaced,     \* marking -> <name>.<slug of the origin>
    Descriptions,   \* of markings
    TypeNames,
    FileNames,      \* in ontology/
    Archives,       \* what there is to import
    Targets,        \* what there is to import it into
    MaxEdits        \* bound on the changes of the target between report and apply

VARIABLES
    archive, target,
    prefixed,       \* --rename-prefix is given
    report,         \* the report the operator has read
    merge,          \* "idle", "refused" or "applied"
    before,         \* history: the target the import was applied to
    edits           \* changes of the target so far

mergeVars == <<archive, target, prefixed, report, merge, before, edits>>

Lines == INSTANCE Lineage WITH Datasets <- DatasetNames

\* What get_enforced_markings answers once the markings are propagated.
Effective(w) == Lines!Propagate(w.lineage, w.explicit)

DeclaredTypes(w) == {w.declares[f].type : f \in DOMAIN w.declares}

NoReport == [datasets |-> <<>>, markings |-> <<>>, reused |-> {}, refusals |-> {},
             skipped |-> {}, counts |-> <<>>]

\* What f has, and what g has besides.
Besides(f, g) == [x \in DOMAIN f \cup DOMAIN g |-> IF x \in DOMAIN f THEN f[x] ELSE g[x]]

Renamed(renames, name) == IF name \in DOMAIN renames THEN renames[name] ELSE name

-----------------------------------------------------------------------------
(* The workspaces there are. *)

\* Nothing is derived, however indirectly, from itself.
Acyclic(edges) ==
    \A S \in SUBSET DatasetNames :
        S # {} => \E d \in S : \A u \in S : <<u, d>> \notin edges

WorkspaceTables == {"datasets", "described", "explicit", "lineage", "granted", "typed", "authored",
           "declares", "review"}

\* Markings are of what is there, edges are recorded once both ends are there and
\* have no cycle (Lineage), and the ontology loads: no type is declared twice.
Coherent(w) ==
    /\ DOMAIN w = WorkspaceTables
    /\ w.datasets \in SUBSET DatasetNames
    /\ DOMAIN w.described \in SUBSET MarkingNames
    /\ w.explicit \in [DatasetNames -> SUBSET DOMAIN w.described]
    /\ \A d \in DatasetNames \ w.datasets : w.explicit[d] = {}
    /\ w.lineage \subseteq w.datasets \X w.datasets /\ Acyclic(w.lineage)
    /\ IsFiniteSet(DOMAIN w.declares)
    /\ \A f \in DOMAIN w.declares : w.declares[f].type \in TypeNames
    /\ \A f, g \in DOMAIN w.declares : w.declares[f].type = w.declares[g].type => f = g

ASSUME MergeAssumption ==
    /\ MaxEdits \in Nat
    /\ Prefixed \in [DatasetNames -> DatasetNames]
    /\ Namespaced \in [MarkingNames -> MarkingNames]
    /\ \A w \in Archives \cup Targets : Coherent(w)

\* What is granted before it is in the catalog (set_dataset_permissions).
Ahead(w) == {d \in DatasetNames \ w.datasets : w.granted[d] # {}}

-----------------------------------------------------------------------------
(* The report. *)

DatasetRenames(w, t, prefix) ==
    IF prefix THEN Restrict(Prefixed, w.datasets \cap t.datasets) ELSE <<>>

\* A mutant: one name is one marking.
ReusedByName(w, t) == DOMAIN w.described \cap DOMAIN t.described

\* One name with one description is one marking, and is reused.
Reused(w, t) ==
    {m \in DOMAIN w.described \cap DOMAIN t.described : w.described[m] = t.described[m]}

\* The same word for another classification gets a name of its own.
MarkingRenames(w, t) ==
    Restrict(Namespaced, (DOMAIN w.described \cap DOMAIN t.described) \ Reused(w, t))

\* Versions and policies land under the new name, and must find it free.
DatasetRefusals(w, t, renames) == {Renamed(renames, d) : d \in w.datasets} \cap t.datasets

\* Grants for a type that the target declares, or grants too.
TypeGrantRefusals(w, t) ==
    {o \in TypeNames : w.typed[o] # {} /\ (o \in DeclaredTypes(t) \/ t.typed[o] # {})}

\* A file with the bytes of the target's own does not land.
SkippedFiles(w, t) ==
    {f \in DOMAIN w.declares \cap DOMAIN t.declares : w.declares[f] = t.declares[f]}

Landing(w, t) == DOMAIN w.declares \ SkippedFiles(w, t)

\* No file is overwritten, and no type declared twice.
FileRefusals(w, t) ==
    (Landing(w, t) \cap DOMAIN t.declares)
    \cup ({w.declares[f].type : f \in Landing(w, t)} \cap DeclaredTypes(t))

\* The rows of the tables target_is_pristine counts are in the report too.
Counts(t) ==
    <<Cardinality(t.datasets), Cardinality(DOMAIN t.described), Cardinality(t.authored),
      Cardinality({d \in DatasetNames : t.granted[d] # {}}),
      Cardinality({o \in TypeNames : t.typed[o] # {}})>>

\* _collisions, and what else the digest covers.
MergeReport(w, t, prefix) ==
    LET datasets == DatasetRenames(w, t, prefix)
    IN  [datasets |-> datasets, markings |-> MarkingRenames(w, t), reused |-> Reused(w, t),
         refusals |-> DatasetRefusals(w, t, datasets) \cup TypeGrantRefusals(w, t)
                      \cup FileRefusals(w, t) \cup (w.authored \cap t.authored),
         skipped |-> SkippedFiles(w, t), counts |-> Counts(t)]

-----------------------------------------------------------------------------
(* The rows and files that land. *)

\* A row is left out when the name it will have is reused.
NewMarkings(w, r) == {m \in DOMAIN w.described : Renamed(r.markings, m) \notin r.reused}

\* A key that is taken, by the target or by another row of the archive.
KeyTaken(w, t, r) ==
    LET name(m) == Renamed(r.markings, m)
    IN  \/ \E m \in NewMarkings(w, r) : name(m) \in DOMAIN t.described
        \/ \E m \in NewMarkings(w, r) : \E n \in NewMarkings(w, r) \ {m} : name(m) = name(n)
        \/ \E d \in w.datasets : Renamed(r.datasets, d) \in t.datasets
        \/ \E d \in w.datasets : \E e \in w.datasets \ {d} :
              Renamed(r.datasets, d) = Renamed(r.datasets, e)

\* ImportedEdges keep joining the datasets they joined.
ImportedEdges(w, r) == {<<Renamed(r.datasets, e[1]), Renamed(r.datasets, e[2])>> : e \in w.lineage}

\* The markings of the archive's datasets, both under the names they get.
ImportedMarkings(w, r, d) ==
    UNION {{Renamed(r.markings, m) : m \in w.explicit[e]} :
             e \in {x \in w.datasets : Renamed(r.datasets, x) = d}}

\* No key of theirs is taken: they join those the target has for the name.
ImportedGrants(w, r, d) ==
    UNION {w.granted[e] : e \in {x \in DatasetNames : Renamed(r.datasets, x) = d}}

Described(w, t, r) ==
    LET names == {Renamed(r.markings, m) : m \in NewMarkings(w, r)}
        from(n) == CHOOSE m \in NewMarkings(w, r) : Renamed(r.markings, m) = n
    IN  [n \in DOMAIN t.described \cup names |->
           IF n \in names THEN w.described[from(n)] ELSE t.described[n]]

\* _write_tables and _land_files; no account, membership or clearance is
\* among the rows.
Merged(w, t, r) ==
    [datasets |-> t.datasets \cup {Renamed(r.datasets, d) : d \in w.datasets},
     described |-> Described(w, t, r),
     explicit |-> [d \in DatasetNames |-> t.explicit[d] \cup ImportedMarkings(w, r, d)],
     lineage |-> t.lineage \cup ImportedEdges(w, r),
     granted |-> [d \in DatasetNames |-> t.granted[d] \cup ImportedGrants(w, r, d)],
     typed |-> [o \in TypeNames |-> t.typed[o] \cup w.typed[o]],
     authored |-> t.authored \cup w.authored,
     declares |-> Besides([f \in Landing(w, t) |-> w.declares[f]], t.declares),
     review |-> t.review]

\* Review is on, and the archive has rules in it.
NeedsReview(w, t) ==
    /\ t.review
    /\ \/ \E d \in DatasetNames : w.granted[d] # {} \/ w.explicit[d] # {}
       \/ \E o \in TypeNames : w.typed[o] # {}

-----------------------------------------------------------------------------
MergeInit ==
    /\ archive \in Archives /\ target \in Targets
    /\ prefixed \in BOOLEAN
    /\ report = NoReport /\ merge = "idle"
    /\ before = target /\ edits = 0

\* The first call.
ReadReport ==
    /\ merge = "idle" /\ report = NoReport
    /\ LET r == MergeReport(archive, target, prefixed)
       IN  IF r.refusals # {} THEN merge' = "refused" /\ UNCHANGED report
           ELSE report' = r /\ UNCHANGED merge
    /\ UNCHANGED <<archive, target, prefixed, before, edits>>

\* The second call: it makes the report anew, and refuses one that has changed.
Confirm ==
    /\ merge = "idle" /\ report # NoReport
    /\ LET r == MergeReport(archive, target, prefixed)
           refused == \/ r.refusals # {}
                      \/ r # report
                      \/ NeedsReview(archive, target)
                      \/ KeyTaken(archive, target, r)
       IN  IF refused THEN merge' = "refused" /\ UNCHANGED <<target, before>>
           ELSE /\ merge' = "applied" /\ before' = target
                /\ target' = Merged(archive, target, r)
    /\ UNCHANGED <<archive, prefixed, report, edits>>

\* The target's own life between the two calls.
Meanwhile(t) ==
    /\ merge = "idle" /\ report # NoReport
    /\ edits < MaxEdits /\ edits' = edits + 1
    /\ target' = t
    /\ UNCHANGED <<archive, prefixed, report, merge, before>>

CreateDataset == \E d \in DatasetNames \ target.datasets :
    Meanwhile([target EXCEPT !.datasets = @ \cup {d}])

CreateMarking == \E m \in MarkingNames \ DOMAIN target.described, x \in Descriptions :
    Meanwhile([target EXCEPT !.described = Besides(@, [n \in {m} |-> x])])

RemoveMarking == \E m \in DOMAIN target.described :
    Meanwhile([target EXCEPT !.described = Restrict(@, DOMAIN @ \ {m}),
                        !.explicit = [d \in DatasetNames |-> @[d] \ {m}]])

DeclareType == \E f \in FileNames \ DOMAIN target.declares, o \in TypeNames \ DeclaredTypes(target),
                  x \in Descriptions :
    Meanwhile([target EXCEPT !.declares = Besides(@, [g \in {f} |-> [type |-> o, text |-> x]])])

StartReview ==
    /\ ~target.review
    /\ Meanwhile([target EXCEPT !.review = TRUE])

MergeNext ==
    \/ ReadReport \/ Confirm
    \/ CreateDataset \/ CreateMarking \/ RemoveMarking \/ DeclareType \/ StartReview

MergeSpec == MergeInit /\ [][MergeNext]_mergeVars

-----------------------------------------------------------------------------
\* The name a marking gets is one the report reuses: the archive holds a
\* marking called <name>.<slug>, the target has the same one, and so two
\* classifications come under one name. The report does say both.
NamespaceTaken == \E m \in DOMAIN report.markings : report.markings[m] \in report.reused

(***************************************************************************)
(* What a merge does to the target's own: nothing. Its datasets keep the   *)
(* markings in force and the grants they had, its markings their meaning,  *)
(* its types their grants and their one declaration, its files their text. *)
(* This is about the renames being applied to every table alike, to edges, *)
(* markings and grants as to the catalog, and about the refusals. But what *)
(* the archive grants ahead joins the grants of the target's dataset.      *)
(***************************************************************************)
OwnIsUntouched ==
    merge = "applied" =>
    /\ \A d \in before.datasets : /\ Effective(target)[d] = Effective(before)[d]
                                  /\ d \in Ahead(archive) \/ target.granted[d] = before.granted[d]
    /\ \A m \in DOMAIN before.described : target.described[m] = before.described[m]
    /\ \A o \in DeclaredTypes(before) : target.typed[o] = before.typed[o]
    /\ \A f \in DOMAIN before.declares : target.declares[f] = before.declares[f]
    /\ Cardinality(DeclaredTypes(target)) = Cardinality(DOMAIN target.declares)

(***************************************************************************)
(* What a merge does to the archive's: every dataset lands, under the name *)
(* the operator read, with its grants and under markings that mean what    *)
(* they meant at the source, those its upstreams require included: nobody  *)
(* comes to hold a clearance for it because the target uses the same word. *)
(***************************************************************************)
RulesArrive ==
    merge = "applied" /\ ~NamespaceTaken =>
    \A d \in archive.datasets : LET n == Renamed(report.datasets, d) IN
        /\ n \in target.datasets
        /\ \/ target.granted[n] = archive.granted[d]
           \/ n \in Ahead(archive) \cup Ahead(before)
        /\ {target.described[m] : m \in Effective(target)[n]}
             = {archive.described[m] : m \in Effective(archive)[d]}

\* A merge keeps the rules of both workspaces, and review is not bypassed.
MergeKeepsRules ==
    /\ OwnIsUntouched /\ RulesArrive
    /\ merge = "applied" => ~NeedsReview(archive, before)
=============================================================================
