---------------------------- MODULE OntologyFiles ----------------------------
(***************************************************************************)
(* Definitions of object types, link types and actions: YAML files that    *)
(* every request reads anew (loader.py), written one per name by the       *)
(* routes (ontology/authoring.py, ontology_def_routes.py) and by hand.     *)
(*                                                                         *)
(* Nothing is locked: a request checks, replaces the file and checks that  *)
(* the whole still loads; an operator's editor, or another request, may    *)
(* come in between.  Of a definition its kind, its name and the type it    *)
(* refers to are left.  An operator leaves an ontology that loads, as far  *)
(* as the operator can see.                                                *)
(***************************************************************************)
EXTENDS Naturals, FiniteSets

CONSTANTS
    ApiNames,       \* names; each has a file of its own
    OtherFiles,     \* files with no such name
    Handwritten,    \* sets of definitions an operator may put in a file
    Saves,          \* requests at a time
    MaxFileChanges  \* bound on requests and edits by hand

ASSUME OntologyAssumption == MaxFileChanges \in Nat

VARIABLES
    files,      \* file -> the definitions in it, or NoSuchFile
    byHand,     \* history: file -> what an operator has it at, or NoSuchFile
    written,    \* history: definitions that requests have reported written
    save,       \* request -> frame
    fileChanges,    \* begun so far
    crossed     \* history: "alone", "api" when requests overlapped, "hand" when one edit by
                \* hand came in between, "lost" when more did, or a death as well

ontologyVars == <<files, byHand, written, save, fileChanges, crossed>>

Kinds == {"object_type", "link_type", "action"}
Def(kind, name) == [kind |-> kind, name |-> name]
NoSuchFile == {Def("none", "none")}
NoSave == [pc |-> "idle"]
Paths == ApiNames \cup OtherFiles

OntologyInit ==
    /\ files = [p \in Paths |-> NoSuchFile] /\ byHand = files
    /\ written = {} /\ fileChanges = 0 /\ crossed = "alone"
    /\ save = [s \in Saves |-> NoSave]

In(p) == IF files[p] = NoSuchFile THEN {} ELSE files[p]
Defined == UNION {In(p) : p \in Paths}

\* load_ontology: no name twice within a kind.
Loads == \A p, q \in Paths : p # q => In(p) \cap In(q) = {}

\* A mutant: the file has the definition, among others perhaps.
HasIt(p, d) == d \in In(p)

\* _is_managed: it has what a request writes and nothing else.
IsManaged(p, d) == files[p] = {d}

\* _owner_of, but for the file of that name.
OwnedElsewhere(d) == \E p \in Paths \ {d.name} : d \in In(p)

-----------------------------------------------------------------------------
AtRest == \A s \in Saves : save[s] = NoSave
Worse(how) == IF crossed = "alone" \/ (crossed = "api" /\ how = "api") THEN how ELSE "lost"

Begin(s, frame) ==
    /\ save[s] = NoSave /\ fileChanges < MaxFileChanges /\ fileChanges' = fileChanges + 1
    /\ save' = [save EXCEPT ![s] = frame]
    /\ crossed' = IF AtRest THEN crossed ELSE Worse("api")
    /\ UNCHANGED <<files, byHand, written>>

End(s) == save' = [save EXCEPT ![s] = NoSave]

\* Links and actions are refused unless the type they are for is defined.
CheckUpsert(s) == \E kind \in Kinds, name, of \in ApiNames :
    LET d == Def(kind, name) IN
    /\ kind # "object_type" => Loads /\ Def("object_type", of) \in Defined
    /\ ~OwnedElsewhere(d)
    /\ files[name] = NoSuchFile \/ IsManaged(name, d)
    /\ Begin(s, [pc |-> "replace", def |-> d, previous |-> files[name]])

Replace(s) ==
    LET d == save[s].def IN
    /\ save[s].pc = "replace"
    /\ files' = [files EXCEPT ![d.name] = {d}]
    /\ save' = [save EXCEPT ![s].pc = "verify"]
    /\ UNCHANGED <<byHand, written, fileChanges, crossed>>

\* The postcondition, and the way back when it does not hold.
Verify(s) ==
    LET d == save[s].def IN
    /\ save[s].pc = "verify" /\ End(s)
    /\ IF Loads THEN written' = written \cup {d} /\ UNCHANGED files
       ELSE files' = [files EXCEPT ![d.name] = save[s].previous] /\ UNCHANGED written
    /\ UNCHANGED <<byHand, fileChanges, crossed>>

\* Links and actions of a type that is deleted stay.
CheckDelete(s) == \E kind \in Kinds, name \in ApiNames :
    /\ IsManaged(name, Def(kind, name))
    /\ Begin(s, [pc |-> "unlink", def |-> Def(kind, name)])

Unlink(s) ==
    LET d == save[s].def IN
    /\ save[s].pc = "unlink" /\ End(s)
    /\ files' = [files EXCEPT ![d.name] = NoSuchFile] /\ written' = written \ {d}
    /\ UNCHANGED <<byHand, fileChanges, crossed>>

\* The server dies.
DieSaving(s) ==
    /\ save[s] # NoSave /\ End(s)
    /\ crossed' = IF crossed = "hand" THEN "lost" ELSE crossed
    /\ UNCHANGED <<files, byHand, written, fileChanges>>

\* A file that is just what a request would write is taken for one.
EditByHand == \E p \in Paths, defs \in Handwritten \cup {NoSuchFile} :
    /\ fileChanges < MaxFileChanges /\ fileChanges' = fileChanges + 1
    /\ files' = [files EXCEPT ![p] = defs] /\ Loads'
    /\ byHand' = [byHand EXCEPT ![p] =
            IF \E d \in defs : d.name = p /\ defs = {d} THEN NoSuchFile ELSE defs]
    /\ written' = written \ In(p)
    /\ crossed' = IF AtRest THEN crossed ELSE Worse("hand")
    /\ UNCHANGED save

OntologyNext ==
    \/ EditByHand
    \/ \E s \in Saves : CheckUpsert(s) \/ Replace(s) \/ Verify(s) \/ CheckDelete(s)
                        \/ Unlink(s) \/ DieSaving(s)

OntologySpec == OntologyInit /\ [][OntologyNext]_ontologyVars

-----------------------------------------------------------------------------
(* "A duplicate api_name makes load_ontology raise on every subsequent     *)
(* request": requests leave the ontology loadable at every step, however   *)
(* they overlap, and a request alone leaves it so when it ends even if one *)
(* edit by hand came in between.  Requests destroy nothing that was        *)
(* written by hand, and those that do not overlap nothing that requests of *)
(* another kind wrote under that name.                                     *)
OntologyStands ==
    /\ crossed \in {"alone", "api"} =>
        Loads /\ \A p \in Paths : byHand[p] # NoSuchFile => files[p] = byHand[p]
    /\ crossed = "hand" /\ AtRest => Loads
    /\ crossed = "alone" => written \subseteq Defined
=============================================================================
