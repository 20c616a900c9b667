---------------------------- MODULE MCAuthoring -----------------------------
(***************************************************************************)
(* Instances of the modules about what users write (flows and code, what   *)
(* the compiler makes of a flow, dashboards and analyses, definitions) and *)
(* of the remote object store. They share no state: each behaviour is of one *)
(* of them.                                                                *)
(***************************************************************************)
EXTENDS Flows, FlowCompiler, Workbooks, OntologyFiles, RemoteStore, TLC

CONSTANTS alice, bob, upload, early, late, p1, p2, q1, q2

VARIABLE part       \* the component that moves in this behaviour

\* The upload is for all or for alice; outputs may have been uploaded before,
\* and shared by an administrator.
MCShares ==
    {[d \in {upload, early, late} |-> CASE d = upload -> x [] d = early -> y [] OTHER -> z] :
        <<x, y, z>> \in {<<{}, {}, {}>>, <<{alice}, {}, {alice, bob}>>,
                         <<{}, {alice, bob}, {alice, bob}>>}}

\* Two tables with columns that fold alike, and one with a helper's name.
MCTables ==
    [t |-> <<[name |-> "pay", kind |-> "number"], [name |-> "who", kind |-> "text"]>>,
     u |-> <<[name |-> "who", kind |-> "number"], [name |-> "RN", kind |-> "time"]>>,
     v |-> <<[name |-> "pay", kind |-> "number"], [name |-> "PAY", kind |-> "number"]>>]

MCFolded == [n \in {"pay", "PAY", "who", "RN", "rn", "rn_", "x"} |->
    CASE n \in {"pay", "PAY"} -> "pay" [] n \in {"rn", "RN"} -> "rn" [] OTHER -> n]

MCHelpers == <<"rn", "rn_">>

MCExpressions ==
    {Col("pay"), Lit("text"), Op("eq", <<Col("pay"), Lit("number")>>),
     Op("eq", <<Col("x"), Col("who")>>), Op("add", <<Col("pay"), Col("x")>>),
     Op("coalesce", <<Col("x"), Col("pay")>>), Col("x"), Col("who"), Lit("number")}

Sql == [sql |-> "q"]
Object == [object |-> "o"]
Titled == [title |-> "t"]
Shaping(needs, makes) == [sql |-> "", flow |-> Flow({}, needs, makes), inputs |-> {}]
Upon(id) == [flow |-> Flow({id}, "x", "x"), inputs |-> {id}]

MCBodies ==
    [analysis |-> {Sql, Titled, Shaping("x", "x"), Shaping("x", "y"), Upon(1), Upon(2)},
     dashboard |-> {Sql, Titled, Object, [sql |-> "", flow |-> Flow({}, "x", "x")]}]

At(id, body) == [id |-> id, body |-> body]

\* New items, items reordered and removed, chained ones, and an id sent twice.
MCLists ==
    [analysis |-> {<<>>, <<At(0, Shaping("x", "x")), At(0, Upon(1))>>,
                   <<At(2, Titled), At(1, Titled)>>, <<At(2, Sql), At(0, Sql)>>,
                   <<At(1, Titled), At(0, Upon(1))>>},
     dashboard |-> {<<>>, <<At(1, Sql), At(2, Object)>>, <<At(2, Titled), At(1, Titled)>>,
                    <<At(1, Sql), At(1, Object)>>,
                    <<At(2, [flow |-> Flow({}, "gone", "x"), sql |-> ""])>>}]

MCHandwritten ==
    {{Def("object_type", "x")}, {Def("object_type", "x"), Def("object_type", "y")},
     {Def("link_type", "x"), Def("object_type", "x")}, {Def("link_type", "y")}}

Symmetry == Permutations({p1, p2}) \cup Permutations({q1, q2})

AuthoringInit ==
    /\ FlowsInit /\ CompilerInit /\ WorkbooksInit /\ OntologyInit
    /\ RemoteInit
    /\ part \in {"flows", "compiler", "workbooks", "ontology", "remote"}
    /\ part # "flows" => \A d \in DOMAIN grants : grants[d] = {}
    /\ part # "workbooks" => kind = "analysis"

AuthoringNext ==
    /\ \/ /\ part = "flows" /\ FlowsNext
          /\ UNCHANGED <<compilerVars, workbookVars, ontologyVars, remoteVars>>
       \/ /\ part = "compiler" /\ CompilerNext
          /\ UNCHANGED <<flowVars, workbookVars, ontologyVars, remoteVars>>
       \/ /\ part = "workbooks" /\ WorkbooksNext
          /\ UNCHANGED <<flowVars, compilerVars, ontologyVars, remoteVars>>
       \/ /\ part = "ontology" /\ OntologyNext
          /\ UNCHANGED <<flowVars, compilerVars, workbookVars, remoteVars>>
       \/ /\ part = "remote" /\ RemoteNext
          /\ UNCHANGED <<flowVars, compilerVars, workbookVars, ontologyVars>>
    /\ UNCHANGED part

AuthoringSpec ==
    AuthoringInit
    /\ [][AuthoringNext]_<<flowVars, compilerVars, workbookVars, ontologyVars, remoteVars, part>>
=============================================================================
