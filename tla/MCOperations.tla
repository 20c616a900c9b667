---------------------------- MODULE MCOperations ----------------------------
(***************************************************************************)
(* Instances of the modules about builds, health, syncs, queries, the     *)
(* overlay of edits and Iceberg tables, small enough for TLC. They share   *)
(* no state: each behaviour is of one of them.                             *)
(***************************************************************************)
EXTENDS IncrementalBuild, BuildPlanner, Alerts, Connectors, Admission, ObjectOverlay, IcebergTable,
        TLC

CONSTANTS k1, k2, c1, b, q1, q2

VARIABLE part       \* the component that moves in this behaviour

T(name, out, inputs) == [name |-> name, output |-> out, inputs |-> inputs]

InputLists ==
    {<<>>, <<"a">>, <<"b">>, <<"c">>, <<"raw", "a">>, <<"b", "c">>, <<"c", "b">>, <<"a", "b">>}

\* Every graph of three transforms over these inputs, and every pair that
\* may clash in its names or its outputs.
MCDeclarations ==
    {<<T("f", "a", x), T("g", "b", y), T("h", "c", z)>> : x, y, z \in InputLists}
    \cup {<<T("f", "a", x), T(n, o, y)>> :
            x, y \in InputLists, n \in {"f", "g"}, o \in {"a", "b"}}
    \cup {<<>>}

MCTargets == {AllOutputs, <<"a">>, <<"c">>, <<"b", "a">>, <<"a", "a">>, <<"raw">>, <<>>}

Quiet ==
    [taskFailed |-> FALSE, expectationFailed |-> FALSE, syncFailed |-> FALSE,
     scheduleFailed |-> FALSE, overdue |-> FALSE, promised |-> FALSE, built |-> FALSE,
     late |-> FALSE, ran |-> FALSE]
Well == [Quiet EXCEPT !.built = TRUE, !.ran = TRUE]

\* Two red statuses, each before and after the first version, and the others.
MCFacts ==
    {Quiet, [Quiet EXCEPT !.promised = TRUE], [Quiet EXCEPT !.ran = TRUE, !.taskFailed = TRUE],
     Well, [Well EXCEPT !.taskFailed = TRUE], [Well EXCEPT !.promised = TRUE, !.late = TRUE]}

\* Values of one length, and 8, 9 and 10.
MCRanks == {<<1, 2, 3>>, <<2, 3, 1>>}

\* The first row of a dataset may as well be of the first key.
OperationsInit ==
    /\ IncrementalInit /\ AlertsInit /\ ConnectorsInit /\ AdmissionInit /\ OverlayInit /\ IcebergInit
    /\ part \in {"incremental", "planner", "alerts", "connectors", "admission", "overlay", "iceberg"}
    /\ PlannerInit
    /\ part # "planner" => declared = <<>> /\ targets = AllOutputs
    /\ part # "alerts" => facts = [d \in Monitored |-> Quiet]
    /\ part # "connectors" => rank = <<1, 2, 3>>
    /\ part # "overlay" => base = <<>>
    /\ base # <<>> => base[1].key = k1
    /\ part # "iceberg" => versions = <<>>

OperationsNext ==
    /\ \/ /\ part = "incremental" /\ IncrementalNext
          /\ UNCHANGED <<plannerVars, alertVars, connectorVars, admissionVars, overlayVars,
                         icebergVars>>
       \/ /\ part = "planner" /\ PlannerNext
          /\ UNCHANGED <<incrementalVars, alertVars, connectorVars, admissionVars, overlayVars,
                         icebergVars>>
       \/ /\ part = "alerts" /\ AlertsNext
          /\ UNCHANGED <<incrementalVars, plannerVars, connectorVars, admissionVars, overlayVars,
                         icebergVars>>
       \/ /\ part = "connectors" /\ ConnectorsNext
          /\ UNCHANGED <<incrementalVars, plannerVars, alertVars, admissionVars, overlayVars,
                         icebergVars>>
       \/ /\ part = "admission" /\ AdmissionNext
          /\ UNCHANGED <<incrementalVars, plannerVars, alertVars, connectorVars, overlayVars,
                         icebergVars>>
       \/ /\ part = "overlay" /\ OverlayNext
          /\ UNCHANGED <<incrementalVars, plannerVars, alertVars, connectorVars, admissionVars,
                         icebergVars>>
       \/ /\ part = "iceberg" /\ IcebergNext
          /\ UNCHANGED <<incrementalVars, plannerVars, alertVars, connectorVars, admissionVars,
                         overlayVars>>
    /\ UNCHANGED part

OperationsSpec ==
    OperationsInit
    /\ [][OperationsNext]_<<incrementalVars, plannerVars, alertVars, connectorVars,
                            admissionVars, overlayVars, icebergVars, part>>
=============================================================================
