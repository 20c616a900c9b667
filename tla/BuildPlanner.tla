---------------------------- MODULE BuildPlanner ----------------------------
(***************************************************************************)
(* How the transforms declared in the pipeline files become the order of a *)
(* build (TransformRegistry.register, Builder.plan). Declarations are      *)
(* enumerated; they are registered one by one, the targets are resolved,   *)
(* and the depth-first search goes a call, an input or a return at a time. *)
(***************************************************************************)
EXTENDS Integers, Sequences, FiniteSets

CONSTANTS
    Declarations,       \* what may be declared: sequences of transforms, a
                        \* transform being [name, output, inputs]
    Targets,            \* what may be asked for: sequences of datasets, or AllOutputs
    AllOutputs          \* targets=None

Members(seq) == {seq[i] : i \in DOMAIN seq}
Listed(seq) == seq \in Seq(Members(seq))

ASSUME PlannerAssumption ==
    /\ \A specs \in Declarations : Listed(specs) /\ \A s \in Members(specs) : Listed(s.inputs)
    /\ \A asked \in Targets : asked = AllOutputs \/ Listed(asked)

VARIABLES
    declared, targets,  \* what is collected and asked for
    registry,           \* what is registered so far, in order
    roots,              \* what plan has still to visit
    path,               \* its calls of visit: [spec, next], next being the next input
    order,              \* the transforms that are done
    planning            \* "collecting", "visiting", "planned" or "refused" by a ValueError

plannerVars == <<declared, targets, registry, roots, path, order, planning>>

-----------------------------------------------------------------------------
(* The registry. *)

Clash(spec) == \E r \in Members(registry) : r.name = spec.name \/ r.output = spec.output

Producers(specs, dataset) == {r \in Members(specs) : r.output = dataset}

PlannerInit ==
    /\ declared \in Declarations /\ targets \in Targets
    /\ registry = <<>> /\ roots = <<>> /\ path = <<>> /\ order = <<>>
    /\ planning = "collecting"

Refuse == planning' = "refused" /\ UNCHANGED <<registry, roots, path, order>>

Register ==
    LET spec == declared[Len(registry) + 1] IN
    /\ planning = "collecting" /\ Len(registry) < Len(declared)
    /\ \/ Clash(spec) /\ Refuse
       \/ /\ ~Clash(spec) /\ registry' = Append(registry, spec)
          /\ UNCHANGED <<roots, path, order, planning>>

\* The transforms that plan starts from.
Resolve ==
    /\ planning = "collecting" /\ Len(registry) = Len(declared)
    /\ \/ targets = AllOutputs /\ roots' = registry /\ planning' = "visiting"
       \/ /\ targets # AllOutputs
          /\ \A i \in DOMAIN targets : Producers(registry, targets[i]) # {}
          /\ roots' = [i \in DOMAIN targets |->
                         CHOOSE r \in Producers(registry, targets[i]) : TRUE]
          /\ planning' = "visiting"
    /\ UNCHANGED <<registry, path, order>>

\* A target that nothing produces.
RefuseTarget ==
    /\ planning = "collecting" /\ Len(registry) = Len(declared)
    /\ targets # AllOutputs
    /\ \E i \in DOMAIN targets : Producers(registry, targets[i]) = {}
    /\ Refuse

-----------------------------------------------------------------------------
(* The depth-first search. *)

Visiting == {path[i].spec : i \in DOMAIN path}

\* A mutant: the planner trusts that pipelines have no cycle.
VisitTrusting(spec, frames) ==
    /\ path' = IF spec \in Members(order) \cup Visiting THEN frames
               ELSE Append(frames, [spec |-> spec, next |-> 1])
    /\ UNCHANGED <<registry, order, planning>>

\* visit(spec), called by the last of the frames.
Visit(spec, frames) ==
    /\ planning' = IF spec \in Visiting THEN "refused" ELSE planning
    /\ path' = IF spec \in Members(order) \cup Visiting THEN frames
               ELSE Append(frames, [spec |-> spec, next |-> 1])
    /\ UNCHANGED <<registry, order>>

VisitRoot ==
    /\ planning = "visiting" /\ path = <<>> /\ roots # <<>>
    /\ Visit(Head(roots), <<>>)
    /\ roots' = Tail(roots)

Caller == path[Len(path)]
Callers == SubSeq(path, 1, Len(path) - 1)
InputLeft == path # <<>> /\ Caller.next <= Len(Caller.spec.inputs)

VisitInput ==
    LET upstream == Producers(registry, Caller.spec.inputs[Caller.next])
        frames == Append(Callers, [spec |-> Caller.spec, next |-> Caller.next + 1])
    IN
    /\ planning = "visiting" /\ InputLeft
    /\ \/ upstream = {} /\ path' = frames /\ UNCHANGED <<registry, order, planning>>
       \/ upstream # {} /\ Visit(CHOOSE r \in upstream : TRUE, frames)
    /\ UNCHANGED roots

LeaveVisit ==
    /\ planning = "visiting" /\ path # <<>> /\ ~InputLeft
    /\ path' = Callers /\ order' = Append(order, Caller.spec)
    /\ UNCHANGED <<registry, roots, planning>>

ReturnPlan ==
    /\ planning = "visiting" /\ path = <<>> /\ roots = <<>>
    /\ planning' = "planned"
    /\ UNCHANGED <<registry, roots, path, order>>

PlannerNext ==
    /\ Register \/ Resolve \/ RefuseTarget \/ VisitRoot \/ VisitInput \/ LeaveVisit \/ ReturnPlan
    /\ UNCHANGED <<declared, targets>>

PlannerSpec == PlannerInit /\ [][PlannerNext]_plannerVars

-----------------------------------------------------------------------------
(* Reference definitions, over the declarations as a graph. *)

All == Members(declared)

Feeds == {e \in All \X All : e[1].output \in Members(e[2].inputs)}

Before(spec) == {e[1] : e \in {f \in Feeds : f[2] = spec}}

\* What is there already feeds nothing from outside.
Closed(specs) == \A s \in specs : Before(s) \subseteq specs

\* What is in every closed set that holds the transforms.
Closure(specs) == {s \in All : \A C \in SUBSET All : specs \subseteq C /\ Closed(C) => s \in C}

WellDeclared ==
    \A i, j \in DOMAIN declared :
        i # j => declared[i].name # declared[j].name /\ declared[i].output # declared[j].output

Known == targets = AllOutputs \/ \A i \in DOMAIN targets : Producers(declared, targets[i]) # {}

Asked == {s \in All : targets = AllOutputs \/ s.output \in Members(targets)}

Wanted == Closure(Asked)

Cyclic(specs) == \E s \in specs : s \in Closure(Before(s))

(* What TransformRegistry.register and Builder.plan promise. A build is    *)
(* refused exactly when two declarations clash, a target has no producer,  *)
(* or what the targets need is cyclic, a cycle elsewhere being nobody's    *)
(* business. Otherwise its plan has each transform the targets need once   *)
(* and no other, and every one after all that feed it.                     *)
PlanIsTopological ==
    /\ planning = "refused" => ~WellDeclared \/ ~Known \/ Cyclic(Wanted)
    /\ planning = "planned" =>
        /\ WellDeclared /\ Known /\ ~Cyclic(Wanted)
        /\ Members(order) = Wanted /\ Len(order) = Cardinality(Wanted)
        /\ \A i, j \in DOMAIN order : <<order[i], order[j]>> \in Feeds => i < j
=============================================================================
