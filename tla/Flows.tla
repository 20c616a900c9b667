------------------------------- MODULE Flows -------------------------------
(***************************************************************************)
(* Authoring and building of transforms that copy governed data: flows     *)
(* (flow_files.py, flow_governance.py), the Python pipelines they may be   *)
(* ejected to (authoring.py), and what a build checks before it runs       *)
(* either (builder.py).                                                    *)
(*                                                                         *)
(* A transform is named like the dataset it makes. Editors save, delete    *)
(* and eject; requests die anywhere; builds run in two threads; an         *)
(* administrator narrows sources and puts policies on them. No author is   *)
(* an admin or exempt from a policy. Grants give both rights. A flow's     *)
(* columns are abstracted to the sources whose masked column it touches.   *)
(***************************************************************************)
EXTENDS Naturals, FiniteSets

CONSTANTS
    Authors,        \* editors
    Raw,            \* datasets that are uploaded
    Names,          \* of transforms, and of their outputs
    Requests,       \* authoring requests at a time
    Jobs,           \* builds at a time
    Shares,         \* grants there may be at the start: dataset -> users, {} for all
    MaxRequests, MaxBuilds, MaxDecrees      \* bounds on what is begun

ASSUME FlowsAssumption ==
    /\ {MaxRequests, MaxBuilds, MaxDecrees} \subseteq Nat
    /\ IsFiniteSet(Names) /\ Raw \cap Names = {} /\ "none yet" \notin Raw
    /\ "nobody" \notin Authors
    /\ Shares \subseteq [Raw \cup Names -> SUBSET Authors]

VARIABLES
    grants,     \* dataset -> the users it is granted to, {} if to nobody in particular
    shared,     \* history: the outputs that were granted to begin with, or when a source
                \* was narrowed and they had never been built
    policy,     \* source -> "none", "mask" or "row"
    narrowed,   \* history: the sources narrowed since, and the outputs that were there
                \* for all before they were restricted
    flow,       \* name -> flow file
    code,       \* name -> Python file
    stamp,      \* name -> recorded author of the Python file
    holds,      \* output -> the sources its rows came from, or Missing
    raced,      \* history: names that an ejection guarded, or a deletion unstamped, out of turn
    overlapped, \* history: a flow landed on a registry other than it was checked against
    request,    \* request -> its frame
    job,        \* build -> its frame
    begun       \* [requests, builds, decrees] so far

flowVars == <<grants, shared, policy, narrowed, flow, code, stamp, holds, raced, overlapped,
              request, job, begun>>
tables == <<grants, shared, policy, narrowed>>
histories == <<raced, overlapped>>

Nobody == "nobody"
Missing == {[source |-> "none yet", touched |-> FALSE]}
AllDatasets == Raw \cup Names
NoFile == [sources |-> {}, touches |-> {}, author |-> Nobody, ejected |-> FALSE]
Quiet == [pc |-> "idle"]

FlowsInit ==
    /\ grants \in Shares /\ shared = {n \in Names : grants[n] # {}}
    /\ policy = [s \in Raw |-> "none"] /\ narrowed = {}
    /\ flow = [n \in Names |-> NoFile] /\ code = flow
    /\ stamp = [n \in Names |-> Nobody]
    /\ holds = [n \in Names |-> IF n \in shared THEN {} ELSE Missing]
    /\ raced = {} /\ overlapped = FALSE
    /\ request = [r \in Requests |-> Quiet] /\ job = [j \in Jobs |-> Quiet]
    /\ begun = [requests |-> 0, builds |-> 0, decrees |-> 0]

Existing == Raw \cup {n \in Names : holds[n] # Missing}
CanView(u, d) == grants[d] = {} \/ u \in grants[d]

-----------------------------------------------------------------------------
(* Governance of flows (flow_governance.py). *)

SourcesReadable(u, f) == f.sources \subseteq Existing /\ \A d \in f.sources : CanView(u, d)

OutputWritable(u, n) == n \in Existing => CanView(u, n)

\* A mutant: any output that is granted to somebody will do.
WiderToo(n, f) == TRUE

\* An output that is granted already is granted to none but readers of every
\* source that is.
NotWider(n, f) ==
    \A d \in f.sources : grants[d] # {} /\ grants[n] # {} => grants[n] \subseteq grants[d]

\* Rows of a policied source go nowhere; a masked column that is read, or kept, does not either.
Unpoliced(f) ==
    \A s \in f.sources \cap Raw :
        policy[s] # "row" /\ (policy[s] = "mask" => s \notin f.touches)

Governed(u, n, f) == SourcesReadable(u, f) /\ OutputWritable(u, n) /\ Unpoliced(f)

\* restrict_output_to_author: an output nobody was granted, of a source that
\* somebody was, becomes its author's.
Restricted(n, f, u) ==
    IF grants[n] = {} /\ \E d \in f.sources : grants[d] # {}
    THEN [grants EXCEPT ![n] = {u}] ELSE grants

-----------------------------------------------------------------------------
(* The registry (collect_transforms). *)

\* Two producers of one dataset, or of one name, are refused for all.
Collects == \A n \in Names : flow[n] = NoFile \/ code[n] = NoFile

Producer(n) == IF flow[n] # NoFile THEN flow[n] ELSE code[n]
Registry == [n \in Names |-> Producer(n).sources]

\* What a dataset is built from, directly or not.
Upstream(registry, n) ==
    LET within[k \in Nat] ==
            IF k = 0 THEN registry[n]
            ELSE within[k - 1] \cup UNION {registry[m] : m \in within[k - 1] \cap Names}
    IN  within[Cardinality(Names)]

Acyclic(registry) == \A n \in Names : n \notin Upstream(registry, n)

\* A mutant: a flow is only compared with its own sources.
ClosesLoop(n, f) == n \in f.sources

\* _reject_workspace_cycle: whether the flow's sources come to depend on it.
ClosesCycle(n, f) ==
    n \in Upstream([Registry EXCEPT ![n] = f.sources], n)

-----------------------------------------------------------------------------
(* Authoring. *)

Step(r, frame) == request' = [request EXCEPT ![r] = frame]
Done(r) == Step(r, Quiet)
Begins == begun.requests < MaxRequests /\ begun' = [begun EXCEPT !.requests = @ + 1]

\* Who is between a check and its use, of a dataset that a step changes, is
\* left with a check of something else.
Staled(frames, d) ==
    [x \in DOMAIN frames |->
        IF \/ /\ frames[x].pc \in {"read", "publish", "guard"}
              /\ d \in frames[x].file.sources \cup {frames[x].name}
           \/ frames[x].pc = "publish" /\ \E h \in frames[x].rows : h.source = d
        THEN [frames[x] EXCEPT !.stale = TRUE] ELSE frames[x]]

Disturbed(d) == Staled(job, d)

\* restrict_output_to_author, in whatever step it is called: who has checked
\* the output, or has it for a source, is left with something else.
RestrictOutput(n, f, u) ==
    /\ grants' = Restricted(n, f, u)
    /\ narrowed' = IF grants' # grants /\ n \in Existing THEN narrowed \cup {n} ELSE narrowed

Unsettled(frames, n) == IF grants' # grants THEN Staled(frames, n) ELSE frames

\* PUT /flows/{name}: everything is checked before the file is written.
BeginFlow(r) == \E n \in Names, u \in Authors, ds \in SUBSET AllDatasets :
    \E touches \in SUBSET (ds \cap Raw) :
        LET f == [NoFile EXCEPT !.sources = ds, !.touches = touches, !.author = u] IN
        /\ Begins /\ request[r].pc = "idle" /\ Collects
        /\ Cardinality(ds) \in 1..2
        /\ code[n] = NoFile /\ ~ClosesCycle(n, f)
        /\ Governed(u, n, f) /\ NotWider(n, f)
        /\ Step(r, [pc |-> "land", name |-> n, file |-> f, registry |-> Registry])
        /\ UNCHANGED <<tables, flow, code, stamp, holds, histories, job>>

LandFlow(r) ==
    /\ request[r].pc = "land"
    /\ flow' = [flow EXCEPT ![request[r].name] = request[r].file]
    /\ overlapped' = (overlapped \/ request[r].registry # Registry)
    /\ Done(r)
    /\ UNCHANGED <<tables, code, stamp, holds, raced, job, begun>>

DeleteFlow == \E n \in Names :
    /\ Begins /\ flow[n] # NoFile /\ flow' = [flow EXCEPT ![n] = NoFile]
    /\ UNCHANGED <<tables, code, stamp, holds, histories, request, job>>

\* _require_pipeline_readable: a file whose output is withheld is not there.
PipelineReadable(u, n) == code[n] # NoFile => CanView(u, n)

\* PUT /pipelines/{name} replaces the file whatever the registry says of it,
\* and then records who did.
WriteCode(r) == \E n \in Names, u \in Authors, ds \in SUBSET AllDatasets :
    /\ Begins /\ request[r].pc = "idle" /\ Cardinality(ds) = 1
    /\ PipelineReadable(u, n)
    /\ code' = [code EXCEPT ![n] = [NoFile EXCEPT !.sources = ds, !.author = u]]
    /\ Step(r, [pc |-> "stamp", name |-> n, author |-> u])
    /\ UNCHANGED <<tables, flow, stamp, holds, histories, job>>

StampCode(r) ==
    /\ request[r].pc = "stamp"
    /\ stamp' = [stamp EXCEPT ![request[r].name] = request[r].author]
    /\ Done(r)
    /\ UNCHANGED <<tables, flow, code, holds, histories, job, begun>>

DeleteCode(r) == \E n \in Names, u \in Authors :
    /\ Begins /\ request[r].pc = "idle" /\ code[n] # NoFile /\ PipelineReadable(u, n)
    /\ code' = [code EXCEPT ![n] = NoFile]
    /\ Step(r, [pc |-> "unstamp", name |-> n])
    /\ UNCHANGED <<tables, flow, stamp, holds, histories, job>>

\* By name, whosever file has it by now, or is about to, or is being built.
Unstamp(r) ==
    LET n == request[r].name IN
    /\ request[r].pc = "unstamp"
    /\ stamp' = [stamp EXCEPT ![n] = Nobody]
    /\ raced' = IF \/ code[n] # NoFile
                   \/ \E q \in Requests : request[q].pc = "generate" /\ request[q].name = n
                   \/ \E j \in Jobs : job[j].pc = "check" /\ job[j].name = n
                THEN raced \cup {n} ELSE raced
    /\ Done(r)
    /\ UNCHANGED <<tables, flow, code, holds, overlapped, job, begun>>

\* POST /flows/{name}/eject: checks as for a save, by and for who ejects.
BeginEject(r) == \E n \in Names, u \in Authors :
    /\ Begins /\ request[r].pc = "idle" /\ flow[n] # NoFile /\ code[n] = NoFile
    /\ Governed(u, n, flow[n]) /\ NotWider(n, flow[n])
    /\ Step(r, [pc |-> "guard", name |-> n, file |-> [flow[n] EXCEPT !.author = u],
                stale |-> FALSE])
    /\ UNCHANGED <<tables, flow, code, stamp, holds, histories, job>>

\* The grant and the stamp come before the file they are for, and the grant
\* before the rows too, of a flow that has never been built.
GuardEject(r) ==
    LET q == request[r] IN
    /\ q.pc = "guard"
    /\ RestrictOutput(q.name, q.file, q.file.author)
    /\ job' = Unsettled(job, q.name)
    /\ stamp' = [stamp EXCEPT ![q.name] = q.file.author]
    /\ raced' = IF q.stale \/ (grants' # grants /\ q.name \notin Existing)
                THEN raced \cup {q.name} ELSE raced
    /\ request' = [Unsettled(request, q.name) EXCEPT
                     ![r] = [pc |-> "generate", name |-> q.name, file |-> q.file]]
    /\ UNCHANGED <<shared, policy, flow, code, holds, overlapped, begun>>

\* A file that came in between is left, and loses its stamp.
GenerateCode(r) ==
    LET q == request[r] IN
    /\ q.pc = "generate"
    /\ IF code[q.name] # NoFile
       THEN Step(r, [pc |-> "unstamp", name |-> q.name]) /\ UNCHANGED code
       ELSE /\ code' = [code EXCEPT ![q.name] = [q.file EXCEPT !.ejected = TRUE]]
            /\ Step(r, [pc |-> "unlink", name |-> q.name])
    /\ UNCHANGED <<tables, flow, stamp, holds, histories, job, begun>>

\* A flow that is gone takes the file back.
UnlinkFlow(r) ==
    LET n == request[r].name IN
    /\ request[r].pc = "unlink"
    /\ IF flow[n] # NoFile
       THEN flow' = [flow EXCEPT ![n] = NoFile] /\ Done(r) /\ UNCHANGED code
       ELSE /\ code' = [code EXCEPT ![n] = NoFile]
            /\ Step(r, [pc |-> "unstamp", name |-> n]) /\ UNCHANGED flow
    /\ UNCHANGED <<tables, stamp, holds, histories, job, begun>>

\* The server dies, and takes the request with it.
DropRequest(r) ==
    /\ request[r].pc # "idle" /\ Done(r)
    /\ UNCHANGED <<tables, flow, code, stamp, holds, histories, job, begun>>

-----------------------------------------------------------------------------
(* An administrator. What was copied before a change is no matter of it. *)

Forgotten(s) ==
    [n \in Names |-> IF holds[n] = Missing THEN Missing ELSE {h \in holds[n] : h.source # s}]

Decree(s) ==
    /\ begun.decrees < MaxDecrees /\ begun' = [begun EXCEPT !.decrees = @ + 1]
    /\ holds' = Forgotten(s) /\ job' = Disturbed(s)
    /\ request' = Staled(request, s)
    /\ UNCHANGED <<flow, code, stamp, histories>>

Narrow == \E s \in Raw, u \in Authors :
    /\ Decree(s) /\ grants' = [grants EXCEPT ![s] = {u}]
    /\ narrowed' = narrowed \cup {s}
    /\ shared' = shared \cup {n \in Names \ Existing : grants[n] # {}}
    /\ UNCHANGED policy

SetPolicy == \E s \in Raw, kind \in {"mask", "row"} :
    /\ Decree(s) /\ policy' = [policy EXCEPT ![s] = kind] /\ UNCHANGED <<grants, shared, narrowed>>

-----------------------------------------------------------------------------
(* Builds. *)

Work(j, frame) == job' = [job EXCEPT ![j] = frame]

\* The registry is collected and planned, and the build has its copy.
Collect(j) == \E n \in Names :
    /\ begun.builds < MaxBuilds /\ begun' = [begun EXCEPT !.builds = @ + 1]
    /\ job[j].pc = "idle" /\ Collects /\ Acyclic(Registry) /\ Producer(n) # NoFile
    /\ Work(j, [pc |-> "check", name |-> n, file |-> Producer(n),
                flow |-> flow[n] # NoFile, stale |-> FALSE])
    /\ UNCHANGED <<tables, flow, code, stamp, holds, histories, request>>

\* _check_input_entitlement: a file without a stamp is the operator's.
Entitled(j) ==
    LET author == stamp[job[j].name] IN
    \/ author = Nobody
    \/ /\ \A d \in job[j].file.sources : CanView(author, d)
       /\ \A s \in job[j].file.sources \cap Raw : policy[s] = "none"

Permitted(j) ==
    IF job[j].flow THEN Governed(job[j].file.author, job[j].name, job[j].file) ELSE Entitled(j)

\* Refused, the task fails. The first output of a name is not checked, whoever
\* it has been granted to by a build that is about to publish it.
CheckTask(j) ==
    /\ job[j].pc = "check"
    /\ Work(j, IF Permitted(j) /\ job[j].file.sources \subseteq Existing
               THEN [job[j] EXCEPT !.pc = "read",
                        !.stale = \E k \in Jobs : job[k].pc = "publish" /\ job[k].name = job[j].name]
               ELSE Quiet)
    /\ UNCHANGED <<tables, flow, code, stamp, holds, histories, request, begun>>

\* An output that was shared is not narrowed with its sources: what is read
\* of it is what it is shared for.
Conceded(n, s) == n \in shared /\ s \in narrowed

\* What a transform makes of its inputs. A pipeline that somebody wrote answers
\* for its copies; an ejected one restricts its output no more, so of what it
\* reads the sources are left that were not narrowed.
Copied(j) ==
    LET f == job[j].file
        read == {[source |-> s, touched |-> s \in f.touches] : s \in f.sources \cap Raw}
    IN  IF job[j].flow
        THEN read \cup UNION {{h \in holds[m] : ~Conceded(m, h.source)} :
                                m \in {x \in (f.sources \cap Names) \ raced :
                                            ~Conceded(job[j].name, x)}}
        ELSE IF f.ejected THEN {h \in read : h.source \notin narrowed}
        ELSE {}

\* The inputs are read; the output of a flow is restricted before it is there.
ReadInputs(j) ==
    LET n == job[j].name
        f == job[j].file IN
    /\ job[j].pc = "read"
    /\ IF job[j].flow THEN RestrictOutput(n, f, f.author) ELSE UNCHANGED <<grants, narrowed>>
    /\ job' = [Unsettled(job, n) EXCEPT
                 ![j] = [pc |-> "publish", name |-> n, file |-> f,
                         rows |-> Copied(j), stale |-> job[j].stale]]
    /\ request' = Unsettled(request, n)
    /\ UNCHANGED <<shared, policy, flow, code, stamp, holds, histories, begun>>

Publish(j) ==
    LET n == job[j].name IN
    /\ job[j].pc = "publish"
    /\ holds' = [holds EXCEPT ![n] = IF job[j].stale THEN {} ELSE job[j].rows]
    /\ job' = [Disturbed(n) EXCEPT ![j] = Quiet]
    /\ UNCHANGED <<tables, flow, code, stamp, histories, request, begun>>

FlowsNext ==
    \/ \E r \in Requests : BeginFlow(r) \/ LandFlow(r) \/ WriteCode(r) \/ StampCode(r)
                           \/ DeleteCode(r) \/ Unstamp(r) \/ BeginEject(r) \/ GuardEject(r)
                           \/ GenerateCode(r) \/ UnlinkFlow(r) \/ DropRequest(r)
    \/ DeleteFlow \/ Narrow \/ SetPolicy
    \/ \E j \in Jobs : Collect(j) \/ CheckTask(j) \/ ReadInputs(j) \/ Publish(j)

FlowsSpec == FlowsInit /\ [][FlowsNext]_flowVars

-----------------------------------------------------------------------------
(* What is claimed of flows. *)

(* Who may read a dataset that a flow built, or a file ejected from one,   *)
(* may read the sources its rows came from, and has no masked value of     *)
(* them, however authors take turns at the name and sources are narrowed   *)
(* and policied. It is said of builds under which nothing they checked     *)
(* changed; an output an administrator shared is not narrowed with its     *)
(* sources ("a rebuild must not undo an administrator's decision").        *)
CopiesStayPrivate ==
    \A n \in Names \ raced : holds[n] # Missing => \A h \in holds[n] :
        /\ \/ grants[h.source] = {} \/ Conceded(n, h.source)
           \/ grants[n] # {} /\ grants[n] \subseteq grants[h.source]
        /\ policy[h.source] = "none" \/ (policy[h.source] = "mask" /\ ~h.touched)

(* "A dataset cannot be built from itself, and saving this would stop      *)
(* every build in the workspace": no cycle of flows is ever saved, unless  *)
(* two saves overlapped.                                                   *)
FlowsAreAcyclic ==
    ~overlapped => Acyclic([n \in Names |-> flow[n].sources \ {m \in Names : flow[m] = NoFile}])
=============================================================================
