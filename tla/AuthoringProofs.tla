-------------------------- MODULE AuthoringProofs --------------------------
(***************************************************************************)
(* What is proved of what users write. Of flows, and of the files they are *)
(* ejected to: copies of governed data stay as private as their sources,   *)
(* and no cycle of flows is saved. Of what the compiler makes of a flow:   *)
(* its schema is the engine's, and a masked column that is not mentioned   *)
(* is in nothing. Of definitions in files: the ontology stands, and is     *)
(* what the requests were told. Of objects in a remote store: a level      *)
(* watermark is the truth. Of dashboards and analyses: a chain of cells    *)
(* that is stored runs, and what was not sent is kept.                     *)
(***************************************************************************)
EXTENDS Flows, FlowCompiler, Workbooks, OntologyFiles, RemoteStore,
        FiniteSetTheorems, SequenceTheorems, Induction, TLAPS

(***************************************************************************)
(* What flows keep: the types, what a frame checked that still holds, and  *)
(* what is known of grants that are not one author's.                      *)
(***************************************************************************)
Rows == [source : Raw, touched : BOOLEAN]
Written == [sources : SUBSET AllDatasets, touches : SUBSET AllDatasets,
            author : Authors, ejected : BOOLEAN]
Files == Written \cup {NoFile}
Registries == [Names -> SUBSET AllDatasets]

LandFrames == [pc : {"land"}, name : Names, file : Written, registry : Registries]
StampFrames == [pc : {"stamp"}, name : Names, author : Authors]
NameFrames == [pc : {"unstamp", "unlink"}, name : Names]
GuardFrames == [pc : {"guard"}, name : Names, file : Written, stale : BOOLEAN]
GenerateFrames == [pc : {"generate"}, name : Names, file : Written]
RequestFrames ==
    {Quiet} \cup LandFrames \cup StampFrames \cup NameFrames \cup GuardFrames \cup GenerateFrames

TaskFrames ==
    [pc : {"check", "read"}, name : Names, file : Written, flow : BOOLEAN, stale : BOOLEAN]
PublishFrames ==
    [pc : {"publish"}, name : Names, file : Written, rows : SUBSET Rows, stale : BOOLEAN]
JobFrames == {Quiet} \cup TaskFrames \cup PublishFrames

FlowsTyped ==
    /\ grants \in [AllDatasets -> SUBSET Authors]
    /\ policy \in [Raw -> {"none", "mask", "row"}]
    /\ shared \subseteq Names /\ narrowed \subseteq AllDatasets /\ raced \subseteq Names
    /\ flow \in [Names -> Files] /\ code \in [Names -> Files]
    /\ stamp \in [Names -> Authors \cup {Nobody}]
    /\ holds \in [Names -> (SUBSET Rows) \cup {Missing}]
    /\ request \in [Requests -> RequestFrames]
    /\ job \in [Jobs -> JobFrames]
    /\ overlapped \in BOOLEAN
    /\ \A j \in Jobs : job[j].pc = "read" => job[j].file.sources \subseteq Existing

\* Whoever reads n may read d, as far as anybody decided.
Under(n, d) == grants[d] = {} \/ Conceded(n, d) \/ (grants[n] # {} /\ grants[n] \subseteq grants[d])

\* What CopiesStayPrivate asks of a row.
Sound(n, h) ==
    /\ Under(n, h.source)
    /\ policy[h.source] = "none" \/ (policy[h.source] = "mask" /\ ~h.touched)

\* The grant of an output is one author's, or was an administrator's.
GrantsAreOnes == \A n \in Names : grants[n] # {} => n \in shared \/ \E u \in Authors : grants[n] = {u}

Many(n) == grants[n] # {} /\ ~\E u \in Authors : grants[n] = {u}

\* An output that is granted before it is there is about to be.
GrantedIsPublished ==
    \A n \in Names \ raced : grants[n] # {} /\ n \notin Existing =>
        \E k \in Jobs : job[k].pc = "publish" /\ job[k].name = n

\* Nobody is let in further through a flow that was let pass.
FlowOf(n, f) ==
    \/ flow[n] = f /\ f # NoFile
    \/ \E r \in Requests : request[r].pc = "land" /\ request[r].name = n /\ request[r].file = f
    \/ \E j \in Jobs : job[j].pc \in {"check", "read"} /\ job[j].flow /\ job[j].name = n /\ job[j].file = f

WidensNothing(n, f) == \A d \in f.sources : d \in Existing /\ Under(n, d)

FlowsWidenNothing == \A n \in Names, f \in Written : FlowOf(n, f) /\ Many(n) => WidensNothing(n, f)

\* Nor through a file that one was ejected to.
EjectedTo(n, f) ==
    /\ f.ejected
    /\ \/ code[n] = f
       \/ \E j \in Jobs : job[j].pc \in {"check", "read"} /\ ~job[j].flow /\ job[j].name = n /\ job[j].file = f

Generating(n, f) ==
    \E r \in Requests : request[r].pc = "generate" /\ request[r].name = n /\ request[r].file = f

Narrowed(n, f) ==
    \A s \in f.sources \cap Raw :
        \/ grants[s] = {} \/ s \in narrowed
        \/ grants[n] # {} /\ grants[n] \subseteq grants[s]

EjectedKeepsGrant ==
    \A n \in Names \ raced, f \in Written : EjectedTo(n, f) \/ Generating(n, f) => Narrowed(n, f)

\* Such a file has an author until it is built.
EjectedIsStamped ==
    \A n \in Names \ raced :
        \/ code[n].ejected
        \/ \E r \in Requests : request[r].pc = "generate" /\ request[r].name = n
        \/ \E j \in Jobs : job[j].pc = "check" /\ ~job[j].flow /\ job[j].file.ejected /\ job[j].name = n
        => stamp[n] # Nobody

\* What was checked, and did not change.
GuardsHold ==
    \A r \in Requests : request[r].pc = "guard" /\ ~request[r].stale =>
        LET q == request[r] IN
        \A s \in q.file.sources \cap Raw :
            /\ CanView(q.file.author, s)
            /\ grants[s] # {} /\ grants[q.name] # {} => grants[q.name] \subseteq grants[s]

ReadsHold ==
    \A j \in Jobs : job[j].pc = "read" /\ ~job[j].stale /\ job[j].name \notin raced =>
        LET f == job[j].file IN
        /\ job[j].flow =>
              /\ \A d \in f.sources : CanView(f.author, d)
              /\ CanView(f.author, job[j].name)
              /\ Unpoliced(f)
        /\ ~job[j].flow /\ f.ejected => \A s \in f.sources \cap Raw : policy[s] = "none"

PublishesHold ==
    \A j \in Jobs : job[j].pc = "publish" /\ ~job[j].stale /\ job[j].name \notin raced =>
        \A h \in job[j].rows : Sound(job[j].name, h)

CopiesInv ==
    /\ FlowsTyped /\ GrantsAreOnes /\ GrantedIsPublished /\ FlowsWidenNothing
    /\ EjectedKeepsGrant /\ EjectedIsStamped /\ GuardsHold /\ ReadsHold /\ PublishesHold
    /\ CopiesStayPrivate

\* A flow that is about to land closes no cycle of what it was checked against.
LandingsCloseNothing ==
    \A r \in Requests : request[r].pc = "land" =>
        LET q == request[r] IN
        q.name \notin Upstream([q.registry EXCEPT ![q.name] = q.file.sources], q.name)

-----------------------------------------------------------------------------
(***************************************************************************)
(* The types. Each step writes frames, files and grants of their kind.     *)
(***************************************************************************)
LEMMA RequestsApart ==
    ASSUME FlowsTyped, NEW r \in Requests
    PROVE  /\ request[r].pc = "land" => request[r] \in LandFrames
           /\ request[r].pc = "stamp" => request[r] \in StampFrames
           /\ request[r].pc \in {"unstamp", "unlink"} => request[r] \in NameFrames
           /\ request[r].pc = "guard" => request[r] \in GuardFrames
           /\ request[r].pc = "generate" => request[r] \in GenerateFrames
           /\ request[r].pc \notin {"land", "stamp", "unstamp", "unlink", "guard", "generate"} =>
                  request[r] = Quiet
<1>1. request[r] \in RequestFrames
  BY DEF FlowsTyped
<1> QED BY <1>1 DEF RequestFrames, LandFrames, StampFrames, NameFrames, GuardFrames,
           GenerateFrames, Quiet

LEMMA JobsApart ==
    ASSUME FlowsTyped, NEW j \in Jobs
    PROVE  /\ job[j].pc \in {"check", "read"} => job[j] \in TaskFrames
           /\ job[j].pc = "publish" => job[j] \in PublishFrames
           /\ job[j].pc \notin {"check", "read", "publish"} => job[j] = Quiet
<1>1. job[j] \in JobFrames
  BY DEF FlowsTyped
<1> QED BY <1>1 DEF JobFrames, TaskFrames, PublishFrames, Quiet

LEMMA WrittenIsFile == \A f \in Written : f # NoFile
<1>1. \A f \in Written : f.author \in Authors
  BY DEF Written
<1>2. NoFile.author \notin Authors
  BY FlowsAssumption DEF NoFile, Nobody
<1> QED BY <1>1, <1>2

LEMMA MissingIsNoRows == Missing \notin SUBSET Rows
<1>1. \A h \in Rows : h.source # "none yet"
  BY FlowsAssumption DEF Rows
<1> QED BY <1>1 DEF Missing

\* What is being written.
LEMMA WrittenFrames ==
    ASSUME NEW f \in Written, NEW n \in Names, NEW u \in Authors, NEW R \in Registries,
           NEW s \in BOOLEAN, NEW b \in BOOLEAN, NEW rows \in SUBSET Rows
    PROVE  /\ [pc |-> "land", name |-> n, file |-> f, registry |-> R] \in RequestFrames
           /\ [pc |-> "stamp", name |-> n, author |-> u] \in RequestFrames
           /\ [pc |-> "unstamp", name |-> n] \in RequestFrames
           /\ [pc |-> "unlink", name |-> n] \in RequestFrames
           /\ [pc |-> "guard", name |-> n, file |-> f, stale |-> s] \in RequestFrames
           /\ [pc |-> "generate", name |-> n, file |-> f] \in RequestFrames
           /\ [pc |-> "check", name |-> n, file |-> f, flow |-> b, stale |-> s] \in JobFrames
           /\ [pc |-> "publish", name |-> n, file |-> f, rows |-> rows, stale |-> s] \in JobFrames
           /\ Quiet \in RequestFrames /\ Quiet \in JobFrames
<1>1. [pc |-> "land", name |-> n, file |-> f, registry |-> R] \in LandFrames
  BY DEF LandFrames
<1>2. [pc |-> "stamp", name |-> n, author |-> u] \in StampFrames
  BY DEF StampFrames
<1>3. [pc |-> "unstamp", name |-> n] \in NameFrames /\ [pc |-> "unlink", name |-> n] \in NameFrames
  BY DEF NameFrames
<1>4. [pc |-> "guard", name |-> n, file |-> f, stale |-> s] \in GuardFrames
  BY DEF GuardFrames
<1>5. [pc |-> "generate", name |-> n, file |-> f] \in GenerateFrames
  BY DEF GenerateFrames
<1>6. [pc |-> "check", name |-> n, file |-> f, flow |-> b, stale |-> s] \in TaskFrames
  BY DEF TaskFrames
<1>7. [pc |-> "publish", name |-> n, file |-> f, rows |-> rows, stale |-> s] \in PublishFrames
  BY DEF PublishFrames
<1> QED BY <1>1, <1>2, <1>3, <1>4, <1>5, <1>6, <1>7, Zenon DEF RequestFrames, JobFrames

LEMMA StaleFrames ==
    ASSUME FlowsTyped
    PROVE  /\ \A j \in Jobs : job[j].pc \in {"read", "publish"} =>
                  [job[j] EXCEPT !.stale = TRUE] \in JobFrames
           /\ \A r \in Requests : request[r].pc = "guard" =>
                  [request[r] EXCEPT !.stale = TRUE] \in RequestFrames
           /\ \A d : Staled(job, d) \in [Jobs -> JobFrames]
           /\ \A d : Staled(request, d) \in [Requests -> RequestFrames]
<1>1. ASSUME NEW j \in Jobs, job[j].pc \in {"read", "publish"}
      PROVE  [job[j] EXCEPT !.stale = TRUE] \in JobFrames
  <2>1. CASE job[j].pc = "read"
    <3>1. job[j] \in TaskFrames
      BY <2>1, JobsApart
    <3>2. [job[j] EXCEPT !.stale = TRUE] \in TaskFrames
      BY <3>1 DEF TaskFrames
    <3> QED BY <3>2 DEF JobFrames
  <2>2. CASE job[j].pc = "publish"
    <3>1. job[j] \in PublishFrames
      BY <2>2, JobsApart
    <3>2. [job[j] EXCEPT !.stale = TRUE] \in PublishFrames
      BY <3>1 DEF PublishFrames
    <3> QED BY <3>2 DEF JobFrames
  <2> QED BY <1>1, <2>1, <2>2
<1>2. ASSUME NEW r \in Requests, request[r].pc = "guard"
      PROVE  [request[r] EXCEPT !.stale = TRUE] \in RequestFrames
  <2>1. request[r] \in GuardFrames
    BY <1>2, RequestsApart
  <2>2. [request[r] EXCEPT !.stale = TRUE] \in GuardFrames
    BY <2>1 DEF GuardFrames
  <2> QED BY <2>2 DEF RequestFrames
<1>3. /\ DOMAIN job = Jobs /\ DOMAIN request = Requests
      /\ \A j \in Jobs : job[j] \in JobFrames /\ job[j].pc # "guard"
      /\ \A r \in Requests : request[r] \in RequestFrames /\ request[r].pc \notin {"read", "publish"}
  <2>1. \A j \in Jobs : job[j].pc # "guard"
    BY JobsApart DEF TaskFrames, PublishFrames, Quiet
  <2>2. \A r \in Requests : request[r].pc \notin {"read", "publish"}
    BY RequestsApart DEF Quiet
  <2> QED BY <2>1, <2>2 DEF FlowsTyped
<1>4. ASSUME NEW d PROVE Staled(job, d) \in [Jobs -> JobFrames]
  BY <1>1, <1>3 DEF Staled
<1>5. ASSUME NEW d PROVE Staled(request, d) \in [Requests -> RequestFrames]
  BY <1>2, <1>3 DEF Staled
<1> QED BY <1>1, <1>2, <1>4, <1>5

LEMMA FilesTyped ==
    ASSUME FlowsTyped
    PROVE  /\ \A n \in Names : flow[n] \in Files /\ code[n] \in Files
           /\ \A n \in Names : Producer(n) \in Files
           /\ Registry \in Registries
<1>1. \A n \in Names : flow[n] \in Files /\ code[n] \in Files
  BY DEF FlowsTyped
<1>2. \A n \in Names : Producer(n) \in Files
  BY <1>1 DEF Producer
<1>3. \A f \in Files : f.sources \in SUBSET AllDatasets
  BY DEF Files, Written, NoFile
<1> QED BY <1>1, <1>2, <1>3 DEF Registry, Registries

LEMMA RestrictedTyped ==
    ASSUME FlowsTyped, NEW n \in Names, NEW f \in Written, NEW u \in Authors
    PROVE  Restricted(n, f, u) \in [AllDatasets -> SUBSET Authors]
  BY DEF FlowsTyped, Restricted, AllDatasets

LEMMA CopiedTyped ==
    ASSUME FlowsTyped, NEW j \in Jobs, job[j].pc = "read"
    PROVE  Copied(j) \in SUBSET Rows
<1> DEFINE f == job[j].file
           read == {[source |-> s, touched |-> s \in f.touches] : s \in f.sources \cap Raw}
<1>1. read \subseteq Rows
  <2> SUFFICES ASSUME NEW s \in Raw, NEW b \in BOOLEAN
               PROVE  [source |-> s, touched |-> b] \in Rows
    <3>1. \A s \in Raw : (s \in f.touches) \in BOOLEAN
      OBVIOUS
    <3> QED BY <3>1, Zenon
  <2> QED BY DEF Rows
<1>2. ASSUME NEW m \in f.sources \cap Names PROVE holds[m] \in SUBSET Rows
  <2>1. m \in Existing /\ m \notin Raw
    BY FlowsAssumption DEF FlowsTyped
  <2>2. holds[m] # Missing
    BY <2>1 DEF Existing
  <2>3. holds[m] \in (SUBSET Rows) \cup {Missing}
    BY DEF FlowsTyped
  <2> QED BY <2>2, <2>3
<1> HIDE DEF read
<1>3. Copied(j) \subseteq read \cup UNION {holds[m] : m \in f.sources \cap Names}
  BY DEF Copied, read
<1> QED BY <1>1, <1>2, <1>3

\* Nothing that is there goes away.
LEMMA ForgottenTyped ==
    ASSUME FlowsTyped, NEW s \in Raw
    PROVE  /\ Forgotten(s) \in [Names -> (SUBSET Rows) \cup {Missing}]
           /\ \A n \in Names : holds[n] # Missing => Forgotten(s)[n] # Missing
<1>1. ASSUME NEW n \in Names, holds[n] # Missing
      PROVE  {h \in holds[n] : h.source # s} \in SUBSET Rows
  BY <1>1 DEF FlowsTyped
<1> QED BY <1>1, MissingIsNoRows DEF Forgotten

LEMMA TasksTyped ==
    ASSUME FlowsTyped, NEW j \in Jobs, job[j].pc \in {"check", "read"}
    PROVE  /\ job[j].name \in Names /\ job[j].file \in Written
           /\ job[j].flow \in BOOLEAN /\ job[j].stale \in BOOLEAN
  BY JobsApart DEF TaskFrames

\* The frames of a type, in the next state.
TypedFrames ==
    /\ request' \in [Requests -> RequestFrames]
    /\ job' \in [Jobs -> JobFrames]

LEMMA RequestStepTyped ==
    ASSUME FlowsTyped, NEW r \in Requests, NEW frame \in RequestFrames, Step(r, frame)
    PROVE  request' \in [Requests -> RequestFrames]
  BY DEF FlowsTyped, Step

LEMMA StepKeepsTypes ==
    ASSUME FlowsTyped, [FlowsNext]_flowVars PROVE FlowsTyped'
<1> USE DEF tables, histories
<1>1. CASE UNCHANGED flowVars
  BY <1>1 DEF FlowsTyped, flowVars, Existing
<1>2. ASSUME NEW r \in Requests, BeginFlow(r) PROVE FlowsTyped'
  <2>1. PICK n \in Names, u \in Authors, ds \in SUBSET AllDatasets :
           \E touches \in SUBSET (ds \cap Raw) :
              LET f == [NoFile EXCEPT !.sources = ds, !.touches = touches, !.author = u] IN
              /\ Step(r, [pc |-> "land", name |-> n, file |-> f, registry |-> Registry])
              /\ UNCHANGED <<tables, flow, code, stamp, holds, histories, job>>
    BY <1>2, ZenonT(60) DEF BeginFlow
  <2>2. PICK touches \in SUBSET (ds \cap Raw) :
              LET f == [NoFile EXCEPT !.sources = ds, !.touches = touches, !.author = u] IN
              /\ Step(r, [pc |-> "land", name |-> n, file |-> f, registry |-> Registry])
              /\ UNCHANGED <<tables, flow, code, stamp, holds, histories, job>>
    BY <2>1
  <2>3. [NoFile EXCEPT !.sources = ds, !.touches = touches, !.author = u] \in Written
    BY DEF NoFile, Written, AllDatasets
  <2>4. request' \in [Requests -> RequestFrames]
    BY <2>2, <2>3, FilesTyped, WrittenFrames, RequestStepTyped
  <2> QED BY <2>2, <2>4 DEF FlowsTyped, Existing
<1>3. ASSUME NEW r \in Requests, LandFlow(r) PROVE FlowsTyped'
  <2>1. request[r].name \in Names /\ request[r].file \in Files
    BY <1>3, RequestsApart DEF LandFlow, LandFrames, Files
  <2>2. request' \in [Requests -> RequestFrames]
    BY <1>3, WrittenFrames, RequestStepTyped DEF LandFlow, Done, FlowsTyped, Step, RequestFrames
  <2>3. flow' \in [Names -> Files]
    BY <1>3, <2>1 DEF LandFlow, FlowsTyped
  <2>4. overlapped' \in BOOLEAN
    BY <1>3 DEF LandFlow, FlowsTyped
  <2> QED BY <1>3, <2>2, <2>3, <2>4 DEF LandFlow, FlowsTyped, Existing
<1>4. CASE DeleteFlow
  <2>1. flow' \in [Names -> Files]
    BY <1>4 DEF DeleteFlow, FlowsTyped, Files
  <2> QED BY <1>4, <2>1 DEF DeleteFlow, FlowsTyped, Existing
<1>5. ASSUME NEW r \in Requests, WriteCode(r) PROVE FlowsTyped'
  <2>1. PICK n \in Names, u \in Authors, ds \in SUBSET AllDatasets :
           /\ code' = [code EXCEPT ![n] = [NoFile EXCEPT !.sources = ds, !.author = u]]
           /\ Step(r, [pc |-> "stamp", name |-> n, author |-> u])
           /\ UNCHANGED <<tables, flow, stamp, holds, histories, job>>
    BY <1>5 DEF WriteCode
  <2>2. [NoFile EXCEPT !.sources = ds, !.author = u] \in Files
    BY DEF NoFile, Written, AllDatasets, Files
  <2>3. code' \in [Names -> Files]
    BY <2>1, <2>2 DEF FlowsTyped
  <2>4. request' \in [Requests -> RequestFrames]
    <3>1. [pc |-> "stamp", name |-> n, author |-> u] \in RequestFrames
      BY DEF RequestFrames, StampFrames
    <3> QED BY <2>1, <3>1, RequestStepTyped
  <2> QED BY <2>1, <2>3, <2>4 DEF FlowsTyped, Existing
<1>6. ASSUME NEW r \in Requests, StampCode(r) PROVE FlowsTyped'
  <2>1. request[r].name \in Names /\ request[r].author \in Authors
    BY <1>6, RequestsApart DEF StampCode, StampFrames
  <2>2. request' \in [Requests -> RequestFrames]
    BY <1>6 DEF StampCode, Done, FlowsTyped, Step, RequestFrames
  <2>3. stamp' \in [Names -> Authors \cup {Nobody}]
    BY <1>6, <2>1 DEF StampCode, FlowsTyped
  <2> QED BY <1>6, <2>2, <2>3 DEF StampCode, FlowsTyped, Existing
<1>7. ASSUME NEW r \in Requests, DeleteCode(r) PROVE FlowsTyped'
  <2>1. PICK n \in Names :
           /\ code' = [code EXCEPT ![n] = NoFile]
           /\ Step(r, [pc |-> "unstamp", name |-> n])
           /\ UNCHANGED <<tables, flow, stamp, holds, histories, job>>
    BY <1>7 DEF DeleteCode
  <2>2. request' \in [Requests -> RequestFrames]
    <3>1. [pc |-> "unstamp", name |-> n] \in RequestFrames
      BY DEF RequestFrames, NameFrames
    <3> QED BY <2>1, <3>1, RequestStepTyped
  <2>3. code' \in [Names -> Files]
    BY <2>1 DEF FlowsTyped, Files
  <2> QED BY <2>1, <2>2, <2>3 DEF FlowsTyped, Existing
<1>8. ASSUME NEW r \in Requests, Unstamp(r) PROVE FlowsTyped'
  <2>1. request[r].name \in Names
    BY <1>8, RequestsApart DEF Unstamp, NameFrames
  <2>2. request' \in [Requests -> RequestFrames]
    BY <1>8 DEF Unstamp, Done, FlowsTyped, Step, RequestFrames
  <2>3. stamp' \in [Names -> Authors \cup {Nobody}]
    BY <1>8, <2>1 DEF Unstamp, FlowsTyped
  <2>4. raced' \subseteq Names
    BY <1>8, <2>1 DEF Unstamp, FlowsTyped
  <2> QED BY <1>8, <2>2, <2>3, <2>4 DEF Unstamp, FlowsTyped, Existing
<1>9. ASSUME NEW r \in Requests, BeginEject(r) PROVE FlowsTyped'
  <2>1. PICK n \in Names, u \in Authors :
           /\ flow[n] # NoFile
           /\ Step(r, [pc |-> "guard", name |-> n, file |-> [flow[n] EXCEPT !.author = u],
                       stale |-> FALSE])
           /\ UNCHANGED <<tables, flow, code, stamp, holds, histories, job>>
    BY <1>9 DEF BeginEject
  <2>2. [flow[n] EXCEPT !.author = u] \in Written
    <3>1. flow[n] \in Written
      BY <2>1 DEF FlowsTyped, Files
    <3> QED BY <3>1 DEF Written
  <2>3. [pc |-> "guard", name |-> n, file |-> [flow[n] EXCEPT !.author = u], stale |-> FALSE]
           \in RequestFrames
    BY <2>2 DEF RequestFrames, GuardFrames
  <2>4. request' \in [Requests -> RequestFrames]
    BY <2>1, <2>3, RequestStepTyped
  <2> QED BY <2>1, <2>4 DEF FlowsTyped, Existing
<1>10. ASSUME NEW r \in Requests, GuardEject(r) PROVE FlowsTyped'
  <2> DEFINE q == request[r]
  <2>1. q \in GuardFrames /\ q.name \in Names /\ q.file \in Written /\ q.file.author \in Authors
    BY <1>10, RequestsApart DEF GuardEject, GuardFrames, Written
  <2>2. grants' \in [AllDatasets -> SUBSET Authors]
    BY <1>10, <2>1, RestrictedTyped DEF GuardEject, RestrictOutput
  <2>3. narrowed' \subseteq AllDatasets
    BY <1>10, <2>1 DEF GuardEject, RestrictOutput, FlowsTyped, AllDatasets
  <2>4. stamp' \in [Names -> Authors \cup {Nobody}]
    BY <1>10, <2>1 DEF GuardEject, FlowsTyped
  <2>5. raced' \subseteq Names
    BY <1>10, <2>1 DEF GuardEject, FlowsTyped
  <2>6. job' \in [Jobs -> JobFrames]
    BY <1>10, StaleFrames DEF GuardEject, Unsettled, FlowsTyped
  <2>7. request' \in [Requests -> RequestFrames]
    <3>1. Unsettled(request, q.name) \in [Requests -> RequestFrames]
      BY StaleFrames DEF Unsettled, FlowsTyped
    <3>2. [pc |-> "generate", name |-> q.name, file |-> q.file] \in RequestFrames
      BY <2>1 DEF RequestFrames, GenerateFrames
    <3> QED BY <1>10, <3>1, <3>2 DEF GuardEject
  <2>8. \A j \in Jobs : job'[j].pc = "read" => job[j].pc = "read" /\ job'[j].file = job[j].file
    BY <1>10, JobsApart DEF GuardEject, Unsettled, Staled, FlowsTyped, TaskFrames
  <2> QED BY <1>10, <2>2, <2>3, <2>4, <2>5, <2>6, <2>7, <2>8 DEF GuardEject, FlowsTyped, Existing
<1>11. ASSUME NEW r \in Requests, GenerateCode(r) PROVE FlowsTyped'
  <2> DEFINE q == request[r]
  <2>1. q.name \in Names /\ q.file \in Written
    BY <1>11, RequestsApart DEF GenerateCode, GenerateFrames
  <2>2. [q.file EXCEPT !.ejected = TRUE] \in Files
    BY <2>1 DEF Written, Files
  <2>3. code' \in [Names -> Files]
    BY <1>11, <2>1, <2>2 DEF GenerateCode, FlowsTyped
  <2>4. [pc |-> "unstamp", name |-> q.name] \in RequestFrames
        /\ [pc |-> "unlink", name |-> q.name] \in RequestFrames
    BY <2>1 DEF RequestFrames, NameFrames
  <2>5. request' \in [Requests -> RequestFrames]
    BY <1>11, <2>4, RequestStepTyped DEF GenerateCode
  <2> QED BY <1>11, <2>3, <2>5 DEF GenerateCode, FlowsTyped, Existing
<1>12. ASSUME NEW r \in Requests, UnlinkFlow(r) PROVE FlowsTyped'
  <2> DEFINE n == request[r].name
  <2>1. n \in Names
    BY <1>12, RequestsApart DEF UnlinkFlow, NameFrames
  <2>2. flow' \in [Names -> Files] /\ code' \in [Names -> Files]
    BY <1>12, <2>1 DEF UnlinkFlow, FlowsTyped, Files
  <2>3. [pc |-> "unstamp", name |-> n] \in RequestFrames /\ Quiet \in RequestFrames
    BY <2>1 DEF RequestFrames, NameFrames
  <2>4. request' \in [Requests -> RequestFrames]
    BY <1>12, <2>3, RequestStepTyped DEF UnlinkFlow, Done
  <2> QED BY <1>12, <2>2, <2>4 DEF UnlinkFlow, FlowsTyped, Existing
<1>13. ASSUME NEW r \in Requests, DropRequest(r) PROVE FlowsTyped'
  <2>1. request' \in [Requests -> RequestFrames]
    BY <1>13 DEF DropRequest, Done, FlowsTyped, Step, RequestFrames
  <2> QED BY <1>13, <2>1 DEF DropRequest, FlowsTyped, Existing
<1>14. ASSUME NEW s \in Raw, Decree(s)
       PROVE  /\ holds' \in [Names -> (SUBSET Rows) \cup {Missing}]
              /\ Existing \subseteq Existing'
              /\ job' \in [Jobs -> JobFrames]
              /\ request' \in [Requests -> RequestFrames]
              /\ \A j \in Jobs : job'[j].pc = "read" => job[j].pc = "read" /\ job'[j].file = job[j].file
              /\ UNCHANGED <<flow, code, stamp, raced, overlapped>>
  <2>1. holds' \in [Names -> (SUBSET Rows) \cup {Missing}] /\ Existing \subseteq Existing'
    BY <1>14, ForgottenTyped DEF Decree, Existing
  <2>2. job' \in [Jobs -> JobFrames] /\ request' \in [Requests -> RequestFrames]
    BY <1>14, StaleFrames DEF Decree, Disturbed
  <2>3. \A j \in Jobs : job'[j].pc = "read" => job[j].pc = "read" /\ job'[j].file = job[j].file
    BY <1>14, JobsApart DEF Decree, Disturbed, Staled, FlowsTyped, TaskFrames
  <2> QED BY <1>14, <2>1, <2>2, <2>3 DEF Decree
<1>15. CASE Narrow
  <2>1. PICK s \in Raw, u \in Authors :
           /\ Decree(s) /\ grants' = [grants EXCEPT ![s] = {u}]
           /\ narrowed' = narrowed \cup {s}
           /\ shared' = shared \cup {n \in Names \ Existing : grants[n] # {}}
           /\ UNCHANGED policy
    BY <1>15 DEF Narrow
  <2>2. grants' \in [AllDatasets -> SUBSET Authors] /\ narrowed' \subseteq AllDatasets /\ shared' \subseteq Names
    BY <2>1 DEF FlowsTyped, AllDatasets
  <2> QED BY <2>1, <2>2, <1>14 DEF FlowsTyped
<1>16. CASE SetPolicy
  <2>1. PICK s \in Raw, how \in {"mask", "row"} :
           Decree(s) /\ policy' = [policy EXCEPT ![s] = how] /\ UNCHANGED <<grants, shared, narrowed>>
    BY <1>16 DEF SetPolicy
  <2>2. policy' \in [Raw -> {"none", "mask", "row"}]
    BY <2>1 DEF FlowsTyped
  <2> QED BY <2>1, <2>2, <1>14 DEF FlowsTyped
<1>17. ASSUME NEW j \in Jobs, Collect(j) PROVE FlowsTyped'
  <2>1. PICK n \in Names :
           /\ Producer(n) # NoFile
           /\ Work(j, [pc |-> "check", name |-> n, file |-> Producer(n),
                       flow |-> flow[n] # NoFile, stale |-> FALSE])
           /\ UNCHANGED <<tables, flow, code, stamp, holds, histories, request>>
    BY <1>17 DEF Collect
  <2>2. Producer(n) \in Written
    BY <2>1, FilesTyped DEF Files
  <2>3. \A b \in BOOLEAN :
           [pc |-> "check", name |-> n, file |-> Producer(n), flow |-> b, stale |-> FALSE] \in JobFrames
    BY <2>2 DEF JobFrames, TaskFrames
  <2>4. [pc |-> "check", name |-> n, file |-> Producer(n), flow |-> flow[n] # NoFile, stale |-> FALSE]
           \in JobFrames
    <3>1. (flow[n] # NoFile) \in BOOLEAN
      OBVIOUS
    <3> QED BY <2>3, <3>1, Zenon
  <2>5. job' \in [Jobs -> JobFrames]
        /\ \A k \in Jobs : job'[k].pc = "read" => job'[k] = job[k]
    BY <2>1, <2>4 DEF Work, FlowsTyped
  <2> QED BY <2>1, <2>5 DEF FlowsTyped, Existing
<1>18. ASSUME NEW j \in Jobs, CheckTask(j) PROVE FlowsTyped'
  <2>1. job[j] \in TaskFrames
    BY <1>18, JobsApart DEF CheckTask
  <2>2. [job[j] EXCEPT !.pc = "read",
            !.stale = \E k \in Jobs : job[k].pc = "publish" /\ job[k].name = job[j].name] \in JobFrames
    <3>1. \A b \in BOOLEAN : [job[j] EXCEPT !.pc = "read", !.stale = b] \in JobFrames
      BY <2>1 DEF TaskFrames, JobFrames
    <3>2. (\E k \in Jobs : job[k].pc = "publish" /\ job[k].name = job[j].name) \in BOOLEAN
      OBVIOUS
    <3> QED BY <3>1, <3>2, Zenon
  <2>3. Quiet \in JobFrames
    BY DEF JobFrames
  <2>4. job' \in [Jobs -> JobFrames]
    BY <1>18, <2>2, <2>3 DEF CheckTask, Work, FlowsTyped
  <2>5. \A k \in Jobs : job'[k].pc = "read" =>
           \/ job'[k] = job[k]
           \/ k = j /\ job'[k].file = job[k].file /\ job[k].file.sources \subseteq Existing
    BY <1>18, <2>1 DEF CheckTask, Work, FlowsTyped, TaskFrames, Quiet
  <2> QED BY <1>18, <2>4, <2>5 DEF CheckTask, FlowsTyped, Existing
<1>19. ASSUME NEW j \in Jobs, ReadInputs(j) PROVE FlowsTyped'
  <2> DEFINE n == job[j].name
             f == job[j].file
  <2>1. n \in Names /\ f \in Written /\ f.author \in Authors /\ job[j].stale \in BOOLEAN
    BY <1>19, JobsApart DEF ReadInputs, TaskFrames, Written
  <2>2. grants' \in [AllDatasets -> SUBSET Authors]
    BY <1>19, <2>1, RestrictedTyped DEF ReadInputs, RestrictOutput, FlowsTyped
  <2>3. narrowed' \subseteq AllDatasets
    BY <1>19, <2>1 DEF ReadInputs, RestrictOutput, FlowsTyped, AllDatasets
  <2>4. request' \in [Requests -> RequestFrames]
    BY <1>19, StaleFrames DEF ReadInputs, Unsettled, FlowsTyped
  <2>5. Unsettled(job, n) \in [Jobs -> JobFrames]
    BY StaleFrames DEF Unsettled, FlowsTyped
  <2>6. [pc |-> "publish", name |-> n, file |-> f, rows |-> Copied(j), stale |-> job[j].stale] \in JobFrames
    <3>1. Copied(j) \in SUBSET Rows
      BY <1>19, CopiedTyped DEF ReadInputs
    <3> QED BY <2>1, <3>1 DEF JobFrames, PublishFrames
  <2>7. job' \in [Jobs -> JobFrames]
    BY <1>19, <2>5, <2>6 DEF ReadInputs
  <2>8. \A k \in Jobs : job'[k].pc = "read" => job[k].pc = "read" /\ job'[k].file = job[k].file
    <3>1. \A k \in Jobs : job'[k].pc = "read" => k # j /\ job'[k] = Unsettled(job, n)[k]
      BY <1>19, <2>5 DEF ReadInputs
    <3>2. \A k \in Jobs : Unsettled(job, n)[k].pc = job[k].pc /\
                          (job[k].pc = "read" => Unsettled(job, n)[k].file = job[k].file)
      BY JobsApart DEF Unsettled, Staled, FlowsTyped, TaskFrames, PublishFrames
    <3> QED BY <3>1, <3>2
  <2> QED BY <1>19, <2>2, <2>3, <2>4, <2>7, <2>8 DEF ReadInputs, FlowsTyped, Existing
<1>20. ASSUME NEW j \in Jobs, Publish(j) PROVE FlowsTyped'
  <2> DEFINE n == job[j].name
  <2>1. n \in Names /\ job[j].rows \in SUBSET Rows
    BY <1>20, JobsApart DEF Publish, PublishFrames
  <2>2. holds' \in [Names -> (SUBSET Rows) \cup {Missing}] /\ Existing \subseteq Existing'
    <3>1. (IF job[j].stale THEN {} ELSE job[j].rows) \in SUBSET Rows
      BY <2>1
    <3> QED BY <1>20, <2>1, <3>1, MissingIsNoRows DEF Publish, FlowsTyped, Existing
  <2>3. Disturbed(n) \in [Jobs -> JobFrames]
    BY StaleFrames DEF Disturbed
  <2>4. job' \in [Jobs -> JobFrames]
    BY <1>20, <2>3 DEF Publish, JobFrames
  <2>5. \A k \in Jobs : job'[k].pc = "read" => job[k].pc = "read" /\ job'[k].file = job[k].file
    <3>1. \A k \in Jobs : job'[k].pc = "read" => k # j /\ job'[k] = Disturbed(n)[k]
      BY <1>20, <2>3 DEF Publish, Quiet
    <3>2. \A k \in Jobs : Disturbed(n)[k].pc = job[k].pc /\
                          (job[k].pc = "read" => Disturbed(n)[k].file = job[k].file)
      BY JobsApart DEF Disturbed, Staled, FlowsTyped, TaskFrames, PublishFrames
    <3> QED BY <3>1, <3>2
  <2> QED BY <1>20, <2>2, <2>4, <2>5 DEF Publish, FlowsTyped
<1> QED BY <1>1, <1>2, <1>3, <1>4, <1>5, <1>6, <1>7, <1>8, <1>9, <1>10, <1>11, <1>12, <1>13, <1>15,
          <1>16, <1>17, <1>18, <1>19, <1>20 DEF FlowsNext

-----------------------------------------------------------------------------
(***************************************************************************)
(* What a step changes of what was checked: who watches a dataset whose    *)
(* grant or policy changes is staled, and the others keep what they saw.   *)
(***************************************************************************)
\* What is said of d stays, in this step.
Steady(d) == grants'[d] = grants[d] /\ (d \in Raw => policy'[d] = policy[d])

\* A frame whose datasets are as they were when it was checked.
JobStays(j) ==
    /\ job'[j] = job[j]
    /\ job[j].pc = "read" => \A d \in job[j].file.sources \cup {job[j].name} : Steady(d)
    /\ job[j].pc = "publish" => \A h \in job[j].rows : Steady(h.source)

JobStales(j) == job[j].pc \in {"read", "publish"} /\ job'[j] = [job[j] EXCEPT !.stale = TRUE]

GuardStays(r) ==
    /\ request'[r] = request[r]
    /\ \A d \in request[r].file.sources \cup {request[r].name} : Steady(d)

LEMMA StaledJobs ==
    ASSUME FlowsTyped, NEW x, NEW j \in Jobs
    PROVE  \/ /\ Staled(job, x)[j] = job[j]
              /\ job[j].pc = "read" => x \notin job[j].file.sources \cup {job[j].name}
              /\ job[j].pc = "publish" => \A h \in job[j].rows : h.source # x
           \/ /\ job[j].pc \in {"read", "publish"}
              /\ Staled(job, x)[j] = [job[j] EXCEPT !.stale = TRUE]
<1>1. j \in DOMAIN job
  BY DEF FlowsTyped
<1>2. job[j].pc # "guard"
  BY JobsApart DEF TaskFrames, PublishFrames, Quiet
<1> QED BY <1>1, <1>2 DEF Staled

LEMMA StaledGuards ==
    ASSUME FlowsTyped, NEW x, NEW r \in Requests
    PROVE  \/ /\ Staled(request, x)[r] = request[r]
              /\ request[r].pc = "guard" => x \notin request[r].file.sources \cup {request[r].name}
           \/ /\ request[r].pc = "guard"
              /\ Staled(request, x)[r] = [request[r] EXCEPT !.stale = TRUE]
<1>1. r \in DOMAIN request
  BY DEF FlowsTyped
<1>2. request[r].pc \notin {"read", "publish"}
  BY RequestsApart DEF Quiet
<1> QED BY <1>1, <1>2 DEF Staled

LEMMA WatchedAreDatasets ==
    ASSUME FlowsTyped
    PROVE  /\ \A j \in Jobs : job[j].pc = "read" =>
                  job[j].file.sources \cup {job[j].name} \subseteq AllDatasets
           /\ \A j \in Jobs : job[j].pc = "publish" => \A h \in job[j].rows : h.source \in Raw
           /\ \A r \in Requests : request[r].pc = "guard" =>
                  request[r].file.sources \cup {request[r].name} \subseteq AllDatasets
<1>1. ASSUME NEW j \in Jobs, job[j].pc = "read"
      PROVE  job[j].file.sources \cup {job[j].name} \subseteq AllDatasets
  BY <1>1, JobsApart DEF TaskFrames, Written, AllDatasets
<1>2. ASSUME NEW j \in Jobs, job[j].pc = "publish", NEW h \in job[j].rows PROVE h.source \in Raw
  BY <1>2, JobsApart DEF PublishFrames, Rows
<1>3. ASSUME NEW r \in Requests, request[r].pc = "guard"
      PROVE  request[r].file.sources \cup {request[r].name} \subseteq AllDatasets
  BY <1>3, RequestsApart DEF GuardFrames, Written, AllDatasets
<1> QED BY <1>1, <1>2, <1>3

\* A step that changes at most what is said of x, and stales who watches it.
LEMMA OneIsDisturbed ==
    ASSUME FlowsTyped, NEW x, \A d \in AllDatasets \ {x} : Steady(d)
    PROVE  /\ \A j \in Jobs : job'[j] = Staled(job, x)[j] => JobStays(j) \/ JobStales(j)
           /\ \A r \in Requests : request'[r] = Staled(request, x)[r] /\ request'[r].pc = "guard"
                 => GuardStays(r) \/ request'[r] = [request[r] EXCEPT !.stale = TRUE]
<1> HIDE DEF Steady
<1>0. Raw \subseteq AllDatasets
  BY DEF AllDatasets
<1>1. ASSUME NEW j \in Jobs, job'[j] = Staled(job, x)[j] PROVE JobStays(j) \/ JobStales(j)
  <2>1. CASE Staled(job, x)[j] = job[j]
              /\ (job[j].pc = "read" => x \notin job[j].file.sources \cup {job[j].name})
              /\ (job[j].pc = "publish" => \A h \in job[j].rows : h.source # x)
    BY <1>0, <1>1, <2>1, WatchedAreDatasets DEF JobStays
  <2>2. CASE job[j].pc \in {"read", "publish"} /\ Staled(job, x)[j] = [job[j] EXCEPT !.stale = TRUE]
    BY <1>1, <2>2 DEF JobStales
  <2> QED BY <2>1, <2>2, StaledJobs
<1>2. ASSUME NEW r \in Requests, request'[r] = Staled(request, x)[r], request'[r].pc = "guard"
      PROVE  GuardStays(r) \/ request'[r] = [request[r] EXCEPT !.stale = TRUE]
  <2>1. CASE Staled(request, x)[r] = request[r]
              /\ (request[r].pc = "guard" => x \notin request[r].file.sources \cup {request[r].name})
    BY <1>2, <2>1, WatchedAreDatasets DEF GuardStays
  <2> QED BY <1>2, <2>1, StaledGuards
<1> QED BY <1>1, <1>2

LEMMA NothingIsDisturbed ==
    ASSUME FlowsTyped, \A d \in AllDatasets : Steady(d)
    PROVE  /\ \A j \in Jobs : job'[j] = job[j] => JobStays(j)
           /\ \A r \in Requests : request'[r] = request[r] /\ request[r].pc = "guard" => GuardStays(r)
<1> HIDE DEF Steady
<1>0. Raw \subseteq AllDatasets
  BY DEF AllDatasets
<1> QED BY <1>0, WatchedAreDatasets DEF JobStays, GuardStays

\* What restricting n does.
LEMMA RestrictDoes ==
    ASSUME FlowsTyped, NEW n \in Names, NEW f, NEW u \in Authors, RestrictOutput(n, f, u),
           UNCHANGED policy
    PROVE  /\ \A d \in AllDatasets \ {n} : Steady(d)
           /\ \/ grants' = grants /\ narrowed' = narrowed
              \/ /\ grants[n] = {} /\ grants'[n] = {u} /\ grants' # grants
                 /\ \E d \in f.sources : grants[d] # {}
                 /\ n \in Existing => n \in narrowed'
           /\ grants'[n] = {} => \A d \in f.sources : grants[d] = {}
           /\ narrowed \subseteq narrowed'
           /\ \A j \in Jobs : job'[j] = Unsettled(job, n)[j] => JobStays(j) \/ JobStales(j)
           /\ \A r \in Requests : request'[r] = Unsettled(request, n)[r] /\ request'[r].pc = "guard"
                 => GuardStays(r) \/ request'[r] = [request[r] EXCEPT !.stale = TRUE]
<1>1. grants' = grants \/ grants' = [grants EXCEPT ![n] = {u}]
  BY DEF RestrictOutput, Restricted
<1>2. \A d \in AllDatasets \ {n} : Steady(d)
  BY <1>1 DEF Steady, FlowsTyped
<1>3. grants' # grants =>
        /\ grants[n] = {} /\ grants'[n] = {u} /\ \E d \in f.sources : grants[d] # {}
        /\ n \in Existing => n \in narrowed'
  BY DEF RestrictOutput, Restricted, FlowsTyped, AllDatasets
<1>4. grants' = grants => narrowed' = narrowed
  BY DEF RestrictOutput
<1>5. grants'[n] = {} => \A d \in f.sources : grants[d] = {}
  BY DEF RestrictOutput, Restricted, FlowsTyped, AllDatasets
<1>6. narrowed \subseteq narrowed'
  BY DEF RestrictOutput
<1>7. CASE grants' = grants
  <2>1. \A d \in AllDatasets : Steady(d)
    BY <1>7 DEF Steady
  <2>2. Unsettled(job, n) = job /\ Unsettled(request, n) = request
    BY <1>7 DEF Unsettled
  <2> QED BY <2>1, <2>2, <1>2, <1>4, <1>5, <1>7, NothingIsDisturbed
<1>8. CASE grants' # grants
  <2>1. Unsettled(job, n) = Staled(job, n) /\ Unsettled(request, n) = Staled(request, n)
    BY <1>8 DEF Unsettled
  <2>2. /\ \A j \in Jobs : job'[j] = Unsettled(job, n)[j] => JobStays(j) \/ JobStales(j)
        /\ \A r \in Requests : request'[r] = Unsettled(request, n)[r] /\ request'[r].pc = "guard"
              => GuardStays(r) \/ request'[r] = [request[r] EXCEPT !.stale = TRUE]
    BY <2>1, <1>2, OneIsDisturbed
  <2> QED BY <2>2, <1>2, <1>3, <1>5, <1>6, <1>8
<1> QED BY <1>7, <1>8

\* A build is about to publish n.
PublishedNext(n) == \E k \in Jobs : job'[k].pc = "publish" /\ job'[k].name = n

GrantsMove ==
    /\ shared \subseteq shared' /\ narrowed \subseteq narrowed' /\ raced \subseteq raced'
    /\ Existing \subseteq Existing'
    /\ \A d \in AllDatasets :
          \/ grants'[d] = grants[d]
          \/ d \in Raw /\ d \in narrowed'
          \/ /\ d \in Names /\ grants[d] = {} /\ \E u \in Authors : grants'[d] = {u}
             /\ d \in Existing => d \in narrowed'
             /\ d \in Existing \/ d \in raced' \/ PublishedNext(d)

JobsMove ==
    \A j \in Jobs : \/ JobStays(j) \/ JobStales(j)
                    \/ job'[j] = Quiet /\ job[j].pc = "publish" /\ job[j].name \in Existing'
                    \/ Collect(j) \/ CheckTask(j) \/ ReadInputs(j)

GuardsMove ==
    \A r \in Requests : request'[r].pc = "guard" /\ ~request'[r].stale =>
        GuardStays(r) \/ BeginEject(r)

HoldsMove ==
    \A n \in Names : holds'[n] # Missing => \A h \in holds'[n] :
        \/ holds[n] # Missing /\ h \in holds[n] /\ Steady(h.source)
        \/ \E j \in Jobs : Publish(j) /\ job[j].name = n /\ ~job[j].stale /\ h \in job[j].rows

LEMMA RowsAreOfRaw ==
    ASSUME FlowsTyped, NEW n \in Names, holds[n] # Missing, NEW h \in holds[n]
    PROVE  h.source \in Raw /\ h.source \in AllDatasets
<1>1. holds[n] \in SUBSET Rows
  BY DEF FlowsTyped
<1> QED BY <1>1 DEF Rows, AllDatasets

\* A step that leaves the tables and the datasets alone.
LEMMA TablesStay ==
    ASSUME FlowsTyped, UNCHANGED <<grants, shared, policy, narrowed, holds>>, raced \subseteq raced'
    PROVE  GrantsMove /\ HoldsMove /\ \A d \in AllDatasets : Steady(d)
<1>1. \A d \in AllDatasets : Steady(d)
  BY DEF Steady
<1>2. GrantsMove
  BY DEF GrantsMove, Existing
<1>3. HoldsMove
  BY <1>1, RowsAreOfRaw DEF HoldsMove
<1> QED BY <1>1, <1>2, <1>3

\* One of a request besides.
LEMMA RequestMoves ==
    ASSUME FlowsTyped, UNCHANGED <<grants, shared, policy, narrowed, holds, job>>,
           raced \subseteq raced',
           NEW r \in Requests, NEW frame, Step(r, frame), frame.pc = "guard" => BeginEject(r)
    PROVE  GrantsMove /\ JobsMove /\ GuardsMove /\ HoldsMove
<1>1. GrantsMove /\ HoldsMove /\ \A d \in AllDatasets : Steady(d)
  BY TablesStay
<1> HIDE DEF Steady
<1>2. JobsMove
  BY <1>1, NothingIsDisturbed DEF JobsMove
<1>3. GuardsMove
  <2> SUFFICES ASSUME NEW q \in Requests, request'[q].pc = "guard" PROVE GuardStays(q) \/ BeginEject(q)
    BY DEF GuardsMove
  <2>1. CASE q = r
    BY <2>1 DEF Step, FlowsTyped
  <2>2. CASE q # r
    <3>1. request'[q] = request[q]
      BY <2>2 DEF Step, FlowsTyped
    <3> QED BY <3>1, <1>1, NothingIsDisturbed
  <2> QED BY <2>1, <2>2
<1> QED BY <1>1, <1>2, <1>3

\* One of a build besides.
LEMMA BuildMoves ==
    ASSUME FlowsTyped, UNCHANGED <<grants, shared, policy, narrowed, holds, request, raced>>,
           NEW j \in Jobs, NEW frame, Work(j, frame), Collect(j) \/ CheckTask(j)
    PROVE  GrantsMove /\ JobsMove /\ GuardsMove /\ HoldsMove
<1>1. GrantsMove /\ HoldsMove /\ \A d \in AllDatasets : Steady(d)
  BY TablesStay
<1> HIDE DEF Steady
<1>2. GuardsMove
  BY <1>1, NothingIsDisturbed DEF GuardsMove
<1>3. JobsMove
  <2> SUFFICES ASSUME NEW k \in Jobs
               PROVE  JobStays(k) \/ Collect(k) \/ CheckTask(k)
    BY DEF JobsMove
  <2>1. CASE k = j
    BY <2>1 DEF Work, FlowsTyped
  <2>2. CASE k # j
    <3>1. job'[k] = job[k]
      BY <2>2 DEF Work, FlowsTyped
    <3> QED BY <3>1, <1>1, NothingIsDisturbed
  <2> QED BY <2>1, <2>2
<1> QED BY <1>1, <1>2, <1>3

LEMMA DecreeMoves ==
    ASSUME FlowsTyped, NEW s \in Raw, Decree(s), \A d \in AllDatasets \ {s} : Steady(d),
           grants'[s] = grants[s] \/ s \in narrowed',
           shared \subseteq shared', narrowed \subseteq narrowed'
    PROVE  GrantsMove /\ JobsMove /\ GuardsMove /\ HoldsMove
<1>1. GrantsMove
  <2>1. Existing \subseteq Existing'
    BY ForgottenTyped DEF Decree, Existing
  <2> QED BY <2>1 DEF GrantsMove, Decree, Steady, histories
<1> HIDE DEF Steady
<1>2. /\ \A j \in Jobs : job'[j] = Staled(job, s)[j]
      /\ \A r \in Requests : request'[r] = Staled(request, s)[r]
  BY DEF Decree, Disturbed
<1>3. JobsMove
  BY <1>2, OneIsDisturbed DEF JobsMove
<1>4. GuardsMove
  <2> SUFFICES ASSUME NEW r \in Requests, request'[r].pc = "guard", ~request'[r].stale
               PROVE  GuardStays(r)
    BY DEF GuardsMove
  <2>1. CASE request'[r] = [request[r] EXCEPT !.stale = TRUE]
    <3>1. request[r].pc = "guard"
      BY <2>1
    <3>2. request[r] \in GuardFrames
      BY <3>1, RequestsApart
    <3>3. request'[r].stale
      BY <2>1, <3>2 DEF GuardFrames
    <3> QED BY <3>3
  <2> QED BY <2>1, <1>2, OneIsDisturbed
<1>5. HoldsMove
  <2> SUFFICES ASSUME NEW n \in Names, holds'[n] # Missing, NEW h \in holds'[n]
               PROVE  holds[n] # Missing /\ h \in holds[n] /\ Steady(h.source)
    BY DEF HoldsMove
  <2>1. holds'[n] = IF holds[n] = Missing THEN Missing ELSE {g \in holds[n] : g.source # s}
    BY DEF Decree, Forgotten
  <2>2. holds[n] # Missing /\ h \in holds[n] /\ h.source # s
    BY <2>1
  <2> QED BY <2>2, RowsAreOfRaw
<1> QED BY <1>1, <1>3, <1>4, <1>5

LEMMA GuardNotStale ==
    ASSUME FlowsTyped, NEW r \in Requests, request'[r] = [request[r] EXCEPT !.stale = TRUE],
           request'[r].pc = "guard"
    PROVE  request'[r].stale
<1>1. request[r].pc = "guard"
  OBVIOUS
<1>2. request[r] \in GuardFrames
  BY <1>1, RequestsApart
<1> QED BY <1>2 DEF GuardFrames

LEMMA FlowsMove ==
    ASSUME FlowsTyped, [FlowsNext]_flowVars PROVE GrantsMove /\ JobsMove /\ GuardsMove /\ HoldsMove
<1> DEFINE Moves == GrantsMove /\ JobsMove /\ GuardsMove /\ HoldsMove
<1> USE DEF tables, histories
<1>1. CASE UNCHANGED flowVars
  <2>1. GrantsMove /\ HoldsMove /\ \A d \in AllDatasets : Steady(d)
    BY <1>1, TablesStay DEF flowVars
  <2>2. JobsMove /\ GuardsMove
    <3> HIDE DEF Steady
    <3> QED BY <2>1, <1>1, NothingIsDisturbed DEF JobsMove, GuardsMove, flowVars
  <2> QED BY <2>1, <2>2
<1>2. ASSUME NEW r \in Requests, BeginFlow(r) PROVE Moves
  <2>1. PICK frame : /\ Step(r, frame) /\ frame.pc = "land"
                     /\ UNCHANGED <<tables, flow, code, stamp, holds, histories, job>>
    BY <1>2 DEF BeginFlow
  <2> QED BY <2>1, RequestMoves
<1>3. ASSUME NEW r \in Requests, LandFlow(r) PROVE Moves
  BY <1>3, RequestMoves DEF LandFlow, Done, Quiet
<1>4. CASE DeleteFlow
  <2>1. UNCHANGED <<tables, holds, histories, request, job>>
    BY <1>4 DEF DeleteFlow
  <2>2. GrantsMove /\ HoldsMove /\ \A d \in AllDatasets : Steady(d)
    BY <2>1, TablesStay
  <2>3. JobsMove /\ GuardsMove
    <3> HIDE DEF Steady
    <3> QED BY <2>1, <2>2, NothingIsDisturbed DEF JobsMove, GuardsMove
  <2> QED BY <2>2, <2>3
<1>5. ASSUME NEW r \in Requests, WriteCode(r) PROVE Moves
  <2>1. PICK frame : /\ Step(r, frame) /\ frame.pc = "stamp"
                     /\ UNCHANGED <<tables, flow, stamp, holds, histories, job>>
    BY <1>5 DEF WriteCode
  <2> QED BY <2>1, RequestMoves
<1>6. ASSUME NEW r \in Requests, StampCode(r) PROVE Moves
  BY <1>6, RequestMoves DEF StampCode, Done, Quiet
<1>7. ASSUME NEW r \in Requests, DeleteCode(r) PROVE Moves
  <2>1. PICK frame : /\ Step(r, frame) /\ frame.pc = "unstamp"
                     /\ UNCHANGED <<tables, flow, stamp, holds, histories, job>>
    BY <1>7 DEF DeleteCode
  <2> QED BY <2>1, RequestMoves
<1>8. ASSUME NEW r \in Requests, Unstamp(r) PROVE Moves
  <2>1. raced \subseteq raced'
    BY <1>8 DEF Unstamp
  <2> QED BY <1>8, <2>1, RequestMoves DEF Unstamp, Done, Quiet
<1>9. ASSUME NEW r \in Requests, BeginEject(r) PROVE Moves
  <2>1. PICK frame : /\ Step(r, frame)
                     /\ UNCHANGED <<tables, flow, code, stamp, holds, histories, job>>
    BY <1>9 DEF BeginEject
  <2> QED BY <1>9, <2>1, RequestMoves
<1>10. ASSUME NEW r \in Requests, GuardEject(r) PROVE Moves
  <2> DEFINE n == request[r].name
  <2>1. n \in Names /\ request[r].file.author \in Authors
    BY <1>10, RequestsApart DEF GuardEject, GuardFrames, Written
  <2>2. RestrictOutput(n, request[r].file, request[r].file.author)
    BY <1>10 DEF GuardEject
  <2>3. raced \subseteq raced' /\ UNCHANGED <<shared, policy, holds>> /\ job' = Unsettled(job, n)
    BY <1>10 DEF GuardEject
  <2>4. GrantsMove
    <3>1. grants' # grants => n \in Existing \/ n \in raced'
      BY <1>10 DEF GuardEject
    <3> QED BY <2>1, <2>2, <2>3, <3>1, RestrictDoes DEF GrantsMove, Existing, Steady
  <2>5. JobsMove
    BY <2>1, <2>2, <2>3, RestrictDoes DEF JobsMove
  <2>6. GuardsMove
    <3> SUFFICES ASSUME NEW q \in Requests, request'[q].pc = "guard", ~request'[q].stale
                 PROVE  GuardStays(q)
      BY DEF GuardsMove
    <3>1. q # r /\ request'[q] = Unsettled(request, n)[q]
      <4>1. r \in DOMAIN Unsettled(request, n) /\ q \in DOMAIN Unsettled(request, n)
        BY DEF Unsettled, Staled, FlowsTyped
      <4>2. request'[r].pc = "generate"
        BY <1>10, <4>1 DEF GuardEject
      <4> QED BY <1>10, <4>1, <4>2 DEF GuardEject
    <3> QED BY <2>1, <2>2, <2>3, <3>1, RestrictDoes, GuardNotStale, ZenonT(60)
  <2>7. HoldsMove
    <3> SUFFICES ASSUME NEW m \in Names, holds'[m] # Missing, NEW h \in holds'[m]
                 PROVE  holds[m] # Missing /\ h \in holds[m] /\ Steady(h.source)
      BY DEF HoldsMove
    <3>1. h.source \in AllDatasets \ {n}
      BY <2>1, <2>3, RowsAreOfRaw, FlowsAssumption
    <3> QED BY <2>1, <2>2, <2>3, <3>1, RestrictDoes
  <2> QED BY <2>4, <2>5, <2>6, <2>7
<1>11. ASSUME NEW r \in Requests, GenerateCode(r) PROVE Moves
  <2>1. PICK frame : Step(r, frame) /\ frame.pc # "guard"
    BY <1>11 DEF GenerateCode
  <2> QED BY <1>11, <2>1, RequestMoves DEF GenerateCode
<1>12. ASSUME NEW r \in Requests, UnlinkFlow(r) PROVE Moves
  <2>1. PICK frame : Step(r, frame) /\ frame.pc # "guard"
    BY <1>12 DEF UnlinkFlow, Done, Quiet
  <2> QED BY <1>12, <2>1, RequestMoves DEF UnlinkFlow
<1>13. ASSUME NEW r \in Requests, DropRequest(r) PROVE Moves
  BY <1>13, RequestMoves DEF DropRequest, Done, Quiet
<1>14. CASE Narrow
  <2>1. PICK s \in Raw, u \in Authors :
           /\ Decree(s) /\ grants' = [grants EXCEPT ![s] = {u}]
           /\ narrowed' = narrowed \cup {s}
           /\ shared' = shared \cup {n \in Names \ Existing : grants[n] # {}}
           /\ UNCHANGED policy
    BY <1>14 DEF Narrow
  <2>2. \A d \in AllDatasets \ {s} : Steady(d)
    BY <2>1 DEF Steady, FlowsTyped
  <2> QED BY <2>1, <2>2, DecreeMoves
<1>15. CASE SetPolicy
  <2>1. PICK s \in Raw, how \in {"mask", "row"} :
           Decree(s) /\ policy' = [policy EXCEPT ![s] = how] /\ UNCHANGED <<grants, shared, narrowed>>
    BY <1>15 DEF SetPolicy
  <2>2. \A d \in AllDatasets \ {s} : Steady(d)
    BY <2>1 DEF Steady, FlowsTyped
  <2> QED BY <2>1, <2>2, DecreeMoves
<1>16. ASSUME NEW j \in Jobs, Collect(j) PROVE Moves
  <2>1. PICK frame : Work(j, frame) /\ UNCHANGED <<tables, flow, code, stamp, holds, histories, request>>
    BY <1>16 DEF Collect
  <2> QED BY <1>16, <2>1, BuildMoves
<1>17. ASSUME NEW j \in Jobs, CheckTask(j) PROVE Moves
  <2>1. PICK frame : Work(j, frame) /\ UNCHANGED <<tables, flow, code, stamp, holds, histories, request>>
    BY <1>17 DEF CheckTask
  <2> QED BY <1>17, <2>1, BuildMoves
<1>18. ASSUME NEW j \in Jobs, ReadInputs(j) PROVE Moves
  <2> DEFINE n == job[j].name
             f == job[j].file
  <2>1. n \in Names /\ f.author \in Authors
    BY <1>18, JobsApart DEF ReadInputs, TaskFrames, Written
  <2>2. /\ UNCHANGED <<shared, policy, holds, raced>>
        /\ \A k \in Jobs \ {j} : job'[k] = Unsettled(job, n)[k]
        /\ \A r \in Requests : request'[r] = Unsettled(request, n)[r]
    <3>1. \A k \in Jobs : k \in DOMAIN Unsettled(job, n)
      BY DEF Unsettled, Staled, FlowsTyped
    <3> QED BY <1>18, <3>1 DEF ReadInputs
  <2>3. CASE job[j].flow
    <3>1. RestrictOutput(n, f, f.author)
      BY <1>18, <2>3 DEF ReadInputs
    <3>2. GrantsMove
      <4>1. PublishedNext(n)
        <5>1. j \in DOMAIN Unsettled(job, n)
          BY DEF Unsettled, Staled, FlowsTyped
        <5> QED BY <1>18, <5>1 DEF ReadInputs, PublishedNext
      <4> QED BY <2>1, <2>2, <3>1, <4>1, RestrictDoes DEF GrantsMove, Existing, Steady
    <3>3. JobsMove
      BY <1>18, <2>1, <2>2, <3>1, RestrictDoes DEF JobsMove
    <3>4. GuardsMove
      <4> SUFFICES ASSUME NEW r \in Requests, request'[r].pc = "guard", ~request'[r].stale
                   PROVE  GuardStays(r)
        BY DEF GuardsMove
      <4>1. GuardStays(r) \/ request'[r] = [request[r] EXCEPT !.stale = TRUE]
        BY <2>1, <2>2, <3>1, RestrictDoes
      <4> QED BY <4>1, GuardNotStale
    <3>5. HoldsMove
      <4> SUFFICES ASSUME NEW m \in Names, holds'[m] # Missing, NEW h \in holds'[m]
                   PROVE  holds[m] # Missing /\ h \in holds[m] /\ Steady(h.source)
        BY DEF HoldsMove
      <4>1. h.source \in AllDatasets \ {n}
        BY <2>1, <2>2, RowsAreOfRaw, FlowsAssumption
      <4> QED BY <2>1, <2>2, <3>1, <4>1, RestrictDoes
    <3> QED BY <3>2, <3>3, <3>4, <3>5
  <2>4. CASE ~job[j].flow
    <3>1. UNCHANGED <<grants, narrowed>>
      BY <1>18, <2>4 DEF ReadInputs
    <3>2. Unsettled(job, n) = job /\ Unsettled(request, n) = request
      BY <3>1 DEF Unsettled
    <3>3. GrantsMove /\ HoldsMove /\ \A d \in AllDatasets : Steady(d)
      BY <3>1, <2>2, TablesStay
    <3>4. JobsMove /\ GuardsMove
      <4> HIDE DEF Steady
      <4> QED BY <1>18, <3>3, <3>2, <2>2, NothingIsDisturbed DEF JobsMove, GuardsMove
    <3> QED BY <3>3, <3>4
  <2> QED BY <2>3, <2>4
<1>19. ASSUME NEW j \in Jobs, Publish(j) PROVE Moves
  <2> DEFINE n == job[j].name
  <2>1. /\ n \in Names /\ UNCHANGED <<tables, raced, request>>
        /\ holds' = [holds EXCEPT ![n] = IF job[j].stale THEN {} ELSE job[j].rows]
        /\ \A k \in Jobs \ {j} : job'[k] = Staled(job, n)[k]
        /\ job'[j] = Quiet
    <3>1. \A k \in Jobs : k \in DOMAIN Staled(job, n)
      BY DEF Staled, FlowsTyped
    <3> QED BY <1>19, <3>1, JobsApart DEF Publish, Disturbed, PublishFrames
  <2>2. \A d \in AllDatasets : Steady(d)
    BY <2>1 DEF Steady
  <2>3. GrantsMove
    <3>1. Existing \subseteq Existing'
      <4>1. (IF job[j].stale THEN {} ELSE job[j].rows) \in SUBSET Rows
        BY <1>19, JobsApart DEF Publish, PublishFrames
      <4> QED BY <2>1, <4>1, MissingIsNoRows DEF FlowsTyped, Existing
    <3> QED BY <2>1, <3>1 DEF GrantsMove
  <2>4. JobsMove
    <3>1. job[j].pc = "publish" /\ n \in Existing'
      <4>1. (IF job[j].stale THEN {} ELSE job[j].rows) \in SUBSET Rows
        BY <1>19, JobsApart DEF Publish, PublishFrames
      <4> QED BY <1>19, <2>1, <4>1, MissingIsNoRows DEF FlowsTyped, Existing, Publish
    <3> HIDE DEF Steady
    <3> QED BY <2>1, <2>2, <3>1, OneIsDisturbed DEF JobsMove
  <2>5. GuardsMove
    <3> HIDE DEF Steady
    <3> QED BY <2>1, <2>2, NothingIsDisturbed DEF GuardsMove
  <2>6. HoldsMove
    <3> SUFFICES ASSUME NEW m \in Names, holds'[m] # Missing, NEW h \in holds'[m]
                 PROVE  \/ holds[m] # Missing /\ h \in holds[m] /\ Steady(h.source)
                        \/ m = n /\ ~job[j].stale /\ h \in job[j].rows
      BY <1>19 DEF HoldsMove
    <3>1. CASE m = n
      BY <2>1, <3>1 DEF FlowsTyped
    <3>2. CASE m # n
      <4>1. holds'[m] = holds[m]
        BY <2>1, <3>2 DEF FlowsTyped
      <4>2. h.source \in AllDatasets
        BY <4>1, RowsAreOfRaw
      <4> QED BY <4>1, <4>2, <2>2
    <3> QED BY <3>1, <3>2
  <2> QED BY <2>3, <2>4, <2>5, <2>6
<1> QED BY <1>1, <1>2, <1>3, <1>4, <1>5, <1>6, <1>7, <1>8, <1>9, <1>10, <1>11, <1>12, <1>13, <1>14,
          <1>15, <1>16, <1>17, <1>18, <1>19 DEF FlowsNext

-----------------------------------------------------------------------------
(***************************************************************************)
(* Each part of CopiesInv is kept.                                         *)
(***************************************************************************)
LEMMA StaleKeepsFrame ==
    ASSUME FlowsTyped, NEW j \in Jobs, JobStales(j)
    PROVE  /\ job'[j].pc = job[j].pc /\ job'[j].name = job[j].name /\ job'[j].file = job[j].file
           /\ job'[j].stale /\ (job[j].pc = "read" => job'[j].flow = job[j].flow)
<1>1. CASE job[j].pc = "read"
  BY <1>1, JobsApart DEF JobStales, TaskFrames
<1>2. CASE job[j].pc = "publish"
  BY <1>2, JobsApart DEF JobStales, PublishFrames
<1> QED BY <1>1, <1>2 DEF JobStales

\* What a build that is checked goes on with.
LEMMA CheckedFrame ==
    ASSUME FlowsTyped, NEW j \in Jobs, CheckTask(j), job'[j].pc \in {"check", "read"}
    PROVE  /\ job[j].pc = "check" /\ job[j] \in TaskFrames
           /\ job'[j].pc = "read" /\ Permitted(j) /\ job[j].file.sources \subseteq Existing
           /\ job'[j].name = job[j].name /\ job'[j].file = job[j].file /\ job'[j].flow = job[j].flow
           /\ ~job'[j].stale => ~\E k \in Jobs : job[k].pc = "publish" /\ job[k].name = job[j].name
           /\ UNCHANGED <<tables, flow, code, stamp, holds, histories, request>>
<1>1. job[j].pc = "check" /\ job[j] \in TaskFrames
  BY JobsApart DEF CheckTask
<1>2. job'[j] = [job[j] EXCEPT !.pc = "read",
                    !.stale = \E k \in Jobs : job[k].pc = "publish" /\ job[k].name = job[j].name]
      /\ Permitted(j) /\ job[j].file.sources \subseteq Existing
  BY DEF CheckTask, Work, FlowsTyped, Quiet
<1> DEFINE b == \E k \in Jobs : job[k].pc = "publish" /\ job[k].name = job[j].name
<1>3. b \in BOOLEAN
  OBVIOUS
<1> HIDE DEF b
<1>4. job'[j] = [job[j] EXCEPT !.pc = "read", !.stale = b]
  BY <1>2 DEF b
<1>5. /\ job'[j].pc = "read" /\ job'[j].name = job[j].name /\ job'[j].file = job[j].file
      /\ job'[j].flow = job[j].flow /\ job'[j].stale = b
  BY <1>1, <1>4 DEF TaskFrames
<1> QED BY <1>1, <1>2, <1>5 DEF CheckTask, b

LEMMA CollectedFrame ==
    ASSUME FlowsTyped, NEW j \in Jobs, Collect(j)
    PROVE  /\ job'[j].pc = "check" /\ job'[j].name \in Names
           /\ job'[j].flow <=> flow[job'[j].name] # NoFile
           /\ job'[j].file = Producer(job'[j].name) /\ Producer(job'[j].name) # NoFile
           /\ UNCHANGED <<tables, flow, code, stamp, holds, histories, request>>
<1>1. PICK n \in Names :
         /\ Producer(n) # NoFile
         /\ Work(j, [pc |-> "check", name |-> n, file |-> Producer(n),
                     flow |-> flow[n] # NoFile, stale |-> FALSE])
         /\ UNCHANGED <<tables, flow, code, stamp, holds, histories, request>>
  BY DEF Collect
<1> DEFINE b == flow[n] # NoFile
<1> HIDE DEF b
<1>2. job'[j] = [pc |-> "check", name |-> n, file |-> Producer(n), flow |-> b, stale |-> FALSE]
  BY <1>1 DEF Work, FlowsTyped, b
<1>3. job'[j].pc = "check" /\ job'[j].name = n /\ job'[j].file = Producer(n) /\ job'[j].flow = b
  BY <1>2
<1> QED BY <1>1, <1>3 DEF b

LEMMA ReadFrame ==
    ASSUME FlowsTyped, NEW j \in Jobs, ReadInputs(j)
    PROVE  /\ job[j] \in TaskFrames /\ job[j].pc = "read"
           /\ job'[j] = [pc |-> "publish", name |-> job[j].name, file |-> job[j].file,
                         rows |-> Copied(j), stale |-> job[j].stale]
           /\ job'[j].pc = "publish" /\ job'[j].name = job[j].name
           /\ job'[j].rows = Copied(j) /\ job'[j].stale = job[j].stale
           /\ UNCHANGED <<shared, policy, flow, code, stamp, holds, raced>>
<1>1. j \in DOMAIN Unsettled(job, job[j].name)
  BY DEF Unsettled, Staled, FlowsTyped
<1>2. /\ job[j] \in TaskFrames /\ job[j].pc = "read"
      /\ job'[j] = [pc |-> "publish", name |-> job[j].name, file |-> job[j].file,
                    rows |-> Copied(j), stale |-> job[j].stale]
      /\ UNCHANGED <<shared, policy, flow, code, stamp, holds, raced>>
  BY <1>1, JobsApart DEF ReadInputs, histories
<1> QED BY <1>2

-----------------------------------------------------------------------------
LEMMA GrantsStayOnes ==
    ASSUME FlowsTyped, GrantsAreOnes, GrantsMove PROVE GrantsAreOnes'
<1> SUFFICES ASSUME NEW n \in Names, grants'[n] # {}
             PROVE  n \in shared' \/ \E u \in Authors : grants'[n] = {u}
  BY DEF GrantsAreOnes
<1>1. n \in AllDatasets /\ n \notin Raw
  BY FlowsAssumption DEF AllDatasets
<1> QED BY <1>1 DEF GrantsAreOnes, GrantsMove

LEMMA GrantedStaysPublished ==
    ASSUME FlowsTyped, GrantedIsPublished, GrantsMove, JobsMove PROVE GrantedIsPublished'
<1> SUFFICES ASSUME NEW n \in Names \ raced', grants'[n] # {}, n \notin Existing'
             PROVE  PublishedNext(n)
  BY DEF GrantedIsPublished, PublishedNext
<1>1. n \in AllDatasets /\ n \notin Raw /\ n \notin raced /\ n \notin Existing
  BY FlowsAssumption DEF AllDatasets, GrantsMove
<1>2. CASE grants'[n] = grants[n]
  <2>1. PICK k \in Jobs : job[k].pc = "publish" /\ job[k].name = n
    BY <1>1, <1>2 DEF GrantedIsPublished
  <2>2. job[k].pc = "publish" /\ ~Collect(k) /\ ~CheckTask(k) /\ ~ReadInputs(k)
    BY <2>1 DEF Collect, CheckTask, ReadInputs
  <2>3. CASE JobStays(k)
    BY <2>1, <2>3 DEF JobStays, PublishedNext
  <2>4. CASE JobStales(k)
    BY <2>1, <2>4, StaleKeepsFrame DEF PublishedNext
  <2> QED BY <2>1, <2>2, <2>3, <2>4 DEF JobsMove
<1>3. CASE grants'[n] # grants[n]
  BY <1>1, <1>3 DEF GrantsMove
<1> QED BY <1>2, <1>3

\* The grant of many is the one it was, and an administrator's.
LEMMA ManyStay ==
    ASSUME FlowsTyped, GrantsAreOnes, GrantsMove, NEW n \in Names, Many(n)'
    PROVE  grants'[n] = grants[n] /\ Many(n) /\ n \in shared /\ n \in shared'
<1>1. n \in AllDatasets /\ n \notin Raw
  BY FlowsAssumption DEF AllDatasets
<1>2. grants'[n] = grants[n]
  BY <1>1 DEF GrantsMove, Many
<1> QED BY <1>2 DEF GrantsAreOnes, Many, GrantsMove

LEMMA WideningsStay ==
    ASSUME FlowsTyped, GrantsAreOnes, GrantsMove, NEW n \in Names, Many(n)',
           NEW f \in Written, WidensNothing(n, f)
    PROVE  WidensNothing(n, f)'
<1> SUFFICES ASSUME NEW d \in f.sources PROVE d \in Existing' /\ Under(n, d)'
  BY DEF WidensNothing
<1>1. d \in AllDatasets /\ d \in Existing /\ Under(n, d)
  BY DEF WidensNothing, Written
<1>2. d \in Existing'
  BY <1>1 DEF GrantsMove
<1>3. grants'[n] = grants[n] /\ n \in shared /\ n \in shared'
  BY ManyStay
<1>4. Conceded(n, d) => Conceded(n, d)'
  BY <1>3 DEF Conceded, GrantsMove
<1>5. CASE grants'[d] = grants[d]
  BY <1>1, <1>2, <1>3, <1>4, <1>5 DEF Under
<1>6. CASE d \in narrowed'
  BY <1>2, <1>3, <1>6 DEF Under, Conceded
<1> QED BY <1>1, <1>2, <1>5, <1>6 DEF GrantsMove

\* Where a flow, or a frame with one, is from.
LandingOf(n, f) == \E r \in Requests : request[r].pc = "land" /\ request[r].name = n /\ request[r].file = f

FlowJobOf(n, f) ==
    \E j \in Jobs : job[j].pc \in {"check", "read"} /\ job[j].flow /\ job[j].name = n /\ job[j].file = f

LEMMA FlowsComeFromRequests ==
    ASSUME FlowsTyped, [FlowsNext]_flowVars, NEW n \in Names, flow'[n] # NoFile
    PROVE  flow'[n] = flow[n] \/ LandingOf(n, flow'[n])
<1>1. ASSUME NEW r \in Requests, LandFlow(r) PROVE flow'[n] = flow[n] \/ LandingOf(n, flow'[n])
  <2>1. request[r].pc = "land" /\ flow' = [flow EXCEPT ![request[r].name] = request[r].file]
    BY <1>1 DEF LandFlow
  <2> QED BY <2>1 DEF FlowsTyped, LandingOf
<1>2. CASE DeleteFlow
  BY <1>2 DEF DeleteFlow, FlowsTyped
<1>3. ASSUME NEW r \in Requests, UnlinkFlow(r) PROVE flow'[n] = flow[n]
  BY <1>3 DEF UnlinkFlow, FlowsTyped
<1>4. ASSUME NEW r \in Requests,
             BeginFlow(r) \/ WriteCode(r) \/ StampCode(r) \/ DeleteCode(r) \/ Unstamp(r)
             \/ BeginEject(r) \/ GuardEject(r) \/ GenerateCode(r) \/ DropRequest(r)
      PROVE  flow' = flow
  BY <1>4 DEF BeginFlow, WriteCode, StampCode, DeleteCode, Unstamp, BeginEject, GuardEject,
              GenerateCode, DropRequest
<1>5. Narrow \/ SetPolicy \/ UNCHANGED flowVars => flow' = flow
  BY DEF Narrow, SetPolicy, Decree, flowVars
<1>6. ASSUME NEW j \in Jobs, Collect(j) \/ CheckTask(j) \/ ReadInputs(j) \/ Publish(j)
      PROVE  flow' = flow
  BY <1>6 DEF Collect, CheckTask, ReadInputs, Publish
<1> QED BY <1>1, <1>2, <1>3, <1>4, <1>5, <1>6 DEF FlowsNext

LEMMA LandingsComeFromSaves ==
    ASSUME FlowsTyped, [FlowsNext]_flowVars, NEW r \in Requests, request'[r].pc = "land"
    PROVE  request'[r] = request[r] \/ BeginFlow(r)
<1> DEFINE Ok == request'[r] = request[r] \/ BeginFlow(r)
<1>0. ASSUME NEW q \in Requests, NEW frame, Step(q, frame), frame.pc # "land" PROVE request'[r] = request[r]
  BY <1>0 DEF Step, FlowsTyped
<1>1. ASSUME NEW q \in Requests, BeginFlow(q) PROVE Ok
  <2>1. PICK frame : Step(q, frame)
    BY <1>1 DEF BeginFlow
  <2> QED BY <1>1, <2>1 DEF Step, FlowsTyped
<1>2. ASSUME NEW q \in Requests,
             LandFlow(q) \/ WriteCode(q) \/ StampCode(q) \/ DeleteCode(q) \/ Unstamp(q)
             \/ BeginEject(q) \/ GenerateCode(q) \/ UnlinkFlow(q) \/ DropRequest(q)
      PROVE  Ok
  <2>1. WriteCode(q) => \E frame : Step(q, frame) /\ frame.pc # "land"
    BY DEF WriteCode
  <2>5. DeleteCode(q) => \E frame : Step(q, frame) /\ frame.pc # "land"
    BY DEF DeleteCode
  <2>6. BeginEject(q) => \E frame : Step(q, frame) /\ frame.pc # "land"
    BY DEF BeginEject
  <2>2. GenerateCode(q) \/ UnlinkFlow(q) => \E frame : Step(q, frame) /\ frame.pc # "land"
    BY DEF GenerateCode, UnlinkFlow, Done, Quiet
  <2>3. LandFlow(q) \/ StampCode(q) \/ Unstamp(q) \/ DropRequest(q) => Step(q, Quiet)
    BY DEF LandFlow, StampCode, Unstamp, DropRequest, Done
  <2>4. Quiet.pc # "land"
    BY DEF Quiet
  <2> QED BY <1>2, <2>1, <2>2, <2>3, <2>4, <2>5, <2>6, <1>0
<1>3. ASSUME NEW x PROVE Staled(request, x)[r].pc = "land" => Staled(request, x)[r] = request[r]
  BY RequestsApart DEF Staled, FlowsTyped, GuardFrames, Quiet
<1>4. ASSUME NEW q \in Requests, GuardEject(q) PROVE Ok
  <2>1. r \in DOMAIN Unsettled(request, request[q].name)
    BY DEF Unsettled, Staled, FlowsTyped
  <2>2. request'[r] = Unsettled(request, request[q].name)[r]
    BY <1>4, <2>1 DEF GuardEject
  <2> QED BY <2>2, <1>3 DEF Unsettled
<1>5. ASSUME NEW s, Decree(s) PROVE Ok
  BY <1>5, <1>3 DEF Decree
<1>6. ASSUME NEW j \in Jobs, ReadInputs(j) PROVE Ok
  BY <1>6, <1>3 DEF ReadInputs, Unsettled
<1> QED BY <1>1, <1>2, <1>4, <1>5, <1>6 DEF FlowsNext, flowVars, DeleteFlow, Narrow, SetPolicy,
           Collect, CheckTask, Publish

\* What a save checked, it checked of the flow.
LEMMA SavedIsChecked ==
    ASSUME FlowsTyped, NEW r \in Requests, BeginFlow(r)
    PROVE  /\ request'[r] \in LandFrames
           /\ LET q == request'[r] IN
              /\ Governed(q.file.author, q.name, q.file) /\ NotWider(q.name, q.file)
              /\ q.registry = Registry
              /\ q.name \notin Upstream([Registry EXCEPT ![q.name] = q.file.sources], q.name)
           /\ UNCHANGED <<tables, flow, code, stamp, holds, histories, job>>
<1>1. PICK n \in Names, u \in Authors, ds \in SUBSET AllDatasets :
        \E touches \in SUBSET (ds \cap Raw) :
          LET f == [NoFile EXCEPT !.sources = ds, !.touches = touches, !.author = u] IN
          /\ ~ClosesCycle(n, f) /\ Governed(u, n, f) /\ NotWider(n, f)
          /\ Step(r, [pc |-> "land", name |-> n, file |-> f, registry |-> Registry])
          /\ UNCHANGED <<tables, flow, code, stamp, holds, histories, job>>
  BY ZenonT(60) DEF BeginFlow
<1>2. PICK touches \in SUBSET (ds \cap Raw) :
          LET f == [NoFile EXCEPT !.sources = ds, !.touches = touches, !.author = u] IN
          /\ ~ClosesCycle(n, f) /\ Governed(u, n, f) /\ NotWider(n, f)
          /\ Step(r, [pc |-> "land", name |-> n, file |-> f, registry |-> Registry])
          /\ UNCHANGED <<tables, flow, code, stamp, holds, histories, job>>
  BY <1>1
<1> DEFINE f == [NoFile EXCEPT !.sources = ds, !.touches = touches, !.author = u]
<1>3. f \in Written /\ f.author = u
  BY DEF NoFile, Written, AllDatasets
<1>4. /\ ~ClosesCycle(n, f) /\ Governed(u, n, f) /\ NotWider(n, f)
      /\ Step(r, [pc |-> "land", name |-> n, file |-> f, registry |-> Registry])
      /\ UNCHANGED <<tables, flow, code, stamp, holds, histories, job>>
  BY <1>2
<1> HIDE DEF f
<1>5. request'[r] = [pc |-> "land", name |-> n, file |-> f, registry |-> Registry]
  BY <1>4 DEF Step, FlowsTyped
<1>6. request'[r] \in LandFrames
  BY <1>3, <1>5, FilesTyped DEF LandFrames
<1> QED BY <1>3, <1>4, <1>5, <1>6 DEF ClosesCycle

LEMMA FlowsStillWidenNothing ==
    ASSUME FlowsTyped, [FlowsNext]_flowVars, GrantsAreOnes, FlowsWidenNothing, GrantsMove, JobsMove
    PROVE  FlowsWidenNothing'
<1> SUFFICES ASSUME NEW n \in Names, NEW f \in Written, FlowOf(n, f)', Many(n)'
             PROVE  WidensNothing(n, f)'
  BY DEF FlowsWidenNothing
<1>0. Many(n) /\ (FlowOf(n, f) => WidensNothing(n, f)')
  BY ManyStay, WideningsStay DEF FlowsWidenNothing
<1>1. CASE flow'[n] = f /\ f # NoFile
  <2>1. flow[n] = f \/ LandingOf(n, f)
    BY <1>1, FlowsComeFromRequests
  <2>2. FlowOf(n, f)
    BY <1>1, <2>1 DEF FlowOf, LandingOf
  <2> QED BY <2>2, <1>0
<1>2. CASE LandingOf(n, f)'
  <2>1. PICK r \in Requests : request'[r].pc = "land" /\ request'[r].name = n /\ request'[r].file = f
    BY <1>2 DEF LandingOf
  <2>2. CASE request'[r] = request[r]
    BY <2>1, <2>2, <1>0 DEF FlowOf
  <2>3. CASE BeginFlow(r)
    <3>1. SourcesReadable(f.author, f) /\ NotWider(n, f) /\ UNCHANGED <<tables, holds>>
      BY <2>1, <2>3, SavedIsChecked DEF Governed
    <3>2. WidensNothing(n, f)
      BY <3>1, <1>0 DEF SourcesReadable, NotWider, WidensNothing, Under, Many
    <3> QED BY <3>2, WideningsStay
  <2> QED BY <2>1, <2>2, <2>3, LandingsComeFromSaves
<1>3. CASE FlowJobOf(n, f)'
  <2>1. PICK j \in Jobs : job'[j].pc \in {"check", "read"} /\ job'[j].flow /\ job'[j].name = n /\ job'[j].file = f
    BY <1>3 DEF FlowJobOf
  <2>2. CASE JobStays(j)
    BY <2>1, <2>2, <1>0 DEF JobStays, FlowOf
  <2>3. CASE JobStales(j)
    <3>1. job[j].pc = "read" /\ job[j].flow /\ job[j].name = n /\ job[j].file = f
      BY <2>1, <2>3, StaleKeepsFrame DEF JobStales
    <3> QED BY <3>1, <1>0 DEF FlowOf
  <2>4. CASE Collect(j)
    <3>1. flow[n] = f /\ f # NoFile
      BY <2>1, <2>4, CollectedFrame DEF Producer
    <3> QED BY <3>1, <1>0 DEF FlowOf
  <2>5. CASE CheckTask(j)
    <3>1. job[j].pc = "check" /\ job[j].flow /\ job[j].name = n /\ job[j].file = f
      BY <2>1, <2>5, CheckedFrame
    <3> QED BY <3>1, <1>0 DEF FlowOf
  <2>6. CASE ReadInputs(j)
    <3>1. job'[j].pc = "publish"
      BY <2>6, ReadFrame
    <3> QED BY <2>1, <3>1
  <2>7. job'[j] # Quiet
    BY <2>1 DEF Quiet
  <2> QED BY <2>2, <2>3, <2>4, <2>5, <2>6, <2>7 DEF JobsMove
<1> QED BY <1>1, <1>2, <1>3 DEF FlowOf, LandingOf, FlowJobOf

-----------------------------------------------------------------------------
LEMMA EjectedComesFromGenerating ==
    ASSUME FlowsTyped, [FlowsNext]_flowVars, NEW n \in Names, code'[n].ejected
    PROVE  \/ code'[n] = code[n]
           \/ \E r \in Requests : /\ request[r].pc = "generate" /\ request[r].name = n
                                  /\ code'[n] = [request[r].file EXCEPT !.ejected = TRUE]
                                  /\ UNCHANGED <<tables, stamp, raced>>
<1> DEFINE Made == \E r \in Requests : /\ request[r].pc = "generate" /\ request[r].name = n
                                       /\ code'[n] = [request[r].file EXCEPT !.ejected = TRUE]
                                       /\ UNCHANGED <<tables, stamp, raced>>
<1>0. ~NoFile.ejected
  BY DEF NoFile
<1>1. ASSUME NEW r \in Requests, GenerateCode(r) PROVE code'[n] = code[n] \/ Made
  <2>1. request[r].pc = "generate" /\ UNCHANGED <<tables, stamp, raced>>
    BY <1>1 DEF GenerateCode, histories
  <2>2. code' = code \/ code' = [code EXCEPT ![request[r].name] = [request[r].file EXCEPT !.ejected = TRUE]]
    BY <1>1 DEF GenerateCode
  <2>3. CASE request[r].name = n
    BY <2>1, <2>2, <2>3 DEF FlowsTyped
  <2>4. CASE request[r].name # n
    BY <2>2, <2>4 DEF FlowsTyped
  <2> QED BY <2>3, <2>4
<1>2. ASSUME NEW r \in Requests, WriteCode(r) PROVE code'[n] = code[n]
  <2>1. PICK m \in Names, u \in Authors, ds \in SUBSET AllDatasets :
           code' = [code EXCEPT ![m] = [NoFile EXCEPT !.sources = ds, !.author = u]]
    BY <1>2 DEF WriteCode
  <2>2. ~[NoFile EXCEPT !.sources = ds, !.author = u].ejected
    BY DEF NoFile
  <2> QED BY <2>1, <2>2 DEF FlowsTyped
<1>3. ASSUME NEW r \in Requests, DeleteCode(r) PROVE code'[n] = code[n]
  <2>1. PICK m \in Names : code' = [code EXCEPT ![m] = NoFile]
    BY <1>3 DEF DeleteCode
  <2> QED BY <1>0, <2>1 DEF FlowsTyped
<1>4. ASSUME NEW r \in Requests, UnlinkFlow(r) PROVE code'[n] = code[n]
  <2>1. code' = code \/ code' = [code EXCEPT ![request[r].name] = NoFile]
    BY <1>4 DEF UnlinkFlow
  <2> QED BY <1>0, <2>1 DEF FlowsTyped
<1>5. ASSUME NEW r \in Requests,
             BeginFlow(r) \/ LandFlow(r) \/ StampCode(r) \/ Unstamp(r)
             \/ BeginEject(r) \/ GuardEject(r) \/ DropRequest(r)
      PROVE  code' = code
  BY <1>5 DEF BeginFlow, LandFlow, StampCode, Unstamp, BeginEject, GuardEject, DropRequest
<1>6. DeleteFlow \/ Narrow \/ SetPolicy \/ UNCHANGED flowVars => code' = code
  BY DEF DeleteFlow, Narrow, SetPolicy, Decree, flowVars
<1>7. ASSUME NEW j \in Jobs, Collect(j) \/ CheckTask(j) \/ ReadInputs(j) \/ Publish(j)
      PROVE  code' = code
  BY <1>7 DEF Collect, CheckTask, ReadInputs, Publish
<1> HIDE DEF Made
<1>8. code'[n] = code[n] \/ Made
  BY <1>1, <1>2, <1>3, <1>4, <1>5, <1>6, <1>7 DEF FlowsNext
<1> QED BY <1>8 DEF Made

LEMMA GeneratingComesFromGuards ==
    ASSUME FlowsTyped, [FlowsNext]_flowVars, NEW r \in Requests, request'[r].pc = "generate"
    PROVE  request'[r] = request[r] \/ GuardEject(r)
<1> DEFINE Ok == request'[r] = request[r] \/ GuardEject(r)
<1>0. ASSUME NEW q \in Requests, NEW frame, Step(q, frame), frame.pc # "generate"
      PROVE  request'[r] = request[r]
  BY <1>0 DEF Step, FlowsTyped
<1>1. ASSUME NEW q \in Requests,
             BeginFlow(q) \/ WriteCode(q) \/ DeleteCode(q) \/ BeginEject(q) \/ GenerateCode(q) \/ UnlinkFlow(q)
             \/ LandFlow(q) \/ StampCode(q) \/ Unstamp(q) \/ DropRequest(q)
      PROVE  Ok
  <2>1. WriteCode(q) => \E frame : Step(q, frame) /\ frame.pc # "generate"
    BY DEF WriteCode
  <2>2. DeleteCode(q) => \E frame : Step(q, frame) /\ frame.pc # "generate"
    BY DEF DeleteCode
  <2>3. BeginEject(q) => \E frame : Step(q, frame) /\ frame.pc # "generate"
    BY DEF BeginEject
  <2>4. GenerateCode(q) \/ UnlinkFlow(q) => \E frame : Step(q, frame) /\ frame.pc # "generate"
    BY DEF GenerateCode, UnlinkFlow, Done, Quiet
  <2>5. LandFlow(q) \/ StampCode(q) \/ Unstamp(q) \/ DropRequest(q) => Step(q, Quiet)
    BY DEF LandFlow, StampCode, Unstamp, DropRequest, Done
  <2>6. Quiet.pc # "generate"
    BY DEF Quiet
  <2>7. BeginFlow(q) => \E frame : Step(q, frame) /\ frame.pc # "generate"
    BY DEF BeginFlow
  <2> QED BY <1>1, <2>1, <2>2, <2>3, <2>4, <2>5, <2>6, <2>7, <1>0
<1>3. ASSUME NEW x PROVE Staled(request, x)[r].pc = "generate" => Staled(request, x)[r] = request[r]
  BY RequestsApart DEF Staled, FlowsTyped, GuardFrames, Quiet
<1>4. ASSUME NEW q \in Requests, GuardEject(q) PROVE Ok
  <2>1. r \in DOMAIN Unsettled(request, request[q].name)
    BY DEF Unsettled, Staled, FlowsTyped
  <2>2. CASE q # r
    <3>1. request'[r] = Unsettled(request, request[q].name)[r]
      BY <1>4, <2>1, <2>2 DEF GuardEject
    <3> QED BY <3>1, <1>3 DEF Unsettled
  <2> QED BY <1>4, <2>2
<1>5. ASSUME NEW s, Decree(s) PROVE Ok
  BY <1>5, <1>3 DEF Decree
<1>6. ASSUME NEW j \in Jobs, ReadInputs(j) PROVE Ok
  BY <1>6, <1>3 DEF ReadInputs, Unsettled
<1> QED BY <1>1, <1>4, <1>5, <1>6 DEF FlowsNext, flowVars, DeleteFlow, Narrow, SetPolicy,
           Collect, CheckTask, Publish

\* What a guard leaves.
LEMMA GuardedFrame ==
    ASSUME FlowsTyped, NEW r \in Requests, GuardEject(r)
    PROVE  /\ request[r] \in GuardFrames /\ request[r].pc = "guard"
           /\ request'[r].name = request[r].name /\ request'[r].file = request[r].file
           /\ stamp' = [stamp EXCEPT ![request[r].name] = request[r].file.author]
           /\ RestrictOutput(request[r].name, request[r].file, request[r].file.author)
           /\ request[r].name \notin raced' => ~request[r].stale
           /\ UNCHANGED <<policy, code>>
<1>1. r \in DOMAIN Unsettled(request, request[r].name)
  BY DEF Unsettled, Staled, FlowsTyped
<1>2. request'[r] = [pc |-> "generate", name |-> request[r].name, file |-> request[r].file]
  BY <1>1 DEF GuardEject
<1> QED BY <1>2, RequestsApart DEF GuardEject

LEMMA NarrowedStays ==
    ASSUME FlowsTyped, GrantsMove, NEW n \in Names, NEW f \in Written, Narrowed(n, f)
    PROVE  Narrowed(n, f)'
<1> SUFFICES ASSUME NEW s \in f.sources \cap Raw
             PROVE  grants'[s] = {} \/ s \in narrowed' \/ (grants'[n] # {} /\ grants'[n] \subseteq grants'[s])
  BY DEF Narrowed
<1>1. n \in AllDatasets /\ n \notin Raw /\ s \in AllDatasets /\ s \notin Names
  BY FlowsAssumption DEF AllDatasets
<1>2. grants[s] = {} \/ s \in narrowed \/ (grants[n] # {} /\ grants[n] \subseteq grants[s])
  BY DEF Narrowed
<1>3. grants'[s] = grants[s] \/ s \in narrowed'
  BY <1>1 DEF GrantsMove
<1>4. grants'[n] = grants[n] \/ grants[n] = {}
  BY <1>1 DEF GrantsMove
<1> QED BY <1>2, <1>3, <1>4 DEF GrantsMove

\* A guard that nothing came before leaves an output as narrow as its sources.
LEMMA GuardNarrows ==
    ASSUME FlowsTyped, GuardsHold, NEW r \in Requests, GuardEject(r),
           NEW n, NEW f, n = request[r].name, f = request[r].file, n \notin raced'
    PROVE  Narrowed(n, f)'
<1>1. /\ n \in Names /\ f \in Written /\ f.author \in Authors
      /\ RestrictOutput(n, f, f.author) /\ request[r].pc = "guard" /\ ~request[r].stale /\ UNCHANGED policy
  BY GuardedFrame DEF GuardFrames, Written
<1> SUFFICES ASSUME NEW s \in f.sources \cap Raw, grants'[s] # {}
             PROVE  grants'[n] # {} /\ grants'[n] \subseteq grants'[s]
  BY DEF Narrowed
<1>2. s \in AllDatasets \ {n}
  BY <1>1, FlowsAssumption DEF AllDatasets
<1>3. grants'[s] = grants[s]
  BY <1>1, <1>2, RestrictDoes DEF Steady
<1>4. f.author \in grants[s] /\ (grants[n] # {} => grants[n] \subseteq grants[s])
  BY <1>1, <1>3 DEF GuardsHold, CanView
<1>5. grants'[n] # {}
  BY <1>1, <1>3, RestrictDoes
<1>6. grants' = grants \/ grants'[n] = {f.author}
  BY <1>1, RestrictDoes
<1> QED BY <1>3, <1>4, <1>5, <1>6

LEMMA EjectedStillKeepsGrant ==
    ASSUME FlowsTyped, [FlowsNext]_flowVars, GuardsHold, EjectedKeepsGrant, GrantsMove, JobsMove
    PROVE  EjectedKeepsGrant'
<1> SUFFICES ASSUME NEW n \in Names \ raced', NEW f \in Written, EjectedTo(n, f)' \/ Generating(n, f)'
             PROVE  Narrowed(n, f)'
  BY DEF EjectedKeepsGrant
<1>0. EjectedTo(n, f) \/ Generating(n, f) => Narrowed(n, f)'
  BY NarrowedStays DEF EjectedKeepsGrant, GrantsMove
<1>1. CASE Generating(n, f)'
  <2>1. PICK r \in Requests : request'[r].pc = "generate" /\ request'[r].name = n /\ request'[r].file = f
    BY <1>1 DEF Generating
  <2>2. CASE request'[r] = request[r]
    BY <2>1, <2>2, <1>0 DEF Generating
  <2>3. CASE GuardEject(r)
    BY <2>1, <2>3, GuardedFrame, GuardNarrows
  <2> QED BY <2>1, <2>2, <2>3, GeneratingComesFromGuards
<1>2. CASE f.ejected /\ code'[n] = f
  <2>1. CASE code'[n] = code[n]
    BY <1>2, <2>1, <1>0 DEF EjectedTo
  <2>2. ASSUME NEW r \in Requests, request[r].pc = "generate", request[r].name = n,
               code'[n] = [request[r].file EXCEPT !.ejected = TRUE]
        PROVE  Narrowed(n, f)'
    <3>1. PICK g \in Written : g = request[r].file
      BY <2>2, RequestsApart DEF GenerateFrames
    <3>2. f.sources = g.sources
      BY <1>2, <2>2, <3>1 DEF Written
    <3>3. Narrowed(n, g)
      BY <2>2, <3>1 DEF EjectedKeepsGrant, Generating, GrantsMove
    <3>4. Narrowed(n, g)'
      BY <3>1, <3>3, NarrowedStays
    <3> QED BY <3>2, <3>4 DEF Narrowed
  <2> QED BY <1>2, <2>1, <2>2, EjectedComesFromGenerating
<1>3. ASSUME f.ejected, NEW j \in Jobs, job'[j].pc \in {"check", "read"}, ~job'[j].flow,
             job'[j].name = n, job'[j].file = f
      PROVE  Narrowed(n, f)'
  <2>2. CASE JobStays(j)
    BY <1>3, <2>2, <1>0 DEF JobStays, EjectedTo
  <2>3. CASE JobStales(j)
    <3>1. job[j].pc = "read" /\ ~job[j].flow /\ job[j].name = n /\ job[j].file = f
      BY <1>3, <2>3, StaleKeepsFrame DEF JobStales
    <3> QED BY <1>3, <3>1, <1>0 DEF EjectedTo
  <2>4. CASE Collect(j)
    <3>1. code[n] = f
      BY <1>3, <2>4, CollectedFrame DEF Producer
    <3> QED BY <1>3, <3>1, <1>0 DEF EjectedTo
  <2>5. CASE CheckTask(j)
    <3>1. job[j].pc = "check" /\ ~job[j].flow /\ job[j].name = n /\ job[j].file = f
      BY <1>3, <2>5, CheckedFrame
    <3> QED BY <1>3, <3>1, <1>0 DEF EjectedTo
  <2>6. CASE ReadInputs(j)
    <3>1. job'[j].pc = "publish"
      BY <2>6, ReadFrame
    <3> QED BY <1>3, <3>1
  <2>7. job'[j] # Quiet
    BY <1>3 DEF Quiet
  <2> QED BY <2>2, <2>3, <2>4, <2>5, <2>6, <2>7 DEF JobsMove
<1> QED BY <1>1, <1>2, <1>3 DEF EjectedTo

\* Who has a stamp keeps it, or it is taken by name.
LEMMA StampsMove ==
    ASSUME FlowsTyped, [FlowsNext]_flowVars, NEW n \in Names
    PROVE  \/ stamp'[n] = stamp[n] \/ stamp'[n] # Nobody
           \/ \E r \in Requests : Unstamp(r) /\ request[r].name = n
<1> DEFINE Ok == \/ stamp'[n] = stamp[n] \/ stamp'[n] # Nobody
                 \/ \E r \in Requests : Unstamp(r) /\ request[r].name = n
<1>0. Nobody \notin Authors
  BY FlowsAssumption DEF Nobody
<1>1. ASSUME NEW r \in Requests, StampCode(r) PROVE Ok
  <2>1. request[r].author \in Authors
    BY <1>1, RequestsApart DEF StampCode, StampFrames
  <2> QED BY <1>0, <1>1, <2>1 DEF StampCode, FlowsTyped
<1>2. ASSUME NEW r \in Requests, GuardEject(r) PROVE Ok
  <2>1. request[r].file.author \in Authors /\ stamp' = [stamp EXCEPT ![request[r].name] = request[r].file.author]
    BY <1>2, GuardedFrame DEF GuardFrames, Written
  <2> QED BY <1>0, <2>1 DEF FlowsTyped
<1>3. ASSUME NEW r \in Requests, Unstamp(r) PROVE Ok
  <2>1. stamp' = [stamp EXCEPT ![request[r].name] = Nobody]
    BY <1>3 DEF Unstamp
  <2> QED BY <1>3, <2>1 DEF FlowsTyped
<1>4. ASSUME NEW r \in Requests,
             BeginFlow(r) \/ LandFlow(r) \/ WriteCode(r) \/ DeleteCode(r)
             \/ BeginEject(r) \/ GenerateCode(r) \/ UnlinkFlow(r) \/ DropRequest(r)
      PROVE  stamp' = stamp
  BY <1>4 DEF BeginFlow, LandFlow, WriteCode, DeleteCode, BeginEject, GenerateCode, UnlinkFlow, DropRequest
<1>5. DeleteFlow \/ Narrow \/ SetPolicy \/ UNCHANGED flowVars => stamp' = stamp
  BY DEF DeleteFlow, Narrow, SetPolicy, Decree, flowVars
<1>6. ASSUME NEW j \in Jobs, Collect(j) \/ CheckTask(j) \/ ReadInputs(j) \/ Publish(j)
      PROVE  stamp' = stamp
  BY <1>6 DEF Collect, CheckTask, ReadInputs, Publish
<1> HIDE DEF Ok
<1>7. stamp' = stamp => Ok
  BY DEF Ok
<1>8. Ok
  BY <1>1, <1>2, <1>3, <1>4, <1>5, <1>6, <1>7 DEF FlowsNext
<1> QED BY <1>8 DEF Ok

EjectedAt(n) ==
    \/ code[n].ejected
    \/ \E r \in Requests : request[r].pc = "generate" /\ request[r].name = n
    \/ \E j \in Jobs : job[j].pc = "check" /\ ~job[j].flow /\ job[j].file.ejected /\ job[j].name = n

\* A file comes to be ejected at n by a guard, which stamps it.
LEMMA EjectedComesFromGuards ==
    ASSUME FlowsTyped, [FlowsNext]_flowVars, GrantsMove, JobsMove, NEW n \in Names, EjectedAt(n)'
    PROVE  EjectedAt(n) \/ stamp'[n] # Nobody
<1>1. CASE code'[n].ejected
  BY <1>1, EjectedComesFromGenerating DEF EjectedAt
<1>2. ASSUME NEW r \in Requests, request'[r].pc = "generate", request'[r].name = n
      PROVE  EjectedAt(n) \/ stamp'[n] # Nobody
  <2>1. CASE request'[r] = request[r]
    BY <1>2, <2>1 DEF EjectedAt
  <2>2. CASE GuardEject(r)
    <3>1. request[r].name = n /\ request[r].file.author \in Authors
          /\ stamp' = [stamp EXCEPT ![n] = request[r].file.author]
      BY <1>2, <2>2, GuardedFrame DEF GuardFrames, Written
    <3>2. Nobody \notin Authors
      BY FlowsAssumption DEF Nobody
    <3> QED BY <3>1, <3>2 DEF FlowsTyped
  <2> QED BY <1>2, <2>1, <2>2, GeneratingComesFromGuards
<1>3. ASSUME NEW j \in Jobs, job'[j].pc = "check", ~job'[j].flow, job'[j].file.ejected, job'[j].name = n
      PROVE  EjectedAt(n)
  <2>1. CASE JobStays(j)
    BY <1>3, <2>1 DEF JobStays, EjectedAt
  <2>2. CASE JobStales(j)
    BY <1>3, <2>2, StaleKeepsFrame DEF JobStales
  <2>3. CASE Collect(j)
    <3>1. job'[j].file = code[n]
      BY <1>3, <2>3, CollectedFrame DEF Producer
    <3> QED BY <1>3, <3>1 DEF EjectedAt
  <2>4. CASE CheckTask(j)
    BY <1>3, <2>4, CheckedFrame
  <2>5. CASE ReadInputs(j)
    <3>1. job'[j].pc = "publish"
      BY <2>5, ReadFrame
    <3> QED BY <1>3, <3>1
  <2>6. job'[j] # Quiet
    BY <1>3 DEF Quiet
  <2> QED BY <2>1, <2>2, <2>3, <2>4, <2>5, <2>6 DEF JobsMove
<1> QED BY <1>1, <1>2, <1>3 DEF EjectedAt

LEMMA EjectedStaysStamped ==
    ASSUME FlowsTyped, [FlowsNext]_flowVars, EjectedIsStamped, GrantsMove, JobsMove
    PROVE  EjectedIsStamped'
<1> SUFFICES ASSUME NEW n \in Names, n \notin raced', EjectedAt(n)', stamp'[n] = Nobody PROVE FALSE
  BY DEF EjectedIsStamped, EjectedAt
<1>1. EjectedAt(n) /\ n \notin raced
  BY EjectedComesFromGuards DEF GrantsMove
<1>2. stamp[n] # Nobody
  BY <1>1 DEF EjectedIsStamped, EjectedAt
<1>3. PICK r \in Requests : Unstamp(r) /\ request[r].name = n
  BY <1>2, StampsMove
<1>4. /\ code' = code /\ job' = job /\ Step(r, Quiet) /\ code[n] = NoFile
      /\ ~\E q \in Requests : request[q].pc = "generate" /\ request[q].name = n
      /\ ~\E j \in Jobs : job[j].pc = "check" /\ job[j].name = n
  BY <1>3 DEF Unstamp, Done
<1>5. ASSUME NEW q \in Requests, request'[q].pc = "generate" PROVE request'[q] = request[q]
  BY <1>4, <1>5 DEF Step, FlowsTyped, Quiet
<1>6. ~code'[n].ejected
  BY <1>4 DEF NoFile
<1> QED BY <1>4, <1>5, <1>6 DEF EjectedAt

-----------------------------------------------------------------------------
LEMMA GuardsStillHold ==
    ASSUME FlowsTyped, GuardsHold, GuardsMove PROVE GuardsHold'
<1> SUFFICES ASSUME NEW r \in Requests, request'[r].pc = "guard", ~request'[r].stale,
                    NEW q, q = request'[r], NEW s \in q.file.sources \cap Raw
             PROVE  /\ grants'[s] = {} \/ q.file.author \in grants'[s]
                    /\ grants'[s] # {} /\ grants'[q.name] # {} => grants'[q.name] \subseteq grants'[s]
  BY DEF GuardsHold, CanView
<1>1. CASE GuardStays(r)
  <2>1. q = request[r] /\ grants'[s] = grants[s] /\ grants'[q.name] = grants[q.name]
    BY <1>1 DEF GuardStays, Steady
  <2> QED BY <2>1 DEF GuardsHold, CanView
<1>2. CASE BeginEject(r)
  <2>1. PICK n \in Names, u \in Authors :
           /\ flow[n] # NoFile /\ Governed(u, n, flow[n]) /\ NotWider(n, flow[n])
           /\ Step(r, [pc |-> "guard", name |-> n, file |-> [flow[n] EXCEPT !.author = u],
                       stale |-> FALSE])
           /\ UNCHANGED tables
    BY <1>2 DEF BeginEject
  <2>2. q = [pc |-> "guard", name |-> n, file |-> [flow[n] EXCEPT !.author = u], stale |-> FALSE]
    BY <2>1 DEF Step, FlowsTyped
  <2>3. flow[n] \in Written
    BY <2>1 DEF FlowsTyped, Files
  <2>4. q.name = n /\ q.file.author = u /\ q.file.sources = flow[n].sources
    BY <2>2, <2>3 DEF Written
  <2>5. grants[s] = {} \/ u \in grants[s]
    BY <2>1, <2>4 DEF Governed, SourcesReadable, CanView
  <2>6. grants[s] # {} /\ grants[n] # {} => grants[n] \subseteq grants[s]
    BY <2>1, <2>4 DEF NotWider
  <2> QED BY <2>1, <2>4, <2>5, <2>6 DEF tables
<1> QED BY <1>1, <1>2 DEF GuardsMove

LEMMA ReadsStillHold ==
    ASSUME FlowsTyped, ReadsHold, GrantedIsPublished, EjectedIsStamped, GrantsMove, JobsMove
    PROVE  ReadsHold'
<1> SUFFICES ASSUME NEW j \in Jobs, job'[j].pc = "read", ~job'[j].stale, job'[j].name \notin raced',
                    NEW f, f = job'[j].file, NEW n, n = job'[j].name
             PROVE  /\ job'[j].flow =>
                          /\ \A d \in f.sources : CanView(f.author, d)'
                          /\ CanView(f.author, n)'
                          /\ Unpoliced(f)'
                    /\ ~job'[j].flow /\ f.ejected => \A s \in f.sources \cap Raw : policy'[s] = "none"
  BY DEF ReadsHold, CanView, Unpoliced
<1>0. n \notin raced
  BY DEF GrantsMove
<1>1. CASE JobStays(j)
  <2>1. job'[j] = job[j] /\ \A d \in f.sources \cup {n} : Steady(d)
    BY <1>1 DEF JobStays
  <2>2. /\ job[j].flow => (\A d \in f.sources : CanView(f.author, d)) /\ CanView(f.author, n) /\ Unpoliced(f)
        /\ ~job[j].flow /\ f.ejected => \A s \in f.sources \cap Raw : policy[s] = "none"
    BY <2>1, <1>0 DEF ReadsHold
  <2> QED BY <2>1, <2>2 DEF Steady, CanView, Unpoliced
<1>2. CASE JobStales(j)
  BY <1>2, StaleKeepsFrame
<1>3. CASE CheckTask(j)
  <2>1. /\ job[j].pc = "check" /\ Permitted(j) /\ f = job[j].file /\ n = job[j].name /\ job'[j].flow = job[j].flow
        /\ ~\E k \in Jobs : job[k].pc = "publish" /\ job[k].name = n
        /\ n \in Names
        /\ UNCHANGED <<tables>>
    BY <1>3, CheckedFrame DEF TaskFrames
  <2>2. UNCHANGED <<grants, policy>>
    BY <2>1 DEF tables
  <2>3. CASE job[j].flow
    <3>1. Governed(f.author, n, f)
      BY <2>1, <2>3 DEF Permitted
    <3>2. CanView(f.author, n)
      <4>1. CASE n \in Existing
        BY <3>1, <4>1 DEF Governed, OutputWritable
      <4>2. CASE n \notin Existing
        BY <4>2, <2>1, <1>0 DEF GrantedIsPublished, CanView
      <4> QED BY <4>1, <4>2
    <3> QED BY <2>1, <2>2, <2>3, <3>1, <3>2 DEF Governed, SourcesReadable, CanView, Unpoliced
  <2>4. CASE ~job[j].flow
    <3>1. ASSUME f.ejected PROVE \A s \in f.sources \cap Raw : policy[s] = "none"
      <4>1. stamp[n] # Nobody
        BY <2>1, <2>4, <3>1, <1>0 DEF EjectedIsStamped
      <4> QED BY <2>1, <2>4, <4>1 DEF Permitted, Entitled
    <3> QED BY <2>1, <2>2, <2>4, <3>1
  <2> QED BY <2>3, <2>4
<1>4. CASE Collect(j)
  BY <1>4, CollectedFrame
<1>5. CASE ReadInputs(j)
  BY <1>5, ReadFrame
<1>6. job'[j] # Quiet
  BY DEF Quiet
<1> QED BY <1>1, <1>2, <1>3, <1>4, <1>5, <1>6 DEF JobsMove

-----------------------------------------------------------------------------
LEMMA SoundStays ==
    ASSUME FlowsTyped, GrantsMove, NEW n \in Names, NEW h \in Rows, Sound(n, h), Steady(h.source)
    PROVE  Sound(n, h)'
<1>1. n \in AllDatasets /\ n \notin Raw /\ h.source \in Raw
  BY FlowsAssumption DEF AllDatasets, Rows
<1>2. grants'[h.source] = grants[h.source] /\ policy'[h.source] = policy[h.source]
  BY <1>1 DEF Steady
<1>3. grants'[n] = grants[n] \/ grants[n] = {}
  BY <1>1 DEF GrantsMove
<1>4. Conceded(n, h.source) => Conceded(n, h.source)'
  BY DEF Conceded, GrantsMove
<1>5. Under(n, h.source)'
  BY <1>2, <1>3, <1>4 DEF Sound, Under
<1> QED BY <1>2, <1>5 DEF Sound

\* An output that a flow reads into is granted to nobody that its sources, or
\* what they were copied from, are not.
LEMMA FlowReadsUnder ==
    ASSUME FlowsTyped, GrantsAreOnes, FlowsWidenNothing, ReadsHold,
           NEW j \in Jobs, ReadInputs(j), ~job[j].stale, job[j].flow,
           NEW n \in Names \ raced, n = job[j].name, NEW f \in Written, f = job[j].file,
           NEW d \in f.sources, NEW s \in Raw, grants[d] # {}, grants[d] \subseteq grants[s]
    PROVE  Conceded(n, d) \/ (grants'[n] # {} /\ grants'[n] \subseteq grants'[s])
<1>1. /\ job[j].pc = "read" /\ RestrictOutput(n, f, f.author) /\ UNCHANGED policy
      /\ f.author \in Authors
  BY DEF ReadInputs, Written
<1>2. f.author \in grants[d] /\ CanView(f.author, n)
  BY <1>1 DEF ReadsHold, CanView
<1>3. grants'[s] = grants[s]
  <2>1. s \in AllDatasets \ {n}
    BY FlowsAssumption DEF AllDatasets
  <2> QED BY <1>1, <2>1, RestrictDoes DEF Steady
<1>4. CASE grants[n] = {}
  <2>1. grants'[n] # {}
    BY <1>1, RestrictDoes
  <2>2. grants'[n] = {f.author}
    BY <1>1, <1>4, <2>1, RestrictDoes
  <2> QED BY <1>2, <1>3, <2>2
<1>5. CASE grants[n] # {}
  <2>1. grants'[n] = grants[n] /\ f.author \in grants[n]
    BY <1>1, <1>2, <1>5, RestrictDoes DEF CanView
  <2>2. CASE \E u \in Authors : grants[n] = {u}
    BY <1>2, <1>3, <2>1, <2>2
  <2>3. CASE Many(n)
    <3>1. FlowOf(n, f)
      BY <1>1 DEF FlowOf
    <3>2. Under(n, d)
      BY <2>3, <3>1 DEF FlowsWidenNothing, WidensNothing
    <3> QED BY <1>3, <2>1, <3>2 DEF Under
  <2> QED BY <1>5, <2>2, <2>3 DEF Many
<1> QED BY <1>4, <1>5

LEMMA FlowRowsAreSound ==
    ASSUME FlowsTyped, GrantsAreOnes, FlowsWidenNothing, ReadsHold, CopiesStayPrivate, GrantsMove,
           NEW j \in Jobs, ReadInputs(j), ~job[j].stale, job[j].flow,
           NEW n \in Names \ raced, n = job[j].name, NEW h \in Copied(j)
    PROVE  Sound(n, h)'
<1>1. PICK f \in Written : f = job[j].file
  BY JobsApart DEF ReadInputs, TaskFrames
<1>2. /\ job[j].pc = "read" /\ RestrictOutput(n, f, f.author) /\ UNCHANGED <<shared, policy>>
      /\ f.author \in Authors
  BY <1>1 DEF ReadInputs, Written
<1>3. Copied(j) \in SUBSET Rows
  BY <1>2, CopiedTyped
<1>4. h.source \in Raw /\ h.source \in AllDatasets \ {n} /\ policy[h.source] \in {"none", "mask", "row"}
  BY <1>3, FlowsAssumption DEF Rows, AllDatasets, FlowsTyped
<1>5. Steady(h.source)
  BY <1>2, <1>4, RestrictDoes
<1>6. grants'[h.source] = grants[h.source] /\ policy'[h.source] = policy[h.source]
  BY <1>4, <1>5 DEF Steady
<1>7. ASSUME NEW d, Conceded(n, d) PROVE Conceded(n, d)'
  BY <1>7 DEF Conceded, GrantsMove
<1>8. CASE h \in {[source |-> s, touched |-> s \in f.touches] : s \in f.sources \cap Raw}
  <2>1. PICK s \in f.sources \cap Raw : h = [source |-> s, touched |-> s \in f.touches]
    BY <1>8
  <2>2. h.source = s /\ (h.touched <=> s \in f.touches)
    BY <2>1
  <2>3. Unpoliced(f)
    BY <1>1, <1>2 DEF ReadsHold
  <2>4. policy[s] = "none" \/ (policy[s] = "mask" /\ ~h.touched)
    BY <1>4, <2>2, <2>3 DEF Unpoliced
  <2>5. grants[s] = {} \/ Conceded(n, s) \/ (grants'[n] # {} /\ grants'[n] \subseteq grants'[s])
    BY <1>1, FlowReadsUnder
  <2> QED BY <1>6, <1>7, <2>2, <2>4, <2>5 DEF Sound, Under
<1>9. ASSUME NEW m \in (f.sources \cap Names) \ raced, ~Conceded(n, m),
             h \in holds[m], ~Conceded(m, h.source)
      PROVE  Sound(n, h)'
  <2>1. holds[m] # Missing
    <3>1. m \in Existing /\ m \notin Raw
      BY <1>1, <1>2, FlowsAssumption DEF FlowsTyped
    <3> QED BY <3>1 DEF Existing
  <2>2. /\ grants[h.source] = {} \/ (grants[m] # {} /\ grants[m] \subseteq grants[h.source])
        /\ policy[h.source] = "none" \/ (policy[h.source] = "mask" /\ ~h.touched)
    BY <1>9, <2>1 DEF CopiesStayPrivate
  <2>3. grants[h.source] = {} \/ (grants'[n] # {} /\ grants'[n] \subseteq grants'[h.source])
    BY <1>1, <1>4, <1>9, <2>2, FlowReadsUnder
  <2> QED BY <1>6, <2>2, <2>3 DEF Sound, Under
<1>10. \/ h \in {[source |-> s, touched |-> s \in f.touches] : s \in f.sources \cap Raw}
       \/ \E m \in (f.sources \cap Names) \ raced :
             ~Conceded(n, m) /\ h \in holds[m] /\ ~Conceded(m, h.source)
  BY <1>1 DEF Copied
<1> QED BY <1>8, <1>9, <1>10

LEMMA CodeRowsAreSound ==
    ASSUME FlowsTyped, EjectedKeepsGrant, ReadsHold, GrantsMove,
           NEW j \in Jobs, ReadInputs(j), ~job[j].stale, ~job[j].flow,
           NEW n \in Names \ raced, n = job[j].name, NEW h \in Copied(j)
    PROVE  Sound(n, h)'
<1>1. PICK f \in Written : f = job[j].file
  BY JobsApart DEF ReadInputs, TaskFrames
<1>2. job[j].pc = "read" /\ UNCHANGED <<grants, policy>>
  BY DEF ReadInputs
<1>3. /\ f.ejected
      /\ h \in {[source |-> s, touched |-> s \in f.touches] : s \in f.sources \cap Raw}
      /\ h.source \notin narrowed
  BY <1>1 DEF Copied
<1>4. PICK s \in f.sources \cap Raw : h = [source |-> s, touched |-> s \in f.touches]
  BY <1>3
<1>5. h.source = s
  BY <1>4
<1>6. policy[s] = "none"
  BY <1>1, <1>2, <1>3 DEF ReadsHold
<1>7. Narrowed(n, f)
  <2>1. EjectedTo(n, f)
    BY <1>1, <1>2, <1>3 DEF EjectedTo
  <2> QED BY <2>1 DEF EjectedKeepsGrant
<1>8. grants[s] = {} \/ (grants[n] # {} /\ grants[n] \subseteq grants[s])
  BY <1>3, <1>5, <1>7 DEF Narrowed
<1> QED BY <1>2, <1>5, <1>6, <1>8 DEF Sound, Under

LEMMA PublishesStillHold ==
    ASSUME FlowsTyped, CopiesInv, GrantsMove, JobsMove PROVE PublishesHold'
<1> SUFFICES ASSUME NEW j \in Jobs, job'[j].pc = "publish", ~job'[j].stale,
                    NEW n, n = job'[j].name, n \notin raced', NEW h \in job'[j].rows
             PROVE  Sound(n, h)'
  BY DEF PublishesHold, Sound, Under, Conceded
<1>0. n \notin raced
  BY DEF GrantsMove
<1>1. CASE JobStays(j)
  <2>1. job'[j] = job[j] /\ job[j] \in PublishFrames /\ Steady(h.source)
    BY <1>1, JobsApart DEF JobStays
  <2>2. n \in Names /\ h \in Rows
    BY <2>1 DEF PublishFrames
  <2>3. Sound(n, h)
    BY <2>1, <1>0 DEF CopiesInv, PublishesHold
  <2> QED BY <2>1, <2>2, <2>3, SoundStays
<1>2. CASE JobStales(j)
  BY <1>2, StaleKeepsFrame
<1>3. CASE CheckTask(j)
  <2>1. job'[j] = Quiet \/ job'[j].pc = "read"
    <3>1. job[j] \in TaskFrames
      BY <1>3, JobsApart DEF CheckTask
    <3> HIDE DEF TaskFrames
    <3>2. job'[j] = Quiet \/ job'[j].pc = "read"
      BY <1>3, <3>1 DEF CheckTask, Work, FlowsTyped, TaskFrames
    <3> QED BY <3>2
  <2> QED BY <2>1 DEF Quiet
<1>4. CASE Collect(j)
  BY <1>4, CollectedFrame
<1>5. CASE ReadInputs(j)
  <2>1. /\ job[j] \in TaskFrames /\ n = job[j].name /\ ~job[j].stale /\ h \in Copied(j)
    BY <1>5, ReadFrame
  <2>2. n \in Names \ raced /\ job[j].flow \in BOOLEAN
    BY <2>1, <1>0 DEF TaskFrames
  <2>3. CASE job[j].flow
    BY <1>5, <2>1, <2>2, <2>3, FlowRowsAreSound DEF CopiesInv
  <2>4. CASE ~job[j].flow
    BY <1>5, <2>1, <2>2, <2>4, CodeRowsAreSound DEF CopiesInv
  <2> QED BY <2>3, <2>4
<1>6. job'[j] # Quiet
  BY DEF Quiet
<1> QED BY <1>1, <1>2, <1>3, <1>4, <1>5, <1>6 DEF JobsMove

LEMMA CopiesAre ==
    ASSUME FlowsTyped
    PROVE  CopiesStayPrivate <=>
              \A n \in Names \ raced : holds[n] # Missing => \A h \in holds[n] : Sound(n, h)
  BY DEF CopiesStayPrivate, Sound, Under

LEMMA CopiesStillPrivate ==
    ASSUME FlowsTyped, CopiesInv, GrantsMove, HoldsMove, FlowsTyped' PROVE CopiesStayPrivate'
<1>1. ASSUME NEW n \in Names \ raced', holds'[n] # Missing, NEW h \in holds'[n] PROVE Sound(n, h)'
  <2>0. n \notin raced
    BY DEF GrantsMove
  <2>1. CASE holds[n] # Missing /\ h \in holds[n] /\ Steady(h.source)
    <3>1. Sound(n, h)
      BY <2>0, <2>1, CopiesAre DEF CopiesInv
    <3>2. h \in Rows
      BY <2>1 DEF FlowsTyped
    <3> QED BY <2>1, <3>1, <3>2, SoundStays
  <2>2. ASSUME NEW j \in Jobs, Publish(j), job[j].name = n, ~job[j].stale, h \in job[j].rows
        PROVE  Sound(n, h)'
    <3>1. Sound(n, h)
      BY <2>0, <2>2 DEF CopiesInv, PublishesHold, Publish
    <3>2. h \in Rows
      BY <2>2, JobsApart DEF Publish, PublishFrames
    <3>3. Steady(h.source)
      BY <2>2 DEF Publish, tables, Steady
    <3> QED BY <3>1, <3>2, <3>3, SoundStays
  <2> QED BY <1>1, <2>1, <2>2 DEF HoldsMove
<1> QED BY <1>1 DEF CopiesStayPrivate, Sound, Under

LEMMA CopiesInvInit == FlowsInit => CopiesInv
<1> SUFFICES ASSUME FlowsInit PROVE CopiesInv
  OBVIOUS
<1>1. /\ grants \in [AllDatasets -> SUBSET Authors] /\ shared = {n \in Names : grants[n] # {}}
      /\ flow = [n \in Names |-> NoFile] /\ code = flow
      /\ request = [r \in Requests |-> Quiet] /\ job = [j \in Jobs |-> Quiet]
      /\ holds = [n \in Names |-> IF n \in shared THEN {} ELSE Missing]
      /\ ~NoFile.ejected
  BY FlowsAssumption DEF FlowsInit, AllDatasets, NoFile
<1>2. FlowsTyped
  <2>1. request \in [Requests -> RequestFrames] /\ job \in [Jobs -> JobFrames]
    BY <1>1 DEF RequestFrames, JobFrames
  <2>2. holds \in [Names -> (SUBSET Rows) \cup {Missing}]
    BY <1>1
  <2>3. \A j \in Jobs : job[j].pc # "read"
    BY <1>1 DEF Quiet
  <2>4. flow \in [Names -> Files] /\ code \in [Names -> Files]
    BY <1>1 DEF Files
  <2>5. policy \in [Raw -> {"none", "mask", "row"}] /\ stamp \in [Names -> Authors \cup {Nobody}]
    BY DEF FlowsInit
  <2>6. shared \subseteq Names /\ narrowed \subseteq AllDatasets /\ raced \subseteq Names
        /\ overlapped \in BOOLEAN
    BY DEF FlowsInit
  <2> QED BY <1>1, <2>1, <2>2, <2>3, <2>4, <2>5, <2>6 DEF FlowsTyped
<1>3. Missing # {}
  BY DEF Missing
<1>4. GrantsAreOnes /\ GrantedIsPublished
  BY <1>1, <1>3 DEF GrantsAreOnes, GrantedIsPublished, Existing
<1>5. /\ \A r \in Requests : request[r].pc = "idle"
      /\ \A j \in Jobs : job[j].pc = "idle"
  BY <1>1 DEF Quiet
<1>6. FlowsWidenNothing
  BY <1>1, <1>5, WrittenIsFile DEF FlowsWidenNothing, FlowOf
<1>7. EjectedKeepsGrant /\ EjectedIsStamped
  BY <1>1, <1>5 DEF EjectedKeepsGrant, EjectedIsStamped, EjectedTo, Generating
<1>8. GuardsHold /\ ReadsHold /\ PublishesHold
  BY <1>5 DEF GuardsHold, ReadsHold, PublishesHold
<1>9. CopiesStayPrivate
  BY <1>1 DEF CopiesStayPrivate
<1> QED BY <1>2, <1>4, <1>6, <1>7, <1>8, <1>9 DEF CopiesInv

LEMMA CopiesInvStep == CopiesInv /\ [FlowsNext]_flowVars => CopiesInv'
<1> SUFFICES ASSUME CopiesInv, [FlowsNext]_flowVars PROVE CopiesInv'
  OBVIOUS
<1>1. FlowsTyped /\ FlowsTyped'
  BY StepKeepsTypes DEF CopiesInv
<1>2. GrantsMove /\ JobsMove /\ GuardsMove /\ HoldsMove
  BY <1>1, FlowsMove
<1>3. GrantsAreOnes' /\ GrantedIsPublished'
  BY <1>1, <1>2, GrantsStayOnes, GrantedStaysPublished DEF CopiesInv
<1>4. FlowsWidenNothing'
  BY <1>1, <1>2, FlowsStillWidenNothing DEF CopiesInv
<1>5. EjectedKeepsGrant' /\ EjectedIsStamped'
  BY <1>1, <1>2, EjectedStillKeepsGrant, EjectedStaysStamped DEF CopiesInv
<1>6. GuardsHold' /\ ReadsHold'
  BY <1>1, <1>2, GuardsStillHold, ReadsStillHold DEF CopiesInv
<1>7. PublishesHold' /\ CopiesStayPrivate'
  BY <1>1, <1>2, PublishesStillHold, CopiesStillPrivate
<1> QED BY <1>1, <1>3, <1>4, <1>5, <1>6, <1>7 DEF CopiesInv

\* Copies of governed data stay as private as what they were made from, over
\* any number of authors, datasets, requests and builds.
THEOREM CopiesAlwaysPrivate == FlowsSpec => []CopiesStayPrivate
<1>1. CopiesInv => CopiesStayPrivate
  BY DEF CopiesInv
<1> QED BY <1>1, CopiesInvInit, CopiesInvStep, PTL DEF FlowsSpec

-----------------------------------------------------------------------------
(***************************************************************************)
(* What a dataset is built from, as the recursive function that Upstream   *)
(* takes the last value of.                                                *)
(***************************************************************************)
Within(R, n) ==
    CHOOSE within : within = [k \in Nat |->
        IF k = 0 THEN R[n]
        ELSE within[k - 1] \cup UNION {R[m] : m \in within[k - 1] \cap Names}]

LEMMA NamesAreCounted == Cardinality(Names) \in Nat
  BY FlowsAssumption, FS_CardinalityType

LEMMA UpstreamIsWithin ==
    ASSUME NEW R, NEW n PROVE Upstream(R, n) = Within(R, n)[Cardinality(Names)]
  BY DEF Upstream, Within

\* The function is there, and so is what its definition says of it.
LEMMA WithinDef ==
    ASSUME NEW R \in Registries, NEW n \in Names
    PROVE  /\ Within(R, n) \in [Nat -> SUBSET AllDatasets]
           /\ Within(R, n)[0] = R[n]
           /\ \A k \in Nat : Within(R, n)[k + 1] =
                  Within(R, n)[k] \cup UNION {R[m] : m \in Within(R, n)[k] \cap Names}
<1> DEFINE S == SUBSET AllDatasets
           further(X) == X \cup UNION {R[m] : m \in X \cap Names}
           G == [k \in Nat |-> [X \in S |-> further(X)]]
           Is(w) == w = [k \in Nat |-> IF k = 0 THEN R[n] ELSE further(w[k - 1])]
<1>1. R[n] \in S /\ \A X \in S : further(X) \in S
  BY DEF Registries
<1>2. G \in [Nat -> [S -> S]]
  BY <1>1
<1>3. PICK f \in [Nat -> S] : Recursion(f, R[n], G)
  <2> HIDE DEF S, G
  <2> QED BY <1>1, <1>2, RecursionExists
<1>4. Is(f)
  <2>1. \A k \in Nat : k # 0 => G[k][f[k - 1]] = further(f[k - 1])
    <3> TAKE k \in Nat
    <3>1. k # 0 => k - 1 \in Nat
      OBVIOUS
    <3> HIDE DEF further
    <3> QED BY <3>1, <1>3 DEF Recursion
  <2>2. f = [k \in Nat |-> IF k = 0 THEN R[n] ELSE further(f[k - 1])]
    <3> HIDE DEF G, further
    <3> QED BY <2>1, <1>3 DEF Recursion
  <2> QED BY <2>2
<1>5. Is(Within(R, n))
  <2> HIDE DEF Is
  <2>1. Within(R, n) = CHOOSE w : Is(w)
    BY DEF Within, Is
  <2> QED BY <1>4, <2>1
<1>6. Within(R, n) \in [Nat -> S]
  <2> DEFINE w == Within(R, n)
             T == {k \in Nat : w[k] \in S}
  <2> HIDE DEF w
  <2>0. w = [k \in Nat |-> IF k = 0 THEN R[n] ELSE further(w[k - 1])]
    BY <1>5 DEF w
  <2>1. 0 \in T
    BY <2>0, <1>1
  <2>2. \A k \in Nat : k \in T => k + 1 \in T
    <3> SUFFICES ASSUME NEW k \in Nat, w[k] \in S PROVE w[k + 1] \in S
      OBVIOUS
    <3>1. w[k + 1] = further(w[k])
      <4> HIDE DEF further
      <4> QED BY <2>0
    <3> HIDE DEF further, S
    <3> QED BY <3>1, <1>1
  <2>3. Nat \subseteq T
    <3> HIDE DEF T
    <3> QED BY <2>1, <2>2, Induct
  <2>4. \A k \in Nat : w[k] \in S
    BY <2>3
  <2>5. w = [k \in Nat |-> w[k]]
    <3> HIDE DEF further
    <3> QED BY <2>0
  <2> HIDE DEF S
  <2>6. w \in [Nat -> S]
    BY <2>4, <2>5
  <2> QED BY <2>6 DEF w
<1>7. Within(R, n)[0] = R[n]
  BY <1>5
<1>8. ASSUME NEW k \in Nat PROVE Within(R, n)[k + 1] = further(Within(R, n)[k])
  <2> HIDE DEF further
  <2> QED BY <1>5
<1> QED BY <1>6, <1>7, <1>8

\* Each step goes further.
LEMMA WithinGrows ==
    ASSUME NEW R \in Registries, NEW n \in Names, NEW j \in Nat, NEW k \in Nat, j <= k
    PROVE  Within(R, n)[j] \subseteq Within(R, n)[k]
<1> DEFINE w == Within(R, n)
           T == {i \in Nat : w[j] \subseteq w[j + i]}
           further(X) == X \cup UNION {R[m] : m \in X \cap Names}
<1>6. \A i \in Nat : w[i + 1] = further(w[i])
  BY WithinDef, Zenon
<1> HIDE DEF w
<1>0. ASSUME NEW i \in Nat PROVE w[i] \subseteq w[i + 1]
  BY <1>6
<1> HIDE DEF further
<1>1. 0 \in T
  OBVIOUS
<1>2. \A i \in Nat : i \in T => i + 1 \in T
  <2> SUFFICES ASSUME NEW i \in Nat, w[j] \subseteq w[j + i] PROVE w[j] \subseteq w[j + (i + 1)]
    OBVIOUS
  <2>1. j + i \in Nat /\ (j + i) + 1 = j + (i + 1)
    OBVIOUS
  <2>2. w[j + i] \subseteq w[(j + i) + 1]
    BY <1>0, <2>1
  <2> QED BY <2>1, <2>2
<1>3. Nat \subseteq T
  <2> HIDE DEF T
  <2> QED BY <1>1, <1>2, Induct
<1>4. k - j \in Nat /\ j + (k - j) = k
  OBVIOUS
<1>5. w[j] \subseteq w[j + (k - j)]
  BY <1>3, <1>4
<1> QED BY <1>4, <1>5 DEF w

\* What is built from what n is built from.
LEMMA WithinComposes ==
    ASSUME NEW R \in Registries, NEW n \in Names, NEW m \in Names, NEW j \in Nat, NEW k \in Nat,
           m \in Within(R, n)[j]
    PROVE  Within(R, m)[k] \subseteq Within(R, n)[j + k + 1]
<1> DEFINE w == Within(R, n)
           v == Within(R, m)
           T == {i \in Nat : v[i] \subseteq w[j + i + 1]}
<1>0. /\ \A i \in Nat : w[i + 1] = w[i] \cup UNION {R[x] : x \in w[i] \cap Names}
      /\ \A i \in Nat : v[i + 1] = v[i] \cup UNION {R[x] : x \in v[i] \cap Names}
      /\ v[0] = R[m] /\ m \in w[j]
  BY WithinDef
<1> HIDE DEF w, v
<1>1. 0 \in T
  <2>1. R[m] \subseteq w[j + 1]
    BY <1>0
  <2> QED BY <2>1, <1>0
<1>2. ASSUME NEW i \in Nat, v[i] \subseteq w[j + i + 1]
      PROVE  v[i + 1] \subseteq w[j + (i + 1) + 1]
  <2>1. j + i + 1 \in Nat /\ (j + i + 1) + 1 = j + (i + 1) + 1
    OBVIOUS
  <2>2. w[(j + i + 1) + 1] = w[j + i + 1] \cup UNION {R[x] : x \in w[j + i + 1] \cap Names}
    BY <1>0, <2>1
  <2>3. v[i + 1] = v[i] \cup UNION {R[x] : x \in v[i] \cap Names}
    BY <1>0
  <2>4. v[i + 1] \subseteq w[(j + i + 1) + 1]
    BY <1>2, <2>2, <2>3
  <2> QED BY <2>1, <2>4
<1>3. Nat \subseteq T
  <2>1. ASSUME NEW i \in Nat, i \in T PROVE i + 1 \in T
    <3>1. v[i] \subseteq w[j + i + 1]
      BY <2>1
    <3>2. v[i + 1] \subseteq w[j + (i + 1) + 1]
      BY <3>1, <1>2
    <3>3. i + 1 \in Nat
      OBVIOUS
    <3> QED BY <3>2, <3>3
  <2> HIDE DEF T
  <2> QED BY <1>1, <2>1, Induct
<1>4. v[k] \subseteq w[j + k + 1]
  BY <1>3
<1> QED BY <1>4 DEF w, v

\* Fewer edges lead no further.
LEMMA WithinIsMonotone ==
    ASSUME NEW R \in Registries, NEW P \in Registries, \A m \in Names : R[m] \subseteq P[m],
           NEW n \in Names, NEW k \in Nat
    PROVE  Within(R, n)[k] \subseteq Within(P, n)[k]
<1> DEFINE w == Within(R, n)
           v == Within(P, n)
           T == {i \in Nat : w[i] \subseteq v[i]}
<1>0. /\ \A i \in Nat : w[i + 1] = w[i] \cup UNION {R[x] : x \in w[i] \cap Names}
      /\ \A i \in Nat : v[i + 1] = v[i] \cup UNION {P[x] : x \in v[i] \cap Names}
      /\ w[0] = R[n] /\ v[0] = P[n]
  BY WithinDef
<1> HIDE DEF w, v
<1>1. 0 \in T
  BY <1>0
<1>2. \A i \in Nat : i \in T => i + 1 \in T
  <2> SUFFICES ASSUME NEW i \in Nat, w[i] \subseteq v[i] PROVE w[i + 1] \subseteq v[i + 1]
    OBVIOUS
  <2> QED BY <1>0
<1>3. Nat \subseteq T
  <2> HIDE DEF T
  <2> QED BY <1>1, <1>2, Induct
<1>4. w[k] \subseteq v[k]
  BY <1>3
<1> QED BY <1>4 DEF w, v

\* What new edges into and out of n add is reached through n, in as many steps.
LEMMA WithinPasses ==
    ASSUME NEW R \in Registries, NEW Q \in Registries, NEW n \in Names,
           \A m \in Names \ {n} : Q[m] \subseteq R[m] \cup {n},
           NEW x \in Names \ {n}, NEW k \in Nat, NEW y \in Within(Q, x)[k]
    PROVE  \/ y \in Within(R, x)[k]
           \/ y = n /\ n \in Within(Q, x)[k]
           \/ \E j, l \in Nat : j + l + 1 <= k /\ n \in Within(Q, x)[j] /\ y \in Within(Q, n)[l]
<1> DEFINE w == Within(R, x)
           v == Within(Q, x)
           u == Within(Q, n)
           Through(i, z) == \/ z \in w[i]
                            \/ z = n /\ n \in v[i]
                            \/ \E j, l \in Nat : j + l + 1 <= i /\ n \in v[j] /\ z \in u[l]
           T == {i \in Nat : \A z \in v[i] : Through(i, z)}
<1>0. /\ \A i \in Nat : w[i + 1] = w[i] \cup UNION {R[m] : m \in w[i] \cap Names}
      /\ \A i \in Nat : v[i + 1] = v[i] \cup UNION {Q[m] : m \in v[i] \cap Names}
      /\ \A i \in Nat : u[i + 1] = u[i] \cup UNION {Q[m] : m \in u[i] \cap Names}
      /\ w[0] = R[x] /\ v[0] = Q[x] /\ u[0] = Q[n]
  BY WithinDef, ZenonT(60)
<1> HIDE DEF w, v, u
<1>1. 0 \in T
  BY <1>0
<1>2. \A i \in Nat : i \in T => i + 1 \in T
  <2> SUFFICES ASSUME NEW i \in Nat, \A z \in v[i] : Through(i, z), NEW z \in v[i + 1]
               PROVE  Through(i + 1, z)
    <3> HIDE DEF Through
    <3> QED OBVIOUS
  <2>1. v[i] \subseteq v[i + 1] /\ w[i] \subseteq w[i + 1]
    BY <1>0
  <2>2. CASE z \in v[i]
    <3>1. Through(i, z)
      BY <2>2
    <3>2. CASE \E j, l \in Nat : j + l + 1 <= i /\ n \in v[j] /\ z \in u[l]
      <4>1. PICK j \in Nat, l \in Nat : j + l + 1 <= i /\ n \in v[j] /\ z \in u[l]
        BY <3>2
      <4>2. j + l + 1 <= i + 1
        BY <4>1
      <4> QED BY <4>1, <4>2
    <3> QED BY <3>1, <3>2, <2>1
  <2>3. CASE z \notin v[i]
    <3>1. PICK m \in v[i] \cap Names : z \in Q[m]
      BY <2>3, <1>0
    <3>2. CASE m = n
      <4>1. n \in v[i] /\ z \in u[0] /\ i + 0 + 1 <= i + 1
        BY <3>1, <3>2, <1>0
      <4>2. \E j, l \in Nat : j + l + 1 <= i + 1 /\ n \in v[j] /\ z \in u[l]
        BY <4>1
      <4> QED BY <4>2
    <3>3. CASE m # n /\ z = n
      BY <3>3
    <3>4. CASE m # n /\ z # n /\ m \in w[i]
      <4>1. z \in R[m]
        BY <3>1, <3>4
      <4>2. w[i + 1] = w[i] \cup UNION {R[o] : o \in w[i] \cap Names}
        BY <1>0
      <4>3. z \in w[i + 1]
        BY <4>1, <4>2, <3>1, <3>4
      <4> QED BY <4>3
    <3>5. CASE m # n /\ m \notin w[i]
      <4>1. PICK j \in Nat, l \in Nat : j + l + 1 <= i /\ n \in v[j] /\ m \in u[l]
        BY <3>1, <3>5
      <4>2. z \in u[l + 1]
        <5>1. u[l + 1] = u[l] \cup UNION {Q[o] : o \in u[l] \cap Names}
          BY <1>0
        <5> QED BY <4>1, <3>1, <5>1
      <4>3. l + 1 \in Nat /\ j + (l + 1) + 1 <= i + 1
        BY <4>1
      <4>4. \E o, p \in Nat : o + p + 1 <= i + 1 /\ n \in v[o] /\ z \in u[p]
        BY <4>1, <4>2, <4>3
      <4> QED BY <4>4
    <3> QED BY <3>1, <3>2, <3>3, <3>4, <3>5
  <2> QED BY <2>2, <2>3
<1>3. Nat \subseteq T
  <2> HIDE DEF T
  <2> QED BY <1>1, <1>2, Induct
<1>4. Through(k, y)
  <2>1. y \in v[k]
    BY DEF v
  <2> QED BY <1>3, <2>1
<1> QED BY <1>4 DEF w, v, u

\* A registry without a cycle stays without one when n comes to have sources
\* that do not depend on it, in a registry P that says as much as the new one.
LEMMA LandingClosesNoCycle ==
    ASSUME NEW R \in Registries, NEW Q \in Registries, NEW P \in Registries, NEW n \in Names,
           n \notin Upstream(P, n), \A m \in Names : Q[m] \subseteq P[m],
           \A m \in Names \ {n} : Q[m] \subseteq R[m] \cup {n},
           Acyclic(R)
    PROVE  Acyclic(Q)
<1> DEFINE N == Cardinality(Names)
<1>0. N \in Nat
  BY NamesAreCounted
<1> HIDE DEF N
<1>1. n \notin Within(Q, n)[N]
  <2>1. Within(Q, n)[N] \subseteq Within(P, n)[N]
    BY <1>0, WithinIsMonotone
  <2> QED BY <2>1, UpstreamIsWithin DEF N
<1>2. ASSUME NEW x \in Names \ {n}, x \in Within(Q, x)[N] PROVE FALSE
  <2>1. x \notin Within(R, x)[N]
    BY UpstreamIsWithin DEF Acyclic, N
  <2>2. PICK j \in Nat, l \in Nat : j + l + 1 <= N /\ n \in Within(Q, x)[j] /\ x \in Within(Q, n)[l]
    BY <1>0, <1>2, <2>1, WithinPasses
  <2>3. Within(Q, x)[j] \subseteq Within(Q, n)[l + j + 1]
    BY <2>2, WithinComposes
  <2>4. Within(Q, n)[l + j + 1] \subseteq Within(Q, n)[N]
    <3>1. l + j + 1 \in Nat /\ l + j + 1 <= N
      BY <2>2, <1>0
    <3> QED BY <3>1, <1>0, WithinGrows
  <2> QED BY <2>2, <2>3, <2>4, <1>1
<1> QED BY <1>1, <1>2, UpstreamIsWithin DEF Acyclic, N

\* Nor does one of fewer edges have a cycle.
LEMMA FewerEdgesNoCycle ==
    ASSUME NEW R \in Registries, NEW Q \in Registries, \A m \in Names : Q[m] \subseteq R[m],
           Acyclic(R)
    PROVE  Acyclic(Q)
<1> SUFFICES ASSUME NEW n \in Names PROVE n \notin Upstream(Q, n)
  BY DEF Acyclic
<1>1. Within(Q, n)[Cardinality(Names)] \subseteq Within(R, n)[Cardinality(Names)]
  BY NamesAreCounted, WithinIsMonotone
<1> QED BY <1>1, UpstreamIsWithin DEF Acyclic

-----------------------------------------------------------------------------
\* The edges that flows make among themselves, as FlowsAreAcyclic takes them.
EdgesOf(fs) == [n \in Names |-> fs[n].sources \ {m \in Names : fs[m] = NoFile}]

AcyclicInv == FlowsTyped /\ LandingsCloseNothing /\ FlowsAreAcyclic

LEMMA EdgesTyped ==
    ASSUME NEW fs \in [Names -> Files] PROVE EdgesOf(fs) \in Registries
<1>1. \A f \in Files : f.sources \subseteq AllDatasets
  BY DEF Files, Written, NoFile
<1> QED BY <1>1 DEF EdgesOf, Registries

LEMMA EdgesAreRegistered ==
    ASSUME FlowsTyped, NEW n \in Names PROVE flow[n].sources \subseteq Registry[n]
<1>1. CASE flow[n] = NoFile
  BY <1>1 DEF NoFile
<1>2. CASE flow[n] # NoFile
  BY <1>2 DEF Registry, Producer
<1> QED BY <1>1, <1>2

\* Flows of which none is new: no edge is.
LEMMA FewerFlowsNoCycle ==
    ASSUME NEW old \in [Names -> Files], NEW new \in [Names -> Files], Acyclic(EdgesOf(old)),
           \A n \in Names : new[n] = old[n] \/ new[n] = NoFile
    PROVE  Acyclic(EdgesOf(new))
<1>1. EdgesOf(old) \in Registries /\ EdgesOf(new) \in Registries
  BY EdgesTyped
<1>2. \A n \in Names : EdgesOf(new)[n] \subseteq EdgesOf(old)[n]
  <2> SUFFICES ASSUME NEW n \in Names
               PROVE  new[n].sources \ {m \in Names : new[m] = NoFile}
                        \subseteq old[n].sources \ {m \in Names : old[m] = NoFile}
    BY DEF EdgesOf
  <2>1. \A m \in Names : old[m] = NoFile => new[m] = NoFile
    OBVIOUS
  <2>2. new[n].sources \subseteq old[n].sources
    <3>1. NoFile.sources = {}
      BY DEF NoFile
    <3> QED BY <3>1
  <2> QED BY <2>1, <2>2
<1> QED BY <1>1, <1>2, FewerEdgesNoCycle

\* A landing closes no cycle, when the registry is what it was checked against.
LEMMA LandedClosesNothing ==
    ASSUME FlowsTyped, LandingsCloseNothing, NEW r \in Requests, LandFlow(r), flow' \in [Names -> Files],
           Acyclic(EdgesOf(flow)), request[r].registry = Registry
    PROVE  Acyclic(EdgesOf(flow'))
<1> DEFINE n == request[r].name
           f == request[r].file
           P == [Registry EXCEPT ![n] = f.sources]
           Q == EdgesOf(flow')
           R == EdgesOf(flow)
<1>1. /\ n \in Names /\ f \in Written /\ request[r].pc = "land"
      /\ flow' = [flow EXCEPT ![n] = f]
  BY RequestsApart DEF LandFlow, LandFrames
<1>2. n \notin Upstream(P, n)
  BY <1>1 DEF LandingsCloseNothing
<1>3. P \in Registries
  BY <1>1, FilesTyped DEF Registries, Written
<1>4. R \in Registries /\ Q \in Registries
  BY EdgesTyped DEF FlowsTyped
<1>5. \A m \in Names \ {n} : flow'[m] = flow[m]
  BY <1>1 DEF FlowsTyped
<1>6. flow'[n] = f
  BY <1>1 DEF FlowsTyped
<1>7. \A m \in Names : Q[m] \subseteq P[m]
  <2> SUFFICES ASSUME NEW m \in Names PROVE flow'[m].sources \subseteq P[m]
    BY DEF EdgesOf
  <2>1. CASE m = n
    BY <1>3, <1>6, <2>1, FilesTyped DEF Registries
  <2>2. CASE m # n
    <3>1. P[m] = Registry[m]
      BY <2>2, FilesTyped DEF Registries
    <3> QED BY <2>2, <3>1, <1>5, EdgesAreRegistered
  <2> QED BY <2>1, <2>2
<1>8. \A m \in Names \ {n} : Q[m] \subseteq R[m] \cup {n}
  BY <1>5 DEF EdgesOf
<1> HIDE DEF P, Q, R
<1>9. Acyclic(Q)
  BY <1>1, <1>2, <1>3, <1>4, <1>7, <1>8, LandingClosesNoCycle DEF R
<1> QED BY <1>9 DEF Q

LEMMA AcyclicIs == FlowsAreAcyclic <=> (~overlapped => Acyclic(EdgesOf(flow)))
  BY DEF FlowsAreAcyclic, EdgesOf

LEMMA AcyclicInvInit == FlowsInit => AcyclicInv
<1> SUFFICES ASSUME FlowsInit PROVE AcyclicInv
  OBVIOUS
<1>1. FlowsTyped
  BY CopiesInvInit DEF CopiesInv
<1>2. LandingsCloseNothing
  BY DEF FlowsInit, LandingsCloseNothing, Quiet
<1>3. Acyclic(EdgesOf(flow))
  <2> SUFFICES ASSUME NEW n \in Names PROVE n \notin Within(EdgesOf(flow), n)[Cardinality(Names)]
    BY UpstreamIsWithin DEF Acyclic
  <2> DEFINE R == EdgesOf(flow)
             w == Within(R, n)
             T == {k \in Nat : w[k] = {}}
  <2>1. \A m \in Names : R[m] = {}
    BY DEF FlowsInit, EdgesOf, NoFile
  <2>2. R \in Registries
    BY <1>1, EdgesTyped DEF FlowsTyped
  <2> HIDE DEF R
  <2>3. w[0] = {} /\ \A k \in Nat : w[k] = {} => w[k + 1] = {}
    <3>1. /\ w[0] = R[n]
          /\ \A k \in Nat : w[k + 1] = w[k] \cup UNION {R[m] : m \in w[k] \cap Names}
      BY <2>2, WithinDef
    <3> HIDE DEF w
    <3> QED BY <2>1, <3>1
  <2> HIDE DEF w
  <2>4. 0 \in T /\ \A k \in Nat : k \in T => k + 1 \in T
    BY <2>3
  <2>5. Nat \subseteq T
    <3> HIDE DEF T
    <3> QED BY <2>4, Induct
  <2>6. w[Cardinality(Names)] = {}
    BY <2>5, NamesAreCounted
  <2> QED BY <2>6 DEF w, R
<1> QED BY <1>1, <1>2, <1>3, AcyclicIs DEF AcyclicInv

LEMMA LandingsStillCloseNothing ==
    ASSUME FlowsTyped, [FlowsNext]_flowVars, LandingsCloseNothing PROVE LandingsCloseNothing'
<1> SUFFICES ASSUME NEW r \in Requests, request'[r].pc = "land", NEW q, q = request'[r]
             PROVE  q.name \notin Upstream([q.registry EXCEPT ![q.name] = q.file.sources], q.name)
  BY DEF LandingsCloseNothing
<1>1. CASE request'[r] = request[r]
  BY <1>1 DEF LandingsCloseNothing
<1>2. CASE BeginFlow(r)
  BY <1>2, SavedIsChecked
<1> QED BY <1>1, <1>2, LandingsComeFromSaves

LEMMA AcyclicInvStep == AcyclicInv /\ [FlowsNext]_flowVars => AcyclicInv'
<1> SUFFICES ASSUME AcyclicInv, [FlowsNext]_flowVars PROVE AcyclicInv'
  OBVIOUS
<1>1. FlowsTyped /\ FlowsTyped' /\ LandingsCloseNothing /\ LandingsCloseNothing'
  BY StepKeepsTypes, LandingsStillCloseNothing DEF AcyclicInv
<1>2. flow \in [Names -> Files] /\ flow' \in [Names -> Files]
  BY <1>1 DEF FlowsTyped
<1>3. ASSUME ~overlapped' PROVE Acyclic(EdgesOf(flow'))
  <2> DEFINE Ok == Acyclic(EdgesOf(flow'))
             Fewer == overlapped' = overlapped /\ \A n \in Names : flow'[n] = flow[n] \/ flow'[n] = NoFile
  <2>1. ASSUME NEW r \in Requests, LandFlow(r) PROVE Ok
    <3>1. ~overlapped /\ request[r].registry = Registry
      BY <1>3, <2>1 DEF LandFlow
    <3> QED BY <1>1, <1>2, <2>1, <3>1, LandedClosesNothing, AcyclicIs DEF AcyclicInv
  <2>2. Fewer => Ok
    <3> SUFFICES ASSUME Fewer PROVE Ok
      OBVIOUS
    <3>1. Acyclic(EdgesOf(flow))
      BY <1>3, AcyclicIs DEF AcyclicInv
    <3> QED BY <1>2, <3>1, FewerFlowsNoCycle
  <2> HIDE DEF Ok
  <2>3. ASSUME DeleteFlow PROVE Ok
    <3>1. Fewer
      BY <1>2, <2>3 DEF DeleteFlow, histories
    <3> QED BY <3>1, <2>2
  <2>4. ASSUME NEW r \in Requests, UnlinkFlow(r) PROVE Ok
    <3>1. Fewer
      BY <1>2, <2>4 DEF UnlinkFlow, histories
    <3> QED BY <3>1, <2>2
  <2>5. flow' = flow /\ overlapped' = overlapped => Ok
    BY <2>2
  <2>6. ASSUME NEW r \in Requests,
               BeginFlow(r) \/ WriteCode(r) \/ StampCode(r) \/ DeleteCode(r) \/ Unstamp(r)
               \/ BeginEject(r) \/ GuardEject(r) \/ GenerateCode(r) \/ DropRequest(r)
        PROVE  flow' = flow /\ overlapped' = overlapped
    BY <2>6, ZenonT(60) DEF BeginFlow, WriteCode, StampCode, DeleteCode, Unstamp, BeginEject, GuardEject,
                GenerateCode, DropRequest, histories
  <2>7. Narrow \/ SetPolicy \/ UNCHANGED flowVars => flow' = flow /\ overlapped' = overlapped
    BY DEF Narrow, SetPolicy, Decree, flowVars, histories
  <2>8. ASSUME NEW j \in Jobs, Collect(j) \/ CheckTask(j) \/ ReadInputs(j) \/ Publish(j)
        PROVE  flow' = flow /\ overlapped' = overlapped
    BY <2>8 DEF Collect, CheckTask, ReadInputs, Publish, histories
  <2>9. Ok
    BY <2>1, <2>3, <2>4, <2>5, <2>6, <2>7, <2>8 DEF FlowsNext
  <2> QED BY <2>9 DEF Ok
<1>4. FlowsAreAcyclic'
  BY <1>3 DEF FlowsAreAcyclic, EdgesOf
<1> QED BY <1>1, <1>4 DEF AcyclicInv

\* No cycle of flows is saved, of however many flows, unless two saves overlapped.
THEOREM FlowsAreAlwaysAcyclic == FlowsSpec => []FlowsAreAcyclic
<1>1. AcyclicInv => FlowsAreAcyclic
  BY DEF AcyclicInv
<1> QED BY <1>1, AcyclicInvInit, AcyclicInvStep, PTL DEF FlowsSpec

-----------------------------------------------------------------------------
(* A list is of whatever it is a list of. *)
IsList(s) == \E S : s \in Seq(S)

LEMMA ListIs ==
    ASSUME NEW s, IsList(s)
    PROVE  Len(s) \in Nat /\ DOMAIN s = 1..Len(s)
<1>1. PICK S : s \in Seq(S)
  BY DEF IsList
<1> QED BY <1>1

LEMMA ListOf ==
    ASSUME NEW n \in Nat, NEW S, NEW s \in [1..n -> S]
    PROVE  IsList(s) /\ Len(s) = n
<1>1. s \in Seq(S)
  BY SeqDef
<1>2. Len(s) = n
  BY <1>1
<1> QED BY <1>1, <1>2 DEF IsList

LEMMA AppendIs ==
    ASSUME NEW s, IsList(s), NEW x
    PROVE  LET t == Append(s, x) IN
           /\ IsList(t) /\ DOMAIN t = DOMAIN s \cup {Len(s) + 1}
           /\ Len(s) + 1 \notin DOMAIN s
           /\ t[Len(s) + 1] = x /\ \A k \in DOMAIN s : t[k] = s[k]
<1>1. PICK S : s \in Seq(S)
  BY DEF IsList
<1> DEFINE T == S \cup {x}
<1>2. s \in Seq(T) /\ x \in T
  BY <1>1
<1> HIDE DEF T
<1>3. Append(s, x) \in Seq(T) /\ Len(Append(s, x)) = Len(s) + 1
  BY <1>2
<1>4. DOMAIN s = 1..Len(s) /\ Len(s) \in Nat /\ DOMAIN Append(s, x) = 1..(Len(s) + 1)
  BY <1>2, <1>3
<1>5. Append(s, x)[Len(s) + 1] = x /\ \A k \in 1..Len(s) : Append(s, x)[k] = s[k]
  BY <1>2
<1> QED BY <1>3, <1>4, <1>5 DEF IsList

-----------------------------------------------------------------------------
(***************************************************************************)
(* The compiler of flows. Expressions first: what is said of them level by *)
(* level is there, and is what the definitions say.                        *)
(***************************************************************************)
LEMMA Parts ==
    ASSUME NEW e \in Expressions
    PROVE  /\ e.t \in {"col", "lit", "op"}
           /\ e.t = "op" => \A i \in DOMAIN e.args : e.args[i] \in Expressions
BY FlowCompilerAssumption DEF CompilerConstants

LEMMA LevelIsThere == MaxNesting \in Nat /\ MaxNesting + 1 \in Nat
<1>1. MaxNesting \in Nat
  BY FlowCompilerAssumption DEF CompilerConstants
<1> QED BY <1>1

\* A recursion that does not look at the level.
LEMMA LevelsExist ==
    ASSUME NEW S, NEW a \in S, NEW G \in [S -> S]
    PROVE  \E f \in [Nat -> S] : f = [n \in Nat |-> IF n = 0 THEN a ELSE G[f[n - 1]]]
<1> DEFINE H == [n \in Nat |-> G]
<1>1. H \in [Nat -> [S -> S]] /\ \A n \in Nat : H[n] = G
  OBVIOUS
<1> HIDE DEF H
<1>2. PICK f \in [Nat -> S] : Recursion(f, a, H)
  BY <1>1, RecursionExists
<1>3. f = [n \in Nat |-> IF n = 0 THEN a ELSE H[n][f[n - 1]]]
  BY <1>2 DEF Recursion
<1>4. f = [n \in Nat |-> IF n = 0 THEN a ELSE G[f[n - 1]]]
  BY <1>1, <1>3
<1> QED BY <1>4

LEMMA WellShapedAre ==
    /\ WellShapedIn[0] = {}
    /\ \A n \in Nat : \A e \in WellShapedIn[n + 1] :
          /\ e \in Expressions
          /\ e.t = "op" => e.op \in Ops /\ \A i \in DOMAIN e.args : e.args[i] \in WellShapedIn[n]
<1> DEFINE S == SUBSET Expressions
           of(X) == {e \in Expressions : e.t = "op" =>
                       /\ e.op \in Ops /\ TakesArgs(e.op, Len(e.args)) /\ Shaped(e.op, e.args)
                       /\ \A i \in DOMAIN e.args : e.args[i] \in X}
           Is(w) == w = [n \in Nat |-> IF n = 0 THEN {} ELSE of(w[n - 1])]
<1>1. \E w : Is(w)
  <2> DEFINE G == [X \in S |-> of(X)]
  <2>1. {} \in S /\ \A X \in S : of(X) \in S
    OBVIOUS
  <2> HIDE DEF of, S
  <2>2. G \in [S -> S] /\ \A X \in S : G[X] = of(X)
    BY <2>1
  <2> HIDE DEF G
  <2>3. PICK f \in [Nat -> S] : f = [n \in Nat |-> IF n = 0 THEN {} ELSE G[f[n - 1]]]
    BY <2>1, <2>2, LevelsExist
  <2>4. \A n \in Nat : n # 0 => f[n - 1] \in S
    OBVIOUS
  <2>5. f = [n \in Nat |-> IF n = 0 THEN {} ELSE of(f[n - 1])]
    BY <2>2, <2>3, <2>4
  <2> QED BY <2>5
<1>2. Is(WellShapedIn)
  <2> HIDE DEF Is
  <2>1. WellShapedIn = CHOOSE w : Is(w)
    BY DEF WellShapedIn, Is
  <2> QED BY <1>1, <2>1
<1>3. WellShapedIn[0] = {} /\ \A n \in Nat : WellShapedIn[n + 1] = of(WellShapedIn[n])
  <2> HIDE DEF of
  <2>1. \A n \in Nat : n + 1 \in Nat /\ n + 1 # 0 /\ (n + 1) - 1 = n
    OBVIOUS
  <2> QED BY <1>2, <2>1
<1> QED BY <1>3

LEMMA NamesAre ==
    \A n \in Nat : \A e \in Expressions :
        /\ e.t = "col" => NamesWithin[n + 1][e] = {e.name}
        /\ e.t = "op" => \A i \in DOMAIN e.args :
                            NamesWithin[n][e.args[i]] \subseteq NamesWithin[n + 1][e]
<1> DEFINE V == {e.name : e \in Expressions}
           S == [Expressions -> SUBSET V]
           start == [e \in Expressions |-> {}]
           of(X) == [e \in Expressions |->
                        CASE e.t = "col" -> {e.name}
                          [] e.t = "lit" -> {}
                          [] OTHER -> UNION {X[e.args[i]] : i \in DOMAIN e.args}]
           Is(w) == w = [n \in Nat |-> IF n = 0 THEN start ELSE of(w[n - 1])]
<1>1. \E w : Is(w)
  <2> DEFINE G == [X \in S |-> of(X)]
  <2>1. start \in S
    OBVIOUS
  <2>2. \A X \in S : of(X) \in S
    <3> TAKE X \in S
    <3>1. ASSUME NEW e \in Expressions PROVE of(X)[e] \in SUBSET V
      <4>1. CASE e.t = "col"
        BY <4>1
      <4>2. CASE e.t = "lit"
        BY <4>2
      <4>3. CASE e.t = "op"
        <5>1. \A i \in DOMAIN e.args : X[e.args[i]] \in SUBSET V
          BY <4>3, Parts
        <5>2. UNION {X[e.args[i]] : i \in DOMAIN e.args} \in SUBSET V
          BY <5>1
        <5> QED BY <4>3, <5>2
      <4> QED BY <4>1, <4>2, <4>3, Parts
    <3> QED BY <3>1
  <2> HIDE DEF of, S, start
  <2>3. G \in [S -> S] /\ \A X \in S : G[X] = of(X)
    BY <2>2
  <2> HIDE DEF G
  <2>4. PICK f \in [Nat -> S] : f = [n \in Nat |-> IF n = 0 THEN start ELSE G[f[n - 1]]]
    BY <2>1, <2>3, LevelsExist
  <2>5. \A n \in Nat : n # 0 => f[n - 1] \in S
    OBVIOUS
  <2>6. f = [n \in Nat |-> IF n = 0 THEN start ELSE of(f[n - 1])]
    BY <2>3, <2>4, <2>5
  <2> QED BY <2>6
<1>2. Is(NamesWithin)
  <2> HIDE DEF Is
  <2>1. NamesWithin = CHOOSE w : Is(w)
    BY DEF NamesWithin, Is
  <2> QED BY <1>1, <2>1
<1>3. \A n \in Nat : NamesWithin[n + 1] = of(NamesWithin[n])
  <2> HIDE DEF of, start
  <2>1. \A n \in Nat : n + 1 \in Nat /\ n + 1 # 0 /\ (n + 1) - 1 = n
    OBVIOUS
  <2> QED BY <1>2, <2>1
<1> SUFFICES ASSUME NEW n \in Nat, NEW e \in Expressions
             PROVE  /\ e.t = "col" => NamesWithin[n + 1][e] = {e.name}
                    /\ e.t = "op" => \A i \in DOMAIN e.args :
                                        NamesWithin[n][e.args[i]] \subseteq NamesWithin[n + 1][e]
  OBVIOUS
<1>4. e.t = "op" =>
         NamesWithin[n + 1][e] = UNION {NamesWithin[n][e.args[i]] : i \in DOMAIN e.args}
  BY <1>3
<1>5. e.t = "col" => NamesWithin[n + 1][e] = {e.name}
  BY <1>3
<1> HIDE DEF of, start, S, V
<1> QED BY <1>4, <1>5

\* The kinds that the compiler gives expressions, and those they have, by level.
CompilerKinds(kinds) ==
    CHOOSE within : within = [n \in Nat |->
        IF n = 0 THEN [x \in Expressions |-> ""]
        ELSE [x \in Expressions |-> KindOf(x, kinds, within[n - 1])]]

EngineKinds(cells) ==
    CHOOSE within : within = [n \in Nat |->
        IF n = 0 THEN [x \in Expressions |-> ""]
        ELSE [x \in Expressions |-> RealKindOf(x, cells, within[n - 1])]]

LEMMA KindsAreLevels ==
    ASSUME NEW e, NEW kinds, NEW cells
    PROVE  /\ ExprKind(e, kinds) = CompilerKinds(kinds)[MaxNesting + 1][e]
           /\ EngineKind(e, cells) = EngineKinds(cells)[MaxNesting + 1][e]
<1>1. ExprKind(e, kinds) = CompilerKinds(kinds)[MaxNesting + 1][e]
  BY DEF ExprKind, CompilerKinds
<1>2. EngineKind(e, cells) = EngineKinds(cells)[MaxNesting + 1][e]
  BY DEF EngineKind, EngineKinds
<1> QED BY <1>1, <1>2

LEMMA AgreedIn ==
    ASSUME NEW K, NEW V, V \subseteq K, NEW otherwise \in K
    PROVE  Agreed(V, otherwise) \in K
<1>1. ASSUME NEW k \in V, V \ {""} = {k} PROVE (CHOOSE l \in V : l # "") \in K
  <2>1. k # ""
    BY <1>1
  <2>2. (CHOOSE l \in V : l # "") \in V
    BY <2>1
  <2> QED BY <2>2
<1> QED BY <1>1 DEF Agreed

LEMMA BranchesIn ==
    ASSUME NEW K, NEW X \in [Expressions -> K], NEW e \in Expressions, e.t = "op"
    PROVE  Branches(e, X) \subseteq K
<1>1. \A i \in BranchArgs(e) : e.args[i] \in Expressions
  BY Parts DEF BranchArgs
<1> QED BY <1>1 DEF Branches

\* Both are there; a level has the kind of an operation from those of its arguments.
LEMMA CompilerKindsAre ==
    ASSUME NEW kinds
    PROVE  \A n \in Nat : \A e \in Expressions :
              CompilerKinds(kinds)[n + 1][e] = KindOf(e, kinds, CompilerKinds(kinds)[n])
<1> DEFINE K == ValueKinds \cup {""} \cup {e.kind : e \in Expressions}
                \cup {KindIn(kinds, e.name) : e \in Expressions}
           S == [Expressions -> K]
           start == [e \in Expressions |-> ""]
           of(X) == [e \in Expressions |-> KindOf(e, kinds, X)]
           Is(w) == w = [n \in Nat |-> IF n = 0 THEN start ELSE of(w[n - 1])]
<1>1. \E w : Is(w)
  <2> DEFINE G == [X \in S |-> of(X)]
  <2>1. start \in S
    OBVIOUS
  <2>2. ASSUME NEW X \in S, NEW e \in Expressions PROVE KindOf(e, kinds, X) \in K
    <3>1. ResultKind(e) \in K
      BY DEF ResultKind, ValueKinds
    <3>2. CASE e.t = "op" /\ Branching(e)
      <4>1. Branches(e, X) \subseteq K /\ "" \in K
        BY <3>2, BranchesIn
      <4> HIDE DEF K, S
      <4>2. Agreed(Branches(e, X), "") \in K
        BY <4>1, AgreedIn
      <4> QED BY <4>2, <3>2 DEF KindOf
    <3>3. CASE ~(e.t = "op" /\ Branching(e))
      BY <3>1, <3>3 DEF KindOf
    <3> QED BY <3>2, <3>3
  <2>3. \A X \in S : of(X) \in S
    <3> HIDE DEF K
    <3> QED BY <2>2
  <2> HIDE DEF of, S, start
  <2>4. G \in [S -> S] /\ \A X \in S : G[X] = of(X)
    BY <2>3
  <2> HIDE DEF G
  <2>5. PICK f \in [Nat -> S] : f = [n \in Nat |-> IF n = 0 THEN start ELSE G[f[n - 1]]]
    BY <2>1, <2>4, LevelsExist
  <2>6. \A n \in Nat : n # 0 => f[n - 1] \in S
    OBVIOUS
  <2>7. f = [n \in Nat |-> IF n = 0 THEN start ELSE of(f[n - 1])]
    BY <2>4, <2>5, <2>6
  <2> QED BY <2>7
<1>2. Is(CompilerKinds(kinds))
  <2> HIDE DEF Is
  <2>1. CompilerKinds(kinds) = CHOOSE w : Is(w)
    BY DEF CompilerKinds, Is
  <2> QED BY <1>1, <2>1
<1>3. \A n \in Nat : CompilerKinds(kinds)[n + 1] = of(CompilerKinds(kinds)[n])
  <2> HIDE DEF of, start
  <2>1. \A n \in Nat : n + 1 \in Nat /\ n + 1 # 0 /\ (n + 1) - 1 = n
    OBVIOUS
  <2> QED BY <1>2, <2>1
<1> QED BY <1>3

LEMMA EngineKindsAre ==
    ASSUME NEW cells
    PROVE  \A n \in Nat : \A e \in Expressions :
              EngineKinds(cells)[n + 1][e] = RealKindOf(e, cells, EngineKinds(cells)[n])
<1> DEFINE K == ValueKinds \cup {"", "other"} \cup {e.kind : e \in Expressions}
                \cup {Bind(e.name, cells).kind : e \in Expressions}
           S == [Expressions -> K]
           start == [e \in Expressions |-> ""]
           of(X) == [e \in Expressions |-> RealKindOf(e, cells, X)]
           Is(w) == w = [n \in Nat |-> IF n = 0 THEN start ELSE of(w[n - 1])]
<1>1. \E w : Is(w)
  <2> DEFINE G == [X \in S |-> of(X)]
  <2>1. start \in S
    OBVIOUS
  <2>2. ASSUME NEW X \in S, NEW e \in Expressions PROVE RealKindOf(e, cells, X) \in K
    <3>1. ResultKind(e) \in K /\ "number" \in K /\ "other" \in K
      BY DEF ResultKind, ValueKinds
    <3>2. CASE e.t = "op" /\ Branching(e)
      <4>1. Branches(e, X) \subseteq K
        BY <3>2, BranchesIn
      <4> HIDE DEF K, S
      <4>2. Agreed(Branches(e, X), "other") \in K
        BY <3>1, <4>1, AgreedIn
      <4> QED BY <4>2, <3>2 DEF RealKindOf, Branching, NumberOps
    <3>3. CASE ~(e.t = "op" /\ Branching(e))
      <4>1. (e.t = "col" => Bind(e.name, cells).kind \in K) /\ (e.t = "lit" => e.kind \in K)
        OBVIOUS
      <4> HIDE DEF K, S
      <4> QED BY <3>1, <3>3, <4>1 DEF RealKindOf
    <3> QED BY <3>2, <3>3
  <2>3. \A X \in S : of(X) \in S
    <3> HIDE DEF K
    <3> QED BY <2>2
  <2> HIDE DEF of, S, start
  <2>4. G \in [S -> S] /\ \A X \in S : G[X] = of(X)
    BY <2>3
  <2> HIDE DEF G
  <2>5. PICK f \in [Nat -> S] : f = [n \in Nat |-> IF n = 0 THEN start ELSE G[f[n - 1]]]
    BY <2>1, <2>4, LevelsExist
  <2>6. \A n \in Nat : n # 0 => f[n - 1] \in S
    OBVIOUS
  <2>7. f = [n \in Nat |-> IF n = 0 THEN start ELSE of(f[n - 1])]
    BY <2>4, <2>5, <2>6
  <2> QED BY <2>7
<1>2. Is(EngineKinds(cells))
  <2> HIDE DEF Is
  <2>1. EngineKinds(cells) = CHOOSE w : Is(w)
    BY DEF EngineKinds, Is
  <2> QED BY <1>1, <2>1
<1>3. \A n \in Nat : EngineKinds(cells)[n + 1] = of(EngineKinds(cells)[n])
  <2> HIDE DEF of, start
  <2>1. \A n \in Nat : n + 1 \in Nat /\ n + 1 # 0 /\ (n + 1) - 1 = n
    OBVIOUS
  <2> QED BY <1>2, <2>1
<1> QED BY <1>3

(* What the compiler says of a kind is so, where it says something. *)
Agree(said, real) == said \in {"", real} \/ real = "other"

LEMMA BranchesAgree ==
    ASSUME NEW e, NEW X, NEW Y, \A i \in BranchArgs(e) : Agree(X[e.args[i]], Y[e.args[i]])
    PROVE  Agree(Agreed(Branches(e, X), ""), Agreed(Branches(e, Y), "other"))
<1> DEFINE V == Branches(e, X)
           W == Branches(e, Y)
<1>1. \A k \in V : \E l \in W : Agree(k, l)
  BY DEF Branches
<1> HIDE DEF V, W
<1>2. ASSUME ~\E l \in W : W \ {""} = {l} PROVE Agree(Agreed(V, ""), Agreed(W, "other"))
  BY <1>2 DEF Agreed, Agree
<1>3. ASSUME NEW l \in W, W \ {""} = {l} PROVE Agree(Agreed(V, ""), Agreed(W, "other"))
  <2>1. l # "" /\ \A m \in W : m \in {"", l}
    BY <1>3
  <2>2. Agreed(W, "other") = l
    BY <2>1, <1>3 DEF Agreed
  <2>3. CASE ~\E k \in V : V \ {""} = {k}
    BY <2>3 DEF Agreed, Agree
  <2>4. ASSUME NEW k \in V, V \ {""} = {k} PROVE Agree(Agreed(V, ""), l)
    <3>1. k # "" /\ \A m \in V : m \in {"", k}
      BY <2>4
    <3>2. Agreed(V, "") = k
      BY <3>1, <2>4 DEF Agreed
    <3>3. PICK m \in W : Agree(k, m)
      BY <1>1
    <3>4. m \in {"", l}
      BY <2>1
    <3> QED BY <3>1, <3>2, <3>3, <3>4 DEF Agree
  <2> QED BY <2>2, <2>3, <2>4
<1>4. Agree(Agreed(V, ""), Agreed(W, "other"))
  BY <1>2, <1>3
<1> QED BY <1>4 DEF V, W

\* What a name means to the engine.
BoundTo(cells, kinds, names) == \A n \in names : Agree(KindIn(kinds, n), Bind(n, cells).kind)

LEMMA KindsAgree ==
    ASSUME NEW kinds, NEW cells, NEW names, BoundTo(cells, kinds, names),
           NEW e, WellShaped(e), NamesIn(e) \subseteq names
    PROVE  Agree(ExprKind(e, kinds), EngineKind(e, cells))
<1> DEFINE C(n) == CompilerKinds(kinds)[n]
           R(n) == EngineKinds(cells)[n]
           T == {n \in Nat : \A x \in WellShapedIn[n] :
                    NamesWithin[n][x] \subseteq names => Agree(C(n)[x], R(n)[x])}
<1>1. ASSUME NEW n \in Nat, NEW x \in WellShapedIn[n + 1], NamesWithin[n + 1][x] \subseteq names,
             x.t = "op" /\ Branching(x) =>
                \A i \in BranchArgs(x) : Agree(C(n)[x.args[i]], R(n)[x.args[i]])
      PROVE  Agree(C(n + 1)[x], R(n + 1)[x])
  <2>1. x \in Expressions /\ (x.t = "op" => x.op \in Ops)
    BY WellShapedAre
  <2>2. C(n + 1)[x] = KindOf(x, kinds, C(n)) /\ R(n + 1)[x] = RealKindOf(x, cells, R(n))
    BY <2>1, CompilerKindsAre, EngineKindsAre
  <2>3. x.t \in {"col", "lit", "op"}
    BY <2>1, Parts
  <2> HIDE DEF C, R
  <2>4. CASE x.t = "col"
    <3>1. x.name \in names
      BY <1>1, <2>1, <2>4, NamesAre
    <3>2. KindOf(x, kinds, C(n)) = KindIn(kinds, x.name)
      BY <2>4 DEF KindOf
    <3>3. RealKindOf(x, cells, R(n)) = Bind(x.name, cells).kind
      BY <2>4 DEF RealKindOf
    <3> QED BY <3>1, <3>2, <3>3, <2>2 DEF BoundTo
  <2>5. CASE x.t = "lit"
    <3>1. KindOf(x, kinds, C(n)) = x.kind
      BY <2>5 DEF KindOf
    <3>2. RealKindOf(x, cells, R(n)) = x.kind
      BY <2>5 DEF RealKindOf
    <3> QED BY <3>1, <3>2, <2>2 DEF Agree
  <2>6. CASE x.t = "op" /\ Branching(x)
    <3>1. KindOf(x, kinds, C(n)) = Agreed(Branches(x, C(n)), "")
      BY <2>6 DEF KindOf
    <3>2. RealKindOf(x, cells, R(n)) = Agreed(Branches(x, R(n)), "other")
      BY <2>6 DEF RealKindOf, Branching, NumberOps
    <3>3. Agree(Agreed(Branches(x, C(n)), ""), Agreed(Branches(x, R(n)), "other"))
      BY <1>1, <2>6, BranchesAgree
    <3> QED BY <3>1, <3>2, <3>3, <2>2
  <2>7. CASE x.t = "op" /\ ~Branching(x) /\ x.op \in NumberOps
    <3>1. KindOf(x, kinds, C(n)) = ResultKind(x)
      BY <2>7 DEF KindOf
    <3>2. RealKindOf(x, cells, R(n)) \in {"number", "other"}
      BY <2>7 DEF RealKindOf
    <3>3. ResultKind(x) = "number"
      BY <2>7 DEF ResultKind, IsBoolean, BooleanOps, NumberOps, Comparisons, TextOps
    <3> QED BY <3>1, <3>2, <3>3, <2>2 DEF Agree
  <2>8. CASE x.t = "op" /\ ~Branching(x) /\ x.op \notin NumberOps
    <3>1. KindOf(x, kinds, C(n)) = ResultKind(x)
      BY <2>8 DEF KindOf
    <3>2. RealKindOf(x, cells, R(n)) = ResultKind(x)
      BY <2>8 DEF RealKindOf
    <3> QED BY <3>1, <3>2, <2>2 DEF Agree
  <2> QED BY <2>3, <2>4, <2>5, <2>6, <2>7, <2>8
<1>2. 0 \in T
  BY WellShapedAre
<1>3. ASSUME NEW n \in Nat, n \in T PROVE n + 1 \in T
  <2> SUFFICES ASSUME NEW x \in WellShapedIn[n + 1], NamesWithin[n + 1][x] \subseteq names
               PROVE  Agree(C(n + 1)[x], R(n + 1)[x])
    OBVIOUS
  <2>1. x \in Expressions /\ (x.t = "op" => \A i \in DOMAIN x.args : x.args[i] \in WellShapedIn[n])
    BY WellShapedAre
  <2>2. x.t = "op" => \A i \in DOMAIN x.args : NamesWithin[n][x.args[i]] \subseteq names
    BY <2>1, NamesAre
  <2>3. BranchArgs(x) \subseteq DOMAIN x.args
    BY DEF BranchArgs
  <2> HIDE DEF C, R
  <2>4. x.t = "op" => \A i \in BranchArgs(x) : Agree(C(n)[x.args[i]], R(n)[x.args[i]])
    BY <1>3, <2>1, <2>2, <2>3
  <2> QED BY <1>1, <2>4
<1>4. Nat \subseteq T
  <2> HIDE DEF T
  <2> QED BY <1>2, <1>3, Induct
<1>5. Agree(C(MaxNesting + 1)[e], R(MaxNesting + 1)[e])
  BY <1>4, LevelIsThere DEF WellShaped, NamesIn
<1> QED BY <1>5, KindsAreLevels

-----------------------------------------------------------------------------
(* Lists of columns. *)
LEMMA FunctionIsList ==
    ASSUME NEW n \in Nat, NEW f, f = [j \in 1..n |-> f[j]]
    PROVE  IsList(f) /\ Len(f) = n
<1> DEFINE S == {f[j] : j \in 1..n}
<1>1. [j \in 1..n |-> f[j]] \in [1..n -> S]
  OBVIOUS
<1>2. f \in [1..n -> S]
  BY <1>1
<1> QED BY <1>2, ListOf

LEMMA DistinctAppended ==
    ASSUME NEW q, IsList(q), Distinct(q), NEW x, ~Collides(x, q)
    PROVE  Distinct(Append(q, x))
<1> DEFINE t == Append(q, x)
<1>1. /\ DOMAIN t = DOMAIN q \cup {Len(q) + 1} /\ Len(q) + 1 \notin DOMAIN q
      /\ t[Len(q) + 1] = x /\ \A k \in DOMAIN q : t[k] = q[k]
  BY AppendIs
<1>2. \A k \in DOMAIN q : Folded[q[k]] # Folded[x]
  BY DEF Collides, Members
<1> HIDE DEF t
<1>3. Distinct(t)
  BY <1>1, <1>2 DEF Distinct
<1> QED BY <1>3 DEF t

WantedUpto(schema, wanted) ==
    CHOOSE upto : upto = [n \in Nat |->
        IF n = 0 THEN <<>>
        ELSE IF n \in DOMAIN schema /\ schema[n] \in wanted THEN Append(upto[n - 1], schema[n])
        ELSE upto[n - 1]]

LEMMA WantedIsUpto ==
    ASSUME NEW schema, NEW wanted
    PROVE  Wanted(schema, wanted) = WantedUpto(schema, wanted)[Len(schema)]
BY DEF Wanted, WantedUpto

LEMMA WantedStep ==
    ASSUME NEW schema, IsList(schema), NEW wanted
    PROVE  LET u == WantedUpto(schema, wanted) IN
           /\ u[0] = <<>>
           /\ \A n \in Nat : u[n + 1] = IF n + 1 \in DOMAIN schema /\ schema[n + 1] \in wanted
                                        THEN Append(u[n], schema[n + 1]) ELSE u[n]
<1>1. PICK A : schema \in Seq(A)
  BY DEF IsList
<1> DEFINE S == Seq(A)
           next(n, q) == IF n \in DOMAIN schema /\ schema[n] \in wanted
                         THEN Append(q, schema[n]) ELSE q
           Is(w) == w = [n \in Nat |-> IF n = 0 THEN <<>> ELSE next(n, w[n - 1])]
           G == [n \in Nat |-> [q \in S |-> next(n, q)]]
<1>2. \A n \in Nat : \A q \in S : next(n, q) \in S
  <2> SUFFICES ASSUME NEW n \in Nat, NEW q \in S PROVE next(n, q) \in S
    OBVIOUS
  <2>1. n \in DOMAIN schema => schema[n] \in A
    BY <1>1
  <2> QED BY <2>1
<1>3. <<>> \in S
  OBVIOUS
<1>4. \E w : Is(w)
  <2> HIDE DEF next, S
  <2>1. G \in [Nat -> [S -> S]] /\ \A n \in Nat : \A q \in S : G[n][q] = next(n, q)
    BY <1>2
  <2> HIDE DEF G
  <2>2. PICK f \in [Nat -> S] : Recursion(f, <<>>, G)
    BY <1>3, <2>1, RecursionExists
  <2>3. f = [n \in Nat |-> IF n = 0 THEN <<>> ELSE G[n][f[n - 1]]]
    BY <2>2 DEF Recursion
  <2>4. \A n \in Nat : n # 0 => f[n - 1] \in S
    OBVIOUS
  <2>5. f = [n \in Nat |-> IF n = 0 THEN <<>> ELSE next(n, f[n - 1])]
    BY <2>1, <2>3, <2>4
  <2> QED BY <2>5
<1>5. Is(WantedUpto(schema, wanted))
  <2> HIDE DEF Is
  <2>1. WantedUpto(schema, wanted) = CHOOSE w : Is(w)
    BY DEF WantedUpto, Is
  <2> QED BY <1>4, <2>1
<1> DEFINE u == WantedUpto(schema, wanted)
<1> HIDE DEF u
<1>6. u = [n \in Nat |-> IF n = 0 THEN <<>> ELSE next(n, u[n - 1])]
  BY <1>5 DEF u
<1>7. u[0] = <<>> /\ \A n \in Nat : u[n + 1] = next(n + 1, u[n])
  <2> HIDE DEF next
  <2>1. \A n \in Nat : n + 1 \in Nat /\ n + 1 # 0 /\ (n + 1) - 1 = n
    OBVIOUS
  <2> QED BY <1>6, <2>1
<1> QED BY <1>7 DEF u

\* What is wanted of a schema without confusable names is such a schema.
LEMMA WantedIs ==
    ASSUME NEW schema, IsList(schema), Distinct(schema), NEW wanted
    PROVE  LET k == Wanted(schema, wanted) IN
           IsList(k) /\ Members(k) \subseteq Members(schema) \cap wanted /\ Distinct(k)
<1> DEFINE u == WantedUpto(schema, wanted)
           From(q, n) == \A i \in DOMAIN q : \E j \in DOMAIN schema :
                            j <= n /\ q[i] = schema[j] /\ schema[j] \in wanted
           Good(n) == IsList(u[n]) /\ From(u[n], n) /\ Distinct(u[n])
           T == {n \in Nat : Good(n)}
<1>1. Len(schema) \in Nat /\ DOMAIN schema = 1..Len(schema)
  BY ListIs
<1>2. /\ u[0] = <<>>
      /\ \A n \in Nat : u[n + 1] = IF n + 1 \in DOMAIN schema /\ schema[n + 1] \in wanted
                                   THEN Append(u[n], schema[n + 1]) ELSE u[n]
  BY WantedStep
<1> HIDE DEF u
<1>3. 0 \in T
  <2>1. IsList(<<>>) /\ DOMAIN <<>> = {}
    <3>1. <<>> \in Seq({})
      OBVIOUS
    <3> QED BY <3>1 DEF IsList
  <2> QED BY <1>2, <2>1 DEF Distinct
<1>4. ASSUME NEW n \in Nat, n \in T PROVE n + 1 \in T
  <2>0. IsList(u[n]) /\ From(u[n], n) /\ Distinct(u[n])
    BY <1>4
  <2>1. CASE n + 1 \in DOMAIN schema /\ schema[n + 1] \in wanted
    <3> DEFINE q == u[n]
               x == schema[n + 1]
               t == Append(q, x)
    <3>1. u[n + 1] = t
      BY <1>2, <2>1
    <3>2. ~Collides(x, q)
      <4>1. ASSUME NEW i \in DOMAIN q, Folded[q[i]] = Folded[x] PROVE FALSE
        <5>1. PICK j \in DOMAIN schema : j <= n /\ q[i] = schema[j]
          BY <2>0
        <5>2. j \in Nat /\ j # n + 1
          BY <1>1, <5>1
        <5> QED BY <2>1, <4>1, <5>1, <5>2 DEF Distinct
      <4> QED BY <4>1 DEF Collides, Members
    <3>3. Distinct(t)
      BY <2>0, <3>2, DistinctAppended
    <3>4. IsList(t) /\ DOMAIN t = DOMAIN q \cup {Len(q) + 1}
          /\ t[Len(q) + 1] = x /\ \A k \in DOMAIN q : t[k] = q[k]
      BY <2>0, AppendIs
    <3> HIDE DEF t, q
    <3>5. From(t, n + 1)
      <4> SUFFICES ASSUME NEW i \in DOMAIN t
                   PROVE  \E j \in DOMAIN schema : j <= n + 1 /\ t[i] = schema[j] /\ schema[j] \in wanted
        OBVIOUS
      <4>1. CASE i = Len(q) + 1
        <5>1. t[i] = schema[n + 1] /\ n + 1 <= n + 1
          BY <3>4, <4>1
        <5> QED BY <5>1, <2>1
      <4>2. CASE i \in DOMAIN q
        <5>1. PICK j \in DOMAIN schema : j <= n /\ q[i] = schema[j] /\ schema[j] \in wanted
          BY <2>0, <4>2 DEF q
        <5>2. j <= n + 1
          BY <1>1, <5>1
        <5> QED BY <3>4, <4>2, <5>1, <5>2
      <4> QED BY <3>4, <4>1, <4>2
    <3> QED BY <3>1, <3>3, <3>4, <3>5
  <2>2. CASE ~(n + 1 \in DOMAIN schema /\ schema[n + 1] \in wanted)
    <3>1. u[n + 1] = u[n]
      BY <1>2, <2>2
    <3>2. From(u[n], n + 1)
      <4>1. \A j \in DOMAIN schema : j <= n => j <= n + 1
        BY <1>1
      <4> QED BY <2>0, <4>1
    <3> QED BY <2>0, <3>1, <3>2
  <2> QED BY <2>1, <2>2
<1>5. Nat \subseteq T
  <2> HIDE DEF T
  <2> QED BY <1>3, <1>4, Induct
<1>6. Good(Len(schema))
  BY <1>1, <1>5
<1>7. Members(u[Len(schema)]) \subseteq Members(schema) \cap wanted
  BY <1>6 DEF Members
<1>8. Wanted(schema, wanted) = u[Len(schema)]
  BY WantedIsUpto DEF u
<1> HIDE DEF From
<1> QED BY <1>6, <1>7, <1>8

-----------------------------------------------------------------------------
(***************************************************************************)
(* What each step of a flow keeps. A column that a cell comes from, other  *)
(* than by its own name, is one that the flow mentions; so is one that     *)
(* chooses the rows. The columns are those of the schema, one for a name.  *)
(***************************************************************************)
Told(c, names) == \E n \in names : Folded[n] = Folded[c]
Traced(cell, names) ==
    \A d, c : <<d, c>> \in cell.from => Folded[cell.name] = Folded[c] \/ Told(c, names)
Ordered(rows, names) == \A d, c : <<d, c>> \in rows => Told(c, names)
CellOk(cell, kinds, names) == Agree(KindIn(kinds, cell.name), cell.kind) /\ Traced(cell, names)

Lined(schema, cells) ==
    /\ IsList(schema) /\ IsList(cells) /\ DOMAIN cells = DOMAIN schema
    /\ \A j \in DOMAIN schema : cells[j].name = schema[j]

StepOk(s, names) ==
    /\ Lined(s.schema, s.cells) /\ Distinct(s.schema)
    /\ DOMAIN s.kinds \subseteq Members(s.schema)
    /\ \A j \in DOMAIN s.cells : CellOk(s.cells[j], s.kinds, names)
    /\ Ordered(s.rows, names)

CompilerInv == IsList(steps) /\ \A i \in DOMAIN steps : StepOk(steps[i], mentioned)

\* What is mentioned stays so.
LEMMA CellOkLater ==
    ASSUME NEW cell, NEW kinds, NEW names, CellOk(cell, kinds, names), NEW more, names \subseteq more
    PROVE  CellOk(cell, kinds, more)
BY DEF CellOk, Traced, Told

LEMMA OrderedLater ==
    ASSUME NEW rows, NEW names, Ordered(rows, names), NEW more, names \subseteq more
    PROVE  Ordered(rows, more)
BY DEF Ordered, Told

LEMMA StepOkLater ==
    ASSUME NEW s, NEW names, StepOk(s, names), NEW more, names \subseteq more
    PROVE  StepOk(s, more)
BY CellOkLater, OrderedLater DEF StepOk

\* The engine takes a name of the schema for the column of that name.
LEMMA BindIs ==
    ASSUME NEW schema, NEW cells, Lined(schema, cells), Distinct(schema), NEW j \in DOMAIN schema
    PROVE  Bind(schema[j], cells) = cells[j]
<1> DEFINE First(i) == /\ Folded[cells[i].name] = Folded[schema[j]]
                       /\ \A k \in 1..(i - 1) : Folded[cells[k].name] # Folded[schema[j]]
<1>1. DOMAIN schema = 1..Len(schema) /\ Len(schema) \in Nat
  BY ListIs DEF Lined
<1>2. \A k \in 1..(j - 1) : k \in DOMAIN schema /\ k # j
  BY <1>1
<1>3. First(j)
  BY <1>2 DEF Lined, Distinct
<1>4. \A i \in DOMAIN cells : First(i) => i = j
  BY DEF Lined, Distinct
<1> HIDE DEF First
<1>5. (CHOOSE i \in DOMAIN cells : First(i)) = j
  BY <1>3, <1>4 DEF Lined
<1> QED BY <1>5 DEF Bind, First

LEMMA BoundIs ==
    ASSUME NEW s, NEW names, StepOk(s, names), NEW n \in Members(s.schema)
    PROVE  Bind(n, s.cells).name = n /\ CellOk(Bind(n, s.cells), s.kinds, names)
<1>1. PICK j \in DOMAIN s.schema : n = s.schema[j]
  BY DEF Members
<1>2. Bind(n, s.cells) = s.cells[j]
  BY <1>1, BindIs DEF StepOk
<1> QED BY <1>1, <1>2 DEF StepOk, Lined

LEMMA BoundToIs ==
    ASSUME NEW s, NEW names, StepOk(s, names)
    PROVE  BoundTo(s.cells, s.kinds, Members(s.schema))
BY BoundIs DEF BoundTo, CellOk

\* Reading columns is told by mentioning them.
LEMMA ReadingTold ==
    ASSUME NEW s, NEW names, StepOk(s, names), NEW more, names \subseteq more,
           NEW read, read \subseteq Members(s.schema), read \subseteq more
    PROVE  Ordered(Reading(read, s.cells), more)
<1> SUFFICES ASSUME NEW d, NEW c, <<d, c>> \in Reading(read, s.cells) PROVE Told(c, more)
  BY DEF Ordered
<1>1. PICK n \in read : <<d, c>> \in Bind(n, s.cells).from
  BY DEF Reading
<1>2. Bind(n, s.cells).name = n /\ Traced(Bind(n, s.cells), names)
  BY <1>1, BoundIs DEF CellOk
<1>3. Folded[n] = Folded[c] \/ Told(c, names)
  BY <1>1, <1>2 DEF Traced
<1> QED BY <1>1, <1>3 DEF Told

LEMMA OrderedBoth ==
    ASSUME NEW names, NEW a, NEW b, Ordered(a, names), Ordered(b, names)
    PROVE  Ordered(a \cup b, names)
BY DEF Ordered

\* A kind is kept, or forgotten.
Remains(said, before) == said \in {"", before}

\* A column under its name, or under another when its own is mentioned.
LEMMA RenamedOk ==
    ASSUME NEW s, NEW names, StepOk(s, names), NEW n \in Members(s.schema),
           NEW more, names \subseteq more, NEW q, q = n \/ n \in more,
           NEW kinds, Remains(KindIn(kinds, q), KindIn(s.kinds, n))
    PROVE  CellOk(Renamed(Bind(n, s.cells), q), kinds, more)
<1> DEFINE b == Bind(n, s.cells)
           r == Renamed(b, q)
<1>1. b.name = n /\ Agree(KindIn(s.kinds, b.name), b.kind) /\ Traced(b, names)
  BY BoundIs DEF CellOk
<1>2. r.name = q /\ r.kind = b.kind /\ r.from = b.from
  BY DEF Renamed, Cell
<1> HIDE DEF b, r
<1>3. Agree(KindIn(kinds, q), b.kind)
  BY <1>1 DEF Agree, Remains
<1>4. Traced(r, more)
  <2> SUFFICES ASSUME NEW d, NEW c, <<d, c>> \in r.from
               PROVE  Folded[r.name] = Folded[c] \/ Told(c, more)
    BY DEF Traced
  <2>1. Folded[n] = Folded[c] \/ Told(c, names)
    BY <1>1, <1>2 DEF Traced
  <2> QED BY <1>2, <2>1 DEF Told
<1>5. CellOk(r, kinds, more)
  BY <1>2, <1>3, <1>4 DEF CellOk
<1> QED BY <1>5 DEF r, b

\* Every column is one, by its position: what is to be shown of a step.
LEMMA StepOkBy ==
    ASSUME NEW inputs, NEW schema, NEW kinds, NEW cells, NEW rows, NEW names,
           Lined(schema, cells), Distinct(schema), DOMAIN kinds \subseteq Members(schema),
           \A j \in DOMAIN schema : CellOk(cells[j], kinds, names), Ordered(rows, names)
    PROVE  StepOk(Compiled(inputs, schema, kinds, cells, rows), names)
<1> DEFINE s == Compiled(inputs, schema, kinds, cells, rows)
<1>1. s.schema = schema /\ s.kinds = kinds /\ s.cells = cells /\ s.rows = rows
  BY DEF Compiled
<1> HIDE DEF s
<1>2. StepOk(s, names)
  BY <1>1 DEF StepOk, Lined
<1> QED BY <1>2 DEF s

LEMMA Added ==
    ASSUME CompilerInv, NEW step, NEW names, AddStep(step, names),
           StepOk(step, mentioned \cup names)
    PROVE  CompilerInv'
<1>1. steps' = Append(steps, step) /\ mentioned' = mentioned \cup names
  BY DEF AddStep
<1> DEFINE t == Append(steps, step)
           more == mentioned \cup names
<1>2. /\ IsList(t) /\ DOMAIN t = DOMAIN steps \cup {Len(steps) + 1}
      /\ t[Len(steps) + 1] = step /\ \A k \in DOMAIN steps : t[k] = steps[k]
  BY AppendIs DEF CompilerInv
<1>3. mentioned \subseteq more
  OBVIOUS
<1>4. StepOk(step, more)
  OBVIOUS
<1> HIDE DEF t, more
<1>5. \A i \in DOMAIN t : StepOk(t[i], more)
  BY <1>2, <1>3, <1>4, StepOkLater DEF CompilerInv
<1>6. steps' = t /\ mentioned' = more
  BY <1>1 DEF t, more
<1> QED BY <1>2, <1>5, <1>6 DEF CompilerInv

\* A column that is taken over as it is.
LEMMA TakenOk ==
    ASSUME NEW s, NEW names, StepOk(s, names), NEW n \in Members(s.schema),
           NEW more, names \subseteq more,
           NEW kinds, Remains(KindIn(kinds, n), KindIn(s.kinds, n))
    PROVE  CellOk(Bind(n, s.cells), kinds, more)
<1> DEFINE b == Bind(n, s.cells)
<1>1. b.name = n /\ Agree(KindIn(s.kinds, b.name), b.kind) /\ Traced(b, names)
  BY BoundIs DEF CellOk
<1> HIDE DEF b
<1>2. Agree(KindIn(kinds, n), b.kind)
  BY <1>1 DEF Agree, Remains
<1>3. Traced(b, more)
  BY <1>1 DEF Traced, Told
<1>4. CellOk(b, kinds, more)
  BY <1>1, <1>2, <1>3 DEF CellOk
<1> QED BY <1>4 DEF b

\* A new column that is told what it comes from.
LEMMA NewOk ==
    ASSUME NEW name, NEW sort, NEW from, NEW kinds, NEW names,
           Agree(KindIn(kinds, name), sort), Ordered(from, names)
    PROVE  CellOk(Cell(name, sort, from), kinds, names)
BY DEF CellOk, Cell, Traced, Ordered

LEMMA LinedBy ==
    ASSUME NEW schema, IsList(schema), NEW cells, cells = [j \in DOMAIN schema |-> cells[j]],
           \A j \in DOMAIN schema : cells[j].name = schema[j]
    PROVE  Lined(schema, cells)
<1>1. Len(schema) \in Nat /\ DOMAIN schema = 1..Len(schema)
  BY ListIs
<1>2. IsList(cells)
  BY <1>1, FunctionIsList
<1>3. DOMAIN cells = DOMAIN schema
  OBVIOUS
<1> QED BY <1>2, <1>3 DEF Lined

LEMMA LinedAppended ==
    ASSUME NEW schema, NEW cells, Lined(schema, cells), NEW cell, NEW name, cell.name = name
    PROVE  Lined(Append(schema, name), Append(cells, cell)) /\ Len(cells) = Len(schema)
<1> DEFINE q == Append(schema, name)
           c == Append(cells, cell)
           n == Len(schema) + 1
<1>1. IsList(q) /\ DOMAIN q = DOMAIN schema \cup {n} /\ n \notin DOMAIN schema
      /\ q[n] = name /\ \A j \in DOMAIN schema : q[j] = schema[j]
  BY AppendIs DEF Lined
<1>2. Len(cells) = Len(schema)
  BY ListIs DEF Lined
<1>3. IsList(c) /\ DOMAIN c = DOMAIN cells \cup {n}
      /\ c[n] = cell /\ \A j \in DOMAIN cells : c[j] = cells[j]
  BY <1>2, AppendIs DEF Lined
<1> HIDE DEF q, c, n
<1>4. Lined(q, c)
  BY <1>1, <1>3 DEF Lined
<1> QED BY <1>2, <1>4 DEF q, c

LEMMA NamedWith ==
    ASSUME NEW kinds, NEW more
    PROVE  DOMAIN With(kinds, more) = DOMAIN kinds \cup DOMAIN more
BY DEF With

LEMMA KindsWith ==
    ASSUME NEW kinds, NEW more, NEW n
    PROVE  /\ n \in DOMAIN more => KindIn(With(kinds, more), n) = more[n]
           /\ n \notin DOMAIN more => KindIn(With(kinds, more), n) = KindIn(kinds, n)
BY DEF With, KindIn

LEMMA KindsTaken ==
    ASSUME NEW kinds, NEW more, NEW n \in DOMAIN more
    PROVE  KindIn(With(kinds, more), n) = KindIn(more, n)
BY DEF With, KindIn

LEMMA NamedWithOne ==
    ASSUME NEW kinds, NEW name, NEW sort
    PROVE  DOMAIN With(kinds, OneKind(name, sort)) = DOMAIN kinds \cup {name}
BY NamedWith DEF OneKind

LEMMA KindsWithOne ==
    ASSUME NEW kinds, NEW name, NEW sort
    PROVE  \A n : KindIn(With(kinds, OneKind(name, sort)), n) =
                     IF n = name THEN sort ELSE KindIn(kinds, n)
<1> DEFINE more == OneKind(name, sort)
<1>1. DOMAIN more = {name} /\ more[name] = sort
  BY DEF OneKind
<1> HIDE DEF more
<1>2. KindIn(With(kinds, more), name) = sort
  <2>1. name \in DOMAIN more
    BY <1>1
  <2> QED BY <1>1, <2>1, KindsWith
<1>3. ASSUME NEW n, n # name PROVE KindIn(With(kinds, more), n) = KindIn(kinds, n)
  <2>1. n \notin DOMAIN more
    BY <1>1, <1>3
  <2> QED BY <2>1, KindsWith
<1> QED BY <1>2, <1>3 DEF more

LEMMA KindsWithin ==
    ASSUME NEW kinds, NEW names, NEW n
    PROVE  Remains(KindIn([c \in DOMAIN kinds \cap names |-> kinds[c]], n), KindIn(kinds, n))
BY DEF KindIn, Remains

LEMMA CellIs ==
    ASSUME NEW name, NEW sort, NEW from
    PROVE  LET c == Cell(name, sort, from) IN c.name = name /\ c.kind = sort /\ c.from = from
BY DEF Cell

-----------------------------------------------------------------------------
(* Each step that can be added is such a step. *)
LEMMA SameColumns ==
    ASSUME CompilerInv, NEW i \in DOMAIN steps, NEW names, NEW read,
           read \subseteq names, read \subseteq Members(steps[i].schema),
           Onto(i, names, steps[i].schema, steps[i].kinds, steps[i].cells,
                steps[i].rows \cup Reading(read, steps[i].cells))
    PROVE  CompilerInv'
<1> DEFINE s == steps[i]
           rows == s.rows \cup Reading(read, s.cells)
           more == mentioned \cup names
           step == Compiled({i}, s.schema, s.kinds, s.cells, rows)
<1>1. StepOk(s, mentioned)
  BY DEF CompilerInv
<1>2. mentioned \subseteq more /\ read \subseteq more
  OBVIOUS
<1>3. AddStep(step, names)
  BY DEF Onto
<1> HIDE DEF more
<1>4. Ordered(Reading(read, s.cells), more)
  BY <1>1, <1>2, ReadingTold
<1>5. StepOk(s, more)
  BY <1>1, <1>2, StepOkLater
<1> HIDE DEF s
<1>6. Ordered(rows, more)
  BY <1>4, <1>5, OrderedBoth DEF StepOk
<1> HIDE DEF rows
<1>7. \A j \in DOMAIN s.schema : CellOk(s.cells[j], s.kinds, more)
  BY <1>5 DEF StepOk, Lined
<1>8. StepOk(step, more)
  BY <1>5, <1>6, <1>7, StepOkBy DEF StepOk
<1> HIDE DEF step
<1> QED BY <1>3, <1>8, Added DEF more

LEMMA FilterKeeps ==
    ASSUME CompilerInv, NEW i \in DOMAIN steps, Filter(i) PROVE CompilerInv'
BY SameColumns DEF Filter, Resolves

LEMMA SortKeeps ==
    ASSUME CompilerInv, NEW i \in DOMAIN steps, Sort(i) PROVE CompilerInv'
BY SameColumns DEF Sort, Listed

LEMMA SourceKeeps ==
    ASSUME CompilerInv, Source PROVE CompilerInv'
<1>1. PICK d \in DOMAIN Tables :
        LET names == [i \in DOMAIN Tables[d] |-> Tables[d][i].name]
            sort(n) == (CHOOSE c \in Members(Tables[d]) : c.name = n).kind
        IN
        /\ Distinct(names)
        /\ AddStep(Compiled({}, names, [n \in Members(names) |-> sort(n)],
                        [i \in DOMAIN names |-> Cell(names[i], sort(names[i]), {<<d, names[i]>>})], {}),
                   {})
  BY DEF Source
<1> DEFINE names == [i \in DOMAIN Tables[d] |-> Tables[d][i].name]
           sort(n) == (CHOOSE c \in Members(Tables[d]) : c.name = n).kind
           kinds == [n \in Members(names) |-> sort(n)]
           cells == [i \in DOMAIN names |-> Cell(names[i], sort(names[i]), {<<d, names[i]>>})]
           step == Compiled({}, names, kinds, cells, {})
           more == mentioned \cup {}
<1>2. Distinct(names) /\ AddStep(step, {})
  BY <1>1
<1> HIDE DEF sort, more
<1>3. IsList(names)
  <2>1. Tables[d] \in Seq([name : DOMAIN Folded, kind : ValueKinds \cup {""}])
    BY FlowCompilerAssumption DEF CompilerConstants
  <2>2. IsList(Tables[d])
    BY <2>1 DEF IsList
  <2>3. DOMAIN Tables[d] = 1..Len(Tables[d]) /\ Len(Tables[d]) \in Nat
    BY <2>2, ListIs
  <2>4. names = [i \in 1..Len(Tables[d]) |-> names[i]]
    BY <2>3
  <2> HIDE DEF names
  <2> QED BY <2>3, <2>4, FunctionIsList
<1> HIDE DEF names
<1>4. DOMAIN kinds \subseteq Members(names)
  OBVIOUS
<1>5. Lined(names, cells)
  <2>1. cells = [j \in DOMAIN names |-> cells[j]] /\ \A j \in DOMAIN names : cells[j].name = names[j]
    BY DEF Cell
  <2> HIDE DEF cells
  <2> QED BY <1>3, <2>1, LinedBy
<1>6. \A j \in DOMAIN names : CellOk(cells[j], kinds, more)
  <2> TAKE j \in DOMAIN names
  <2>1. names[j] \in Members(names)
    BY DEF Members
  <2>2. KindIn(kinds, names[j]) = sort(names[j])
    BY <2>1 DEF KindIn
  <2>3. cells[j].name = names[j] /\ cells[j].kind = sort(names[j]) /\ cells[j].from = {<<d, names[j]>>}
    BY DEF Cell
  <2> HIDE DEF cells, kinds
  <2> QED BY <2>2, <2>3 DEF CellOk, Agree, Traced
<1>7. Ordered({}, more)
  BY DEF Ordered
<1> HIDE DEF kinds, cells
<1>8. StepOk(step, more)
  BY <1>2, <1>4, <1>5, <1>6, <1>7, StepOkBy
<1> HIDE DEF step
<1> QED BY <1>2, <1>8, Added DEF more

\* The columns that are wanted, under the names they have.
LEMMA SelectKeeps ==
    ASSUME CompilerInv, NEW i \in DOMAIN steps, Select(i) PROVE CompilerInv'
<1> DEFINE s == steps[i]
           kinds(q) == [c \in DOMAIN s.kinds \cap Members(q) |-> s.kinds[c]]
           cells(q) == [j \in DOMAIN q |-> Renamed(Bind(q[j], s.cells), q[j])]
<1>1. PICK wanted, w : Onto(i, wanted, Wanted(s.schema, w), kinds(Wanted(s.schema, w)),
                            cells(Wanted(s.schema, w)), s.rows)
  BY DEF Select
<1> DEFINE q == Wanted(s.schema, w)
           more == mentioned \cup wanted
           step == Compiled({i}, q, kinds(q), cells(q), s.rows)
<1>2. AddStep(step, wanted)
  BY <1>1 DEF Onto
<1>3. StepOk(s, mentioned) /\ mentioned \subseteq more
  BY DEF CompilerInv
<1>4. IsList(q) /\ Members(q) \subseteq Members(s.schema) /\ Distinct(q)
  BY <1>3, WantedIs DEF StepOk, Lined
<1> HIDE DEF s, q, more
<1>5. DOMAIN kinds(q) \subseteq Members(q) /\ \A n : Remains(KindIn(kinds(q), n), KindIn(s.kinds, n))
  <2>1. \A n : Remains(KindIn(kinds(q), n), KindIn(s.kinds, n))
    BY KindsWithin
  <2> QED BY <2>1
<1>6. \A j \in DOMAIN q : cells(q)[j] = Renamed(Bind(q[j], s.cells), q[j]) /\ q[j] \in Members(q)
  BY DEF Members
<1>7. Lined(q, cells(q))
  <2>1. cells(q) = [j \in DOMAIN q |-> cells(q)[j]] /\ \A j \in DOMAIN q : cells(q)[j].name = q[j]
    BY DEF Renamed, Cell
  <2> HIDE DEF cells
  <2> QED BY <1>4, <2>1, LinedBy
<1> HIDE DEF kinds, cells
<1>8. \A j \in DOMAIN q : CellOk(cells(q)[j], kinds(q), more)
  <2> TAKE j \in DOMAIN q
  <2>1. q[j] \in Members(s.schema) /\ Remains(KindIn(kinds(q), q[j]), KindIn(s.kinds, q[j]))
    BY <1>4, <1>5, <1>6
  <2>2. CellOk(Renamed(Bind(q[j], s.cells), q[j]), kinds(q), more)
    BY <1>3, <2>1, RenamedOk
  <2> QED BY <1>6, <2>2
<1>9. Ordered(s.rows, more)
  BY <1>3, OrderedLater DEF StepOk
<1>10. StepOk(step, more)
  BY <1>4, <1>5, <1>7, <1>8, <1>9, StepOkBy
<1> HIDE DEF step
<1> QED BY <1>2, <1>10, Added DEF more

LEMMA RenameKeeps ==
    ASSUME CompilerInv, NEW i \in DOMAIN steps, Rename(i) PROVE CompilerInv'
<1> DEFINE s == steps[i]
           new(m, c) == IF c \in DOMAIN m THEN m[c] ELSE c
           schemaOf(m) == [j \in DOMAIN s.schema |-> new(m, s.schema[j])]
           kindsOf(m) == [n \in {new(m, c) : c \in DOMAIN s.kinds} |->
                            s.kinds[CHOOSE c \in DOMAIN s.kinds : new(m, c) = n]]
           cellsOf(m) == [j \in DOMAIN schemaOf(m) |->
                            Renamed(Bind(s.schema[j], s.cells), schemaOf(m)[j])]
<1>1. PICK m \in Renamings(s.schema) :
        /\ Distinct(schemaOf(m))
        /\ Onto(i, DOMAIN m, schemaOf(m), kindsOf(m), cellsOf(m), s.rows)
  BY DEF Rename
<1> DEFINE q == schemaOf(m)
           kinds == kindsOf(m)
           cells == cellsOf(m)
           more == mentioned \cup DOMAIN m
           step == Compiled({i}, q, kinds, cells, s.rows)
<1>2. AddStep(step, DOMAIN m)
  BY <1>1 DEF Onto
<1>3. StepOk(s, mentioned) /\ mentioned \subseteq more /\ DOMAIN m \subseteq more
  BY DEF CompilerInv
<1> HIDE DEF s, more
<1>4. DOMAIN q = DOMAIN s.schema /\ \A j \in DOMAIN s.schema : q[j] = new(m, s.schema[j])
  OBVIOUS
<1>5. IsList(q)
  <2>1. Len(s.schema) \in Nat /\ DOMAIN s.schema = 1..Len(s.schema)
    BY <1>3, ListIs DEF StepOk, Lined
  <2>2. q = [j \in 1..Len(s.schema) |-> q[j]]
    BY <2>1
  <2> HIDE DEF q
  <2> QED BY <2>1, <2>2, FunctionIsList
<1>6. \A b, c \in Members(s.schema) : new(m, b) = new(m, c) => b = c
  <2> SUFFICES ASSUME NEW j \in DOMAIN s.schema, NEW k \in DOMAIN s.schema,
                      new(m, s.schema[j]) = new(m, s.schema[k])
               PROVE  s.schema[j] = s.schema[k]
    BY DEF Members
  <2>1. q[j] = q[k]
    BY <1>4
  <2> HIDE DEF q, new
  <2> QED BY <1>1, <1>4, <2>1 DEF Distinct, q
<1>7. DOMAIN kinds = {new(m, c) : c \in DOMAIN s.kinds}
  OBVIOUS
<1>8. \A c \in Members(s.schema) : Remains(KindIn(kinds, new(m, c)), KindIn(s.kinds, c))
  <2> TAKE c \in Members(s.schema)
  <2>1. CASE new(m, c) \notin DOMAIN kinds
    BY <2>1 DEF KindIn, Remains
  <2>2. CASE new(m, c) \in DOMAIN kinds
    <3> DEFINE b == CHOOSE b \in DOMAIN s.kinds : new(m, b) = new(m, c)
    <3> HIDE DEF new
    <3>1. b \in DOMAIN s.kinds /\ new(m, b) = new(m, c)
      BY <1>7, <2>2
    <3>2. kinds[new(m, c)] = s.kinds[b]
      BY <1>7, <2>2
    <3> HIDE DEF b, kinds
    <3>3. b = c
      BY <1>3, <1>6, <3>1 DEF StepOk
    <3> QED BY <2>2, <3>1, <3>2, <3>3 DEF KindIn, Remains
  <2> QED BY <2>1, <2>2
<1>9. DOMAIN kinds \subseteq Members(q)
  <2> SUFFICES ASSUME NEW c \in DOMAIN s.kinds PROVE new(m, c) \in Members(q)
    BY <1>7
  <2>1. PICK j \in DOMAIN s.schema : c = s.schema[j]
    BY <1>3 DEF StepOk, Members
  <2> HIDE DEF q, new
  <2> QED BY <1>4, <2>1 DEF Members
<1>10. \A j \in DOMAIN q : cells[j] = Renamed(Bind(s.schema[j], s.cells), q[j])
  OBVIOUS
<1>11. Lined(q, cells)
  <2>1. cells = [j \in DOMAIN q |-> cells[j]]
    OBVIOUS
  <2>2. \A j \in DOMAIN q : cells[j].name = q[j]
    <3> HIDE DEF cells, q, new, schemaOf, cellsOf
    <3>1. \A b, n : Renamed(b, n).name = n
      BY DEF Renamed, Cell
    <3> QED BY <1>10, <3>1
  <2> HIDE DEF cells, q
  <2> QED BY <1>5, <2>1, <2>2, LinedBy
<1> HIDE DEF q, kinds, cells
<1>12. \A j \in DOMAIN q : CellOk(cells[j], kinds, more)
  <2> TAKE j \in DOMAIN q
  <2> DEFINE n == s.schema[j]
  <2>1. n \in Members(s.schema) /\ q[j] = new(m, n)
    BY <1>4 DEF Members
  <2>2. q[j] = n \/ n \in more
    BY <1>3, <2>1
  <2>3. Remains(KindIn(kinds, q[j]), KindIn(s.kinds, n))
    BY <1>8, <2>1
  <2> HIDE DEF n, new
  <2>4. CellOk(Renamed(Bind(n, s.cells), q[j]), kinds, more)
    BY <1>3, <2>1, <2>2, <2>3, RenamedOk
  <2> QED BY <1>10, <2>4 DEF n
<1>13. Ordered(s.rows, more)
  BY <1>3, OrderedLater DEF StepOk
<1>14. StepOk(step, more)
  BY <1>1, <1>9, <1>11, <1>12, <1>13, StepOkBy DEF q
<1> HIDE DEF step
<1> QED BY <1>2, <1>14, Added DEF more

\* A column behind the others.
LEMMA DerivedOk ==
    ASSUME NEW s, NEW names, StepOk(s, names), NEW name, ~Collides(name, s.schema),
           NEW said, NEW sort, Agree(said, sort), NEW from, Ordered(from, names), NEW inputs
    PROVE  StepOk(Compiled(inputs, Append(s.schema, name), With(s.kinds, OneKind(name, said)),
                           Append(s.cells, Cell(name, sort, from)), s.rows), names)
<1> DEFINE cell == Cell(name, sort, from)
           q == Append(s.schema, name)
           kinds == With(s.kinds, OneKind(name, said))
           cells == Append(s.cells, cell)
           n == Len(s.schema) + 1
<1>1. cell.name = name
  BY DEF Cell
<1>2. \A c : KindIn(kinds, c) = IF c = name THEN said ELSE KindIn(s.kinds, c)
  BY KindsWithOne
<1>3. DOMAIN kinds = DOMAIN s.kinds \cup {name}
  BY NamedWithOne
<1>4. CellOk(cell, kinds, names)
  <2> HIDE DEF kinds
  <2>1. Agree(KindIn(kinds, name), sort)
    BY <1>2
  <2> QED BY <2>1, NewOk
<1> HIDE DEF cell, kinds
<1>5. Lined(q, cells) /\ Len(s.cells) = Len(s.schema)
  <2>1. Lined(s.schema, s.cells)
    BY DEF StepOk
  <2> QED BY <1>1, <2>1, LinedAppended
<1>11. /\ DOMAIN q = DOMAIN s.schema \cup {n} /\ q[n] = name
       /\ \A j \in DOMAIN s.schema : q[j] = s.schema[j]
  BY AppendIs DEF StepOk, Lined
<1>12. cells[n] = cell /\ \A j \in DOMAIN s.cells : cells[j] = s.cells[j]
  BY <1>5, AppendIs DEF StepOk, Lined
<1>6. Distinct(q)
  BY DistinctAppended DEF StepOk, Lined
<1> HIDE DEF q, cells, n
<1>7. DOMAIN kinds \subseteq Members(q)
  <2>1. DOMAIN s.kinds \subseteq Members(q)
    BY <1>11 DEF StepOk, Members
  <2>2. name \in Members(q)
    BY <1>11 DEF Members
  <2> QED BY <1>3, <2>1, <2>2
<1>8. ASSUME NEW j \in DOMAIN q PROVE CellOk(cells[j], kinds, names)
  <2>1. CASE j = n
    BY <1>4, <1>12, <2>1
  <2>2. CASE j \in DOMAIN s.schema
    <3> DEFINE c == s.cells[j]
    <3>1. CellOk(c, s.kinds, names) /\ c.name = s.schema[j]
      BY <2>2 DEF StepOk, Lined
    <3> HIDE DEF c
    <3>2. c.name # name
      BY <2>2, <3>1 DEF Collides, Members
    <3>3. KindIn(kinds, c.name) = KindIn(s.kinds, c.name)
      BY <1>2, <3>2
    <3>4. CellOk(c, kinds, names)
      BY <3>1, <3>3 DEF CellOk
    <3>5. j \in DOMAIN s.cells
      BY <2>2 DEF StepOk, Lined
    <3> QED BY <1>12, <3>4, <3>5 DEF c
  <2> QED BY <1>11, <2>1, <2>2
<1>9. Ordered(s.rows, names)
  BY DEF StepOk
<1>10. StepOk(Compiled(inputs, q, kinds, cells, s.rows), names)
  BY <1>5, <1>6, <1>7, <1>8, <1>9, StepOkBy
<1> QED BY <1>10 DEF q, kinds, cells, cell

LEMMA DeriveKeeps ==
    ASSUME CompilerInv, NEW i \in DOMAIN steps, Derive(i) PROVE CompilerInv'
<1> DEFINE s == steps[i]
<1>1. PICK name \in Invented, e \in Expressions :
        /\ WellShaped(e) /\ ~Collides(name, s.schema)
        /\ Resolves(NamesIn(e), s.schema)
        /\ Onto(i, NamesIn(e), Append(s.schema, name),
                With(s.kinds, OneKind(name, ExprKind(e, s.kinds))),
                Append(s.cells, Cell(name, EngineKind(e, s.cells), Reading(NamesIn(e), s.cells))), s.rows)
  BY DEF Derive
<1> DEFINE said == ExprKind(e, s.kinds)
           sort == EngineKind(e, s.cells)
           from == Reading(NamesIn(e), s.cells)
           more == mentioned \cup NamesIn(e)
           step == Compiled({i}, Append(s.schema, name), With(s.kinds, OneKind(name, said)),
                            Append(s.cells, Cell(name, sort, from)), s.rows)
<1>2. AddStep(step, NamesIn(e))
  BY <1>1 DEF Onto
<1>3. StepOk(s, mentioned) /\ mentioned \subseteq more /\ NamesIn(e) \subseteq more
  BY DEF CompilerInv
<1> HIDE DEF s, more
<1>4. NamesIn(e) \subseteq Members(s.schema)
  BY <1>1 DEF Resolves
<1>5. Agree(said, sort)
  BY <1>1, <1>3, <1>4, BoundToIs, KindsAgree
<1>6. Ordered(from, more)
  BY <1>3, <1>4, ReadingTold
<1>7. StepOk(s, more)
  BY <1>3, StepOkLater
<1> HIDE DEF said, sort, from
<1>8. StepOk(step, more)
  BY <1>1, <1>5, <1>6, <1>7, DerivedOk
<1> HIDE DEF step
<1> QED BY <1>2, <1>8, Added DEF more

LEMMA CastKeeps ==
    ASSUME CompilerInv, NEW i \in DOMAIN steps, Cast(i) PROVE CompilerInv'
<1> DEFINE s == steps[i]
           cast(column, to, c) == Cell(c, IF c = column THEN to ELSE Bind(c, s.cells).kind,
                                       Bind(c, s.cells).from)
<1>1. PICK column \in Members(s.schema), to \in ValueKinds :
        Onto(i, {column}, s.schema, With(s.kinds, OneKind(column, to)),
             [j \in DOMAIN s.schema |-> cast(column, to, s.schema[j])], s.rows)
  BY DEF Cast
<1> DEFINE kinds == With(s.kinds, OneKind(column, to))
           cells == [j \in DOMAIN s.schema |-> cast(column, to, s.schema[j])]
           more == mentioned \cup {column}
           step == Compiled({i}, s.schema, kinds, cells, s.rows)
<1>2. AddStep(step, {column})
  BY <1>1 DEF Onto
<1>3. StepOk(s, mentioned) /\ mentioned \subseteq more
  BY DEF CompilerInv
<1> HIDE DEF s, more
<1>4. \A c : KindIn(kinds, c) = IF c = column THEN to ELSE KindIn(s.kinds, c)
  BY KindsWithOne
<1>11. DOMAIN kinds = DOMAIN s.kinds \cup {column}
  BY NamedWithOne
<1>5. \A j \in DOMAIN s.schema : cells[j] = cast(column, to, s.schema[j])
  OBVIOUS
<1>10. ASSUME NEW c PROVE /\ cast(column, to, c).name = c
                          /\ cast(column, to, c).from = Bind(c, s.cells).from
                          /\ cast(column, to, c).kind = IF c = column THEN to ELSE Bind(c, s.cells).kind
  BY CellIs
<1>6. Lined(s.schema, cells)
  <2>1. cells = [j \in DOMAIN s.schema |-> cells[j]]
    OBVIOUS
  <2> HIDE DEF cells, cast
  <2>2. \A j \in DOMAIN s.schema : cells[j].name = s.schema[j]
    BY <1>5, <1>10
  <2> QED BY <1>3, <2>1, <2>2, LinedBy DEF StepOk, Lined
<1> HIDE DEF kinds, cells
<1>7. ASSUME NEW j \in DOMAIN s.schema PROVE CellOk(cells[j], kinds, more)
  <2> DEFINE c == s.schema[j]
             b == Bind(c, s.cells)
             r == cells[j]
  <2>1. c \in Members(s.schema)
    BY DEF Members
  <2>2. b.name = c /\ Agree(KindIn(s.kinds, b.name), b.kind) /\ Traced(b, mentioned)
    BY <1>3, <2>1, BoundIs DEF CellOk
  <2>3. r.name = c /\ r.from = b.from /\ r.kind = IF c = column THEN to ELSE b.kind
    <3>1. r = cast(column, to, c)
      BY <1>5
    <3> HIDE DEF r, c, cast
    <3> QED BY <3>1, <1>10
  <2> HIDE DEF b, c, r
  <2>4. Traced(r, more)
    BY <1>3, <2>2, <2>3 DEF Traced, Told
  <2>5. Agree(KindIn(kinds, c), r.kind)
    BY <1>4, <2>2, <2>3 DEF Agree
  <2>6. CellOk(r, kinds, more)
    BY <2>3, <2>4, <2>5 DEF CellOk
  <2> QED BY <2>6 DEF r
<1>8. Ordered(s.rows, more)
  BY <1>3, OrderedLater DEF StepOk
<1>9. StepOk(step, more)
  <2>1. DOMAIN kinds \subseteq Members(s.schema) /\ Distinct(s.schema)
    BY <1>1, <1>3, <1>11 DEF StepOk
  <2> QED BY <1>6, <1>7, <1>8, <2>1, StepOkBy
<1> HIDE DEF step
<1> QED BY <1>2, <1>9, Added DEF more

\* Columns that are taken over as they are.
Taken(q, cells) == [j \in DOMAIN q |-> Bind(q[j], cells)]
KindsAmong(kinds, names) == [c \in DOMAIN kinds \cap names |-> kinds[c]]

LEMMA TakenLined ==
    ASSUME NEW s, NEW names, StepOk(s, names), NEW q, IsList(q), Members(q) \subseteq Members(s.schema)
    PROVE  Lined(q, Taken(q, s.cells))
<1> DEFINE cells == Taken(q, s.cells)
<1>1. cells = [j \in DOMAIN q |-> cells[j]] /\ \A j \in DOMAIN q : cells[j] = Bind(q[j], s.cells)
  BY DEF Taken
<1> HIDE DEF cells
<1>2. \A j \in DOMAIN q : cells[j].name = q[j]
  <2> TAKE j \in DOMAIN q
  <2>1. q[j] \in Members(s.schema)
    BY DEF Members
  <2>2. Bind(q[j], s.cells).name = q[j]
    BY <2>1, BoundIs
  <2> QED BY <1>1, <2>2
<1>3. Lined(q, cells)
  BY <1>1, <1>2, LinedBy
<1> QED BY <1>3 DEF cells

LEMMA TakenAre ==
    ASSUME NEW s, NEW names, StepOk(s, names), NEW q, Members(q) \subseteq Members(s.schema),
           NEW kinds, \A n \in Members(q) : Remains(KindIn(kinds, n), KindIn(s.kinds, n)),
           NEW more, names \subseteq more, NEW j \in DOMAIN q
    PROVE  CellOk(Taken(q, s.cells)[j], kinds, more)
<1>1. q[j] \in Members(q)
  BY DEF Members
<1>2. CellOk(Bind(q[j], s.cells), kinds, more)
  BY <1>1, TakenOk
<1> QED BY <1>2 DEF Taken

\* Some columns of a step, and rows that are told.
LEMMA TakenStepOk ==
    ASSUME NEW s, NEW names, StepOk(s, names), NEW q, IsList(q), Distinct(q),
           Members(q) \subseteq Members(s.schema), NEW more, names \subseteq more,
           NEW rows, Ordered(rows, more), NEW inputs
    PROVE  StepOk(Compiled(inputs, q, KindsAmong(s.kinds, Members(q)), Taken(q, s.cells), rows), more)
<1> DEFINE kinds == KindsAmong(s.kinds, Members(q))
           cells == Taken(q, s.cells)
<1>1. DOMAIN kinds \subseteq Members(q)
  BY DEF KindsAmong
<1>2. \A n : Remains(KindIn(kinds, n), KindIn(s.kinds, n))
  BY KindsWithin DEF KindsAmong
<1>3. Lined(q, cells)
  BY TakenLined
<1> HIDE DEF kinds
<1>4. \A j \in DOMAIN q : CellOk(cells[j], kinds, more)
  BY <1>2, TakenAre
<1> HIDE DEF cells
<1>5. StepOk(Compiled(inputs, q, kinds, cells, rows), more)
  BY <1>1, <1>3, <1>4, StepOkBy
<1> QED BY <1>5 DEF kinds, cells

LEMMA GroupingIs ==
    ASSUME NEW schema, NEW g \in Groupings(schema)
    PROVE  IsList(g) /\ Members(g) \subseteq Members(schema)
<1>1. PICK n \in 0..2 : g \in [1..n -> Members(schema)]
  BY DEF Groupings
<1>2. IsList(g)
  BY <1>1, ListOf
<1> QED BY <1>1, <1>2 DEF Members

LEMMA DistinctBefore ==
    ASSUME NEW q, IsList(q), NEW x, Distinct(Append(q, x))
    PROVE  Distinct(q) /\ ~Collides(x, q)
<1> DEFINE t == Append(q, x)
           n == Len(q) + 1
<1>1. /\ DOMAIN t = DOMAIN q \cup {n} /\ n \notin DOMAIN q
      /\ t[n] = x /\ \A k \in DOMAIN q : t[k] = q[k]
  BY AppendIs
<1>2. Distinct(t)
  OBVIOUS
<1> HIDE DEF t, n
<1>3. Distinct(q)
  BY <1>1, <1>2 DEF Distinct
<1>4. \A k \in DOMAIN q : Folded[q[k]] # Folded[x]
  BY <1>1, <1>2 DEF Distinct
<1> QED BY <1>3, <1>4 DEF Collides, Members

LEMMA AggregateKeeps ==
    ASSUME CompilerInv, NEW i \in DOMAIN steps, Aggregate(i) PROVE CompilerInv'
<1>0. PICK groupBy \in Groupings(steps[i].schema),
           fn \in {"count_star", "count", "sum", "min", "median"},
           column \in Members(steps[i].schema), as \in Invented :
        LET s == steps[i]
            schema == Append(groupBy, as)
            of == IF fn = "count_star" THEN {} ELSE {column}
            kinds == [c \in DOMAIN s.kinds \cap Members(groupBy) |-> s.kinds[c]]
            real == Bind(column, s.cells).kind
        IN
        /\ fn \in {"sum", "median"} => KindIn(s.kinds, column) \notin {"text", "boolean"}
        /\ Distinct(schema)
        /\ Onto(i, Members(groupBy) \cup of, schema,
                With(kinds, OneKind(as, AggregateKind(fn, KindIn(s.kinds, column)))),
                Append([j \in DOMAIN groupBy |-> Bind(groupBy[j], s.cells)],
                       Cell(as, IF fn = "sum" /\ real # "number" THEN "other"
                                ELSE AggregateKind(fn, real), Reading(of, s.cells))),
                s.rows \cup Reading(Members(groupBy), s.cells))
  BY DEF Aggregate
<1> DEFINE s == steps[i]
           g == groupBy
           read == IF fn = "count_star" THEN {} ELSE {column}
           real == Bind(column, s.cells).kind
           said == AggregateKind(fn, KindIn(s.kinds, column))
           made == IF fn = "sum" /\ real # "number" THEN "other" ELSE AggregateKind(fn, real)
           rows == s.rows \cup Reading(Members(g), s.cells)
           from == Reading(read, s.cells)
<1>1. /\ Distinct(Append(g, as))
      /\ Onto(i, Members(g) \cup read, Append(g, as),
              With(KindsAmong(s.kinds, Members(g)), OneKind(as, said)),
              Append(Taken(g, s.cells), Cell(as, made, from)), rows)
  BY <1>0 DEF KindsAmong, Taken
<1>14. g \in Groupings(s.schema) /\ column \in Members(s.schema)
  OBVIOUS
<1> DEFINE names == Members(g) \cup read
           more == mentioned \cup names
           kinds == KindsAmong(s.kinds, Members(g))
           cells == Taken(g, s.cells)
           group == Compiled({i}, g, kinds, cells, rows)
           step == Compiled({i}, Append(g, as), With(kinds, OneKind(as, said)),
                            Append(cells, Cell(as, made, from)), rows)
<1>2. AddStep(step, names)
  BY <1>1 DEF Onto
<1>3. StepOk(s, mentioned) /\ mentioned \subseteq more /\ Members(g) \subseteq more /\ read \subseteq more
  BY DEF CompilerInv
<1>4. read \subseteq Members(s.schema)
  OBVIOUS
<1> HIDE DEF s, more, read, g
<1>5. IsList(g) /\ Members(g) \subseteq Members(s.schema)
  BY <1>14, GroupingIs
<1>6. Distinct(g) /\ ~Collides(as, g)
  BY <1>1, <1>5, DistinctBefore
<1>7. Agree(said, made)
  <2>1. Agree(KindIn(s.kinds, column), real)
    BY <1>3, <1>14, BoundIs DEF CellOk
  <2> HIDE DEF real
  <2> QED BY <2>1 DEF Agree, AggregateKind
<1>8. Ordered(from, more)
  BY <1>3, <1>4, ReadingTold
<1>9. Ordered(rows, more)
  <2>1. Ordered(Reading(Members(g), s.cells), more)
    BY <1>3, <1>5, ReadingTold
  <2>2. Ordered(s.rows, more)
    BY <1>3, OrderedLater DEF StepOk
  <2> QED BY <2>1, <2>2, OrderedBoth
<1> HIDE DEF rows, from, said, made
<1>10. StepOk(group, more)
  BY <1>3, <1>5, <1>6, <1>9, TakenStepOk
<1>11. group.schema = g /\ group.kinds = kinds /\ group.cells = cells /\ group.rows = rows
  BY DEF Compiled
<1> HIDE DEF group, kinds, cells
<1>12. StepOk(Compiled({i}, Append(group.schema, as),
                       With(group.kinds, OneKind(as, said)),
                       Append(group.cells, Cell(as, made, from)), group.rows), more)
  <2>1. ~Collides(as, group.schema)
    BY <1>6, <1>11
  <2> QED BY <1>7, <1>8, <1>10, <2>1, DerivedOk
<1>13. StepOk(step, more)
  BY <1>11, <1>12
<1> HIDE DEF step, names
<1> QED BY <1>2, <1>13, Added DEF more

\* The helper column is confused with no other.
LEMMA HelperIs ==
    ASSUME NEW schema, HelperExists(schema)
    PROVE  ~Collides(Helper(schema), schema)
<1> DEFINE T == {i \in DOMAIN HelperNames : ~Collides(HelperNames[i], schema)}
           First(i) == /\ ~Collides(HelperNames[i], schema)
                       /\ \A j \in 1..(i - 1) : Collides(HelperNames[j], schema)
<1>1. DOMAIN HelperNames = 1..Len(HelperNames) /\ Len(HelperNames) \in Nat
  <2>1. HelperNames \in Seq(DOMAIN Folded)
    BY FlowCompilerAssumption DEF CompilerConstants
  <2> QED BY <2>1
<1>2. T \subseteq Nat /\ T # {}
  BY <1>1 DEF HelperExists
<1>3. PICK i \in T : \A j \in T : i <= j
  BY <1>2, LeastMember
<1>4. \A j \in 1..(i - 1) : j \in DOMAIN HelperNames /\ ~(i <= j)
  BY <1>1, <1>2
<1>5. First(i) /\ i \in DOMAIN HelperNames
  BY <1>3, <1>4
<1> HIDE DEF T
<1> DEFINE k == CHOOSE k \in DOMAIN HelperNames : First(k)
<1>6. First(k)
  <2> HIDE DEF First
  <2> QED BY <1>5
<1>7. Helper(schema) = HelperNames[k]
  BY DEF Helper
<1> HIDE DEF k
<1> QED BY <1>6, <1>7

LEMMA DedupeKeeps ==
    ASSUME CompilerInv, NEW i \in DOMAIN steps, Dedupe(i) PROVE CompilerInv'
<1> DEFINE s == steps[i]
           helper == Helper(s.schema)
           cell(read) == Cell(helper, "number", Reading(read, s.cells))
<1>1. PICK read \in SUBSET Members(s.schema) :
        /\ HelperExists(s.schema)
        /\ Onto(i, read, s.schema, NoKinds, s.cells,
                s.rows \cup Bind(helper, Append(s.cells, cell(read))).from)
  <2>1. PICK keys \in Listed(s.schema), order \in Listed(s.schema) :
            /\ HelperExists(s.schema)
            /\ Onto(i, keys \cup order, s.schema, NoKinds, s.cells,
                    s.rows \cup Bind(helper, Append(s.cells, cell(keys \cup order))).from)
    BY DEF Dedupe
  <2>2. keys \cup order \in SUBSET Members(s.schema)
    BY DEF Listed
  <2> QED BY <2>1, <2>2
<1> DEFINE q == Append(s.schema, helper)
           numbered == Append(s.cells, cell(read))
           from == Bind(helper, numbered).from
           rows == s.rows \cup from
           more == mentioned \cup read
           step == Compiled({i}, s.schema, NoKinds, s.cells, rows)
<1>2. AddStep(step, read)
  BY <1>1 DEF Onto
<1>3. StepOk(s, mentioned) /\ mentioned \subseteq more /\ read \subseteq more
      /\ read \subseteq Members(s.schema)
  BY DEF CompilerInv
<1> HIDE DEF s, more
<1>4. ~Collides(helper, s.schema)
  BY <1>1, HelperIs
<1> HIDE DEF helper
<1>5. cell(read).name = helper /\ cell(read).from = Reading(read, s.cells)
  BY DEF Cell
<1> HIDE DEF cell
<1>6. from = Reading(read, s.cells)
  <2>1. Lined(q, numbered) /\ Len(s.cells) = Len(s.schema)
    BY <1>3, <1>5, LinedAppended DEF StepOk
  <2>2. Distinct(q)
    BY <1>3, <1>4, DistinctAppended DEF StepOk, Lined
  <2> DEFINE n == Len(s.schema) + 1
  <2>3. DOMAIN q = DOMAIN s.schema \cup {n} /\ q[n] = helper
    BY <1>3, AppendIs DEF StepOk, Lined
  <2>4. numbered[n] = cell(read)
    BY <1>3, <2>1, AppendIs DEF StepOk, Lined
  <2> HIDE DEF q, numbered, n
  <2>5. Bind(q[n], numbered) = numbered[n]
    BY <2>1, <2>2, <2>3, BindIs
  <2> QED BY <1>5, <2>3, <2>4, <2>5
<1> HIDE DEF from
<1>7. Ordered(rows, more)
  <2>1. Ordered(Reading(read, s.cells), more)
    BY <1>3, ReadingTold
  <2>2. Ordered(s.rows, more)
    BY <1>3, OrderedLater DEF StepOk
  <2> QED BY <1>6, <2>1, <2>2, OrderedBoth
<1> HIDE DEF rows
<1>8. DOMAIN NoKinds \subseteq Members(s.schema) /\ \A n : KindIn(NoKinds, n) = ""
  BY DEF NoKinds, KindIn
<1>9. \A j \in DOMAIN s.schema : CellOk(s.cells[j], NoKinds, more)
  <2> TAKE j \in DOMAIN s.schema
  <2>1. CellOk(s.cells[j], s.kinds, more)
    BY <1>3, CellOkLater DEF StepOk, Lined
  <2> QED BY <1>8, <2>1 DEF CellOk, Agree
<1>10. StepOk(step, more)
  BY <1>3, <1>7, <1>8, <1>9, StepOkBy DEF StepOk
<1> HIDE DEF step
<1> QED BY <1>2, <1>10, Added DEF more

-----------------------------------------------------------------------------
(* A join. *)
LEMMA ConcatIs ==
    ASSUME NEW s, IsList(s), NEW t, IsList(t)
    PROVE  IsList(s \o t) /\ Len(s \o t) = Len(s) + Len(t)
<1>1. PICK S : s \in Seq(S)
  BY DEF IsList
<1>2. PICK T : t \in Seq(T)
  BY DEF IsList
<1>3. s \in Seq(S \cup T) /\ t \in Seq(S \cup T)
  BY <1>1, <1>2
<1>4. s \o t \in Seq(S \cup T) /\ Len(s \o t) = Len(s) + Len(t)
  BY <1>3
<1> QED BY <1>4 DEF IsList

LEMMA ConcatAt ==
    ASSUME NEW s, IsList(s), NEW t, IsList(t)
    PROVE  /\ \A i \in DOMAIN s : (s \o t)[i] = s[i]
           /\ \A i \in DOMAIN t : (s \o t)[Len(s) + i] = t[i]
<1>1. PICK S : s \in Seq(S)
  BY DEF IsList
<1>2. PICK T : t \in Seq(T)
  BY DEF IsList
<1> DEFINE U == S \cup T
<1>3. s \in Seq(U) /\ t \in Seq(U)
  BY <1>1, <1>2
<1> HIDE DEF U
<1>4. \A i \in 1..(Len(s) + Len(t)) :
        (s \o t)[i] = IF i <= Len(s) THEN s[i] ELSE t[i - Len(s)]
  BY <1>3, ConcatProperties
<1>5. Len(s) \in Nat /\ DOMAIN s = 1..Len(s) /\ Len(t) \in Nat /\ DOMAIN t = 1..Len(t)
  BY <1>3
<1>6. \A i \in DOMAIN s : i \in 1..(Len(s) + Len(t)) /\ i <= Len(s)
  BY <1>5
<1>7. \A i \in DOMAIN t : Len(s) + i \in 1..(Len(s) + Len(t)) /\ ~(Len(s) + i <= Len(s))
                          /\ (Len(s) + i) - Len(s) = i
  BY <1>5
<1> QED BY <1>4, <1>6, <1>7

\* What is at a place of both lists.
LEMMA Sides ==
    ASSUME NEW s, IsList(s), NEW t, IsList(t), NEW i
    PROVE  i \in DOMAIN (s \o t) <=> i \in DOMAIN s \/ \E j \in DOMAIN t : i = Len(s) + j
<1>1. IsList(s \o t) /\ Len(s \o t) = Len(s) + Len(t)
  BY ConcatIs
<1>2. DOMAIN (s \o t) = 1..(Len(s) + Len(t))
  BY <1>1, ListIs
<1>3. Len(s) \in Nat /\ DOMAIN s = 1..Len(s) /\ Len(t) \in Nat /\ DOMAIN t = 1..Len(t)
  BY ListIs
<1>4. ASSUME i \in 1..(Len(s) + Len(t)), i \notin 1..Len(s)
      PROVE  i - Len(s) \in 1..Len(t) /\ i = Len(s) + (i - Len(s))
  BY <1>3, <1>4
<1>5. ASSUME NEW j \in 1..Len(t) PROVE Len(s) + j \in 1..(Len(s) + Len(t))
  BY <1>3
<1>6. i \in 1..Len(s) => i \in 1..(Len(s) + Len(t))
  BY <1>3
<1> QED BY <1>2, <1>3, <1>4, <1>5, <1>6

LEMMA JoinedList ==
    ASSUME NEW q, Distinct(q), IsList(q), NEW p, Distinct(p), IsList(p),
           \A c \in Members(p) : ~Collides(c, q)
    PROVE  Distinct(q \o p)
<1>1. \A i \in DOMAIN q : \A j \in DOMAIN p : Folded[q[i]] # Folded[p[j]]
  BY DEF Collides, Members
<1> DEFINE At(i) == \/ i \in DOMAIN q /\ (q \o p)[i] = q[i]
                    \/ \E j \in DOMAIN p : i = Len(q) + j /\ (q \o p)[i] = p[j]
<1>2. \A i \in DOMAIN (q \o p) : At(i)
  <2> TAKE i \in DOMAIN (q \o p)
  <2>1. /\ \A j \in DOMAIN q : (q \o p)[j] = q[j]
        /\ \A j \in DOMAIN p : (q \o p)[Len(q) + j] = p[j]
    BY ConcatAt
  <2>2. i \in DOMAIN q \/ \E j \in DOMAIN p : i = Len(q) + j
    BY Sides
  <2> QED BY <2>1, <2>2
<1> HIDE DEF At
<1> SUFFICES ASSUME NEW i \in DOMAIN (q \o p), NEW k \in DOMAIN (q \o p),
                    Folded[(q \o p)[i]] = Folded[(q \o p)[k]]
             PROVE  i = k
  BY DEF Distinct
<1>3. At(i) /\ At(k)
  BY <1>2
<1> QED BY <1>1, <1>3 DEF At, Distinct

LEMMA JoinedCells ==
    ASSUME NEW q, NEW c, Lined(q, c), NEW p, NEW d, Lined(p, d)
    PROVE  Lined(q \o p, c \o d) /\ Len(c) = Len(q)
<1>1. IsList(q) /\ IsList(c) /\ IsList(p) /\ IsList(d)
  BY DEF Lined
<1>2. Len(c) = Len(q) /\ Len(d) = Len(p)
  BY ListIs DEF Lined
<1>3. DOMAIN (c \o d) = DOMAIN (q \o p) /\ IsList(q \o p) /\ IsList(c \o d)
  BY <1>1, <1>2, ConcatIs, ListIs
<1>4. ASSUME NEW i \in DOMAIN (q \o p) PROVE (c \o d)[i].name = (q \o p)[i]
  <2>1. CASE i \in DOMAIN q
    <3>1. (c \o d)[i] = c[i] /\ (q \o p)[i] = q[i]
      BY <1>1, <2>1, ConcatAt DEF Lined
    <3> QED BY <2>1, <3>1 DEF Lined
  <2>2. ASSUME NEW j \in DOMAIN p, i = Len(q) + j PROVE (c \o d)[i].name = (q \o p)[i]
    <3>1. (c \o d)[i] = d[j] /\ (q \o p)[i] = p[j]
      BY <1>1, <1>2, <2>2, ConcatAt DEF Lined
    <3> QED BY <3>1 DEF Lined
  <2> QED BY <1>1, <2>1, <2>2, Sides
<1> QED BY <1>2, <1>3, <1>4 DEF Lined

LEMMA JoinKeeps ==
    ASSUME CompilerInv, NEW i \in DOMAIN steps, NEW j \in DOMAIN steps, Join(i, j)
    PROVE  CompilerInv'
<1> DEFINE left == steps[i]
           right == steps[j]
           keptOf(rkey) == Wanted(right.schema, Members(right.schema) \ {rkey})
<1>1. PICK lkey \in Members(left.schema), rkey \in Members(right.schema) :
        /\ ~\E c \in Members(keptOf(rkey)) : Collides(c, left.schema)
        /\ AddStep(Compiled({i, j}, left.schema \o keptOf(rkey), JoinedKinds(left, right, keptOf(rkey)),
                        [x \in DOMAIN left.schema |-> Bind(left.schema[x], left.cells)]
                        \o [x \in DOMAIN keptOf(rkey) |-> Bind(keptOf(rkey)[x], right.cells)],
                        left.rows \cup right.rows
                        \cup Reading({lkey}, left.cells) \cup Reading({rkey}, right.cells)),
                   {lkey, rkey})
  BY DEF Join
<1> DEFINE q == left.schema
           p == keptOf(rkey)
           c == Taken(q, left.cells)
           d == Taken(p, right.cells)
           k == JoinedKinds(left, right, p)
           rows == left.rows \cup right.rows
                   \cup Reading({lkey}, left.cells) \cup Reading({rkey}, right.cells)
           names == {lkey, rkey}
           more == mentioned \cup names
           step == Compiled({i, j}, q \o p, k, c \o d, rows)
<1>2. AddStep(step, names)
  BY <1>1 DEF Taken
<1>3. /\ StepOk(left, mentioned) /\ StepOk(right, mentioned) /\ mentioned \subseteq more
      /\ lkey \in more /\ rkey \in more
  BY DEF CompilerInv
<1>4. \A n \in Members(p) : ~Collides(n, q)
  BY <1>1
<1>5. IsList(p) /\ Members(p) \subseteq Members(right.schema) /\ Distinct(p)
  BY <1>3, WantedIs DEF StepOk, Lined
<1>6. lkey \in Members(left.schema) /\ rkey \in Members(right.schema)
  OBVIOUS
<1> HIDE DEF left, right, p, more, names
<1>7. IsList(q) /\ Distinct(q)
  BY <1>3 DEF StepOk, Lined
<1>8. Lined(q, c) /\ Lined(p, d)
  BY <1>3, <1>5, <1>7, TakenLined
<1>9. Lined(q \o p, c \o d) /\ Len(c) = Len(q)
  <2> HIDE DEF q, c, d
  <2> QED BY <1>8, JoinedCells
<1>10. Distinct(q \o p)
  <2> HIDE DEF q
  <2> QED BY <1>4, <1>5, <1>7, JoinedList
<1>11. \A n \in Members(p) : n \notin Members(q)
  BY <1>4 DEF Collides, Members
<1> DEFINE taken == KindsAmong(right.kinds, Members(p))
<1>12. k = With(left.kinds, taken)
  BY DEF JoinedKinds, KindsAmong
<1>13. DOMAIN taken \subseteq Members(p)
  BY DEF KindsAmong
<1>14. \A n : Remains(KindIn(taken, n), KindIn(right.kinds, n))
  BY KindsWithin DEF KindsAmong
<1> HIDE DEF taken, k
<1>15. DOMAIN k = DOMAIN left.kinds \cup DOMAIN taken
  BY <1>12, NamedWith
<1>16. DOMAIN left.kinds \subseteq Members(q)
  BY <1>3 DEF StepOk
<1> HIDE DEF q
<1>17. \A n \in Members(q) : Remains(KindIn(k, n), KindIn(left.kinds, n))
  <2> TAKE n \in Members(q)
  <2>1. n \notin DOMAIN taken
    BY <1>11, <1>13
  <2>2. KindIn(k, n) = KindIn(left.kinds, n)
    BY <1>12, <2>1, KindsWith
  <2> QED BY <2>2 DEF Remains
<1>18. \A n \in Members(p) : Remains(KindIn(k, n), KindIn(right.kinds, n))
  <2> TAKE n \in Members(p)
  <2>1. CASE n \in DOMAIN taken
    <3>1. KindIn(k, n) = KindIn(taken, n)
      BY <1>12, <2>1, KindsTaken
    <3> QED BY <1>14, <3>1
  <2>2. CASE n \notin DOMAIN taken
    <3>1. KindIn(k, n) = KindIn(left.kinds, n)
      BY <1>12, <2>2, KindsWith
    <3>2. n \notin DOMAIN left.kinds
      BY <1>11, <1>16
    <3> QED BY <3>1, <3>2 DEF KindIn, Remains
  <2> QED BY <2>1, <2>2
<1>19. \A x \in DOMAIN q : CellOk(c[x], k, more)
  <2>1. Members(q) \subseteq Members(left.schema)
    BY DEF q
  <2> QED BY <1>3, <1>17, <2>1, TakenAre
<1>20. \A x \in DOMAIN p : CellOk(d[x], k, more)
  BY <1>3, <1>5, <1>18, TakenAre
<1> HIDE DEF c, d
<1>21. ASSUME NEW x \in DOMAIN (q \o p) PROVE CellOk((c \o d)[x], k, more)
  <2>1. IsList(c) /\ IsList(d) /\ DOMAIN c = DOMAIN q /\ DOMAIN d = DOMAIN p
    BY <1>8 DEF Lined
  <2>2. /\ \A y \in DOMAIN c : (c \o d)[y] = c[y]
        /\ \A y \in DOMAIN d : (c \o d)[Len(c) + y] = d[y]
    BY <2>1, ConcatAt
  <2>3. x \in DOMAIN q \/ \E y \in DOMAIN p : x = Len(q) + y
    BY <1>5, <1>7, Sides
  <2> QED BY <1>9, <1>19, <1>20, <2>1, <2>2, <2>3
<1>22. DOMAIN k \subseteq Members(q \o p)
  <2>1. \A x \in DOMAIN q : x \in DOMAIN (q \o p) /\ (q \o p)[x] = q[x]
    BY <1>5, <1>7, ConcatAt, Sides
  <2>2. \A x \in DOMAIN p : Len(q) + x \in DOMAIN (q \o p) /\ (q \o p)[Len(q) + x] = p[x]
    BY <1>5, <1>7, ConcatAt, Sides
  <2>3. Members(q) \subseteq Members(q \o p)
    BY <2>1 DEF Members
  <2>4. Members(p) \subseteq Members(q \o p)
    BY <2>2 DEF Members
  <2> QED BY <1>13, <1>15, <1>16, <2>3, <2>4
<1>23. Ordered(rows, more)
  <2>1. Ordered(Reading({lkey}, left.cells), more)
    BY <1>3, <1>6, ReadingTold
  <2>2. Ordered(Reading({rkey}, right.cells), more)
    BY <1>3, <1>6, ReadingTold
  <2>3. Ordered(left.rows, more) /\ Ordered(right.rows, more)
    BY <1>3, OrderedLater DEF StepOk
  <2> QED BY <2>1, <2>2, <2>3, OrderedBoth
<1> HIDE DEF rows
<1>24. StepOk(step, more)
  BY <1>9, <1>10, <1>21, <1>22, <1>23, StepOkBy
<1> HIDE DEF step
<1> QED BY <1>2, <1>24, Added DEF more

-----------------------------------------------------------------------------
LEMMA CompilerStep == CompilerInv /\ [CompilerNext]_compilerVars => CompilerInv'
<1> SUFFICES ASSUME CompilerInv, [CompilerNext]_compilerVars PROVE CompilerInv'
  OBVIOUS
<1>1. CASE Source
  BY <1>1, SourceKeeps
<1>2. ASSUME NEW i \in DOMAIN steps, Filter(i) PROVE CompilerInv'
  BY <1>2, FilterKeeps
<1>3. ASSUME NEW i \in DOMAIN steps, Select(i) PROVE CompilerInv'
  BY <1>3, SelectKeeps
<1>4. ASSUME NEW i \in DOMAIN steps, Rename(i) PROVE CompilerInv'
  BY <1>4, RenameKeeps
<1>5. ASSUME NEW i \in DOMAIN steps, Derive(i) PROVE CompilerInv'
  BY <1>5, DeriveKeeps
<1>6. ASSUME NEW i \in DOMAIN steps, Cast(i) PROVE CompilerInv'
  BY <1>6, CastKeeps
<1>7. ASSUME NEW i \in DOMAIN steps, Aggregate(i) PROVE CompilerInv'
  BY <1>7, AggregateKeeps
<1>8. ASSUME NEW i \in DOMAIN steps, Dedupe(i) PROVE CompilerInv'
  BY <1>8, DedupeKeeps
<1>9. ASSUME NEW i \in DOMAIN steps, Sort(i) PROVE CompilerInv'
  BY <1>9, SortKeeps
<1>10. ASSUME NEW i \in DOMAIN steps, NEW j \in DOMAIN steps, Join(i, j) PROVE CompilerInv'
  BY <1>10, JoinKeeps
<1>11. CASE UNCHANGED compilerVars
  BY <1>11 DEF compilerVars, CompilerInv
<1> QED BY <1>1, <1>2, <1>3, <1>4, <1>5, <1>6, <1>7, <1>8, <1>9, <1>10, <1>11 DEF CompilerNext

LEMMA CompilerStart == CompilerInit => CompilerInv
<1>1. IsList(<<>>) /\ DOMAIN <<>> = {}
  <2>1. <<>> \in Seq({})
    OBVIOUS
  <2> QED BY <2>1 DEF IsList
<1> QED BY <1>1 DEF CompilerInit, CompilerInv

LEMMA CompilerKeepsInv == CompilerSpec => []CompilerInv
  BY CompilerStart, CompilerStep, PTL DEF CompilerSpec

LEMMA TerminalOk == CompilerInv /\ steps # <<>> => StepOk(Terminal, mentioned)
<1> SUFFICES ASSUME CompilerInv, steps # <<>> PROVE StepOk(Terminal, mentioned)
  OBVIOUS
<1>1. PICK S : steps \in Seq(S)
  BY DEF CompilerInv, IsList
<1>2. Len(steps) \in DOMAIN steps
  BY <1>1
<1> QED BY <1>2 DEF CompilerInv, Terminal

(* A flow that is published without mentioning a masked column, and without *)
(* showing one that is named like it, holds nothing that depends on the     *)
(* masked column: referenced_columns (flow_governance.py), over what the    *)
(* compiler makes of each step.                                             *)
THEOREM MaskedAlwaysOut == CompilerSpec => []MaskedStaysOut
<1>1. CompilerInv => MaskedStaysOut
  <2> SUFFICES ASSUME CompilerInv, steps # <<>>,
                      NEW d \in sourced, NEW c \in {x.name : x \in Members(Tables[d])}, ~Refused(c)
               PROVE  /\ <<d, c>> \notin Terminal.rows
                      /\ \A x \in Members(Terminal.cells) : <<d, c>> \notin x.from
    BY DEF MaskedStaysOut
  <2> DEFINE s == Terminal
  <2>1. StepOk(s, mentioned)
    BY TerminalOk
  <2>2. ~Told(c, mentioned) /\ \A n \in Members(s.schema) : Folded[n] # Folded[c]
    BY DEF Refused, Told
  <2> HIDE DEF s
  <2>3. <<d, c>> \notin s.rows
    BY <2>1, <2>2 DEF StepOk, Ordered
  <2>4. ASSUME NEW x \in Members(s.cells) PROVE <<d, c>> \notin x.from
    <3>1. PICK j \in DOMAIN s.cells : x = s.cells[j]
      BY DEF Members
    <3>2. Traced(x, mentioned) /\ x.name \in Members(s.schema)
      BY <2>1, <3>1 DEF StepOk, CellOk, Lined, Members
    <3> QED BY <2>2, <3>2 DEF Traced
  <2> QED BY <2>3, <2>4 DEF s
<1> QED BY <1>1, CompilerKeepsInv, PTL

(* The compiler's schema of a step is what the engine makes of it: the same *)
(* columns in the same order, each name one column, and the kinds it has an *)
(* opinion of are those of the values (compile_flow, flow_compile.py).      *)
THEOREM ResultAlwaysKnown == CompilerSpec => []ResultIsKnown
<1>1. CompilerInv => ResultIsKnown
  <2> SUFFICES ASSUME CompilerInv, steps # <<>>
               PROVE  /\ Terminal.schema = [j \in DOMAIN Terminal.cells |-> Terminal.cells[j].name]
                      /\ Distinct(Terminal.schema)
                      /\ \A c \in Members(Terminal.cells) :
                            KindIn(Terminal.kinds, c.name) \in {"", c.kind} \/ c.kind = "other"
    BY DEF ResultIsKnown
  <2> DEFINE s == Terminal
  <2>1. StepOk(s, mentioned)
    BY TerminalOk
  <2> HIDE DEF s
  <2>2. s.schema = [j \in DOMAIN s.cells |-> s.cells[j].name]
    <3>1. PICK S : s.schema \in Seq(S)
      BY <2>1 DEF StepOk, Lined, IsList
    <3>2. s.schema = [j \in DOMAIN s.schema |-> s.schema[j]]
      BY <3>1
    <3> QED BY <2>1, <3>2 DEF StepOk, Lined
  <2>3. ASSUME NEW c \in Members(s.cells)
        PROVE  KindIn(s.kinds, c.name) \in {"", c.kind} \/ c.kind = "other"
    BY <2>1 DEF Members, StepOk, CellOk, Agree
  <2> QED BY <2>1, <2>2, <2>3 DEF StepOk, s
<1> QED BY <1>1, CompilerKeepsInv, PTL

-----------------------------------------------------------------------------
(***************************************************************************)
(* Definitions in files (OntologyFiles).                                   *)
(***************************************************************************)
Definitions == [kind : Kinds, name : ApiNames]

\* What a file may hold: what a request writes, or an operator.
Contents == {NoSuchFile} \cup Handwritten \cup {{d} : d \in Definitions}

SaveFrames ==
    {NoSave} \cup [pc : {"replace", "verify"}, def : Definitions, previous : Contents]
             \cup [pc : {"unlink"}, def : Definitions]

OntologyTyped ==
    /\ files \in [Paths -> Contents]
    /\ byHand \in [Paths -> Contents]
    /\ save \in [Saves -> SaveFrames]
    /\ crossed \in {"alone", "api", "hand", "lost"}

\* In, Loads and OwnedElsewhere, of any files.
InOf(f, p) == IF f[p] = NoSuchFile THEN {} ELSE f[p]
LoadsAs(f) == \A p, q \in Paths : p # q => InOf(f, p) \cap InOf(f, q) = {}
OwnedIn(f, d) == \E p \in Paths \ {d.name} : d \in InOf(f, p)

Writing(s) == save[s].pc \in {"replace", "verify"}

\* What a request would write is never taken for an operator's.
HandsAreOther == \A d \in Definitions : byHand[d.name] # {d}

\* Without an edit by hand in between: what a request writes is defined
\* nowhere else, and under a name that is no operator's.
RequestsKeepOff ==
    crossed \in {"alone", "api"} =>
        /\ LoadsAs(files)
        /\ \A p \in Paths : byHand[p] # NoSuchFile => files[p] = byHand[p]
        /\ \A s \in Saves : save[s] # NoSave =>
              /\ byHand[save[s].def.name] = NoSuchFile
              /\ Writing(s) => ~OwnedIn(files, save[s].def)

\* Unless requests overlap there is one at a time.
OneRequest ==
    crossed \in {"alone", "hand"} =>
        \A s, t \in Saves : save[s] # NoSave /\ save[t] # NoSave => s = t

\* A request that nothing crosses finds the file as it left it.
FilesAwait ==
    crossed = "alone" =>
        /\ written \subseteq Defined
        /\ \A s \in Saves :
              /\ save[s].pc = "replace" =>
                    /\ files[save[s].def.name] = save[s].previous
                    /\ save[s].previous \in {NoSuchFile, {save[s].def}}
              /\ save[s].pc \in {"verify", "unlink"} =>
                    files[save[s].def.name] = {save[s].def}

\* After an edit by hand the request that it came in between finds its way back.
WayBack ==
    crossed = "hand" =>
        /\ AtRest => LoadsAs(files)
        /\ \A s \in Saves :
              LET name == save[s].def.name IN
              /\ save[s].pc \in {"replace", "unlink"} => LoadsAs(files)
              /\ save[s].pc = "replace" =>
                    files[name] = save[s].previous \/ ~OwnedIn(files, save[s].def)
              /\ save[s].pc = "verify" =>
                    LoadsAs(files) \/ LoadsAs([files EXCEPT ![name] = save[s].previous])

OntologyInv ==
    /\ OntologyTyped /\ HandsAreOther /\ RequestsKeepOff /\ OneRequest /\ FilesAwait /\ WayBack

LEMMA FramesApart ==
    ASSUME OntologyTyped, NEW s \in Saves
    PROVE  /\ save[s] = NoSave <=> save[s].pc = "idle"
           /\ save[s].pc \in {"idle", "replace", "verify", "unlink"}
           /\ Writing(s) => save[s] \in [pc : {"replace", "verify"}, def : Definitions, previous : Contents]
           /\ save[s].pc = "unlink" => save[s] \in [pc : {"unlink"}, def : Definitions]
           /\ save[s].pc # "idle" => save[s].def \in Definitions
  BY DEF OntologyTyped, SaveFrames, NoSave, Writing

LEMMA OneFileIsNotNone == \A d \in Definitions : {d} # NoSuchFile
<1> SUFFICES ASSUME NEW d \in Definitions PROVE d # Def("none", "none")
  BY DEF NoSuchFile
<1> QED BY DEF Definitions, Kinds, Def

LEMMA OfTheFiles ==
    /\ Loads <=> LoadsAs(files)
    /\ \A d : OwnedElsewhere(d) <=> OwnedIn(files, d)
    /\ \A p \in Paths : In(p) = InOf(files, p)
  BY DEF Loads, LoadsAs, OwnedElsewhere, OwnedIn, In, InOf

\* A definition that no other file has may be put in a file of its own.
LEMMA PutLoads ==
    ASSUME NEW f, DOMAIN f = Paths, NEW d \in Definitions, LoadsAs(f),
           ~OwnedIn(f, d)
    PROVE  LoadsAs([f EXCEPT ![d.name] = {d}])
<1> DEFINE g == [f EXCEPT ![d.name] = {d}]
<1>1. \A p \in Paths : InOf(g, p) = IF p = d.name THEN {d} ELSE InOf(f, p)
  BY OneFileIsNotNone DEF InOf
<1> HIDE DEF g
<1>2. LoadsAs(g)
  BY <1>1 DEF LoadsAs, OwnedIn
<1> QED BY <1>2 DEF g

LEMMA RemoveLoads ==
    ASSUME NEW f, DOMAIN f = Paths, NEW n, LoadsAs(f)
    PROVE  LoadsAs([f EXCEPT ![n] = NoSuchFile])
<1> DEFINE g == [f EXCEPT ![n] = NoSuchFile]
<1>1. \A p \in Paths : InOf(g, p) \subseteq InOf(f, p)
  BY DEF InOf
<1> HIDE DEF g
<1>2. LoadsAs(g)
  BY <1>1 DEF LoadsAs
<1> QED BY <1>2 DEF g

LEMMA OntologyStarts == OntologyInit => OntologyInv
<1> SUFFICES ASSUME OntologyInit PROVE OntologyInv
  OBVIOUS
<1>1. \A s \in Saves : save[s] = NoSave /\ save[s].pc = "idle"
  BY DEF OntologyInit, NoSave
<1>2. OntologyTyped
  BY DEF OntologyInit, OntologyTyped, Contents, SaveFrames
<1>3. HandsAreOther
  BY OneFileIsNotNone DEF OntologyInit, HandsAreOther, Definitions, Paths
<1>4. LoadsAs(files)
  BY DEF OntologyInit, LoadsAs, InOf
<1> QED BY <1>1, <1>2, <1>3, <1>4
        DEF OntologyInit, OntologyInv, RequestsKeepOff, OneRequest, FilesAwait, WayBack

\* A request enters with a frame that fits the files it found.
LEMMA BeginKeeps ==
    ASSUME OntologyInv, NEW s \in Saves, NEW frame \in SaveFrames, frame # NoSave, Begin(s, frame),
           crossed \in {"alone", "api"} => byHand[frame.def.name] = NoSuchFile,
           frame.pc \in {"replace", "unlink"},
           frame.pc = "replace" =>
                /\ ~OwnedIn(files, frame.def) /\ files[frame.def.name] = frame.previous
                /\ frame.previous \in {NoSuchFile, {frame.def}},
           frame.pc = "unlink" => files[frame.def.name] = {frame.def}
    PROVE  OntologyInv'
<1> USE DEF OntologyInv
<1>1. /\ UNCHANGED <<files, byHand, written>> /\ save[s] = NoSave
      /\ save' \in [Saves -> SaveFrames] /\ save'[s] = frame
      /\ \A t \in Saves : t # s => save'[t] = save[t]
      /\ crossed' = IF AtRest THEN crossed ELSE Worse("api")
  BY DEF Begin, OntologyTyped
<1>2. /\ crossed' \in {"alone", "api"} => crossed \in {"alone", "api"}
      /\ crossed' \in {"alone", "hand"} => crossed' = crossed /\ AtRest
      /\ crossed' \in {"alone", "api", "hand", "lost"}
  BY <1>1 DEF Worse, OntologyTyped
<1>5. OntologyTyped' /\ HandsAreOther'
  BY <1>1, <1>2 DEF OntologyTyped, HandsAreOther
<1>6. RequestsKeepOff'
  <2> SUFFICES ASSUME crossed' \in {"alone", "api"} PROVE RequestsKeepOff'
    BY DEF RequestsKeepOff
  <2>1. \A t \in Saves : save'[t] # NoSave =>
              /\ byHand'[save'[t].def.name] = NoSuchFile
              /\ Writing(t)' => ~OwnedIn(files', save'[t].def)
    <3> SUFFICES ASSUME NEW t \in Saves, save'[t] # NoSave
                 PROVE  /\ byHand'[save'[t].def.name] = NoSuchFile
                        /\ Writing(t)' => ~OwnedIn(files', save'[t].def)
      OBVIOUS
    <3>1. CASE t = s
      BY <3>1, <1>1, <1>2 DEF Writing
    <3>2. CASE t # s
      BY <3>2, <1>1, <1>2 DEF Writing, RequestsKeepOff
    <3> QED BY <3>1, <3>2
  <2> QED BY <2>1, <1>1, <1>2 DEF RequestsKeepOff
<1>7. OneRequest'
  BY <1>1, <1>2 DEF OneRequest, AtRest
<1>8. FilesAwait'
  <2> SUFFICES ASSUME crossed' = "alone" PROVE FilesAwait'
    BY DEF FilesAwait
  <2>1. \A t \in Saves : t # s => save'[t].pc = "idle"
    BY <1>1, <1>2 DEF AtRest, NoSave
  <2>2. Defined' = Defined
    BY <1>1 DEF Defined, In
  <2> QED BY <2>1, <2>2, <1>1, <1>2 DEF FilesAwait
<1>9. WayBack'
  <2> SUFFICES ASSUME crossed' = "hand" PROVE WayBack'
    BY DEF WayBack
  <2>1. \A t \in Saves : t # s => save'[t].pc = "idle"
    BY <1>1, <1>2 DEF AtRest, NoSave
  <2>2. LoadsAs(files)
    BY <1>2 DEF WayBack
  <2> QED BY <2>1, <2>2, <1>1, <1>2 DEF WayBack
<1> QED BY <1>5, <1>6, <1>7, <1>8, <1>9

LEMMA CheckUpsertKeeps ==
    ASSUME OntologyInv, NEW s \in Saves, CheckUpsert(s)
    PROVE  OntologyInv'
<1>1. PICK k \in Kinds, name \in ApiNames :
        /\ ~OwnedIn(files, Def(k, name))
        /\ files[name] = NoSuchFile \/ files[name] = {Def(k, name)}
        /\ Begin(s, [pc |-> "replace", def |-> Def(k, name), previous |-> files[name]])
  BY OfTheFiles DEF CheckUpsert, IsManaged
<1> DEFINE d == Def(k, name)
           frame == [pc |-> "replace", def |-> d, previous |-> files[name]]
<1>2. d \in Definitions /\ d.name = name /\ name \in Paths
  BY DEF Definitions, Def, Paths
<1>3. crossed \in {"alone", "api"} => byHand[name] = NoSuchFile
  BY <1>1, <1>2 DEF OntologyInv, RequestsKeepOff, HandsAreOther
<1>4. frame \in SaveFrames /\ frame # NoSave
  BY <1>2 DEF SaveFrames, OntologyInv, OntologyTyped, NoSave
<1> QED BY <1>1, <1>2, <1>3, <1>4, BeginKeeps DEF Def

LEMMA CheckDeleteKeeps ==
    ASSUME OntologyInv, NEW s \in Saves, CheckDelete(s)
    PROVE  OntologyInv'
<1>1. PICK k \in Kinds, name \in ApiNames :
        /\ files[name] = {Def(k, name)}
        /\ Begin(s, [pc |-> "unlink", def |-> Def(k, name)])
  BY DEF CheckDelete, IsManaged
<1> DEFINE d == Def(k, name)
           frame == [pc |-> "unlink", def |-> d]
<1>2. d \in Definitions /\ d.name = name /\ name \in Paths
  BY DEF Definitions, Def, Paths
<1>3. crossed \in {"alone", "api"} => byHand[name] = NoSuchFile
  BY <1>1, <1>2 DEF OntologyInv, RequestsKeepOff, HandsAreOther
<1>4. frame \in SaveFrames /\ frame # NoSave
  BY <1>2 DEF SaveFrames, NoSave
<1> QED BY <1>1, <1>2, <1>3, <1>4, BeginKeeps DEF Def

LEMMA ReplaceKeeps ==
    ASSUME OntologyInv, NEW s \in Saves, Replace(s)
    PROVE  OntologyInv'
<1> USE DEF OntologyInv
<1> DEFINE d == save[s].def
           name == d.name
<1>1. /\ save[s].pc = "replace" /\ save[s] # NoSave /\ Writing(s)
      /\ d \in Definitions /\ name \in Paths /\ save[s].previous \in Contents
      /\ save[s] \in [pc : {"replace", "verify"}, def : Definitions, previous : Contents]
  BY FramesApart DEF Replace, Writing, Definitions, Paths
<1>2. /\ files' = [files EXCEPT ![name] = {d}] /\ DOMAIN files = Paths
      /\ UNCHANGED <<byHand, written, crossed>>
      /\ save'[s] = [save[s] EXCEPT !.pc = "verify"]
      /\ save'[s].def = d /\ save'[s].previous = save[s].previous /\ save'[s].pc = "verify"
      /\ \A t \in Saves : t # s => save'[t] = save[t]
  BY <1>1 DEF Replace, OntologyTyped
<1>3. save'[s] # NoSave
  BY <1>2 DEF NoSave
<1>4. OntologyTyped' /\ HandsAreOther'
  <2>1. {d} \in Contents
    BY <1>1 DEF Contents
  <2>2. save'[s] \in SaveFrames
    BY <1>1, <1>2 DEF SaveFrames
  <2> QED BY <2>1, <2>2, <1>1, <1>2 DEF OntologyTyped, HandsAreOther, Replace
<1>5. \A p \in Paths : InOf(files', p) = IF p = name THEN {d} ELSE InOf(files, p)
  BY <1>1, <1>2, OneFileIsNotNone DEF InOf
<1>6. LoadsAs(files) /\ ~OwnedIn(files, d) => LoadsAs(files')
  BY <1>1, <1>2, PutLoads
<1>7. \A e : OwnedIn(files', e) => OwnedIn(files, e)
  BY <1>5 DEF OwnedIn
<1>10. RequestsKeepOff'
  <2> SUFFICES ASSUME crossed \in {"alone", "api"} PROVE RequestsKeepOff'
    BY <1>2 DEF RequestsKeepOff
  <2>1. byHand[name] = NoSuchFile /\ ~OwnedIn(files, d) /\ LoadsAs(files)
    BY <1>1 DEF RequestsKeepOff
  <2>2. \A p \in Paths : byHand'[p] # NoSuchFile => files'[p] = byHand'[p]
    BY <2>1, <1>2 DEF RequestsKeepOff
  <2>3. \A t \in Saves : save'[t] # NoSave =>
              /\ byHand'[save'[t].def.name] = NoSuchFile
              /\ Writing(t)' => ~OwnedIn(files', save'[t].def)
    <3> SUFFICES ASSUME NEW t \in Saves, save'[t] # NoSave
                 PROVE  /\ byHand'[save'[t].def.name] = NoSuchFile
                        /\ Writing(t)' => ~OwnedIn(files', save'[t].def)
      OBVIOUS
    <3>1. CASE t = s
      BY <3>1, <2>1, <1>2, <1>7
    <3>2. CASE t # s
      BY <3>2, <1>2, <1>7 DEF RequestsKeepOff, Writing
    <3> QED BY <3>1, <3>2
  <2> QED BY <2>1, <2>2, <2>3, <1>6 DEF RequestsKeepOff
<1>11. OneRequest'
  BY <1>1, <1>2 DEF OneRequest
<1>12. crossed \in {"alone", "hand"} => \A t \in Saves : t # s => save'[t].pc = "idle"
  BY <1>1, <1>2 DEF OneRequest, NoSave
<1>13. FilesAwait'
  <2> SUFFICES ASSUME crossed = "alone" PROVE FilesAwait'
    BY <1>2 DEF FilesAwait
  <2>1. InOf(files, name) \subseteq {d}
    BY <1>1 DEF FilesAwait, InOf
  <2>2. Defined \subseteq Defined'
    BY <2>1, <1>1, <1>5 DEF Defined, In, InOf
  <2> QED BY <2>2, <1>1, <1>2, <1>12 DEF FilesAwait
<1>14. WayBack'
  <2> SUFFICES ASSUME crossed = "hand" PROVE WayBack'
    BY <1>2 DEF WayBack
  <2>1. LoadsAs(files) /\ (files[name] = save[s].previous \/ ~OwnedIn(files, d))
    BY <1>1 DEF WayBack
  <2>2. LoadsAs(files') \/ LoadsAs([files' EXCEPT ![name] = save'[s].previous])
    <3>1. CASE files[name] = save[s].previous
      <4>1. [files' EXCEPT ![name] = save'[s].previous] = files
        BY <3>1, <1>1, <1>2 DEF OntologyTyped
      <4> QED BY <4>1, <2>1
    <3>2. CASE ~OwnedIn(files, d)
      BY <3>2, <2>1, <1>6
    <3> QED BY <2>1, <3>1, <3>2
  <2>3. ~AtRest'
    BY <1>3 DEF AtRest
  <2> QED BY <2>2, <2>3, <1>2, <1>12 DEF WayBack
<1> QED BY <1>4, <1>10, <1>11, <1>13, <1>14

\* A request that ends leaves the others as they were.
LEMMA EndFacts ==
    ASSUME OntologyInv, NEW s \in Saves, save[s] # NoSave, End(s)
    PROVE  /\ save' \in [Saves -> SaveFrames] /\ save'[s] = NoSave /\ save'[s].pc = "idle"
           /\ \A t \in Saves : t # s => save'[t] = save[t]
           /\ \A t \in Saves : Writing(t)' => t # s /\ Writing(t)
           /\ crossed \in {"alone", "hand"} =>
                AtRest' /\ \A t \in Saves : save'[t] = NoSave /\ save'[t].pc = "idle"
<1>1. /\ save' \in [Saves -> SaveFrames] /\ save'[s] = NoSave /\ save'[s].pc = "idle"
      /\ \A t \in Saves : t # s => save'[t] = save[t]
  BY DEF End, OntologyInv, OntologyTyped, SaveFrames, NoSave
<1>2. crossed \in {"alone", "hand"} => \A t \in Saves : save'[t] = NoSave
  BY <1>1 DEF OntologyInv, OneRequest
<1> QED BY <1>1, <1>2 DEF AtRest, Writing, NoSave

LEMMA VerifyKeeps ==
    ASSUME OntologyInv, NEW s \in Saves, Verify(s)
    PROVE  OntologyInv'
<1> USE DEF OntologyInv
<1> DEFINE d == save[s].def
           back == [files EXCEPT ![d.name] = save[s].previous]
<1>1. /\ save[s].pc = "verify" /\ save[s] # NoSave /\ Writing(s) /\ End(s)
      /\ d \in Definitions /\ d.name \in Paths /\ save[s].previous \in Contents
      /\ UNCHANGED <<byHand, crossed>>
  BY FramesApart DEF Verify, Writing, Definitions, Paths
<1>2. /\ LoadsAs(files) => files' = files /\ written' = written \cup {d}
      /\ ~LoadsAs(files) => files' = back
  BY OfTheFiles DEF Verify
<1> HIDE DEF back
<1>3. crossed \in {"alone", "api"} => files' = files /\ LoadsAs(files)
  BY <1>2 DEF RequestsKeepOff
<1>4. crossed = "hand" => LoadsAs(files')
  BY <1>1, <1>2 DEF WayBack, back
<1>5. OntologyTyped' /\ HandsAreOther'
  <2>1. files' \in [Paths -> Contents]
    BY <1>1, <1>2 DEF OntologyTyped, back
  <2> QED BY <2>1, <1>1, EndFacts DEF OntologyTyped, HandsAreOther
<1>6. RequestsKeepOff'
  BY <1>1, <1>3, EndFacts DEF RequestsKeepOff
<1>7. OneRequest'
  BY <1>1, EndFacts DEF OneRequest
<1>8. FilesAwait'
  <2> SUFFICES ASSUME crossed = "alone" PROVE FilesAwait'
    BY <1>1 DEF FilesAwait
  <2>1. files[d.name] = {d}
    BY <1>1 DEF FilesAwait
  <2>2. d \in Defined /\ Defined' = Defined
    BY <2>1, <1>1, <1>3, OneFileIsNotNone DEF Defined, In
  <2>3. written \subseteq Defined /\ written' = written \cup {d}
    BY <1>2, <1>3 DEF FilesAwait
  <2> QED BY <2>2, <2>3, <1>1, EndFacts DEF FilesAwait
<1>9. WayBack'
  BY <1>1, <1>4, EndFacts DEF WayBack
<1> QED BY <1>5, <1>6, <1>7, <1>8, <1>9

LEMMA UnlinkKeeps ==
    ASSUME OntologyInv, NEW s \in Saves, Unlink(s)
    PROVE  OntologyInv'
<1> USE DEF OntologyInv
<1> DEFINE d == save[s].def
<1>1. /\ save[s].pc = "unlink" /\ save[s] # NoSave /\ End(s)
      /\ d \in Definitions /\ d.name \in Paths
      /\ files' = [files EXCEPT ![d.name] = NoSuchFile] /\ written' = written \ {d}
      /\ UNCHANGED <<byHand, crossed>>
  BY FramesApart DEF Unlink, Definitions, Paths
<1>2. /\ DOMAIN files = Paths /\ files' \in [Paths -> Contents]
      /\ LoadsAs(files) => LoadsAs(files')
      /\ \A p \in Paths : p # d.name => files'[p] = files[p]
  BY <1>1, RemoveLoads DEF OntologyTyped, Contents
<1>3. \A e : OwnedIn(files', e) => OwnedIn(files, e)
  BY <1>1, <1>2 DEF OwnedIn, InOf
<1>4. OntologyTyped' /\ HandsAreOther'
  BY <1>1, <1>2, EndFacts DEF OntologyTyped, HandsAreOther
<1>5. RequestsKeepOff'
  <2> SUFFICES ASSUME crossed \in {"alone", "api"} PROVE RequestsKeepOff'
    BY <1>1 DEF RequestsKeepOff
  <2>1. \A p \in Paths : byHand[p] # NoSuchFile => p # d.name
    BY <1>1 DEF RequestsKeepOff
  <2>2. \A t \in Saves : save'[t] # NoSave => save'[t] = save[t] /\ (Writing(t)' => Writing(t))
    BY <1>1, EndFacts
  <2>3. \A t \in Saves : save'[t] # NoSave =>
              /\ byHand'[save'[t].def.name] = NoSuchFile
              /\ Writing(t)' => ~OwnedIn(files', save'[t].def)
    BY <2>2, <1>1, <1>3 DEF RequestsKeepOff
  <2> QED BY <2>1, <2>3, <1>1, <1>2 DEF RequestsKeepOff
<1>6. OneRequest'
  BY <1>1, EndFacts DEF OneRequest
<1>7. FilesAwait'
  <2> SUFFICES ASSUME crossed = "alone" PROVE FilesAwait'
    BY <1>1 DEF FilesAwait
  <2>1. files[d.name] = {d} /\ written \subseteq Defined
    BY <1>1 DEF FilesAwait
  <2>2. Defined \ {d} \subseteq Defined'
    BY <2>1, <1>2 DEF Defined, In
  <2> QED BY <2>1, <2>2, <1>1, EndFacts DEF FilesAwait
<1>8. WayBack'
  BY <1>1, <1>2, EndFacts DEF WayBack
<1> QED BY <1>4, <1>5, <1>6, <1>7, <1>8

LEMMA DieSavingKeeps ==
    ASSUME OntologyInv, NEW s \in Saves, DieSaving(s)
    PROVE  OntologyInv'
<1> USE DEF OntologyInv
<1>1. /\ save[s] # NoSave /\ End(s) /\ UNCHANGED <<files, byHand, written>>
      /\ crossed' = IF crossed = "hand" THEN "lost" ELSE crossed
  BY DEF DieSaving
<1>2. OntologyTyped' /\ HandsAreOther'
  BY <1>1, EndFacts DEF OntologyTyped, HandsAreOther
<1>3. RequestsKeepOff'
  BY <1>1, EndFacts DEF RequestsKeepOff
<1>4. OneRequest'
  BY <1>1, EndFacts DEF OneRequest
<1>5. Defined' = Defined
  BY <1>1 DEF Defined, In
<1>6. FilesAwait'
  BY <1>1, <1>5, EndFacts DEF FilesAwait
<1>7. WayBack'
  BY <1>1 DEF WayBack
<1> QED BY <1>2, <1>3, <1>4, <1>6, <1>7

LEMMA EditByHandKeeps ==
    ASSUME OntologyInv, EditByHand
    PROVE  OntologyInv'
<1> USE DEF OntologyInv
<1>1. PICK p \in Paths, defs \in Handwritten \cup {NoSuchFile} :
        /\ files' = [files EXCEPT ![p] = defs] /\ Loads'
        /\ byHand' = [byHand EXCEPT ![p] =
                IF \E d \in defs : d.name = p /\ defs = {d} THEN NoSuchFile ELSE defs]
        /\ written' = written \ In(p)
        /\ crossed' = IF AtRest THEN crossed ELSE Worse("hand")
        /\ UNCHANGED save
  BY DEF EditByHand
<1>2. /\ defs \in Contents /\ NoSuchFile \in Contents /\ DOMAIN files = Paths /\ DOMAIN byHand = Paths
      /\ files' \in [Paths -> Contents] /\ byHand' \in [Paths -> Contents]
      /\ files'[p] = defs /\ \A q \in Paths : q # p => files'[q] = files[q] /\ byHand'[q] = byHand[q]
      /\ byHand'[p] # NoSuchFile => byHand'[p] = defs /\ ~\E d \in defs : d.name = p /\ defs = {d}
  BY <1>1 DEF OntologyTyped, Contents
<1>3. LoadsAs(files')
  BY <1>1 DEF Loads, LoadsAs, In, InOf
<1>4. /\ crossed' \in {"alone", "api", "hand", "lost"}
      /\ crossed' \in {"alone", "api"} => crossed' = crossed /\ AtRest
      /\ crossed' = "hand" => (crossed = "hand" /\ AtRest) \/ (crossed = "alone" /\ ~AtRest)
  BY <1>1 DEF Worse, OntologyTyped
<1>5. OntologyTyped'
  BY <1>1, <1>2, <1>4 DEF OntologyTyped
<1>6. HandsAreOther'
  <2> SUFFICES ASSUME NEW d \in Definitions PROVE byHand'[d.name] # {d}
    BY DEF HandsAreOther
  <2>1. d.name \in Paths
    BY DEF Definitions, Paths
  <2> QED BY <2>1, <1>2, OneFileIsNotNone DEF HandsAreOther
<1>7. RequestsKeepOff'
  <2> SUFFICES ASSUME crossed' \in {"alone", "api"} PROVE RequestsKeepOff'
    BY DEF RequestsKeepOff
  <2>1. \A s \in Saves : save'[s] = NoSave
    BY <1>1, <1>4 DEF AtRest
  <2> QED BY <2>1, <1>2, <1>3, <1>4 DEF RequestsKeepOff
<1>8. OneRequest'
  BY <1>1, <1>4 DEF OneRequest, AtRest
<1>9. FilesAwait'
  <2> SUFFICES ASSUME crossed' = "alone" PROVE FilesAwait'
    BY DEF FilesAwait
  <2>1. crossed = "alone" /\ \A s \in Saves : save'[s].pc = "idle"
    BY <1>1, <1>4 DEF AtRest, NoSave
  <2>2. Defined \ In(p) \subseteq Defined'
    BY <1>2 DEF Defined, In
  <2> QED BY <2>1, <2>2, <1>1 DEF FilesAwait
<1>10. WayBack'
  <2> SUFFICES ASSUME crossed' = "hand", NEW s \in Saves
               PROVE  /\ save[s].pc = "replace" =>
                            files'[save[s].def.name] = save[s].previous \/ ~OwnedIn(files', save[s].def)
    BY <1>1, <1>3 DEF WayBack
  <2> SUFFICES ASSUME save[s].pc = "replace"
               PROVE  files'[save[s].def.name] = save[s].previous \/ ~OwnedIn(files', save[s].def)
    OBVIOUS
  <2>1. /\ crossed = "alone" /\ save[s] # NoSave /\ Writing(s)
        /\ save[s].def \in Definitions /\ save[s].def.name \in Paths
    BY <1>4, FramesApart DEF AtRest, NoSave, Writing, Definitions, Paths
  <2>2. files[save[s].def.name] = save[s].previous /\ ~OwnedIn(files, save[s].def)
    BY <2>1 DEF FilesAwait, RequestsKeepOff
  <2> QED BY <2>1, <2>2, <1>2 DEF OwnedIn, InOf
<1> QED BY <1>5, <1>6, <1>7, <1>8, <1>9, <1>10

LEMMA OntologyKeeps == OntologyInv /\ [OntologyNext]_ontologyVars => OntologyInv'
<1> SUFFICES ASSUME OntologyInv, [OntologyNext]_ontologyVars PROVE OntologyInv'
  OBVIOUS
<1>1. CASE EditByHand
  BY <1>1, EditByHandKeeps
<1>2. ASSUME NEW s \in Saves,
             CheckUpsert(s) \/ Replace(s) \/ Verify(s) \/ CheckDelete(s) \/ Unlink(s) \/ DieSaving(s)
      PROVE  OntologyInv'
  BY <1>2, CheckUpsertKeeps, ReplaceKeeps, VerifyKeeps, CheckDeleteKeeps, UnlinkKeeps, DieSavingKeeps
<1>3. CASE UNCHANGED ontologyVars
  BY <1>3 DEF ontologyVars, OntologyInv, OntologyTyped, HandsAreOther, RequestsKeepOff, OneRequest,
              FilesAwait, WayBack, LoadsAs, InOf, OwnedIn, Writing, AtRest, Defined, In
<1> QED BY <1>1, <1>2, <1>3 DEF OntologyNext

THEOREM OntologyAlwaysStands == OntologySpec => []OntologyStands
<1>1. OntologyInv => OntologyStands
  BY OfTheFiles DEF OntologyInv, OntologyStands, RequestsKeepOff, FilesAwait, WayBack
<1> QED BY <1>1, OntologyStarts, OntologyKeeps, PTL DEF OntologySpec

(***************************************************************************)
(* The remote store of objects.                                            *)
(***************************************************************************)
Cells == [Fields -> Nat] \cup {Gone}
ObjectMaps == [ObjectKeys -> Cells]
LoggedEdits == [key : ObjectKeys, col : Fields \cup {Deletion}]
RemoteTables == [rows : ObjectMaps, mark : Nat]

\* What edit n does to the objects, where there is one.
Applies(log) ==
    [n \in Nat |-> [o \in ObjectMaps |->
        IF n \in 1..Len(log) THEN [o EXCEPT ![log[n].key] = Assigned(o[log[n].key], log[n], n)]
        ELSE o]]

\* The edits after i, up to j, applied to rows; and all up to n to nothing.
Applied(log, i, j, rows) == Stretch(ObjectMaps, Applies(log), i, j, rows)
Made(log, n) == Applied(log, 0, n, Empty.rows)

LEMMA CellsAreNotGone == ASSUME NEW c \in Fields PROVE Gone \notin [Fields -> Nat]
<1>1. DOMAIN Gone = {}
  BY DEF Gone
<1> QED BY <1>1

LEMMA AssignedTyped ==
    ASSUME NEW e \in LoggedEdits, NEW n \in Nat, NEW o \in Cells PROVE Assigned(o, e, n) \in Cells
<1>1. CASE e.col = Deletion
  BY <1>1 DEF Assigned, Cells
<1>2. CASE e.col # Deletion /\ o = Gone
  <2>1. [c \in Fields |-> IF c = e.col THEN n ELSE 0] \in [Fields -> Nat]
    OBVIOUS
  <2> QED BY <1>2, <2>1 DEF Assigned, Cells
<1>3. CASE e.col # Deletion /\ o # Gone
  <2>1. o \in [Fields -> Nat]
    BY <1>3 DEF Cells
  <2>2. [o EXCEPT ![e.col] = n] \in [Fields -> Nat]
    BY <2>1
  <2> QED BY <1>3, <2>2 DEF Assigned, Cells
<1> QED BY <1>1, <1>2, <1>3

LEMMA AppliesTyped ==
    ASSUME NEW log \in Seq(LoggedEdits)
    PROVE  /\ Applies(log) \in [Nat -> [ObjectMaps -> ObjectMaps]]
           /\ Empty.rows \in ObjectMaps
<1>1. ASSUME NEW n \in 1..Len(log), NEW o \in ObjectMaps
      PROVE  [o EXCEPT ![log[n].key] = Assigned(o[log[n].key], log[n], n)] \in ObjectMaps
  <2>1. log[n] \in LoggedEdits /\ n \in Nat
    OBVIOUS
  <2>2. log[n].key \in ObjectKeys
    BY <2>1 DEF LoggedEdits
  <2>3. Assigned(o[log[n].key], log[n], n) \in Cells
    BY <2>1, <2>2, AssignedTyped DEF ObjectMaps
  <2> QED BY <2>2, <2>3 DEF ObjectMaps
<1>2. Empty.rows \in ObjectMaps
  BY DEF Empty, ObjectMaps, Cells
<1> QED BY <1>1, <1>2 DEF Applies

\* The cells of an object, where one that is gone has what a new one would.
CellOf(o, c) == IF o = Gone THEN 0 ELSE o[c]

\* Two objects that an edit makes the same.
MadeSame(e, o, p) == e.col # Deletion => \A c \in Fields \ {e.col} : CellOf(o, c) = CellOf(p, c)

\* What an edit that sets column c to m makes of an object.
AssignedSo(o, c, m, new) ==
    /\ new \in [Fields -> Nat] /\ new # Gone
    /\ \A d \in Fields : new[d] = IF d = c THEN m ELSE CellOf(o, d)

LEMMA AssignedCells ==
    ASSUME NEW e \in LoggedEdits, e.col # Deletion, NEW n \in Nat, NEW o \in Cells
    PROVE  AssignedSo(o, e.col, n, Assigned(o, e, n))
<1>1. e.col \in Fields
  BY DEF LoggedEdits
<1>2. CASE o = Gone
  <2> DEFINE new == [c \in Fields |-> IF c = e.col THEN n ELSE 0]
  <2>1. new \in [Fields -> Nat] /\ Assigned(o, e, n) = new
    BY <1>2 DEF Assigned
  <2>2. new # Gone
    BY <1>1, <2>1, CellsAreNotGone
  <2> QED BY <1>2, <2>1, <2>2 DEF CellOf, AssignedSo
<1>3. CASE o # Gone
  <2>1. o \in [Fields -> Nat] /\ Assigned(o, e, n) = [o EXCEPT ![e.col] = n]
    BY <1>3 DEF Cells, Assigned
  <2>2. [o EXCEPT ![e.col] = n] \in [Fields -> Nat]
    BY <2>1
  <2>3. [o EXCEPT ![e.col] = n] # Gone
    BY <1>1, <2>2, CellsAreNotGone
  <2>4. \A c \in Fields : [o EXCEPT ![e.col] = n][c] = IF c = e.col THEN n ELSE o[c]
    BY <1>1, <2>1
  <2> QED BY <1>3, <2>1, <2>2, <2>3, <2>4 DEF CellOf, AssignedSo
<1> QED BY <1>2, <1>3

\* So they stay under other edits, and so does an edit leave an object.
LEMMA MadeSameStays ==
    ASSUME NEW e \in LoggedEdits, NEW g \in LoggedEdits, NEW m \in Nat, NEW n \in Nat,
           NEW o \in Cells, NEW p \in Cells
    PROVE  /\ MadeSame(e, o, Assigned(o, e, n))
           /\ MadeSame(e, o, p) => /\ MadeSame(e, Assigned(o, g, m), Assigned(p, g, m))
                                   /\ Assigned(o, e, n) = Assigned(p, e, n)
<1>1. MadeSame(e, o, Assigned(o, e, n))
  BY AssignedCells DEF AssignedSo, MadeSame, CellOf
<1>2. ASSUME MadeSame(e, o, p) PROVE MadeSame(e, Assigned(o, g, m), Assigned(p, g, m))
  <2>1. CASE g.col = Deletion
    BY <2>1 DEF MadeSame, Assigned
  <2>2. CASE g.col # Deletion
    <3>1. AssignedSo(o, g.col, m, Assigned(o, g, m)) /\ AssignedSo(p, g.col, m, Assigned(p, g, m))
      BY <2>2, AssignedCells
    <3> QED BY <1>2, <3>1 DEF AssignedSo, MadeSame, CellOf
  <2> QED BY <2>1, <2>2
<1>3. ASSUME MadeSame(e, o, p) PROVE Assigned(o, e, n) = Assigned(p, e, n)
  <2>1. CASE e.col = Deletion
    BY <2>1 DEF Assigned
  <2>2. CASE e.col # Deletion
    <3>1. /\ Assigned(o, e, n) \in [Fields -> Nat] /\ Assigned(p, e, n) \in [Fields -> Nat]
          /\ \A c \in Fields : /\ Assigned(o, e, n)[c] = IF c = e.col THEN n ELSE CellOf(o, c)
                               /\ Assigned(p, e, n)[c] = IF c = e.col THEN n ELSE CellOf(p, c)
      BY <2>2, AssignedCells DEF AssignedSo
    <3>2. \A c \in Fields : Assigned(o, e, n)[c] = Assigned(p, e, n)[c]
      BY <1>3, <2>2, <3>1 DEF MadeSame
    <3> QED BY <3>1, <3>2
  <2> QED BY <2>1, <2>2
<1> QED BY <1>1, <1>2, <1>3

\* Objects that differ at most in what edit n overwrites.
SameBut(log) ==
    [n \in Nat |-> {w \in ObjectMaps \X ObjectMaps :
        IF n \in 1..Len(log)
        THEN \A k \in ObjectKeys : IF k = log[n].key THEN MadeSame(log[n], w[1][k], w[2][k])
                                                     ELSE w[1][k] = w[2][k]
        ELSE w[1] = w[2]}]

LEMMA EditsOverwrite ==
    ASSUME NEW log \in Seq(LoggedEdits)
    PROVE  Overwrites(ObjectMaps, Applies(log), SameBut(log))
<1> DEFINE G == Applies(log)
           R == SameBut(log)
<1>0. G \in [Nat -> [ObjectMaps -> ObjectMaps]]
  BY AppliesTyped
<1>1. \A n \in 1..Len(log) : n \in Nat /\ log[n] \in LoggedEdits /\ log[n].key \in ObjectKeys
  <2>1. \A n \in 1..Len(log) : n \in Nat /\ log[n] \in LoggedEdits
    OBVIOUS
  <2> QED BY <2>1 DEF LoggedEdits
<1>2. \A n \in 1..Len(log), o \in ObjectMaps, k \in ObjectKeys :
          G[n][o][k] = IF k = log[n].key THEN Assigned(o[k], log[n], n) ELSE o[k]
  BY <1>1 DEF Applies, ObjectMaps
<1>3. \A n \in Nat \ 1..Len(log), o \in ObjectMaps : G[n][o] = o
  BY DEF Applies
<1>4. \A n \in 1..Len(log), o \in ObjectMaps, p \in ObjectMaps :
          <<o, p>> \in R[n] <=>
              \A k \in ObjectKeys : IF k = log[n].key THEN MadeSame(log[n], o[k], p[k])
                                                      ELSE o[k] = p[k]
  BY <1>1 DEF SameBut
<1>5. \A n \in Nat \ 1..Len(log), o \in ObjectMaps, p \in ObjectMaps : <<o, p>> \in R[n] <=> o = p
  BY DEF SameBut
<1>6. \A o \in ObjectMaps, k \in ObjectKeys : o[k] \in Cells
  BY DEF ObjectMaps
<1>7. \A o \in ObjectMaps, n \in Nat : G[n][o] \in ObjectMaps
  BY <1>0
<1>8. \A o \in ObjectMaps, p \in ObjectMaps : (\A k \in ObjectKeys : o[k] = p[k]) => o = p
  BY DEF ObjectMaps
<1> HIDE DEF G, R
<1> SUFFICES ASSUME NEW n \in Nat, NEW o \in ObjectMaps
             PROVE  /\ <<o, G[n][o]>> \in R[n]
                    /\ \A p \in ObjectMaps : <<o, p>> \in R[n] =>
                          /\ G[n][o] = G[n][p]
                          /\ \A m \in Nat : <<G[m][o], G[m][p]>> \in R[n]
  BY DEF Overwrites, G, R
<1>9. CASE n \notin 1..Len(log)
  BY <1>3, <1>5, <1>7, <1>9
<1>10. CASE n \in 1..Len(log)
  <2> DEFINE e == log[n]
  <2>1. e \in LoggedEdits /\ e.key \in ObjectKeys
    BY <1>1, <1>10
  <2> HIDE DEF e
  <2>2. <<o, G[n][o]>> \in R[n]
    <3> SUFFICES ASSUME NEW k \in ObjectKeys
                 PROVE  IF k = e.key THEN MadeSame(e, o[k], G[n][o][k]) ELSE o[k] = G[n][o][k]
      BY <1>4, <1>7, <1>10 DEF e
    <3>1. G[n][o][k] = IF k = e.key THEN Assigned(o[k], e, n) ELSE o[k]
      BY <1>2, <1>10 DEF e
    <3> QED BY <1>6, <2>1, <3>1, MadeSameStays
  <2>3. ASSUME NEW p \in ObjectMaps, <<o, p>> \in R[n]
        PROVE  G[n][o] = G[n][p] /\ \A m \in Nat : <<G[m][o], G[m][p]>> \in R[n]
    <3>1. \A k \in ObjectKeys : IF k = e.key THEN MadeSame(e, o[k], p[k]) ELSE o[k] = p[k]
      BY <1>4, <1>10, <2>3 DEF e
    <3>2. \A k \in ObjectKeys : G[n][o][k] = G[n][p][k]
      <4> SUFFICES ASSUME NEW k \in ObjectKeys PROVE G[n][o][k] = G[n][p][k]
        OBVIOUS
      <4>1. /\ G[n][o][k] = IF k = e.key THEN Assigned(o[k], e, n) ELSE o[k]
            /\ G[n][p][k] = IF k = e.key THEN Assigned(p[k], e, n) ELSE p[k]
        BY <1>2, <1>10, <2>3 DEF e
      <4>2. k = e.key => Assigned(o[k], e, n) = Assigned(p[k], e, n)
        BY <1>6, <2>1, <2>3, <3>1, MadeSameStays
      <4> QED BY <3>1, <4>1, <4>2
    <3>3. G[n][o] = G[n][p]
      BY <1>7, <1>8, <2>3, <3>2
    <3>4. ASSUME NEW m \in Nat PROVE <<G[m][o], G[m][p]>> \in R[n]
      <4>1. CASE m \notin 1..Len(log)
        BY <1>3, <2>3, <4>1
      <4>2. CASE m \in 1..Len(log)
        <5> SUFFICES ASSUME NEW k \in ObjectKeys
                     PROVE  IF k = e.key THEN MadeSame(e, G[m][o][k], G[m][p][k])
                            ELSE G[m][o][k] = G[m][p][k]
          BY <1>4, <1>7, <1>10, <2>3 DEF e
        <5>1. /\ G[m][o][k] = IF k = log[m].key THEN Assigned(o[k], log[m], m) ELSE o[k]
              /\ G[m][p][k] = IF k = log[m].key THEN Assigned(p[k], log[m], m) ELSE p[k]
          BY <1>2, <2>3, <4>2
        <5>2. k = e.key => MadeSame(e, Assigned(o[k], log[m], m), Assigned(p[k], log[m], m))
          BY <1>1, <1>6, <2>1, <2>3, <3>1, <4>2, MadeSameStays
        <5> QED BY <3>1, <5>1, <5>2
      <4> QED BY <4>1, <4>2
    <3> QED BY <3>3, <3>4
  <2> QED BY <2>2, <2>3
<1> QED BY <1>9, <1>10

\* Applied(log, ...) in the words of the log.
AppliedSo(log, i, rows) ==
    /\ \A j \in Nat : Applied(log, i, j, rows) \in ObjectMaps
    /\ \A j \in Nat : j <= i => Applied(log, i, j, rows) = rows
    /\ \A j \in Nat : j >= i =>
          Applied(log, i, j + 1, rows) = Applies(log)[j + 1][Applied(log, i, j, rows)]
    /\ \A m \in Nat, j \in Nat : i <= m /\ m <= j =>
          Applied(log, m, j, Applied(log, i, m, rows)) = Applied(log, i, j, rows)
    /\ \A j \in Nat : i <= j => Applied(log, i, j, Made(log, j)) = Made(log, j)

LEMMA AppliedIs ==
    ASSUME NEW log \in Seq(LoggedEdits), NEW i \in Nat, NEW rows \in ObjectMaps
    PROVE  AppliedSo(log, i, rows)
<1>1. Applies(log) \in [Nat -> [ObjectMaps -> ObjectMaps]] /\ Empty.rows \in ObjectMaps
  BY AppliesTyped
<1> DEFINE G == Applies(log)
<1> HIDE DEF G
<1>2. G \in [Nat -> [ObjectMaps -> ObjectMaps]]
  BY <1>1 DEF G
<1>3. GoesOn(ObjectMaps, G, i, rows)
  BY <1>2, StretchIs
<1>4. \A m \in Nat, j \in Nat : i <= m /\ m <= j =>
         Stretch(ObjectMaps, G, m, j, Stretch(ObjectMaps, G, i, m, rows)) =
            Stretch(ObjectMaps, G, i, j, rows)
  BY <1>2, StretchComposes
<1>5. Overwrites(ObjectMaps, G, SameBut(log))
  BY EditsOverwrite DEF G
<1>6. \A j \in Nat : i <= j =>
         Stretch(ObjectMaps, G, i, j, Stretch(ObjectMaps, G, 0, j, Empty.rows)) =
            Stretch(ObjectMaps, G, 0, j, Empty.rows)
  BY <1>1, <1>2, <1>5, StretchAgain
<1> QED BY <1>3, <1>4, <1>6 DEF Applied, Made, GoesOn, AppliedSo, G

\* The log is only appended to.
LEMMA LongerLog ==
    ASSUME NEW log \in Seq(LoggedEdits), NEW e \in LoggedEdits, NEW i \in Nat,
           NEW rows \in ObjectMaps
    PROVE  \A j \in Nat : j <= Len(log) => Applied(Append(log, e), i, j, rows) = Applied(log, i, j, rows)
<1> DEFINE more == Append(log, e)
           G == Applies(log)
           H == Applies(more)
<1>1. more \in Seq(LoggedEdits) /\ Len(more) = Len(log) + 1 /\ Len(log) \in Nat
      /\ \A n \in 1..Len(log) : more[n] = log[n]
  OBVIOUS
<1> HIDE DEF more
<1>2. G \in [Nat -> [ObjectMaps -> ObjectMaps]] /\ H \in [Nat -> [ObjectMaps -> ObjectMaps]]
  BY <1>1, AppliesTyped
<1>3. SameSteps(G, H, i, Len(log))
  <2> SUFFICES ASSUME NEW n \in 1..Len(log) PROVE G[n] = H[n]
    BY DEF SameSteps
  <2>1. n \in Nat /\ n \in 1..Len(more) /\ more[n] = log[n]
    BY <1>1
  <2> QED BY <2>1 DEF Applies
<1> HIDE DEF G, H
<1>4. \A j \in Nat : j <= Len(log) =>
         Stretch(ObjectMaps, G, i, j, rows) = Stretch(ObjectMaps, H, i, j, rows)
  <2> DEFINE k == Len(log)
  <2>1. k \in Nat /\ SameSteps(G, H, i, k)
    BY <1>1, <1>3
  <2> HIDE DEF k
  <2>2. \A j \in Nat : j <= k =>
           Stretch(ObjectMaps, G, i, j, rows) = Stretch(ObjectMaps, H, i, j, rows)
    BY ONLY <1>2, <2>1, StretchDepends, i \in Nat, rows \in ObjectMaps, SMTT(30)
  <2> QED BY <2>2 DEF k
<1> QED BY <1>4 DEF Applied, G, H, more

LEMMA ObjectsAreMade ==
    ASSUME edits \in Seq(LoggedEdits)
    PROVE  \A n \in 0..Len(edits) : Objects(n) = Made(edits, n)
<1> DEFINE N == Len(edits)
           is(f) == f = [i \in 0..N |->
                           IF i = 0 THEN Empty.rows
                           ELSE [f[i - 1] EXCEPT ![edits[i].key] = Assigned(@, edits[i], i)]]
           g == [i \in 0..N |-> Made(edits, i)]
           h == CHOOSE f : is(f)
<1>0. N \in Nat /\ Empty.rows \in ObjectMaps
  BY AppliesTyped
<1> DEFINE F(i, o) == [o EXCEPT ![edits[i].key] = Assigned(o[edits[i].key], edits[i], i)]
<1>1. /\ Made(edits, 0) = Empty.rows
      /\ \A i \in 1..N : Made(edits, i) = F(i, Made(edits, i - 1))
  <2>0. /\ \A j \in Nat : Made(edits, j) \in ObjectMaps
        /\ \A j \in Nat : j <= 0 => Made(edits, j) = Empty.rows
        /\ \A j \in Nat : j >= 0 => Made(edits, j + 1) = Applies(edits)[j + 1][Made(edits, j)]
    <3>1. AppliedSo(edits, 0, Empty.rows)
      BY <1>0, AppliedIs
    <3> QED BY <3>1 DEF AppliedSo, Made
  <2>2. ASSUME NEW i \in 1..N PROVE Made(edits, i) = F(i, Made(edits, i - 1))
    <3>1. i - 1 \in Nat /\ i - 1 >= 0 /\ (i - 1) + 1 = i /\ i \in Nat
      OBVIOUS
    <3>2. Made(edits, i - 1) \in ObjectMaps /\ Made(edits, i) = Applies(edits)[i][Made(edits, i - 1)]
      BY <2>0, <3>1
    <3> QED BY <3>1, <3>2 DEF Applies
  <2> QED BY <2>0, <2>2
<1>2. is(g)
  <2> SUFFICES ASSUME NEW i \in 0..N
               PROVE  g[i] = IF i = 0 THEN Empty.rows
                             ELSE [g[i - 1] EXCEPT ![edits[i].key] = Assigned(@, edits[i], i)]
    OBVIOUS
  <2>1. CASE i = 0
    BY <1>1, <2>1
  <2>2. CASE i # 0
    <3>1. i \in 1..N /\ i - 1 \in 0..N
      BY <1>0, <2>2
    <3> QED BY <1>1, <2>2, <3>1
  <2> QED BY <2>1, <2>2
<1>3. is(h)
  BY <1>2
<1>4. \A n \in 0..N : Objects(n) = h[n]
  BY DEF Objects
<1>5. /\ h[0] = Empty.rows
      /\ \A i \in 1..N : h[i] = F(i, h[i - 1])
  <2>1. \A i \in 0..N : h[i] = IF i = 0 THEN Empty.rows
                        ELSE [h[i - 1] EXCEPT ![edits[i].key] = Assigned(@, edits[i], i)]
    BY <1>3
  <2> HIDE DEF h
  <2>2. 0 \in 0..N
    BY <1>0
  <2>3. h[0] = Empty.rows
    BY <2>1, <2>2, Zenon
  <2>4. ASSUME NEW i \in 1..N PROVE h[i] = F(i, h[i - 1])
    <3>1. i \in 0..N /\ i # 0
      BY <1>0
    <3> QED BY <2>1, <3>1
  <2> QED BY <2>3, <2>4
<1> HIDE DEF h, g, F
<1> DEFINE T == {n \in Nat : n <= N => h[n] = Made(edits, n)}
<1>6. 0 \in T
  BY <1>1, <1>5
<1>7. ASSUME NEW n \in Nat, n \in T PROVE n + 1 \in T
  <2> SUFFICES ASSUME n + 1 <= N PROVE h[n + 1] = Made(edits, n + 1)
    OBVIOUS
  <2>1. n + 1 \in 1..N /\ (n + 1) - 1 = n /\ h[n] = Made(edits, n)
    BY <1>0, <1>7
  <2> QED BY <1>1, <1>5, <2>1
<1> HIDE DEF T
<1>8. Nat \subseteq T
  BY <1>6, <1>7, Induct
<1> QED BY <1>0, <1>4, <1>8 DEF T

-----------------------------------------------------------------------------
(* The callers. *)
RunFrames ==
    [pc : {"state"}, at : Nat, upto : Nat] \cup [pc : {"rows"}, at : Nat, upto : Nat, mark : Nat]
LoadFrames == [pc : {"load"}, at : Nat, upto : Nat, before : Cells, seen : RemoteTables]
RebuildFrames ==
    [pc : {"snapshot"}, mark : Nat] \cup [pc : {"clear"}, mark : Nat, rows : ObjectMaps]
FillFrames ==
    [pc : {"fill"}, mark : Nat, rows : ObjectMaps, seen : RemoteTables]
    \cup [pc : {"certify"}, mark : Nat, seen : RemoteTables]
CallerFrames == {Idle} \cup RunFrames \cup LoadFrames \cup RebuildFrames \cup FillFrames

\* Rows that hold the edits below a mark, and may hold more.
Holding(log, mark, rows) ==
    1 <= mark /\ \E n \in Nat : mark <= n + 1 /\ n <= Len(log) /\ rows = Made(log, n)

\* What a caller goes by, of the log and of the table as it saw it.
GoesBy(log, lost, f) ==
    /\ f.pc \in {"state", "rows", "load"} => 1 <= f.at /\ f.at <= f.upto /\ f.upto <= Len(log)
    /\ f.pc = "rows" => f.mark = f.at
    /\ f.pc = "load" => f.seen.mark = f.at /\ f.before = f.seen.rows[log[f.at].key]
    /\ f.pc = "snapshot" => 1 <= f.mark /\ f.mark <= Len(log) + 1
    /\ f.pc \in {"clear", "fill"} => Holding(log, f.mark, f.rows)
    /\ f.pc = "fill" => f.seen = Empty
    /\ f.pc = "certify" => 1 <= f.mark /\ (~lost => Holding(log, f.mark, f.seen.rows))

\* The edits from the mark on, up to one, make of the table what the log makes of nothing.
CatchesUp(log, t) ==
    \A k \in Nat : t.mark = k + 1 =>
        \E n \in Nat : k <= n /\ n <= Len(log) /\ Applied(log, k, n, t.rows) = Made(log, n)

CallersInv ==
    /\ caller \in [Callers -> CallerFrames]
    /\ \A c \in Callers : GoesBy(edits, overtaken, caller[c])

RemoteInv ==
    /\ edits \in Seq(LoggedEdits) /\ table \in RemoteTables /\ overtaken \in BOOLEAN
    /\ CallersInv
    /\ ~overtaken => CatchesUp(edits, table)

LEMMA FrameIs ==
    ASSUME NEW f \in CallerFrames
    PROVE  /\ f.pc \in {"state", "rows"} => f \in RunFrames /\ f.at \in Nat /\ f.upto \in Nat
           /\ f.pc = "rows" => f.mark \in Nat
           /\ f.pc = "load" => /\ f.at \in Nat /\ f.upto \in Nat /\ f.before \in Cells
                               /\ f.seen \in RemoteTables
           /\ f.pc \in {"snapshot", "clear", "fill", "certify"} => f.mark \in Nat
           /\ f.pc \in {"clear", "fill"} => f.rows \in ObjectMaps
           /\ f.pc \in {"fill", "certify"} => f.seen \in RemoteTables
BY DEF CallerFrames, RunFrames, LoadFrames, RebuildFrames, FillFrames, Idle

LEMMA IdleGoesBy ==
    ASSUME NEW log, NEW lost PROVE Idle \in CallerFrames /\ GoesBy(log, lost, Idle)
BY DEF CallerFrames, GoesBy, Idle

\* The log grows, and nobody minds.
LEMMA StillHolding ==
    ASSUME NEW log \in Seq(LoggedEdits), NEW e \in LoggedEdits, NEW mark, NEW rows,
           Holding(log, mark, rows)
    PROVE  Holding(Append(log, e), mark, rows)
<1>1. PICK n \in Nat : mark <= n + 1 /\ n <= Len(log) /\ rows = Made(log, n)
  BY DEF Holding
<1>2. Len(Append(log, e)) = Len(log) + 1 /\ Len(log) \in Nat
  OBVIOUS
<1>3. Made(Append(log, e), n) = Made(log, n)
  BY <1>1, LongerLog, AppliesTyped DEF Made
<1> QED BY <1>1, <1>2, <1>3 DEF Holding

LEMMA StillGoesBy ==
    ASSUME NEW log \in Seq(LoggedEdits), NEW e \in LoggedEdits, NEW lost \in BOOLEAN,
           NEW f \in CallerFrames, GoesBy(log, lost, f)
    PROVE  GoesBy(Append(log, e), lost, f)
<1>1. /\ Len(Append(log, e)) = Len(log) + 1 /\ Len(log) \in Nat
      /\ \A i \in 1..Len(log) : Append(log, e)[i] = log[i]
  OBVIOUS
<1>2. f.pc = "load" => Append(log, e)[f.at] = log[f.at]
  BY <1>1, FrameIs DEF GoesBy
<1>3. f.pc \in {"state", "rows", "load"} => f.upto \in Nat
  BY FrameIs
<1>4. f.pc = "snapshot" => f.mark \in Nat
  BY FrameIs
<1> HIDE DEF CallerFrames
<1> DEFINE more == Append(log, e)
<1>5. f.pc \in {"clear", "fill"} => Holding(more, f.mark, f.rows)
  BY StillHolding DEF GoesBy
<1>6. f.pc = "certify" => 1 <= f.mark /\ (~lost => Holding(more, f.mark, f.seen.rows))
  BY StillHolding DEF GoesBy
<1> HIDE DEF more
<1>7. Len(more) = Len(log) + 1 /\ (f.pc = "load" => more[f.at] = log[f.at])
  BY <1>1, <1>2 DEF more
<1>8. GoesBy(more, lost, f)
  BY <1>1, <1>3, <1>4, <1>5, <1>6, <1>7 DEF GoesBy
<1> QED BY <1>8 DEF more

LEMMA StillCatchesUp ==
    ASSUME NEW log \in Seq(LoggedEdits), NEW e \in LoggedEdits, NEW t \in RemoteTables, CatchesUp(log, t)
    PROVE  CatchesUp(Append(log, e), t)
<1> SUFFICES ASSUME NEW k \in Nat, t.mark = k + 1
             PROVE  \E n \in Nat : /\ k <= n /\ n <= Len(Append(log, e))
                                   /\ Applied(Append(log, e), k, n, t.rows) = Made(Append(log, e), n)
  BY DEF CatchesUp
<1>1. PICK n \in Nat : k <= n /\ n <= Len(log) /\ Applied(log, k, n, t.rows) = Made(log, n)
  BY DEF CatchesUp
<1>2. Len(Append(log, e)) = Len(log) + 1 /\ Len(log) \in Nat
  OBVIOUS
<1>3. t.rows \in ObjectMaps /\ Empty.rows \in ObjectMaps
  BY AppliesTyped DEF RemoteTables
<1>4. Applied(Append(log, e), k, n, t.rows) = Applied(log, k, n, t.rows)
  BY <1>1, <1>3, LongerLog
<1>5. Made(Append(log, e), n) = Made(log, n)
  BY <1>1, <1>3, LongerLog DEF Made
<1> QED BY <1>1, <1>2, <1>4, <1>5

\* One caller moves on.
LEMMA CallersKept ==
    ASSUME RemoteInv, NEW c \in Callers, NEW f \in CallerFrames, caller' = [caller EXCEPT ![c] = f],
           NEW lost \in BOOLEAN, overtaken' = lost, overtaken => lost, edits' = edits,
           GoesBy(edits, lost, f)
    PROVE  CallersInv'
<1>1. caller' \in [Callers -> CallerFrames] /\ caller'[c] = f
      /\ \A d \in Callers : d # c => caller'[d] = caller[d]
  BY DEF RemoteInv, CallersInv
<1>2. \A d \in Callers : GoesBy(edits, lost, caller[d])
  BY DEF RemoteInv, CallersInv, GoesBy
<1>3. \A d \in Callers : GoesBy(edits, lost, caller'[d])
  BY <1>1, <1>2
<1> QED BY <1>1, <1>3 DEF CallersInv

LEMMA EmptyTyped == Empty \in RemoteTables
<1>1. [k \in ObjectKeys |-> Gone] \in ObjectMaps
  BY DEF ObjectMaps, Cells
<1> QED BY <1>1 DEF Empty, RemoteTables

LEMMA RemoteStart == RemoteInit => RemoteInv
<1> SUFFICES ASSUME RemoteInit PROVE RemoteInv
  OBVIOUS
<1>1. edits \in Seq(LoggedEdits) /\ Empty \in RemoteTables /\ Empty.mark = 0
  BY EmptyTyped DEF RemoteInit, Empty
<1>2. CallersInv
  BY IdleGoesBy DEF RemoteInit, CallersInv
<1>3. CatchesUp(edits, table)
  BY <1>1 DEF RemoteInit, CatchesUp
<1> QED BY <1>1, <1>2, <1>3 DEF RemoteInit, RemoteInv

LEMMA LogEditKeeps == ASSUME RemoteInv, NEW c \in Callers, LogEdit(c) PROVE RemoteInv'
<1> USE DEF RemoteInv
<1>1. PICK k \in ObjectKeys, col \in Fields \cup {Deletion} :
          /\ edits' = Append(edits, [key |-> k, col |-> col])
          /\ Continue(c, IF table.mark = 0 THEN Idle
                     ELSE [pc |-> "state", at |-> Len(edits) + 1, upto |-> Len(edits) + 1])
          /\ UNCHANGED <<table, calls, overtaken>>
  BY DEF LogEdit
<1> DEFINE e == [key |-> k, col |-> col]
           log == Append(edits, e)
           f == IF table.mark = 0 THEN Idle
                ELSE [pc |-> "state", at |-> Len(edits) + 1, upto |-> Len(edits) + 1]
<1>2. e \in LoggedEdits
  BY DEF LoggedEdits
<1> HIDE DEF e
<1>3. log \in Seq(LoggedEdits) /\ Len(log) = Len(edits) + 1 /\ Len(edits) \in Nat
  BY <1>2
<1>4. caller' = [caller EXCEPT ![c] = f] /\ edits' = log
  BY <1>1 DEF Continue, e
<1>5. f \in CallerFrames /\ GoesBy(log, overtaken, f)
  <2>1. CASE table.mark = 0
    BY <2>1, IdleGoesBy
  <2>2. CASE table.mark # 0
    BY <1>3, <2>2 DEF CallerFrames, RunFrames, GoesBy
  <2> QED BY <2>1, <2>2
<1>6. \A d \in Callers : caller[d] \in CallerFrames /\ GoesBy(edits, overtaken, caller[d])
  BY DEF CallersInv
<1>7. \A d \in Callers : GoesBy(log, overtaken, caller[d])
  BY <1>2, <1>6, StillGoesBy
<1>8. ~overtaken => CatchesUp(log, table)
  BY <1>2, StillCatchesUp
<1> HIDE DEF f, log
<1>9. CallersInv'
  <2>1. caller' \in [Callers -> CallerFrames] /\ caller'[c] = f
        /\ \A d \in Callers : d # c => caller'[d] = caller[d]
    BY <1>4, <1>5 DEF CallersInv
  <2>2. \A d \in Callers : GoesBy(log, overtaken, caller'[d])
    BY <1>5, <1>7, <2>1
  <2> QED BY <1>1, <1>4, <2>1, <2>2 DEF CallersInv
<1> QED BY <1>1, <1>3, <1>4, <1>8, <1>9

\* A step of one caller that only looks.
LEMMA LooksOnly ==
    ASSUME RemoteInv, NEW c \in Callers, NEW f \in CallerFrames, Continue(c, f),
           UNCHANGED <<edits, table, overtaken>>, GoesBy(edits, overtaken, f)
    PROVE  RemoteInv'
<1>1. overtaken \in BOOLEAN /\ caller' = [caller EXCEPT ![c] = f]
  BY DEF RemoteInv, Continue
<1>2. CallersInv'
  BY <1>1, CallersKept
<1> QED BY <1>2 DEF RemoteInv

LEMMA NextEdit ==
    ASSUME RemoteInv, NEW c \in Callers, NEW lost, caller[c].pc \in {"state", "load"}
    PROVE  Proceed(c) \in CallerFrames /\ GoesBy(edits, lost, Proceed(c))
<1> DEFINE f == caller[c]
<1>1. /\ f.at \in Nat /\ f.upto \in Nat /\ 1 <= f.at /\ f.at <= f.upto /\ f.upto <= Len(edits)
  BY FrameIs DEF RemoteInv, CallersInv, GoesBy
<1>2. CASE f.at < f.upto
  <2>1. Proceed(c) = [pc |-> "state", at |-> f.at + 1, upto |-> f.upto]
    BY <1>2 DEF Proceed
  <2> QED BY <1>1, <1>2, <2>1 DEF CallerFrames, RunFrames, GoesBy
<1>3. CASE ~(f.at < f.upto)
  BY <1>3, IdleGoesBy DEF Proceed
<1> QED BY <1>2, <1>3

LEMMA BeginCatchUpKeeps == ASSUME RemoteInv, NEW c \in Callers, BeginCatchUp(c) PROVE RemoteInv'
<1> DEFINE f == [pc |-> "state", at |-> table.mark, upto |-> Len(edits)]
<1>1. table.mark \in Nat /\ Len(edits) \in Nat /\ table.mark # 0 /\ table.mark <= Len(edits)
  BY DEF RemoteInv, RemoteTables, BeginCatchUp
<1>2. f \in CallerFrames /\ GoesBy(edits, overtaken, f)
  BY <1>1 DEF CallerFrames, RunFrames, GoesBy
<1> QED BY <1>2, LooksOnly DEF BeginCatchUp

LEMMA ReadStateKeeps == ASSUME RemoteInv, NEW c \in Callers, ReadState(c) PROVE RemoteInv'
<1>1. CASE table.mark = 0
  BY <1>1, IdleGoesBy, LooksOnly DEF ReadState
<1>2. CASE table.mark # 0 /\ ~RightBehind(caller[c].at)
  <2>1. Continue(c, Proceed(c)) /\ caller[c].pc = "state"
    BY <1>2 DEF ReadState
  <2> QED BY <2>1, NextEdit, LooksOnly DEF ReadState
<1>3. CASE table.mark # 0 /\ RightBehind(caller[c].at)
  <2> DEFINE g == caller[c]
             f == [pc |-> "rows", at |-> g.at, upto |-> g.upto, mark |-> table.mark]
  <2>1. Continue(c, f) /\ g.pc = "state"
    BY <1>3 DEF ReadState
  <2>2. /\ g.at \in Nat /\ g.upto \in Nat /\ 1 <= g.at /\ g.at <= g.upto /\ g.upto <= Len(edits)
        /\ table.mark \in Nat /\ table.mark = g.at
    BY <1>3, <2>1, FrameIs DEF RemoteInv, CallersInv, GoesBy, RemoteTables, RightBehind
  <2>3. f \in CallerFrames /\ GoesBy(edits, overtaken, f)
    BY <2>2 DEF CallerFrames, RunFrames, GoesBy
  <2> HIDE DEF f
  <2> QED BY <2>1, <2>3, LooksOnly DEF ReadState
<1> QED BY <1>1, <1>2, <1>3

LEMMA ReadRowsKeeps == ASSUME RemoteInv, NEW c \in Callers, ReadRows(c) PROVE RemoteInv'
<1> DEFINE g == caller[c]
           look == [table EXCEPT !.mark = g.mark]
           f == [pc |-> "load", at |-> g.at, upto |-> g.upto,
                 before |-> table.rows[edits[g.at].key], seen |-> look]
<1>1. Continue(c, f) /\ g.pc = "rows"
  BY DEF ReadRows
<1>2. /\ g.at \in Nat /\ g.upto \in Nat /\ 1 <= g.at /\ g.at <= g.upto /\ g.upto <= Len(edits)
      /\ g.mark = g.at
  BY <1>1, FrameIs DEF RemoteInv, CallersInv, GoesBy
<1>3. edits[g.at] \in LoggedEdits
  <2>1. \A i \in 1..Len(edits) : edits[i] \in LoggedEdits
    BY DEF RemoteInv
  <2>2. g.at \in 1..Len(edits)
    BY <1>2 DEF RemoteInv
  <2> QED BY <2>1, <2>2
<1>4. edits[g.at].key \in ObjectKeys /\ table.rows \in ObjectMaps
  BY <1>3 DEF LoggedEdits, RemoteInv, RemoteTables
<1>5. table.rows[edits[g.at].key] \in Cells
  BY <1>4 DEF ObjectMaps
<1>6. look \in RemoteTables /\ look.mark = g.mark /\ look.rows = table.rows
  BY <1>2 DEF RemoteInv, RemoteTables
<1> HIDE DEF look
<1>7. f \in CallerFrames /\ GoesBy(edits, overtaken, f)
  BY <1>2, <1>5, <1>6 DEF CallerFrames, LoadFrames, GoesBy
<1> HIDE DEF f
<1> QED BY <1>1, <1>7, LooksOnly DEF ReadRows

\* Through a load of an edit by somebody who has seen the table, the replay stands one edit later.
LEMMA LoadDeltaKeeps == ASSUME RemoteInv, NEW c \in Callers, LoadDelta(c) PROVE RemoteInv'
<1> USE DEF RemoteInv
<1> DEFINE f == caller[c]
           e == edits[f.at]
           rows == [table.rows EXCEPT ![e.key] = Assigned(f.before, e, f.at)]
<1>1. /\ f.pc = "load" /\ table' = [rows |-> rows, mark |-> f.at + 1]
      /\ overtaken' = (overtaken \/ f.seen # table) /\ Continue(c, Proceed(c)) /\ edits' = edits
  BY DEF LoadDelta, Load
<1>2. /\ f.at \in Nat /\ f.upto \in Nat /\ 1 <= f.at /\ f.at <= f.upto /\ f.upto <= Len(edits)
      /\ f.before \in Cells /\ f.seen.mark = f.at /\ f.before = f.seen.rows[e.key]
  BY <1>1, FrameIs DEF CallersInv, GoesBy
<1>3. f.at \in 1..Len(edits) /\ e \in LoggedEdits
  <2>1. \A i \in 1..Len(edits) : edits[i] \in LoggedEdits
    OBVIOUS
  <2>2. f.at \in 1..Len(edits)
    BY <1>2
  <2> QED BY <2>1, <2>2
<1>4. e.key \in ObjectKeys /\ table.rows \in ObjectMaps /\ Assigned(f.before, e, f.at) \in Cells
  BY <1>2, <1>3, AssignedTyped DEF LoggedEdits, RemoteTables
<1>5. rows \in ObjectMaps
  BY <1>4 DEF ObjectMaps
<1>6. Proceed(c) \in CallerFrames /\ GoesBy(edits, overtaken', Proceed(c))
  BY <1>1, NextEdit
<1>7. CallersInv'
  BY <1>1, <1>6, CallersKept DEF Continue
<1>8. ASSUME ~overtaken' PROVE CatchesUp(edits, [rows |-> rows, mark |-> f.at + 1])
  <2>1. ~overtaken /\ f.seen = table
    BY <1>1, <1>8
  <2>2. table.mark = f.at /\ f.before = table.rows[e.key]
    BY <1>2, <2>1
  <2>3. rows = Applies(edits)[f.at][table.rows]
    BY <1>2, <1>3, <1>4, <2>2 DEF Applies
  <2> DEFINE k == f.at - 1
  <2>4. k \in Nat /\ table.mark = k + 1 /\ f.at = k + 1
    BY <1>2, <2>2
  <2>5. PICK n \in Nat : /\ k <= n /\ n <= Len(edits)
                        /\ Applied(edits, k, n, table.rows) = Made(edits, n)
    BY <2>1, <2>4 DEF CatchesUp
  <2> HIDE DEF rows, e, k
  <2>6. AppliedSo(edits, k, table.rows) /\ AppliedSo(edits, k + 1, rows) /\ AppliedSo(edits, 0, Empty.rows)
    BY <1>4, <1>5, <2>4, AppliedIs, AppliesTyped
  <2>7. rows = Applied(edits, k, k + 1, table.rows)
    <3>1. k <= k /\ k >= k
      BY <2>4
    <3>2. Applied(edits, k, k, table.rows) = table.rows
      BY <2>4, <2>6, <3>1 DEF AppliedSo
    <3>3. Applied(edits, k, k + 1, table.rows) = Applies(edits)[k + 1][Applied(edits, k, k, table.rows)]
      BY <2>4, <2>6, <3>1 DEF AppliedSo
    <3> QED BY <2>3, <2>4, <3>2, <3>3
  <2>8. \E m \in Nat : /\ k + 1 <= m /\ m <= Len(edits)
                       /\ Applied(edits, k + 1, m, rows) = Made(edits, m)
    <3>1. CASE n = k
      <4>1. table.rows = Made(edits, k)
        BY <2>4, <2>5, <2>6, <3>1 DEF AppliedSo
      <4>2. Made(edits, k + 1) = Applies(edits)[k + 1][Made(edits, k)]
        <5>1. k >= 0
          BY <2>4
        <5> QED BY <2>4, <2>6, <5>1 DEF AppliedSo, Made
      <4>3. Applied(edits, k + 1, k + 1, rows) = rows
        BY <2>4, <2>6 DEF AppliedSo
      <4>4. k + 1 \in Nat /\ k + 1 <= Len(edits)
        BY <1>2, <2>4
      <4> QED BY <2>3, <2>4, <4>1, <4>2, <4>3, <4>4
    <3>2. CASE k + 1 <= n
      <4>1. Applied(edits, k + 1, n, rows) = Applied(edits, k, n, table.rows)
        BY <2>4, <2>6, <2>7, <3>2 DEF AppliedSo
      <4> QED BY <2>5, <3>2, <4>1
    <3> QED BY <2>4, <2>5, <3>1, <3>2
  <2> SUFFICES ASSUME NEW j \in Nat, f.at + 1 = j + 1
               PROVE  \E m \in Nat : /\ j <= m /\ m <= Len(edits)
                                     /\ Applied(edits, j, m, rows) = Made(edits, m)
    BY DEF CatchesUp
  <2>9. j = k + 1
    BY <1>2, <2>4
  <2> QED BY <2>8, <2>9
<1>9. table' \in RemoteTables
  <2> DEFINE mark == f.at + 1
  <2>1. mark \in Nat /\ table' = [rows |-> rows, mark |-> mark]
    BY <1>1, <1>2
  <2> HIDE DEF rows, mark
  <2> QED BY <1>5, <2>1 DEF RemoteTables
<1> HIDE DEF rows
<1>10. overtaken' \in BOOLEAN /\ edits' \in Seq(LoggedEdits)
  BY <1>1
<1>11. ~overtaken' => CatchesUp(edits', table')
  BY <1>1, <1>8
<1> QED BY <1>7, <1>9, <1>10, <1>11

LEMMA BeginRebuildKeeps == ASSUME RemoteInv, NEW c \in Callers, BeginRebuild(c) PROVE RemoteInv'
<1> DEFINE f == [pc |-> "snapshot", mark |-> Len(edits) + 1]
<1>1. Len(edits) \in Nat
  BY DEF RemoteInv
<1>2. f \in CallerFrames /\ GoesBy(edits, overtaken, f)
  BY <1>1 DEF CallerFrames, RebuildFrames, GoesBy
<1> QED BY <1>2, LooksOnly DEF BeginRebuild

\* The snapshot is not older than the mark.
LEMMA SnapshotKeeps == ASSUME RemoteInv, NEW c \in Callers, Snapshot(c) PROVE RemoteInv'
<1> DEFINE m == caller[c].mark
           N == Len(edits)
           f == [pc |-> "clear", mark |-> m, rows |-> Objects(N)]
<1>1. /\ caller[c].pc = "snapshot" /\ Continue(c, f)
      /\ UNCHANGED <<edits, table, overtaken>>
  BY DEF Snapshot
<1>2. m \in Nat /\ 1 <= m /\ m <= N + 1 /\ N \in Nat
  BY <1>1, FrameIs DEF RemoteInv, CallersInv, GoesBy
<1>3. Objects(N) = Made(edits, N) /\ Made(edits, N) \in ObjectMaps
  <2>1. AppliedSo(edits, 0, Empty.rows)
    BY AppliedIs, AppliesTyped DEF RemoteInv
  <2>2. Made(edits, N) \in ObjectMaps
    BY <1>2, <2>1 DEF AppliedSo, Made
  <2>3. N \in 0..Len(edits)
    BY <1>2
  <2> QED BY <2>2, <2>3, ObjectsAreMade DEF RemoteInv
<1>4. f \in CallerFrames
  BY <1>2, <1>3 DEF CallerFrames, RebuildFrames
<1>5. Holding(edits, m, Objects(N))
  BY <1>2, <1>3 DEF Holding
<1>6. GoesBy(edits, overtaken, f)
  BY <1>5 DEF GoesBy
<1> HIDE DEF f
<1> QED BY <1>1, <1>4, <1>6, LooksOnly

LEMMA ClearKeeps == ASSUME RemoteInv, NEW c \in Callers, Clear(c) PROVE RemoteInv'
<1> USE DEF RemoteInv
<1> DEFINE g == caller[c]
           f == [pc |-> "fill", mark |-> g.mark, rows |-> g.rows, seen |-> Empty]
<1>1. /\ g.pc = "clear" /\ caller' = [caller EXCEPT ![c] = f] /\ table' = Empty
      /\ edits' = edits /\ overtaken' = overtaken
  BY DEF Clear, Continue
<1>2. g.mark \in Nat /\ g.rows \in ObjectMaps /\ Holding(edits, g.mark, g.rows)
  BY <1>1, FrameIs DEF CallersInv, GoesBy
<1>3. f \in CallerFrames
  BY <1>2, EmptyTyped DEF CallerFrames, FillFrames
<1>4. GoesBy(edits, overtaken, f)
  BY <1>2 DEF GoesBy, Holding
<1> HIDE DEF f
<1>5. CallersInv'
  BY <1>1, <1>3, <1>4, CallersKept
<1>6. Empty.mark = 0
  BY DEF Empty
<1>7. CatchesUp(edits, Empty)
  BY <1>6 DEF CatchesUp
<1> QED BY <1>1, <1>5, <1>7, EmptyTyped

\* A table that was as empty as its caller left it holds the snapshot.
LEMMA FillKeeps == ASSUME RemoteInv, NEW c \in Callers, Fill(c) PROVE RemoteInv'
<1> USE DEF RemoteInv
<1> DEFINE g == caller[c]
           rows == [k \in ObjectKeys |-> IF g.rows[k] = Gone THEN table.rows[k] ELSE g.rows[k]]
           new == [rows |-> rows, mark |-> table.mark]
           f == [pc |-> "certify", mark |-> g.mark, seen |-> new]
<1>1. /\ g.pc = "fill" /\ caller' = [caller EXCEPT ![c] = f] /\ table' = new
      /\ edits' = edits /\ overtaken' = (overtaken \/ g.seen # table)
  BY DEF Fill, Load, Continue
<1>2. /\ g.mark \in Nat /\ g.rows \in ObjectMaps /\ g.seen = Empty
      /\ Holding(edits, g.mark, g.rows)
  BY <1>1, FrameIs DEF CallersInv, GoesBy
<1>3. rows \in ObjectMaps
  BY <1>2 DEF ObjectMaps, RemoteTables
<1>4. new \in RemoteTables /\ new.mark = table.mark /\ new.rows = rows
  BY <1>3 DEF RemoteTables
<1>5. ASSUME ~overtaken' PROVE rows = g.rows /\ table.mark = 0
  <2>1. table = Empty
    BY <1>1, <1>2, <1>5
  <2>2. \A k \in ObjectKeys : table.rows[k] = Gone
    BY <2>1 DEF Empty
  <2>3. \A k \in ObjectKeys : rows[k] = g.rows[k]
    BY <2>2
  <2>4. table.mark = 0
    BY <2>1 DEF Empty
  <2> QED BY <1>2, <1>3, <2>3, <2>4 DEF ObjectMaps
<1> HIDE DEF rows, new
<1>6. f \in CallerFrames
  BY <1>2, <1>4 DEF CallerFrames, FillFrames
<1>7. GoesBy(edits, overtaken', f)
  BY <1>2, <1>4, <1>5 DEF GoesBy, Holding
<1> HIDE DEF f
<1>8. overtaken' \in BOOLEAN /\ (overtaken => overtaken')
  BY <1>1
<1>9. CallersInv'
  BY <1>1, <1>6, <1>7, <1>8, CallersKept
<1>10. ~overtaken' => CatchesUp(edits, new)
  BY <1>4, <1>5 DEF CatchesUp
<1> QED BY <1>1, <1>4, <1>8, <1>9, <1>10

\* What is above the mark and in the rows already may be replayed over them.
LEMMA CertifyKeeps == ASSUME RemoteInv, NEW c \in Callers, Certify(c) PROVE RemoteInv'
<1> USE DEF RemoteInv
<1> DEFINE g == caller[c]
           new == [rows |-> table.rows, mark |-> g.mark]
<1>1. /\ g.pc = "certify" /\ caller' = [caller EXCEPT ![c] = Idle] /\ table' = new
      /\ edits' = edits /\ overtaken' = (overtaken \/ g.seen # table)
  BY DEF Certify, Load, Return, Continue
<1>2. g.mark \in Nat /\ 1 <= g.mark /\ (~overtaken => Holding(edits, g.mark, g.seen.rows))
  BY <1>1, FrameIs DEF CallersInv, GoesBy
<1>3. new \in RemoteTables /\ new.mark = g.mark /\ new.rows = table.rows
  BY <1>2 DEF RemoteTables
<1> HIDE DEF new
<1>4. ASSUME ~overtaken' PROVE CatchesUp(edits, new)
  <2>1. Holding(edits, g.mark, table.rows)
    BY <1>1, <1>2, <1>4
  <2>2. PICK n \in Nat : g.mark <= n + 1 /\ n <= Len(edits) /\ table.rows = Made(edits, n)
    BY <2>1 DEF Holding
  <2> SUFFICES ASSUME NEW k \in Nat, g.mark = k + 1
               PROVE  \E m \in Nat : /\ k <= m /\ m <= Len(edits)
                                     /\ Applied(edits, k, m, table.rows) = Made(edits, m)
    BY <1>3 DEF CatchesUp
  <2>3. k <= n
    BY <2>2
  <2>4. AppliedSo(edits, k, table.rows)
    BY AppliedIs DEF RemoteTables
  <2>5. Applied(edits, k, n, Made(edits, n)) = Made(edits, n)
    BY <2>3, <2>4 DEF AppliedSo
  <2> QED BY <2>2, <2>3, <2>5
<1>5. overtaken' \in BOOLEAN /\ (overtaken => overtaken')
  BY <1>1
<1>6. CallersInv'
  BY <1>1, <1>5, IdleGoesBy, CallersKept
<1> QED BY <1>1, <1>3, <1>4, <1>5, <1>6

LEMMA RemoteStep == RemoteInv /\ [RemoteNext]_remoteVars => RemoteInv'
<1> SUFFICES ASSUME RemoteInv, [RemoteNext]_remoteVars PROVE RemoteInv'
  OBVIOUS
<1>1. ASSUME NEW c \in Callers, LogEdit(c) PROVE RemoteInv'
  BY <1>1, LogEditKeeps
<1>2. ASSUME NEW c \in Callers, BeginCatchUp(c) PROVE RemoteInv'
  BY <1>2, BeginCatchUpKeeps
<1>3. ASSUME NEW c \in Callers, ReadState(c) PROVE RemoteInv'
  BY <1>3, ReadStateKeeps
<1>4. ASSUME NEW c \in Callers, ReadRows(c) PROVE RemoteInv'
  BY <1>4, ReadRowsKeeps
<1>5. ASSUME NEW c \in Callers, LoadDelta(c) PROVE RemoteInv'
  BY <1>5, LoadDeltaKeeps
<1>6. ASSUME NEW c \in Callers, BeginRebuild(c) PROVE RemoteInv'
  BY <1>6, BeginRebuildKeeps
<1>7. ASSUME NEW c \in Callers, Snapshot(c) PROVE RemoteInv'
  BY <1>7, SnapshotKeeps
<1>8. ASSUME NEW c \in Callers, Clear(c) PROVE RemoteInv'
  BY <1>8, ClearKeeps
<1>9. ASSUME NEW c \in Callers, Fill(c) PROVE RemoteInv'
  BY <1>9, FillKeeps
<1>10. ASSUME NEW c \in Callers, Certify(c) PROVE RemoteInv'
  BY <1>10, CertifyKeeps
<1>11. ASSUME NEW c \in Callers, Fail(c) PROVE RemoteInv'
  BY <1>11, IdleGoesBy, LooksOnly DEF Fail, Return
<1>12. CASE UNCHANGED remoteVars
  BY <1>12 DEF remoteVars, RemoteInv, CallersInv
<1> QED BY <1>1, <1>2, <1>3, <1>4, <1>5, <1>6, <1>7, <1>8, <1>9, <1>10, <1>11, <1>12 DEF RemoteNext

(* A remote table whose watermark is level with the log holds what the log says, for any edits,  *)
(* catch-ups and rebuilds, wherever each fails or dies, unless a load landed on a table that its *)
(* caller had not seen (store.py, StarRocksObjectStore).                                         *)
THEOREM LevelIsAlwaysTrue == RemoteSpec => []LevelIsTrue
<1>1. RemoteInv => LevelIsTrue
  <2> SUFFICES ASSUME RemoteInv, ~overtaken, Level PROVE table.rows = Objects(Len(edits))
    BY DEF LevelIsTrue
  <2> DEFINE N == Len(edits)
  <2>1. N \in Nat /\ table.mark = N + 1 /\ N \in 0..N /\ CatchesUp(edits, table)
    BY DEF RemoteInv, Level
  <2>2. PICK n \in Nat : N <= n /\ n <= N /\ Applied(edits, N, n, table.rows) = Made(edits, n)
    BY <2>1 DEF CatchesUp
  <2>3. n = N /\ n <= N
    BY <2>1, <2>2
  <2>4. AppliedSo(edits, N, table.rows)
    BY <2>1, AppliedIs DEF RemoteInv, RemoteTables
  <2>5. table.rows = Made(edits, N)
    BY <2>2, <2>3, <2>4 DEF AppliedSo
  <2> QED BY <2>1, <2>5, ObjectsAreMade DEF RemoteInv
<1> QED BY RemoteStart, RemoteStep, <1>1, PTL DEF RemoteSpec

-----------------------------------------------------------------------------
(***************************************************************************)
(* Dashboards and analyses. An item has its fields.                        *)
(***************************************************************************)
IsItem(item) == item = Item(item.id, item) /\ item.id \in Nat
AreItems(items) == IsList(items) /\ \A k \in DOMAIN items : IsItem(items[k])

LEMMA PlacesAre ==
    ASSUME NEW items, NEW i
    PROVE  i \in IdsOf(items) <=> PlacesOf(items, i) # {}
BY DEF IdsOf, PlacesOf

\* What is found is the first.
LEMMA FindIs ==
    ASSUME NEW items, IsList(items), NEW i \in IdsOf(items)
    PROVE  \E k \in PlacesOf(items, i) :
              Find(items, i) = items[k] /\ \A j \in PlacesOf(items, i) : k <= j
<1>1. PlacesOf(items, i) # {} /\ PlacesOf(items, i) \subseteq Nat
  BY ListIs DEF IdsOf, PlacesOf
<1>2. \E k \in PlacesOf(items, i) : \A j \in PlacesOf(items, i) : k <= j
  BY <1>1, LeastMember
<1> QED BY <1>2 DEF Find

LEMMA FindOnly ==
    ASSUME NEW items, IsList(items), NEW k \in Alone(items)
    PROVE  /\ items[k].id \in IdsOf(items) /\ k \in DOMAIN items
           /\ PlacesOf(items, items[k].id) = {k}
           /\ Find(items, items[k].id) = items[k]
           /\ \A m : Prior(items, items[k].id, m) = items[k]
<1>1. PlacesOf(items, items[k].id) = {k} /\ k \in DOMAIN items
  BY DEF Alone, PlacesOf
<1>2. k \in Nat
  BY <1>1, ListIs
<1>3. items[k].id \in IdsOf(items)
  BY <1>1 DEF IdsOf
<1>4. (CHOOSE m \in {k} : \A j \in {k} : j <= m) = k /\ (CHOOSE m \in {k} : \A j \in {k} : m <= j) = k
  BY <1>2
<1> QED BY <1>1, <1>3, <1>4 DEF Find, Prior

\* A cell, or a panel, that is as it was.
Alike(x, y) == y.sql = x.sql /\ y.object = x.object /\ y.flow = x.flow /\ y.inputs = x.inputs
Keeps(c, d, j) ==
    /\ j \in IdsOf(c) <=> j \in IdsOf(d)
    /\ j \in IdsOf(c) => Alike(Find(c, j), Find(d, j))

LEMMA SamePlaces ==
    ASSUME NEW c, NEW d, NEW j, IsList(c), PlacesOf(d, j) = PlacesOf(c, j),
           \A k \in PlacesOf(c, j) : Alike(c[k], d[k])
    PROVE  Keeps(c, d, j)
<1>1. j \in IdsOf(c) <=> j \in IdsOf(d)
  BY PlacesAre
<1>2. ASSUME j \in IdsOf(c) PROVE Alike(Find(c, j), Find(d, j))
  <2> DEFINE k == CHOOSE k \in PlacesOf(c, j) : \A m \in PlacesOf(c, j) : k <= m
  <2>1. PlacesOf(c, j) # {} /\ PlacesOf(c, j) \subseteq Nat
    BY <1>2, ListIs DEF IdsOf, PlacesOf
  <2>2. k \in PlacesOf(c, j)
    BY <2>1, LeastMember
  <2>3. Find(c, j) = c[k] /\ Find(d, j) = d[k]
    BY DEF Find
  <2> QED BY <2>2, <2>3
<1> QED BY <1>1, <1>2 DEF Keeps

LEMMA KeepsOn ==
    ASSUME NEW b, NEW c, NEW d, NEW j, Keeps(b, c, j), Keeps(c, d, j)
    PROVE  Keeps(b, d, j)
BY DEF Keeps, Alike

\* A label is no part of what runs.
LEMMA LabelledIs ==
    ASSUME NEW items, AreItems(items)
    PROVE  LET l == Labelled(items) IN
           /\ AreItems(l) /\ DOMAIN l = DOMAIN items
           /\ \A k \in DOMAIN items : l[k].id = items[k].id /\ Alike(items[k], l[k])
<1> DEFINE l == Labelled(items)
<1>1. DOMAIN l = DOMAIN items /\ l = [k \in DOMAIN items |-> l[k]]
  BY DEF Labelled
<1>2. ASSUME NEW k \in DOMAIN items
      PROVE  IsItem(l[k]) /\ l[k].id = items[k].id /\ Alike(items[k], l[k])
  <2> DEFINE x == items[k]
  <2>1. x = Item(x.id, x) /\ x.id \in Nat
    BY DEF AreItems, IsItem
  <2>2. x = [id |-> x.id, sql |-> x.sql, object |-> x.object, flow |-> x.flow,
             inputs |-> x.inputs, title |-> x.title]
    BY <2>1 DEF Item
  <2>3. l[k] = IF x.title = "" THEN [x EXCEPT !.title = "untitled"] ELSE x
    BY DEF Labelled
  <2> HIDE DEF x, l
  <2>4. CASE x.title = ""
    <3>1. l[k] = [id |-> x.id, sql |-> x.sql, object |-> x.object, flow |-> x.flow,
                  inputs |-> x.inputs, title |-> "untitled"]
      BY <2>2, <2>3, <2>4
    <3> QED BY <2>1, <3>1 DEF IsItem, Item, Alike, x
  <2>5. CASE x.title # ""
    BY <2>1, <2>3, <2>5 DEF IsItem, Alike, x
  <2> QED BY <2>4, <2>5
<1> HIDE DEF l
<1>3. IsList(l)
  <2>1. Len(items) \in Nat /\ DOMAIN items = 1..Len(items)
    BY ListIs DEF AreItems
  <2> DEFINE S == {l[k] : k \in DOMAIN items}
  <2>2. l \in [1..Len(items) -> S]
    BY <1>1, <2>1
  <2> QED BY <2>1, <2>2, ListOf
<1> QED BY <1>1, <1>2, <1>3 DEF AreItems, l

LEMMA LabelledKeeps ==
    ASSUME NEW items, AreItems(items)
    PROVE  /\ \A j : Keeps(items, Labelled(items), j)
           /\ \A j : PlacesOf(Labelled(items), j) = PlacesOf(items, j)
           /\ IdsOf(Labelled(items)) = IdsOf(items)
<1>1. \A j : PlacesOf(Labelled(items), j) = PlacesOf(items, j)
  BY LabelledIs DEF PlacesOf
<1>2. \A j : Keeps(items, Labelled(items), j)
  <2> TAKE j
  <2>1. \A k \in PlacesOf(items, j) : Alike(items[k], Labelled(items)[k])
    BY LabelledIs DEF PlacesOf
  <2> QED BY <1>1, <2>1, SamePlaces DEF AreItems
<1>3. IdsOf(Labelled(items)) = IdsOf(items)
  BY <1>1, PlacesAre
<1> QED BY <1>1, <1>2, <1>3

-----------------------------------------------------------------------------
(* Chains. What is above a cell is the least set that has it and what its  *)
(* members take their input from; a chain is as it was when its cells are. *)
LEMMA ClosureIs ==
    ASSUME NEW cells, NEW ids
    PROVE  /\ ids \subseteq Closure(cells, ids) /\ Closed(cells, Closure(cells, ids))
           /\ \A S : ids \subseteq S /\ Closed(cells, S) => Closure(cells, ids) \subseteq S
<1> DEFINE all == ids \cup IdsOf(cells) \cup UNION {InputsOf(cells, i) : i \in IdsOf(cells)}
           Above(S) == ids \subseteq S /\ Closed(cells, S)
<1>1. Closure(cells, ids) = {i \in all : \A S \in SUBSET all : Above(S) => i \in S}
  BY DEF Closure
<1>2. \A j : InputsOf(cells, j) \subseteq all
  <2>1. \A j : j \notin IdsOf(cells) => InputsOf(cells, j) = {}
    BY DEF InputsOf
  <2> QED BY <2>1
<1>3. ids \subseteq Closure(cells, ids)
  BY <1>1
<1>4. Closed(cells, Closure(cells, ids))
  <2> SUFFICES ASSUME NEW j \in Closure(cells, ids), NEW i \in InputsOf(cells, j)
               PROVE  i \in Closure(cells, ids)
    BY DEF Closed
  <2>1. i \in all
    BY <1>2
  <2>2. ASSUME NEW S \in SUBSET all, Above(S) PROVE i \in S
    <3>1. j \in S
      BY <1>1, <2>2
    <3> QED BY <2>2, <3>1 DEF Closed
  <2> QED BY <1>1, <2>1, <2>2
<1>5. ASSUME NEW S, ids \subseteq S, Closed(cells, S) PROVE Closure(cells, ids) \subseteq S
  <2> DEFINE T == S \cap all
  <2>1. Closed(cells, T)
    BY <1>2, <1>5 DEF Closed
  <2>2. ids \subseteq T /\ T \in SUBSET all
    BY <1>5
  <2> QED BY <1>1, <2>1, <2>2
<1> QED BY <1>3, <1>4, <1>5

LEMMA ClosureWithin ==
    ASSUME NEW cells, NEW ids, NEW j \in Closure(cells, ids)
    PROVE  /\ InputsOf(cells, j) \subseteq Closure(cells, ids)
           /\ Closure(cells, {j}) \subseteq Closure(cells, ids)
           /\ Closure(cells, InputsOf(cells, j)) \subseteq Closure(cells, ids)
<1>1. Closed(cells, Closure(cells, ids))
  BY ClosureIs
<1>2. InputsOf(cells, j) \subseteq Closure(cells, ids) /\ {j} \subseteq Closure(cells, ids)
  BY <1>1 DEF Closed
<1> QED BY <1>1, <1>2, ClosureIs

LEMMA ClosureAgrees ==
    ASSUME NEW c, NEW d, NEW ids,
           \A j \in Closure(c, ids) : InputsOf(d, j) = InputsOf(c, j)
    PROVE  Closure(d, ids) = Closure(c, ids)
<1>1. Closed(c, Closure(c, ids)) /\ ids \subseteq Closure(c, ids)
  BY ClosureIs
<1>2. Closed(d, Closure(c, ids))
  BY <1>1 DEF Closed
<1>3. Closure(d, ids) \subseteq Closure(c, ids)
  BY <1>1, <1>2, ClosureIs
<1>4. Closed(d, Closure(d, ids)) /\ ids \subseteq Closure(d, ids)
  BY ClosureIs
<1>5. Closed(c, Closure(d, ids))
  BY <1>3, <1>4 DEF Closed
<1> QED BY <1>3, <1>4, <1>5, ClosureIs

LEMMA KeepsInputs ==
    ASSUME NEW c, NEW d, NEW j, Keeps(c, d, j)
    PROVE  InputsOf(d, j) = InputsOf(c, j)
BY DEF Keeps, Alike, InputsOf

KeepsChain(c, d, i) == \A j \in Closure(c, {i}) : Keeps(c, d, j)

LEMMA ChainKept ==
    ASSUME NEW c, NEW d, NEW i, KeepsChain(c, d, i)
    PROVE  /\ Closure(d, {i}) = Closure(c, {i})
           /\ \A j \in Closure(c, {i}) : InputsOf(d, j) = InputsOf(c, j)
<1>1. \A j \in Closure(c, {i}) : InputsOf(d, j) = InputsOf(c, j)
  BY KeepsInputs DEF KeepsChain
<1>2. Closure(d, {i}) = Closure(c, {i})
  BY <1>1, ClosureAgrees
<1> QED BY <1>1, <1>2

LEMMA LoopsKept ==
    ASSUME NEW c, NEW d, NEW i, KeepsChain(c, d, i), NEW j \in Closure(c, {i})
    PROVE  Closure(d, InputsOf(d, j)) = Closure(c, InputsOf(c, j))
<1> DEFINE ids == InputsOf(c, j)
<1>1. \A k \in Closure(c, {i}) : InputsOf(d, k) = InputsOf(c, k)
  BY KeepsInputs DEF KeepsChain
<1>2. Closure(c, ids) \subseteq Closure(c, {i})
  BY ClosureWithin
<1>3. \A k \in Closure(c, ids) : InputsOf(d, k) = InputsOf(c, k)
  BY <1>1, <1>2
<1>4. Closure(d, ids) = Closure(c, ids)
  BY <1>3, ClosureAgrees
<1>5. InputsOf(d, j) = ids
  BY <1>1
<1> QED BY <1>4, <1>5

LEMMA CompilesStill ==
    ASSUME NEW c, NEW d, NEW i, KeepsChain(c, d, i), Compiles(c, i)
    PROVE  Compiles(d, i)
<1> DEFINE chain == Closure(c, {i})
<1>1. Closure(d, {i}) = chain
  BY ChainKept
<1>2. /\ chain \subseteq IdsOf(c)
      /\ \A j \in chain :
            /\ Find(c, j).flow # NoFlow /\ j \notin Closure(c, InputsOf(c, j))
            /\ Find(c, j).flow[1].refs = Find(c, j).inputs
            /\ Find(c, j).flow[1].needs \in Offered(c, j)
  BY DEF Compiles
<1>3. \A j \in chain :
         /\ j \in IdsOf(d) /\ Find(d, j).flow = Find(c, j).flow
         /\ Find(d, j).inputs = Find(c, j).inputs
  BY <1>2 DEF KeepsChain, Keeps, Alike
<1>4. ASSUME NEW j \in Closure(c, {i})
      PROVE  Closure(d, InputsOf(d, j)) = Closure(c, InputsOf(c, j))
  BY LoopsKept
<1>5. ASSUME NEW j \in chain PROVE Offered(d, j) = Offered(c, j)
  <2>1. Find(c, j).flow[1].refs \subseteq chain
    <3>1. InputsOf(c, j) \subseteq chain
      BY ClosureWithin
    <3>2. InputsOf(c, j) = Find(c, j).inputs
      BY <1>2 DEF InputsOf
    <3> QED BY <1>2, <3>1, <3>2
  <2> DEFINE refs == Find(c, j).flow[1].refs
  <2>2. refs = Find(d, j).flow[1].refs
    BY <1>3
  <2>3. \A k \in refs : Find(d, k).flow[1].makes = Find(c, k).flow[1].makes
    BY <1>3, <2>1
  <2>4. {Find(d, k).flow[1].makes : k \in refs} = {Find(c, k).flow[1].makes : k \in refs}
    BY <2>3
  <2> QED BY <2>2, <2>4 DEF Offered
<1>6. \A j \in chain :
         /\ Find(d, j).flow # NoFlow /\ j \notin Closure(d, InputsOf(d, j))
         /\ Find(d, j).flow[1].refs = Find(d, j).inputs
         /\ Find(d, j).flow[1].needs \in Offered(d, j)
  BY <1>2, <1>3, <1>4, <1>5
<1>7. chain \subseteq IdsOf(d)
  BY <1>3
<1> HIDE DEF chain
<1> QED BY <1>1, <1>6, <1>7 DEF Compiles

\* A viewer's run does not change with what is not above its cell.
LEMMA RunsStill ==
    ASSUME NEW c, NEW d, NEW i \in IdsOf(c), KeepsChain(c, d, i), CellRuns(c, i)
    PROVE  CellRuns(d, i)
<1>1. i \in Closure(c, {i})
  BY ClosureIs
<1>2. Find(d, i).flow = Find(c, i).flow
  BY <1>1 DEF KeepsChain, Keeps, Alike
<1> QED BY <1>2, CompilesStill DEF CellRuns

\* A request that touches one cell checks that cell and those below it.
LEMMA ChecksSuffice ==
    ASSUME NEW c, NEW d, NEW n, \A j : j # n => Keeps(d, c, j),
           \A i \in IdsOf(c) : CellRuns(c, i), CellsCompile(d, {n})
    PROVE  \A i \in IdsOf(d) : CellRuns(d, i)
<1> TAKE i \in IdsOf(d)
<1>1. CASE n \in Closure(d, {i})
  BY <1>1 DEF CellsCompile, Affected, CellRuns
<1>2. CASE n \notin Closure(d, {i})
  <2>1. KeepsChain(d, c, i)
    BY <1>2 DEF KeepsChain
  <2>2. Closure(c, {i}) = Closure(d, {i}) /\ i \in Closure(d, {i})
    BY <2>1, ChainKept, ClosureIs
  <2>3. KeepsChain(c, d, i) /\ i \in IdsOf(c)
    BY <2>1, <2>2 DEF KeepsChain, Keeps, Alike
  <2> QED BY <2>3, RunsStill
<1> QED BY <1>1, <1>2

-----------------------------------------------------------------------------
(* What a request makes of a book.                                         *)
NoneShared(items) == NoneTwice([k \in DOMAIN items |-> items[k].id])

ItemsHold(items, next) ==
    NoneShared(items) /\ \A i \in IdsOf(items) : CellRuns(items, i) /\ i < next

\* An item executes what it did, unless it was sent an instruction.
KeptAt(before, after, sent, i) ==
    LET body == IF i \in DOMAIN sent THEN sent[i] ELSE [title |-> ""]
        given == {f \in DOMAIN body \cap Instruction : body[f] # Unwritten[f]} IN
    /\ DOMAIN body \cap Instruction = {} => Executed(Find(after, i)) = Executed(Find(before, i))
    /\ \A f \in given : Find(after, i)[f] = body[f]

Kept(before, after, sent) ==
    \A i \in {before[k].id : k \in Alone(before)} \cap IdsOf(after) : KeptAt(before, after, sent, i)

Good(items, next, sent) ==
    /\ AreItems(items) /\ next \in Nat /\ (kind = "analysis" => ItemsHold(items, next))
    /\ Kept(book.items, items, sent)

LEMMA ItemIs ==
    ASSUME NEW i, NEW w
    PROVE  /\ Item(i, w).id = i /\ (i \in Nat => IsItem(Item(i, w)))
           /\ \A f \in Instruction : Item(i, w)[f] = w[f]
BY DEF Item, IsItem, Instruction

LEMMA MergedIs ==
    ASSUME NEW prior, NEW fields, NEW body, NEW f \in Instruction
    PROVE  /\ f \in DOMAIN body => Merged(prior, fields, body)[f] = body[f]
           /\ f \notin DOMAIN body /\ f \in fields => Merged(prior, fields, body)[f] = prior[f]
           /\ f \in DOMAIN Merged(prior, fields, body)
<1>1. f \in DOMAIN Unwritten
  BY DEF Unwritten, Instruction
<1> QED BY <1>1 DEF Merged

LEMMA AlikeIs ==
    ASSUME NEW x, NEW y
    PROVE  /\ Alike(x, y) <=> \A f \in Instruction : y[f] = x[f]
           /\ Alike(x, y) => Executed(y) = Executed(x)
<1>1. Alike(x, y) <=> \A f \in Instruction : y[f] = x[f]
  BY DEF Alike, Instruction
<1>2. Alike(x, y) => Executed(y) = Executed(x)
  BY DEF Alike, Executed
<1> QED BY <1>1, <1>2

LEMMA KeptUnsent ==
    ASSUME NEW before, NEW after, NEW sent, NEW i,
           i \notin DOMAIN sent, Alike(Find(before, i), Find(after, i))
    PROVE  KeptAt(before, after, sent, i)
<1>1. DOMAIN [title |-> ""] \cap Instruction = {}
  BY DEF Instruction
<1> QED BY <1>1, AlikeIs DEF KeptAt

LEMMA KeptSent ==
    ASSUME NEW before, NEW after, NEW sent, NEW i \in DOMAIN sent, NEW prior, NEW fields, NEW j,
           Alike(Find(before, i), prior), Instruction \subseteq fields,
           Find(after, i) = Item(j, Merged(prior, fields, sent[i]))
    PROVE  KeptAt(before, after, sent, i)
<1> DEFINE body == sent[i]
           x == Find(after, i)
<1>1. \A f \in Instruction :
         /\ f \in DOMAIN body => x[f] = body[f]
         /\ f \notin DOMAIN body => x[f] = prior[f]
  BY ItemIs, MergedIs
<1>2. ASSUME DOMAIN body \cap Instruction = {} PROVE Executed(x) = Executed(Find(before, i))
  <2>1. \A f \in Instruction : x[f] = prior[f]
    BY <1>1, <1>2
  <2>2. Alike(prior, x)
    BY <2>1, AlikeIs
  <2>3. Alike(Find(before, i), x)
    BY <2>2 DEF Alike
  <2> QED BY <2>3, AlikeIs
<1> QED BY <1>1, <1>2 DEF KeptAt

LEMMA LabelsGood ==
    ASSUME NEW before, NEW items, NEW next, NEW sent, AreItems(items), Kept(before, items, sent)
    PROVE  /\ Kept(before, Labelled(items), sent)
           /\ ItemsHold(items, next) => ItemsHold(Labelled(items), next)
<1> DEFINE l == Labelled(items)
<1>1. /\ IdsOf(l) = IdsOf(items) /\ \A j : Keeps(items, l, j)
      /\ DOMAIN l = DOMAIN items /\ \A k \in DOMAIN items : l[k].id = items[k].id
  BY LabelledKeeps, LabelledIs
<1> HIDE DEF l
<1>2. \A j \in IdsOf(items) : Alike(Find(items, j), Find(l, j))
  BY <1>1 DEF Keeps
<1>3. Kept(before, l, sent)
  <2> SUFFICES ASSUME NEW i \in {before[k].id : k \in Alone(before)} \cap IdsOf(items)
               PROVE  KeptAt(before, l, sent, i)
    BY <1>1 DEF Kept
  <2>1. KeptAt(before, items, sent, i)
    BY DEF Kept
  <2>2. Executed(Find(l, i)) = Executed(Find(items, i))
    BY <1>2, AlikeIs
  <2>3. \A f \in Instruction : Find(l, i)[f] = Find(items, i)[f]
    BY <1>2, AlikeIs
  <2> QED BY <2>1, <2>2, <2>3 DEF KeptAt
<1>4. ASSUME ItemsHold(items, next) PROVE ItemsHold(l, next)
  <2>1. \A i \in IdsOf(l) : i < next
    BY <1>1, <1>4 DEF ItemsHold
  <2>2. \A i \in IdsOf(l) : CellRuns(l, i)
    <3> TAKE i \in IdsOf(l)
    <3>1. KeepsChain(items, l, i) /\ i \in IdsOf(items) /\ CellRuns(items, i)
      BY <1>1, <1>4 DEF KeepsChain, ItemsHold
    <3> QED BY <3>1, RunsStill
  <2>3. NoneShared(l)
    BY <1>1, <1>4 DEF ItemsHold, NoneShared, NoneTwice
  <2> QED BY <2>1, <2>2, <2>3 DEF ItemsHold
<1> QED BY <1>3, <1>4 DEF l

-----------------------------------------------------------------------------
(* What is left without an item: the others, once each.                    *)
LeftIn(items, i, m) ==
    LET kept[n \in 0..Len(items)] ==
            IF n = 0 THEN <<>>
            ELSE IF items[n].id = i THEN kept[n - 1] ELSE Append(kept[n - 1], items[n])
    IN  kept[m]

LeftNext(items, i, n, o) == IF items[n].id = i THEN o ELSE Append(o, items[n])

LEMMA LeftIs ==
    ASSUME NEW items, IsList(items), NEW i
    PROVE  /\ LeftIn(items, i, 0) = <<>>
           /\ \A n \in 1..Len(items) :
                 LeftIn(items, i, n) = LeftNext(items, i, n, LeftIn(items, i, n - 1))
<1> DEFINE N == Len(items)
<1>1. PICK V : items \in Seq(V)
  BY DEF IsList
<1> DEFINE S == Seq(V)
           G == [m \in Nat |-> [o \in S |-> IF m \in 1..N THEN LeftNext(items, i, m, o) ELSE o]]
           IsIt(f) == f = [m \in 0..N |->
                            IF m = 0 THEN <<>>
                            ELSE IF items[m].id = i THEN f[m - 1] ELSE Append(f[m - 1], items[m])]
           it == CHOOSE f : IsIt(f)
<1>2. N \in Nat /\ \A m \in 1..N : items[m] \in V
  BY <1>1
<1>3. <<>> \in S /\ \A m \in 1..N, o \in S : LeftNext(items, i, m, o) \in S
  BY <1>2 DEF LeftNext
<1> HIDE DEF S, N
<1>4. G \in [Nat -> [S -> S]]
  BY <1>3
<1>5. \A m \in 1..N, o \in S : G[m][o] = LeftNext(items, i, m, o)
  BY <1>2
<1> HIDE DEF G
<1>6. PICK g : Unrolled(S, <<>>, G, N, g)
  BY <1>2, <1>3, <1>4, UnrolledExists
<1>7. IsIt(g)
  <2>1. g \in [0..N -> S] /\ g[0] = <<>> /\ \A m \in 1..N : g[m] = G[m][g[m - 1]]
    BY <1>6, Zenon DEF Unrolled
  <2>2. ASSUME NEW m \in 1..N PROVE g[m] = LeftNext(items, i, m, g[m - 1])
    <3>1. m - 1 \in 0..N
      BY <1>2
    <3> QED BY <1>5, <2>1, <3>1
  <2>3. \A m \in 0..N : m = 0 \/ m \in 1..N
    BY <1>2
  <2>4. \A m \in 0..N : g[m] = IF m = 0 THEN <<>>
                               ELSE IF items[m].id = i THEN g[m - 1] ELSE Append(g[m - 1], items[m])
    BY <1>2, <2>1, <2>2, <2>3 DEF LeftNext
  <2> QED BY <2>1, <2>4
<1>8. IsIt(it)
  BY <1>7, Zenon
<1>9. \A n : LeftIn(items, i, n) = it[n]
  BY DEF LeftIn, it, N
<1> HIDE DEF it
<1>10. \A m \in 0..N : it[m] = IF m = 0 THEN <<>>
                               ELSE IF items[m].id = i THEN it[m - 1] ELSE Append(it[m - 1], items[m])
  BY <1>8
<1>11. LeftIn(items, i, 0) = <<>>
  BY <1>2, <1>9, <1>10
<1>12. \A n \in 1..N : LeftIn(items, i, n) = LeftNext(items, i, n, LeftIn(items, i, n - 1))
  <2> TAKE n \in 1..N
  <2>1. n \in 0..N /\ n # 0
    BY <1>2
  <2> QED BY <1>9, <1>10, <2>1 DEF LeftNext
<1> QED BY <1>11, <1>12 DEF N

\* Its places are those of the others.
PlacedOnto(items, i, n, w, h) ==
    /\ h \in [DOMAIN w -> 1..n]
    /\ \A k \in DOMAIN w : w[k] = items[h[k]] /\ items[h[k]].id # i
    /\ \A j, k \in DOMAIN w : h[j] = h[k] => j = k
    /\ \A m \in 1..n : items[m].id # i => \E k \in DOMAIN w : h[k] = m

LEMMA LeftAre ==
    ASSUME NEW items, IsList(items), NEW i
    PROVE  LET w == LeftIn(items, i, Len(items)) IN
           IsList(w) /\ \E h : PlacedOnto(items, i, Len(items), w, h)
<1> DEFINE N == Len(items)
           w(n) == LeftIn(items, i, n)
           T == {n \in Nat : n <= N => IsList(w(n)) /\ \E h : PlacedOnto(items, i, n, w(n), h)}
<1>1. N \in Nat /\ DOMAIN items = 1..N
  BY ListIs
<1>2. /\ w(0) = <<>>
      /\ \A n \in 1..N : w(n) = LeftNext(items, i, n, w(n - 1))
  BY LeftIs
<1> HIDE DEF w, N
<1>3. 0 \in T
  <2>1. IsList(<<>>)
    <3>1. <<>> \in Seq({})
      OBVIOUS
    <3> QED BY <3>1 DEF IsList
  <2>2. PlacedOnto(items, i, 0, <<>>, [k \in {} |-> 1])
    BY DEF PlacedOnto
  <2> QED BY <1>2, <2>1, <2>2
<1>4. ASSUME NEW n \in Nat, n \in T PROVE n + 1 \in T
  <2> SUFFICES ASSUME n + 1 <= N
               PROVE  IsList(w(n + 1)) /\ \E h : PlacedOnto(items, i, n + 1, w(n + 1), h)
    OBVIOUS
  <2>1. n + 1 \in 1..N /\ (n + 1) - 1 = n /\ n <= N
    BY <1>1
  <2>2. w(n + 1) = LeftNext(items, i, n + 1, w(n))
    BY <1>2, <2>1
  <2>3. IsList(w(n))
    BY <1>4, <2>1
  <2>4. PICK h : PlacedOnto(items, i, n, w(n), h)
    BY <1>4, <2>1
  <2>5. CASE items[n + 1].id = i
    <3>1. w(n + 1) = w(n)
      BY <2>2, <2>5 DEF LeftNext
    <3>2. PlacedOnto(items, i, n + 1, w(n), h)
      BY <2>4, <2>5 DEF PlacedOnto
    <3> QED BY <2>3, <3>1, <3>2
  <2>6. CASE items[n + 1].id # i
    <3> DEFINE t == w(n + 1)
               last == Len(w(n)) + 1
               g == [k \in DOMAIN t |-> IF k = last THEN n + 1 ELSE h[k]]
    <3>1. t = Append(w(n), items[n + 1])
      BY <2>2, <2>6 DEF LeftNext
    <3>2. /\ IsList(t) /\ DOMAIN t = DOMAIN w(n) \cup {last} /\ last \notin DOMAIN w(n)
          /\ t[last] = items[n + 1] /\ \A k \in DOMAIN w(n) : t[k] = w(n)[k]
      <4> DEFINE o == w(n)
                 x == items[n + 1]
      <4>1. IsList(o) /\ t = Append(o, x)
        BY <2>3, <3>1
      <4> HIDE DEF o, x, t
      <4>2. /\ IsList(t) /\ DOMAIN t = DOMAIN o \cup {Len(o) + 1}
            /\ Len(o) + 1 \notin DOMAIN o
            /\ t[Len(o) + 1] = x /\ \A k \in DOMAIN o : t[k] = o[k]
        BY <4>1, AppendIs
      <4> QED BY <4>2 DEF o, x
    <3> HIDE DEF t, last
    <3>3. /\ g[last] = n + 1 /\ DOMAIN g = DOMAIN t
          /\ \A k \in DOMAIN w(n) : g[k] = h[k] /\ g[k] \in 1..n
      BY <2>4, <3>2 DEF PlacedOnto
    <3>4. g \in [DOMAIN t -> 1..(n + 1)]
      BY <3>2, <3>3
    <3> HIDE DEF g
    <3>5. \A k \in DOMAIN t : t[k] = items[g[k]] /\ items[g[k]].id # i
      BY <2>4, <2>6, <3>2, <3>3 DEF PlacedOnto
    <3>6. \A j, k \in DOMAIN t : g[j] = g[k] => j = k
      BY <2>4, <3>2, <3>3 DEF PlacedOnto
    <3>7. \A m \in 1..(n + 1) : items[m].id # i => \E k \in DOMAIN t : g[k] = m
      <4> SUFFICES ASSUME NEW m \in 1..(n + 1), items[m].id # i PROVE \E k \in DOMAIN t : g[k] = m
        OBVIOUS
      <4>1. CASE m = n + 1
        BY <3>2, <3>3, <4>1
      <4>2. CASE m \in 1..n
        BY <2>4, <3>2, <3>3, <4>2 DEF PlacedOnto
      <4> QED BY <4>1, <4>2
    <3>8. PlacedOnto(items, i, n + 1, t, g)
      BY <3>4, <3>5, <3>6, <3>7 DEF PlacedOnto
    <3> QED BY <3>2, <3>8 DEF t
  <2> QED BY <2>5, <2>6
<1> HIDE DEF T
<1>5. Nat \subseteq T
  BY <1>3, <1>4, Induct
<1> QED BY <1>1, <1>5 DEF T, w, N

\* What an id had to itself it keeps, and nothing else is there.
LEMMA WithoutKeeps ==
    ASSUME NEW i, AreItems(book.items)
    PROVE  LET w == Without(i) IN
           /\ AreItems(w) /\ IdsOf(w) = IdsOf(book.items) \ {i}
           /\ \A k \in Alone(book.items) : book.items[k].id # i =>
                 Keeps(book.items, w, book.items[k].id)
           /\ NoneShared(book.items) => NoneShared(w)
<1> DEFINE items == book.items
           w == Without(i)
<1>1. w = LeftIn(items, i, Len(items))
  BY DEF Without, LeftIn
<1> HIDE DEF w
<1>2. IsList(items) /\ \A k \in DOMAIN items : IsItem(items[k])
  BY DEF AreItems
<1> HIDE DEF items
<1>3. PICK h : IsList(w) /\ PlacedOnto(items, i, Len(items), w, h)
  BY <1>1, <1>2, LeftAre
<1>4. /\ \A k \in DOMAIN w : h[k] \in DOMAIN items /\ w[k] = items[h[k]] /\ items[h[k]].id # i
      /\ \A j, k \in DOMAIN w : h[j] = h[k] => j = k
      /\ \A m \in DOMAIN items : items[m].id # i => \E k \in DOMAIN w : h[k] = m
  <2>1. DOMAIN items = 1..Len(items)
    BY <1>2, ListIs
  <2> QED BY <1>3, <2>1 DEF PlacedOnto
<1>5. AreItems(w)
  BY <1>2, <1>3, <1>4 DEF AreItems
<1>6. IdsOf(w) = IdsOf(items) \ {i}
  BY <1>4 DEF IdsOf
<1>7. ASSUME NEW k \in Alone(items), items[k].id # i PROVE Keeps(items, w, items[k].id)
  <2>1. k \in DOMAIN items /\ \A j \in DOMAIN items : items[j].id = items[k].id => j = k
    BY DEF Alone
  <2>2. PICK p \in DOMAIN w : h[p] = k
    BY <1>4, <1>7, <2>1
  <2>3. p \in Alone(w) /\ w[p] = items[k]
    BY <1>4, <2>1, <2>2 DEF Alone
  <2>4. Find(w, w[p].id) = w[p] /\ Find(items, items[k].id) = items[k]
    BY <1>2, <1>3, <2>3, FindOnly
  <2>5. items[k].id \in IdsOf(items) /\ items[k].id \in IdsOf(w)
    BY <2>1, <2>3 DEF IdsOf, Alone
  <2> QED BY <2>3, <2>4, <2>5 DEF Keeps, Alike
<1>8. ASSUME NoneShared(items) PROVE NoneShared(w)
  <2>1. \A j, k \in DOMAIN items : items[j].id = items[k].id => j = k
    BY <1>8 DEF NoneShared, NoneTwice
  <2>2. \A j, k \in DOMAIN w : w[j].id = w[k].id => j = k
    BY <1>4, <2>1
  <2> QED BY <2>2 DEF NoneShared, NoneTwice
<1> QED BY <1>5, <1>6, <1>7, <1>8 DEF w, items

-----------------------------------------------------------------------------
(* Lists that requests make of the stored one.                             *)
LEMMA NoneSharedIs ==
    ASSUME NEW items
    PROVE  /\ NoneShared(items) <=>
                 \A j, k \in DOMAIN items : items[j].id = items[k].id => j = k
           /\ NoneShared(items) => Alone(items) = DOMAIN items
<1> DEFINE ids == [k \in DOMAIN items |-> items[k].id]
<1>1. NoneShared(items) <=> NoneTwice(ids)
  BY DEF NoneShared
<1>2. DOMAIN ids = DOMAIN items /\ \A k \in DOMAIN items : ids[k] = items[k].id
  OBVIOUS
<1> HIDE DEF ids
<1>3. NoneShared(items) <=> \A j, k \in DOMAIN items : items[j].id = items[k].id => j = k
  BY <1>1, <1>2 DEF NoneTwice
<1> QED BY <1>3 DEF Alone

LEMMA KeepsBack ==
    ASSUME NEW c, NEW d, NEW j, Keeps(c, d, j)
    PROVE  Keeps(d, c, j)
BY DEF Keeps, Alike

LEMMA AppendedIs ==
    ASSUME NEW items, AreItems(items), NEW i \in Nat \ IdsOf(items), NEW w
    PROVE  LET t == Append(items, Item(i, w)) IN
           /\ AreItems(t) /\ IdsOf(t) = IdsOf(items) \cup {i}
           /\ \A j : j # i => Keeps(items, t, j)
           /\ NoneShared(items) => NoneShared(t)
<1> DEFINE x == Item(i, w)
           t == Append(items, x)
           n == Len(items) + 1
<1>1. x.id = i /\ IsItem(x)
  BY ItemIs
<1> HIDE DEF x
<1>2. /\ IsList(t) /\ DOMAIN t = DOMAIN items \cup {n} /\ n \notin DOMAIN items
      /\ t[n] = x /\ \A k \in DOMAIN items : t[k] = items[k]
  BY AppendIs DEF AreItems
<1> HIDE DEF t, n
<1>3. AreItems(t)
  BY <1>1, <1>2 DEF AreItems
<1>4. IdsOf(t) = IdsOf(items) \cup {i}
  BY <1>1, <1>2 DEF IdsOf
<1>5. ASSUME NEW j, j # i PROVE Keeps(items, t, j)
  <2>1. PlacesOf(t, j) = PlacesOf(items, j)
    BY <1>1, <1>2, <1>5 DEF PlacesOf
  <2>2. \A k \in PlacesOf(items, j) : Alike(items[k], t[k])
    BY <1>2 DEF PlacesOf, Alike
  <2> QED BY <2>1, <2>2, SamePlaces DEF AreItems
<1>6. ASSUME NoneShared(items) PROVE NoneShared(t)
  <2>1. \A k \in DOMAIN items : items[k].id # i
    BY DEF IdsOf
  <2>2. \A j, k \in DOMAIN t : t[j].id = t[k].id => j = k
    BY <1>1, <1>2, <1>6, <2>1, NoneSharedIs
  <2> QED BY <2>2, NoneSharedIs
<1> QED BY <1>3, <1>4, <1>5, <1>6 DEF t, x

LEMMA ReplacedIs ==
    ASSUME AreItems(book.items), NEW i \in IdsOf(book.items), NEW w
    PROVE  LET r == Replaced(i, Item(i, w)) IN
           /\ AreItems(r) /\ IdsOf(r) = IdsOf(book.items) /\ Find(r, i) = Item(i, w)
           /\ \A j : j # i => Keeps(book.items, r, j)
           /\ NoneShared(book.items) => NoneShared(r)
<1> DEFINE items == book.items
           x == Item(i, w)
           r == Replaced(i, x)
<1>1. /\ DOMAIN r = DOMAIN items
      /\ \A k \in DOMAIN items : r[k] = IF items[k].id = i THEN x ELSE items[k]
  BY DEF Replaced
<1>2. i \in Nat
  BY DEF AreItems, IsItem, IdsOf
<1>3. x.id = i /\ IsItem(x)
  BY <1>2, ItemIs
<1>4. IsList(items) /\ \A k \in DOMAIN items : IsItem(items[k])
  BY DEF AreItems
<1>5. r = [k \in DOMAIN items |-> r[k]]
  BY DEF Replaced
<1>6. i \in IdsOf(items)
  OBVIOUS
<1> HIDE DEF x, r, items
<1>7. IsList(r)
  <2>1. Len(items) \in Nat /\ DOMAIN items = 1..Len(items)
    BY <1>4, ListIs
  <2> DEFINE S == {r[k] : k \in DOMAIN items}
  <2>2. r \in [1..Len(items) -> S]
    BY <1>5, <2>1
  <2> QED BY <2>1, <2>2, ListOf
<1>8. AreItems(r) /\ \A k \in DOMAIN items : r[k].id = items[k].id
  BY <1>1, <1>3, <1>4, <1>7 DEF AreItems
<1>9. IdsOf(r) = IdsOf(items) /\ \A j : PlacesOf(r, j) = PlacesOf(items, j)
  BY <1>1, <1>8 DEF IdsOf, PlacesOf
<1>10. Find(r, i) = x
  <2>1. i \in IdsOf(r)
    BY <1>6, <1>9
  <2>2. PICK k \in PlacesOf(r, i) : Find(r, i) = r[k]
    BY <1>7, <2>1, FindIs
  <2>3. k \in DOMAIN items /\ items[k].id = i
    BY <1>9 DEF PlacesOf
  <2> QED BY <1>1, <2>2, <2>3
<1>11. ASSUME NEW j, j # i PROVE Keeps(items, r, j)
  <2>1. \A k \in PlacesOf(items, j) : Alike(items[k], r[k])
    BY <1>1, <1>11 DEF PlacesOf, Alike
  <2> QED BY <1>4, <1>9, <2>1, SamePlaces
<1>12. NoneShared(items) => NoneShared(r)
  BY <1>1, <1>8, NoneSharedIs
<1> QED BY <1>8, <1>9, <1>10, <1>11, <1>12 DEF r, x, items

Inherited == IF kind = "analysis" THEN DOMAIN Unwritten ELSE Instruction

\* A whole list has its ids, and keeps what is not sent of the stored items.
LEMMA MergedListIs ==
    ASSUME NEW list, IsList(list), NEW ids, DOMAIN ids = DOMAIN list,
           \A k \in DOMAIN list : ids[k] \in Nat
    PROVE  LET m == MergedList(ids, list) IN
           /\ AreItems(m) /\ DOMAIN m = DOMAIN list
           /\ \A k \in DOMAIN list : m[k].id = ids[k]
           /\ Instruction \subseteq Inherited /\ \A k \in DOMAIN list :
                 m[k] = Item(ids[k], Merged(Prior(book.items, ids[k], k), Inherited, list[k].body))
<1> DEFINE m == MergedList(ids, list)
           w(k) == Merged(Prior(book.items, ids[k], k), Inherited, list[k].body)
<1>1. Instruction \subseteq Inherited
  BY DEF Instruction, Unwritten, Inherited
<1>2. m = [k \in DOMAIN list |-> Item(ids[k], w(k))]
  BY DEF MergedList, Inherited
<1> HIDE DEF m, w
<1>3. DOMAIN m = DOMAIN list /\ \A k \in DOMAIN list : m[k] = Item(ids[k], w(k))
  BY <1>2
<1>4. \A k \in DOMAIN list : m[k].id = ids[k] /\ IsItem(m[k])
  BY <1>3, ItemIs
<1>5. IsList(m)
  <2>1. Len(list) \in Nat /\ DOMAIN list = 1..Len(list)
    BY ListIs
  <2> DEFINE S == {m[k] : k \in DOMAIN list}
  <2>2. m \in [1..Len(list) -> S]
    BY <1>2, <2>1
  <2> QED BY <2>1, <2>2, ListOf
<1>6. AreItems(m)
  BY <1>3, <1>4, <1>5 DEF AreItems
<1>7. \A k \in DOMAIN list :
         m[k] = Item(ids[k], Merged(Prior(book.items, ids[k], k), Inherited, list[k].body))
  BY <1>3 DEF w
<1> QED BY <1>1, <1>3, <1>4, <1>6, <1>7 DEF m

LEMMA MergedListKept ==
    ASSUME AreItems(book.items), NEW list, IsList(list), NEW ids, DOMAIN ids = DOMAIN list,
           \A k \in DOMAIN list : ids[k] \in Nat, NEW sent,
           NEW m, m = MergedList(ids, list), DOMAIN sent = IdsOf(m),
           \A i \in IdsOf(m) : \E k \in PlacesOf(m, i) : Find(m, i) = m[k] /\ sent[i] = list[k].body
    PROVE  Kept(book.items, m, sent)
<1> SUFFICES ASSUME NEW k0 \in Alone(book.items), book.items[k0].id \in IdsOf(m)
             PROVE  KeptAt(book.items, m, sent, book.items[k0].id)
  BY DEF Kept
<1> DEFINE i == book.items[k0].id
<1>1. PICK k \in PlacesOf(m, i) : Find(m, i) = m[k] /\ sent[i] = list[k].body
  OBVIOUS
<1>2. /\ DOMAIN m = DOMAIN list /\ Instruction \subseteq Inherited
      /\ \A n \in DOMAIN list :
            /\ m[n].id = ids[n]
            /\ m[n] = Item(ids[n], Merged(Prior(book.items, ids[n], n), Inherited, list[n].body))
  BY MergedListIs
<1>3. k \in DOMAIN list /\ ids[k] = i
  BY <1>1, <1>2 DEF PlacesOf
<1>4. Prior(book.items, i, k) = book.items[k0] /\ Find(book.items, i) = book.items[k0]
  BY FindOnly DEF AreItems
<1>5. Find(m, i) = Item(i, Merged(book.items[k0], Inherited, sent[i]))
  BY <1>1, <1>2, <1>3, <1>4
<1>6. Alike(Find(book.items, i), book.items[k0]) /\ i \in DOMAIN sent
  BY <1>4 DEF Alike
<1> HIDE DEF i
<1>7. KeptAt(book.items, m, sent, i)
  BY <1>2, <1>5, <1>6, KeptSent
<1> QED BY <1>7 DEF i

LEMMA BoundedIs ==
    ASSUME NEW n \in Nat, NEW f, \A k \in 1..n : f[k] \in Nat
    PROVE  \E b \in Nat : \A k \in 1..n : f[k] <= b
<1> DEFINE T == {m \in Nat : m <= n => \E b \in Nat : \A k \in 1..m : f[k] <= b}
<1>1. 0 \in T
  OBVIOUS
<1>2. ASSUME NEW m \in Nat, m \in T PROVE m + 1 \in T
  <2> SUFFICES ASSUME m + 1 <= n PROVE \E b \in Nat : \A k \in 1..(m + 1) : f[k] <= b
    OBVIOUS
  <2>1. PICK b \in Nat : \A k \in 1..m : f[k] <= b
    BY <1>2
  <2>2. f[m + 1] \in Nat
    OBVIOUS
  <2> DEFINE c == IF f[m + 1] <= b THEN b ELSE f[m + 1]
  <2>3. c \in Nat /\ \A k \in 1..(m + 1) : f[k] <= c
    <3>1. c \in Nat /\ b <= c /\ f[m + 1] <= c
      BY <2>2
    <3> HIDE DEF c
    <3>2. ASSUME NEW k \in 1..(m + 1) PROVE f[k] <= c
      <4>1. CASE k = m + 1
        BY <3>1, <4>1
      <4>2. CASE k \in 1..m
        <5>1. f[k] \in Nat /\ f[k] <= b
          BY <2>1, <4>2
        <5> QED BY <3>1, <5>1
      <4> QED BY <4>1, <4>2
    <3> QED BY <3>1, <3>2
  <2> QED BY <2>3
<1> HIDE DEF T
<1>3. Nat \subseteq T
  BY <1>1, <1>2, Induct
<1>4. n \in T /\ n <= n
  BY <1>3
<1> QED BY <1>4 DEF T

-----------------------------------------------------------------------------
(* The inductive invariant: what is stored holds, and what a request is    *)
(* about to store does, whatever is stored by then.                        *)
BookOk(b) ==
    AreItems(b.items) /\ b.next \in Nat /\ (kind = "analysis" => ItemsHold(b.items, b.next))

FrameOk(q) == BookOk(q.row) /\ Kept(q.seen.items, q.row.items, q.sent)

WorkbooksInv ==
    /\ kind \in {"dashboard", "analysis"} /\ DOMAIN change = Editors
    /\ BookOk(book) /\ \A e \in Editors : FrameOk(change[e])

Proper(e) == \E items, next, sent : Accept(e, items, next, sent) /\ Good(items, next, sent)

LEMMA StoredHolds ==
    ASSUME WorkbooksInv
    PROVE  /\ AreItems(book.items) /\ book.next \in Nat
           /\ kind = "analysis" =>
                 /\ \A i \in IdsOf(book.items) : i \in Nat /\ i < book.next /\ CellRuns(book.items, i)
                 /\ NoneShared(book.items)
<1>1. \A i \in IdsOf(book.items) : i \in Nat
  BY DEF WorkbooksInv, BookOk, AreItems, IsItem, IdsOf
<1> QED BY <1>1 DEF WorkbooksInv, BookOk, ItemsHold

LEMMA SentIs ==
    ASSUME NEW i, NEW body
    PROVE  DOMAIN Sent(i, body) = {i} /\ Sent(i, body)[i] = body
BY DEF Sent

\* What was not touched is kept.
LEMMA OthersKept ==
    ASSUME NEW before, AreItems(before), NEW after, NEW sent, NEW i,
           \A k \in Alone(before) : before[k].id # i => Keeps(before, after, before[k].id),
           DOMAIN sent \subseteq {i},
           i \in {before[k].id : k \in Alone(before)} \cap IdsOf(after) => KeptAt(before, after, sent, i)
    PROVE  Kept(before, after, sent)
<1> SUFFICES ASSUME NEW k \in Alone(before), before[k].id \in IdsOf(after), before[k].id # i
             PROVE  KeptAt(before, after, sent, before[k].id)
  BY DEF Kept
<1>1. before[k].id \in IdsOf(before)
  BY FindOnly DEF AreItems
<1>2. Alike(Find(before, before[k].id), Find(after, before[k].id))
  BY <1>1 DEF Keeps
<1> QED BY <1>2, KeptUnsent

LEMMA WholeKept ==
    ASSUME NEW before, NEW after, NEW i, NEW body, Find(after, i) = Item(i, Whole(body))
    PROVE  KeptAt(before, after, Sent(i, Whole(body)), i)
<1> DEFINE w == Whole(body)
           sent == Sent(i, w)
<1>1. i \in DOMAIN sent /\ sent[i] = w
  BY SentIs
<1>2. "sql" \in DOMAIN w /\ "sql" \in Instruction
  <2>1. "sql" \in Instruction
    BY DEF Instruction
  <2> QED BY <2>1, MergedIs DEF Whole
<1> HIDE DEF w, sent
<1>3. \A f \in Instruction : Find(after, i)[f] = w[f]
  BY ItemIs DEF w
<1>4. KeptAt(before, after, sent, i)
  BY <1>1, <1>2, <1>3 DEF KeptAt
<1> QED BY <1>4 DEF sent, w

LEMMA AddPanelProper ==
    ASSUME WorkbooksInv, NEW e, AddPanel(e)
    PROVE  Proper(e)
<1>1. PICK i \in 1..MaxItems, body \in Bodies["dashboard"] :
         /\ kind = "dashboard" /\ i \notin IdsOf(book.items)
         /\ Accept(e, Append(book.items, Item(i, Whole(body))), 1, Sent(i, Whole(body)))
  BY DEF AddPanel, Exists
<1> DEFINE t == Append(book.items, Item(i, Whole(body)))
           sent == Sent(i, Whole(body))
<1>2. i \in Nat \ IdsOf(book.items) /\ AreItems(book.items)
  <2>1. MaxItems \in Nat
    BY WorkbooksAssumption
  <2> QED BY <1>1, <2>1, StoredHolds
<1>3. AreItems(t) /\ \A j : j # i => Keeps(book.items, t, j)
  BY <1>2, AppendedIs
<1>4. DOMAIN sent = {i}
  BY SentIs
<1>5. i \notin {book.items[k].id : k \in Alone(book.items)}
  BY <1>2, FindOnly DEF AreItems
<1> HIDE DEF t, sent
<1>6. Kept(book.items, t, sent)
  BY <1>2, <1>3, <1>4, <1>5, OthersKept
<1>7. Good(t, 1, sent)
  BY <1>1, <1>3, <1>6 DEF Good
<1> QED BY <1>1, <1>7 DEF Proper, t, sent

LEMMA UpdatePanelProper ==
    ASSUME WorkbooksInv, NEW e, UpdatePanel(e)
    PROVE  Proper(e)
<1>1. PICK i \in IdsOf(book.items), body \in Bodies["dashboard"] :
         /\ kind = "dashboard"
         /\ Accept(e, Replaced(i, Item(i, Whole(body))), 1, Sent(i, Whole(body)))
  BY DEF UpdatePanel, Exists
<1> DEFINE r == Replaced(i, Item(i, Whole(body)))
           sent == Sent(i, Whole(body))
<1>2. AreItems(book.items)
  BY StoredHolds
<1>3. AreItems(r) /\ Find(r, i) = Item(i, Whole(body)) /\ \A j : j # i => Keeps(book.items, r, j)
  BY <1>2, ReplacedIs
<1>4. DOMAIN sent = {i} /\ KeptAt(book.items, r, sent, i)
  BY <1>3, SentIs, WholeKept
<1> HIDE DEF r, sent
<1>5. Kept(book.items, r, sent)
  BY <1>2, <1>3, <1>4, OthersKept
<1>6. Good(r, 1, sent)
  BY <1>1, <1>3, <1>5 DEF Good
<1> QED BY <1>1, <1>6 DEF Proper, r, sent

LEMMA WithoutKept ==
    ASSUME NEW i, AreItems(book.items)
    PROVE  Kept(book.items, Without(i), <<>>)
<1>1. /\ IdsOf(Without(i)) = IdsOf(book.items) \ {i}
      /\ \A k \in Alone(book.items) : book.items[k].id # i =>
            Keeps(book.items, Without(i), book.items[k].id)
  BY WithoutKeeps
<1>2. DOMAIN <<>> \subseteq {i}
  OBVIOUS
<1> QED BY <1>1, <1>2, OthersKept

LEMMA DeletePanelProper ==
    ASSUME WorkbooksInv, NEW e, DeletePanel(e)
    PROVE  Proper(e)
<1>1. PICK i \in IdsOf(book.items) : kind = "dashboard" /\ Accept(e, Without(i), 1, <<>>)
  BY DEF DeletePanel, Exists
<1>2. AreItems(Without(i)) /\ Kept(book.items, Without(i), <<>>)
  BY StoredHolds, WithoutKeeps, WithoutKept
<1> QED BY <1>1, <1>2 DEF Proper, Good

LEMMA ListsAre ==
    ASSUME NEW k \in {"dashboard", "analysis"}, NEW list \in Lists[k]
    PROVE  IsList(list) /\ Len(list) \in Nat /\ \A j \in DOMAIN list : list[j].id \in Nat
<1> DEFINE B == {list[j].body : j \in DOMAIN list}
           E == [id : Nat, body : B]
<1>1. list \in Seq(E)
  BY WorkbooksAssumption
<1>2. \A x \in E : x.id \in Nat
  OBVIOUS
<1> HIDE DEF E
<1> QED BY <1>1, <1>2 DEF IsList

LEMMA PutDashboardProper ==
    ASSUME WorkbooksInv, NEW e, PutDashboard(e)
    PROVE  Proper(e)
<1>1. PICK list \in Lists["dashboard"] :
         /\ kind = "dashboard"
         /\ Accept(e, MergedList([k \in DOMAIN list |-> list[k].id], list), 1,
                   [i \in {list[k].id : k \in DOMAIN list} |-> Find(list, i).body])
  BY DEF PutDashboard
<1> DEFINE ids == [k \in DOMAIN list |-> list[k].id]
           m == MergedList(ids, list)
           sent == [i \in {list[k].id : k \in DOMAIN list} |-> Find(list, i).body]
<1>2. IsList(list) /\ \A k \in DOMAIN list : list[k].id \in Nat
  BY ListsAre
<1>3. DOMAIN ids = DOMAIN list /\ \A k \in DOMAIN list : ids[k] = list[k].id /\ ids[k] \in Nat
  BY <1>2
<1>4. DOMAIN sent = IdsOf(list) /\ \A i \in IdsOf(list) : sent[i] = Find(list, i).body
  BY DEF IdsOf
<1> HIDE DEF ids, sent
<1>5. AreItems(m) /\ DOMAIN m = DOMAIN list /\ \A k \in DOMAIN list : m[k].id = ids[k]
  BY <1>2, <1>3, MergedListIs
<1>6. AreItems(book.items)
  BY StoredHolds
<1> HIDE DEF m
<1>7. IdsOf(m) = IdsOf(list) /\ \A i : PlacesOf(m, i) = PlacesOf(list, i)
  BY <1>3, <1>5 DEF IdsOf, PlacesOf
<1>8. \A i \in IdsOf(m) : \E k \in PlacesOf(m, i) : Find(m, i) = m[k] /\ sent[i] = list[k].body
  <2> TAKE i \in IdsOf(m)
  <2>1. PICK k \in PlacesOf(m, i) : Find(m, i) = m[k] /\ \A j \in PlacesOf(m, i) : k <= j
    BY <1>5, FindIs DEF AreItems
  <2>2. PICK p \in PlacesOf(list, i) : Find(list, i) = list[p] /\ \A j \in PlacesOf(list, i) : p <= j
    BY <1>2, <1>7, FindIs
  <2>5. DOMAIN list \subseteq Nat
    BY <1>2, ListIs
  <2>6. k \in DOMAIN list /\ p \in DOMAIN list
    BY <1>7, <2>1, <2>2 DEF PlacesOf
  <2>3. k \in Nat /\ p \in Nat /\ k <= p /\ p <= k
    BY <1>7, <2>1, <2>2, <2>5, <2>6
  <2>4. k = p
    BY <2>3
  <2> QED BY <1>4, <1>7, <2>1, <2>2, <2>4
<1>9. Kept(book.items, m, sent)
  BY <1>2, <1>3, <1>4, <1>6, <1>7, <1>8, MergedListKept DEF m
<1>10. Good(m, 1, sent)
  BY <1>1, <1>5, <1>9 DEF Good
<1> QED BY <1>1, <1>10 DEF Proper, m, ids, sent

LEMMA AddCellProper ==
    ASSUME WorkbooksInv, NEW e, AddCell(e)
    PROVE  Proper(e)
<1> DEFINE items == book.items
           free == (book.next..(book.next + MaxItems)) \ IdsOf(items)
           i == CHOOSE n \in free : \A m \in book.next..(n - 1) : m \in IdsOf(items)
<1>1. PICK body \in Bodies["analysis"] :
         /\ kind = "analysis" /\ CellsCompile(Append(items, Item(i, Whole(body))), {i})
         /\ Accept(e, Append(items, Item(i, Whole(body))), i + 1, Sent(i, body))
  BY DEF AddCell, Exists
<1>2. /\ AreItems(items) /\ book.next \in Nat /\ NoneShared(items)
      /\ \A j \in IdsOf(items) : j \in Nat /\ j < book.next /\ CellRuns(items, j)
  BY <1>1, StoredHolds
<1>3. i \in free
  <2>1. MaxItems \in Nat
    BY WorkbooksAssumption
  <2>2. book.next \in free /\ \A m \in book.next..(book.next - 1) : m \in IdsOf(items)
    BY <1>2, <2>1
  <2> QED BY <2>2
<1>4. i \in Nat \ IdsOf(items) /\ book.next <= i
  <2>1. MaxItems \in Nat
    BY WorkbooksAssumption
  <2> QED BY <1>2, <1>3, <2>1
<1> HIDE DEF i, free
<1> DEFINE t == Append(items, Item(i, Whole(body)))
           sent == Sent(i, body)
<1>5. /\ AreItems(t) /\ IdsOf(t) = IdsOf(items) \cup {i} /\ NoneShared(t)
      /\ \A j : j # i => Keeps(items, t, j)
  BY <1>2, <1>4, AppendedIs
<1>6. DOMAIN sent = {i}
  BY SentIs
<1>7. i \notin {items[k].id : k \in Alone(items)}
  BY <1>2, <1>4, FindOnly DEF AreItems
<1>8. CellsCompile(t, {i})
  BY <1>1
<1> HIDE DEF t, sent, items
<1>9. Kept(items, t, sent)
  BY <1>2, <1>5, <1>6, <1>7, OthersKept
<1>10. \A j \in IdsOf(t) : CellRuns(t, j)
  <2>1. \A j : j # i => Keeps(t, items, j)
    BY <1>5, KeepsBack
  <2> QED BY <1>2, <1>8, <2>1, ChecksSuffice
<1>11. \A j \in IdsOf(t) : j < i + 1
  BY <1>2, <1>4, <1>5
<1>12. Good(t, i + 1, sent)
  BY <1>4, <1>5, <1>9, <1>10, <1>11 DEF Good, ItemsHold, items
<1> QED BY <1>1, <1>12 DEF Proper, t, sent, items

LEMMA UpdateCellProper ==
    ASSUME WorkbooksInv, NEW e, UpdateCell(e)
    PROVE  Proper(e)
<1> DEFINE items == book.items
           w(i, body) == Merged(Find(items, i), DOMAIN Unwritten, body)
<1>1. PICK i \in IdsOf(items), body \in Bodies["analysis"] :
         /\ kind = "analysis" /\ CellsCompile(Replaced(i, Item(i, w(i, body))), {i})
         /\ Accept(e, Replaced(i, Item(i, w(i, body))), book.next, Sent(i, body))
  BY DEF UpdateCell, Exists
<1>2. /\ AreItems(items) /\ book.next \in Nat /\ NoneShared(items)
      /\ \A j \in IdsOf(items) : j \in Nat /\ j < book.next /\ CellRuns(items, j)
  BY <1>1, StoredHolds
<1> DEFINE r == Replaced(i, Item(i, w(i, body)))
           sent == Sent(i, body)
<1>3. /\ AreItems(r) /\ IdsOf(r) = IdsOf(items) /\ Find(r, i) = Item(i, w(i, body))
      /\ NoneShared(r) /\ \A j : j # i => Keeps(items, r, j)
  BY <1>2, ReplacedIs
<1>4. i \in DOMAIN sent /\ DOMAIN sent = {i} /\ sent[i] = body
  BY SentIs
<1>5. CellsCompile(r, {i})
  BY <1>1
<1> HIDE DEF r, sent
<1>6. KeptAt(items, r, sent, i)
  <2>1. Alike(Find(items, i), Find(items, i)) /\ Instruction \subseteq DOMAIN Unwritten
    BY DEF Alike, Instruction, Unwritten
  <2> QED BY <1>3, <1>4, <2>1, KeptSent
<1> HIDE DEF items
<1>7. Kept(items, r, sent)
  BY <1>2, <1>3, <1>4, <1>6, OthersKept
<1>8. \A j \in IdsOf(r) : CellRuns(r, j)
  <2>1. \A j : j # i => Keeps(r, items, j)
    BY <1>3, KeepsBack
  <2> QED BY <1>2, <1>5, <2>1, ChecksSuffice
<1>9. Good(r, book.next, sent)
  BY <1>2, <1>3, <1>7, <1>8 DEF Good, ItemsHold, items
<1> QED BY <1>1, <1>9 DEF Proper, r, sent, items

LEMMA DeleteCellProper ==
    ASSUME WorkbooksInv, NEW e, DeleteCell(e)
    PROVE  Proper(e)
<1> DEFINE items == book.items
<1>1. PICK i \in IdsOf(items) :
         /\ kind = "analysis" /\ \A c \in IdsOf(items) : i \notin InputsOf(items, c)
         /\ Accept(e, Without(i), book.next, <<>>)
  BY DEF DeleteCell, Exists
<1> DEFINE w == Without(i)
<1>2. /\ AreItems(items) /\ book.next \in Nat /\ NoneShared(items)
      /\ \A j \in IdsOf(items) : j \in Nat /\ j < book.next /\ CellRuns(items, j)
  BY <1>1, StoredHolds
<1>3. /\ AreItems(w) /\ IdsOf(w) = IdsOf(items) \ {i} /\ NoneShared(w)
      /\ \A k \in Alone(items) : items[k].id # i => Keeps(items, w, items[k].id)
  BY <1>2, WithoutKeeps
<1>4. Kept(items, w, <<>>)
  BY <1>2, WithoutKept
<1> HIDE DEF w, items
<1>5. \A j : j # i => Keeps(items, w, j)
  <2> SUFFICES ASSUME NEW j, j # i PROVE Keeps(items, w, j)
    OBVIOUS
  <2>1. CASE j \in IdsOf(items)
    <3>1. PICK k \in DOMAIN items : items[k].id = j
      BY <2>1 DEF IdsOf
    <3>2. k \in Alone(items)
      BY <1>2, <3>1, NoneSharedIs
    <3> QED BY <1>3, <3>1, <3>2
  <2>2. CASE j \notin IdsOf(items)
    BY <1>3, <2>2 DEF Keeps
  <2> QED BY <2>1, <2>2
<1>6. \A j \in IdsOf(w) : CellRuns(w, j)
  <2> SUFFICES ASSUME NEW c \in IdsOf(items), c # i PROVE CellRuns(w, c)
    BY <1>3
  <2> DEFINE S == Closure(items, {c}) \ {i}
  <2>1. {c} \subseteq S /\ Closed(items, S)
    <3>1. {c} \subseteq Closure(items, {c}) /\ Closed(items, Closure(items, {c}))
      BY ClosureIs
    <3>2. \A j : i \notin InputsOf(items, j)
      BY <1>1 DEF InputsOf, items
    <3> QED BY <3>1, <3>2 DEF Closed
  <2>2. Closure(items, {c}) \subseteq S
    BY <2>1, ClosureIs
  <2>3. KeepsChain(items, w, c)
    BY <1>5, <2>2 DEF KeepsChain
  <2> QED BY <1>2, <2>3, RunsStill
<1>7. \A j \in IdsOf(w) : j < book.next
  BY <1>2, <1>3
<1>8. Good(w, book.next, <<>>)
  BY <1>2, <1>3, <1>4, <1>6, <1>7 DEF Good, ItemsHold, items
<1> QED BY <1>1, <1>8 DEF Proper, w, items

\* The number after these, and not before that one.
NumberAfter(first, S) ==
    LET after == {first} \cup {i + 1 : i \in S} IN CHOOSE n \in after : \A m \in after : m <= n

LEMMA NumberAfterIs ==
    ASSUME NEW n \in Nat, NEW ids, \A k \in 1..n : ids[k] \in Nat, NEW first \in Nat,
           NEW S, \A i \in S : \E k \in 1..n : ids[k] = i
    PROVE  NumberAfter(first, S) \in Nat /\ \A i \in S : i < NumberAfter(first, S)
<1> DEFINE after == {first} \cup {i + 1 : i \in S}
           next == NumberAfter(first, S)
<1>1. PICK b \in Nat : \A k \in 1..n : ids[k] <= b
  BY BoundedIs
<1> DEFINE top == b + first + 1
<1>2. \A i \in S : i \in Nat /\ i <= b
  BY <1>1
<1>3. top \in Nat /\ after \subseteq 0..top /\ after # {} /\ after \subseteq Nat
  BY <1>2
<1>4. \A i \in S : i + 1 \in after
  OBVIOUS
<1>5. next = CHOOSE m \in after : \A j \in after : j <= m
  BY DEF NumberAfter
<1> HIDE DEF after, top, next
<1>6. \E m \in after : \A j \in after : j <= m
  BY <1>3, GreatestMember
<1>7. next \in after /\ \A j \in after : j <= next
  BY <1>5, <1>6
<1>8. next \in Nat
  BY <1>3, <1>7
<1>9. \A i \in S : i < next
  <2> TAKE i \in S
  <2>1. i \in Nat /\ i + 1 <= next
    BY <1>2, <1>4, <1>7
  <2> QED BY <1>8, <2>1
<1> QED BY <1>8, <1>9 DEF next

LEMMA PutAnalysisProper ==
    ASSUME WorkbooksInv, NEW e, PutAnalysis(e)
    PROVE  Proper(e)
<1> DEFINE first == IF book = NoBook THEN 1 ELSE book.next
           Unnumbered(list, n) == Cardinality({k \in 1..n : list[k].id = 0})
           Ids(list) == [k \in DOMAIN list |->
                            IF list[k].id # 0 THEN list[k].id ELSE first + Unnumbered(list, k - 1)]
           Items(list) == MergedList(Ids(list), list)
           After(list) == {first + Unnumbered(list, Len(list))} \cup {i + 1 : i \in IdsOf(Items(list))}
           Next(list) == CHOOSE n \in After(list) : \A m \in After(list) : m <= n
           Was(list) == [i \in IdsOf(Items(list)) |->
                            list[CHOOSE k \in DOMAIN Ids(list) : Ids(list)[k] = i].body]
<1>1. PICK list \in Lists["analysis"] :
         /\ kind = "analysis" /\ NoneTwice(Ids(list))
         /\ CellsCompile(Items(list), IdsOf(Items(list)))
         /\ Accept(e, Items(list), Next(list), Was(list))
  BY DEF PutAnalysis
<1> DEFINE ids == Ids(list)
           m == MergedList(ids, list)
           last == first + Unnumbered(list, Len(list))
           after == {last} \cup {i + 1 : i \in IdsOf(m)}
           next == CHOOSE n \in after : \A j \in after : j <= n
           sent == [i \in IdsOf(m) |-> list[CHOOSE k \in DOMAIN ids : ids[k] = i].body]
<1>2. /\ NoneTwice(ids) /\ CellsCompile(m, IdsOf(m)) /\ Accept(e, m, next, sent)
  BY <1>1
<1>3. IsList(list) /\ Len(list) \in Nat /\ DOMAIN list = 1..Len(list) /\ \A k \in DOMAIN list : list[k].id \in Nat
  BY ListsAre, ListIs
<1>4. first \in Nat
  BY StoredHolds
<1>5. \A n \in Nat : Unnumbered(list, n) \in Nat
  <2> TAKE n \in Nat
  <2>1. IsFiniteSet(1..n) /\ {k \in 1..n : list[k].id = 0} \subseteq 1..n
    BY FS_Interval
  <2> QED BY <2>1, FS_Subset, FS_CardinalityType
<1>6. DOMAIN ids = DOMAIN list /\ \A k \in DOMAIN list : ids[k] \in Nat
  <2>1. DOMAIN ids = DOMAIN list
    OBVIOUS
  <2>2. \A k \in DOMAIN list : ids[k] \in Nat
    <3> TAKE k \in DOMAIN list
    <3>1. k - 1 \in Nat
      BY <1>3
    <3>2. first + Unnumbered(list, k - 1) \in Nat
      BY <1>4, <1>5, <3>1
    <3> QED BY <1>3, <3>2
  <2> QED BY <2>1, <2>2
<1>7. last \in Nat
  BY <1>3, <1>4, <1>5
<1> HIDE DEF last, ids, first
<1>8. AreItems(book.items)
  BY StoredHolds
<1>9. AreItems(m) /\ DOMAIN m = DOMAIN list /\ \A k \in DOMAIN list : m[k].id = ids[k]
  BY <1>3, <1>6, MergedListIs
<1> HIDE DEF m
<1>10. IdsOf(m) = {ids[k] : k \in 1..Len(list)}
  BY <1>3, <1>9 DEF IdsOf
<1>11. next \in Nat /\ \A i \in IdsOf(m) : i < next
  <2>1. next = NumberAfter(last, IdsOf(m))
    BY DEF NumberAfter
  <2>2. \A k \in 1..Len(list) : ids[k] \in Nat
    BY <1>3, <1>6
  <2>3. \A i \in IdsOf(m) : \E k \in 1..Len(list) : ids[k] = i
    BY <1>10
  <2> HIDE DEF next, after
  <2> QED BY <1>3, <1>7, <2>1, <2>2, <2>3, NumberAfterIs
<1> HIDE DEF next, after
<1>12. \A j, k \in DOMAIN list : ids[j] = ids[k] => j = k
  BY <1>2, <1>6 DEF NoneTwice
<1>13. \A i \in IdsOf(m) : \E k \in PlacesOf(m, i) : Find(m, i) = m[k] /\ sent[i] = list[k].body
  <2> TAKE i \in IdsOf(m)
  <2>1. PICK k \in PlacesOf(m, i) : Find(m, i) = m[k]
    BY <1>9, FindIs DEF AreItems
  <2>2. k \in DOMAIN ids /\ ids[k] = i
    BY <1>6, <1>9, <2>1 DEF PlacesOf
  <2>3. (CHOOSE p \in DOMAIN ids : ids[p] = i) = k
    BY <1>6, <1>12, <2>2
  <2> QED BY <2>1, <2>3
<1>14. DOMAIN sent = IdsOf(m)
  OBVIOUS
<1> HIDE DEF sent
<1>15. Kept(book.items, m, sent)
  BY <1>3, <1>6, <1>8, <1>13, <1>14, MergedListKept DEF m
<1>16. \A i \in IdsOf(m) : CellRuns(m, i)
  <2> TAKE i \in IdsOf(m)
  <2>1. i \in Affected(m, IdsOf(m))
    BY ClosureIs DEF Affected
  <2> QED BY <1>2, <2>1 DEF CellsCompile, CellRuns
<1>17. NoneShared(m)
  BY <1>9, <1>12, NoneSharedIs
<1>18. Good(m, next, sent)
  BY <1>9, <1>11, <1>15, <1>16, <1>17 DEF Good, ItemsHold
<1> QED BY <1>2, <1>18 DEF Proper

-----------------------------------------------------------------------------
LEMMA ProperHolds ==
    ASSUME WorkbooksInv, NEW e \in Editors, Proper(e)
    PROVE  WorkbooksInv'
<1>1. PICK items, next, sent : Accept(e, items, next, sent) /\ Good(items, next, sent)
  BY DEF Proper
<1> DEFINE l == Labelled(items)
           q == [seen |-> book, row |-> [items |-> l, next |-> next], sent |-> sent]
<1>2. change' = [change EXCEPT ![e] = q] /\ kind' = kind /\ book' = book
  BY <1>1 DEF Accept
<1>3. AreItems(items) /\ next \in Nat /\ Kept(book.items, items, sent)
  BY <1>1 DEF Good
<1>4. AreItems(l) /\ Kept(book.items, l, sent) /\ (ItemsHold(items, next) => ItemsHold(l, next))
  BY <1>3, LabelledIs, LabelsGood
<1>5. kind = "analysis" => ItemsHold(l, next)
  BY <1>1, <1>4 DEF Good
<1>6. q.seen = book /\ q.row.items = l /\ q.row.next = next /\ q.sent = sent
  OBVIOUS
<1> HIDE DEF q, l
<1>7. FrameOk(q)
  BY <1>3, <1>4, <1>5, <1>6 DEF FrameOk, BookOk
<1> QED BY <1>2, <1>7 DEF WorkbooksInv, FrameOk, BookOk

LEMMA NothingHolds ==
    BookOk(NoBook) /\ FrameOk(NoChange)
<1>1. NoBook.items = <<>> /\ NoBook.next = 0
  BY DEF NoBook
<1>2. IsList(<<>>)
  <2>1. <<>> \in Seq({})
    OBVIOUS
  <2> QED BY <2>1 DEF IsList
<1>3. AreItems(<<>>) /\ IdsOf(<<>>) = {} /\ Alone(<<>>) = {}
  BY <1>2 DEF AreItems, IdsOf, Alone
<1>4. ItemsHold(<<>>, 0) /\ \A sent : Kept(<<>>, <<>>, sent)
  BY <1>3 DEF ItemsHold, NoneShared, NoneTwice, Kept
<1>5. BookOk(NoBook)
  BY <1>1, <1>3, <1>4 DEF BookOk
<1>6. NoChange.seen.items = <<>> /\ NoChange.row = NoBook /\ NoChange.row.items = <<>>
  BY <1>1 DEF NoChange
<1> QED BY <1>4, <1>5, <1>6 DEF FrameOk

LEMMA WorkbooksInvInit == WorkbooksInit => WorkbooksInv
BY NothingHolds DEF WorkbooksInit, WorkbooksInv

LEMMA WorkbooksInvNext == WorkbooksInv /\ [WorkbooksNext]_workbookVars => WorkbooksInv'
<1> SUFFICES ASSUME WorkbooksInv, [WorkbooksNext]_workbookVars PROVE WorkbooksInv'
  OBVIOUS
<1>1. ASSUME NEW e \in Editors,
             AddPanel(e) \/ UpdatePanel(e) \/ DeletePanel(e) \/ PutDashboard(e)
             \/ AddCell(e) \/ UpdateCell(e) \/ DeleteCell(e) \/ PutAnalysis(e)
      PROVE  WorkbooksInv'
  BY <1>1, ProperHolds, AddPanelProper, UpdatePanelProper, DeletePanelProper, PutDashboardProper,
     AddCellProper, UpdateCellProper, DeleteCellProper, PutAnalysisProper
<1>2. ASSUME NEW e \in Editors, Save(e) PROVE WorkbooksInv'
  BY <1>2, NothingHolds DEF Save, WorkbooksInv, FrameOk, BookOk
<1>3. ASSUME NEW e \in Editors, AbandonChange(e) PROVE WorkbooksInv'
  BY <1>3, NothingHolds DEF AbandonChange, WorkbooksInv, FrameOk, BookOk
<1>4. CASE DeleteBook
  BY <1>4, NothingHolds DEF DeleteBook, WorkbooksInv, FrameOk, BookOk
<1>5. CASE UNCHANGED workbookVars
  BY <1>5 DEF workbookVars, WorkbooksInv, FrameOk, BookOk
<1> QED BY <1>1, <1>2, <1>3, <1>4, <1>5 DEF WorkbooksNext

(* Every cell that is stored of an analysis runs, and its id is its own and none that the        *)
(* counter will hand out, for any bodies and whole lists and any requests that overlap, delete   *)
(* or die: the routes check the cells below an edit, and no others (routes.py,                   *)
(* _check_analysis_cells).                                                                       *)
THEOREM ChainsAlwaysHold == WorkbooksSpec => []ChainsHold
<1>1. WorkbooksInv => ChainsHold
  BY DEF WorkbooksInv, BookOk, ItemsHold, NoneShared, ChainsHold
<1> QED BY <1>1, WorkbooksInvInit, WorkbooksInvNext, PTL DEF WorkbooksSpec

(* A write over the row that it was made from leaves what an item executes as it was, unless an   *)
(* instruction was sent for it, for any panels, cells and whole lists (routes.py,                *)
(* _preserve_operational and _merge_cells).                                                      *)
THEOREM UnsentAlwaysUnchanged == WorkbooksSpec => UnsentIsUnchanged
<1>1. WorkbooksInv => \A e \in Editors : Kept(change[e].seen.items, change[e].row.items, change[e].sent)
  BY DEF WorkbooksInv, FrameOk
<1>2. WorkbooksInv /\ [WorkbooksNext]_workbookVars =>
        [\A e \in Editors :
            LET q == change[e] IN
            Save(e) /\ q.seen = book => Kept(q.seen.items, q.row.items, q.sent)]_workbookVars
  BY <1>1
<1> QED BY <1>2, WorkbooksInvInit, WorkbooksInvNext, PTL
        DEF WorkbooksSpec, UnsentIsUnchanged, Kept, KeptAt
=============================================================================
