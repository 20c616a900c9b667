-------------------------- MODULE GovernanceProofs --------------------------
(***************************************************************************)
(* What is proved of the modules of governance: that markings leave no     *)
(* stale inheritance (Markings), that the inbox of approvals applies what  *)
(* it approves and that what is called a tightening widens nothing         *)
(* (Approvals), that a name which changes hands takes along neither        *)
(* sessions nor memberships (Accounts), that imports leave nothing half    *)
(* done that anybody would trip over (Portability), that objects are read  *)
(* and edited as policies say (ObjectGovernance), that comparing two       *)
(* workspaces tells of every widening (Verification), and that a merge     *)
(* keeps the rules of both (MergeImport), for any datasets, users, tables  *)
(* of governance, threads and bounds.                                      *)
(***************************************************************************)
EXTENDS Markings, Approvals, Accounts, Portability, ObjectGovernance, Verification,
        MergeImport, Induction, FiniteSetTheorems

(***************************************************************************)
(* Markings: no interleaving of changes and recomputes leaves a stale      *)
(* inheritance.                                                            *)
(***************************************************************************)
CallType ==
    [pc : {"idle", "gen", "edges", "explicit"}, tries : Nat, gen : Nat,
     edges : SUBSET (Datasets \X Datasets),
     read : [Datasets -> SUBSET Names], todo : SUBSET Datasets]

\* The types the proof needs.
CallsTyped ==
    /\ explicit \in [Datasets -> SUBSET Names]
    /\ lineage \in [Transforms -> SUBSET (Datasets \X Datasets)]
    /\ gen \in Nat
    /\ call \in [Threads -> CallType]

\* What a thread has read of the inputs is what they are, unless the
\* generation has moved since.
ReadsAreFenced ==
    \A t \in Threads :
        /\ call[t].gen <= gen
        /\ (call[t].pc = "explicit" /\ call[t].gen = gen) =>
             /\ call[t].edges = Edges
             /\ \A d \in Datasets \ call[t].todo : call[t].read[d] = explicit[d]

MarkingsInv == CallsTyped /\ ReadsAreFenced /\ PropagatedAtRest

-----------------------------------------------------------------------------
\* Without edges nothing is inherited.
LEMMA NothingPropagates == Propagate({}, Unmarked) = Unmarked
<1> DEFINE Step(f) == [d \in Datasets |->
             Unmarked[d] \cup UNION {f[u] : u \in {v \in Datasets : <<v, d>> \in {}}}]
<1>1. \A f : Step(f) = Unmarked
  BY DEF Unmarked
<1>2. Propagate({}, Unmarked) = CHOOSE f : f = Step(f)
  BY DEF Propagate
<1> HIDE DEF Step
<1> QED BY <1>1, <1>2


LEMMA CallsStartTyped ==
    /\ NoCall \in CallType /\ NoCall.pc = "idle" /\ NoCall.gen = 0
    /\ \A n \in Nat : DueCall(n) \in CallType /\ DueCall(n).pc = "gen" /\ DueCall(n).gen = 0
BY DEF NoCall, DueCall, CallType, Unmarked

LEMMA EdgesTyped == CallsTyped => Edges \subseteq Datasets \X Datasets
BY DEF CallsTyped, Edges

\* A change of an input bumps the generation past what anybody has read, and
\* leaves its thread with a recompute to do.
LEMMA ChangeKeepsInv ==
    ASSUME MarkingsInv, NEW t \in Threads, Changes(t),
           explicit' \in [Datasets -> SUBSET Names],
           lineage' \in [Transforms -> SUBSET (Datasets \X Datasets)]
    PROVE  MarkingsInv'
<1>1. /\ gen \in Nat /\ gen' = gen + 1
      /\ call' = [call EXCEPT ![t] = DueCall(1)]
  BY DEF MarkingsInv, CallsTyped, Changes
<1>2. CallsTyped'
  BY <1>1, CallsStartTyped DEF MarkingsInv, CallsTyped
<1>3. ReadsAreFenced'
  <2> SUFFICES ASSUME NEW u \in Threads
               PROVE  call'[u].gen <= gen' /\ ~(call'[u].pc = "explicit" /\ call'[u].gen = gen')
    BY DEF ReadsAreFenced
  <2>1. CASE u = t
    BY <1>1, <2>1, CallsStartTyped DEF MarkingsInv, CallsTyped
  <2>2. CASE u # t
    <3>1. call'[u] = call[u]
      BY <1>1, <2>2 DEF MarkingsInv, CallsTyped
    <3>2. call[u].gen \in Nat /\ call[u].gen <= gen
      BY DEF MarkingsInv, CallsTyped, CallType, ReadsAreFenced
    <3> QED BY <1>1, <3>1, <3>2
  <2> QED BY <2>1, <2>2
<1>4. PropagatedAtRest'
  <2>1. call'[t].pc = "gen"
    BY <1>1, CallsStartTyped DEF MarkingsInv, CallsTyped
  <2> QED BY <2>1 DEF PropagatedAtRest
<1> QED BY <1>2, <1>3, <1>4 DEF MarkingsInv

\* A thread that is done, or starts over, has read nothing; the inputs and what
\* is inherited are as they were.
LEMMA RestartKeepsInv ==
    ASSUME MarkingsInv, NEW t \in Threads, NEW c \in CallType,
           c.pc \in {"idle", "gen"}, c.gen = 0,
           call' = [call EXCEPT ![t] = c],
           explicit' = explicit, lineage' = lineage, gen' = gen
    PROVE  CallsTyped' /\ ReadsAreFenced'
<1>1. CallsTyped'
  BY DEF MarkingsInv, CallsTyped
<1>2. ReadsAreFenced'
  <2> SUFFICES ASSUME NEW u \in Threads
               PROVE  /\ call'[u].gen <= gen'
                      /\ (call'[u].pc = "explicit" /\ call'[u].gen = gen') =>
                           /\ call'[u].edges = Edges'
                           /\ \A d \in Datasets \ call'[u].todo :
                                 call'[u].read[d] = explicit'[d]
    BY DEF ReadsAreFenced
  <2>1. Edges' = Edges
    BY DEF Edges
  <2>2. CASE u = t
    BY <2>2 DEF MarkingsInv, CallsTyped
  <2>3. CASE u # t
    <3>1. call'[u] = call[u]
      BY <2>3 DEF MarkingsInv, CallsTyped
    <3> QED BY <2>1, <3>1 DEF MarkingsInv, ReadsAreFenced
  <2> QED BY <2>2, <2>3
<1> QED BY <1>1, <1>2


LEMMA InitInv == MarkingsInit => MarkingsInv
<1> SUFFICES ASSUME MarkingsInit PROVE MarkingsInv
  OBVIOUS
<1>1. CallsTyped
  BY CallsStartTyped DEF MarkingsInit, CallsTyped, Unmarked
<1>2. ReadsAreFenced
  BY CallsStartTyped DEF MarkingsInit, ReadsAreFenced
<1>3. Edges = {}
  BY DEF MarkingsInit, Edges
<1>4. PropagatedAtRest
  BY <1>3, NothingPropagates DEF MarkingsInit, PropagatedAtRest
<1> QED BY <1>1, <1>2, <1>4 DEF MarkingsInv

LEMMA StepInv == MarkingsInv /\ [MarkingsNext]_markingVars => MarkingsInv'
<1> SUFFICES ASSUME MarkingsInv, [MarkingsNext]_markingVars PROVE MarkingsInv'
  OBVIOUS
<1>1. CASE UNCHANGED markingVars
  BY <1>1 DEF MarkingsInv, markingVars, CallsTyped, ReadsAreFenced, PropagatedAtRest, Edges
<1>2. ASSUME NEW t \in Threads, NEW d \in Datasets, NEW names \in SUBSET Names,
             SetMarkings(t, d, names)
      PROVE  MarkingsInv'
  <2>1. /\ explicit' \in [Datasets -> SUBSET Names]
        /\ lineage' \in [Transforms -> SUBSET (Datasets \X Datasets)]
    BY <1>2 DEF MarkingsInv, CallsTyped, SetMarkings
  <2> QED BY <1>2, <2>1, ChangeKeepsInv DEF SetMarkings
<1>3. ASSUME NEW t \in Threads, NEW name \in Names, DeleteMarking(t, name)
      PROVE  MarkingsInv'
  <2>1. /\ explicit' \in [Datasets -> SUBSET Names]
        /\ lineage' \in [Transforms -> SUBSET (Datasets \X Datasets)]
    BY <1>3 DEF MarkingsInv, CallsTyped, DeleteMarking
  <2> QED BY <1>3, <2>1, ChangeKeepsInv DEF DeleteMarking
<1>4. ASSUME NEW t \in Threads, NEW x \in Transforms, NEW edges \in Declared[x],
             ReplaceLineage(t, x, edges)
      PROVE  MarkingsInv'
  <2>1. /\ explicit' \in [Datasets -> SUBSET Names]
        /\ lineage' \in [Transforms -> SUBSET (Datasets \X Datasets)]
    BY <1>4, MarkingsAssumption DEF MarkingsInv, CallsTyped, ReplaceLineage
  <2> QED BY <1>4, <2>1, ChangeKeepsInv DEF ReplaceLineage
<1>5. ASSUME NEW t \in Threads, ReadGeneration(t) PROVE MarkingsInv'
  <2>1. CallsTyped'
    <3>1. call[t] \in CallType /\ gen \in Nat /\ explicit \in [Datasets -> SUBSET Names]
      BY DEF MarkingsInv, CallsTyped
    <3>2. call' = [call EXCEPT ![t] = [call[t] EXCEPT !.pc = "edges", !.gen = gen]]
      BY <1>5 DEF ReadGeneration
    <3>3. [call[t] EXCEPT !.pc = "edges", !.gen = gen] \in CallType
      BY <3>1 DEF CallType, MarkingsInv
    <3> QED BY <1>5, <3>2, <3>3 DEF MarkingsInv, CallsTyped, ReadGeneration
  <2>2. ReadsAreFenced'
    BY <1>5 DEF MarkingsInv, CallsTyped, CallType, ReadsAreFenced, ReadGeneration, Edges
  <2>3. call'[t].pc # "idle"
    BY <1>5 DEF MarkingsInv, CallsTyped, CallType, ReadGeneration
  <2> QED BY <2>1, <2>2, <2>3 DEF MarkingsInv, PropagatedAtRest
<1>6. ASSUME NEW t \in Threads, ReadEdges(t) PROVE MarkingsInv'
  <2>1. CallsTyped'
    <3>1. call[t] \in CallType /\ gen \in Nat /\ explicit \in [Datasets -> SUBSET Names]
      BY DEF MarkingsInv, CallsTyped
    <3>2. call' = [call EXCEPT ![t] = [call[t] EXCEPT !.pc = "explicit", !.edges = Edges, !.todo = Datasets]]
      BY <1>6 DEF ReadEdges
    <3>3. [call[t] EXCEPT !.pc = "explicit", !.edges = Edges, !.todo = Datasets] \in CallType
      BY <3>1, EdgesTyped DEF CallType, MarkingsInv
    <3> QED BY <1>6, <3>2, <3>3 DEF MarkingsInv, CallsTyped, ReadEdges
  <2>2. ReadsAreFenced'
    <3>1. /\ call[t].gen <= gen
          /\ call'[t] = [call[t] EXCEPT !.pc = "explicit", !.edges = Edges, !.todo = Datasets]
          /\ \A u \in Threads \ {t} : call'[u] = call[u]
      BY <1>6 DEF MarkingsInv, CallsTyped, ReadsAreFenced, ReadEdges
    <3>2. call'[t].gen = call[t].gen /\ call'[t].edges = Edges /\ call'[t].todo = Datasets
      BY <3>1 DEF MarkingsInv, CallsTyped, CallType
    <3>3. Edges' = Edges /\ explicit' = explicit /\ gen' = gen
      BY <1>6 DEF ReadEdges, Edges
    <3> SUFFICES ASSUME NEW u \in Threads
                 PROVE  /\ call'[u].gen <= gen'
                        /\ (call'[u].pc = "explicit" /\ call'[u].gen = gen') =>
                             /\ call'[u].edges = Edges'
                             /\ \A d \in Datasets \ call'[u].todo :
                                  call'[u].read[d] = explicit'[d]
      BY DEF ReadsAreFenced
    <3>4. CASE u = t
      BY <3>1, <3>2, <3>3, <3>4
    <3>5. CASE u # t
      BY <3>1, <3>3, <3>5 DEF MarkingsInv, ReadsAreFenced
    <3> QED BY <3>4, <3>5
  <2>3. call'[t].pc # "idle"
    BY <1>6 DEF MarkingsInv, CallsTyped, CallType, ReadEdges
  <2> QED BY <2>1, <2>2, <2>3 DEF MarkingsInv, PropagatedAtRest
<1>7. ASSUME NEW t \in Threads, NEW d \in Datasets, ReadExplicit(t, d) PROVE MarkingsInv'
  <2>1. CallsTyped'
    <3>1. call[t] \in CallType /\ gen \in Nat /\ explicit \in [Datasets -> SUBSET Names]
      BY DEF MarkingsInv, CallsTyped
    <3>2. call' = [call EXCEPT ![t] = [call[t] EXCEPT !.read[d] = explicit[d], !.todo = @ \ {d}]]
      BY <1>7 DEF ReadExplicit
    <3>3. [call[t] EXCEPT !.read[d] = explicit[d], !.todo = @ \ {d}] \in CallType
      BY <3>1 DEF CallType, MarkingsInv
    <3> QED BY <1>7, <3>2, <3>3 DEF MarkingsInv, CallsTyped, ReadExplicit
  <2>2. ReadsAreFenced'
    BY <1>7 DEF MarkingsInv, CallsTyped, CallType, ReadsAreFenced, ReadExplicit, Edges
  <2>3. call'[t].pc # "idle"
    BY <1>7 DEF MarkingsInv, CallsTyped, CallType, ReadExplicit
  <2> QED BY <2>1, <2>2, <2>3 DEF MarkingsInv, PropagatedAtRest
<1>8. ASSUME NEW t \in Threads, WriteEffective(t) PROVE MarkingsInv'
  <2>1. CallsTyped' /\ ReadsAreFenced'
    BY <1>8, RestartKeepsInv, CallsStartTyped DEF WriteEffective
  <2>2. call[t].edges = Edges /\ call[t].read = explicit
    BY <1>8 DEF MarkingsInv, CallsTyped, CallType, ReadsAreFenced, WriteEffective, Overtaken
  <2>3. PropagatedAtRest'
    BY <1>8, <2>2 DEF WriteEffective, PropagatedAtRest, Edges
  <2> QED BY <2>1, <2>3 DEF MarkingsInv
<1>9. ASSUME NEW t \in Threads, StartOver(t) PROVE MarkingsInv'
  <2>1. CASE call[t].tries < MaxAttempts
    <3>1. call' = [call EXCEPT ![t] = DueCall(call[t].tries + 1)]
      BY <1>9, <2>1 DEF StartOver
    <3>2. call[t].tries + 1 \in Nat
      BY DEF MarkingsInv, CallsTyped, CallType
    <3>3. CallsTyped' /\ ReadsAreFenced'
      BY <1>9, <3>1, <3>2, RestartKeepsInv, CallsStartTyped DEF StartOver
    <3>4. call'[t].pc # "idle"
      BY <3>1, <3>2, CallsStartTyped DEF MarkingsInv, CallsTyped
    <3> QED BY <3>3, <3>4 DEF MarkingsInv, PropagatedAtRest
  <2>2. CASE ~(call[t].tries < MaxAttempts)
    <3>1. call' = [call EXCEPT ![t] = NoCall] /\ lost' = TRUE
      BY <1>9, <2>2 DEF StartOver
    <3>2. CallsTyped' /\ ReadsAreFenced'
      BY <1>9, <3>1, RestartKeepsInv, CallsStartTyped DEF StartOver
    <3> QED BY <3>1, <3>2 DEF MarkingsInv, PropagatedAtRest
  <2> QED BY <2>1, <2>2
<1>10. ASSUME NEW t \in Threads, LoseRecompute(t) PROVE MarkingsInv'
  <2>1. CallsTyped' /\ ReadsAreFenced'
    BY <1>10, RestartKeepsInv, CallsStartTyped DEF LoseRecompute
  <2> QED BY <1>10, <2>1 DEF MarkingsInv, PropagatedAtRest, LoseRecompute
<1> QED
  BY <1>1, <1>2, <1>3, <1>4, <1>5, <1>6, <1>7, <1>8, <1>9, <1>10 DEF MarkingsNext

\* When every recompute has ended and none was lost, what a dataset inherits is
\* the closure of the markings over the lineage (db.py:3004, the contract of
\* recompute_all_markings), for any number of threads and any interleaving.
THEOREM MarkingsPropagate == MarkingsSpec => []PropagatedAtRest
<1>1. MarkingsInit => MarkingsInv
  BY InitInv
<1>2. MarkingsInv /\ [MarkingsNext]_markingVars => MarkingsInv'
  BY StepInv
<1>3. MarkingsInv => PropagatedAtRest
  BY DEF MarkingsInv
<1> QED BY <1>1, <1>2, <1>3, PTL DEF MarkingsSpec

-----------------------------------------------------------------------------
(***************************************************************************)
(* Approvals. The proofs do not look into a policy or a change: what they  *)
(* rest on is the order of the two writes, and the WHERE of                *)
(* decide_proposal.                                                        *)
(***************************************************************************)
\* What a proposal says is left open; it has a state.
InboxTyped ==
    /\ \E S : proposals \in Seq(S)
    /\ \A id \in DOMAIN proposals : "state" \in DOMAIN proposals[id]

\* A request that is past the record works on a proposal that is there, and
\* decides only after it has applied.
Late == {"apply", "decide", "supersede"}

RequestsFollow ==
    /\ DOMAIN request = Requests
    /\ \A r \in Requests : request[r].pc \in Late =>
         /\ request[r] \in [pc : Late, id : DOMAIN proposals]
         /\ request[r].pc = "decide" => request[r].id \in applied

ApprovalsInv == InboxTyped /\ RequestsFollow /\ ApprovedWasApplied

-----------------------------------------------------------------------------
LEMMA ApprovalsStart == ApprovalsInit => ApprovalsInv
<1> SUFFICES ASSUME ApprovalsInit PROVE ApprovalsInv
  OBVIOUS
<1>1. proposals \in Seq({}) /\ DOMAIN proposals = {}
  BY DEF ApprovalsInit
<1>2. DOMAIN request = Requests /\ \A r \in Requests : request[r].pc \notin Late
  BY DEF ApprovalsInit, NoRequest, Late
<1> QED BY <1>1, <1>2 DEF ApprovalsInv, InboxTyped, RequestsFollow, ApprovedWasApplied

\* A decision changes the state of one pending proposal, or nothing at all.
LEMMA DecisionIsFenced ==
    ASSUME InboxTyped, NEW id \in DOMAIN proposals, NEW state, DecideAs(id, state)
    PROVE  /\ InboxTyped'
           /\ DOMAIN proposals' = DOMAIN proposals
           /\ \A i \in DOMAIN proposals :
                \/ proposals'[i] = proposals[i]
                \/ i = id /\ proposals[i].state = "pending" /\ proposals'[i].state = state
<1>1. CASE proposals[id].state = "pending"
  <2> DEFINE decided == [proposals[id] EXCEPT !.state = state]
  <2>1. proposals' = [proposals EXCEPT ![id] = decided]
    BY <1>1 DEF DecideAs
  <2>2. decided.state = state /\ DOMAIN decided = DOMAIN proposals[id]
    BY DEF InboxTyped
  <2>3. PICK S : proposals \in Seq(S)
    BY DEF InboxTyped
  <2>4. proposals \in Seq(S \cup {decided})
    BY <2>3
  <2> HIDE DEF decided
  <2>5. proposals' \in Seq(S \cup {decided}) /\ DOMAIN proposals' = DOMAIN proposals
    BY <2>1, <2>4
  <2>6. \A i \in DOMAIN proposals : proposals'[i] = IF i = id THEN decided ELSE proposals[i]
    BY <2>1
  <2>7. InboxTyped'
    BY <2>2, <2>5, <2>6 DEF InboxTyped
  <2> QED BY <1>1, <2>2, <2>5, <2>6, <2>7
<1>2. CASE proposals[id].state # "pending"
  BY <1>2 DEF DecideAs, InboxTyped
<1> QED BY <1>1, <1>2

\* A request moves on, and the inbox and the history are left alone.
LEMMA RequestMoves ==
    ASSUME ApprovalsInv, NEW r, NEW to, Goes(r, to), UNCHANGED <<proposals, applied>>,
           to.pc \in Late => /\ to \in [pc : Late, id : DOMAIN proposals]
                             /\ to.pc = "decide" => to.id \in applied
    PROVE  ApprovalsInv'
<1>1. DOMAIN request' = Requests
  BY DEF ApprovalsInv, RequestsFollow, Goes
<1>2. \A s \in Requests : request'[s] = IF s = r THEN to ELSE request[s]
  BY DEF ApprovalsInv, RequestsFollow, Goes
<1>3. RequestsFollow'
  BY <1>1, <1>2 DEF ApprovalsInv, RequestsFollow
<1> QED BY <1>3 DEF ApprovalsInv, InboxTyped, ApprovedWasApplied

\* A decision other than an approval of what was not applied, whether the
\* request that made it ends or there is none.
LEMMA DecisionKeepsInv ==
    ASSUME ApprovalsInv, NEW id \in DOMAIN proposals, NEW state, DecideAs(id, state),
           state = "approved" => id \in applied, applied' = applied,
           request' = request \/ \E r : Ends(r)
    PROVE  ApprovalsInv'
<1>1. InboxTyped' /\ ApprovedWasApplied'
  BY DecisionIsFenced DEF ApprovalsInv, ApprovedWasApplied
<1>2. DOMAIN proposals' = DOMAIN proposals
  BY DecisionIsFenced DEF ApprovalsInv
<1>3. RequestsFollow'
  <2>1. CASE request' = request
    BY <1>2, <2>1 DEF ApprovalsInv, RequestsFollow
  <2>2. CASE \E r : Ends(r)
    <3>1. PICK r : Ends(r)
      BY <2>2
    <3>2. NoRequest.pc \notin Late
      BY DEF NoRequest, Late
    <3>3. DOMAIN request' = Requests
          /\ \A s \in Requests : request'[s] = IF s = r THEN NoRequest ELSE request[s]
      BY <3>1 DEF ApprovalsInv, RequestsFollow, Ends, Goes
    <3> QED BY <1>2, <3>2, <3>3 DEF ApprovalsInv, RequestsFollow
  <2> QED BY <2>1, <2>2
<1> QED BY <1>1, <1>3 DEF ApprovalsInv

LEMMA FileRecordKeepsInv ==
    ASSUME ApprovalsInv, NEW r \in Requests, FileRecord(r)
    PROVE  ApprovalsInv'
<1> DEFINE entry == [change |-> request[r].change, diff |-> request[r].diff,
                     proposer |-> request[r].admin, state |-> "pending"]
<1>1. proposals' = Append(proposals, entry) /\ applied' = applied
  BY DEF FileRecord
<1>2. entry.state = "pending" /\ "state" \in DOMAIN entry
  OBVIOUS
<1>3. PICK S : proposals \in Seq(S)
  BY DEF ApprovalsInv, InboxTyped
<1>4. proposals \in Seq(S \cup {entry})
  BY <1>3
<1> HIDE DEF entry
<1>5. /\ proposals' \in Seq(S \cup {entry})
      /\ DOMAIN proposals' = DOMAIN proposals \cup {Len(proposals) + 1}
      /\ \A i \in DOMAIN proposals : proposals'[i] = proposals[i]
      /\ proposals'[Len(proposals) + 1] = entry
  BY <1>1, <1>4
<1>6. InboxTyped' /\ ApprovedWasApplied'
  BY <1>1, <1>2, <1>5 DEF ApprovalsInv, InboxTyped, ApprovedWasApplied
<1>7. RequestsFollow'
  <2>1. PICK to : Goes(r, to) /\ (to.pc \in Late =>
                       to \in [pc : {"apply"}, id : {Len(proposals) + 1}])
    <3>1. NoRequest.pc \notin Late
      BY DEF NoRequest, Late
    <3> QED BY <3>1 DEF FileRecord, Ends
  <2>2. DOMAIN request' = Requests
        /\ \A s \in Requests : request'[s] = IF s = r THEN to ELSE request[s]
    BY <2>1 DEF ApprovalsInv, RequestsFollow, Goes
  <2>3. to.pc \in Late => to \in [pc : Late, id : DOMAIN proposals'] /\ to.pc # "decide"
    BY <1>5, <2>1 DEF Late
  <2>4. ASSUME NEW s \in Requests, s # r, request[s].pc \in Late
        PROVE  /\ request[s] \in [pc : Late, id : DOMAIN proposals']
               /\ request[s].pc = "decide" => request[s].id \in applied
    BY <1>5, <2>4 DEF ApprovalsInv, RequestsFollow
  <2> QED BY <1>1, <2>2, <2>3, <2>4 DEF RequestsFollow
<1> QED BY <1>6, <1>7 DEF ApprovalsInv

LEMMA ApplyKeepsInv ==
    ASSUME ApprovalsInv, NEW r \in Requests, ApplyChange(r)
    PROVE  ApprovalsInv'
<1> DEFINE to == [request[r] EXCEPT !.pc = "decide"]
<1>1. request[r].pc \in Late
  BY DEF ApplyChange, Late
<1>2. request[r] \in [pc : Late, id : DOMAIN proposals]
  BY <1>1 DEF ApprovalsInv, RequestsFollow
<1>3. to \in [pc : Late, id : DOMAIN proposals] /\ to.id = request[r].id
  BY <1>2 DEF Late
<1>4. /\ Goes(r, to) /\ UNCHANGED proposals
      /\ applied' = applied \cup {request[r].id}
  BY DEF ApplyChange
<1> HIDE DEF to
<1>5. DOMAIN request' = Requests
      /\ \A s \in Requests : request'[s] = IF s = r THEN to ELSE request[s]
  BY <1>4 DEF ApprovalsInv, RequestsFollow, Goes
<1>6. RequestsFollow'
  BY <1>3, <1>4, <1>5 DEF ApprovalsInv, RequestsFollow
<1> QED BY <1>4, <1>6 DEF ApprovalsInv, InboxTyped, ApprovedWasApplied

-----------------------------------------------------------------------------
LEMMA ApprovalsKeep == ApprovalsInv /\ [ApprovalsNext]_approvalVars => ApprovalsInv'
<1> SUFFICES ASSUME ApprovalsInv, [ApprovalsNext]_approvalVars PROVE ApprovalsInv'
  OBVIOUS
<1>1. CASE UNCHANGED approvalVars
  BY <1>1 DEF ApprovalsInv, InboxTyped, RequestsFollow, ApprovedWasApplied, approvalVars
<1>2. ASSUME NEW r, NEW admin, NEW change, Submit(r, admin, change)
      PROVE  ApprovalsInv'
  BY <1>2, RequestMoves DEF Submit, Late
<1>3. ASSUME NEW r, NEW admin, NEW id \in DOMAIN proposals, Approve(r, admin, id)
      PROVE  ApprovalsInv'
  BY <1>3, RequestMoves DEF Approve, Late
<1>4. ASSUME NEW admin, NEW id \in DOMAIN proposals, Reject(admin, id) \/ Withdraw(admin, id)
      PROVE  ApprovalsInv'
  BY <1>4, DecisionKeepsInv DEF Reject, Withdraw
<1>5. ASSUME NEW r \in Requests, Decide(r) \/ Supersede(r)
      PROVE  ApprovalsInv'
  <2>1. request[r].pc \in Late
    BY <1>5 DEF Decide, Supersede, Late
  <2>2. request[r].id \in DOMAIN proposals /\ (request[r].pc = "decide" => request[r].id \in applied)
    BY <2>1 DEF ApprovalsInv, RequestsFollow
  <2> QED BY <1>5, <2>2, DecisionKeepsInv DEF Decide, Supersede
<1>6. ASSUME NEW r, Abandon(r)
      PROVE  ApprovalsInv'
  BY <1>6, RequestMoves DEF Abandon, Ends, NoRequest, Late
<1> QED BY <1>1, <1>2, <1>3, <1>4, <1>5, <1>6, FileRecordKeepsInv, ApplyKeepsInv DEF ApprovalsNext

\* The record is honest for any number of admins and requests, whatever races,
\* raises or dies: a proposal that says approved has been applied.
THEOREM ApprovedIsApplied == ApprovalsSpec => []ApprovedWasApplied
<1>1. ApprovalsInv => ApprovedWasApplied
  BY DEF ApprovalsInv
<1> QED BY <1>1, ApprovalsStart, ApprovalsKeep, PTL DEF ApprovalsSpec

LEMMA InboxKeeps ==
    ApprovalsInv /\ [ApprovalsNext]_approvalVars =>
        \A id \in DOMAIN proposals :
            proposals[id].state # "pending" => proposals'[id] = proposals[id]
<1> SUFFICES ASSUME ApprovalsInv, [ApprovalsNext]_approvalVars,
                    NEW id \in DOMAIN proposals, proposals[id].state # "pending"
             PROVE  proposals'[id] = proposals[id]
  OBVIOUS
<1>1. CASE UNCHANGED proposals
  BY <1>1
<1>2. ASSUME NEW r \in Requests, FileRecord(r)
      PROVE  proposals'[id] = proposals[id]
  <2>1. PICK S : proposals \in Seq(S)
    BY DEF ApprovalsInv, InboxTyped
  <2>2. PICK entry : proposals' = Append(proposals, entry)
    BY <1>2 DEF FileRecord
  <2>3. proposals \in Seq(S \cup {entry})
    BY <2>1
  <2> QED BY <2>2, <2>3
<1>3. ASSUME NEW other \in DOMAIN proposals, NEW state, DecideAs(other, state)
      PROVE  proposals'[id] = proposals[id]
  BY <1>3, DecisionIsFenced DEF ApprovalsInv
<1>4. ASSUME NEW r \in Requests, Decide(r) \/ Supersede(r)
      PROVE  proposals'[id] = proposals[id]
  <2>1. request[r].pc \in Late
    BY <1>4 DEF Decide, Supersede, Late
  <2>2. request[r].id \in DOMAIN proposals
    BY <2>1 DEF ApprovalsInv, RequestsFollow
  <2> QED BY <1>3, <1>4, <2>2 DEF Decide, Supersede
<1> QED BY <1>1, <1>2, <1>3, <1>4
        DEF ApprovalsNext, approvalVars, Submit, Approve, Reject, Withdraw, ApplyChange, Abandon

\* A decision is made once: no admin, and no request still on its way, changes
\* the state of a proposal that has been decided (decide_proposal's WHERE).
THEOREM DecisionsStay == ApprovalsSpec => DecisionsAreFinal
<1>1. ApprovalsInv /\ [ApprovalsNext]_approvalVars =>
        [\A id \in DOMAIN proposals :
             proposals[id].state # "pending" => proposals'[id] = proposals[id]]_approvalVars
  BY InboxKeeps
<1> QED BY <1>1, ApprovalsStart, ApprovalsKeep, PTL DEF ApprovalsSpec, DecisionsAreFinal
-----------------------------------------------------------------------------
(***************************************************************************)
(* Accounts: what is handed out for an account goes with it, whatever      *)
(* requests are in flight.                                                 *)
(***************************************************************************)
Typed == Passwords \cup {Unguessable}
Ids == 1..MaxIds

AccountType == [id : Ids, password : Typed, disabled : BOOLEAN]

TaskType ==
    {NoTask}
    \cup [pc : {"delete"}, name : Usernames]
    \cup [pc : {"user"}, name : Usernames, given : Typed]
    \cup [pc : {"verify"}, name : Usernames, given : Typed, user : AccountType \cup {NoOne}]
    \cup [pc : {"session"}, name : Usernames, user : Ids, given : Typed]
    \cup [pc : {"token"}, user : Ids, given : Typed]
    \cup [pc : {"member"}, slug : Slugs, name : Usernames, id : Ids]

IdentitiesTyped ==
    /\ account \in [Usernames -> AccountType \cup {NoOne}]
    /\ ids \in Nat /\ ids <= MaxIds
    /\ ever \in [Ids -> SUBSET Typed]

RequestsTyped ==
    /\ credentials \subseteq [user : Ids, given : Typed]
    /\ members \in [Slugs -> [Usernames -> [id : Nat, raced : BOOLEAN]]]
    /\ task \in [Tasks -> TaskType]

\* An id is of one account at most, which has had its password.
IdsAreOwn ==
    /\ \A n \in Usernames : account[n] # NoOne =>
          account[n].id <= ids /\ account[n].password \in ever[account[n].id]
    /\ \A n, m \in Usernames :
          account[n] # NoOne /\ account[m] # NoOne /\ account[n].id = account[m].id => n = m

IdentitiesInv == IdentitiesTyped /\ IdsAreOwn

Gone(id) == \A n \in Usernames : ~Holds(id, n)

\* What may be handed out for an account: nothing comes of it once it is gone.
Earned(id, given) ==
    id \in Ids /\ id <= ids /\ (given = Unguessable \/ given \in ever[id] \/ Gone(id))

\* What was read under a name is still its account, or no account at all.
Found(id, name) == id \in Ids /\ id <= ids /\ (Holds(id, name) \/ Gone(id))

Entitled(k) ==
    /\ k.pc = "verify" /\ k.user # NoOne => Found(k.user.id, k.name)
    /\ k.pc \in {"session", "token"} => Earned(k.user, k.given)

CredentialsEarned == \A c \in credentials : Earned(c.user, c.given)
TasksEntitled == \A t \in Tasks : Entitled(task[t])

BeingDeleted(n) == \E u \in Tasks : task[u].pc = "delete" /\ task[u].name = n

\* A membership that no deletion raced is of the account that has the name,
\* which nobody has begun to delete.
RowsAreOwn ==
    \A s \in Slugs, n \in Usernames :
        members[s][n] # NotAMember /\ ~members[s][n].raced =>
            Holds(members[s][n].id, n) /\ ~BeingDeleted(n)

AccountsInv ==
    IdentitiesInv /\ RequestsTyped /\ CredentialsEarned /\ TasksEntitled /\ RowsAreOwn

-----------------------------------------------------------------------------
(* The four ways accounts change.                                          *)

\* Accounts come with new ids, keep the passwords they had, and end for good.
IdentitiesMove ==
    /\ ids <= ids'
    /\ \A i \in Ids : i <= ids => ever[i] \subseteq ever'[i]
    /\ \A i \in Ids, n \in Usernames : i <= ids /\ Holds(i, n)' => Holds(i, n)

\* Nobody loses an account.
NobodyGoes == \A i \in Ids, n \in Usernames : Holds(i, n) => Holds(i, n)'

LEMMA NoOneIsNobody ==
    /\ \A a \in AccountType : a # NoOne /\ a.id \in Ids
    /\ NoOne.id = 0 /\ 0 \notin Ids
BY AccountsAssumption DEF AccountType, NoOne, Ids

LEMMA SameIdentities ==
    ASSUME IdentitiesInv, UNCHANGED <<account, ids, ever>>
    PROVE  IdentitiesInv' /\ IdentitiesMove /\ NobodyGoes
BY DEF IdentitiesInv, IdentitiesTyped, IdsAreOwn, IdentitiesMove, NobodyGoes, Holds

LEMMA InsertMoves ==
    ASSUME IdentitiesInv, NEW name \in Usernames, NEW password \in Typed, Inserted(name, password)
    PROVE  /\ IdentitiesInv' /\ IdentitiesMove /\ NobodyGoes
           /\ ids + 1 \in Ids /\ ids' = ids + 1
<1> DEFINE new == [id |-> ids + 1, password |-> password, disabled |-> FALSE]
<1>1. /\ account[name] = NoOne
      /\ ids \in Nat /\ ids < MaxIds /\ ids' = ids + 1
      /\ account' = [account EXCEPT ![name] = new]
      /\ ever' = [ever EXCEPT ![ids + 1] = {password}]
  BY DEF IdentitiesInv, IdentitiesTyped, Inserted
<1>2. ids + 1 \in Ids /\ new \in AccountType /\ new # NoOne
  BY <1>1, NoOneIsNobody, AccountsAssumption DEF Ids, AccountType
<1>3. new.id = ids + 1 /\ new.password = password
  OBVIOUS
<1> HIDE DEF new
<1>4. /\ account'[name] = new /\ ever'[ids + 1] = {password}
      /\ \A n \in Usernames \ {name} : account'[n] = account[n]
      /\ \A i \in Ids : i # ids + 1 => ever'[i] = ever[i]
  BY <1>1, <1>2 DEF IdentitiesInv, IdentitiesTyped
<1>5. IdentitiesTyped'
  BY <1>1, <1>2, AccountsAssumption DEF IdentitiesInv, IdentitiesTyped
<1>6. \A n \in Usernames : account[n] # NoOne => account[n].id \in Ids /\ account[n].id <= ids
  BY NoOneIsNobody DEF IdentitiesInv, IdentitiesTyped, IdsAreOwn
<1>7. IdsAreOwn'
  <2>1. ASSUME NEW n \in Usernames, account'[n] # NoOne
        PROVE  account'[n].id <= ids' /\ account'[n].password \in ever'[account'[n].id]
    <3>1. CASE n = name
      BY <3>1, <1>1, <1>3, <1>4
    <3>2. CASE n # name
      BY <3>2, <2>1, <1>1, <1>4, <1>6 DEF IdentitiesInv, IdsAreOwn, Ids
    <3> QED BY <3>1, <3>2
  <2>2. ASSUME NEW n \in Usernames, NEW m \in Usernames, account'[n] # NoOne,
               account'[m] # NoOne, account'[n].id = account'[m].id
        PROVE  n = m
    <3>1. CASE n = name \/ m = name
      BY <3>1, <2>2, <1>1, <1>3, <1>4, <1>6 DEF Ids
    <3>2. CASE n # name /\ m # name
      BY <3>2, <2>2, <1>4 DEF IdentitiesInv, IdsAreOwn
    <3> QED BY <3>1, <3>2
  <2> QED BY <2>1, <2>2 DEF IdsAreOwn
<1>8. IdentitiesMove
  <2>1. \A i \in Ids : i <= ids => ever[i] \subseteq ever'[i]
    BY <1>1, <1>4 DEF Ids
  <2>2. \A i \in Ids, n \in Usernames : i <= ids /\ Holds(i, n)' => Holds(i, n)
    BY <1>1, <1>3, <1>4 DEF Holds, Ids
  <2> QED BY <2>1, <2>2, <1>1 DEF IdentitiesMove
<1>9. NobodyGoes
  BY <1>1, <1>4 DEF NobodyGoes, Holds
<1> QED BY <1>1, <1>2, <1>5, <1>7, <1>8, <1>9 DEF IdentitiesInv

LEMMA UpdateMoves ==
    ASSUME IdentitiesInv, NEW name \in Usernames,
           \/ SetDisabled(name)
           \/ \E p \in Passwords : SetPassword(name, p)
    PROVE  IdentitiesInv' /\ IdentitiesMove /\ NobodyGoes
<1>0. /\ account[name] # NoOne /\ account[name] \in AccountType
      /\ account[name].id \in Ids
  BY NoOneIsNobody DEF IdentitiesInv, IdentitiesTyped, SetDisabled, SetPassword
<1>1. PICK new \in AccountType :
        /\ account' = [account EXCEPT ![name] = new]
        /\ new.id = account[name].id
        /\ new.password \in ever'[new.id]
        /\ ids' = ids
        /\ ever' \in [Ids -> SUBSET Typed]
        /\ \A i \in Ids : ever[i] \subseteq ever'[i]
  <2>1. CASE SetDisabled(name)
    <3> DEFINE new == [account[name] EXCEPT !.disabled = ~account[name].disabled]
    <3>1. /\ new \in AccountType /\ new.id = account[name].id
          /\ new.password = account[name].password
      BY <1>0 DEF AccountType
    <3>2. account' = [account EXCEPT ![name] = new] /\ ids' = ids /\ ever' = ever
      BY <2>1 DEF SetDisabled
    <3>3. new.password \in ever[new.id]
      BY <1>0, <3>1 DEF IdentitiesInv, IdsAreOwn
    <3> HIDE DEF new
    <3> QED BY <3>1, <3>2, <3>3 DEF IdentitiesInv, IdentitiesTyped
  <2>2. ASSUME NEW p \in Passwords, SetPassword(name, p)
        PROVE  \E new \in AccountType :
                 /\ account' = [account EXCEPT ![name] = new]
                 /\ new.id = account[name].id
                 /\ new.password \in ever'[new.id]
                 /\ ids' = ids
                 /\ ever' \in [Ids -> SUBSET Typed]
                 /\ \A i \in Ids : ever[i] \subseteq ever'[i]
    <3> DEFINE new == [account[name] EXCEPT !.password = p]
    <3>1. /\ new \in AccountType /\ new.id = account[name].id /\ new.password = p
      BY <1>0 DEF AccountType, Typed
    <3>2. /\ account' = [account EXCEPT ![name] = new] /\ ids' = ids
          /\ ever' = [ever EXCEPT ![account[name].id] = @ \cup {p}]
      BY <2>2 DEF SetPassword
    <3>3. /\ ever' \in [Ids -> SUBSET Typed]
          /\ \A i \in Ids : ever[i] \subseteq ever'[i]
          /\ p \in ever'[account[name].id]
      BY <1>0, <3>2 DEF IdentitiesInv, IdentitiesTyped, Typed
    <3> HIDE DEF new
    <3> QED BY <3>1, <3>2, <3>3
  <2> QED BY <2>1, <2>2
<1>2. /\ account'[name] = new
      /\ \A n \in Usernames \ {name} : account'[n] = account[n]
  BY <1>1 DEF IdentitiesInv, IdentitiesTyped
<1>3. new # NoOne
  BY NoOneIsNobody
<1>4. IdentitiesTyped'
  BY <1>1 DEF IdentitiesInv, IdentitiesTyped
<1>5. \A n \in Usernames :
        /\ account'[n] # NoOne <=> account[n] # NoOne
        /\ account'[n].id = account[n].id
  BY <1>0, <1>1, <1>2, <1>3
<1>6. \A i, n : n \in Usernames => (Holds(i, n)' <=> Holds(i, n))
  BY <1>5 DEF Holds
<1>7. IdsAreOwn'
  <2>1. ASSUME NEW n \in Usernames, account'[n] # NoOne
        PROVE  account'[n].id <= ids' /\ account'[n].password \in ever'[account'[n].id]
    <3>1. account[n] # NoOne /\ account[n].id \in Ids
      BY <2>1, <1>5, NoOneIsNobody DEF IdentitiesInv, IdentitiesTyped
    <3>2. CASE n = name
      BY <3>1, <3>2, <1>1, <1>2 DEF IdentitiesInv, IdsAreOwn
    <3>3. CASE n # name
      BY <3>1, <3>3, <1>1, <1>2 DEF IdentitiesInv, IdsAreOwn
    <3> QED BY <3>2, <3>3
  <2> QED BY <2>1, <1>5 DEF IdentitiesInv, IdsAreOwn
<1>8. IdentitiesMove /\ NobodyGoes
  BY <1>1, <1>6 DEF IdentitiesMove, NobodyGoes, IdentitiesInv, IdentitiesTyped
<1> QED BY <1>4, <1>7, <1>8 DEF IdentitiesInv

LEMMA DeletionMoves ==
    ASSUME IdentitiesInv, NEW name \in Usernames,
           account' = [account EXCEPT ![name] = NoOne], UNCHANGED <<ids, ever>>
    PROVE  /\ IdentitiesInv' /\ IdentitiesMove
           /\ \A i \in Ids : Holds(i, name) => Gone(i)'
           /\ \A i \in Ids, n \in Usernames \ {name} : Holds(i, n) => Holds(i, n)'
<1>1. /\ account'[name] = NoOne
      /\ \A n \in Usernames \ {name} : account'[n] = account[n]
  BY DEF IdentitiesInv, IdentitiesTyped
<1>2. IdentitiesInv'
  BY <1>1 DEF IdentitiesInv, IdentitiesTyped, IdsAreOwn
<1>3. IdentitiesMove
  BY <1>1 DEF IdentitiesMove, IdentitiesInv, IdentitiesTyped, Holds
<1>4. \A i \in Ids : Holds(i, name) => Gone(i)'
  BY <1>1 DEF IdentitiesInv, IdsAreOwn, Gone, Holds
<1>5. \A i \in Ids, n \in Usernames \ {name} : Holds(i, n) => Holds(i, n)'
  BY <1>1 DEF Holds
<1> QED BY <1>2, <1>3, <1>4, <1>5

-----------------------------------------------------------------------------
(* What has been earned stays earned.                                      *)

LEMMA EarnedStays ==
    ASSUME IdentitiesInv, IdentitiesInv', IdentitiesMove, NEW id, NEW given, Earned(id, given)
    PROVE  Earned(id, given)'
<1>1. id \in Ids /\ id <= ids /\ id <= ids'
  BY DEF Earned, IdentitiesMove, IdentitiesInv, IdentitiesTyped, Ids
<1>2. Gone(id) => Gone(id)'
  BY <1>1 DEF Gone, IdentitiesMove
<1>3. ever[id] \subseteq ever'[id]
  BY <1>1 DEF IdentitiesMove
<1> QED BY <1>1, <1>2, <1>3 DEF Earned

LEMMA FoundStays ==
    ASSUME IdentitiesInv, IdentitiesInv', IdentitiesMove, NEW id, NEW name \in Usernames,
           Holds(id, name) => Holds(id, name)' \/ Gone(id)', Found(id, name)
    PROVE  Found(id, name)'
<1>1. id \in Ids /\ id <= ids /\ id <= ids'
  BY DEF Found, IdentitiesMove, IdentitiesInv, IdentitiesTyped, Ids
<1>2. Gone(id) => Gone(id)'
  BY <1>1 DEF Gone, IdentitiesMove
<1> QED BY <1>1, <1>2 DEF Found

\* A step that asks for nothing new keeps what the requests rest on.
LEMMA RequestsKeep ==
    ASSUME AccountsInv, IdentitiesInv', IdentitiesMove, RequestsTyped',
           \A i \in Ids, n \in Usernames : Holds(i, n) => Holds(i, n)' \/ Gone(i)',
           \A c \in credentials' : c \in credentials \/ Earned(c.user, c.given)',
           \A t \in Tasks : task'[t] = task[t] \/ Entitled(task[t])'
    PROVE  CredentialsEarned' /\ TasksEntitled'
<1>1. CredentialsEarned'
  BY EarnedStays DEF AccountsInv, CredentialsEarned
<1>2. ASSUME NEW t \in Tasks, task'[t] = task[t]
      PROVE  Entitled(task[t])'
  <2>1. Entitled(task[t]) /\ task[t] \in TaskType
    BY DEF AccountsInv, TasksEntitled, RequestsTyped
  <2>2. ASSUME task[t].pc \in {"session", "token"}
        PROVE  Earned(task[t].user, task[t].given)'
    BY <2>1, <2>2, <1>2, EarnedStays DEF Entitled, AccountsInv
  <2>3. ASSUME task[t].pc = "verify", task[t].user # NoOne
        PROVE  Found(task[t].user.id, task[t].name)'
    <3>1. task[t].name \in Usernames
      BY <2>1, <2>3 DEF TaskType, NoTask
    <3>2. Found(task[t].user.id, task[t].name)
      BY <2>1, <2>3 DEF Entitled
    <3> QED BY <3>1, <3>2, <1>2, FoundStays DEF Found, AccountsInv
  <2> QED BY <2>2, <2>3, <1>2 DEF Entitled
<1>3. ASSUME NEW t \in Tasks
      PROVE  Entitled(task[t])'
  <2>1. CASE task'[t] = task[t]
    BY <2>1, <1>2
  <2>2. CASE Entitled(task[t])'
    BY <2>2 DEF Entitled, Earned, Found, Gone, Holds
  <2> QED BY <2>1, <2>2
<1> QED BY <1>1, <1>3 DEF TasksEntitled

\* So do memberships, if it writes none and begins no deletion.
LEMMA RowsKeep ==
    ASSUME AccountsInv, NobodyGoes,
           \A s \in Slugs, n \in Usernames :
               members'[s][n] = members[s][n] \/ members'[s][n] = NotAMember,
           \A n \in Usernames : BeingDeleted(n)' => BeingDeleted(n)
    PROVE  RowsAreOwn'
<1> SUFFICES ASSUME NEW s \in Slugs, NEW n \in Usernames,
                    members'[s][n] # NotAMember, ~members'[s][n].raced
             PROVE  Holds(members[s][n].id, n)' /\ ~BeingDeleted(n)'
  BY DEF RowsAreOwn
<1>1. members'[s][n] = members[s][n]
  OBVIOUS
<1>2. Holds(members[s][n].id, n) /\ ~BeingDeleted(n)
  BY <1>1 DEF AccountsInv, RowsAreOwn
<1>3. members[s][n].id \in Ids
  BY <1>2, NoOneIsNobody DEF Holds, AccountsInv, IdentitiesInv, IdentitiesTyped
<1> QED BY <1>1, <1>2, <1>3 DEF NobodyGoes, Holds

\* The deletion of an account that is under way is that of one task.
LEMMA DeletionsEnd ==
    ASSUME RequestsTyped, NEW t \in Tasks, NEW k \in TaskType, k.pc # "delete",
           task' = [task EXCEPT ![t] = k]
    PROVE  \A n \in Usernames : BeingDeleted(n)' => BeingDeleted(n)
BY DEF RequestsTyped, BeingDeleted

LEMMA NoTaskTyped == NoTask \in TaskType /\ NoTask.pc = "idle"
BY DEF NoTask, TaskType

-----------------------------------------------------------------------------
LEMMA AccountsStart == AccountsInit => AccountsInv
<1> SUFFICES ASSUME AccountsInit PROVE AccountsInv
  OBVIOUS
<1>1. /\ account = [n \in Usernames |-> NoOne] /\ ids = 0 /\ credentials = {}
      /\ members = [s \in Slugs |-> [n \in Usernames |-> NotAMember]]
      /\ task = [t \in Tasks |-> NoTask] /\ ever = [i \in Ids |-> {}]
  BY DEF AccountsInit, Ids
<1>2. IdentitiesInv
  BY <1>1, AccountsAssumption DEF IdentitiesInv, IdentitiesTyped, IdsAreOwn
<1>3. RequestsTyped
  BY <1>1, NoTaskTyped DEF RequestsTyped, NotAMember
<1>4. CredentialsEarned /\ TasksEntitled /\ RowsAreOwn
  BY <1>1, NoTaskTyped DEF CredentialsEarned, TasksEntitled, Entitled, RowsAreOwn
<1> QED BY <1>2, <1>3, <1>4 DEF AccountsInv

\* Whatever one task does to its own request, and nothing else, it may do if
\* the request is entitled to what it goes on with.
LEMMA TaskGoesOn ==
    ASSUME AccountsInv, NEW t \in Tasks, NEW k \in TaskType, k.pc # "delete",
           task' = [task EXCEPT ![t] = k], Entitled(k)', IdentitiesInv', IdentitiesMove,
           NobodyGoes, UNCHANGED members,
           credentials' \subseteq [user : Ids, given : Typed],
           \A c \in credentials' : c \in credentials \/ Earned(c.user, c.given)'
    PROVE  AccountsInv'
<1>1. RequestsTyped'
  BY DEF AccountsInv, RequestsTyped
<1>2. \A u \in Tasks : task'[u] = task[u] \/ Entitled(task[u])'
  <2> TAKE u \in Tasks
  <2>1. CASE u = t
    <3>1. task'[u] = k
      BY <2>1 DEF AccountsInv, RequestsTyped
    <3> QED BY <3>1 DEF Entitled, Earned, Found, Gone, Holds
  <2>2. CASE u # t
    BY <2>2 DEF AccountsInv, RequestsTyped
  <2> QED BY <2>1, <2>2
<1>3. CredentialsEarned' /\ TasksEntitled'
  BY <1>1, <1>2, RequestsKeep DEF NobodyGoes
<1>4. \A n \in Usernames : BeingDeleted(n)' => BeingDeleted(n)
  BY DeletionsEnd DEF AccountsInv
<1>5. RowsAreOwn'
  BY <1>4, RowsKeep
<1> QED BY <1>1, <1>3, <1>5 DEF AccountsInv

\* Whatever leaves the requests alone and only takes rows and credentials away.
LEMMA WithoutTasks ==
    ASSUME AccountsInv, IdentitiesInv', IdentitiesMove, NobodyGoes, UNCHANGED task,
           credentials' \subseteq credentials,
           members' \in [Slugs -> [Usernames -> [id : Nat, raced : BOOLEAN]]],
           \A s \in Slugs, n \in Usernames :
               members'[s][n] = members[s][n] \/ members'[s][n] = NotAMember
    PROVE  AccountsInv'
<1>1. RequestsTyped'
  BY DEF AccountsInv, RequestsTyped
<1>2. CredentialsEarned' /\ TasksEntitled'
  BY <1>1, RequestsKeep DEF NobodyGoes
<1>3. RowsAreOwn'
  BY RowsKeep DEF BeingDeleted
<1> QED BY <1>1, <1>2, <1>3 DEF AccountsInv

-----------------------------------------------------------------------------
(* The steps of AccountsNext.                                              *)

LEMMA AdministrationKeeps ==
    ASSUME AccountsInv,
           \/ \E n \in Usernames, p \in Passwords : CreateUser(n, p) \/ SetPassword(n, p)
           \/ \E n \in Usernames : SetDisabled(n) \/ LockRunsOut(n)
           \/ \E c \in credentials : Revoke(c)
           \/ \E s \in Slugs, n \in Usernames : RemoveMember(s, n)
           \/ \E s \in Slugs : CreateWorkspace(s) \/ DeleteWorkspace(s)
    PROVE  AccountsInv'
<1>0. /\ IdentitiesInv
      /\ members \in [Slugs -> [Usernames -> [id : Nat, raced : BOOLEAN]]]
      /\ NotAMember \in [id : Nat, raced : BOOLEAN]
  BY DEF AccountsInv, RequestsTyped, NotAMember
<1>1. ASSUME NEW n \in Usernames, NEW p \in Passwords, CreateUser(n, p) PROVE AccountsInv'
  <2>1. /\ Inserted(n, p) /\ p \in Typed
        /\ UNCHANGED <<credentials, members, task>>
    BY <1>1 DEF CreateUser, Typed
  <2> QED BY <2>1, <1>0, InsertMoves, WithoutTasks
<1>2. ASSUME NEW n \in Usernames, NEW p \in Passwords, SetPassword(n, p) PROVE AccountsInv'
  <2>1. UNCHANGED <<credentials, members, task>>
    BY <1>2 DEF SetPassword
  <2> QED BY <2>1, <1>0, <1>2, UpdateMoves, WithoutTasks
<1>3. ASSUME NEW n \in Usernames, SetDisabled(n) PROVE AccountsInv'
  <2>1. UNCHANGED <<credentials, members, task>>
    BY <1>3 DEF SetDisabled
  <2> QED BY <2>1, <1>0, <1>3, UpdateMoves, WithoutTasks
<1>4. ASSUME NEW n \in Usernames, LockRunsOut(n) PROVE AccountsInv'
  <2>1. UNCHANGED <<account, ids, ever, credentials, members, task>>
    BY <1>4 DEF LockRunsOut
  <2> QED BY <2>1, <1>0, SameIdentities, WithoutTasks
<1>5. ASSUME NEW c \in credentials, Revoke(c) PROVE AccountsInv'
  <2>1. credentials' \subseteq credentials /\ UNCHANGED <<account, ids, ever, members, task>>
    BY <1>5 DEF Revoke
  <2> QED BY <2>1, <1>0, SameIdentities, WithoutTasks
<1>6. ASSUME NEW s \in Slugs, NEW n \in Usernames, RemoveMember(s, n) PROVE AccountsInv'
  <2>1. /\ members' = [members EXCEPT ![s][n] = NotAMember]
        /\ UNCHANGED <<account, ids, ever, credentials, task>>
    BY <1>6 DEF RemoveMember
  <2>2. /\ members' \in [Slugs -> [Usernames -> [id : Nat, raced : BOOLEAN]]]
        /\ \A r \in Slugs, m \in Usernames :
              members'[r][m] = members[r][m] \/ members'[r][m] = NotAMember
    BY <2>1, <1>0
  <2> QED BY <2>1, <2>2, <1>0, SameIdentities, WithoutTasks
<1>7. ASSUME NEW s \in Slugs, CreateWorkspace(s) PROVE AccountsInv'
  <2>1. UNCHANGED <<account, ids, ever, credentials, members, task>>
    BY <1>7 DEF CreateWorkspace
  <2> QED BY <2>1, <1>0, SameIdentities, WithoutTasks
<1>8. ASSUME NEW s \in Slugs, DeleteWorkspace(s) PROVE AccountsInv'
  <2>1. /\ members' = [members EXCEPT ![s] = [n \in Usernames |-> NotAMember]]
        /\ UNCHANGED <<account, ids, ever, credentials, task>>
    BY <1>8 DEF DeleteWorkspace
  <2>2. /\ members' \in [Slugs -> [Usernames -> [id : Nat, raced : BOOLEAN]]]
        /\ \A r \in Slugs, m \in Usernames :
              members'[r][m] = members[r][m] \/ members'[r][m] = NotAMember
    BY <2>1, <1>0
  <2> QED BY <2>1, <2>2, <1>0, SameIdentities, WithoutTasks
<1> QED BY <1>1, <1>2, <1>3, <1>4, <1>5, <1>6, <1>7, <1>8

\* What a task is, by the step it has come to.
LEMMA TaskKinds ==
    ASSUME RequestsTyped, NEW t \in Tasks
    PROVE  /\ task[t] \in TaskType
           /\ task[t].pc = "delete" => task[t].name \in Usernames
           /\ task[t].pc \in {"user", "verify"} =>
                 task[t].name \in Usernames /\ task[t].given \in Typed
           /\ task[t].pc = "verify" => task[t].user \in AccountType \cup {NoOne}
           /\ task[t].pc \in {"session", "token"} =>
                 task[t].user \in Ids /\ task[t].given \in Typed
           /\ task[t].pc = "member" =>
                 task[t].slug \in Slugs /\ task[t].name \in Usernames /\ task[t].id \in Ids
<1>1. task[t] \in TaskType
  BY DEF RequestsTyped
<1> QED BY <1>1 DEF TaskType, NoTask

\* Whoever has a name now has an id of its own.
LEMMA OwnIds ==
    ASSUME IdentitiesInv, NEW n \in Usernames, account[n] # NoOne
    PROVE  /\ account[n] \in AccountType /\ account[n].id \in Ids /\ account[n].id <= ids
           /\ account[n].password \in ever[account[n].id]
           /\ Holds(account[n].id, n)
BY NoOneIsNobody DEF IdentitiesInv, IdentitiesTyped, IdsAreOwn, Holds

LEMMA SigningInKeeps ==
    ASSUME AccountsInv, NEW t \in Tasks,
           \/ \E n \in Usernames, p \in Passwords : Attempt(t, n, p)
           \/ ReadUser(t) \/ Verify(t)
           \/ \E n \in Usernames : Provision(t, n)
           \/ \E c \in credentials, n \in Usernames : AskForToken(t, c, n)
    PROVE  AccountsInv'
<1>0. /\ IdentitiesInv /\ RequestsTyped
      /\ credentials \subseteq [user : Ids, given : Typed]
      /\ IdentitiesTyped
  BY DEF AccountsInv, RequestsTyped, IdentitiesInv
<1>1. ASSUME NEW n \in Usernames, NEW p \in Passwords, Attempt(t, n, p) PROVE AccountsInv'
  <2> DEFINE k == [pc |-> "user", name |-> n, given |-> p]
  <2>1. task' = [task EXCEPT ![t] = k] /\ UNCHANGED <<account, ids, ever, credentials, members>>
    BY <1>1 DEF Attempt, TaskGoes
  <2>2. k \in TaskType /\ k.pc = "user"
    BY DEF TaskType, Typed
  <2>3. Entitled(k)'
    BY DEF Entitled
  <2> HIDE DEF k
  <2> QED BY <2>1, <2>2, <2>3, <1>0, SameIdentities, TaskGoesOn
<1>2. CASE ReadUser(t)
  <2> DEFINE n == task[t].name
             a == account[n]
             k == [pc |-> "verify", name |-> n, given |-> task[t].given, user |-> a]
  <2>1. /\ task[t].pc = "user" /\ task' = [task EXCEPT ![t] = k]
        /\ UNCHANGED <<account, ids, ever, credentials, members>>
    BY <1>2 DEF ReadUser, TaskGoes
  <2>2. n \in Usernames /\ task[t].given \in Typed /\ a \in AccountType \cup {NoOne}
    BY <2>1, <1>0, TaskKinds DEF IdentitiesTyped
  <2>3. k \in TaskType /\ k.pc = "verify"
    BY <2>2 DEF TaskType
  <2>4. ASSUME a # NoOne PROVE Found(a.id, n)
    BY <2>2, <2>4, <1>0, OwnIds DEF Found
  <2>5. Entitled(k)
    BY <2>4 DEF Entitled
  <2>6. PICK kk \in TaskType : kk = k
    BY <2>3
  <2>7. Entitled(kk)'
    BY <2>5, <2>6, <2>1 DEF Entitled, Found, Earned, Gone, Holds
  <2> QED BY <2>1, <2>3, <2>6, <2>7, <1>0, SameIdentities, TaskGoesOn
<1>3. CASE Verify(t)
  <2> DEFINE u == task[t].user
             g == task[t].given
             n == task[t].name
  <2>1. /\ task[t].pc = "verify"
        /\ n \in Usernames /\ g \in Typed /\ u \in AccountType \cup {NoOne}
        /\ UNCHANGED <<account, ids, ever, credentials, members>>
    BY <1>3, <1>0, TaskKinds DEF Verify
  <2>2. CASE Verified(t)
    <3>1. u # NoOne /\ account[n] # NoOne /\ account[n].password = g
      BY <2>2 DEF Verified
    <3>2. Found(u.id, n)
      BY <3>1, <2>1 DEF AccountsInv, TasksEntitled, Entitled
    <3>3. Earned(u.id, g)
      <4>1. CASE Holds(u.id, n)
        BY <4>1, <3>1, <3>2, <2>1, <1>0, OwnIds DEF Earned, Found, Holds
      <4>2. CASE Gone(u.id)
        BY <4>2, <3>2 DEF Earned, Found
      <4> QED BY <4>1, <4>2, <3>2 DEF Found
    <3> DEFINE k == [pc |-> "session", name |-> n, user |-> u.id, given |-> g]
    <3>4. task' = [task EXCEPT ![t] = k]
      BY <1>3, <2>2 DEF Verify, TaskGoes
    <3>5. k \in TaskType /\ k.pc = "session" /\ k.user = u.id /\ k.given = g
      BY <3>2, <2>1 DEF TaskType, Found
    <3>6. PICK kk \in TaskType : kk = k
      BY <3>5
    <3> HIDE DEF k
    <3>7. Entitled(kk)'
      BY <3>3, <3>5, <3>6, <2>1 DEF Entitled, Earned, Gone, Holds
    <3> QED BY <3>4, <3>5, <3>6, <3>7, <2>1, <1>0, SameIdentities, TaskGoesOn
  <2>3. CASE ~Verified(t)
    <3>1. task' = [task EXCEPT ![t] = NoTask]
      BY <1>3, <2>3 DEF Verify, TaskGoes
    <3>2. Entitled(NoTask)'
      BY NoTaskTyped DEF Entitled
    <3> QED BY <3>1, <3>2, <2>1, <1>0, NoTaskTyped, SameIdentities, TaskGoesOn
  <2> QED BY <2>2, <2>3
<1>4. ASSUME NEW n \in Usernames, Provision(t, n) PROVE AccountsInv'
  <2>1. PICK i \in Ids :
          /\ task' = [task EXCEPT ![t] =
                        [pc |-> "session", name |-> n, user |-> i, given |-> Unguessable]]
          /\ i <= ids'
          /\ IdentitiesInv' /\ IdentitiesMove /\ NobodyGoes
    <3>1. CASE account[n] # NoOne /\ UNCHANGED <<account, ids, ever>>
               /\ TaskGoes(t, [pc |-> "session", name |-> n, user |-> account[n].id,
                               given |-> Unguessable])
      BY <3>1, <1>0, OwnIds, SameIdentities DEF TaskGoes
    <3>2. CASE Inserted(n, Unguessable)
               /\ TaskGoes(t, [pc |-> "session", name |-> n, user |-> ids + 1,
                               given |-> Unguessable])
      <4>1. Unguessable \in Typed
        BY DEF Typed
      <4>2. /\ ids + 1 \in Ids /\ ids' = ids + 1 /\ ids + 1 <= ids'
            /\ IdentitiesInv' /\ IdentitiesMove /\ NobodyGoes
        BY <3>2, <4>1, <1>0, InsertMoves DEF IdentitiesTyped
      <4> QED BY <3>2, <4>2 DEF TaskGoes
    <3> QED BY <3>1, <3>2, <1>4 DEF Provision
  <2> DEFINE k == [pc |-> "session", name |-> n, user |-> i, given |-> Unguessable]
  <2>2. k \in TaskType /\ k.pc = "session" /\ k.user = i /\ k.given = Unguessable
    BY DEF TaskType, Typed
  <2>3. Entitled(k)'
    BY <2>1 DEF Entitled, Earned
  <2>4. UNCHANGED <<credentials, members>>
    BY <1>4 DEF Provision
  <2> HIDE DEF k
  <2>5. task' = [task EXCEPT ![t] = k]
    BY <2>1 DEF k
  <2> QED BY <2>1, <2>2, <2>3, <2>4, <2>5, <1>0, TaskGoesOn
<1>5. ASSUME NEW c \in credentials, NEW n \in Usernames, AskForToken(t, c, n) PROVE AccountsInv'
  <2> DEFINE k == [pc |-> "token", user |-> c.user, given |-> c.given]
  <2>1. task' = [task EXCEPT ![t] = k] /\ UNCHANGED <<account, ids, ever, credentials, members>>
    BY <1>5 DEF AskForToken, TaskGoes
  <2>2. c.user \in Ids /\ c.given \in Typed
    BY <1>0
  <2>3. k \in TaskType /\ k.pc = "token" /\ k.user = c.user /\ k.given = c.given
    BY <2>2 DEF TaskType
  <2>4. Earned(c.user, c.given)
    BY DEF AccountsInv, CredentialsEarned
  <2>5. Entitled(k)'
    BY <2>1, <2>4 DEF Entitled, Earned, Gone, Holds
  <2> HIDE DEF k
  <2> QED BY <2>1, <2>3, <2>5, <1>0, SameIdentities, TaskGoesOn
<1> QED BY <1>1, <1>2, <1>3, <1>4, <1>5

\* Requests that end, with a credential or without, and the one for a
\* membership that has been let in.
LEMMA RequestsEndKeeps ==
    ASSUME AccountsInv, NEW t \in Tasks,
           \/ OpenSession(t) \/ CreateToken(t) \/ DropTask(t)
           \/ \E s \in Slugs, n \in Usernames : AskForMember(t, s, n)
    PROVE  AccountsInv'
<1>0. /\ IdentitiesInv /\ RequestsTyped
      /\ credentials \subseteq [user : Ids, given : Typed]
  BY DEF AccountsInv, RequestsTyped
<1>1. Entitled(NoTask)'
  BY NoTaskTyped DEF Entitled
<1>2. CASE OpenSession(t) \/ CreateToken(t)
  <2> DEFINE u == task[t].user
             g == task[t].given
  <2>1. /\ task[t].pc \in {"session", "token"}
        /\ credentials' = credentials \cup {[user |-> u, given |-> g]}
        /\ task' = [task EXCEPT ![t] = NoTask]
        /\ UNCHANGED <<account, ids, ever, members>>
    BY <1>2 DEF OpenSession, CreateToken, TaskGoes, OpenedFor
  <2>2. u \in Ids /\ g \in Typed
    BY <2>1, <1>0, TaskKinds
  <2>3. Earned(u, g)
    BY <2>1 DEF AccountsInv, TasksEntitled, Entitled
  <2>4. credentials' \subseteq [user : Ids, given : Typed]
    BY <2>1, <2>2, <1>0
  <2>5. ASSUME NEW c \in credentials', c \notin credentials
        PROVE  Earned(c.user, c.given)'
    <3>1. c.user = u /\ c.given = g
      BY <2>1, <2>5
    <3> QED BY <3>1, <2>1, <2>3 DEF Earned, Gone, Holds
  <2> QED BY <2>1, <2>4, <2>5, <1>0, <1>1, NoTaskTyped, SameIdentities, TaskGoesOn
<1>3. CASE DropTask(t)
  <2>1. task' = [task EXCEPT ![t] = NoTask]
        /\ UNCHANGED <<account, ids, ever, credentials, members>>
    BY <1>3 DEF DropTask, TaskGoes
  <2> QED BY <2>1, <1>0, <1>1, NoTaskTyped, SameIdentities, TaskGoesOn
<1>4. ASSUME NEW s \in Slugs, NEW n \in Usernames, AskForMember(t, s, n) PROVE AccountsInv'
  <2> DEFINE k == [pc |-> "member", slug |-> s, name |-> n, id |-> account[n].id]
  <2>1. /\ account[n] # NoOne /\ task' = [task EXCEPT ![t] = k]
        /\ UNCHANGED <<account, ids, ever, credentials, members>>
    BY <1>4 DEF AskForMember, TaskGoes
  <2>2. k \in TaskType /\ k.pc = "member"
    BY <2>1, <1>0, OwnIds DEF TaskType
  <2>3. PICK kk \in TaskType : kk = k
    BY <2>2
  <2>4. Entitled(kk)'
    BY <2>3 DEF Entitled
  <2> QED BY <2>1, <2>2, <2>3, <2>4, <1>0, SameIdentities, TaskGoesOn
<1> QED BY <1>2, <1>3, <1>4

-----------------------------------------------------------------------------
(* Deletion, in its two transactions, and the row that may come between.   *)

LEMMA DropMembershipsKeeps ==
    ASSUME AccountsInv, NEW t \in Tasks, NEW n \in Usernames, DropMemberships(t, n)
    PROVE  AccountsInv'
<1> DEFINE k == [pc |-> "delete", name |-> n]
<1>0. IdentitiesInv /\ RequestsTyped
  BY DEF AccountsInv
<1>1. /\ members' = OfNobody(n) /\ task' = [task EXCEPT ![t] = k]
      /\ UNCHANGED <<account, ids, ever, credentials>>
  BY DEF DropMemberships, TaskGoes
<1>2. IdentitiesInv' /\ IdentitiesMove /\ NobodyGoes
  BY <1>0, <1>1, SameIdentities
<1>3. k \in TaskType /\ k.pc = "delete" /\ k.name = n
  BY DEF TaskType
<1> HIDE DEF k
<1>4. task'[t] = k /\ \A u \in Tasks \ {t} : task'[u] = task[u]
  BY <1>0, <1>1 DEF RequestsTyped
<1>5. /\ members' \in [Slugs -> [Usernames -> [id : Nat, raced : BOOLEAN]]]
      /\ \A s \in Slugs : members'[s][n] = NotAMember
      /\ \A s \in Slugs, m \in Usernames \ {n} : members'[s][m] = members[s][m]
  BY <1>0, <1>1 DEF RequestsTyped, OfNobody, NotAMember
<1>6. RequestsTyped'
  BY <1>0, <1>1, <1>3, <1>5 DEF RequestsTyped
<1>7. ASSUME NEW u \in Tasks PROVE task'[u] = task[u] \/ Entitled(task[u])'
  BY <1>3, <1>4 DEF Entitled
<1>8. CredentialsEarned' /\ TasksEntitled'
  BY <1>1, <1>2, <1>6, <1>7, RequestsKeep DEF NobodyGoes
<1>9. RowsAreOwn'
  <2> SUFFICES ASSUME NEW s \in Slugs, NEW m \in Usernames,
                      members'[s][m] # NotAMember, ~members'[s][m].raced
               PROVE  Holds(members[s][m].id, m)' /\ ~BeingDeleted(m)'
    BY DEF RowsAreOwn
  <2>1. m # n /\ members'[s][m] = members[s][m]
    BY <1>5
  <2>2. Holds(members[s][m].id, m) /\ ~BeingDeleted(m)
    BY <2>1 DEF AccountsInv, RowsAreOwn
  <2>3. Holds(members[s][m].id, m)'
    BY <2>1, <2>2, <1>1 DEF Holds
  <2>4. ~BeingDeleted(m)'
    BY <2>1, <2>2, <1>3, <1>4 DEF BeingDeleted
  <2> QED BY <2>3, <2>4
<1> QED BY <1>2, <1>6, <1>8, <1>9 DEF AccountsInv

LEMMA DeleteUserKeeps ==
    ASSUME AccountsInv, NEW t \in Tasks, DeleteUser(t)
    PROVE  AccountsInv'
<1> DEFINE n == task[t].name
<1>0. IdentitiesInv /\ RequestsTyped /\ NoTask \in TaskType
  BY NoTaskTyped DEF AccountsInv
<1>1. /\ task[t].pc = "delete"
      /\ credentials' \subseteq credentials
      /\ account' = [account EXCEPT ![n] = NoOne]
      /\ task' = [task EXCEPT ![t] = NoTask]
      /\ UNCHANGED <<ids, ever, members>>
  BY DEF DeleteUser, TaskGoes
<1>2. PICK m \in Usernames : m = n
  BY <1>0, <1>1, TaskKinds
<1>3. /\ IdentitiesInv' /\ IdentitiesMove
      /\ \A i \in Ids : Holds(i, m) => Gone(i)'
      /\ \A i \in Ids, o \in Usernames \ {m} : Holds(i, o) => Holds(i, o)'
  BY <1>0, <1>1, <1>2, DeletionMoves
<1>4. RequestsTyped'
  BY <1>0, <1>1 DEF RequestsTyped
<1>5. ASSUME NEW u \in Tasks PROVE task'[u] = task[u] \/ Entitled(task[u])'
  BY <1>0, <1>1, NoTaskTyped DEF Entitled, RequestsTyped
<1>6. CredentialsEarned' /\ TasksEntitled'
  BY <1>1, <1>3, <1>4, <1>5, RequestsKeep
<1>7. RowsAreOwn'
  <2> SUFFICES ASSUME NEW s \in Slugs, NEW o \in Usernames,
                      members[s][o] # NotAMember, ~members[s][o].raced
               PROVE  Holds(members[s][o].id, o)' /\ ~BeingDeleted(o)'
    BY <1>1 DEF RowsAreOwn
  <2>1. Holds(members[s][o].id, o) /\ ~BeingDeleted(o)
    BY DEF AccountsInv, RowsAreOwn
  <2>2. o # m
    BY <2>1, <1>1, <1>2 DEF BeingDeleted
  <2>3. account'[o] = account[o]
    BY <2>2, <1>0, <1>1, <1>2 DEF IdentitiesInv, IdentitiesTyped
  <2>4. Holds(members[s][o].id, o)'
    BY <2>1, <2>3, <1>1 DEF Holds
  <2>5. ~BeingDeleted(o)'
    BY <2>1, <1>0, <1>1, NoTaskTyped, DeletionsEnd
  <2> QED BY <2>4, <2>5
<1> QED BY <1>3, <1>4, <1>6, <1>7 DEF AccountsInv

LEMMA SetMemberKeeps ==
    ASSUME AccountsInv, NEW t \in Tasks, SetMember(t)
    PROVE  AccountsInv'
<1> DEFINE n == task[t].name
           s == task[t].slug
           i == task[t].id
           raced == \/ ~Holds(i, n)
                    \/ \E u \in Tasks : task[u].pc = "delete" /\ task[u].name = n
           row == [id |-> i, raced |-> raced]
<1>0. IdentitiesInv /\ RequestsTyped /\ NoTask \in TaskType
  BY NoTaskTyped DEF AccountsInv
<1>1. /\ task[t].pc = "member"
      /\ members' = [members EXCEPT ![s][n] = row]
      /\ task' = [task EXCEPT ![t] = NoTask]
      /\ UNCHANGED <<account, ids, ever, credentials>>
  BY DEF SetMember, TaskGoes
<1>2. s \in Slugs /\ n \in Usernames /\ i \in Ids
  BY <1>0, <1>1, TaskKinds
<1>3. IdentitiesInv' /\ IdentitiesMove /\ NobodyGoes
  BY <1>0, <1>1, SameIdentities
<1>4. /\ row.id = i /\ (row.raced <=> raced)
      /\ row \in [id : Nat, raced : BOOLEAN]
  BY <1>2, AccountsAssumption DEF Ids
<1> HIDE DEF row
<1>5. /\ members' \in [Slugs -> [Usernames -> [id : Nat, raced : BOOLEAN]]]
      /\ members'[s][n] = row
      /\ \A r \in Slugs, m \in Usernames :
            r # s \/ m # n => members'[r][m] = members[r][m]
  BY <1>0, <1>1, <1>2, <1>4 DEF RequestsTyped
<1>6. RequestsTyped'
  BY <1>0, <1>1, <1>5 DEF RequestsTyped
<1>7. ASSUME NEW u \in Tasks PROVE task'[u] = task[u] \/ Entitled(task[u])'
  BY <1>0, <1>1, NoTaskTyped DEF Entitled, RequestsTyped
<1>8. CredentialsEarned' /\ TasksEntitled'
  BY <1>1, <1>3, <1>6, <1>7, RequestsKeep DEF NobodyGoes
<1>9. \A m \in Usernames : BeingDeleted(m)' => BeingDeleted(m)
  BY <1>0, <1>1, NoTaskTyped, DeletionsEnd
<1>10. RowsAreOwn'
  <2> SUFFICES ASSUME NEW r \in Slugs, NEW m \in Usernames,
                      members'[r][m] # NotAMember, ~members'[r][m].raced
               PROVE  Holds(members[r][m].id, m)' /\ ~BeingDeleted(m)'
    BY DEF RowsAreOwn
  <2>1. CASE r = s /\ m = n
    <3>1. members'[r][m].id = i /\ ~raced
      BY <2>1, <1>4, <1>5
    <3>2. Holds(i, n) /\ ~BeingDeleted(m)
      BY <2>1, <3>1 DEF BeingDeleted
    <3> QED BY <2>1, <3>1, <3>2, <1>1, <1>9 DEF Holds
  <2>2. CASE r # s \/ m # n
    <3>1. members'[r][m] = members[r][m]
      BY <2>2, <1>5
    <3>2. Holds(members[r][m].id, m) /\ ~BeingDeleted(m)
      BY <3>1 DEF AccountsInv, RowsAreOwn
    <3> QED BY <3>1, <3>2, <1>1, <1>9 DEF Holds
  <2> QED BY <2>1, <2>2
<1> QED BY <1>3, <1>6, <1>8, <1>10 DEF AccountsInv

-----------------------------------------------------------------------------
LEMMA InvImpliesOwn == AccountsInv => AccountsAreOwn
<1> SUFFICES ASSUME AccountsInv PROVE SessionsAreEarned /\ MembershipsAreOwn
  BY DEF AccountsAreOwn
<1>1. SessionsAreEarned
  BY DEF AccountsInv, CredentialsEarned, Earned, Gone, SessionsAreEarned, ActsAs
<1>2. MembershipsAreOwn
  BY DEF AccountsInv, RowsAreOwn, MembershipsAreOwn
<1> QED BY <1>1, <1>2

(* For any names, accounts, requests and workspaces, in whatever order the *)
(* transactions of logins, tokens, memberships and deletions meet, and     *)
(* wherever one dies: a credential acts only as an account whose password  *)
(* was given for it, and a membership is only of the account it was        *)
(* written for.                                                            *)
THEOREM AccountsStayOwn == AccountsSpec => []AccountsAreOwn
<1>1. AccountsInv /\ [AccountsNext]_accountVars => AccountsInv'
  <2> SUFFICES ASSUME AccountsInv, [AccountsNext]_accountVars PROVE AccountsInv'
    OBVIOUS
  <2>1. CASE AccountsNext
    <3>1. ASSUME NEW t \in Tasks,
                 \/ \E n \in Usernames : DropMemberships(t, n) \/ Provision(t, n)
                 \/ DeleteUser(t) \/ OpenSession(t) \/ DropTask(t)
                 \/ \E n \in Usernames, p \in Passwords : Attempt(t, n, p)
                 \/ ReadUser(t) \/ Verify(t) \/ CreateToken(t) \/ SetMember(t)
                 \/ \E c \in credentials, n \in Usernames : AskForToken(t, c, n)
                 \/ \E s \in Slugs, n \in Usernames : AskForMember(t, s, n)
          PROVE  AccountsInv'
      BY <3>1, DropMembershipsKeeps, DeleteUserKeeps, SetMemberKeeps, SigningInKeeps,
         RequestsEndKeeps
    <3>2. \/ \E n \in Usernames, p \in Passwords : CreateUser(n, p) \/ SetPassword(n, p)
          \/ \E n \in Usernames : SetDisabled(n) \/ LockRunsOut(n)
          \/ \E c \in credentials : Revoke(c)
          \/ \E s \in Slugs, n \in Usernames : RemoveMember(s, n)
          \/ \E s \in Slugs : CreateWorkspace(s) \/ DeleteWorkspace(s)
          \/ \E t \in Tasks :
                \/ \E n \in Usernames : DropMemberships(t, n) \/ Provision(t, n)
                \/ DeleteUser(t) \/ OpenSession(t) \/ DropTask(t)
                \/ \E n \in Usernames, p \in Passwords : Attempt(t, n, p)
                \/ ReadUser(t) \/ Verify(t) \/ CreateToken(t) \/ SetMember(t)
                \/ \E c \in credentials, n \in Usernames : AskForToken(t, c, n)
                \/ \E s \in Slugs, n \in Usernames : AskForMember(t, s, n)
      BY <2>1 DEF AccountsNext
    <3> QED BY <3>1, <3>2, AdministrationKeeps
  <2>2. CASE UNCHANGED accountVars
    <3>1. /\ UNCHANGED <<account, ids, ever, credentials, members, task>>
          /\ IdentitiesInv /\ RequestsTyped
      BY <2>2 DEF accountVars, AccountsInv
    <3> QED BY <3>1, SameIdentities, WithoutTasks DEF RequestsTyped
  <2> QED BY <2>1, <2>2
<1> QED BY <1>1, AccountsStart, InvImpliesOwn, PTL DEF AccountsSpec

-----------------------------------------------------------------------------
(***************************************************************************)
(* Portability: an import that is over, was undone or died has left nothing *)
(* half done: no dangling part, no version without its markings, no file   *)
(* that runs before an administrator has looked.                           *)
(***************************************************************************)
RowsType == [data : BOOLEAN, keys : SUBSET (Nat \X Nat), versions : Nat, marks : SUBSET Marks]
ExportType ==
    [pc : {"idle", "tables", "archive"}, planned : SUBSET (1..MaxParts), tables : 0..2,
     versions : Seq(SUBSET (1..MaxParts)), marks : SUBSET Marks]
ImportType ==
    [pc : {"idle", "parts", "check", "land", "undo"}, rows : RowsType, arriving : SUBSET Keys,
     skipped : SUBSET Files, written : SUBSET Keys, landed : SUBSET Files,
     backup : {"none", "absent", "shut", "acknowledged"}]

PortabilityTyped ==
    /\ versions \in Seq(SUBSET (1..MaxParts)) /\ needs \in Seq(SUBSET Marks)
    /\ Len(needs) = Len(versions)
    /\ parts \in 0..MaxParts /\ \A v \in DOMAIN versions : versions[v] \subseteq 1..parts
    /\ marks \in SUBSET Marks
    /\ export \in ExportType
    /\ own \in SUBSET (1..MaxParts)
    /\ storage \in [Keys -> {"none", "own", "imported"}]
    /\ files \in [Files -> Int] /\ gate \in {"absent", "shut", "acknowledged"}
    /\ import \in ImportType /\ imports \in 0..MaxImports
    /\ imported \in [1..MaxImports -> RowsType]
    /\ admitted \subseteq 1..imports

\* A version needs no marking that the dataset has not, and an export reads
\* the versions first.
MarkingsCover ==
    /\ \A v \in DOMAIN needs : needs[v] \subseteq marks
    /\ Len(export.versions) <= Len(versions)
    /\ export.tables = 2 => \A v \in DOMAIN export.versions : needs[v] \subseteq export.marks
    /\ export.pc = "archive" => export.tables = 2
    /\ import.rows.versions <= Len(versions)
    /\ \A v \in 1..import.rows.versions : needs[v] \subseteq import.rows.marks
    /\ \A n \in 1..MaxImports :
          /\ imported[n].versions <= Len(versions)
          /\ \A v \in 1..imported[n].versions : needs[v] \subseteq imported[n].marks

\* A key that an import writes is no other's, and what it has written is there.
KeysAreItsOwn ==
    /\ \A n \in 1..MaxImports : \A k \in imported[n].keys : k[2] <= imports
    /\ \A k \in Keys : k[2] > imports => storage[k] = "none"
    /\ \A k \in import.rows.keys : k[2] <= imports
    /\ import.rows.data => import.rows.keys \subseteq import.arriving
    /\ import.pc \in {"check", "land"} => import.written = import.arriving
    /\ import.pc \in {"parts", "check", "land"} => import.written \subseteq import.arriving
    /\ \A k \in import.written : storage[k] = "imported"
    /\ \A k \in import.arriving \cup import.written :
          /\ \A p \in own : k # <<p, 0>>
          /\ \A n \in 1..MaxImports : imported[n].data => k \notin imported[n].keys
          /\ k[2] <= imports

\* The files that an import has landed are those with its number, and the gate
\* it restores is shut if another's wait behind it.
FilesAreItsOwn ==
    /\ \A f \in Files : files[f] <= imports
    /\ import.pc # "idle" => import.landed = {f \in Files : files[f] = imports}
    /\ import.landed \cap import.skipped = {}
    /\ import.pc # "idle" => imports > 0
    /\ import.pc \in {"idle", "parts"} => import.backup = "none" /\ import.landed = {}
    /\ import.pc \in {"check", "land"} => import.backup # "none" /\ (gate = "shut" \/ imports \in admitted)
    /\ import.backup # "none" =>
          \A f \in Files : files[f] \in (1..MaxImports) \ admitted /\ files[f] # imports
              => import.backup = "shut"

PortabilityInv ==
    /\ PortabilityTyped /\ MarkingsCover /\ KeysAreItsOwn /\ FilesAreItsOwn
    /\ NothingDangles /\ ImportedCodeWaits

LEMMA FirstIsOne ==
    ASSUME NEW S, S \subseteq Nat, S # {} PROVE First(S) \in S
<1>1. \E n \in S : \A o \in S : n <= o
  BY LeastMember
<1> QED BY <1>1 DEF First

LEMMA FirstKeyIsOne ==
    ASSUME NEW S, S \subseteq Nat \X Nat, S # {} PROVE FirstKey(S) \in S
<1> DEFINE T == {k[1] : k \in S}
<1>1. T \subseteq Nat /\ T # {}
  OBVIOUS
<1>2. PICK n \in T : \A o \in T : n <= o
  BY <1>1, LeastMember
<1>3. \E k \in S : \A o \in S : k[1] <= o[1]
  BY <1>2
<1> QED BY <1>3 DEF FirstKey

LEMMA PortabilityInvInit == PortabilityInit => PortabilityInv
<1> SUFFICES ASSUME PortabilityInit PROVE PortabilityInv
  OBVIOUS
<1>1. PortabilityTyped
  <2>1. export \in ExportType
    BY DEF PortabilityInit, ExportType, NoExport
  <2>2. import \in ImportType
    BY DEF PortabilityInit, ImportType, RowsType, NoImport, Nothing
  <2>3. imported \in [1..MaxImports -> RowsType]
    BY DEF PortabilityInit, RowsType, Nothing
  <2>4. storage \in [Keys -> {"none", "own", "imported"}]
    BY DEF PortabilityInit
  <2>5. files \in [Files -> Int]
    BY DEF PortabilityInit
  <2>6. versions \in Seq(SUBSET (1..MaxParts)) /\ needs \in Seq(SUBSET Marks)
        /\ Len(needs) = Len(versions) /\ \A v \in DOMAIN versions : versions[v] \subseteq 1..parts
    BY DEF PortabilityInit
  <2> QED
    BY <2>1, <2>2, <2>3, <2>4, <2>5, <2>6, PortabilityAssumption
    DEF PortabilityInit, PortabilityTyped
<1>2. MarkingsCover
  BY DEF PortabilityInit, MarkingsCover, NoExport, NoImport, Nothing
<1>3. KeysAreItsOwn
  BY PortabilityAssumption DEF PortabilityInit, KeysAreItsOwn, NoImport, Nothing, Keys
<1>4. FilesAreItsOwn
  BY DEF PortabilityInit, FilesAreItsOwn, NoImport
<1>5. NothingDangles
  BY PortabilityAssumption DEF PortabilityInit, NothingDangles, Nothing, Keys
<1>6. ImportedCodeWaits
  BY DEF PortabilityInit, ImportedCodeWaits
<1> QED BY <1>1, <1>2, <1>3, <1>4, <1>5, <1>6 DEF PortabilityInv

\* The steps that only the target, or only the export, sees.
TargetStep ==
    WritePart \/ ShutGate \/ CheckFiles \/ LandFile \/ Commit \/ Fail
    \/ UndoPart \/ UndoFile \/ UndoGate \/ Die \/ SavePipeline \/ AcknowledgePipelines

LEMMA PartsAreNumbers ==
    ASSUME NEW vs, vs \in Seq(SUBSET (1..MaxParts)) PROVE PartsOf(vs) \subseteq 1..MaxParts
BY DEF PartsOf

LEMMA SourceTyped ==
    ASSUME PortabilityTyped, PortabilityNext
    PROVE  /\ versions' \in Seq(SUBSET (1..MaxParts)) /\ needs' \in Seq(SUBSET Marks)
           /\ Len(needs') = Len(versions')
           /\ parts' \in 0..MaxParts /\ \A v \in DOMAIN versions' : versions'[v] \subseteq 1..parts'
           /\ marks' \in SUBSET Marks
           /\ own' \in SUBSET (1..MaxParts)
<1> DEFINE Goal ==
           /\ versions' \in Seq(SUBSET (1..MaxParts)) /\ needs' \in Seq(SUBSET Marks)
           /\ Len(needs') = Len(versions')
           /\ parts' \in 0..MaxParts /\ \A v \in DOMAIN versions' : versions'[v] \subseteq 1..parts'
           /\ marks' \in SUBSET Marks
           /\ own' \in SUBSET (1..MaxParts)
<1>1. ASSUME CommitVersion PROVE Goal
  <2>1. PICK append \in BOOLEAN :
           /\ parts < MaxParts /\ parts' = parts + 1
           /\ versions' = Append(versions, {parts + 1}
                  \cup IF append /\ versions # <<>> THEN versions[Len(versions)] ELSE {})
           /\ needs' = Append(needs, marks)
           /\ UNCHANGED <<marks, own>>
    BY <1>1 DEF CommitVersion, targetVars
  <2> DEFINE new == {parts + 1} \cup IF append /\ versions # <<>> THEN versions[Len(versions)] ELSE {}
  <2>2. new \subseteq 1..(parts + 1)
    <3>1. versions # <<>> => versions[Len(versions)] \subseteq 1..parts
      BY DEF PortabilityTyped
    <3> QED BY <3>1, PortabilityAssumption DEF PortabilityTyped
  <2>3. new \in SUBSET (1..MaxParts)
    BY <2>1, <2>2, PortabilityAssumption DEF PortabilityTyped
  <2> HIDE DEF new
  <2>4. \A v \in DOMAIN versions' : versions'[v] \subseteq 1..parts'
    BY <2>1, <2>2, PortabilityAssumption DEF PortabilityTyped, new
  <2> QED BY <2>1, <2>3, <2>4, PortabilityAssumption DEF PortabilityTyped, new
<1>2. ASSUME Mark PROVE Goal
  BY <1>2 DEF Mark, PortabilityTyped, targetVars
<1>3. ASSUME Unmark PROVE Goal
  <2>1. PICK m \in marks : /\ marks' = marks \ {m}
                           /\ needs' = [v \in DOMAIN needs |-> needs[v] \ {m}]
                           /\ UNCHANGED <<versions, parts, own>>
    BY <1>3 DEF Unmark, targetVars
  <2>2. needs' \in Seq(SUBSET Marks) /\ Len(needs') = Len(needs)
    <3>1. DOMAIN needs = 1..Len(needs) /\ Len(needs) \in Nat
      BY DEF PortabilityTyped
    <3>2. \A v \in 1..Len(needs) : needs[v] \ {m} \in SUBSET Marks
      BY DEF PortabilityTyped
    <3> QED BY <2>1, <3>1, <3>2
  <2> QED BY <2>1, <2>2 DEF PortabilityTyped
<1>4. ASSUME UNCHANGED <<sourceVars, own>> PROVE Goal
  BY <1>4 DEF sourceVars, PortabilityTyped
<1> HIDE DEF Goal
<1>5. ASSUME Plan \/ ReadTable \/ CloseArchive \/ Truncate \/ Discard \/ Inspect PROVE Goal
  BY <1>4, <1>5 DEF Plan, ReadTable, CloseArchive, Truncate, Discard, Inspect, targetVars
<1>6. ASSUME TargetStep PROVE Goal
  BY <1>4, <1>6 DEF TargetStep, WritePart, ShutGate, CheckFiles, LandFile, Commit, Fail,
     UndoPart, UndoFile, UndoGate, Die, SavePipeline, AcknowledgePipelines
<1>7. Goal
  BY <1>1, <1>2, <1>3, <1>5, <1>6 DEF PortabilityNext, TargetStep
<1> QED BY <1>7 DEF Goal

LEMMA ExportTyped ==
    ASSUME PortabilityTyped, PortabilityNext PROVE export' \in ExportType
<1>0. NoExport \in ExportType
  <2>1. <<>> \in Seq(SUBSET (1..MaxParts))
    OBVIOUS
  <2> QED BY <2>1 DEF NoExport, ExportType
<1>1. ASSUME Plan PROVE export' \in ExportType
  <2>1. PICK planned \in SUBSET (1..MaxParts) :
           export' = [NoExport EXCEPT !.pc = "tables", !.planned = planned]
    <3>1. PartsOf(versions) \subseteq 1..MaxParts
      BY PartsAreNumbers DEF PortabilityTyped
    <3> QED BY <3>1, <1>1 DEF Plan
  <2> QED BY <1>0, <2>1 DEF ExportType
<1>2. ASSUME ReadTable PROVE export' \in ExportType
  <2>1. export \in ExportType /\ versions \in Seq(SUBSET (1..MaxParts)) /\ marks \in SUBSET Marks
    BY DEF PortabilityTyped
  <2>2. export.tables + 1 \in 0..2
    BY <1>2, <2>1 DEF ReadTable, ExportType, ExportedTables
  <2>3. CASE export' = [export EXCEPT !.tables = export.tables + 1, !.versions = versions]
    BY <2>1, <2>2, <2>3 DEF ExportType
  <2>4. CASE export' = [export EXCEPT !.tables = export.tables + 1, !.marks = marks]
    BY <2>1, <2>2, <2>4 DEF ExportType
  <2> QED BY <1>2, <2>3, <2>4 DEF ReadTable
<1>3. ASSUME CloseArchive PROVE export' \in ExportType
  BY <1>3 DEF CloseArchive, PortabilityTyped, ExportType
<1>4. ASSUME Truncate \/ Discard PROVE export' \in ExportType
  BY <1>0, <1>4 DEF Truncate, Discard
<1>5. ASSUME UNCHANGED export PROVE export' \in ExportType
  BY <1>5 DEF PortabilityTyped
<1>6. ASSUME CommitVersion \/ Mark \/ Unmark \/ Inspect \/ TargetStep PROVE UNCHANGED export
  BY <1>6 DEF TargetStep, CommitVersion, Mark, Unmark, Inspect, WritePart, ShutGate, CheckFiles,
     LandFile, Commit, Fail, UndoPart, UndoFile, UndoGate, Die, SavePipeline, AcknowledgePipelines
<1> QED BY <1>1, <1>2, <1>3, <1>4, <1>5, <1>6 DEF PortabilityNext, TargetStep

LEMMA KeysAreNumbers == Keys \subseteq Nat \X Nat
BY PortabilityAssumption DEF Keys

LEMMA NothingIsTyped == Nothing \in RowsType /\ NoImport \in ImportType
BY DEF Nothing, NoImport, RowsType, ImportType

\* The keys the archive's parts get: fresh ones, or their own if those are free.
LEMMA KeysFit ==
    ASSUME PortabilityTyped, imports < MaxImports, NEW p \in 1..MaxParts, NEW moved
    PROVE  /\ KeyOf(p, moved) \in Keys
           /\ KeyOf(p, moved) = IF p \in moved THEN <<p, imports + 1>> ELSE <<p, 0>>
BY PortabilityAssumption DEF PortabilityTyped, KeyOf, Keys

LEMMA ArrivingTyped ==
    ASSUME PortabilityTyped, imports < MaxImports, NEW metadataOnly \in BOOLEAN, NEW moved
    PROVE  /\ Arriving(metadataOnly, moved) \in SUBSET Keys
           /\ ArrivingRows(metadataOnly, moved) \in RowsType
<1>1. export.planned \subseteq 1..MaxParts /\ PartsOf(export.versions) \subseteq 1..MaxParts
  BY PartsAreNumbers DEF PortabilityTyped, ExportType
<1>2. Arriving(metadataOnly, moved) \in SUBSET Keys
  BY <1>1, KeysFit DEF Arriving
<1>3. {KeyOf(p, moved) : p \in PartsOf(export.versions)} \in SUBSET (Nat \X Nat)
  BY <1>1, KeysFit, KeysAreNumbers
<1>4. DataIncluded(metadataOnly) \in BOOLEAN
  BY DEF DataIncluded
<1>5. Len(export.versions) \in Nat /\ export.marks \in SUBSET Marks
  BY DEF PortabilityTyped, ExportType
<1> QED BY <1>2, <1>3, <1>4, <1>5 DEF ArrivingRows, RowsType


\* What the steps that choose a part or a file choose.
LEMMA PartWritten ==
    ASSUME PortabilityInv, WritePart
    PROVE  \E k \in import.arriving \ import.written :
              /\ storage' = [storage EXCEPT ![k] = "imported"]
              /\ import' = [import EXCEPT !.written = @ \cup {k}]
<1> DEFINE left == import.arriving \ import.written
<1>1. left \subseteq Nat \X Nat
  BY KeysAreNumbers DEF PortabilityInv, PortabilityTyped, ImportType
<1>2. left # {}
  BY DEF WritePart, PortabilityInv, KeysAreItsOwn
<1> HIDE DEF left
<1>3. FirstKey(left) \in left
  BY <1>1, <1>2, FirstKeyIsOne
<1> QED BY <1>3 DEF left, WritePart

LEMMA PartUndone ==
    ASSUME PortabilityInv, UndoPart
    PROVE  \E k \in import.written :
              /\ storage' = [storage EXCEPT ![k] = "none"]
              /\ import' = [import EXCEPT !.written = @ \ {k}]
<1>1. import.written \subseteq Nat \X Nat /\ import.written # {}
  BY KeysAreNumbers DEF PortabilityInv, PortabilityTyped, ImportType, UndoPart
<1>2. FirstKey(import.written) \in import.written
  BY <1>1, FirstKeyIsOne
<1> QED BY <1>2 DEF UndoPart

LEMMA FileLanded ==
    ASSUME PortabilityInv, LandFile
    PROVE  \E f \in Files \ (import.skipped \cup import.landed) :
              /\ files' = [files EXCEPT ![f] = imports]
              /\ import' = [import EXCEPT !.landed = @ \cup {f}]
<1> DEFINE left == Files \ (import.skipped \cup import.landed)
<1>1. left \subseteq Nat
  BY PortabilityAssumption
<1>2. left # {}
  BY DEF LandFile, PortabilityInv, PortabilityTyped, ImportType, FilesAreItsOwn
<1> HIDE DEF left
<1>3. First(left) \in left
  BY <1>1, <1>2, FirstIsOne
<1> QED BY <1>3 DEF left, LandFile

LEMMA FileUndone ==
    ASSUME PortabilityInv, UndoFile
    PROVE  \E f \in import.landed :
              /\ files' = [files EXCEPT ![f] = 0]
              /\ import' = [import EXCEPT !.landed = @ \ {f}]
<1>1. import.landed \subseteq Nat /\ import.landed # {}
  BY PortabilityAssumption DEF PortabilityInv, PortabilityTyped, ImportType, UndoFile
<1>2. First(import.landed) \in import.landed
  BY <1>1, FirstIsOne
<1> QED BY <1>2 DEF UndoFile

LEMMA ImportTyped ==
    ASSUME PortabilityInv, PortabilityNext PROVE import' \in ImportType
<1>1. import \in ImportType /\ gate \in {"absent", "shut", "acknowledged"}
  BY DEF PortabilityInv, PortabilityTyped
<1>2. ASSUME Inspect PROVE import' \in ImportType
  <2> DEFINE ok(m, moved) ==
           /\ imports < MaxImports
           /\ import' = [NoImport EXCEPT !.pc = "parts", !.skipped = Skipped,
                                         !.rows = ArrivingRows(m, moved),
                                         !.arriving = Arriving(m, moved)]
  <2>1. PICK metadataOnly \in BOOLEAN : \E moved : ok(metadataOnly, moved)
    BY <1>2 DEF Inspect
  <2>0. PICK moved : ok(metadataOnly, moved)
    BY <2>1
  <2>2. Skipped \in SUBSET Files
    BY DEF Skipped
  <2>3. Arriving(metadataOnly, moved) \in SUBSET Keys
        /\ ArrivingRows(metadataOnly, moved) \in RowsType
    BY <2>0, ArrivingTyped DEF PortabilityInv
  <2> HIDE DEF Arriving
  <2> QED BY <2>0, <2>2, <2>3, NothingIsTyped DEF ImportType
<1>3. ASSUME WritePart PROVE import' \in ImportType
  BY <1>1, <1>3, PartWritten DEF ImportType
<1>4. ASSUME UndoPart PROVE import' \in ImportType
  BY <1>1, <1>4, PartUndone DEF ImportType
<1>5. ASSUME LandFile PROVE import' \in ImportType
  BY <1>1, <1>5, FileLanded DEF ImportType
<1>6. ASSUME UndoFile PROVE import' \in ImportType
  BY <1>1, <1>6, FileUndone DEF ImportType
<1>7. ASSUME ShutGate \/ CheckFiles \/ Fail PROVE import' \in ImportType
  BY <1>1, <1>7 DEF ShutGate, CheckFiles, Fail, ImportType
<1>8. ASSUME Commit \/ UndoGate \/ Die PROVE import' \in ImportType
  BY <1>8, NothingIsTyped DEF Commit, UndoGate, Die
<1>9. ASSUME UNCHANGED import PROVE import' \in ImportType
  BY <1>1, <1>9
<1>10. ASSUME CommitVersion \/ Mark \/ Unmark \/ Plan \/ ReadTable \/ CloseArchive \/ Truncate
              \/ Discard \/ SavePipeline \/ AcknowledgePipelines
       PROVE  UNCHANGED import
  BY <1>10 DEF CommitVersion, Mark, Unmark, Plan, ReadTable, CloseArchive, Truncate, Discard,
     SavePipeline, AcknowledgePipelines, targetVars
<1> QED
  BY <1>2, <1>3, <1>4, <1>5, <1>6, <1>7, <1>8, <1>9, <1>10 DEF PortabilityNext

LEMMA TargetTyped ==
    ASSUME PortabilityInv, PortabilityNext
    PROVE  /\ storage' \in [Keys -> {"none", "own", "imported"}]
           /\ files' \in [Files -> Int] /\ gate' \in {"absent", "shut", "acknowledged"}
           /\ imports' \in 0..MaxImports
           /\ imported' \in [1..MaxImports -> RowsType]
           /\ admitted' \subseteq 1..imports'
<1> DEFINE Goal ==
           /\ storage' \in [Keys -> {"none", "own", "imported"}]
           /\ files' \in [Files -> Int] /\ gate' \in {"absent", "shut", "acknowledged"}
           /\ imports' \in 0..MaxImports
           /\ imported' \in [1..MaxImports -> RowsType]
           /\ admitted' \subseteq 1..imports'
<1> USE DEF PortabilityInv, PortabilityTyped
<1>1. ASSUME UNCHANGED targetVars PROVE Goal
  BY <1>1 DEF targetVars
<1>2. ASSUME Inspect PROVE Goal
  BY <1>2, PortabilityAssumption DEF Inspect
<1>3. ASSUME WritePart PROVE Goal
  BY <1>3, PartWritten DEF WritePart
<1>4. ASSUME UndoPart PROVE Goal
  BY <1>4, PartUndone DEF UndoPart
<1>5. ASSUME LandFile PROVE Goal
  <2>1. UNCHANGED <<storage, gate, imports, imported, admitted>>
    BY <1>5 DEF LandFile
  <2>2. files' \in [Files -> Int]
    BY <1>5, FileLanded
  <2> QED BY <2>1, <2>2
<1>6. ASSUME UndoFile PROVE Goal
  <2>1. UNCHANGED <<storage, gate, imports, imported, admitted>>
    BY <1>6 DEF UndoFile
  <2>2. files' \in [Files -> Int]
    BY <1>6, FileUndone
  <2> QED BY <2>1, <2>2
<1>7. ASSUME ShutGate \/ CheckFiles \/ Fail \/ Die PROVE Goal
  BY <1>7 DEF ShutGate, CheckFiles, Fail, Die
<1>8. ASSUME Commit PROVE Goal
  <2>1. import.rows \in RowsType
    BY DEF ImportType
  <2> QED BY <1>8, <2>1 DEF Commit
<1>9. ASSUME UndoGate PROVE Goal
  <2>1. import.backup \in {"none", "absent", "shut", "acknowledged"}
    BY DEF ImportType
  <2> QED BY <1>9, <2>1 DEF UndoGate
<1>10. ASSUME SavePipeline PROVE Goal
  BY <1>10 DEF SavePipeline, Own
<1>11. ASSUME AcknowledgePipelines PROVE Goal
  BY <1>11 DEF AcknowledgePipelines
<1>12. ASSUME CommitVersion \/ Mark \/ Unmark \/ Plan \/ ReadTable \/ CloseArchive \/ Truncate
              \/ Discard
       PROVE  UNCHANGED targetVars
  BY <1>12 DEF CommitVersion, Mark, Unmark, Plan, ReadTable, CloseArchive, Truncate, Discard
<1> HIDE DEF Goal, PortabilityInv
<1>13. Goal
  BY <1>1, <1>2, <1>3, <1>4, <1>5, <1>6, <1>7, <1>8, <1>9, <1>10, <1>11, <1>12 DEF PortabilityNext
<1> QED BY <1>13 DEF Goal

LEMMA TypedStep == PortabilityInv /\ PortabilityNext => PortabilityTyped'
BY SourceTyped, ExportTyped, ImportTyped, TargetTyped DEF PortabilityInv, PortabilityTyped

\* Markings are covered as before when what was needed needs no more.
LEMMA SourceKeepsCover ==
    ASSUME PortabilityInv, CommitVersion \/ Mark \/ Unmark PROVE MarkingsCover'
<1>1. /\ \A v \in DOMAIN needs' : needs'[v] \subseteq marks'
      /\ Len(versions) <= Len(versions')
      /\ \A v \in DOMAIN needs : needs'[v] \subseteq needs[v]
      /\ UNCHANGED <<export, import, imported>>
  <2>0. /\ versions \in Seq(SUBSET (1..MaxParts)) /\ needs \in Seq(SUBSET Marks)
        /\ Len(needs) = Len(versions) /\ \A v \in DOMAIN needs : needs[v] \subseteq marks
    BY DEF PortabilityInv, PortabilityTyped, MarkingsCover
  <2>1. CASE CommitVersion
    <3>1. PICK new : versions' = Append(versions, new) /\ needs' = Append(needs, marks)
                     /\ marks' = marks /\ UNCHANGED <<export, import, imported>>
      BY <2>1 DEF CommitVersion, targetVars
    <3>2. Len(versions') = Len(versions) + 1 /\ Len(versions) \in Nat
      BY <3>1, <2>0
    <3>3. DOMAIN needs' = 1..(Len(needs) + 1)
          /\ \A v \in 1..(Len(needs) + 1) :
                needs'[v] = IF v = Len(needs) + 1 THEN marks ELSE needs[v]
      BY <3>1, <2>0
    <3> QED BY <2>0, <3>1, <3>2, <3>3
  <2>2. CASE Mark
    BY <2>0, <2>2 DEF Mark, targetVars
  <2>3. CASE Unmark
    BY <2>0, <2>3 DEF Unmark, targetVars
  <2> QED BY <2>1, <2>2, <2>3
<1>2. DOMAIN needs = 1..Len(versions) /\ Len(versions) \in Nat /\ Len(export.versions) \in Nat
      /\ DOMAIN export.versions = 1..Len(export.versions) /\ import.rows.versions \in Nat
      /\ \A n \in 1..MaxImports : imported[n].versions \in Nat
  <2>1. versions \in Seq(SUBSET (1..MaxParts)) /\ needs \in Seq(SUBSET Marks)
        /\ Len(needs) = Len(versions)
    BY DEF PortabilityInv, PortabilityTyped
  <2>2. export.versions \in Seq(SUBSET (1..MaxParts))
    BY DEF PortabilityInv, PortabilityTyped, ExportType
  <2>3. import.rows \in RowsType
    BY DEF PortabilityInv, PortabilityTyped, ImportType
  <2>4. \A n \in 1..MaxImports : imported[n] \in RowsType
    BY DEF PortabilityInv, PortabilityTyped
  <2>5. DOMAIN needs = 1..Len(versions) /\ Len(versions) \in Nat
    BY <2>1
  <2>6. Len(export.versions) \in Nat /\ DOMAIN export.versions = 1..Len(export.versions)
    BY <2>2
  <2>7. import.rows.versions \in Nat /\ \A n \in 1..MaxImports : imported[n].versions \in Nat
    BY <2>3, <2>4 DEF RowsType
  <2> QED BY <2>5, <2>6, <2>7
<1>3. Len(versions') \in Nat
  BY SourceTyped DEF PortabilityInv, PortabilityNext
<1> QED
  <2>1. \A v \in 1..Len(versions) : v \in DOMAIN needs
    BY <1>2
  <2>2. Len(export.versions) <= Len(versions) /\ import.rows.versions <= Len(versions)
        /\ \A n \in 1..MaxImports : imported[n].versions <= Len(versions)
    BY DEF PortabilityInv, MarkingsCover
  <2>3. \A v \in DOMAIN export.versions : needs'[v] \subseteq needs[v]
    BY <1>1, <1>2, <2>1, <2>2
  <2>4. \A v \in 1..import.rows.versions : needs'[v] \subseteq needs[v]
    BY <1>1, <1>2, <2>1, <2>2
  <2>5. \A n \in 1..MaxImports : \A v \in 1..imported[n].versions : needs'[v] \subseteq needs[v]
    BY <1>1, <1>2, <2>1, <2>2
  <2>6. Len(export.versions) <= Len(versions') /\ import.rows.versions <= Len(versions')
        /\ \A n \in 1..MaxImports : imported[n].versions <= Len(versions')
    BY <1>1, <1>2, <1>3, <2>2
  <2> QED BY <1>1, <2>3, <2>4, <2>5, <2>6 DEF PortabilityInv, MarkingsCover

LEMMA CoverStep == PortabilityInv /\ PortabilityNext => MarkingsCover'
<1> SUFFICES ASSUME PortabilityInv, PortabilityNext PROVE MarkingsCover'
  OBVIOUS
<1>0. MarkingsCover /\ export \in ExportType /\ DOMAIN needs = 1..Len(versions) /\ Len(versions) \in Nat
  BY DEF PortabilityInv, PortabilityTyped
<1>1. ASSUME UNCHANGED <<sourceVars, import, imported>>,
             Len(export'.versions) <= Len(versions),
             export'.tables = 2 => \A v \in DOMAIN export'.versions : needs[v] \subseteq export'.marks,
             export'.pc = "archive" => export'.tables = 2
      PROVE  MarkingsCover'
  BY <1>0, <1>1 DEF MarkingsCover, sourceVars
<1>2. ASSUME UNCHANGED <<sourceVars, export>>, import'.rows \in {import.rows, Nothing},
             UNCHANGED imported \/ (imported' = [imported EXCEPT ![imports] = import.rows])
      PROVE  MarkingsCover'
  <2>1. import'.rows.versions <= Len(versions)
        /\ \A v \in 1..import'.rows.versions : needs[v] \subseteq import'.rows.marks
    BY <1>0, <1>2 DEF MarkingsCover, Nothing
  <2>2. \A n \in 1..MaxImports : imported'[n] \in {imported[n], import.rows}
    BY <1>2 DEF PortabilityInv, PortabilityTyped
  <2>3. \A n \in 1..MaxImports :
          /\ imported'[n].versions <= Len(versions)
          /\ \A v \in 1..imported'[n].versions : needs[v] \subseteq imported'[n].marks
    BY <1>0, <2>2 DEF MarkingsCover
  <2> QED BY <1>0, <1>2, <2>1, <2>3 DEF MarkingsCover, sourceVars
<1>3. ASSUME Plan PROVE MarkingsCover'
  <2>1. export'.versions = <<>> /\ export'.tables = 0 /\ export'.pc = "tables"
    BY <1>3 DEF Plan, NoExport
  <2> QED BY <1>0, <1>1, <1>3, <2>1 DEF Plan, targetVars
<1>4. ASSUME ReadTable PROVE MarkingsCover'
  <2>1. UNCHANGED <<sourceVars, import, imported>> /\ export.tables \in {0, 1} /\ export.pc = "tables"
    BY <1>0, <1>4 DEF ReadTable, targetVars, ExportType, ExportedTables
  <2>2. CASE export.tables = 0
    <3>1. export' = [export EXCEPT !.tables = 1, !.versions = versions]
      BY <1>4, <2>2 DEF ReadTable, ExportedTables
    <3> QED BY <1>0, <1>1, <2>1, <3>1 DEF ExportType
  <2>3. CASE export.tables = 1
    <3>1. export' = [export EXCEPT !.tables = 2, !.marks = marks]
      BY <1>4, <2>3 DEF ReadTable, ExportedTables
    <3>2. export'.versions = export.versions /\ export'.marks = marks /\ export'.pc = "tables"
      BY <1>0, <2>1, <3>1 DEF ExportType
    <3>3. \A v \in DOMAIN export.versions : v \in DOMAIN needs
      BY <1>0 DEF MarkingsCover, ExportType
    <3> QED BY <1>0, <1>1, <2>1, <3>2, <3>3 DEF MarkingsCover
  <2> QED BY <2>1, <2>2, <2>3
<1>5. ASSUME CloseArchive PROVE MarkingsCover'
  <2>1. export'.versions = export.versions /\ export'.marks = export.marks /\ export'.tables = 2
        /\ export.tables = 2
    BY <1>0, <1>5 DEF CloseArchive, ExportType, ExportedTables
  <2> QED BY <1>0, <1>1, <1>5, <2>1 DEF CloseArchive, targetVars, MarkingsCover
<1>6. ASSUME Truncate \/ Discard PROVE MarkingsCover'
  <2>1. export'.versions = <<>> /\ export'.tables = 0 /\ export'.pc = "idle"
    BY <1>6 DEF Truncate, Discard, NoExport
  <2> QED BY <1>0, <1>1, <1>6, <2>1 DEF Truncate, Discard, targetVars
<1>7. ASSUME Inspect PROVE MarkingsCover'
  <2>1. /\ import'.rows.versions = Len(export.versions) /\ import'.rows.marks = export.marks
        /\ export.pc = "archive" /\ UNCHANGED <<sourceVars, export, imported>>
    BY <1>7 DEF Inspect, NoImport, ArrivingRows
  <2>2. DOMAIN export.versions = 1..Len(export.versions)
    BY <1>0 DEF ExportType
  <2> QED BY <1>0, <2>1, <2>2 DEF MarkingsCover, sourceVars
<1>8. ASSUME Commit \/ UndoGate \/ Die PROVE MarkingsCover'
  <2>1. import'.rows = Nothing
    BY <1>8 DEF Commit, UndoGate, Die, NoImport
  <2> QED BY <1>2, <1>8, <2>1 DEF Commit, UndoGate, Die
<1>9. ASSUME WritePart \/ UndoPart \/ LandFile \/ UndoFile \/ ShutGate \/ CheckFiles \/ Fail
             \/ SavePipeline \/ AcknowledgePipelines
      PROVE  MarkingsCover'
  <2>1. import'.rows = import.rows
    BY <1>9, PartWritten, PartUndone, FileLanded, FileUndone
    DEF ShutGate, CheckFiles, Fail, SavePipeline, AcknowledgePipelines, PortabilityInv,
        PortabilityTyped, ImportType
  <2> QED
    BY <1>2, <1>9, <2>1 DEF WritePart, UndoPart, LandFile, UndoFile, ShutGate, CheckFiles, Fail,
       SavePipeline, AcknowledgePipelines
<1> QED
  BY <1>3, <1>4, <1>5, <1>6, <1>7, <1>8, <1>9, SourceKeepsCover DEF PortabilityNext

-----------------------------------------------------------------------------
\* The keys of an import are free when it begins.
LEMMA FreshKeys ==
    ASSUME PortabilityInv, Inspect
    PROVE  KeysAreItsOwn' /\ NothingDangles'
<1>01. PICK metadataOnly \in BOOLEAN :
         LET moved == IF metadataOnly THEN {} ELSE Relocated
         IN /\ import.pc = "idle" /\ imports < MaxImports /\ imports' = imports + 1
            /\ import' = [NoImport EXCEPT !.pc = "parts", !.skipped = Skipped,
                                          !.rows = ArrivingRows(metadataOnly, moved),
                                          !.arriving = Arriving(metadataOnly, moved)]
            /\ UNCHANGED <<own, storage, imported>>
  BY DEF Inspect
<1>1. PICK moved :
         /\ moved = IF metadataOnly THEN {} ELSE Relocated
         /\ import.pc = "idle" /\ imports < MaxImports /\ imports' = imports + 1
         /\ import' = [NoImport EXCEPT !.pc = "parts", !.skipped = Skipped,
                                       !.rows = ArrivingRows(metadataOnly, moved),
                                       !.arriving = Arriving(metadataOnly, moved)]
         /\ UNCHANGED <<own, storage, imported>>
  BY <1>01
<1>2. /\ PortabilityTyped /\ KeysAreItsOwn /\ NothingDangles
      /\ imports \in Nat /\ storage \in [Keys -> {"none", "own", "imported"}]
      /\ own \subseteq 1..MaxParts /\ imported \in [1..MaxImports -> RowsType]
      /\ export.planned \subseteq 1..MaxParts /\ export.versions \in Seq(SUBSET (1..MaxParts))
  BY DEF PortabilityInv, PortabilityTyped, ExportType
<1>3. PartsOf(export.versions) \subseteq 1..MaxParts
  BY <1>2, PartsAreNumbers
<1> DEFINE arriving == Arriving(metadataOnly, moved)
           coming == ArrivingRows(metadataOnly, moved)
<1>4. \A p \in 1..MaxParts : KeyOf(p, moved) \in Keys /\ KeyOf(p, moved)[2] \in {0, imports + 1}
  BY <1>1, <1>2, KeysFit
<1>5. \A k \in arriving : k \in Keys /\ storage[k] = "none" /\ k[2] <= imports + 1
  <2> SUFFICES ASSUME NEW k \in arriving
               PROVE  k \in Keys /\ storage[k] = "none" /\ k[2] <= imports + 1
    OBVIOUS
  <2>1. PICK p \in export.planned : k = KeyOf(p, moved) /\ moved = Relocated
    BY <1>1 DEF Arriving
  <2>2. k \in Keys /\ k = IF p \in Relocated THEN <<p, imports + 1>> ELSE <<p, 0>>
    BY <1>1, <1>2, <2>1, KeysFit
  <2>3. CASE p \in Relocated
    BY <1>2, <2>2, <2>3 DEF KeysAreItsOwn
  <2>4. CASE p \notin Relocated
    BY <1>2, <2>1, <2>2, <2>4 DEF Relocated
  <2> QED BY <2>3, <2>4
<1>6. \A k \in coming.keys : k[2] <= imports + 1
  <2>1. \A k \in coming.keys : \E p \in 1..MaxParts : k = KeyOf(p, moved)
    BY <1>3 DEF ArrivingRows
  <2> QED BY <1>2, <1>4, <2>1
<1>7. coming.data => coming.keys \subseteq arriving
  BY DEF ArrivingRows, DataIncluded, Arriving
<1>8. /\ import'.rows = coming /\ import'.arriving = arriving /\ import'.written = {}
      /\ import'.pc = "parts"
  BY <1>1 DEF NoImport
<1> HIDE DEF arriving, coming
<1>9. \A k \in Keys : k[2] \in Nat
  BY KeysAreNumbers
<1>10. \A k \in arriving :
          /\ \A p \in own : k # <<p, 0>>
          /\ \A n \in 1..MaxImports : imported[n].data => k \notin imported[n].keys
  BY <1>2, <1>5 DEF NothingDangles
<1>11. \A k \in Keys : k[2] > imports + 1 => storage[k] = "none"
  BY <1>2, <1>9 DEF KeysAreItsOwn
<1>12. \A n \in 1..MaxImports : \A k \in imported[n].keys : k[2] <= imports + 1
  <2>1. \A n \in 1..MaxImports : \A k \in imported[n].keys : k[2] \in Nat
    BY <1>2 DEF RowsType
  <2> QED BY <1>2, <2>1 DEF KeysAreItsOwn
<1>13. KeysAreItsOwn'
  BY <1>1, <1>5, <1>6, <1>7, <1>8, <1>10, <1>11, <1>12 DEF KeysAreItsOwn
<1> QED BY <1>1, <1>2, <1>13 DEF NothingDangles

LEMMA KeysStep == PortabilityInv /\ PortabilityNext => KeysAreItsOwn' /\ NothingDangles'
<1> SUFFICES ASSUME PortabilityInv, PortabilityNext PROVE KeysAreItsOwn' /\ NothingDangles'
  OBVIOUS
<1> DEFINE Goal == KeysAreItsOwn' /\ NothingDangles'
<1>0. /\ KeysAreItsOwn /\ NothingDangles /\ import \in ImportType /\ imports \in 0..MaxImports
      /\ storage \in [Keys -> {"none", "own", "imported"}]
      /\ imported \in [1..MaxImports -> RowsType] /\ own \subseteq 1..MaxParts
  BY DEF PortabilityInv, PortabilityTyped
<1>1. \A p \in own : <<p, 0>> \in Keys
  BY <1>0, PortabilityAssumption DEF Keys
<1>2. ASSUME UNCHANGED <<own, storage, imports, imported>>,
             import'.rows = import.rows, import'.arriving = import.arriving,
             import'.written = import.written,
             import'.pc \in {"check", "land"} => import.written = import.arriving,
             import'.pc \in {"parts", "check", "land"} => import.written \subseteq import.arriving
      PROVE  Goal
  BY <1>0, <1>2 DEF KeysAreItsOwn, NothingDangles
<1>3. ASSUME UNCHANGED <<own, storage, imports>>, import' = NoImport,
             UNCHANGED imported
             \/ (imported' = [imported EXCEPT ![imports] = import.rows] /\ import.pc = "land")
      PROVE  Goal
  <2>1. /\ import'.pc = "idle" /\ import'.rows.data = FALSE /\ import'.rows.keys = {}
        /\ import'.arriving = {} /\ import'.written = {}
    BY <1>3 DEF NoImport, Nothing
  <2>2. CASE UNCHANGED imported
    BY <1>0, <1>3, <2>1, <2>2 DEF KeysAreItsOwn, NothingDangles
  <2>3. CASE imported' = [imported EXCEPT ![imports] = import.rows] /\ import.pc = "land"
    <3>1. \A n \in 1..MaxImports : imported'[n] \in {imported[n], import.rows}
      BY <1>0, <2>3
    <3>2. import.rows.data => \A k \in import.rows.keys : storage[k] = "imported"
      BY <1>0, <2>3 DEF KeysAreItsOwn
    <3>3. \A n \in 1..MaxImports :
             /\ \A k \in imported'[n].keys : k[2] <= imports
             /\ imported'[n].data => \A k \in imported'[n].keys : storage[k] = "imported"
      BY <1>0, <3>1, <3>2 DEF KeysAreItsOwn, NothingDangles
    <3> QED BY <1>0, <1>3, <2>1, <3>3 DEF KeysAreItsOwn, NothingDangles
  <2> QED BY <1>3, <2>2, <2>3
<1>4. ASSUME WritePart PROVE Goal
  <2>1. PICK k \in import.arriving \ import.written :
              /\ storage' = [storage EXCEPT ![k] = "imported"]
              /\ import' = [import EXCEPT !.written = @ \cup {k}]
    BY <1>4, PartWritten
  <2>2. UNCHANGED <<own, imports, imported>> /\ import.pc = "parts"
    BY <1>4 DEF WritePart
  <2>3. /\ import'.rows = import.rows /\ import'.arriving = import.arriving
        /\ import'.written = import.written \cup {k} /\ import'.pc = "parts"
        /\ k \in Keys
    BY <1>0, <2>1, <2>2 DEF ImportType
  <2>4. \A l \in Keys : storage'[l] = IF l = k THEN "imported" ELSE storage[l]
    BY <1>0, <2>1
  <2>5. /\ \A p \in own : k # <<p, 0>> 
        /\ k[2] <= imports
    BY <1>0, <2>1 DEF KeysAreItsOwn
  <2>6. \A l \in Keys : storage[l] = "imported" => storage'[l] = "imported"
    BY <2>4
  <2>7. \A l \in Keys : l[2] > imports => storage'[l] = "none"
    BY <1>0, <2>3, <2>4, <2>5, KeysAreNumbers DEF KeysAreItsOwn
  <2>8. \A n \in 1..MaxImports : imported[n].data => \A l \in imported[n].keys : storage'[l] = "imported"
    BY <1>0, <2>1, <2>3 DEF NothingDangles
  <2>9. \A l \in import.written \cup {k} : storage'[l] = "imported"
    BY <1>0, <2>1, <2>3 DEF KeysAreItsOwn
  <2>10. KeysAreItsOwn'
    BY <1>0, <2>1, <2>2, <2>3, <2>7, <2>9 DEF KeysAreItsOwn
  <2>11. NothingDangles'
    BY <1>0, <1>1, <2>2, <2>4, <2>5, <2>8 DEF NothingDangles
  <2> QED BY <2>10, <2>11
<1>5. ASSUME UndoPart PROVE Goal
  <2>1. PICK k \in import.written :
              /\ storage' = [storage EXCEPT ![k] = "none"]
              /\ import' = [import EXCEPT !.written = @ \ {k}]
    BY <1>5, PartUndone
  <2>2. UNCHANGED <<own, imports, imported>> /\ import.pc = "undo"
    BY <1>5 DEF UndoPart
  <2>3. /\ import'.rows = import.rows /\ import'.arriving = import.arriving
        /\ import'.written = import.written \ {k} /\ import'.pc = "undo"
        /\ k \in Keys
    BY <1>0, <2>1, <2>2 DEF ImportType
  <2>4. \A l \in Keys : storage'[l] = IF l = k THEN "none" ELSE storage[l]
    BY <1>0, <2>1
  <2>5. /\ \A p \in own : k # <<p, 0>>
        /\ \A n \in 1..MaxImports : imported[n].data => k \notin imported[n].keys
    BY <1>0, <2>1 DEF KeysAreItsOwn
  <2>6. \A n \in 1..MaxImports : imported[n].data => \A l \in imported[n].keys : storage'[l] = "imported"
    BY <1>0, <2>1, <2>5 DEF NothingDangles
  <2>7. \A l \in import.written \ {k} : storage'[l] = "imported"
    BY <1>0, <2>1 DEF KeysAreItsOwn
  <2>8. KeysAreItsOwn'
    BY <1>0, <2>2, <2>3, <2>4, <2>7 DEF KeysAreItsOwn
  <2>9. NothingDangles'
    BY <1>0, <1>1, <2>2, <2>4, <2>5, <2>6 DEF NothingDangles
  <2> QED BY <2>8, <2>9
<1>6. ASSUME LandFile PROVE Goal
  <2>1. import'.rows = import.rows /\ import'.arriving = import.arriving
        /\ import'.written = import.written /\ import'.pc = import.pc
    BY <1>0, <1>6, FileLanded DEF ImportType
  <2> QED BY <1>0, <1>2, <1>6, <2>1 DEF LandFile, KeysAreItsOwn
<1>7. ASSUME UndoFile PROVE Goal
  <2>1. import'.rows = import.rows /\ import'.arriving = import.arriving
        /\ import'.written = import.written /\ import'.pc = import.pc
    BY <1>0, <1>7, FileUndone DEF ImportType
  <2> QED BY <1>0, <1>2, <1>7, <2>1 DEF UndoFile, KeysAreItsOwn
<1>8. ASSUME ShutGate \/ CheckFiles \/ Fail PROVE Goal
  <2>1. import'.rows = import.rows /\ import'.arriving = import.arriving
        /\ import'.written = import.written
    BY <1>0, <1>8 DEF ShutGate, CheckFiles, Fail, ImportType
  <2>2. UNCHANGED <<own, storage, imports, imported>>
    BY <1>8 DEF ShutGate, CheckFiles, Fail
  <2>3. CASE ShutGate
    BY <1>0, <1>2, <2>1, <2>2, <2>3 DEF ShutGate
  <2>4. CASE CheckFiles
    BY <1>0, <1>2, <2>1, <2>2, <2>4 DEF CheckFiles, KeysAreItsOwn
  <2>5. CASE Fail
    BY <1>0, <1>2, <2>1, <2>2, <2>5 DEF Fail, ImportType
  <2> QED BY <1>8, <2>3, <2>4, <2>5
<1>9. ASSUME Commit \/ UndoGate \/ Die PROVE Goal
  <2>1. import' = NoImport /\ UNCHANGED <<own, storage, imports>>
    BY <1>9 DEF Commit, UndoGate, Die
  <2>2. UNCHANGED imported
        \/ (imported' = [imported EXCEPT ![imports] = import.rows] /\ import.pc = "land")
    BY <1>9 DEF Commit, UndoGate, Die
  <2> HIDE DEF Goal
  <2> QED BY <1>3, <2>1, <2>2
<1>10. ASSUME CommitVersion \/ Mark \/ Unmark \/ Plan \/ ReadTable \/ CloseArchive \/ Truncate
              \/ Discard \/ SavePipeline \/ AcknowledgePipelines
       PROVE  Goal
  <2>2. ASSUME UNCHANGED <<own, storage, imports, imported, import>> PROVE Goal
    BY <1>0, <2>2 DEF KeysAreItsOwn, NothingDangles
  <2>1. UNCHANGED <<own, storage, imports, imported, import>>
    BY <1>10 DEF CommitVersion, Mark, Unmark, Plan, ReadTable, CloseArchive, Truncate, Discard,
       SavePipeline, AcknowledgePipelines, targetVars
  <2> QED BY <2>1, <2>2
<1> HIDE DEF Goal
<1>11. Goal
  BY <1>4, <1>5, <1>6, <1>7, <1>8, <1>9, <1>10, FreshKeys DEF PortabilityNext, Goal
<1> QED BY <1>11 DEF Goal

\* The files are the target's, or an import's, and wait behind the gate.
LEMMA FilesStep == PortabilityInv /\ PortabilityNext => FilesAreItsOwn' /\ ImportedCodeWaits'
<1> SUFFICES ASSUME PortabilityInv, PortabilityNext PROVE FilesAreItsOwn' /\ ImportedCodeWaits'
  OBVIOUS
<1> DEFINE Goal == FilesAreItsOwn' /\ ImportedCodeWaits'
<1>0. /\ FilesAreItsOwn /\ ImportedCodeWaits /\ import \in ImportType /\ imports \in 0..MaxImports
      /\ files \in [Files -> Int] /\ gate \in {"absent", "shut", "acknowledged"}
      /\ admitted \subseteq 1..imports
  BY DEF PortabilityInv, PortabilityTyped
<1>00. import.landed \subseteq Files
  BY <1>0 DEF ImportType
<1>1. ASSUME UNCHANGED <<files, gate, imports, admitted>>,
             import'.landed = import.landed, import'.skipped = import.skipped,
             import'.backup = import.backup,
             import'.pc = import.pc \/ (import.pc = "check" /\ import'.pc = "land")
             \/ (import.pc # "idle" /\ import'.pc = "undo")
      PROVE  Goal
  BY <1>0, <1>1 DEF FilesAreItsOwn, ImportedCodeWaits
<1>2. ASSUME UNCHANGED <<files, gate, imports, admitted>>, import' = NoImport PROVE Goal
  <2>1. import'.pc = "idle" /\ import'.landed = {} /\ import'.backup = "none"
    BY <1>2 DEF NoImport
  <2> QED BY <1>0, <1>2, <2>1 DEF FilesAreItsOwn, ImportedCodeWaits
<1>3. ASSUME Inspect PROVE Goal
  <2>1. /\ import'.pc = "parts" /\ import'.landed = {} /\ import'.backup = "none"
        /\ imports' = imports + 1 /\ imports < MaxImports /\ UNCHANGED <<files, gate, admitted>>
    BY <1>3 DEF Inspect, NoImport
  <2>2. \A f \in Files : files[f] <= imports + 1 /\ files[f] # imports + 1
    BY <1>0 DEF FilesAreItsOwn
  <2>3. {f \in Files : files[f] = imports + 1} = {} /\ imports + 1 > 0
    BY <1>0, <2>2
  <2>4. FilesAreItsOwn'
    BY <2>1, <2>2, <2>3 DEF FilesAreItsOwn
  <2> QED BY <1>0, <2>1, <2>4 DEF ImportedCodeWaits
<1>4. ASSUME ShutGate PROVE Goal
  <2>1. /\ import'.pc = "check" /\ import'.landed = import.landed /\ import'.backup = gate
        /\ import'.skipped = import.skipped
        /\ import.pc = "parts" /\ gate' = "shut" /\ UNCHANGED <<files, imports, admitted>>
    BY <1>0, <1>4 DEF ShutGate, ImportType
  <2> QED BY <1>0, <2>1 DEF FilesAreItsOwn, ImportedCodeWaits
<1>5. ASSUME LandFile PROVE Goal
  <2>1. PICK f \in Files \ (import.skipped \cup import.landed) :
              /\ files' = [files EXCEPT ![f] = imports]
              /\ import' = [import EXCEPT !.landed = @ \cup {f}]
    BY <1>5, FileLanded
  <2>2. /\ import'.pc = "land" /\ import'.landed = import.landed \cup {f}
        /\ import'.skipped = import.skipped /\ import'.backup = import.backup
        /\ import.pc = "land" /\ UNCHANGED <<gate, imports, admitted>>
    BY <1>0, <1>5, <2>1 DEF LandFile, ImportType
  <2>3. \A o \in Files : files'[o] = IF o = f THEN imports ELSE files[o]
    BY <1>0, <2>1
  <2>4. import'.landed = {o \in Files : files'[o] = imports}
    BY <1>0, <2>1, <2>2, <2>3 DEF FilesAreItsOwn
  <2>5. FilesAreItsOwn'
    BY <1>0, <2>1, <2>2, <2>3, <2>4 DEF FilesAreItsOwn
  <2> QED BY <1>0, <2>2, <2>3, <2>5 DEF FilesAreItsOwn, ImportedCodeWaits
<1>6. ASSUME UndoFile PROVE Goal
  <2>1. PICK f \in import.landed :
              /\ files' = [files EXCEPT ![f] = 0]
              /\ import' = [import EXCEPT !.landed = @ \ {f}]
    BY <1>6, FileUndone
  <2>2. /\ import'.pc = "undo" /\ import'.landed = import.landed \ {f}
        /\ import'.skipped = import.skipped /\ import'.backup = import.backup
        /\ import.pc = "undo" /\ UNCHANGED <<gate, imports, admitted>>
    BY <1>0, <1>6, <2>1 DEF UndoFile, ImportType
  <2>3. \A o \in Files : files'[o] = IF o = f THEN 0 ELSE files[o]
    BY <1>0, <2>1
  <2>4. import'.landed = {o \in Files : files'[o] = imports}
    BY <1>0, <1>00, <2>1, <2>2, <2>3 DEF FilesAreItsOwn
  <2>5. FilesAreItsOwn'
    BY <1>0, <1>00, <2>1, <2>2, <2>3, <2>4 DEF FilesAreItsOwn
  <2> QED BY <1>0, <2>2, <2>3, <2>5 DEF FilesAreItsOwn, ImportedCodeWaits
<1>7. ASSUME UndoGate PROVE Goal
  <2>1. /\ import'.pc = "idle" /\ import'.landed = {} /\ import'.backup = "none"
        /\ gate' = IF import.backup = "none" THEN gate ELSE import.backup
        /\ import.pc = "undo" /\ import.landed = {} /\ UNCHANGED <<files, imports, admitted>>
    BY <1>7 DEF UndoGate, NoImport, AllUndone
  <2>2. \A f \in Files : files[f] # imports
    BY <1>0, <2>1 DEF FilesAreItsOwn
  <2>3. ImportedCodeWaits'
    BY <1>0, <2>1, <2>2 DEF FilesAreItsOwn, ImportedCodeWaits
  <2> QED BY <1>0, <2>1, <2>3 DEF FilesAreItsOwn
<1>8. ASSUME SavePipeline PROVE Goal
  <2>1. PICK f \in Files : files[f] = 0 /\ files' = [files EXCEPT ![f] = Own]
    BY <1>8 DEF SavePipeline
  <2>2. UNCHANGED <<import, gate, imports, admitted>>
    BY <1>8 DEF SavePipeline
  <2>3. \A o \in Files : files'[o] = IF o = f THEN -1 ELSE files[o]
    BY <1>0, <2>1 DEF Own
  <2>4. import.pc # "idle" => {o \in Files : files'[o] = imports} = {o \in Files : files[o] = imports}
    BY <1>0, <2>1, <2>3 DEF FilesAreItsOwn
  <2>5. FilesAreItsOwn'
    BY <1>0, <2>1, <2>2, <2>3, <2>4 DEF FilesAreItsOwn
  <2> QED BY <1>0, <2>2, <2>3, <2>5 DEF ImportedCodeWaits
<1>9. ASSUME AcknowledgePipelines PROVE Goal
  <2>1. admitted' = 1..imports /\ UNCHANGED <<files, import, imports>>
    BY <1>9 DEF AcknowledgePipelines
  <2>2. \A f \in Files : files[f] \notin (1..MaxImports) \ (1..imports)
    BY <1>0 DEF FilesAreItsOwn
  <2>3. import.pc # "idle" => imports \in 1..imports
    BY <1>0 DEF FilesAreItsOwn
  <2> QED BY <1>0, <2>1, <2>2, <2>3 DEF FilesAreItsOwn, ImportedCodeWaits
<1>10. ASSUME Commit \/ Die PROVE Goal
  BY <1>2, <1>10 DEF Commit, Die
<1>11. ASSUME CheckFiles \/ Fail PROVE Goal
  <2>1. /\ import'.landed = import.landed /\ import'.skipped = import.skipped
        /\ import'.backup = import.backup
        /\ (import.pc = "check" /\ import'.pc = "land") \/ (import.pc # "idle" /\ import'.pc = "undo")
    BY <1>0, <1>11 DEF CheckFiles, Fail, ImportType
  <2> QED BY <1>1, <1>11, <2>1 DEF CheckFiles, Fail
<1>12. ASSUME WritePart PROVE Goal
  <2>1. /\ import'.landed = import.landed /\ import'.skipped = import.skipped
        /\ import'.backup = import.backup /\ import'.pc = import.pc
    BY <1>0, <1>12, PartWritten DEF ImportType
  <2>2. UNCHANGED <<files, gate, imports, admitted>>
    BY <1>12 DEF WritePart
  <2> QED BY <1>1, <2>1, <2>2
<1>13. ASSUME UndoPart PROVE Goal
  <2>1. /\ import'.landed = import.landed /\ import'.skipped = import.skipped
        /\ import'.backup = import.backup /\ import'.pc = import.pc
    BY <1>0, <1>13, PartUndone DEF ImportType
  <2>2. UNCHANGED <<files, gate, imports, admitted>>
    BY <1>13 DEF UndoPart
  <2> QED BY <1>1, <2>1, <2>2
<1>14. ASSUME CommitVersion \/ Mark \/ Unmark \/ Plan \/ ReadTable \/ CloseArchive \/ Truncate
              \/ Discard
       PROVE  Goal
  <2>1. UNCHANGED <<files, gate, imports, admitted, import>>
    BY <1>14 DEF CommitVersion, Mark, Unmark, Plan, ReadTable, CloseArchive, Truncate, Discard,
       targetVars
  <2> QED BY <1>1, <2>1
<1> HIDE DEF Goal
<1>15. Goal
  BY <1>3, <1>4, <1>5, <1>6, <1>7, <1>8, <1>9, <1>10, <1>11, <1>12, <1>13, <1>14
  DEF PortabilityNext
<1> QED BY <1>15 DEF Goal

\* What an import has left, and what a failed one has, trips nobody up.
THEOREM ImportsAlwaysHold == PortabilitySpec => []ImportsHold
<1>1. PortabilityInv /\ [PortabilityNext]_portabilityVars => PortabilityInv'
  <2>1. PortabilityInv /\ PortabilityNext => PortabilityInv'
    BY TypedStep, CoverStep, KeysStep, FilesStep DEF PortabilityInv
  <2>2. PortabilityInv /\ UNCHANGED portabilityVars => PortabilityInv'
    BY DEF portabilityVars, PortabilityInv, PortabilityTyped, MarkingsCover, KeysAreItsOwn,
       FilesAreItsOwn, NothingDangles, ImportedCodeWaits
  <2> QED BY <2>1, <2>2
<1>2. PortabilityInv => ImportsHold
  BY DEF PortabilityInv, MarkingsCover, ImportsHold, ArrivesWhole, TravelsWithItsMarkings
<1> QED BY PortabilityInvInit, <1>1, <1>2, PTL DEF PortabilitySpec

(***************************************************************************)
(* Governed objects: what the overlay of a key and its row give.           *)
(***************************************************************************)
RowColumns == {"realm", "secret"}
RowContents == Realms \cup Actors \cup {"null", "old"}
RowValues == [RowColumns -> RowContents]
Held == {Absent} \cup {<<r>> : r \in RowValues}
Sets == UNION {[D -> RowContents] : D \in SUBSET RowColumns}
Overlays == [deleted : BOOLEAN, updated : {<<>>} \cup {<<s>> : s \in Sets}, created : Held]
LogEdits == [kind : {"create", "update", "delete"}, key : Holders, by : Actors, set : Sets]

LEMMA SetsAre ==
    ASSUME NEW s
    PROVE  s \in Sets <=> DOMAIN s \subseteq RowColumns /\ s \in [DOMAIN s -> RowContents]
BY DEF Sets

LEMMA OverIs ==
    ASSUME NEW r \in RowValues, NEW s \in Sets
    PROVE  /\ Over(r, s) \in RowValues
           /\ \A col \in RowColumns : Over(r, s)[col] = IF col \in DOMAIN s THEN s[col] ELSE r[col]
<1>1. DOMAIN r = RowColumns /\ DOMAIN s \subseteq RowColumns /\ \A col \in DOMAIN s : s[col] \in RowContents
  BY SetsAre DEF RowValues
<1>2. \A col \in RowColumns : r[col] \in RowContents
  BY DEF RowValues
<1> QED BY <1>1, <1>2 DEF Over, RowValues

\* Two updates of a row, one after the other.
Both(s, t) == [col \in DOMAIN s \cup DOMAIN t |-> IF col \in DOMAIN t THEN t[col] ELSE s[col]]

LEMMA BothIs ==
    ASSUME NEW s \in Sets, NEW t \in Sets
    PROVE  /\ Both(s, t) \in Sets
           /\ \A r \in RowValues : Over(r, Both(s, t)) = Over(Over(r, s), t)
<1> DEFINE b == Both(s, t)
<1>1. /\ DOMAIN s \subseteq RowColumns /\ DOMAIN t \subseteq RowColumns
      /\ (\A col \in DOMAIN s : s[col] \in RowContents) /\ (\A col \in DOMAIN t : t[col] \in RowContents)
  BY SetsAre
<1>2. /\ DOMAIN b = DOMAIN s \cup DOMAIN t
      /\ \A col \in DOMAIN b : b[col] = IF col \in DOMAIN t THEN t[col] ELSE s[col]
      /\ b = [col \in DOMAIN b |-> b[col]]
  BY DEF Both
<1> HIDE DEF b
<1>3. b \in Sets
  <2>1. \A col \in DOMAIN b : b[col] \in RowContents
    BY <1>1, <1>2
  <2>2. b \in [DOMAIN b -> RowContents]
    BY <1>2, <2>1
  <2> QED BY <1>1, <1>2, <2>2, SetsAre
<1>4. ASSUME NEW r \in RowValues PROVE Over(r, b) = Over(Over(r, s), t)
  <2> DEFINE x == Over(r, b)
             y == Over(Over(r, s), t)
  <2>1. Over(r, s) \in RowValues
    BY OverIs
  <2>2. x \in RowValues /\ y \in RowValues
    BY <1>3, <2>1, OverIs
  <2>3. \A col \in RowColumns : x[col] = IF col \in DOMAIN b THEN b[col] ELSE r[col]
    BY <1>3, OverIs
  <2>4. \A col \in RowColumns : y[col] = IF col \in DOMAIN t THEN t[col] ELSE Over(r, s)[col]
    BY <2>1, OverIs
  <2>5. \A col \in RowColumns : Over(r, s)[col] = IF col \in DOMAIN s THEN s[col] ELSE r[col]
    BY OverIs
  <2> HIDE DEF x, y
  <2>6. \A col \in RowColumns : x[col] = y[col]
    BY <1>2, <2>3, <2>4, <2>5
  <2>7. x = y
    BY <2>2, <2>6 DEF RowValues
  <2> QED BY <2>7 DEF x, y
<1> QED BY <1>3, <1>4 DEF b

LEMMA PolicedOver ==
    ASSUME NEW u, NEW r \in RowValues, NEW s \in Sets
    PROVE  Over(Policed(u, r), Policed(u, s)) = Policed(u, Over(r, s))
<1>1. DOMAIN r = RowColumns /\ DOMAIN s \subseteq RowColumns
  BY SetsAre DEF RowValues
<1>2. /\ DOMAIN Policed(u, r) = RowColumns /\ DOMAIN Policed(u, s) = DOMAIN s
      /\ \A col \in RowColumns :
            Policed(u, r)[col] = IF col = "secret" /\ u \in MaskedFor THEN "***" ELSE r[col]
      /\ \A col \in DOMAIN s :
            Policed(u, s)[col] = IF col = "secret" /\ u \in MaskedFor THEN "***" ELSE s[col]
  BY <1>1 DEF Policed
<1> DEFINE x == Policed(u, r)
           y == Policed(u, s)
           z == Over(r, s)
<1>3. DOMAIN z = RowColumns /\ \A col \in RowColumns : z[col] = IF col \in DOMAIN s THEN s[col] ELSE r[col]
  BY <1>1 DEF Over
<1> HIDE DEF x, y, z
<1>4. Over(x, y) = [col \in RowColumns |-> IF col \in DOMAIN y THEN y[col] ELSE x[col]]
  BY <1>2 DEF Over, x
<1>5. Policed(u, z) = [col \in RowColumns |-> IF col = "secret" /\ u \in MaskedFor THEN "***" ELSE z[col]]
  BY <1>3 DEF Policed
<1>6. \A col \in RowColumns :
        (IF col \in DOMAIN y THEN y[col] ELSE x[col])
          = IF col = "secret" /\ u \in MaskedFor THEN "***" ELSE z[col]
  BY <1>1, <1>2, <1>3 DEF x, y
<1> QED BY <1>4, <1>5, <1>6 DEF x, y, z

LEMMA CreatedIs ==
    ASSUME NEW s \in Sets
    PROVE  Created(s) \in RowValues
<1> DEFINE r == [realm |-> "null", secret |-> "null"]
<1>1. r \in RowValues
  BY DEF RowValues, RowColumns, RowContents
<1> HIDE DEF r
<1>2. Over(r, s) \in RowValues
  BY <1>1, OverIs
<1> QED BY <1>2 DEF Created, r

LEMMA OverlayTyped ==
    /\ Untouched \in Overlays
    /\ \A o \in Overlays, e \in LogEdits : Replay(o, e) \in Overlays
<1>1. Untouched \in Overlays
  BY DEF Untouched, Overlays, Held
<1>2. ASSUME NEW o \in Overlays, NEW e \in LogEdits PROVE Replay(o, e) \in Overlays
  <2>1. e.set \in Sets /\ e.kind \in {"create", "update", "delete"} /\ Created(e.set) \in RowValues
    BY CreatedIs DEF LogEdits
  <2>2. CASE e.kind = "create"
    <3> DEFINE x == Created(e.set)
    <3>1. Replay(o, e) = [deleted |-> FALSE, updated |-> <<>>, created |-> <<x>>]
      BY <2>2 DEF Replay, Untouched
    <3> HIDE DEF x
    <3>2. <<x>> \in Held
      BY <2>1 DEF Held, x
    <3> QED BY <3>1, <3>2 DEF Overlays
  <2>3. CASE e.kind = "delete"
    BY <2>3 DEF Replay, Untouched, Overlays, Held
  <2>4. CASE e.kind = "update" /\ o.created # Absent
    <3> DEFINE x == Over(o.created[1], e.set)
    <3>1. Replay(o, e) = [o EXCEPT !.created = <<x>>]
      BY <2>4 DEF Replay
    <3>2. o.created[1] \in RowValues
      BY <2>4 DEF Overlays, Held
    <3>3. x \in RowValues
      BY <2>1, <3>2, OverIs
    <3> HIDE DEF x
    <3>4. <<x>> \in Held
      BY <3>3 DEF Held
    <3> QED BY <3>1, <3>4 DEF Overlays
  <2>5. CASE e.kind = "update" /\ o.created = Absent
    <3> DEFINE x == IF o.updated = <<>> THEN e.set ELSE Both(o.updated[1], e.set)
    <3>1. Replay(o, e) = [o EXCEPT !.updated = <<x>>]
      BY <2>5 DEF Replay, Both
    <3>2. o.updated # <<>> => o.updated[1] \in Sets
      BY DEF Overlays
    <3>3. x \in Sets
      BY <2>1, <3>2, BothIs
    <3> HIDE DEF x
    <3> QED BY <3>1, <3>3 DEF Overlays
  <2> QED BY <2>1, <2>2, <2>3, <2>4, <2>5
<1> QED BY <1>1, <1>2

\* An object, as u reads it and as it is, given its row and its overlay.
SeenAs(u, held, o) ==
    LET row == Rendered(u, held)
        set == IF o.updated = <<>> THEN <<>> ELSE o.updated[1] IN
    IF o.created # Absent /\ Admits(u, o.created[1].realm) THEN Rendered(u, o.created)
    ELSE IF o.deleted \/ row = Absent THEN Absent
    ELSE IF o.updated = <<>> THEN row
    ELSE IF Escapes(u, set) THEN Absent ELSE <<Over(row[1], Policed(u, set))>>

ActualAs(held, o) ==
    IF o.created # Absent THEN o.created
    ELSE IF o.deleted \/ held = Absent THEN Absent
    ELSE IF o.updated = <<>> THEN held ELSE <<Over(held[1], o.updated[1])>>

LEMMA HeldIs == ASSUME NEW x \in Held, x # Absent PROVE x[1] \in RowValues /\ x = <<x[1]>>
BY DEF Held

LEMMA ActualTyped ==
    ASSUME NEW held \in Held, NEW o \in Overlays
    PROVE  ActualAs(held, o) \in Held
<1>1. o.created \in Held /\ (o.updated # <<>> => o.updated[1] \in Sets)
  BY DEF Overlays
<1>2. CASE o.created = Absent /\ held # Absent /\ o.updated # <<>>
  <2> DEFINE x == Over(held[1], o.updated[1])
  <2>1. x \in RowValues
    BY <1>1, <1>2, HeldIs, OverIs
  <2> HIDE DEF x
  <2>2. <<x>> \in Held
    BY <2>1 DEF Held
  <2> QED BY <1>1, <2>2 DEF ActualAs, Held, x
<1>3. CASE ~(o.created = Absent /\ held # Absent /\ o.updated # <<>>)
  BY <1>1, <1>3 DEF ActualAs, Held
<1> QED BY <1>2, <1>3

LEMMA ReadsAs ==
    ASSUME NEW u, NEW held \in Held, NEW o \in Overlays, SeenAs(u, held, o) # Absent,
           held = Absent \/ o.created = Absent
    PROVE  SeenAs(u, held, o) = Rendered(u, ActualAs(held, o))
<1>1. o.created \in Held /\ (o.updated # <<>> => o.updated[1] \in Sets)
  BY DEF Overlays
<1>2. CASE o.created # Absent
  <2>1. Rendered(u, held) = Absent
    BY <1>2 DEF Rendered
  <2> QED BY <1>2, <2>1 DEF SeenAs, ActualAs
<1>3. CASE o.created = Absent
  <2>1. Rendered(u, held) # Absent /\ held # Absent /\ ~o.deleted /\ Admits(u, held[1].realm)
    BY <1>3 DEF SeenAs, Rendered
  <2>2. CASE o.updated = <<>>
    BY <1>3, <2>1, <2>2 DEF SeenAs, ActualAs
  <2>3. CASE o.updated # <<>>
    <3> DEFINE r == held[1]
               s == o.updated[1]
    <3>1. r \in RowValues /\ s \in Sets
      BY <1>1, <2>1, <2>3, HeldIs
    <3>2. ~Escapes(u, s) /\ SeenAs(u, held, o) = <<Over(Rendered(u, held)[1], Policed(u, s))>>
      BY <1>3, <2>1, <2>3 DEF SeenAs
    <3>3. Rendered(u, held)[1] = Policed(u, r)
      BY <2>1 DEF Rendered
    <3>4. ActualAs(held, o) = <<Over(r, s)>>
      BY <1>3, <2>1, <2>3 DEF ActualAs
    <3> HIDE DEF r, s
    <3>5. "realm" \in DOMAIN s => Admits(u, s["realm"])
      BY <3>2 DEF Escapes
    <3>6. Admits(u, Over(r, s)["realm"])
      <4>1. Over(r, s)["realm"] = IF "realm" \in DOMAIN s THEN s["realm"] ELSE r["realm"]
        BY <3>1, OverIs DEF RowColumns
      <4>2. Admits(u, r["realm"])
        BY <2>1 DEF r
      <4> QED BY <3>5, <4>1, <4>2
    <3>7. Over(Policed(u, r), Policed(u, s)) = Policed(u, Over(r, s))
      BY <3>1, PolicedOver
    <3> DEFINE x == Over(r, s)
    <3> HIDE DEF x
    <3>8. Rendered(u, <<x>>) = <<Policed(u, x)>>
      BY <3>6 DEF Rendered, Absent, x
    <3> QED BY <3>2, <3>3, <3>4, <3>7, <3>8 DEF x
  <2> QED BY <2>2, <2>3
<1> QED BY <1>2, <1>3

\* What somebody sees passes his policy.
LEMMA SeenIsAdmitted ==
    ASSUME NEW u, NEW held \in Held, NEW o \in Overlays, SeenAs(u, held, o) # Absent,
           held = Absent \/ o.created = Absent
    PROVE  ActualAs(held, o) # Absent /\ Admits(u, ActualAs(held, o)[1].realm)
BY ReadsAs DEF Rendered

LEMMA UpdateMakes ==
    ASSUME NEW held \in Held, NEW o \in Overlays, NEW e \in LogEdits, e.kind = "update"
    PROVE  ActualAs(held, Replay(o, e))
             = IF ActualAs(held, o) = Absent THEN Absent ELSE <<Over(ActualAs(held, o)[1], e.set)>>
<1>1. o.created \in Held /\ (o.updated # <<>> => o.updated[1] \in Sets) /\ e.set \in Sets
  BY DEF Overlays, LogEdits
<1>2. CASE o.created # Absent
  <2> DEFINE x == Over(o.created[1], e.set)
  <2>1. Replay(o, e) = [o EXCEPT !.created = <<x>>]
    BY <1>2 DEF Replay
  <2> HIDE DEF x
  <2>2. Replay(o, e).created = <<x>> /\ <<x>> # Absent
    BY <2>1 DEF Overlays, Absent
  <2> QED BY <1>2, <2>2 DEF ActualAs, x
<1>3. CASE o.created = Absent
  <2> DEFINE x == IF o.updated = <<>> THEN e.set ELSE Both(o.updated[1], e.set)
             p == Replay(o, e)
  <2>1. p = [o EXCEPT !.updated = <<x>>]
    BY <1>3 DEF Replay, Both
  <2> HIDE DEF x, p
  <2>2. /\ p.created = Absent /\ (p.deleted <=> o.deleted)
        /\ p.updated = <<x>> /\ <<x>> # <<>> /\ p.updated[1] = x
    BY <1>3, <2>1 DEF Overlays
  <2>3. CASE o.deleted \/ held = Absent
    BY <1>3, <2>2, <2>3 DEF ActualAs, p
  <2>4. CASE ~o.deleted /\ held # Absent
    <3>1. held[1] \in RowValues /\ held = <<held[1]>>
      BY <2>4, HeldIs
    <3>2. ActualAs(held, p) = <<Over(held[1], x)>>
      BY <2>2, <2>4 DEF ActualAs
    <3>3. CASE o.updated = <<>>
      BY <1>3, <2>4, <3>2, <3>3 DEF ActualAs, x, p
    <3>4. CASE o.updated # <<>>
      <4>1. Over(held[1], x) = Over(Over(held[1], o.updated[1]), e.set)
        BY <1>1, <3>1, <3>4, BothIs DEF x
      <4> DEFINE y == Over(held[1], o.updated[1])
      <4>2. ActualAs(held, o) = <<y>>
        BY <1>3, <2>4, <3>4 DEF ActualAs
      <4> HIDE DEF y
      <4>3. <<y>> # Absent /\ <<y>>[1] = y
        BY DEF Absent
      <4> QED BY <3>2, <4>1, <4>2, <4>3 DEF y, p
    <3> QED BY <3>3, <3>4
  <2> QED BY <2>3, <2>4
<1> QED BY <1>2, <1>3

LEMMA CreateOrDelete ==
    ASSUME NEW held \in Held, NEW o \in Overlays, NEW e \in LogEdits
    PROVE  /\ e.kind = "create" => ActualAs(held, Replay(o, e)) = <<Created(e.set)>>
           /\ e.kind = "delete" => ActualAs(held, Replay(o, e)) = Absent
<1>1. ASSUME e.kind = "create" PROVE ActualAs(held, Replay(o, e)) = <<Created(e.set)>>
  <2> DEFINE x == Created(e.set)
  <2>1. Replay(o, e).created = <<x>> /\ <<x>> # Absent
    BY <1>1 DEF Replay, Untouched, Absent
  <2> QED BY <2>1 DEF ActualAs
<1>2. ASSUME e.kind = "delete" PROVE ActualAs(held, Replay(o, e)) = Absent
  <2>1. Replay(o, e).created = Absent /\ Replay(o, e).deleted
    BY <1>2 DEF Replay, Untouched
  <2> QED BY <2>1 DEF ActualAs
<1> QED BY <1>1, <1>2

-----------------------------------------------------------------------------
(* What is allowed as things stand is governed once it is logged. *)

AllowedAs(e, held, o) ==
    IF e.kind = "create"
    THEN Policied(e.by) => held = Absent /\ o.created = Absent /\ Admits(e.by, Created(e.set).realm)
    ELSE /\ SeenAs(e.by, held, o) # Absent
         /\ e.kind = "update" /\ Policied(e.by) /\ DOMAIN e.set # {} =>
                /\ ActualAs(held, o) # Absent
                /\ Admits(e.by, Over(ActualAs(held, o)[1], e.set).realm)
                /\ e.by \in MaskedFor => "secret" \notin DOMAIN e.set

GovernedAs(e, held, o) ==
    LET earlier == ActualAs(held, o)
        after == ActualAs(held, Replay(o, e)) IN
    Policied(e.by) =>
        /\ held # Absent /\ o.created = Absent
            => Admits(e.by, held[1].realm) /\ earlier # Absent /\ Admits(e.by, earlier[1].realm)
        /\ after # Absent => Admits(e.by, after[1].realm)
        /\ e.by \in MaskedFor /\ after # Absent =>
            \/ earlier # Absent /\ after[1].secret = earlier[1].secret
            \/ earlier = Absent /\ held = Absent

LEMMA AllowedIsGoverned ==
    ASSUME NEW held \in Held, NEW o \in Overlays, NEW e \in LogEdits,
           e.kind = "update" => DOMAIN e.set # {}, AllowedAs(e, held, o)
    PROVE  GovernedAs(e, held, o)
<1> SUFFICES ASSUME Policied(e.by) PROVE GovernedAs(e, held, o)
  BY DEF GovernedAs
<1> DEFINE earlier == ActualAs(held, o)
           after == ActualAs(held, Replay(o, e))
<1>1. e.kind \in {"create", "update", "delete"} /\ e.set \in Sets
  BY DEF LogEdits
<1>2. CASE e.kind = "create"
  <2>1. held = Absent /\ o.created = Absent /\ Admits(e.by, Created(e.set).realm)
    BY <1>2 DEF AllowedAs
  <2>2. earlier = Absent
    BY <2>1 DEF ActualAs
  <2> DEFINE x == Created(e.set)
  <2>3. after = <<x>>
    BY <1>2, CreateOrDelete
  <2> HIDE DEF x, after, earlier
  <2>4. after # Absent => Admits(e.by, after[1].realm)
    BY <2>1, <2>3 DEF x
  <2> QED BY <2>1, <2>2, <2>4 DEF GovernedAs, earlier, after
<1>3. ASSUME e.kind # "create", held # Absent, o.created = Absent
      PROVE  Admits(e.by, held[1].realm) /\ earlier # Absent /\ Admits(e.by, earlier[1].realm)
  <2>1. SeenAs(e.by, held, o) # Absent
    BY <1>3 DEF AllowedAs
  <2>2. Admits(e.by, held[1].realm)
    BY <1>3, <2>1 DEF SeenAs, Rendered
  <2> QED BY <1>3, <2>1, <2>2, SeenIsAdmitted
<1>4. CASE e.kind = "update"
  <2>1. /\ earlier # Absent /\ Admits(e.by, Over(earlier[1], e.set).realm)
        /\ e.by \in MaskedFor => "secret" \notin DOMAIN e.set
    BY <1>4 DEF AllowedAs
  <2> DEFINE x == Over(earlier[1], e.set)
  <2>2. after = <<x>>
    BY <1>4, <2>1, UpdateMakes
  <2>3. x["secret"] = IF "secret" \in DOMAIN e.set THEN e.set["secret"] ELSE earlier[1]["secret"]
    <3>1. earlier[1] \in RowValues
      BY <2>1, ActualTyped, HeldIs
    <3> QED BY <1>1, <3>1, OverIs DEF RowColumns
  <2> HIDE DEF x
  <2>4. after[1] = x /\ Admits(e.by, x.realm)
    BY <2>1, <2>2 DEF x
  <2> HIDE DEF earlier, after
  <2>5. e.by \in MaskedFor => after[1].secret = earlier[1].secret
    BY <2>1, <2>3, <2>4
  <2> QED BY <1>3, <1>4, <2>1, <2>4, <2>5 DEF GovernedAs, earlier, after
<1>5. CASE e.kind = "delete"
  <2>1. after = Absent
    BY <1>5, CreateOrDelete
  <2> HIDE DEF earlier, after
  <2> QED BY <1>3, <1>5, <2>1 DEF GovernedAs, earlier, after
<1> QED BY <1>1, <1>2, <1>4, <1>5

-----------------------------------------------------------------------------
(* The overlay of a key, as the log grows. *)

OverlayIn(entries, k, n) ==
    LET after[m \in 0..Len(entries)] ==
            IF m = 0 THEN Untouched
            ELSE IF entries[m].key = k THEN Replay(after[m - 1], entries[m]) ELSE after[m - 1]
    IN  after[n]

Step(entries, k, n, o) == IF entries[n].key = k THEN Replay(o, entries[n]) ELSE o

OverlayFolds(entries, k) ==
    /\ OverlayIn(entries, k, 0) = Untouched
    /\ \A n \in 0..Len(entries) : OverlayIn(entries, k, n) \in Overlays
    /\ \A n \in 1..Len(entries) : OverlayIn(entries, k, n) = Step(entries, k, n, OverlayIn(entries, k, n - 1))

LEMMA OverlayIs ==
    ASSUME NEW entries \in Seq(LogEdits), NEW k
    PROVE  OverlayFolds(entries, k)
<1> DEFINE N == Len(entries)
           S == Overlays
           G == [m \in Nat |-> [o \in S |-> IF m \in 1..N THEN Step(entries, k, m, o) ELSE o]]
           IsIt(f) == f = [m \in 0..N |->
                            IF m = 0 THEN Untouched
                            ELSE IF entries[m].key = k THEN Replay(f[m - 1], entries[m]) ELSE f[m - 1]]
           it == CHOOSE f : IsIt(f)
<1>1. N \in Nat /\ \A m \in 1..N : entries[m] \in LogEdits
  <2> DEFINE E == LogEdits
  <2>1. entries \in Seq(E)
    OBVIOUS
  <2> HIDE DEF E
  <2>2. \A m \in 1..N : entries[m] \in E
    BY <2>1
  <2> QED BY <2>2 DEF E
<1>2. Untouched \in S /\ \A m \in 1..N, o \in S : Step(entries, k, m, o) \in S
  BY <1>1, OverlayTyped DEF Step
<1> HIDE DEF S, N
<1>3. G \in [Nat -> [S -> S]]
  BY <1>2
<1>4. \A m \in 1..N, o \in S : G[m][o] = Step(entries, k, m, o)
  BY <1>1
<1> HIDE DEF G
<1>5. PICK g : Unrolled(S, Untouched, G, N, g)
  BY <1>1, <1>2, <1>3, UnrolledExists
<1>6. IsIt(g)
  <2>1. g \in [0..N -> S] /\ g[0] = Untouched /\ \A m \in 1..N : g[m] = G[m][g[m - 1]]
    BY <1>5, Zenon DEF Unrolled
  <2>2. ASSUME NEW m \in 1..N PROVE g[m] = Step(entries, k, m, g[m - 1])
    <3>1. m - 1 \in 0..N
      BY <1>1
    <3> QED BY <1>4, <2>1, <3>1
  <2>3. \A m \in 0..N : m = 0 \/ m \in 1..N
    BY <1>1
  <2>4. \A m \in 0..N : g[m] = IF m = 0 THEN Untouched
                               ELSE IF entries[m].key = k THEN Replay(g[m - 1], entries[m]) ELSE g[m - 1]
    BY <1>1, <2>1, <2>2, <2>3 DEF Step
  <2> QED BY <2>1, <2>4
<1>7. IsIt(it)
  BY <1>6, Zenon
<1>8. \A n : OverlayIn(entries, k, n) = it[n]
  BY DEF OverlayIn, it, N
<1> HIDE DEF it
<1>9. \A m \in 0..N : it[m] = IF m = 0 THEN Untouched
                              ELSE IF entries[m].key = k THEN Replay(it[m - 1], entries[m]) ELSE it[m - 1]
  BY <1>7, Zenon
<1> HIDE DEF IsIt
<1>10. it[0] = Untouched /\ \A m \in 1..N : it[m] = Step(entries, k, m, it[m - 1])
  <2>1. 0 \in 0..N /\ \A m \in 1..N : m \in 0..N /\ m # 0
    BY <1>1
  <2> QED BY <1>9, <2>1 DEF Step
<1>11. \A n \in 0..N : it[n] \in S
  <2> DEFINE T == {n \in Nat : n <= N => it[n] \in S}
  <2>1. 0 \in T
    BY <1>2, <1>10
  <2>2. ASSUME NEW n \in Nat, n \in T PROVE n + 1 \in T
    <3> SUFFICES ASSUME n + 1 <= N PROVE it[n + 1] \in S
      OBVIOUS
    <3>1. n + 1 \in 1..N /\ (n + 1) - 1 = n /\ n <= N
      BY <1>1
    <3> QED BY <1>2, <1>10, <2>2, <3>1
  <2> HIDE DEF T
  <2>3. Nat \subseteq T
    BY <2>1, <2>2, Induct
  <2> QED BY <1>1, <2>3 DEF T
<1> QED BY <1>8, <1>10, <1>11 DEF OverlayFolds, S, N

LEMMA OverlayGoesOn ==
    ASSUME NEW entries \in Seq(LogEdits), NEW e \in LogEdits, NEW k
    PROVE  \A n \in 0..Len(entries) : OverlayIn(Append(entries, e), k, n) = OverlayIn(entries, k, n)
<1> DEFINE more == Append(entries, e)
           N == Len(entries)
           T == {n \in Nat : n <= N => OverlayIn(more, k, n) = OverlayIn(entries, k, n)}
<1>1. more \in Seq(LogEdits) /\ N \in Nat /\ Len(more) = N + 1 /\ \A m \in 1..N : more[m] = entries[m]
  <2> DEFINE E == LogEdits
  <2>1. entries \in Seq(E) /\ e \in E
    OBVIOUS
  <2> HIDE DEF E
  <2>2. more \in Seq(E) /\ N \in Nat /\ Len(more) = N + 1 /\ \A m \in 1..N : more[m] = entries[m]
    BY <2>1
  <2> QED BY <2>2 DEF E
<1>2. OverlayFolds(more, k) /\ OverlayFolds(entries, k)
  BY <1>1, OverlayIs
<1> HIDE DEF more
<1>3. 0 \in T
  BY <1>2 DEF OverlayFolds
<1>4. ASSUME NEW n \in Nat, n \in T PROVE n + 1 \in T
  <2> SUFFICES ASSUME n + 1 <= N PROVE OverlayIn(more, k, n + 1) = OverlayIn(entries, k, n + 1)
    OBVIOUS
  <2>1. n + 1 \in 1..N /\ n + 1 \in 1..Len(more) /\ (n + 1) - 1 = n /\ n <= N
    BY <1>1
  <2>2. OverlayIn(more, k, n + 1) = Step(more, k, n + 1, OverlayIn(more, k, n))
    BY <1>2, <2>1 DEF OverlayFolds
  <2>3. OverlayIn(entries, k, n + 1) = Step(entries, k, n + 1, OverlayIn(entries, k, n))
    BY <1>2, <2>1 DEF OverlayFolds
  <2> QED BY <1>1, <1>4, <2>1, <2>2, <2>3 DEF Step
<1> HIDE DEF T
<1>5. Nat \subseteq T
  BY <1>3, <1>4, Induct
<1> QED BY <1>1, <1>5 DEF T, more

LEMMA OverlayOfOthers ==
    ASSUME NEW entries \in Seq(LogEdits), NEW k, \A n \in 1..Len(entries) : entries[n].key # k
    PROVE  OverlayIn(entries, k, Len(entries)) = Untouched
<1> DEFINE N == Len(entries)
           T == {n \in Nat : n <= N => OverlayIn(entries, k, n) = Untouched}
<1>1. OverlayFolds(entries, k) /\ N \in Nat
  BY OverlayIs
<1>2. 0 \in T
  BY <1>1 DEF OverlayFolds
<1>3. ASSUME NEW n \in Nat, n \in T PROVE n + 1 \in T
  <2> SUFFICES ASSUME n + 1 <= N PROVE OverlayIn(entries, k, n + 1) = Untouched
    OBVIOUS
  <2>1. n + 1 \in 1..N /\ (n + 1) - 1 = n /\ n <= N
    BY <1>1
  <2>2. OverlayIn(entries, k, n + 1) = Step(entries, k, n + 1, OverlayIn(entries, k, n))
    BY <1>1, <2>1 DEF OverlayFolds
  <2> QED BY <1>3, <2>1, <2>2 DEF Step
<1> HIDE DEF T
<1>4. Nat \subseteq T
  BY <1>2, <1>3, Induct
<1> QED BY <1>1, <1>4 DEF T

-----------------------------------------------------------------------------
(* The inductive invariant: an action that nothing came in the way of is   *)
(* still allowed, and so are the entries of the log when they were made.   *)

ActFrames == [on : {TRUE}, stale : BOOLEAN, edit : LogEdits]

FrameStands(f, held, entries) ==
    f.on => /\ f.edit.kind = "update" => DOMAIN f.edit.set # {}
            /\ ~f.stale => AllowedAs(f.edit, held[f.edit.key], OverlayIn(entries, f.edit.key, Len(entries)))

EntryStands(entries, n, held, but) ==
    entries[n].key \notin but =>
        GovernedAs(entries[n], held[entries[n].key], OverlayIn(entries, entries[n].key, n - 1))

GovernedTyped ==
    /\ rows \in [Holders -> Held] /\ log \in Seq(LogEdits)
    /\ acting \in [Calls -> {NoCallYet} \cup ActFrames]

GovernedInv ==
    /\ GovernedTyped
    /\ \A c \in Calls : FrameStands(acting[c], rows, log)
    /\ \A n \in 1..Len(log) : EntryStands(log, n, rows, unseen)

LEMMA OverlayAs ==
    ASSUME NEW k, NEW n
    PROVE  /\ Overlay(k, n) = OverlayIn(log, k, n)
           /\ \A u : Seen(u, k, n) = SeenAs(u, rows[k], OverlayIn(log, k, n))
           /\ Actual(k, n) = ActualAs(rows[k], OverlayIn(log, k, n))
<1>1. Overlay(k, n) = OverlayIn(log, k, n)
  BY DEF Overlay, OverlayIn
<1> QED BY <1>1 DEF Seen, SeenAs, Actual, ActualAs

LEMMA AllowedMeans ==
    ASSUME NEW e, EditAllowed(e)
    PROVE  AllowedAs(e, rows[e.key], OverlayIn(log, e.key, Len(log)))
BY OverlayAs DEF EditAllowed, AllowedAs, CreateAllowed, KeyIsTaken, UpdateAllowed

LEMMA SetsOfAssignments ==
    ASSUME NEW u \in Actors, NEW s \in Assignments(u)
    PROVE  s \in Sets /\ DOMAIN s # {}
<1>1. CASE s \in [{"realm"} -> Realms]
  <2>1. DOMAIN s = {"realm"} /\ s \in [DOMAIN s -> RowContents]
    BY <1>1 DEF RowContents
  <2> QED BY <2>1, SetsAre DEF RowColumns
<1>2. CASE s \in [{"secret"} -> {u}]
  <2>1. DOMAIN s = {"secret"} /\ s \in [DOMAIN s -> RowContents]
    BY <1>2 DEF RowContents
  <2> QED BY <2>1, SetsAre DEF RowColumns
<1>3. ASSUME NEW x \in Realms, s = [realm |-> x, secret |-> u] PROVE s \in Sets /\ DOMAIN s # {}
  <2>1. DOMAIN s = RowColumns
    BY <1>3 DEF RowColumns
  <2>2. s \in [DOMAIN s -> RowContents]
    BY <1>3 DEF RowColumns, RowContents
  <2> QED BY <2>1, <2>2, SetsAre DEF RowColumns
<1> QED BY <1>1, <1>2, <1>3 DEF Assignments

LEMMA GovernedStart == ObjectGovernanceInit => GovernedInv
<1> SUFFICES ASSUME ObjectGovernanceInit PROVE GovernedInv
  OBVIOUS
<1>1. /\ rows \in Backings /\ log = <<>> /\ acting = [c \in Calls |-> NoCallYet]
  BY DEF ObjectGovernanceInit
<1>2. rows \in [Holders -> Held]
  <2> DEFINE H == {Absent} \cup {Row(x, s) : x \in Realms \cup {"null"}, s \in Actors \cup {"old"}}
  <2>1. H \subseteq Held
    <3>1. ASSUME NEW x \in Realms \cup {"null"}, NEW y \in Actors \cup {"old"} PROVE Row(x, y) \in Held
      <4> DEFINE r == [realm |-> x, secret |-> y]
      <4>1. r \in RowValues
        BY DEF RowValues, RowColumns, RowContents
      <4> HIDE DEF r
      <4>2. <<r>> \in Held
        BY <4>1 DEF Held
      <4> QED BY <4>2 DEF Row, r
    <3> QED BY <3>1 DEF Held
  <2>2. rows \in [Holders -> H]
    BY <1>1, GovernanceAssumption
  <2> HIDE DEF H
  <2> QED BY <2>1, <2>2
<1>3. \A c \in Calls : acting[c] = NoCallYet /\ ~acting[c].on
  BY <1>1 DEF NoCallYet
<1>4. log \in Seq(LogEdits) /\ 1..Len(log) = {}
  BY <1>1
<1>5. acting \in [Calls -> {NoCallYet} \cup ActFrames]
  BY <1>1
<1> QED BY <1>2, <1>3, <1>4, <1>5 DEF GovernedInv, GovernedTyped, FrameStands

LEMMA CheckKeeps == ASSUME GovernedInv, NEW c \in Calls, Check(c) PROVE GovernedInv'
<1>1. PICK u \in Actors, k \in Holders, kind \in {"create", "update", "delete"} :
        \E set \in IF kind = "delete" THEN {<<>>} ELSE Assignments(u) :
            LET e == [kind |-> kind, key |-> k, by |-> u, set |-> set] IN
            /\ EditAllowed(e)
            /\ acting' = [acting EXCEPT ![c] = [on |-> TRUE, stale |-> FALSE, edit |-> e]]
            /\ UNCHANGED <<rows, log, unseen>>
  BY Zenon DEF Check
<1>2. PICK set \in IF kind = "delete" THEN {<<>>} ELSE Assignments(u) :
            LET e == [kind |-> kind, key |-> k, by |-> u, set |-> set] IN
            /\ EditAllowed(e)
            /\ acting' = [acting EXCEPT ![c] = [on |-> TRUE, stale |-> FALSE, edit |-> e]]
            /\ UNCHANGED <<rows, log, unseen>>
  BY <1>1
<1> DEFINE e == [kind |-> kind, key |-> k, by |-> u, set |-> set]
           f == [on |-> TRUE, stale |-> FALSE, edit |-> e]
<1>3. set \in Sets /\ (kind = "update" => DOMAIN set # {})
  <2>1. <<>> \in Sets
    <3>1. DOMAIN <<>> = {} /\ <<>> \in [{} -> RowContents]
      OBVIOUS
    <3> QED BY <3>1, SetsAre
  <2> QED BY <1>2, <2>1, SetsOfAssignments
<1>4. e \in LogEdits /\ e.kind = kind /\ e.set = set
  BY <1>3 DEF LogEdits
<1>5. AllowedAs(e, rows[e.key], OverlayIn(log, e.key, Len(log)))
  BY <1>2, AllowedMeans
<1>6. acting' = [acting EXCEPT ![c] = f] /\ UNCHANGED <<rows, log, unseen>>
  BY <1>2
<1> HIDE DEF e
<1>7. f \in ActFrames /\ f.on /\ ~f.stale /\ f.edit = e
  BY <1>4 DEF ActFrames
<1> HIDE DEF f
<1>8. GovernedTyped'
  BY <1>6, <1>7 DEF GovernedInv, GovernedTyped
<1>9. ASSUME NEW d \in Calls PROVE FrameStands(acting'[d], rows, log)
  <2>1. CASE d = c
    <3>1. acting'[d] = f
      BY <1>6, <2>1 DEF GovernedInv, GovernedTyped
    <3> QED BY <1>3, <1>4, <1>5, <1>7, <3>1 DEF FrameStands
  <2>2. CASE d # c
    BY <1>6, <2>2 DEF GovernedInv, GovernedTyped
  <2> QED BY <2>1, <2>2
<1> QED BY <1>6, <1>8, <1>9 DEF GovernedInv

\* Calls whose keys are these are upset.
UpsetSo(keys, frames) ==
    \A d \in Calls :
        /\ frames[d] \in {NoCallYet} \cup ActFrames
        /\ frames[d].on <=> acting[d].on
        /\ acting[d].on => /\ frames[d].edit = acting[d].edit
                           /\ frames[d].stale <=> (acting[d].stale \/ acting[d].edit.key \in keys)

LEMMA UpsetDoes ==
    ASSUME GovernedTyped, NEW keys
    PROVE  UpsetSo(keys, Upset(keys)) /\ Upset(keys) \in [Calls -> {NoCallYet} \cup ActFrames]
<1>1. ASSUME NEW d \in Calls
      PROVE  /\ Upset(keys)[d] \in {NoCallYet} \cup ActFrames
             /\ Upset(keys)[d].on <=> acting[d].on
             /\ acting[d].on => /\ Upset(keys)[d].edit = acting[d].edit
                                /\ Upset(keys)[d].stale <=> (acting[d].stale \/ acting[d].edit.key \in keys)
  <2> DEFINE f == acting[d]
             g == Upset(keys)[d]
  <2>1. f \in {NoCallYet} \cup ActFrames
    BY DEF GovernedTyped
  <2>2. g = IF f.on /\ f.edit.key \in keys THEN [f EXCEPT !.stale = TRUE] ELSE f
    BY DEF Upset
  <2> HIDE DEF f, g
  <2>3. CASE f \in ActFrames
    <3>1. CASE f.edit.key \in keys
      <4>1. g = [f EXCEPT !.stale = TRUE]
        BY <2>2, <2>3, <3>1 DEF ActFrames
      <4> QED BY <2>3, <3>1, <4>1 DEF ActFrames, f, g
    <3>2. CASE f.edit.key \notin keys
      BY <2>1, <2>2, <2>3, <3>2 DEF f, g
    <3> QED BY <3>1, <3>2
  <2>4. CASE f = NoCallYet
    BY <2>2, <2>4 DEF NoCallYet, f, g
  <2> QED BY <2>1, <2>3, <2>4
<1>2. Upset(keys) = [d \in Calls |-> Upset(keys)[d]]
  BY DEF Upset
<1> QED BY <1>1, <1>2 DEF UpsetSo

LEMMA FrameIs ==
    ASSUME NEW f \in {NoCallYet} \cup ActFrames, f.on
    PROVE  f \in ActFrames /\ f.edit \in LogEdits /\ f.edit.key \in Holders
<1>1. f \in ActFrames
  BY DEF NoCallYet
<1> QED BY <1>1 DEF ActFrames, LogEdits

LEMMA RecordKeepsGoverned == ASSUME GovernedInv, NEW c \in Calls, Record(c) PROVE GovernedInv'
<1> DEFINE e == acting[c].edit
           k == e.key
<1>1. /\ acting[c].on /\ log' = Append(log, e)
      /\ unseen' = IF acting[c].stale THEN unseen \cup {k} ELSE unseen
      /\ acting' = [Upset({k}) EXCEPT ![c] = NoCallYet]
      /\ rows' = rows
  BY DEF Record
<1>2. GovernedTyped /\ FrameStands(acting[c], rows, log)
  BY DEF GovernedInv
<1>3. e \in LogEdits /\ k \in Holders
  BY <1>1, <1>2, FrameIs DEF GovernedTyped
<1> DEFINE N == Len(log)
<1>4. /\ log' \in Seq(LogEdits) /\ N \in Nat /\ Len(log') = N + 1 /\ log'[N + 1] = e
      /\ \A n \in 1..N : log'[n] = log[n]
  <2> DEFINE E == LogEdits
  <2>1. log \in Seq(E) /\ e \in E
    BY <1>2, <1>3 DEF GovernedTyped
  <2> HIDE DEF E, e
  <2>2. /\ log' \in Seq(E) /\ N \in Nat /\ Len(log') = N + 1 /\ log'[N + 1] = e
        /\ \A n \in 1..N : log'[n] = log[n]
    BY <1>1, <2>1
  <2> QED BY <2>2 DEF E
<1> HIDE DEF e, N
<1>5. \A x : \A n \in 0..N : OverlayIn(log', x, n) = OverlayIn(log, x, n)
  BY <1>1, <1>2, <1>3, OverlayGoesOn DEF GovernedTyped, N
<1>6. ASSUME NEW x \in Holders
      PROVE  /\ rows[x] \in Held /\ OverlayIn(log, x, N) \in Overlays
             /\ OverlayIn(log', x, N + 1) = Step(log', x, N + 1, OverlayIn(log, x, N))
  <2>1. N \in 0..N /\ N \in 0..Len(log) /\ N + 1 \in 1..Len(log') /\ (N + 1) - 1 = N
    BY <1>4 DEF N
  <2>2. OverlayFolds(log, x) /\ OverlayFolds(log', x)
    BY <1>2, <1>4, OverlayIs DEF GovernedTyped
  <2>3. OverlayIn(log, x, N) \in Overlays
    BY <2>1, <2>2 DEF OverlayFolds
  <2>4. OverlayIn(log', x, N + 1) = Step(log', x, N + 1, OverlayIn(log', x, N))
    BY <2>1, <2>2 DEF OverlayFolds
  <2> QED BY <1>2, <1>5, <2>1, <2>3, <2>4 DEF GovernedTyped
<1>7. UpsetSo({k}, Upset({k})) /\ Upset({k}) \in [Calls -> {NoCallYet} \cup ActFrames]
  BY <1>2, UpsetDoes
<1>8. GovernedTyped'
  BY <1>1, <1>2, <1>4, <1>7 DEF GovernedTyped
<1>9. ASSUME NEW d \in Calls PROVE FrameStands(acting'[d], rows, log')
  <2>1. CASE d = c
    <3>1. acting'[d] = NoCallYet
      BY <1>1, <1>7, <2>1
    <3> QED BY <3>1 DEF FrameStands, NoCallYet
  <2>2. CASE d # c
    <3> SUFFICES ASSUME acting'[d].on PROVE FrameStands(acting'[d], rows, log')
      BY DEF FrameStands
    <3>1. acting'[d] = Upset({k})[d]
      BY <1>1, <1>7, <2>2
    <3>2. /\ acting[d].on /\ acting'[d].edit = acting[d].edit
          /\ acting'[d].stale <=> (acting[d].stale \/ acting[d].edit.key \in {k})
      BY <1>7, <3>1 DEF UpsetSo
    <3>3. FrameStands(acting[d], rows, log) /\ acting[d].edit.key \in Holders
      BY <1>2, <3>2, FrameIs DEF GovernedInv, GovernedTyped
    <3> DEFINE x == acting[d].edit.key
    <3>4. x # k => OverlayIn(log', x, Len(log')) = OverlayIn(log, x, Len(log))
      <4> SUFFICES ASSUME x # k PROVE OverlayIn(log', x, N + 1) = OverlayIn(log, x, N)
        BY <1>4 DEF N
      <4>1. log'[N + 1].key # x
        BY <1>4 DEF k
      <4> HIDE DEF x
      <4> QED BY <1>6, <3>3, <4>1 DEF Step, x
    <3> QED BY <3>2, <3>3, <3>4 DEF FrameStands
  <2> QED BY <2>1, <2>2
<1>10. ASSUME NEW n \in 1..Len(log') PROVE EntryStands(log', n, rows, unseen')
  <2>1. CASE n \in 1..N
    <3>1. EntryStands(log, n, rows, unseen)
      BY <2>1 DEF GovernedInv, N
    <3>2. n - 1 \in 0..N
      BY <1>4, <2>1
    <3>3. log'[n] = log[n] /\ unseen \subseteq unseen'
      BY <1>1, <1>4, <2>1
    <3> QED BY <1>5, <3>1, <3>2, <3>3 DEF EntryStands
  <2>2. CASE n = N + 1
    <3> SUFFICES ASSUME k \notin unseen' PROVE GovernedAs(e, rows[k], OverlayIn(log', k, N))
      <4>1. log'[n] = e /\ n - 1 = N
        BY <1>4, <2>2
      <4> QED BY <4>1 DEF EntryStands
    <3>1. ~acting[c].stale
      BY <1>1
    <3>2. AllowedAs(e, rows[k], OverlayIn(log, k, N)) /\ (e.kind = "update" => DOMAIN e.set # {})
      BY <1>1, <1>2, <3>1 DEF FrameStands, e, N
    <3>3. OverlayIn(log', k, N) = OverlayIn(log, k, N)
      BY <1>4, <1>5
    <3> QED BY <1>3, <1>6, <3>2, <3>3, AllowedIsGoverned
  <2> QED BY <1>4, <2>1, <2>2
<1> QED BY <1>1, <1>8, <1>9, <1>10 DEF GovernedInv

LEMMA FoldKeepsGoverned == ASSUME GovernedInv, FoldEdits PROVE GovernedInv'
<1> DEFINE keys == {log[n].key : n \in DOMAIN log}
<1>1. /\ rows' = [k \in Holders |-> Actual(k, Len(log))] /\ log' = <<>>
      /\ acting' = Upset(keys) /\ unseen' = unseen
  BY DEF FoldEdits
<1>2. GovernedTyped /\ DOMAIN log = 1..Len(log) /\ Len(log) \in Nat
  BY DEF GovernedInv, GovernedTyped
<1>3. log' \in Seq(LogEdits) /\ Len(log') = 0 /\ 1..Len(log') = {}
  BY <1>1
<1>4. UpsetSo(keys, acting') /\ acting' \in [Calls -> {NoCallYet} \cup ActFrames]
  BY <1>1, <1>2, UpsetDoes
<1>5. ASSUME NEW k \in Holders PROVE rows'[k] \in Held /\ (k \notin keys => rows'[k] = rows[k])
  <2>1. rows'[k] = ActualAs(rows[k], OverlayIn(log, k, Len(log)))
    BY <1>1, OverlayAs
  <2>2. OverlayFolds(log, k) /\ rows[k] \in Held
    BY <1>2, OverlayIs DEF GovernedTyped
  <2>3. OverlayIn(log, k, Len(log)) \in Overlays
    BY <1>2, <2>2 DEF OverlayFolds
  <2>4. ASSUME k \notin keys PROVE rows'[k] = rows[k]
    <3>1. OverlayIn(log, k, Len(log)) = Untouched
      BY <1>2, <2>4, OverlayOfOthers DEF GovernedTyped
    <3> QED BY <2>1, <3>1 DEF ActualAs, Untouched
  <2> QED BY <2>1, <2>2, <2>3, <2>4, ActualTyped
<1>6. rows' \in [Holders -> Held]
  BY <1>1, <1>5
<1>7. ASSUME NEW d \in Calls PROVE FrameStands(acting'[d], rows', log')
  <2> SUFFICES ASSUME acting'[d].on PROVE FrameStands(acting'[d], rows', log')
    BY DEF FrameStands
  <2>1. /\ acting[d].on /\ acting'[d].edit = acting[d].edit
        /\ acting'[d].stale <=> (acting[d].stale \/ acting[d].edit.key \in keys)
    BY <1>4 DEF UpsetSo
  <2>2. FrameStands(acting[d], rows, log) /\ acting[d].edit.key \in Holders
    BY <1>2, <2>1, FrameIs DEF GovernedInv, GovernedTyped
  <2> DEFINE x == acting[d].edit.key
  <2>3. ASSUME x \notin keys PROVE OverlayIn(log', x, Len(log')) = OverlayIn(log, x, Len(log))
    <3>1. OverlayIn(log, x, Len(log)) = Untouched
      BY <1>2, <2>3, OverlayOfOthers DEF GovernedTyped
    <3>2. OverlayIn(log', x, Len(log')) = Untouched
      <4>1. OverlayFolds(log', x)
        BY <1>3, OverlayIs
      <4> QED BY <1>3, <4>1 DEF OverlayFolds
    <3> QED BY <3>1, <3>2
  <2>4. x \notin keys => rows'[x] = rows[x]
    BY <1>5, <2>2
  <2> HIDE DEF keys
  <2> QED BY <2>1, <2>2, <2>3, <2>4 DEF FrameStands
<1> QED BY <1>3, <1>4, <1>6, <1>7 DEF GovernedInv, GovernedTyped

LEMMA GovernedMeans == GovernedInv => EditsAreGoverned
<1> SUFFICES ASSUME GovernedInv PROVE EditsAreGoverned
  OBVIOUS
<1>1. GovernedTyped /\ DOMAIN log = 1..Len(log) /\ Len(log) \in Nat
  BY DEF GovernedInv, GovernedTyped
<1>2. ASSUME NEW k \in Holders, NEW n \in 0..Len(log)
      PROVE  rows[k] \in Held /\ OverlayIn(log, k, n) \in Overlays
  BY <1>1, OverlayIs DEF GovernedTyped, OverlayFolds
<1>3. ReadsAreGoverned
  <2> SUFFICES ASSUME NEW u \in Actors, NEW k \in Holders,
                      Seen(u, k, Len(log)) # Absent, ~CreatedOver(k, Len(log))
               PROVE  Seen(u, k, Len(log)) = Rendered(u, Actual(k, Len(log)))
    BY DEF ReadsAreGoverned
  <2> DEFINE o == OverlayIn(log, k, Len(log))
  <2>1. rows[k] \in Held /\ o \in Overlays
    BY <1>1, <1>2
  <2>2. /\ SeenAs(u, rows[k], o) = Seen(u, k, Len(log))
        /\ ActualAs(rows[k], o) = Actual(k, Len(log)) /\ o = Overlay(k, Len(log))
    BY OverlayAs
  <2>3. rows[k] = Absent \/ o.created = Absent
    BY <2>2 DEF CreatedOver
  <2> HIDE DEF o
  <2>4. SeenAs(u, rows[k], o) = Rendered(u, ActualAs(rows[k], o))
    BY <2>1, <2>2, <2>3, ReadsAs
  <2> QED BY <2>2, <2>4
<1>4. WritesAreGoverned
  <2> SUFFICES ASSUME NEW n \in 1..Len(log), Policied(log[n].by), log[n].key \notin unseen
               PROVE  LET u == log[n].by
                          k == log[n].key
                          earlier == Actual(k, n - 1)
                          after == Actual(k, n) IN
                      /\ rows[k] # Absent /\ ~CreatedOver(k, n - 1)
                            => Admits(u, rows[k][1].realm) /\ earlier # Absent /\ Admits(u, earlier[1].realm)
                      /\ after # Absent => Admits(u, after[1].realm)
                      /\ u \in MaskedFor /\ after # Absent =>
                            \/ earlier # Absent /\ after[1].secret = earlier[1].secret
                            \/ earlier = Absent /\ rows[k] = Absent
    BY <1>1 DEF WritesAreGoverned
  <2> DEFINE e == log[n]
             k == e.key
             o == OverlayIn(log, k, n - 1)
  <2>1. GovernedAs(e, rows[k], o)
    BY DEF GovernedInv, EntryStands
  <2>2. OverlayIn(log, k, n) = Replay(o, e)
    <3>1. OverlayFolds(log, k)
      BY <1>1, OverlayIs DEF GovernedTyped
    <3> QED BY <3>1 DEF OverlayFolds, Step
  <2>3. /\ Actual(k, n - 1) = ActualAs(rows[k], o) /\ Actual(k, n) = ActualAs(rows[k], Replay(o, e))
        /\ Overlay(k, n - 1) = o
    BY <2>2, OverlayAs
  <2> HIDE DEF o, k, e
  <2> QED BY <2>1, <2>3 DEF GovernedAs, CreatedOver, k, e
<1> QED BY <1>3, <1>4 DEF EditsAreGoverned

(* For any users, policies, keys and backing rows, and however checks,     *)
(* entries and folds of actions interleave: an object is read as its       *)
(* current row is for the reader, and no edit that nothing came in the way *)
(* of reaches what its author cannot see or leaves it where he cannot      *)
(* (ontology/service.py, apply_action, _overlay, the refusals).            *)
THEOREM EditsAlwaysGoverned == ObjectGovernanceSpec => []EditsAreGoverned
<1>1. GovernedInv /\ [ObjectGovernanceNext]_objectGovernanceVars => GovernedInv'
  <2> SUFFICES ASSUME GovernedInv, [ObjectGovernanceNext]_objectGovernanceVars PROVE GovernedInv'
    OBVIOUS
  <2>1. CASE FoldEdits
    BY <2>1, FoldKeepsGoverned
  <2>2. ASSUME NEW c \in Calls, Check(c) PROVE GovernedInv'
    BY <2>2, CheckKeeps
  <2>3. ASSUME NEW c \in Calls, Record(c) PROVE GovernedInv'
    BY <2>3, RecordKeepsGoverned
  <2>4. CASE UNCHANGED objectGovernanceVars
    BY <2>4 DEF objectGovernanceVars, GovernedInv, GovernedTyped
  <2> QED BY <2>1, <2>2, <2>3, <2>4 DEF ObjectGovernanceNext
<1> QED BY GovernedStart, GovernedMeans, <1>1, PTL DEF ObjectGovernanceSpec

(***************************************************************************)
(* Verification: whoever learns more at the destination is told of.        *)
(***************************************************************************)

(* Sequences, and what is kept of them. *)

LEMMA ListedAppend ==
    ASSUME NEW q, Listed(q), NEW x
    PROVE  /\ Listed(Append(q, x)) /\ Len(Append(q, x)) = Len(q) + 1
           /\ Append(q, x)[Len(q) + 1] = x /\ \A i \in 1..Len(q) : Append(q, x)[i] = q[i]
<1> DEFINE S == {q[i] : i \in DOMAIN q} \cup {x}
           t == Append(q, x)
<1>1. q \in Seq(S)
  BY DEF Listed
<1>2. x \in S
  OBVIOUS
<1> HIDE DEF S
<1>3. t \in Seq(S) /\ Len(t) = Len(q) + 1 /\ t[Len(q) + 1] = x /\ \A i \in 1..Len(q) : t[i] = q[i]
  BY <1>1, <1>2
<1> HIDE DEF t
<1>4. t \in Seq({t[i] : i \in DOMAIN t})
  BY <1>3
<1> QED BY <1>3, <1>4 DEF Listed, t

LEMMA ListedIs ==
    ASSUME NEW q, Listed(q)
    PROVE  Len(q) \in Nat /\ DOMAIN q = 1..Len(q)
BY DEF Listed

KeptUpto(seq, S) ==
    CHOOSE upto : upto = [n \in Nat |->
        IF n = 0 THEN <<>>
        ELSE IF n \in DOMAIN seq /\ seq[n] \in S THEN Append(upto[n - 1], seq[n])
        ELSE upto[n - 1]]

LEMMA KeptIsUpto ==
    ASSUME NEW seq, NEW S
    PROVE  Kept(seq, S) = KeptUpto(seq, S)[Len(seq)]
BY DEF Kept, KeptUpto

\* u keeps what is in S of the first members of seq.
Keeps(seq, S, u) ==
    /\ u[0] = <<>>
    /\ \A n \in Nat : u[n + 1] = IF n + 1 \in DOMAIN seq /\ seq[n + 1] \in S
                                 THEN Append(u[n], seq[n + 1]) ELSE u[n]

LEMMA KeptStep ==
    ASSUME NEW seq, Listed(seq), NEW S
    PROVE  Keeps(seq, S, KeptUpto(seq, S))
<1> DEFINE A == {seq[i] : i \in DOMAIN seq}
           Q == Seq(A)
           next(n, q) == IF n \in DOMAIN seq /\ seq[n] \in S THEN Append(q, seq[n]) ELSE q
           Is(w) == w = [n \in Nat |-> IF n = 0 THEN <<>> ELSE next(n, w[n - 1])]
           G == [n \in Nat |-> [q \in Q |-> next(n, q)]]
<1>2. \A n \in Nat : \A q \in Q : next(n, q) \in Q
  <2> SUFFICES ASSUME NEW n \in Nat, NEW q \in Q PROVE next(n, q) \in Q
    OBVIOUS
  <2>1. n \in DOMAIN seq => seq[n] \in A
    OBVIOUS
  <2> HIDE DEF A
  <2> QED BY <2>1
<1>3. <<>> \in Q
  OBVIOUS
<1>4. \E w : Is(w)
  <2> HIDE DEF next, Q
  <2>1. G \in [Nat -> [Q -> Q]] /\ \A n \in Nat : \A q \in Q : G[n][q] = next(n, q)
    BY <1>2
  <2> HIDE DEF G
  <2>2. PICK f \in [Nat -> Q] : Recursion(f, <<>>, G)
    BY <1>3, <2>1, RecursionExists
  <2>3. f = [n \in Nat |-> IF n = 0 THEN <<>> ELSE G[n][f[n - 1]]]
    BY <2>2 DEF Recursion
  <2>4. \A n \in Nat : n # 0 => f[n - 1] \in Q
    OBVIOUS
  <2>5. f = [n \in Nat |-> IF n = 0 THEN <<>> ELSE next(n, f[n - 1])]
    BY <2>1, <2>3, <2>4
  <2> QED BY <2>5
<1>5. Is(KeptUpto(seq, S))
  <2> HIDE DEF Is
  <2>1. KeptUpto(seq, S) = CHOOSE w : Is(w)
    BY DEF KeptUpto, Is
  <2> QED BY <1>4, <2>1
<1> DEFINE u == KeptUpto(seq, S)
<1> HIDE DEF u
<1>6. u = [n \in Nat |-> IF n = 0 THEN <<>> ELSE next(n, u[n - 1])]
  BY <1>5 DEF u
<1>7. u[0] = <<>> /\ \A n \in Nat : u[n + 1] = next(n + 1, u[n])
  <2> HIDE DEF next
  <2>1. \A n \in Nat : n + 1 \in Nat /\ n + 1 # 0 /\ (n + 1) - 1 = n
    OBVIOUS
  <2> QED BY <1>6, <2>1
<1> QED BY <1>7 DEF u, Keeps

LEMMA KeptListed ==
    ASSUME NEW seq, Listed(seq), NEW S
    PROVE  \A n \in Nat : Listed(KeptUpto(seq, S)[n])
<1> DEFINE u == KeptUpto(seq, S)
           T == {n \in Nat : Listed(u[n])}
<1>1. Keeps(seq, S, u)
  BY KeptStep
<1> HIDE DEF u
<1>2. 0 \in T
  <2>1. <<>> \in Seq({})
    OBVIOUS
  <2>2. Listed(<<>>)
    BY <2>1 DEF Listed
  <2> QED BY <1>1, <2>2 DEF Keeps
<1>3. ASSUME NEW n \in Nat, n \in T PROVE n + 1 \in T
  <2> DEFINE more == Append(u[n], seq[n + 1])
  <2>1. Listed(u[n])
    BY <1>3
  <2>2. Listed(more)
    BY <2>1, ListedAppend
  <2>3. u[n + 1] = more \/ u[n + 1] = u[n]
    BY <1>1 DEF Keeps
  <2> HIDE DEF more
  <2>4. Listed(u[n + 1])
    BY <2>1, <2>2, <2>3
  <2> QED BY <2>4
<1> HIDE DEF T
<1>4. Nat \subseteq T
  BY <1>2, <1>3, Induct
<1> QED BY <1>4 DEF T, u

\* What is kept of a sequence that one more is appended to.
LEMMA KeptAppend ==
    ASSUME NEW q, Listed(q), NEW x, NEW S
    PROVE  Kept(Append(q, x), S) = IF x \in S THEN Append(Kept(q, S), x) ELSE Kept(q, S)
<1> DEFINE t == Append(q, x)
           u == KeptUpto(q, S)
           v == KeptUpto(t, S)
           T == {n \in Nat : n <= Len(q) => v[n] = u[n]}
<1>1. Listed(t) /\ Len(t) = Len(q) + 1 /\ t[Len(q) + 1] = x /\ \A i \in 1..Len(q) : t[i] = q[i]
  BY ListedAppend
<1> HIDE DEF t
<1>2. Keeps(q, S, u)
  BY KeptStep
<1>3. Keeps(t, S, v)
  BY <1>1, KeptStep
<1>4. Len(q) \in Nat /\ DOMAIN q = 1..Len(q) /\ DOMAIN t = 1..(Len(q) + 1)
  BY <1>1, ListedIs
<1>5. Kept(q, S) = u[Len(q)] /\ Kept(t, S) = v[Len(q) + 1]
  BY <1>1, KeptIsUpto
<1> HIDE DEF u, v
<1>6. 0 \in T
  BY <1>2, <1>3 DEF Keeps
<1>7. ASSUME NEW n \in Nat, n \in T PROVE n + 1 \in T
  <2> SUFFICES ASSUME n + 1 <= Len(q) PROVE v[n + 1] = u[n + 1]
    OBVIOUS
  <2>1. n + 1 \in DOMAIN q /\ n + 1 \in DOMAIN t /\ t[n + 1] = q[n + 1] /\ n <= Len(q)
    BY <1>1, <1>4
  <2> QED BY <1>2, <1>3, <1>7, <2>1 DEF Keeps
<1> HIDE DEF T
<1>8. Nat \subseteq T
  BY <1>6, <1>7, Induct
<1>9. v[Len(q)] = u[Len(q)]
  BY <1>4, <1>8 DEF T
<1>10. v[Len(q) + 1] = IF x \in S THEN Append(v[Len(q)], x) ELSE v[Len(q)]
  BY <1>1, <1>3, <1>4 DEF Keeps
<1> QED BY <1>5, <1>9, <1>10 DEF t

LEMMA KeptOfNothing ==
    ASSUME NEW S
    PROVE  Kept(<<>>, S) = <<>>
<1>1. <<>> \in Seq({})
  OBVIOUS
<1>2. Listed(<<>>)
  BY <1>1 DEF Listed
<1>3. KeptUpto(<<>>, S)[0] = <<>>
  BY <1>2, KeptStep DEF Keeps
<1>4. Len(<<>>) = 0
  OBVIOUS
<1> QED BY <1>3, <1>4, KeptIsUpto

\* Keeping twice is keeping what is in both sets.
LEMMA KeptTwice ==
    ASSUME NEW q, Listed(q), NEW A, NEW B, NEW C,
           \A i \in DOMAIN q : q[i] \in C <=> q[i] \in A /\ q[i] \in B
    PROVE  Kept(Kept(q, A), B) = Kept(q, C)
<1> DEFINE u == KeptUpto(q, A)
           v == KeptUpto(q, C)
           T == {n \in Nat : Kept(u[n], B) = v[n]}
<1>1. Keeps(q, A, u)
  BY KeptStep
<1>2. Keeps(q, C, v)
  BY KeptStep
<1>3. Kept(q, A) = u[Len(q)] /\ Kept(q, C) = v[Len(q)] /\ Len(q) \in Nat
  BY KeptIsUpto, ListedIs
<1>4. \A n \in Nat : Listed(u[n])
  BY KeptListed
<1> HIDE DEF u, v
<1>5. 0 \in T
  BY <1>1, <1>2, KeptOfNothing DEF Keeps
<1>6. ASSUME NEW n \in Nat, n \in T PROVE n + 1 \in T
  <2>1. Kept(u[n], B) = v[n] /\ Listed(u[n])
    BY <1>4, <1>6
  <2> DEFINE w == u[n]
             x == q[n + 1]
             more == Append(w, x)
  <2>2. Kept(more, B) = IF x \in B THEN Append(Kept(w, B), x) ELSE Kept(w, B)
    <3>1. Listed(w)
      BY <2>1
    <3> HIDE DEF w, x
    <3> QED BY <3>1, KeptAppend
  <2>3. u[n + 1] = IF n + 1 \in DOMAIN q /\ x \in A THEN more ELSE w
    BY <1>1 DEF Keeps
  <2>4. v[n + 1] = IF n + 1 \in DOMAIN q /\ x \in C THEN Append(v[n], x) ELSE v[n]
    BY <1>2 DEF Keeps
  <2>5. n + 1 \in DOMAIN q => (x \in C <=> x \in A /\ x \in B)
    OBVIOUS
  <2> HIDE DEF w, x, more
  <2>6. Kept(w, B) = v[n]
    BY <2>1 DEF w
  <2>7. Kept(u[n + 1], B) = v[n + 1]
    BY <2>2, <2>3, <2>4, <2>5, <2>6
  <2> QED BY <2>7
<1> HIDE DEF T
<1>7. Nat \subseteq T
  BY <1>5, <1>6, Induct
<1> QED BY <1>3, <1>7 DEF T

(* Counting. *)

\* How many of S the function f takes to x.
Count(S, f, x) == Cardinality({i \in S : f[i] = x})

LEMMA CountIs ==
    ASSUME NEW S, IsFiniteSet(S), NEW f, NEW x
    PROVE  /\ Count(S, f, x) \in Nat
           /\ Count(S, f, x) = 0 <=> \A i \in S : f[i] # x
<1> DEFINE A == {i \in S : f[i] = x}
<1>1. A \in SUBSET S
  OBVIOUS
<1>2. IsFiniteSet(A)
  BY <1>1, FS_Subset
<1>3. A = {} <=> \A i \in S : f[i] # x
  OBVIOUS
<1> HIDE DEF A
<1>4. Cardinality(A) \in Nat
  BY <1>2, FS_CardinalityType
<1>5. Cardinality(A) = 0 <=> A = {}
  BY <1>2, FS_EmptySet
<1> QED BY <1>3, <1>4, <1>5 DEF Count, A

LEMMA CountWithout ==
    ASSUME NEW S, IsFiniteSet(S), NEW f, NEW i \in S, NEW x
    PROVE  Count(S \ {i}, f, x) = IF f[i] = x THEN Count(S, f, x) - 1 ELSE Count(S, f, x)
<1> DEFINE A == {k \in S : f[k] = x}
           B == {k \in S \ {i} : f[k] = x}
<1>1. A \in SUBSET S
  OBVIOUS
<1>2. IsFiniteSet(A)
  BY <1>1, FS_Subset
<1>3. B = A \ {i} /\ (i \in A <=> f[i] = x)
  OBVIOUS
<1> HIDE DEF A, B
<1>4. Cardinality(A \ {i}) = IF i \in A THEN Cardinality(A) - 1 ELSE Cardinality(A)
  BY <1>2, FS_RemoveElement
<1> QED BY <1>3, <1>4 DEF Count, A, B

\* Where each value is no more frequent, all of them together are not.
LEMMA CountsBound ==
    ASSUME NEW S, NEW T, IsFiniteSet(S), IsFiniteSet(T), NEW f, NEW g,
           \A x : Count(S, f, x) <= Count(T, g, x)
    PROVE  Cardinality(S) <= Cardinality(T)
<1> DEFINE Less(A, B) == \A x : Count(A, f, x) <= Count(B, g, x)
           Bound(n) == \A A \in SUBSET S, B \in SUBSET T :
                          Cardinality(A) = n /\ Less(A, B) => Cardinality(A) <= Cardinality(B)
           N == {n \in Nat : Bound(n)}
<1>1. \A A \in SUBSET S : IsFiniteSet(A) /\ Cardinality(A) \in Nat
  BY FS_Subset, FS_CardinalityType
<1>2. \A B \in SUBSET T : IsFiniteSet(B) /\ Cardinality(B) \in Nat
  BY FS_Subset, FS_CardinalityType
<1>3. 0 \in N
  BY <1>2
<1>4. ASSUME NEW n \in Nat, Bound(n), NEW A \in SUBSET S, NEW B \in SUBSET T,
             Cardinality(A) = n + 1, Less(A, B)
      PROVE  Cardinality(A) <= Cardinality(B)
  <2>1. IsFiniteSet(A) /\ IsFiniteSet(B) /\ Cardinality(B) \in Nat
    BY <1>1, <1>2
  <2>2. PICK i \in A : TRUE
    BY <1>4, <2>1, FS_EmptySet
  <2>3. Count(A, f, f[i]) # 0 /\ Count(A, f, f[i]) \in Nat
    BY <2>1, CountIs
  <2>4. Count(B, g, f[i]) # 0
    BY <1>4, <2>1, <2>3, CountIs
  <2>5. PICK j \in B : g[j] = f[i]
    BY <2>1, <2>4, CountIs
  <2> DEFINE C == A \ {i}
             D == B \ {j}
  <2>6. Less(C, D)
    <3> HIDE DEF N, Bound
    <3> SUFFICES ASSUME NEW x PROVE Count(C, f, x) <= Count(D, g, x)
      OBVIOUS
    <3>1. Count(C, f, x) = IF f[i] = x THEN Count(A, f, x) - 1 ELSE Count(A, f, x)
      <4>1. Count(A \ {i}, f, x) = IF f[i] = x THEN Count(A, f, x) - 1 ELSE Count(A, f, x)
        <5>1. IsFiniteSet(A) /\ i \in A
          BY <2>1, <2>2
        <5> HIDE DEF C, D, Less
        <5> QED BY <5>1, CountWithout
      <4> QED BY <4>1
    <3>2. Count(D, g, x) = IF g[j] = x THEN Count(B, g, x) - 1 ELSE Count(B, g, x)
      <4>1. Count(B \ {j}, g, x) = IF g[j] = x THEN Count(B, g, x) - 1 ELSE Count(B, g, x)
        <5>1. IsFiniteSet(B) /\ j \in B
          BY <2>1, <2>5
        <5> HIDE DEF C, D, Less
        <5> QED BY <5>1, CountWithout
      <4> QED BY <4>1
    <3>3. Count(A, f, x) \in Nat /\ Count(B, g, x) \in Nat
      BY <2>1, CountIs
    <3>4. Count(A, f, x) <= Count(B, g, x)
      BY <1>4
    <3> HIDE DEF C, D
    <3> QED BY <2>5, <3>1, <3>2, <3>3, <3>4
  <2>7. Cardinality(C) = n
    <3>1. Cardinality(A \ {i}) = IF i \in A THEN Cardinality(A) - 1 ELSE Cardinality(A)
      <4> HIDE DEF N, Bound, Less
      <4> QED BY <2>1, FS_RemoveElement
    <3>2. Cardinality(A) = n + 1 /\ (n + 1) - 1 = n
      BY <1>4
    <3> QED BY <2>2, <3>1, <3>2
  <2>8. Cardinality(D) = Cardinality(B) - 1
    <3>1. Cardinality(B \ {j}) = IF j \in B THEN Cardinality(B) - 1 ELSE Cardinality(B)
      <4> HIDE DEF N, Bound, Less, C
      <4> QED BY <2>1, FS_RemoveElement
    <3> QED BY <2>5, <3>1
  <2>9. C \in SUBSET S /\ D \in SUBSET T
    OBVIOUS
  <2> HIDE DEF C, D, Less
  <2>10. Cardinality(C) <= Cardinality(D)
    BY <1>4, <2>6, <2>7, <2>9
  <2> QED BY <1>4, <2>1, <2>7, <2>8, <2>10
<1>5. \A n \in Nat : n \in N => n + 1 \in N
  <2> HIDE DEF Less
  <2> QED BY <1>4
<1> HIDE DEF N, Less
<1>6. Nat \subseteq N
  BY <1>3, <1>5, Induct
<1>7. Cardinality(S) \in N /\ Less(S, T)
  BY <1>1, <1>6 DEF Less
<1> QED BY <1>7 DEF N

\* The members of S that f takes into X.
Into(S, f, X) == {i \in S : f[i] \in X}

\* And those of a set are not either.
LEMMA CountsAdd ==
    ASSUME NEW S, NEW T, IsFiniteSet(S), IsFiniteSet(T), NEW f, NEW g,
           \A x : Count(S, f, x) <= Count(T, g, x), NEW X
    PROVE  Cardinality(Into(S, f, X)) <= Cardinality(Into(T, g, X))
<1> DEFINE A == {i \in S : f[i] \in X}
           B == {i \in T : g[i] \in X}
<1>1. A \in SUBSET S /\ B \in SUBSET T
  OBVIOUS
<1>2. IsFiniteSet(A) /\ IsFiniteSet(B)
  BY <1>1, FS_Subset
<1>3. ASSUME NEW x
      PROVE  Count(A, f, x) <= Count(B, g, x)
  <2>1. CASE x \in X
    <3>1. {i \in A : f[i] = x} = {i \in S : f[i] = x} /\ {i \in B : g[i] = x} = {i \in T : g[i] = x}
      BY <2>1
    <3> QED BY <3>1 DEF Count
  <2>2. CASE x \notin X
    <3>1. \A i \in A : f[i] # x
      BY <2>2
    <3> HIDE DEF A, B
    <3>2. Count(A, f, x) = 0 /\ Count(B, g, x) \in Nat
      BY <1>2, <3>1, CountIs
    <3> QED BY <3>2
  <2> QED BY <2>1, <2>2
<1> HIDE DEF A, B
<1>4. Cardinality(A) <= Cardinality(B)
  BY <1>2, <1>3, CountsBound
<1> QED BY <1>4 DEF A, B, Into

(* The rows of a fingerprint. *)

Tables == {Table(x) : x \in Contents} \cup {Unreadable}

LEMMA ShownFinite ==
    ASSUME NEW p, NEW u, NEW d, NEW table \in Tables
    PROVE  IsFiniteSet(Shown(p, u, d, table)) /\ Shown(p, u, d, table) \subseteq DOMAIN table.rows
<1>1. Listed(table.rows)
  <2>1. CASE table = Unreadable
    <3>1. <<>> \in Seq({})
      OBVIOUS
    <3>2. Listed(<<>>)
      BY <3>1 DEF Listed
    <3> QED BY <2>1, <3>2 DEF Unreadable
  <2>2. CASE \E x \in Contents : table = Table(x)
    BY <2>2, VerificationAssumption DEF Table
  <2> QED BY <2>1, <2>2 DEF Tables
<1>2. DOMAIN table.rows = 1..Len(table.rows) /\ Len(table.rows) \in Nat
  BY <1>1, ListedIs
<1>3. IsFiniteSet(DOMAIN table.rows)
  BY <1>2, FS_Interval
<1>4. Shown(p, u, d, table) \in SUBSET DOMAIN table.rows
  BY DEF Shown
<1> QED BY <1>3, <1>4, FS_Subset

\* What each shown row reads as.
Reading(p, u, d, table) == [i \in Shown(p, u, d, table) |-> ReadAs(p, u, d, table.rows[i])]

\* What digests say: how many of S read as what.
CountsIn(digests, S, f) ==
    /\ DOMAIN digests = {f[i] : i \in S}
    /\ \A x \in DOMAIN digests : digests[x] = Count(S, f, x)
    /\ \A x : x \notin DOMAIN digests => Count(S, f, x) = 0
    /\ \A x : Count(S, f, x) \in Nat

LEMMA DigestsCount ==
    ASSUME NEW p, NEW u, NEW d, NEW table \in Tables
    PROVE  CountsIn(RowDigests(p, u, d, table), Shown(p, u, d, table), Reading(p, u, d, table))
<1> DEFINE S == Shown(p, u, d, table)
           f == Reading(p, u, d, table)
           read(i) == ReadAs(p, u, d, table.rows[i])
           digests == RowDigests(p, u, d, table)
<1>1. IsFiniteSet(S)
  BY ShownFinite
<1>2. f = [i \in S |-> read(i)]
  BY DEF Reading
<1>3. digests = [x \in {read(i) : i \in S} |-> Cardinality({i \in S : read(i) = x})]
  BY DEF RowDigests
<1> HIDE DEF S, f, read, digests
<1>4. \A i \in S : f[i] = read(i)
  BY <1>2
<1>5. \A x : {i \in S : read(i) = x} = {i \in S : f[i] = x}
  BY <1>4
<1>6. DOMAIN digests = {f[i] : i \in S}
  BY <1>3, <1>4
<1>7. \A x \in DOMAIN digests : digests[x] = Count(S, f, x)
  BY <1>3, <1>5 DEF Count
<1>8. \A x : x \notin DOMAIN digests => Count(S, f, x) = 0
  BY <1>1, <1>6, CountIs
<1>9. \A x : Count(S, f, x) \in Nat
  BY <1>1, CountIs
<1>10. CountsIn(digests, S, f)
  BY <1>6, <1>7, <1>8, <1>9 DEF CountsIn
<1> QED BY <1>10 DEF S, f, digests

\* Digests without a gain are of rows none of which is more frequent.
LEMMA NoGainCounts ==
    ASSUME NEW p, NEW q, NEW u, NEW d, NEW t0 \in Tables, NEW t1 \in Tables,
           MultisetGain(RowDigests(p, u, d, t0), RowDigests(q, u, d, t1)) = {}
    PROVE  \A x : Count(Shown(q, u, d, t1), Reading(q, u, d, t1), x)
                    <= Count(Shown(p, u, d, t0), Reading(p, u, d, t0), x)
<1> DEFINE n0(x) == Count(Shown(p, u, d, t0), Reading(p, u, d, t0), x)
           n1(x) == Count(Shown(q, u, d, t1), Reading(q, u, d, t1), x)
           g0 == RowDigests(p, u, d, t0)
           g1 == RowDigests(q, u, d, t1)
<1>0. CountsIn(g0, Shown(p, u, d, t0), Reading(p, u, d, t0))
      /\ CountsIn(g1, Shown(q, u, d, t1), Reading(q, u, d, t1))
  BY DigestsCount
<1>1. /\ \A x \in DOMAIN g0 : g0[x] = n0(x)
      /\ \A x : n0(x) \in Nat
  BY <1>0 DEF CountsIn
<1>2. /\ \A x \in DOMAIN g1 : g1[x] = n1(x)
      /\ \A x : x \notin DOMAIN g1 => n1(x) = 0
      /\ \A x : n1(x) \in Nat
  BY <1>0 DEF CountsIn
<1> HIDE DEF n0, n1, g0, g1
<1>3. \A x \in DOMAIN g1 : x \in DOMAIN g0 /\ ~(g1[x] > g0[x])
  BY DEF MultisetGain, g0, g1
<1>4. \A x : n1(x) <= n0(x)
  BY <1>1, <1>2, <1>3
<1> QED BY <1>4 DEF n0, n1

\* Whoever reads more rows, or more of them in the clear, has gained one.
LEMMA GainIsSeen ==
    ASSUME NEW p, NEW q, NEW u, NEW t0 \in Tables, NEW t1 \in Tables,
           MultisetGain(RowDigests(p, u, dataset, t0), RowDigests(q, u, dataset, t1)) = {}
    PROVE  /\ \A c, v : Clear(q, u, t1, c, v) <= Clear(p, u, t0, c, v)
           /\ Cardinality(Shown(q, u, dataset, t1)) <= Cardinality(Shown(p, u, dataset, t0))
<1> DEFINE S == Shown(q, u, dataset, t1)
           T == Shown(p, u, dataset, t0)
           f == Reading(q, u, dataset, t1)
           g == Reading(p, u, dataset, t0)
<1>1. IsFiniteSet(S) /\ IsFiniteSet(T)
  BY ShownFinite
<1>2. \A x : Count(S, f, x) <= Count(T, g, x)
  BY NoGainCounts
<1>3. /\ \A i \in S : f[i] = ReadAs(q, u, dataset, t1.rows[i])
      /\ \A i \in T : g[i] = ReadAs(p, u, dataset, t0.rows[i])
  BY DEF Reading
<1>4. ASSUME NEW c, NEW v
      PROVE  Clear(q, u, t1, c, v) <= Clear(p, u, t0, c, v)
  <2> DEFINE X == {x \in {f[i] : i \in S} \cup {g[i] : i \in T} : x[c] = <<"plain", v>>}
             A == {i \in S : f[i] \in X}
             B == {i \in T : g[i] \in X}
  <2>1. Cardinality(A) <= Cardinality(B)
    <3> HIDE DEF S, T, f, g, X
    <3>1. Cardinality(Into(S, f, X)) <= Cardinality(Into(T, g, X))
      BY <1>1, <1>2, CountsAdd
    <3> QED BY <3>1 DEF Into
  <2>2. A = {i \in S : ReadAs(q, u, dataset, t1.rows[i])[c] = <<"plain", v>>}
    <3> HIDE DEF S, T, f, g
    <3> QED BY <1>3
  <2>3. B = {i \in T : ReadAs(p, u, dataset, t0.rows[i])[c] = <<"plain", v>>}
    <3> HIDE DEF S, T, f, g
    <3> QED BY <1>3
  <2> HIDE DEF A, B
  <2> QED BY <2>1, <2>2, <2>3 DEF Clear
<1>5. Cardinality(S) <= Cardinality(T)
  <2> HIDE DEF S, T, f, g
  <2> QED BY <1>1, <1>2, CountsBound
<1> QED BY <1>4, <1>5

\* A sequence of no rows shows none.
LEMMA NothingShown ==
    ASSUME NEW p, NEW u, NEW d, NEW table \in Tables, ~table.readable
    PROVE  Shown(p, u, d, table) = {}
<1>1. table = Unreadable
  BY DEF Tables, Table
<1>2. DOMAIN <<>> = {}
  OBVIOUS
<1> QED BY <1>1, <1>2 DEF Shown, Unreadable

LEMMA ReadableIs ==
    ASSUME NEW table \in Tables
    PROVE  table.readable = TRUE \/ table.readable = FALSE
<1>1. CASE table = Unreadable
  BY <1>1 DEF Unreadable
<1>2. CASE \E x \in Contents : table = Table(x)
  BY <1>2 DEF Table
<1> QED BY <1>1, <1>2 DEF Tables

LEMMA ClearIs ==
    ASSUME NEW p, NEW u, NEW table \in Tables
    PROVE  /\ Cardinality(Shown(p, u, dataset, table)) \in Nat
           /\ \A c, v : Clear(p, u, table, c, v) \in Nat
           /\ Shown(p, u, dataset, table) = {}
                => /\ Cardinality(Shown(p, u, dataset, table)) = 0
                   /\ \A c, v : Clear(p, u, table, c, v) = 0
<1> DEFINE S == Shown(p, u, dataset, table)
           A(c, v) == {i \in S : ReadAs(p, u, dataset, table.rows[i])[c] = <<"plain", v>>}
<1>1. IsFiniteSet(S)
  BY ShownFinite
<1>2. \A c, v : A(c, v) \in SUBSET S
  OBVIOUS
<1>3. \A c, v : Clear(p, u, table, c, v) = Cardinality(A(c, v))
  BY DEF Clear
<1> HIDE DEF S, A
<1>4. \A c, v : IsFiniteSet(A(c, v))
  BY <1>1, <1>2, FS_Subset
<1>5. Cardinality(S) \in Nat /\ \A c, v : Cardinality(A(c, v)) \in Nat
  BY <1>1, <1>4, FS_CardinalityType
<1>6. Cardinality({}) = 0
  BY FS_EmptySet
<1>7. S = {} => \A c, v : A(c, v) = {}
  BY <1>2
<1>8. S = {} => Cardinality(S) = 0 /\ \A c, v : Cardinality(A(c, v)) = 0
  BY <1>6, <1>7
<1> QED BY <1>3, <1>5, <1>8 DEF S

\* Cells are compared field by field.
LEMMA CellIs ==
    ASSUME NEW p, NEW u, NEW d, NEW table \in Tables
    PROVE  LET cell == Cell(p, u, d, table) IN
           /\ cell.view = DatasetPermission(p, u, d).view
           /\ cell.edit = DatasetPermission(p, u, d).edit
           /\ cell.decision = DecisionText(p, u, d, IF table.readable THEN Columns[d] ELSE {})
           /\ table.readable => /\ cell.rows = {RowDigests(p, u, d, table)}
                                /\ cell.visible = {VisibleDigests(p, u, d, table)}
           /\ ~table.readable => cell.rows = {} /\ cell.visible = {}
           /\ DOMAIN cell = {"view", "edit", "markings", "decision", "rows", "visible"}
<1> DEFINE may == DatasetPermission(p, u, d)
           decision == DecisionText(p, u, d, IF table.readable THEN Columns[d] ELSE {})
           read == IF table.readable THEN {RowDigests(p, u, d, table)} ELSE {}
           visible == IF table.readable THEN {VisibleDigests(p, u, d, table)} ELSE {}
           cell == Cell(p, u, d, table)
<1>1. cell = [view |-> may.view, edit |-> may.edit, markings |-> p.inherited[d],
              decision |-> decision, rows |-> read, visible |-> visible]
  BY DEF Cell
<1>2. read = (IF table.readable THEN {RowDigests(p, u, d, table)} ELSE {})
      /\ visible = (IF table.readable THEN {VisibleDigests(p, u, d, table)} ELSE {})
  OBVIOUS
<1> HIDE DEF may, decision, read, visible, cell
<1>3. /\ cell.view = may.view /\ cell.edit = may.edit /\ cell.decision = decision
      /\ cell.rows = read /\ cell.visible = visible
      /\ DOMAIN cell = {"view", "edit", "markings", "decision", "rows", "visible"}
  BY <1>1
<1> QED BY <1>2, <1>3 DEF may, decision, cell

\* More rows, or more of them in the clear, widen the rows.
LEMMA MoreIsWider ==
    ASSUME NEW p, NEW q, NEW u, NEW t0 \in Tables, NEW t1 \in Tables,
           \/ \E c, v : Clear(q, u, t1, c, v) > Clear(p, u, t0, c, v)
           \/ Cardinality(Shown(q, u, dataset, t1)) > Cardinality(Shown(p, u, dataset, t0))
    PROVE  RowsWidened(Cell(p, u, dataset, t0), Cell(q, u, dataset, t1))
<1> DEFINE S == Shown(q, u, dataset, t1)
           after == RowDigests(q, u, dataset, t1)
           earlier == RowDigests(p, u, dataset, t0)
           source == Cell(p, u, dataset, t0)
           toward == Cell(q, u, dataset, t1)
<1>1. S # {}
  <2>1. /\ Cardinality(Shown(p, u, dataset, t0)) \in Nat
        /\ \A c, v : Clear(p, u, t0, c, v) \in Nat
    BY ClearIs
  <2>2. S = {} => /\ Cardinality(Shown(q, u, dataset, t1)) = 0
                  /\ \A c, v : Clear(q, u, t1, c, v) = 0
    BY ClearIs
  <2> HIDE DEF S
  <2> QED BY <2>1, <2>2
<1>2. t1.readable
  BY <1>1, NothingShown
<1>3. toward.rows = {after}
  BY <1>2, CellIs
<1>4. CASE t0.readable
  <2>1. source.rows = {earlier}
    BY <1>4, CellIs
  <2>2. MultisetGain(earlier, after) # {}
    <3>1. SUFFICES ASSUME MultisetGain(earlier, after) = {} PROVE FALSE
      OBVIOUS
    <3>2. /\ \A c, v : Clear(q, u, t1, c, v) <= Clear(p, u, t0, c, v)
          /\ Cardinality(Shown(q, u, dataset, t1)) <= Cardinality(Shown(p, u, dataset, t0))
      BY <3>1, GainIsSeen
    <3>3. /\ Cardinality(Shown(p, u, dataset, t0)) \in Nat
          /\ \A c, v : Clear(p, u, t0, c, v) \in Nat
      BY ClearIs
    <3>4. /\ Cardinality(Shown(q, u, dataset, t1)) \in Nat
          /\ \A c, v : Clear(q, u, t1, c, v) \in Nat
      BY ClearIs
    <3> HIDE DEF earlier, after
    <3> QED BY <3>2, <3>3, <3>4
  <2> HIDE DEF earlier, after, source, toward
  <2> QED BY <1>3, <2>1, <2>2 DEF RowsWidened, source, toward
<1>5. CASE ~t0.readable
  <2>1. source.rows = {}
    BY <1>5, CellIs
  <2>2. DOMAIN after = {Reading(q, u, dataset, t1)[i] : i \in S}
    <3>1. CountsIn(after, S, Reading(q, u, dataset, t1))
      BY DigestsCount
    <3> QED BY <3>1 DEF CountsIn
  <2> HIDE DEF S, after, source, toward
  <2>3. DOMAIN after # {}
    BY <1>1, <2>2
  <2> QED BY <1>3, <2>1, <2>3 DEF RowsWidened, source, toward
<1> QED BY <1>4, <1>5

\* The rows at one end are rows of the other and read alike there.
Narrows(p, q, u, d, t0, t1) ==
    \A i \in Shown(q, u, d, t1) : /\ i \in Shown(p, u, d, t0)
                                  /\ ReadAs(q, u, d, t1.rows[i]) = ReadAs(p, u, d, t0.rows[i])

LEMMA NarrowsRows ==
    ASSUME NEW p, NEW q, NEW u, NEW d, NEW t0 \in Tables, NEW t1 \in Tables,
           Narrows(p, q, u, d, t0, t1)
    PROVE  MultisetGain(RowDigests(p, u, d, t0), RowDigests(q, u, d, t1)) = {}
<1> DEFINE S == Shown(q, u, d, t1)
           T == Shown(p, u, d, t0)
           f == Reading(q, u, d, t1)
           g == Reading(p, u, d, t0)
           after == RowDigests(q, u, d, t1)
           earlier == RowDigests(p, u, d, t0)
<1>1. IsFiniteSet(T)
  BY ShownFinite
<1>2. \A i \in S : i \in T /\ f[i] = g[i]
  BY DEF Narrows, Reading
<1>3. CountsIn(after, S, f) /\ CountsIn(earlier, T, g)
  BY DigestsCount
<1> HIDE DEF S, T, f, g, after, earlier
<1>4. \A x : Count(S, f, x) <= Count(T, g, x)
  <2> SUFFICES ASSUME NEW x PROVE Count(S, f, x) <= Count(T, g, x)
    OBVIOUS
  <2> DEFINE A == {i \in S : f[i] = x}
             B == {i \in T : g[i] = x}
  <2>1. A \in SUBSET B /\ B \in SUBSET T
    BY <1>2
  <2> HIDE DEF A, B
  <2>2. IsFiniteSet(B)
    BY <1>1, <2>1, FS_Subset
  <2>3. Cardinality(A) <= Cardinality(B)
    BY <2>1, <2>2, FS_Subset
  <2> QED BY <2>3 DEF Count, A, B
<1>5. \A x \in DOMAIN after : x \in DOMAIN earlier
  BY <1>2, <1>3 DEF CountsIn
<1>6. \A x \in DOMAIN after : ~(after[x] > earlier[x])
  <2> SUFFICES ASSUME NEW x \in DOMAIN after PROVE ~(after[x] > earlier[x])
    OBVIOUS
  <2>1. after[x] = Count(S, f, x) /\ earlier[x] = Count(T, g, x)
    BY <1>3, <1>5 DEF CountsIn
  <2>2. Count(S, f, x) \in Nat /\ Count(T, g, x) \in Nat
    BY <1>3 DEF CountsIn
  <2>3. Count(S, f, x) <= Count(T, g, x)
    BY <1>4
  <2> QED BY <2>1, <2>2, <2>3
<1>7. MultisetGain(earlier, after) = {}
  BY <1>5, <1>6 DEF MultisetGain
<1> QED BY <1>7 DEF earlier, after

LEMMA NarrowsVisible ==
    ASSUME NEW p, NEW q, NEW u, NEW d, NEW t0 \in Tables, NEW t1 \in Tables,
           Narrows(p, q, u, d, t0, t1)
    PROVE  SetGain(VisibleDigests(p, u, d, t0), VisibleDigests(q, u, d, t1)) = {}
<1> DEFINE S == Shown(q, u, d, t1)
           T == Shown(p, u, d, t0)
           f(i) == ReadAs(q, u, d, t1.rows[i])
           g(i) == ReadAs(p, u, d, t0.rows[i])
           after == VisibleDigests(q, u, d, t1)
           earlier == VisibleDigests(p, u, d, t0)
<1>1. \A i \in S : i \in T /\ f(i) = g(i)
  BY DEF Narrows
<1>2. after = {x \in {<<c, f(i)[c]>> : c \in Columns[d], i \in S} : x[2] # <<"null">>}
  BY DEF VisibleDigests
<1>3. earlier = {x \in {<<c, g(i)[c]>> : c \in Columns[d], i \in T} : x[2] # <<"null">>}
  BY DEF VisibleDigests
<1> HIDE DEF S, T, f, g, after, earlier
<1>4. \A x \in after : x \in earlier
  BY <1>1, <1>2, <1>3
<1> QED BY <1>4 DEF SetGain, earlier, after

\* A narrowing widens neither the rows nor the cells.
LEMMA NarrowsNothing ==
    ASSUME NEW p, NEW q, NEW u, NEW d, NEW t0 \in Tables, NEW t1 \in Tables,
           Narrows(p, q, u, d, t0, t1)
    PROVE  /\ ~RowsWidened(Cell(p, u, d, t0), Cell(q, u, d, t1))
           /\ ~VisibleWidened(Cell(p, u, d, t0), Cell(q, u, d, t1))
<1> DEFINE after == RowDigests(q, u, d, t1)
           earlier == RowDigests(p, u, d, t0)
           now == VisibleDigests(q, u, d, t1)
           then == VisibleDigests(p, u, d, t0)
           source == Cell(p, u, d, t0)
           toward == Cell(q, u, d, t1)
<1>1. MultisetGain(earlier, after) = {} /\ SetGain(then, now) = {}
  BY NarrowsRows, NarrowsVisible
<1>2. (toward.rows = {} \/ toward.rows = {after}) /\ (toward.visible = {} \/ toward.visible = {now})
  BY ReadableIs, CellIs
<1>3. CASE t0.readable
  <2>1. source.rows = {earlier} /\ source.visible = {then}
    BY <1>3, CellIs
  <2> HIDE DEF earlier, after, now, then, source, toward
  <2> QED BY <1>1, <1>2, <2>1 DEF RowsWidened, VisibleWidened, source, toward
<1>4. CASE ~t0.readable
  <2>1. source.rows = {} /\ source.visible = {}
    BY <1>4, CellIs
  <2>2. Shown(p, u, d, t0) = {}
    BY <1>4, NothingShown
  <2>3. Shown(q, u, d, t1) = {}
    BY <2>2 DEF Narrows
  <2>4. DOMAIN after = {}
    BY <2>3 DEF RowDigests
  <2>5. now = {}
    BY <2>3 DEF VisibleDigests
  <2> HIDE DEF earlier, after, now, then, source, toward
  <2> QED BY <1>2, <2>1, <2>4, <2>5 DEF RowsWidened, VisibleWidened, source, toward
<1> QED BY <1>3, <1>4

(* What decides what is seen. *)

\* The masks of a column are among those that the decision keeps.
Masks(p, u, d, columns) ==
    LET masks == p.policy[d].masks
    IN  {m \in {masks[i] : i \in DOMAIN masks} :
            m.column \in columns /\ Applies(m, p.role[u], u, GroupsOf(p, u))}

\* B picks the masks of the column c.
Picks(p, d, c, B) ==
    /\ c \in Columns[d] /\ Listed(p.policy[d].masks)
    /\ \A i \in DOMAIN p.policy[d].masks :
          p.policy[d].masks[i] \in B <=> p.policy[d].masks[i].column = c

\* What B picks of the masks that are kept are those on the column.
Picked(p, u, d, c, B) ==
    MasksOn(p, u, d, c) = Kept(Kept(p.policy[d].masks, Masks(p, u, d, Columns[d])), B)

LEMMA MasksAreKept ==
    ASSUME NEW p, NEW u, NEW d, NEW c, NEW B, Picks(p, d, c, B)
    PROVE  Picked(p, u, d, c, B)
<1> DEFINE masks == p.policy[d].masks
           applies(m) == Applies(m, p.role[u], u, GroupsOf(p, u))
           A == Masks(p, u, d, Columns[d])
           C == {m \in {masks[i] : i \in DOMAIN masks} : m.column = c /\ applies(m)}
<1>1. MasksOn(p, u, d, c) = Kept(masks, C)
  BY DEF MasksOn
<1>2. A = {m \in {masks[i] : i \in DOMAIN masks} : m.column \in Columns[d] /\ applies(m)}
  BY DEF Masks
<1>3. /\ c \in Columns[d] /\ Listed(masks)
      /\ \A i \in DOMAIN masks : masks[i] \in B <=> masks[i].column = c
  BY DEF Picks
<1> HIDE DEF masks, applies, A
<1>4. \A i \in DOMAIN masks : masks[i] \in C <=> masks[i] \in A /\ masks[i] \in B
  BY <1>2, <1>3
<1> HIDE DEF C
<1>5. Kept(Kept(masks, A), B) = Kept(masks, C)
  BY <1>3, <1>4, KeptTwice
<1> QED BY <1>1, <1>5 DEF masks, A, Picked

\* The rules of a decision that denies leave no row.
Denied(p, u, d, columns) ==
    LET row == p.policy[d].row IN
    /\ row # NoRowPolicy
    /\ row.column \notin columns \/ Allowed(row.rules, p.role[u], u, GroupsOf(p, u)) = {}

\* What the rules allow.
Grants(p, u, d) == Allowed(p.policy[d].row.rules, p.role[u], u, GroupsOf(p, u))

LEMMA DecisionIs ==
    ASSUME NEW p, NEW u, NEW d, NEW columns
    PROVE  /\ p.role[u] = "admin" => DecisionText(p, u, d, columns) = NoPolicy
           /\ p.role[u] # "admin" /\ Denied(p, u, d, columns)
                => DecisionText(p, u, d, columns) = [denies |-> TRUE]
           /\ p.role[u] # "admin" /\ ~Denied(p, u, d, columns)
                => DecisionText(p, u, d, columns)
                     = [column |-> p.policy[d].row.column, values |-> Grants(p, u, d),
                        masks |-> Kept(p.policy[d].masks, Masks(p, u, d, columns))]
BY DEF DecisionText, Denied, Grants, Masks

\* Decisions that are alike are of one kind and say one thing.
LEMMA SameDecision ==
    ASSUME NEW p, NEW q, NEW u, NEW d, NEW columns,
           DecisionText(p, u, d, columns) = DecisionText(q, u, d, columns)
    PROVE  /\ p.role[u] = "admin" <=> q.role[u] = "admin"
           /\ p.role[u] # "admin" =>
                /\ Denied(p, u, d, columns) <=> Denied(q, u, d, columns)
                /\ ~Denied(p, u, d, columns) =>
                     /\ p.policy[d].row.column = q.policy[d].row.column
                     /\ Grants(p, u, d) = Grants(q, u, d)
                     /\ Kept(p.policy[d].masks, Masks(p, u, d, columns))
                          = Kept(q.policy[d].masks, Masks(q, u, d, columns))
<1> DEFINE a == DecisionText(p, u, d, columns)
           b == DecisionText(q, u, d, columns)
           says(r) == [column |-> r.policy[d].row.column, values |-> Grants(r, u, d),
                       masks |-> Kept(r.policy[d].masks, Masks(r, u, d, columns))]
<1>1. /\ p.role[u] = "admin" => a = NoPolicy
      /\ p.role[u] # "admin" /\ Denied(p, u, d, columns) => a = [denies |-> TRUE]
      /\ p.role[u] # "admin" /\ ~Denied(p, u, d, columns) => a = says(p)
  BY DecisionIs
<1>2. /\ q.role[u] = "admin" => b = NoPolicy
      /\ q.role[u] # "admin" /\ Denied(q, u, d, columns) => b = [denies |-> TRUE]
      /\ q.role[u] # "admin" /\ ~Denied(q, u, d, columns) => b = says(q)
  BY DecisionIs
<1>3. /\ DOMAIN NoPolicy = {"row", "masks"}
      /\ DOMAIN [denies |-> TRUE] = {"denies"}
      /\ DOMAIN says(p) = {"column", "values", "masks"}
      /\ DOMAIN says(q) = {"column", "values", "masks"}
  BY DEF NoPolicy
<1>4. /\ {"row", "masks"} # {"denies"} /\ {"row", "masks"} # {"column", "values", "masks"}
      /\ {"denies"} # {"column", "values", "masks"}
  <2>1. "row" \notin {"denies"} /\ "row" \notin {"column", "values", "masks"}
        /\ "column" \notin {"denies"}
    OBVIOUS
  <2> QED BY <2>1
<1>5. says(p) = says(q) =>
        /\ p.policy[d].row.column = q.policy[d].row.column
        /\ Grants(p, u, d) = Grants(q, u, d)
        /\ Kept(p.policy[d].masks, Masks(p, u, d, columns))
             = Kept(q.policy[d].masks, Masks(q, u, d, columns))
  <2>1. /\ says(p).column = p.policy[d].row.column /\ says(q).column = q.policy[d].row.column
        /\ says(p).values = Grants(p, u, d) /\ says(q).values = Grants(q, u, d)
        /\ says(p).masks = Kept(p.policy[d].masks, Masks(p, u, d, columns))
        /\ says(q).masks = Kept(q.policy[d].masks, Masks(q, u, d, columns))
    OBVIOUS
  <2> HIDE DEF says
  <2> QED BY <2>1
<1>6. a = b
  OBVIOUS
<1> HIDE DEF a, b, says
<1> QED BY <1>1, <1>2, <1>3, <1>4, <1>5, <1>6

LEMMA SeesIs ==
    ASSUME NEW p, NEW u, NEW d
    PROVE  Sees(p, u, d) = {<<row, c, ShownAs(p, u, d, row, c)>> :
                               row \in SeenRows(p, u, d), c \in Columns[d]}
BY DEF Sees, SeenRows, ShownAs

LEMMA SeesAlike ==
    ASSUME NEW p, NEW q, NEW u, NEW d, SeenRows(p, u, d) = SeenRows(q, u, d),
           \A row \in SeenRows(p, u, d), c \in Columns[d] :
              ShownAs(p, u, d, row, c) = ShownAs(q, u, d, row, c)
    PROVE  Sees(p, u, d) = Sees(q, u, d)
<1> DEFINE R == SeenRows(p, u, d)
           C == Columns[d]
           f(row, c) == ShownAs(p, u, d, row, c)
           g(row, c) == ShownAs(q, u, d, row, c)
<1>1. Sees(p, u, d) = {<<row, c, f(row, c)>> : row \in R, c \in C}
  BY SeesIs
<1>2. Sees(q, u, d) = {<<row, c, g(row, c)>> : row \in R, c \in C}
  BY SeesIs
<1>3. \A row \in R, c \in C : f(row, c) = g(row, c)
  OBVIOUS
<1> HIDE DEF R, C, f, g
<1> QED BY <1>1, <1>2, <1>3

\* A row is visible to whom the rules of the decision show it.
LEMMA VisibleIs ==
    ASSUME NEW p, NEW u, NEW d, NEW row
    PROVE  /\ p.role[u] = "admin" => RowVisible(p, u, d, row)
           /\ p.role[u] # "admin" /\ Denied(p, u, d, Columns[d]) => ~RowVisible(p, u, d, row)
           /\ p.role[u] # "admin" /\ ~Denied(p, u, d, Columns[d]) =>
                (RowVisible(p, u, d, row) <=>
                   Grants(p, u, d) = {} \/ row[p.policy[d].row.column] \in Grants(p, u, d))
<1> DEFINE rp == p.policy[d].row
           allowed == Grants(p, u, d)
<1>1. RowVisible(p, u, d, row) <=> \/ p.role[u] = "admin"
                                   \/ rp = NoRowPolicy
                                   \/ rp.column \in Columns[d] /\ row[rp.column] \in allowed
  BY DEF RowVisible, Grants
<1>2. Denied(p, u, d, Columns[d]) <=> rp # NoRowPolicy /\ (rp.column \notin Columns[d] \/ allowed = {})
  BY DEF Denied, Grants
<1>3. rp = NoRowPolicy => allowed = {}
  <2> SUFFICES ASSUME rp = NoRowPolicy PROVE allowed = {}
    OBVIOUS
  <2>1. rp.rules = {}
    BY DEF NoRowPolicy
  <2>2. allowed = Allowed({}, p.role[u], u, GroupsOf(p, u))
    BY <2>1 DEF Grants
  <2> QED BY <2>2 DEF Allowed
<1> HIDE DEF rp, allowed
<1>4. /\ p.role[u] # "admin" /\ Denied(p, u, d, Columns[d]) => ~RowVisible(p, u, d, row)
  BY <1>1, <1>2
<1>5. p.role[u] # "admin" /\ ~Denied(p, u, d, Columns[d]) =>
                (RowVisible(p, u, d, row) <=> allowed = {} \/ row[rp.column] \in allowed)
  BY <1>1, <1>2, <1>3
<1> QED BY <1>1, <1>4, <1>5 DEF rp, allowed

\* Who decides alike and shows the dataset alike shows the same.
LEMMA SeesDecided ==
    ASSUME NEW p, NEW q, NEW u, NEW d,
           Listed(p.policy[d].masks), Listed(q.policy[d].masks),
           DecisionText(p, u, d, Columns[d]) = DecisionText(q, u, d, Columns[d]),
           DatasetPermission(p, u, d).view = DatasetPermission(q, u, d).view
    PROVE  Sees(p, u, d) = Sees(q, u, d)
<1>0. /\ p.role[u] = "admin" <=> q.role[u] = "admin"
      /\ p.role[u] # "admin" =>
           /\ Denied(p, u, d, Columns[d]) <=> Denied(q, u, d, Columns[d])
           /\ ~Denied(p, u, d, Columns[d]) =>
                /\ p.policy[d].row.column = q.policy[d].row.column
                /\ Grants(p, u, d) = Grants(q, u, d)
                /\ Kept(p.policy[d].masks, Masks(p, u, d, Columns[d]))
                     = Kept(q.policy[d].masks, Masks(q, u, d, Columns[d]))
  BY SameDecision
<1>1. \A row : RowVisible(p, u, d, row) <=> RowVisible(q, u, d, row)
  <2> SUFFICES ASSUME NEW row PROVE RowVisible(p, u, d, row) <=> RowVisible(q, u, d, row)
    OBVIOUS
  <2>1. CASE p.role[u] = "admin"
    BY <1>0, <2>1, VisibleIs
  <2>2. CASE p.role[u] # "admin" /\ Denied(p, u, d, Columns[d])
    BY <1>0, <2>2, VisibleIs
  <2>3. CASE p.role[u] # "admin" /\ ~Denied(p, u, d, Columns[d])
    <3>1. RowVisible(p, u, d, row) <=>
            Grants(p, u, d) = {} \/ row[p.policy[d].row.column] \in Grants(p, u, d)
      BY <2>3, VisibleIs
    <3>2. RowVisible(q, u, d, row) <=>
            Grants(q, u, d) = {} \/ row[q.policy[d].row.column] \in Grants(q, u, d)
      BY <1>0, <2>3, VisibleIs
    <3> QED BY <1>0, <2>3, <3>1, <3>2
  <2> QED BY <2>1, <2>2, <2>3
<1>2. SeenRows(p, u, d) = SeenRows(q, u, d)
  BY <1>1 DEF SeenRows
<1>3. ASSUME NEW row \in SeenRows(p, u, d), NEW c \in Columns[d]
      PROVE  ShownAs(p, u, d, row, c) = ShownAs(q, u, d, row, c)
  <2>1. CASE p.role[u] = "admin"
    BY <1>0, <2>1 DEF ShownAs
  <2>2. CASE p.role[u] # "admin"
    <3>1. ~Denied(p, u, d, Columns[d])
      BY <2>2, VisibleIs DEF SeenRows
    <3> DEFINE pm == p.policy[d].masks
               qm == q.policy[d].masks
               B == {m \in {pm[i] : i \in DOMAIN pm} \cup {qm[i] : i \in DOMAIN qm} : m.column = c}
    <3>2. Picks(p, d, c, B) /\ Picks(q, d, c, B)
      BY DEF Picks
    <3> HIDE DEF B
    <3>3. Picked(p, u, d, c, B)
      BY <3>2, MasksAreKept
    <3>4. Picked(q, u, d, c, B)
      BY <3>2, MasksAreKept
    <3>5. Kept(pm, Masks(p, u, d, Columns[d])) = Kept(qm, Masks(q, u, d, Columns[d]))
      BY <1>0, <2>2, <3>1
    <3> HIDE DEF pm, qm
    <3>6. MasksOn(p, u, d, c) = MasksOn(q, u, d, c)
      BY <3>3, <3>4, <3>5 DEF Picked, pm, qm
    <3>7. q.role[u] # "admin"
      BY <1>0, <2>2
    <3> QED BY <2>2, <3>6, <3>7 DEF ShownAs
  <2> QED BY <2>1, <2>2
<1> QED BY <1>2, <1>3, SeesAlike

\* A change of what is seen is a difference of the cells.
LEMMA DifferenceIsSeen ==
    ASSUME NEW p, NEW q, NEW u, NEW d, NEW t0 \in Tables, NEW t1 \in Tables,
           Listed(p.policy[d].masks), Listed(q.policy[d].masks),
           t0.readable \/ t1.readable,
           Differences(Cell(p, u, d, t0), Cell(q, u, d, t1)) = {}
    PROVE  Sees(p, u, d) = Sees(q, u, d)
<1> DEFINE source == Cell(p, u, d, t0)
           toward == Cell(q, u, d, t1)
<1>1. DOMAIN source = {"view", "edit", "markings", "decision", "rows", "visible"}
  BY CellIs
<1>2. Differences(source, toward) = {}
  OBVIOUS
<1>3. /\ source.view = DatasetPermission(p, u, d).view
      /\ toward.view = DatasetPermission(q, u, d).view
  BY CellIs
<1>4. /\ source.decision = DecisionText(p, u, d, IF t0.readable THEN Columns[d] ELSE {})
      /\ toward.decision = DecisionText(q, u, d, IF t1.readable THEN Columns[d] ELSE {})
  BY CellIs
<1>5. /\ t0.readable => source.rows = {RowDigests(p, u, d, t0)}
      /\ ~t0.readable => source.rows = {}
      /\ t1.readable => toward.rows = {RowDigests(q, u, d, t1)}
      /\ ~t1.readable => toward.rows = {}
  BY CellIs
<1> HIDE DEF source, toward
<1>6. source.view = toward.view /\ source.decision = toward.decision /\ source.rows = toward.rows
  BY <1>1, <1>2 DEF Differences
<1>7. t0.readable /\ t1.readable
  <2>1. {RowDigests(p, u, d, t0)} # {} /\ {RowDigests(q, u, d, t1)} # {}
    OBVIOUS
  <2> QED BY <1>5, <1>6, <2>1, ReadableIs
<1>8. DecisionText(p, u, d, Columns[d]) = DecisionText(q, u, d, Columns[d])
  BY <1>4, <1>6, <1>7
<1>9. DatasetPermission(p, u, d).view = DatasetPermission(q, u, d).view
  BY <1>3, <1>6
<1> QED BY <1>8, <1>9, SeesDecided

(* What is found. *)

Verdict(u) == [widened |-> Widenings(Cell(compared.source, u, dataset, rows0),
                                   Cell(compared.destination, u, dataset, rows1)),
             differs |-> Differences(Cell(compared.source, u, dataset, rows0),
                                     Cell(compared.destination, u, dataset, rows1))]

Comparing ==
    /\ compared \in Pairs /\ dataset \in Datasets
    /\ rows0 \in Tables /\ rows1 \in Tables
    /\ verdict = <<>> \/ verdict = [u \in Principals |-> Verdict(u)]

\* What a comparison finds is told.
LEMMA VerdictTells ==
    ASSUME Comparing, NEW u
    PROVE  /\ LearnsMore(u) => Verdict(u).widened # {}
           /\ OnlyLoses(u) => Verdict(u).widened = {}
           /\ Sees(compared.source, u, dataset) # Sees(compared.destination, u, dataset)
                 => Verdict(u).differs # {} \/ ~(rows0.readable \/ rows1.readable)
<1> DEFINE p == compared.source
           q == compared.destination
           source == Cell(p, u, dataset, rows0)
           toward == Cell(q, u, dataset, rows1)
<1>0. rows0 \in Tables /\ rows1 \in Tables /\ Listed(p.policy[dataset].masks)
      /\ Listed(q.policy[dataset].masks)
  BY VerificationAssumption DEF Comparing
<1>1. Verdict(u).widened = Widenings(source, toward) /\ Verdict(u).differs = Differences(source, toward)
  BY DEF Verdict
<1>2. /\ source.view = DatasetPermission(p, u, dataset).view
      /\ source.edit = DatasetPermission(p, u, dataset).edit
      /\ toward.view = DatasetPermission(q, u, dataset).view
      /\ toward.edit = DatasetPermission(q, u, dataset).edit
  BY <1>0, CellIs
<1>3. ASSUME LearnsMore(u) PROVE Widenings(source, toward) # {}
  <2>1. CASE \/ \E c, v : Clear(q, u, rows1, c, v) > Clear(p, u, rows0, c, v)
             \/ Cardinality(Shown(q, u, dataset, rows1)) > Cardinality(Shown(p, u, dataset, rows0))
    <3>1. RowsWidened(source, toward)
      BY <1>0, <2>1, MoreIsWider
    <3>2. "rows" \in Widenings(source, toward)
      BY <3>1 DEF Widenings
    <3> QED BY <3>2
  <2>2. CASE DatasetPermission(q, u, dataset).view /\ ~DatasetPermission(p, u, dataset).view
    <3>1. "view" \in Widenings(source, toward)
      BY <1>2, <2>2 DEF Widenings
    <3> QED BY <3>1
  <2>3. CASE DatasetPermission(q, u, dataset).edit /\ ~DatasetPermission(p, u, dataset).edit
    <3>1. "edit" \in Widenings(source, toward)
      BY <1>2, <2>3 DEF Widenings
    <3> QED BY <3>1
  <2> QED BY <1>3, <2>1, <2>2, <2>3 DEF LearnsMore
<1>4. ASSUME OnlyLoses(u) PROVE Widenings(source, toward) = {}
  <2>1. Narrows(p, q, u, dataset, rows0, rows1)
    BY <1>4 DEF OnlyLoses, Narrows
  <2>2. ~RowsWidened(source, toward) /\ ~VisibleWidened(source, toward)
    BY <1>0, <2>1, NarrowsNothing
  <2>3. /\ DatasetPermission(q, u, dataset).view => DatasetPermission(p, u, dataset).view
        /\ DatasetPermission(q, u, dataset).edit => DatasetPermission(p, u, dataset).edit
    BY <1>4 DEF OnlyLoses
  <2> HIDE DEF source, toward
  <2> QED BY <1>2, <2>2, <2>3 DEF Widenings
<1>5. ASSUME Sees(p, u, dataset) # Sees(q, u, dataset), rows0.readable \/ rows1.readable
      PROVE  Differences(source, toward) # {}
  BY <1>0, <1>5, DifferenceIsSeen
<1> HIDE DEF source, toward
<1> QED BY <1>1, <1>3, <1>4, <1>5

LEMMA ComparingTells ==
    ASSUME Comparing
    PROVE  WideningsAreTold
<1>1. \A u \in DOMAIN verdict : verdict[u] = Verdict(u)
  BY DEF Comparing
<1>2. \A u : /\ LearnsMore(u) => Verdict(u).widened # {}
             /\ OnlyLoses(u) => Verdict(u).widened = {}
             /\ Sees(compared.source, u, dataset) # Sees(compared.destination, u, dataset)
                   => Verdict(u).differs # {} \/ ~(rows0.readable \/ rows1.readable)
  BY VerdictTells
<1> QED BY <1>1, <1>2 DEF WideningsAreTold

LEMMA ComparingAlways == VerificationSpec => []Comparing
<1>1. VerificationInit => Comparing
  BY DEF VerificationInit, Comparing, Tables
<1>2. Comparing /\ [VerificationNext]_verificationVars => Comparing'
  <2>1. ASSUME Comparing, Compare PROVE Comparing'
    <3>1. compared' = compared /\ dataset' = dataset /\ rows0' = rows0 /\ rows1' = rows1
      BY <2>1 DEF Compare
    <3>2. verdict' = [u \in Principals |-> Verdict(u)]
      BY <2>1 DEF Compare, Verdict
    <3>3. Principals' = Principals
      BY <3>1 DEF Principals
    <3>4. \A u : Verdict(u)' = Verdict(u)
      BY <3>1 DEF Verdict
    <3>5. verdict' = [u \in Principals' |-> Verdict(u)']
      BY <3>2, <3>3, <3>4
    <3> QED BY <2>1, <3>1, <3>5 DEF Comparing
  <2>2. ASSUME Comparing, UNCHANGED verificationVars PROVE Comparing'
    <3>1. /\ compared' = compared /\ dataset' = dataset /\ rows0' = rows0 /\ rows1' = rows1
          /\ verdict' = verdict
      BY <2>2 DEF verificationVars
    <3>2. Principals' = Principals
      BY <3>1 DEF Principals
    <3>3. \A u : Verdict(u)' = Verdict(u)
      BY <3>1 DEF Verdict
    <3> QED BY <2>2, <3>1, <3>2, <3>3 DEF Comparing
  <2> QED BY <2>1, <2>2 DEF VerificationNext
<1> QED BY <1>1, <1>2, PTL DEF VerificationSpec

(***************************************************************************)
(* export/verify.py: in every comparison of two fingerprints, whoever      *)
(* learns more at the destination is reported, whoever only loses is not,  *)
(* and a change of what any row would show a principal is a difference,    *)
(* whatever tables of governance are compared and whatever rows are there. *)
(***************************************************************************)
THEOREM WideningsAlwaysTold == VerificationSpec => []WideningsAreTold
<1>1. Comparing => WideningsAreTold
  BY ComparingTells
<1> QED BY <1>1, ComparingAlways, PTL
(***************************************************************************)
(* MergeImport: a merge keeps the rules of both workspaces.                *)
(***************************************************************************)

(* The closure of markings. *)

\* One step of the propagation among the datasets D.
SpreadOver(D, edges, direct, f) ==
    [d \in D |-> direct[d] \cup UNION {f[u] : u \in {v \in D : <<v, d>> \in edges}}]

Spread(edges, direct, f) == SpreadOver(DatasetNames, edges, direct, f)

Closes(D, edges, All, direct) ==
    \E f \in [D -> SUBSET All] : f = SpreadOver(D, edges, direct, f)

\* There is a closure: the least one.
LEMMA ClosureExists ==
    ASSUME NEW D, NEW edges, NEW All, NEW direct, direct \in [D -> SUBSET All]
    PROVE  Closes(D, edges, All, direct)
<1> DEFINE F == [D -> SUBSET All]
           up(d) == {v \in D : <<v, d>> \in edges}
           step(f, d) == direct[d] \cup UNION {f[u] : u \in up(d)}
           C == {g \in F : \A d \in D : step(g, d) \subseteq g[d]}
           least == [d \in D |-> {m \in All : \A g \in C : m \in g[d]}]
           more == [d \in D |-> step(least, d)]
<1>1. \A d : up(d) \subseteq D
  OBVIOUS
<1>2. \A f \in F, d \in D : step(f, d) \subseteq All
  BY <1>1
<1>3. ASSUME NEW f, NEW g, NEW d \in D, \A e \in D : f[e] \subseteq g[e]
      PROVE  step(f, d) \subseteq step(g, d)
  BY <1>1, <1>3
<1> HIDE DEF up, step
<1>4. least \in F /\ \A d \in D : \A m : m \in least[d] <=> m \in All /\ \A g \in C : m \in g[d]
  OBVIOUS
<1> HIDE DEF least
<1>5. \A g \in C : \A d \in D : least[d] \subseteq g[d]
  BY <1>4
<1>6. ASSUME NEW d \in D PROVE step(least, d) \subseteq least[d]
  <2>1. \A g \in C : step(least, d) \subseteq step(g, d)
    BY <1>3, <1>5
  <2>2. \A g \in C : step(g, d) \subseteq g[d]
    OBVIOUS
  <2>3. step(least, d) \subseteq All
    BY <1>2, <1>4
  <2> HIDE DEF C
  <2> QED BY <1>4, <2>1, <2>2, <2>3
<1>7. more \in F /\ \A d \in D : more[d] = step(least, d)
  BY <1>2, <1>4
<1> HIDE DEF more, F
<1>8. \A d \in D : step(more, d) \subseteq step(least, d)
  BY <1>3, <1>6, <1>7
<1>9. more \in C
  BY <1>7, <1>8
<1> HIDE DEF C
<1>10. \A d \in D : least[d] = step(least, d)
  BY <1>5, <1>6, <1>7, <1>9
<1>11. least = [d \in D |-> step(least, d)]
  BY <1>4, <1>10 DEF F
<1>12. least = SpreadOver(D, edges, direct, least)
  BY <1>11 DEF SpreadOver, step, up
<1> QED BY <1>4, <1>12 DEF F, Closes

LEMMA NamesClose ==
    ASSUME NEW edges, NEW All, NEW direct \in [DatasetNames -> SUBSET All]
    PROVE  \E f \in [DatasetNames -> SUBSET All] : f = Spread(edges, direct, f)
<1>1. Closes(DatasetNames, edges, All, direct)
  BY ClosureExists
<1> QED BY <1>1 DEF Closes, Spread

\* Without cycles it is the only one.
LEMMA ClosureIsOne ==
    ASSUME NEW edges, Acyclic(edges), NEW direct, NEW f, NEW g,
           f = Spread(edges, direct, f), g = Spread(edges, direct, g)
    PROVE  f = g
<1> DEFINE S == {d \in DatasetNames : f[d] # g[d]}
           up(d) == {v \in DatasetNames : <<v, d>> \in edges}
<1>1. /\ DOMAIN f = DatasetNames /\ DOMAIN g = DatasetNames
      /\ f = [d \in DatasetNames |-> f[d]] /\ g = [d \in DatasetNames |-> g[d]]
      /\ \A d \in DatasetNames : f[d] = direct[d] \cup UNION {f[u] : u \in up(d)}
      /\ \A d \in DatasetNames : g[d] = direct[d] \cup UNION {g[u] : u \in up(d)}
  BY DEF Spread, SpreadOver
<1>2. SUFFICES ASSUME S # {} PROVE FALSE
  BY <1>1
<1>3. PICK d \in S : \A u \in S : <<u, d>> \notin edges
  BY <1>2 DEF Acyclic
<1>4. \A u \in up(d) : f[u] = g[u]
  BY <1>3
<1>5. {f[u] : u \in up(d)} = {g[u] : u \in up(d)}
  BY <1>4
<1>6. f[d] = g[d]
  BY <1>1, <1>3, <1>5
<1> QED BY <1>3, <1>6

\* What get_enforced_markings answers is a closure.
LEMMA EffectiveIs ==
    ASSUME NEW w, NEW All, w.explicit \in [DatasetNames -> SUBSET All]
    PROVE  Effective(w) = Spread(w.lineage, w.explicit, Effective(w))
<1> DEFINE Is(f) == f = Spread(w.lineage, w.explicit, f)
<1>1. Effective(w) = CHOOSE f : Is(f)
  BY DEF Effective, Lines!Propagate, Spread, SpreadOver
<1>2. \E f : Is(f)
  BY NamesClose
<1> HIDE DEF Is
<1>3. Is(Effective(w))
  BY <1>1, <1>2
<1> QED BY <1>3 DEF Is

\* And it has markings that are there.
LEMMA EffectiveTyped ==
    ASSUME NEW w, Coherent(w)
    PROVE  /\ Effective(w) = Spread(w.lineage, w.explicit, Effective(w))
           /\ \A d \in DatasetNames : Effective(w)[d] \subseteq DOMAIN w.described
<1>1. w.explicit \in [DatasetNames -> SUBSET DOMAIN w.described] /\ Acyclic(w.lineage)
  BY DEF Coherent
<1>2. Effective(w) = Spread(w.lineage, w.explicit, Effective(w))
  BY <1>1, EffectiveIs
<1>3. PICK f \in [DatasetNames -> SUBSET DOMAIN w.described] : f = Spread(w.lineage, w.explicit, f)
  BY <1>1, NamesClose
<1>4. Effective(w) = f
  BY <1>1, <1>2, <1>3, ClosureIsOne
<1> QED BY <1>2, <1>3, <1>4

\* The markings in force on each dataset.
Forced(edges, direct, f) ==
    \A d \in DatasetNames :
        f[d] = direct[d] \cup UNION {f[u] : u \in {v \in DatasetNames : <<v, d>> \in edges}}

LEMMA InForce ==
    ASSUME NEW edges, NEW direct, NEW f, f = Spread(edges, direct, f)
    PROVE  Forced(edges, direct, f)
BY DEF Spread, SpreadOver, Forced

(* What a report without refusals says of what lands. *)

DatasetsLand(w, t, r) ==
    /\ \A d \in w.datasets : /\ Renamed(r.datasets, d) \in DatasetNames
                             /\ Renamed(r.datasets, d) \notin t.datasets
    /\ \A d, e \in w.datasets : Renamed(r.datasets, d) = Renamed(r.datasets, e) => d = e
    /\ \A d \in DatasetNames \ w.datasets : Renamed(r.datasets, d) = d

MarkingsLand(w, t, r) ==
    /\ r.reused = Reused(w, t)
    /\ \A m \in DOMAIN w.described : Renamed(r.markings, m) \in MarkingNames
    /\ \A m \in NewMarkings(w, r) : Renamed(r.markings, m) \notin DOMAIN t.described
    /\ \A m, n \in NewMarkings(w, r) : Renamed(r.markings, m) = Renamed(r.markings, n) => m = n

TypesLand(w, t) ==
    /\ \A o \in TypeNames : o \in DeclaredTypes(t) => w.typed[o] = {}
    /\ Landing(w, t) \cap DOMAIN t.declares = {}
    /\ \A f \in Landing(w, t) : w.declares[f].type \notin DeclaredTypes(t)

LEMMA ReportIs ==
    ASSUME NEW w, NEW t, NEW prefix
    PROVE  /\ MergeReport(w, t, prefix).datasets = DatasetRenames(w, t, prefix)
           /\ MergeReport(w, t, prefix).markings = MarkingRenames(w, t)
           /\ MergeReport(w, t, prefix).reused = Reused(w, t)
           /\ MergeReport(w, t, prefix).refusals
                = DatasetRefusals(w, t, DatasetRenames(w, t, prefix)) \cup TypeGrantRefusals(w, t)
                  \cup FileRefusals(w, t) \cup (w.authored \cap t.authored)
BY DEF MergeReport

LEMMA DatasetsDoLand ==
    ASSUME NEW w, Coherent(w), NEW t, NEW prefix, NEW r, r = MergeReport(w, t, prefix),
           r.refusals = {}, ~KeyTaken(w, t, r)
    PROVE  DatasetsLand(w, t, r)
<1> DEFINE name(d) == Renamed(r.datasets, d)
<1>1. r.datasets = DatasetRenames(w, t, prefix)
  BY ReportIs
<1>2. \A d \in DOMAIN r.datasets : r.datasets[d] \in DatasetNames
  <2>1. CASE prefix
    <3>1. r.datasets = [d \in w.datasets \cap t.datasets |-> Prefixed[d]]
      BY <1>1, <2>1 DEF DatasetRenames, Restrict
    <3>2. w.datasets \cap t.datasets \subseteq DatasetNames
      BY DEF Coherent
    <3> QED BY <3>1, <3>2, MergeAssumption
  <2>2. CASE ~prefix
    <3>1. r.datasets = <<>>
      BY <1>1, <2>2 DEF DatasetRenames
    <3> QED BY <3>1
  <2> QED BY <2>1, <2>2
<1>3. \A d \in w.datasets : name(d) \in DatasetNames
  BY <1>2 DEF Renamed, Coherent
<1>4. \A d \in w.datasets : name(d) \notin t.datasets
  BY DEF KeyTaken
<1>5. \A d, e \in w.datasets : name(d) = name(e) => d = e
  BY DEF KeyTaken
<1>6. DOMAIN r.datasets \subseteq w.datasets
  <2>1. CASE prefix
    BY <1>1, <2>1 DEF DatasetRenames, Restrict
  <2>2. CASE ~prefix
    BY <1>1, <2>2 DEF DatasetRenames
  <2> QED BY <2>1, <2>2
<1>7. \A d \in DatasetNames \ w.datasets : name(d) = d
  BY <1>6 DEF Renamed
<1> QED BY <1>3, <1>4, <1>5, <1>7 DEF DatasetsLand

LEMMA MarkingsDoLand ==
    ASSUME NEW w, Coherent(w), NEW t, NEW prefix, NEW r, r = MergeReport(w, t, prefix),
           ~KeyTaken(w, t, r)
    PROVE  MarkingsLand(w, t, r)
<1> DEFINE name(m) == Renamed(r.markings, m)
<1>1. r.markings = MarkingRenames(w, t) /\ r.reused = Reused(w, t)
  BY ReportIs
<1>2. \A m \in DOMAIN r.markings : r.markings[m] \in MarkingNames
  <2>1. DOMAIN w.described \subseteq MarkingNames
    BY DEF Coherent
  <2> QED BY <1>1, <2>1, MergeAssumption DEF MarkingRenames, Restrict
<1>3. \A m \in DOMAIN w.described : name(m) \in MarkingNames
  BY <1>2 DEF Renamed, Coherent
<1>4. \A m \in NewMarkings(w, r) : name(m) \notin DOMAIN t.described
  BY DEF KeyTaken
<1>5. \A m, n \in NewMarkings(w, r) : name(m) = name(n) => m = n
  BY DEF KeyTaken
<1> QED BY <1>1, <1>3, <1>4, <1>5 DEF MarkingsLand

LEMMA TypesDoLand ==
    ASSUME NEW w, NEW t, NEW prefix, MergeReport(w, t, prefix).refusals = {}
    PROVE  TypesLand(w, t)
<1>1. TypeGrantRefusals(w, t) = {} /\ FileRefusals(w, t) = {}
  BY ReportIs
<1>2. \A o \in TypeNames : o \in DeclaredTypes(t) => w.typed[o] = {}
  BY <1>1 DEF TypeGrantRefusals
<1>3. /\ Landing(w, t) \cap DOMAIN t.declares = {}
      /\ {w.declares[f].type : f \in Landing(w, t)} \cap DeclaredTypes(t) = {}
  BY <1>1 DEF FileRefusals
<1>4. \A f \in Landing(w, t) : w.declares[f].type \notin DeclaredTypes(t)
  BY <1>3
<1> QED BY <1>2, <1>3, <1>4 DEF TypesLand

(* What has landed. *)

\* What comes under the name of a dataset is what the one that has the name
\* has, and what is granted ahead.
LEMMA ImportedAre ==
    ASSUME NEW w, NEW t, NEW r, DatasetsLand(w, t, r)
    PROVE  /\ \A d \in t.datasets : ImportedMarkings(w, r, d) = {}
           /\ \A d \in w.datasets : ImportedMarkings(w, r, Renamed(r.datasets, d))
                                       = {Renamed(r.markings, m) : m \in w.explicit[d]}
<1> DEFINE name(d) == Renamed(r.datasets, d)
           from(n) == {x \in w.datasets : name(x) = n}
           direct(e) == {Renamed(r.markings, m) : m \in w.explicit[e]}
<1>1. \A n : ImportedMarkings(w, r, n) = UNION {direct(e) : e \in from(n)}
  BY DEF ImportedMarkings
<1>2. \A d \in t.datasets : from(d) = {}
  BY DEF DatasetsLand
<1>3. \A d \in w.datasets : from(name(d)) = {d}
  BY DEF DatasetsLand
<1> HIDE DEF name, from, direct
<1>4. \A d \in t.datasets : ImportedMarkings(w, r, d) = {}
  BY <1>1, <1>2
<1>5. ASSUME NEW d \in w.datasets PROVE ImportedMarkings(w, r, name(d)) = direct(d)
  <2>1. UNION {direct(e) : e \in {d}} = direct(d)
    OBVIOUS
  <2>2. from(name(d)) = {d}
    BY <1>3
  <2> QED BY <1>1, <2>1, <2>2
<1> QED BY <1>4, <1>5 DEF name, direct

LEMMA GrantedAre ==
    ASSUME NEW w, w.datasets \subseteq DatasetNames, NEW t, t.datasets \subseteq DatasetNames,
           NEW r, DatasetsLand(w, t, r)
    PROVE  /\ \A d \in t.datasets : d \in Ahead(w) \/ ImportedGrants(w, r, d) = {}
           /\ \A d \in w.datasets :
                 \/ Renamed(r.datasets, d) \in Ahead(w)
                 \/ ImportedGrants(w, r, Renamed(r.datasets, d)) = w.granted[d]
<1> DEFINE name(d) == Renamed(r.datasets, d)
           from(n) == {x \in DatasetNames : name(x) = n}
           all(n) == UNION {w.granted[e] : e \in from(n)}
<1>1. \A n : ImportedGrants(w, r, n) = all(n)
  BY DEF ImportedGrants
<1>2. ASSUME NEW d \in t.datasets, d \notin Ahead(w) PROVE all(d) = {}
  <2>1. \A e \in from(d) : e = d /\ e \notin w.datasets
    BY DEF DatasetsLand
  <2>2. \A e \in from(d) : w.granted[e] = {}
    BY <1>2, <2>1 DEF Ahead
  <2> HIDE DEF from
  <2> QED BY <2>2
<1>3. ASSUME NEW d \in w.datasets, name(d) \notin Ahead(w) PROVE all(name(d)) = w.granted[d]
  <2>1. d \in from(name(d))
    OBVIOUS
  <2>2. \A e \in from(name(d)) : e = d \/ (e \notin w.datasets /\ e = name(d))
    BY DEF DatasetsLand
  <2>3. \A e \in from(name(d)) : e = d \/ w.granted[e] = {}
    BY <1>3, <2>2 DEF Ahead
  <2> HIDE DEF from
  <2> QED BY <2>1, <2>3
<1> HIDE DEF all
<1>4. \A d \in t.datasets : d \in Ahead(w) \/ ImportedGrants(w, r, d) = {}
  BY <1>1, <1>2
<1>5. \A d \in w.datasets : name(d) \in Ahead(w) \/ ImportedGrants(w, r, name(d)) = w.granted[d]
  BY <1>1, <1>3
<1> QED BY <1>4, <1>5

\* The closure over what the merge leaves.
LEMMA MergedForce ==
    ASSUME NEW w, Coherent(w), NEW t, Coherent(t), NEW r, MarkingsLand(w, t, r)
    PROVE  LET n == Merged(w, t, r)
           IN  Effective(n) = Spread(n.lineage, n.explicit, Effective(n))
<1> DEFINE n == Merged(w, t, r)
<1>1. \A d \in DatasetNames : t.explicit[d] \subseteq MarkingNames
  BY DEF Coherent
<1>2. \A d \in DatasetNames : ImportedMarkings(w, r, d) \subseteq MarkingNames
  <2>1. \A e \in w.datasets : \A m \in w.explicit[e] : Renamed(r.markings, m) \in MarkingNames
    BY DEF Coherent, MarkingsLand
  <2> QED BY <2>1 DEF ImportedMarkings
<1>3. n.explicit = [d \in DatasetNames |-> t.explicit[d] \cup ImportedMarkings(w, r, d)]
  BY DEF Merged
<1> HIDE DEF n
<1>4. n.explicit \in [DatasetNames -> SUBSET MarkingNames]
  BY <1>1, <1>2, <1>3
<1>5. Effective(n) = Spread(n.lineage, n.explicit, Effective(n))
  BY <1>4, EffectiveIs
<1> QED BY <1>5 DEF n

\* What comes before a dataset of the target's own is what came before it.
LEMMA OwnForce ==
    ASSUME NEW w, Coherent(w), NEW t, Coherent(t), NEW r,
           DatasetsLand(w, t, r), MarkingsLand(w, t, r)
    PROVE  \A d \in t.datasets : Effective(Merged(w, t, r))[d] = Effective(t)[d]
<1> DEFINE n == Merged(w, t, r)
           f == Effective(n)
           g == Effective(t)
           h == [d \in DatasetNames |-> IF d \in t.datasets THEN f[d] ELSE g[d]]
           up(edges, d) == {v \in DatasetNames : <<v, d>> \in edges}
<1>1. /\ n.lineage = t.lineage \cup ImportedEdges(w, r)
      /\ n.explicit = [d \in DatasetNames |-> t.explicit[d] \cup ImportedMarkings(w, r, d)]
  BY DEF Merged
<1>2. f = Spread(n.lineage, n.explicit, f)
  BY MergedForce
<1>3. g = Spread(t.lineage, t.explicit, g)
  BY EffectiveTyped
<1>4. t.datasets \subseteq DatasetNames /\ t.lineage \subseteq t.datasets \X t.datasets
      /\ Acyclic(t.lineage)
  BY DEF Coherent
<1>5. \A e \in ImportedEdges(w, r) : e[2] \notin t.datasets
  BY DEF ImportedEdges, DatasetsLand, Coherent
<1>6. \A d \in t.datasets : up(n.lineage, d) = up(t.lineage, d)
  BY <1>1, <1>5
<1>7. \A d \in t.datasets : n.explicit[d] = t.explicit[d]
  <2>1. \A d \in t.datasets : ImportedMarkings(w, r, d) = {}
    BY ImportedAre
  <2> HIDE DEF n
  <2> QED BY <1>1, <1>4, <2>1
<1>8. \A d \in DatasetNames : f[d] = n.explicit[d] \cup UNION {f[u] : u \in up(n.lineage, d)}
  <2> HIDE DEF f, g, n
  <2>1. Forced(n.lineage, n.explicit, f)
    BY <1>2, InForce
  <2> QED BY <2>1 DEF Forced
<1>9. \A d \in DatasetNames : g[d] = t.explicit[d] \cup UNION {g[u] : u \in up(t.lineage, d)}
  <2> HIDE DEF f, g, n
  <2>1. Forced(t.lineage, t.explicit, g)
    BY <1>3, InForce
  <2> QED BY <2>1 DEF Forced
<1>10. \A d \in DatasetNames : up(t.lineage, d) \subseteq t.datasets
       /\ (d \notin t.datasets => up(t.lineage, d) = {})
  BY <1>4
<1> HIDE DEF f, g, n
<1>11. h \in [DatasetNames -> UNION {{f[d], g[d]} : d \in DatasetNames}]
       /\ \A d \in DatasetNames : h[d] = IF d \in t.datasets THEN f[d] ELSE g[d]
  OBVIOUS
<1> HIDE DEF h, up
<1>12. \A d \in DatasetNames : h[d] = t.explicit[d] \cup UNION {h[u] : u \in up(t.lineage, d)}
  <2> SUFFICES ASSUME NEW d \in DatasetNames
               PROVE  h[d] = t.explicit[d] \cup UNION {h[u] : u \in up(t.lineage, d)}
    OBVIOUS
  <2>1. CASE d \in t.datasets
    <3>1. \A u \in up(t.lineage, d) : h[u] = f[u]
      BY <1>4, <1>10, <1>11, <2>1
    <3>2. {h[u] : u \in up(t.lineage, d)} = {f[u] : u \in up(t.lineage, d)}
      BY <3>1
    <3> QED BY <1>6, <1>7, <1>8, <1>11, <2>1, <3>2
  <2>2. CASE d \notin t.datasets
    <3>1. up(t.lineage, d) = {}
      BY <1>10, <2>2
    <3> QED BY <1>9, <1>11, <2>2, <3>1
  <2> QED BY <2>1, <2>2
<1>13. h = [d \in DatasetNames |-> t.explicit[d] \cup UNION {h[u] : u \in up(t.lineage, d)}]
  BY <1>11, <1>12
<1>14. h = Spread(t.lineage, t.explicit, h)
  BY <1>13 DEF Spread, SpreadOver, up
<1>15. h = g
  BY <1>3, <1>4, <1>14, ClosureIsOne
<1>16. \A d \in t.datasets : f[d] = g[d]
  BY <1>4, <1>11, <1>15
<1> QED BY <1>16 DEF f, g, n

\* The markings on what lands are those it had, under their new names.
LEMMA ArchiveForce ==
    ASSUME NEW w, Coherent(w), NEW t, Coherent(t), NEW r,
           DatasetsLand(w, t, r), MarkingsLand(w, t, r)
    PROVE  \A d \in w.datasets : Effective(Merged(w, t, r))[Renamed(r.datasets, d)]
                                   = {Renamed(r.markings, m) : m \in Effective(w)[d]}
<1> DEFINE n == Merged(w, t, r)
           f == Effective(n)
           g == Effective(w)
           name(d) == Renamed(r.datasets, d)
           mark(m) == Renamed(r.markings, m)
           image(X) == {mark(m) : m \in X}
           up(edges, d) == {v \in DatasetNames : <<v, d>> \in edges}
           S == {d \in w.datasets : f[name(d)] # image(g[d])}
<1>1. /\ n.lineage = t.lineage \cup ImportedEdges(w, r)
      /\ n.explicit = [d \in DatasetNames |-> t.explicit[d] \cup ImportedMarkings(w, r, d)]
  BY DEF Merged
<1>2. f = Spread(n.lineage, n.explicit, f)
  BY MergedForce
<1>3. g = Spread(w.lineage, w.explicit, g)
  BY EffectiveTyped
<1>4. /\ w.datasets \subseteq DatasetNames /\ w.lineage \subseteq w.datasets \X w.datasets
      /\ Acyclic(w.lineage) /\ t.lineage \subseteq t.datasets \X t.datasets
      /\ \A d \in DatasetNames \ t.datasets : t.explicit[d] = {}
  BY DEF Coherent
<1>5. /\ \A d \in w.datasets : name(d) \in DatasetNames /\ name(d) \notin t.datasets
      /\ \A d, e \in w.datasets : name(d) = name(e) => d = e
  BY DEF DatasetsLand
<1>6. ImportedEdges(w, r) = {<<name(e[1]), name(e[2])>> : e \in w.lineage}
  BY DEF ImportedEdges
<1>7. \A d \in w.datasets : n.explicit[name(d)] = image(w.explicit[d])
  BY <1>1, <1>4, <1>5, ImportedAre
<1>8. \A d \in DatasetNames : f[d] = n.explicit[d] \cup UNION {f[u] : u \in up(n.lineage, d)}
  <2> HIDE DEF f, g, n
  <2>1. Forced(n.lineage, n.explicit, f)
    BY <1>2, InForce
  <2> QED BY <2>1 DEF Forced
<1>9. \A d \in DatasetNames : g[d] = w.explicit[d] \cup UNION {g[u] : u \in up(w.lineage, d)}
  <2> HIDE DEF f, g, n
  <2>1. Forced(w.lineage, w.explicit, g)
    BY <1>3, InForce
  <2> QED BY <2>1 DEF Forced
<1> HIDE DEF f, g, n, name, mark
<1>10. \A d \in w.datasets : up(n.lineage, name(d)) = {name(u) : u \in up(w.lineage, d)}
  <2> SUFFICES ASSUME NEW d \in w.datasets
               PROVE  up(n.lineage, name(d)) = {name(u) : u \in up(w.lineage, d)}
    OBVIOUS
  <2>1. ASSUME NEW v \in up(n.lineage, name(d)) PROVE v \in {name(u) : u \in up(w.lineage, d)}
    <3>1. <<v, name(d)>> \notin t.lineage
      BY <1>4, <1>5
    <3>2. <<v, name(d)>> \in ImportedEdges(w, r)
      BY <1>1, <2>1, <3>1
    <3>3. PICK e \in w.lineage : <<v, name(d)>> = <<name(e[1]), name(e[2])>>
      BY <1>6, <3>2
    <3>4. e[1] \in w.datasets /\ e[2] \in w.datasets /\ e = <<e[1], e[2]>>
      BY <1>4
    <3>5. v = name(e[1]) /\ e[2] = d
      BY <1>5, <3>3, <3>4
    <3>6. e[1] \in up(w.lineage, d)
      BY <1>4, <3>4, <3>5
    <3> QED BY <3>5, <3>6
  <2>2. ASSUME NEW u \in up(w.lineage, d) PROVE name(u) \in up(n.lineage, name(d))
    <3>1. <<u, d>> \in w.lineage /\ u \in w.datasets
      BY <1>4
    <3>2. <<name(u), name(d)>> \in ImportedEdges(w, r)
      BY <1>6, <3>1
    <3> QED BY <1>1, <1>5, <3>1, <3>2
  <2> QED BY <2>1, <2>2
<1>11. S = {}
  <2> SUFFICES ASSUME S # {} PROVE FALSE
    OBVIOUS
  <2>1. S \in SUBSET DatasetNames
    BY <1>4
  <2>2. PICK d \in S : \A u \in S : <<u, d>> \notin w.lineage
    BY <1>4, <2>1 DEF Acyclic
  <2>3. d \in w.datasets /\ d \in DatasetNames /\ f[name(d)] # image(g[d])
    BY <1>4, <2>2
  <2>4. \A u \in up(w.lineage, d) : u \in w.datasets /\ f[name(u)] = image(g[u])
    BY <1>4, <2>2
  <2> HIDE DEF S
  <2>5. UNION {f[v] : v \in {name(u) : u \in up(w.lineage, d)}}
          = UNION {image(g[u]) : u \in up(w.lineage, d)}
    <3> HIDE DEF image, up
    <3> QED BY <2>4
  <2>6. UNION {image(g[u]) : u \in up(w.lineage, d)} = image(UNION {g[u] : u \in up(w.lineage, d)})
    <3> HIDE DEF up
    <3> QED OBVIOUS
  <2>7. f[name(d)] = n.explicit[name(d)] \cup UNION {f[v] : v \in up(n.lineage, name(d))}
    BY <1>5, <1>8, <2>3
  <2>8. f[name(d)] = image(w.explicit[d]) \cup image(UNION {g[u] : u \in up(w.lineage, d)})
    <3> HIDE DEF image, up
    <3> QED BY <1>7, <1>10, <2>3, <2>5, <2>6, <2>7
  <2>9. image(g[d]) = image(w.explicit[d]) \cup image(UNION {g[u] : u \in up(w.lineage, d)})
    <3>1. g[d] = w.explicit[d] \cup UNION {g[u] : u \in up(w.lineage, d)}
      BY <1>9, <2>3
    <3> DEFINE A == w.explicit[d]
               B == UNION {g[u] : u \in up(w.lineage, d)}
    <3> HIDE DEF A, B
    <3>2. image(A \cup B) = image(A) \cup image(B)
      OBVIOUS
    <3> QED BY <3>1, <3>2 DEF A, B
  <2> QED BY <2>3, <2>8, <2>9
<1>12. \A d \in w.datasets : f[name(d)] = image(g[d])
  BY <1>11
<1> QED BY <1>12 DEF f, g, n, name, mark

\* No marking of the target's changes its meaning, and one of the archive
\* means under its new name what it meant.
LEMMA MeaningsStay ==
    ASSUME NEW w, NEW t, NEW r, MarkingsLand(w, t, r)
    PROVE  /\ \A m \in DOMAIN t.described : Described(w, t, r)[m] = t.described[m]
           /\ (\A m \in DOMAIN r.markings : r.markings[m] \notin r.reused) =>
                \A m \in DOMAIN w.described :
                   Described(w, t, r)[Renamed(r.markings, m)] = w.described[m]
<1> DEFINE N == NewMarkings(w, r)
           mark(m) == Renamed(r.markings, m)
           names == {mark(m) : m \in N}
           from(n) == CHOOSE m \in N : mark(m) = n
           x == Described(w, t, r)
<1>1. x = [n \in DOMAIN t.described \cup names |->
             IF n \in names THEN w.described[from(n)] ELSE t.described[n]]
  BY DEF Described
<1>2. /\ \A m \in N : mark(m) \notin DOMAIN t.described
      /\ \A m, n \in N : mark(m) = mark(n) => m = n
      /\ r.reused = Reused(w, t)
  BY DEF MarkingsLand
<1>3. N = {m \in DOMAIN w.described : mark(m) \notin r.reused}
  BY DEF NewMarkings
<1>4. \A m : mark(m) = IF m \in DOMAIN r.markings THEN r.markings[m] ELSE m
  BY DEF Renamed
<1> HIDE DEF N, mark, x
<1>5. \A m \in DOMAIN t.described : m \notin names
  BY <1>2
<1>6. \A m \in N : from(mark(m)) = m
  BY <1>2
<1> HIDE DEF names, from
<1>7. \A m \in DOMAIN t.described : x[m] = t.described[m]
  BY <1>1, <1>5
<1>8. \A m \in N : x[mark(m)] = w.described[m]
  <2>1. \A m \in N : mark(m) \in names
    BY DEF names
  <2> QED BY <1>1, <1>6, <2>1
<1>9. ASSUME \A m \in DOMAIN r.markings : r.markings[m] \notin r.reused, NEW m \in DOMAIN w.described
      PROVE  x[mark(m)] = w.described[m]
  <2>1. CASE m \in N
    BY <1>8, <2>1
  <2>2. CASE m \notin N
    <3>1. mark(m) \in r.reused
      BY <1>3, <2>2
    <3>2. m \notin DOMAIN r.markings /\ mark(m) = m
      BY <1>4, <1>9, <3>1
    <3>3. m \in DOMAIN t.described /\ w.described[m] = t.described[m]
      BY <1>2, <3>1, <3>2 DEF Reused
    <3> QED BY <1>7, <3>2, <3>3
  <2> QED BY <2>1, <2>2
<1>10. /\ \A m \in DOMAIN t.described : x[m] = t.described[m]
       /\ (\A m \in DOMAIN r.markings : r.markings[m] \notin r.reused) =>
            \A m \in DOMAIN w.described : x[mark(m)] = w.described[m]
  BY <1>7, <1>9
<1> QED BY <1>10 DEF x, mark

\* A function takes finitely many values to finitely many.
LEMMA ImageFinite ==
    ASSUME NEW S, IsFiniteSet(S), NEW f
    PROVE  IsFiniteSet({f[x] : x \in S})
<1> DEFINE image(A) == {f[x] : x \in A}
           Fits(n) == \A A \in SUBSET S : Cardinality(A) = n => IsFiniteSet(image(A))
           N == {n \in Nat : Fits(n)}
<1>1. \A A \in SUBSET S : IsFiniteSet(A) /\ Cardinality(A) \in Nat
  BY FS_Subset, FS_CardinalityType
<1>2. 0 \in N
  <2>1. \A A \in SUBSET S : Cardinality(A) = 0 => A = {}
    BY <1>1, FS_EmptySet
  <2>2. image({}) = {} /\ IsFiniteSet({})
    BY FS_EmptySet
  <2> QED BY <2>1, <2>2
<1>3. ASSUME NEW n \in Nat, Fits(n), NEW A \in SUBSET S, Cardinality(A) = n + 1
      PROVE  IsFiniteSet(image(A))
  <2>1. IsFiniteSet(A) /\ A # {}
    BY <1>1, <1>3, FS_EmptySet
  <2>2. PICK x \in A : TRUE
    BY <2>1
  <2> DEFINE B == A \ {x}
  <2>3. Cardinality(B) = n
    <3>1. Cardinality(A \ {x}) = IF x \in A THEN Cardinality(A) - 1 ELSE Cardinality(A)
      <4> HIDE DEF N, Fits, image
      <4> QED BY <2>1, FS_RemoveElement
    <3>2. Cardinality(A) = n + 1 /\ (n + 1) - 1 = n
      BY <1>3
    <3> QED BY <2>2, <3>1, <3>2
  <2>4. IsFiniteSet(image(B))
    BY <1>3, <2>3
  <2>5. image(A) = image(B) \cup {f[x]}
    BY <2>2
  <2> HIDE DEF image, B
  <2>6. IsFiniteSet(image(B) \cup {f[x]})
    BY <2>4, FS_AddElement
  <2> QED BY <2>5, <2>6
<1>4. \A n \in Nat : n \in N => n + 1 \in N
  <2> HIDE DEF image
  <2> QED BY <1>3
<1> HIDE DEF N
<1>5. Nat \subseteq N
  BY <1>2, <1>4, Induct
<1>6. Cardinality(S) \in N
  BY <1>1, <1>5
<1> QED BY <1>6 DEF N

\* As many files as types: no type is declared twice.
Once(declares) ==
    /\ IsFiniteSet(DOMAIN declares)
    /\ \A f, g \in DOMAIN declares : declares[f].type = declares[g].type => f = g

LEMMA DeclaredOnce ==
    ASSUME NEW w, Once(w.declares)
    PROVE  Cardinality(DeclaredTypes(w)) = Cardinality(DOMAIN w.declares)
<1> DEFINE F == DOMAIN w.declares
           T == DeclaredTypes(w)
           f == [x \in F |-> w.declares[x].type]
           g == [x \in T |-> x]
<1>1. IsFiniteSet(F) /\ \A x, y \in F : f[x] = f[y] => x = y
  BY DEF Once
<1>2. T = {f[x] : x \in F}
  BY DEF DeclaredTypes
<1>3. \A x \in T : g[x] = x
  OBVIOUS
<1> HIDE DEF F, T, f, g
<1>4. IsFiniteSet(F)
  BY <1>1
<1>5. IsFiniteSet(T)
  BY <1>2, <1>4, ImageFinite
<1>6. \A x : Count(F, f, x) = Count(T, g, x)
  <2> SUFFICES ASSUME NEW x PROVE Count(F, f, x) = Count(T, g, x)
    OBVIOUS
  <2>1. CASE x \in T
    <3>1. PICK y \in F : f[y] = x
      BY <1>2, <2>1
    <3>2. {z \in F : f[z] = x} = {y}
      BY <1>1, <3>1
    <3>3. {z \in T : g[z] = x} = {x}
      BY <1>3, <2>1
    <3>4. Cardinality({y}) = 1 /\ Cardinality({x}) = 1
      BY FS_Singleton
    <3> QED BY <3>2, <3>3, <3>4 DEF Count
  <2>2. CASE x \notin T
    <3>1. (\A z \in F : f[z] # x) /\ \A z \in T : g[z] # x
      BY <1>2, <1>3, <2>2
    <3>2. Count(F, f, x) = 0 /\ Count(T, g, x) = 0
      BY <1>4, <1>5, <3>1, CountIs
    <3> QED BY <3>2
  <2> QED BY <2>1, <2>2
<1>7. \A x : Count(F, f, x) \in Nat /\ Count(T, g, x) \in Nat
  BY <1>4, <1>5, CountIs
<1>8. (\A x : Count(F, f, x) <= Count(T, g, x)) /\ \A x : Count(T, g, x) <= Count(F, f, x)
  BY <1>6, <1>7
<1>9. Cardinality(F) <= Cardinality(T) /\ Cardinality(T) <= Cardinality(F)
  BY <1>4, <1>5, <1>8, CountsBound
<1>10. Cardinality(F) \in Nat /\ Cardinality(T) \in Nat
  BY <1>4, <1>5, FS_CardinalityType
<1> QED BY <1>9, <1>10 DEF F, T

LEMMA FilesStay ==
    ASSUME NEW w, Coherent(w), NEW t, Coherent(t), NEW r, TypesLand(w, t)
    PROVE  /\ \A f \in DOMAIN t.declares : Merged(w, t, r).declares[f] = t.declares[f]
           /\ Once(Merged(w, t, r).declares)
<1> DEFINE L == Landing(w, t)
           mine == t.declares
           new == w.declares
           all == Merged(w, t, r).declares
<1>1. all = Besides([f \in L |-> new[f]], mine)
  BY DEF Merged
<1>2. DOMAIN all = L \cup DOMAIN mine /\ \A f \in DOMAIN all : all[f] = IF f \in L THEN new[f] ELSE mine[f]
  <2> HIDE DEF all, L, new, mine
  <2> QED BY <1>1 DEF Besides
<1>3. L \cap DOMAIN mine = {} /\ \A f \in L : new[f].type \notin DeclaredTypes(t)
  BY DEF TypesLand
<1>4. L \subseteq DOMAIN new
  BY DEF Landing
<1>5. /\ IsFiniteSet(DOMAIN mine) /\ IsFiniteSet(DOMAIN new)
      /\ \A f, g \in DOMAIN mine : mine[f].type = mine[g].type => f = g
      /\ \A f, g \in DOMAIN new : new[f].type = new[g].type => f = g
  BY DEF Coherent
<1>6. \A f \in DOMAIN mine : mine[f].type \in DeclaredTypes(t)
  BY DEF DeclaredTypes
<1> HIDE DEF all, L, mine, new
<1>7. \A f \in DOMAIN mine : all[f] = mine[f]
  BY <1>2, <1>3
<1>8. \A f \in L : all[f] = new[f]
  BY <1>2
<1>9. \A f, g \in DOMAIN all : all[f].type = all[g].type => f = g
  <2> SUFFICES ASSUME NEW f \in DOMAIN all, NEW g \in DOMAIN all, all[f].type = all[g].type
               PROVE  f = g
    OBVIOUS
  <2>1. (f \in L \/ f \in DOMAIN mine) /\ (g \in L \/ g \in DOMAIN mine)
    BY <1>2
  <2> QED BY <1>3, <1>4, <1>5, <1>6, <1>7, <1>8, <2>1
<1>10. IsFiniteSet(DOMAIN all)
  <2>1. L \in SUBSET DOMAIN new
    BY <1>4
  <2>2. IsFiniteSet(L)
    BY <1>5, <2>1, FS_Subset
  <2>3. IsFiniteSet(L \cup DOMAIN mine)
    BY <1>5, <2>2, FS_Union
  <2> QED BY <1>2, <2>3
<1> QED BY <1>7, <1>9, <1>10 DEF Once, all, mine

(* What a merge keeps. *)

\* The rules of the target's own.
LEMMA OwnIsKept ==
    ASSUME NEW w, Coherent(w), NEW t, Coherent(t), NEW r,
           DatasetsLand(w, t, r), MarkingsLand(w, t, r), TypesLand(w, t)
    PROVE  LET n == Merged(w, t, r) IN
           /\ \A d \in t.datasets : /\ Effective(n)[d] = Effective(t)[d]
                                    /\ d \in Ahead(w) \/ n.granted[d] = t.granted[d]
           /\ \A m \in DOMAIN t.described : n.described[m] = t.described[m]
           /\ \A o \in DeclaredTypes(t) : n.typed[o] = t.typed[o]
           /\ \A f \in DOMAIN t.declares : n.declares[f] = t.declares[f]
           /\ Cardinality(DeclaredTypes(n)) = Cardinality(DOMAIN n.declares)
<1> DEFINE n == Merged(w, t, r)
<1>1. \A d \in t.datasets : Effective(n)[d] = Effective(t)[d]
  BY OwnForce
<1>2. \A d \in t.datasets : d \in Ahead(w) \/ n.granted[d] = t.granted[d]
  <2>1. \A d \in t.datasets : (d \in Ahead(w) \/ ImportedGrants(w, r, d) = {}) /\ d \in DatasetNames
    BY GrantedAre DEF Coherent
  <2>2. n.granted = [d \in DatasetNames |-> t.granted[d] \cup ImportedGrants(w, r, d)]
    BY DEF Merged
  <2> HIDE DEF n
  <2> QED BY <2>1, <2>2
<1>3. \A m \in DOMAIN t.described : n.described[m] = t.described[m]
  BY MeaningsStay DEF Merged
<1>4. \A o \in DeclaredTypes(t) : n.typed[o] = t.typed[o]
  <2>1. \A o \in DeclaredTypes(t) : o \in TypeNames
    BY DEF DeclaredTypes, Coherent
  <2>2. \A o \in DeclaredTypes(t) : w.typed[o] = {}
    BY <2>1 DEF TypesLand
  <2>3. n.typed = [o \in TypeNames |-> t.typed[o] \cup w.typed[o]]
    BY DEF Merged
  <2> HIDE DEF n
  <2> QED BY <2>1, <2>2, <2>3
<1>5. (\A f \in DOMAIN t.declares : n.declares[f] = t.declares[f]) /\ Once(n.declares)
  BY FilesStay
<1> HIDE DEF n
<1>6. Cardinality(DeclaredTypes(n)) = Cardinality(DOMAIN n.declares)
  BY <1>5, DeclaredOnce
<1> QED BY <1>1, <1>2, <1>3, <1>4, <1>5, <1>6 DEF n

\* Those of the archive.
Arrives(w, t, n, r, d) ==
    LET x == Renamed(r.datasets, d) IN
    /\ x \in n.datasets
    /\ n.granted[x] = w.granted[d] \/ x \in Ahead(w) \cup Ahead(t)
    /\ {n.described[m] : m \in Effective(n)[x]} = {w.described[m] : m \in Effective(w)[d]}

LEMMA ArchiveIsKept ==
    ASSUME NEW w, Coherent(w), NEW t, Coherent(t), NEW r,
           DatasetsLand(w, t, r), MarkingsLand(w, t, r),
           \A m \in DOMAIN r.markings : r.markings[m] \notin r.reused, NEW d \in w.datasets
    PROVE  Arrives(w, t, Merged(w, t, r), r, d)
<1> DEFINE n == Merged(w, t, r)
           x == Renamed(r.datasets, d)
           mark(m) == Renamed(r.markings, m)
<1>1. x \in n.datasets
  BY DEF Merged
<1>2. n.granted[x] = w.granted[d] \/ x \in Ahead(w) \cup Ahead(t)
  <2> SUFFICES ASSUME x \notin Ahead(w), x \notin Ahead(t) PROVE n.granted[x] = w.granted[d]
    OBVIOUS
  <2>1. x \in DatasetNames /\ x \notin t.datasets
    BY DEF DatasetsLand
  <2>2. ImportedGrants(w, r, x) = w.granted[d] /\ t.granted[x] = {}
    BY <2>1, GrantedAre DEF Coherent, Ahead
  <2>3. n.granted = [e \in DatasetNames |-> t.granted[e] \cup ImportedGrants(w, r, e)]
    BY DEF Merged
  <2> HIDE DEF n, x
  <2> QED BY <2>1, <2>2, <2>3
<1>3. Effective(n)[x] = {mark(m) : m \in Effective(w)[d]}
  BY ArchiveForce
<1>4. n.described = Described(w, t, r)
  BY DEF Merged
<1>5. \A m \in DOMAIN w.described : Described(w, t, r)[mark(m)] = w.described[m]
  BY MeaningsStay
<1>6. d \in DatasetNames
  BY DEF Coherent
<1>7. Effective(w)[d] \subseteq DOMAIN w.described
  BY <1>6, EffectiveTyped
<1> HIDE DEF n, x, mark
<1>8. {n.described[m] : m \in Effective(n)[x]} = {w.described[m] : m \in Effective(w)[d]}
  <2>1. \A m \in Effective(w)[d] : n.described[mark(m)] = w.described[m]
    BY <1>4, <1>5, <1>7
  <2>2. {n.described[m] : m \in {mark(k) : k \in Effective(w)[d]}}
          = {n.described[mark(k)] : k \in Effective(w)[d]}
    OBVIOUS
  <2> QED BY <1>3, <2>1, <2>2
<1> QED BY <1>1, <1>2, <1>8 DEF Arrives, n, x

(* What the workspaces are like, until they are merged. *)

MergeInv ==
    /\ Coherent(archive)
    /\ merge # "applied" => Coherent(target)
    /\ MergeKeepsRules

LEMMA MergeStarts == MergeInit => MergeInv
<1> SUFFICES ASSUME MergeInit PROVE MergeInv
  OBVIOUS
<1>1. Coherent(archive) /\ Coherent(target) /\ merge = "idle"
  BY MergeAssumption DEF MergeInit
<1>2. MergeKeepsRules
  BY <1>1 DEF MergeKeepsRules, OwnIsUntouched, RulesArrive
<1> QED BY <1>1, <1>2 DEF MergeInv

\* The edits of the target keep it coherent.
LEMMA LivingOn ==
    ASSUME MergeInv, NEW t, Coherent(t), Meanwhile(t)
    PROVE  MergeInv'
<1>1. target' = t /\ archive' = archive /\ merge' = merge /\ merge = "idle"
  BY DEF Meanwhile
<1>2. Coherent(archive') /\ Coherent(target')
  BY <1>1 DEF MergeInv
<1>3. Coherent(archive)' /\ Coherent(target)'
  BY <1>2 DEF Coherent, Acyclic
<1>4. MergeKeepsRules'
  BY <1>1 DEF MergeKeepsRules, OwnIsUntouched, RulesArrive
<1> QED BY <1>1, <1>3, <1>4 DEF MergeInv

LEMMA ConfirmKeeps ==
    ASSUME MergeInv, Confirm
    PROVE  MergeInv'
<1> DEFINE r == MergeReport(archive, target, prefixed)
<1>0. archive' = archive /\ prefixed' = prefixed /\ report' = report /\ merge = "idle"
  BY DEF Confirm
<1>1. Coherent(archive) /\ Coherent(target)
  BY <1>0 DEF MergeInv
<1>2. Coherent(archive)'
  BY <1>0, <1>1 DEF Coherent, Acyclic
<1>3. CASE merge' = "refused"
  <2>1. target' = target
    BY <1>3 DEF Confirm
  <2>2. Coherent(target)'
    BY <1>1, <2>1 DEF Coherent, Acyclic
  <2>3. MergeKeepsRules'
    BY <1>3 DEF MergeKeepsRules, OwnIsUntouched, RulesArrive
  <2> QED BY <1>2, <2>2, <2>3 DEF MergeInv
<1>4. CASE merge' # "refused"
  <2>1. /\ r.refusals = {} /\ r = report /\ ~NeedsReview(archive, target)
        /\ ~KeyTaken(archive, target, r)
        /\ merge' = "applied" /\ before' = target /\ target' = Merged(archive, target, r)
    BY <1>4 DEF Confirm
  <2> HIDE DEF r
  <2>2. DatasetsLand(archive, target, r) /\ MarkingsLand(archive, target, r)
        /\ TypesLand(archive, target)
    BY <1>1, <2>1, DatasetsDoLand, MarkingsDoLand, TypesDoLand DEF r
  <2> DEFINE n == Merged(archive, target, r)
  <2>3. /\ \A d \in target.datasets : /\ Effective(n)[d] = Effective(target)[d]
                                      /\ d \in Ahead(archive) \/ n.granted[d] = target.granted[d]
        /\ \A m \in DOMAIN target.described : n.described[m] = target.described[m]
        /\ \A o \in DeclaredTypes(target) : n.typed[o] = target.typed[o]
        /\ \A f \in DOMAIN target.declares : n.declares[f] = target.declares[f]
        /\ Cardinality(DeclaredTypes(n)) = Cardinality(DOMAIN n.declares)
    BY <1>1, <2>2, OwnIsKept
  <2>4. ASSUME \A m \in DOMAIN r.markings : r.markings[m] \notin r.reused, NEW d \in archive.datasets
        PROVE  Arrives(archive, target, n, r, d)
    BY <1>1, <2>2, <2>4, ArchiveIsKept
  <2> HIDE DEF n
  <2>5. target' = n /\ before' = target /\ archive' = archive /\ report' = r
    BY <1>0, <2>1 DEF n
  <2>6. OwnIsUntouched'
    <3>1. /\ Effective(target)' = Effective(n) /\ Effective(before)' = Effective(target)
          /\ DeclaredTypes(before)' = DeclaredTypes(target) /\ DeclaredTypes(target)' = DeclaredTypes(n)
      BY <2>5 DEF Effective, DeclaredTypes
    <3> QED BY <2>3, <2>5, <3>1 DEF OwnIsUntouched
  <2>7. RulesArrive'
    <3>2. NamespaceTaken' <=> \E m \in DOMAIN r.markings : r.markings[m] \in r.reused
      BY <2>5 DEF NamespaceTaken
    <3>3. SUFFICES ASSUME ~NamespaceTaken', NEW d \in archive'.datasets
                   PROVE  Arrives(archive', before', target', report', d)
      BY DEF RulesArrive, Arrives
    <3>4. Arrives(archive, target, n, r, d)
      BY <2>4, <2>5, <3>2, <3>3
    <3> QED BY <2>5, <3>4
  <2>8. ~NeedsReview(archive, before)'
    BY <2>1, <2>5 DEF NeedsReview
  <2> QED BY <1>2, <2>1, <2>6, <2>7, <2>8 DEF MergeInv, MergeKeepsRules
<1> QED BY <1>3, <1>4

(* The target's own life. *)

LEMMA ReadReportKeeps ==
    ASSUME MergeInv, ReadReport
    PROVE  MergeInv'
<1>1. archive' = archive /\ target' = target /\ merge' # "applied" /\ merge = "idle"
  BY DEF ReadReport
<1>2. Coherent(archive)' /\ Coherent(target)'
  BY <1>1 DEF MergeInv, Coherent, Acyclic
<1>3. MergeKeepsRules'
  BY <1>1 DEF MergeKeepsRules, OwnIsUntouched, RulesArrive
<1> QED BY <1>2, <1>3 DEF MergeInv

LEMMA CreateDatasetKeeps ==
    ASSUME MergeInv, CreateDataset
    PROVE  MergeInv'
<1>1. PICK d \in DatasetNames \ target.datasets :
         Meanwhile([target EXCEPT !.datasets = @ \cup {d}])
  BY DEF CreateDataset
<1> DEFINE t == [target EXCEPT !.datasets = @ \cup {d}]
<1>2. Coherent(target)
  BY <1>1 DEF Meanwhile, MergeInv
<1>3. DOMAIN target = WorkspaceTables
  BY <1>2 DEF Coherent
<1>4. /\ DOMAIN t = WorkspaceTables /\ t.datasets = target.datasets \cup {d}
      /\ t.described = target.described /\ t.explicit = target.explicit
      /\ t.lineage = target.lineage /\ t.granted = target.granted /\ t.declares = target.declares
  BY <1>3 DEF WorkspaceTables
<1>5. Meanwhile(t)
  BY <1>1
<1> HIDE DEF t
<1>6. Coherent(t)
  BY <1>2, <1>4 DEF Coherent
<1> QED BY <1>5, <1>6, LivingOn

LEMMA CreateMarkingKeeps ==
    ASSUME MergeInv, CreateMarking
    PROVE  MergeInv'
<1>1. PICK m \in MarkingNames \ DOMAIN target.described, x \in Descriptions :
         Meanwhile([target EXCEPT !.described = Besides(@, [n \in {m} |-> x])])
  BY DEF CreateMarking
<1> DEFINE t == [target EXCEPT !.described = Besides(@, [n \in {m} |-> x])]
<1>2. Coherent(target)
  BY <1>1 DEF Meanwhile, MergeInv
<1>3. DOMAIN target = WorkspaceTables
  BY <1>2 DEF Coherent
<1>4. /\ DOMAIN t = WorkspaceTables /\ t.datasets = target.datasets
      /\ t.described = Besides(target.described, [n \in {m} |-> x])
      /\ t.explicit = target.explicit
      /\ t.lineage = target.lineage /\ t.granted = target.granted /\ t.declares = target.declares
  BY <1>3 DEF WorkspaceTables
<1>5. Meanwhile(t)
  BY <1>1
<1> HIDE DEF t
<1>6. DOMAIN t.described = DOMAIN target.described \cup {m}
  BY <1>4 DEF Besides
<1>7. t.explicit \in [DatasetNames -> SUBSET DOMAIN t.described]
  BY <1>2, <1>4, <1>6 DEF Coherent
<1>8. Coherent(t)
  BY <1>2, <1>4, <1>6, <1>7 DEF Coherent
<1> QED BY <1>5, <1>8, LivingOn

LEMMA RemoveMarkingKeeps ==
    ASSUME MergeInv, RemoveMarking
    PROVE  MergeInv'
<1>1. PICK m \in DOMAIN target.described :
         Meanwhile([target EXCEPT !.described = Restrict(@, DOMAIN @ \ {m}),
                                  !.explicit = [d \in DatasetNames |-> @[d] \ {m}]])
  BY DEF RemoveMarking
<1> DEFINE t == [target EXCEPT !.described = Restrict(@, DOMAIN @ \ {m}),
                               !.explicit = [d \in DatasetNames |-> @[d] \ {m}]]
<1>2. Coherent(target)
  BY <1>1 DEF Meanwhile, MergeInv
<1>3. DOMAIN target = WorkspaceTables
  BY <1>2 DEF Coherent
<1>4. /\ DOMAIN t = WorkspaceTables /\ t.datasets = target.datasets
      /\ t.described = Restrict(target.described, DOMAIN target.described \ {m})
      /\ t.explicit = [d \in DatasetNames |-> target.explicit[d] \ {m}]
      /\ t.lineage = target.lineage /\ t.granted = target.granted /\ t.declares = target.declares
  BY <1>3 DEF WorkspaceTables
<1>5. Meanwhile(t)
  BY <1>1
<1> HIDE DEF t
<1>6. DOMAIN t.described = DOMAIN target.described \ {m}
  BY <1>4 DEF Restrict
<1>7. t.explicit \in [DatasetNames -> SUBSET DOMAIN t.described]
  BY <1>2, <1>4, <1>6 DEF Coherent
<1>8. \A d \in DatasetNames \ t.datasets : t.explicit[d] = {}
  BY <1>2, <1>4 DEF Coherent
<1>9. DOMAIN t.described \in SUBSET MarkingNames
  BY <1>2, <1>6 DEF Coherent
<1>10. Coherent(t)
  BY <1>2, <1>4, <1>7, <1>8, <1>9 DEF Coherent
<1> QED BY <1>5, <1>10, LivingOn

LEMMA DeclareTypeKeeps ==
    ASSUME MergeInv, DeclareType
    PROVE  MergeInv'
<1>1. PICK f \in FileNames \ DOMAIN target.declares, o \in TypeNames \ DeclaredTypes(target),
           x \in Descriptions :
         Meanwhile([target EXCEPT !.declares = Besides(@, [g \in {f} |-> [type |-> o, text |-> x]])])
  BY DEF DeclareType
<1> DEFINE new == [g \in {f} |-> [type |-> o, text |-> x]]
           t == [target EXCEPT !.declares = Besides(@, new)]
<1>2. Coherent(target)
  BY <1>1 DEF Meanwhile, MergeInv
<1>3. DOMAIN target = WorkspaceTables
  BY <1>2 DEF Coherent
<1>4. /\ DOMAIN t = WorkspaceTables /\ t.datasets = target.datasets /\ t.described = target.described
      /\ t.explicit = target.explicit /\ t.lineage = target.lineage /\ t.granted = target.granted
      /\ t.declares = Besides(target.declares, new)
  BY <1>3 DEF WorkspaceTables
<1>5. Meanwhile(t)
  BY <1>1
<1>6. DOMAIN new = {f} /\ new[f].type = o
  OBVIOUS
<1> HIDE DEF new, t
<1>7. /\ DOMAIN t.declares = DOMAIN target.declares \cup {f}
      /\ \A g \in DOMAIN target.declares : t.declares[g] = target.declares[g]
      /\ t.declares[f].type = o
  BY <1>1, <1>4, <1>6 DEF Besides
<1>8. \A g \in DOMAIN target.declares : target.declares[g].type # o
  BY <1>1 DEF DeclaredTypes
<1>9. IsFiniteSet(DOMAIN target.declares \cup {f})
  BY <1>2, FS_AddElement DEF Coherent
<1>10. \A g, h \in DOMAIN t.declares : t.declares[g].type = t.declares[h].type => g = h
  BY <1>2, <1>7, <1>8 DEF Coherent
<1>11. Coherent(t)
  BY <1>2, <1>4, <1>7, <1>9, <1>10 DEF Coherent
<1> QED BY <1>5, <1>11, LivingOn

LEMMA StartReviewKeeps ==
    ASSUME MergeInv, StartReview
    PROVE  MergeInv'
<1> DEFINE t == [target EXCEPT !.review = TRUE]
<1>1. Meanwhile(t)
  BY DEF StartReview
<1>2. Coherent(target)
  BY <1>1 DEF Meanwhile, MergeInv
<1>3. DOMAIN target = WorkspaceTables
  BY <1>2 DEF Coherent
<1>4. /\ DOMAIN t = WorkspaceTables /\ t.datasets = target.datasets /\ t.described = target.described
      /\ t.explicit = target.explicit /\ t.lineage = target.lineage /\ t.granted = target.granted
      /\ t.declares = target.declares
  BY <1>3 DEF WorkspaceTables
<1> HIDE DEF t
<1>5. Coherent(t)
  BY <1>2, <1>4 DEF Coherent
<1> QED BY <1>1, <1>5, LivingOn

LEMMA MergeSteps == MergeInv /\ [MergeNext]_mergeVars => MergeInv'
<1> SUFFICES ASSUME MergeInv, [MergeNext]_mergeVars PROVE MergeInv'
  OBVIOUS
<1>1. CASE UNCHANGED mergeVars
  <2>1. /\ archive' = archive /\ target' = target /\ report' = report /\ merge' = merge
        /\ before' = before
    BY <1>1 DEF mergeVars
  <2>2. /\ Coherent(archive)'
        /\ (merge # "applied" => Coherent(target))'
    BY <2>1 DEF MergeInv
  <2>3. OwnIsUntouched'
    BY <2>1 DEF MergeInv, MergeKeepsRules, OwnIsUntouched, Effective, DeclaredTypes
  <2>4. RulesArrive'
    <3>1. NamespaceTaken' <=> NamespaceTaken
      BY <2>1 DEF NamespaceTaken
    <3>2. SUFFICES ASSUME merge' = "applied", ~NamespaceTaken', NEW d \in archive'.datasets
                   PROVE  Arrives(archive', before', target', report', d)
      BY DEF RulesArrive, Arrives
    <3>3. \A e \in archive.datasets : Arrives(archive, before, target, report, e)
      BY <2>1, <3>1, <3>2 DEF MergeInv, MergeKeepsRules, RulesArrive, Arrives
    <3> QED BY <2>1, <3>2, <3>3
  <2>5. (merge = "applied" => ~NeedsReview(archive, before))'
    BY <2>1 DEF MergeInv, MergeKeepsRules, NeedsReview
  <2> QED BY <2>1, <2>2, <2>3, <2>4, <2>5 DEF MergeInv, MergeKeepsRules
<1>2. CASE MergeNext
  BY <1>2, ReadReportKeeps, ConfirmKeeps, CreateDatasetKeeps, CreateMarkingKeeps,
     RemoveMarkingKeeps, DeclareTypeKeeps, StartReviewKeeps DEF MergeNext
<1> QED BY <1>1, <1>2

(***************************************************************************)
(* export/reader.py: whatever is merged into whatever workspace, prefixed  *)
(* or not, and however the target changes between the report and the       *)
(* apply: the target's own data, rules, markings and types stay as they    *)
(* were, every dataset of the archive lands under the rules it had, its    *)
(* upstreams' markings included, but for what is granted ahead of the      *)
(* dataset it is for, and review is not bypassed.                          *)
(***************************************************************************)
THEOREM MergesAlwaysKeepRules == MergeSpec => []MergeKeepsRules
<1>1. MergeInv => MergeKeepsRules
  BY DEF MergeInv
<1> QED BY <1>1, MergeStarts, MergeSteps, PTL DEF MergeSpec

-----------------------------------------------------------------------------
(***************************************************************************)
(* Approvals: what is classified as a tightening widens nobody's access.   *)
(***************************************************************************)

(* What one user may do, before and after. *)

\* The user passes the markings of the dataset and its grants.
Opens(p, u, d, may) == HasClearance(p, u, d) /\ Evaluate(p, u, p.granted[d])[may]

LEMMA PermissionIs ==
    ASSUME NEW p, NEW u, NEW d
    PROVE  /\ DatasetPermission(p, u, d).view => Opens(p, u, d, "view")
           /\ DatasetPermission(p, u, d).edit => Opens(p, u, d, "edit")
           /\ Opens(p, u, d, "view") => DatasetPermission(p, u, d).view
           /\ Opens(p, u, d, "edit") => DatasetPermission(p, u, d).edit
<1>1. CASE HasClearance(p, u, d)
  BY <1>1 DEF DatasetPermission, Opens
<1>2. CASE ~HasClearance(p, u, d)
  BY <1>2 DEF DatasetPermission, Opens
<1> QED BY <1>1, <1>2

LEMMA TypeIs ==
    ASSUME NEW p, NEW u, NEW t
    PROVE  /\ TypePermission(p, u, t).view <=> /\ DatasetPermission(p, u, Backing[t]).view
                                               /\ Evaluate(p, u, p.typed[t]).view
           /\ TypePermission(p, u, t).edit <=> /\ TypePermission(p, u, t).view
                                               /\ Evaluate(p, u, p.typed[t]).edit
BY DEF TypePermission

\* Who edits views.
LEMMA FoldIs ==
    ASSUME NEW role, NEW u, NEW groups, NEW grants
    PROVE  Fold(role, u, groups, grants).edit => Fold(role, u, groups, grants).view
BY DEF Fold

\* No row, cell or right that a does not give.
FewerRows(b, a, u, d) ==
    \A row \in [Columns[d] -> Values] : RowVisible(b, u, d, row) => RowVisible(a, u, d, row)

MasksStay(b, a, u, d) ==
    \A c \in Columns[d] : ~Stacked(a.policy[d], c) /\ ~Stacked(b.policy[d], c) =>
        \/ \A row : ShownAs(a, u, d, row, c) = <<"plain", row[c]>>
        \/ \A row : ShownAs(b, u, d, row, c) = ShownAs(a, u, d, row, c)

OpensLess(b, a, u, d) ==
    /\ Opens(b, u, d, "view") => Opens(a, u, d, "view")
    /\ Opens(b, u, d, "edit") => Opens(a, u, d, "edit")

TypedLess(b, a, u, t) ==
    /\ Evaluate(b, u, b.typed[t]).view => Evaluate(a, u, a.typed[t]).view
    /\ Evaluate(b, u, b.typed[t]).edit => Evaluate(a, u, a.typed[t]).edit

LEMMA RowsStay ==
    ASSUME NEW a, NEW b, NEW u, NEW d, OpensLess(b, a, u, d), FewerRows(b, a, u, d)
    PROVE  SeenRows(b, u, d) \subseteq SeenRows(a, u, d)
<1>1. DatasetPermission(b, u, d).view => DatasetPermission(a, u, d).view
  BY PermissionIs DEF OpensLess
<1> QED BY <1>1 DEF FewerRows, SeenRows

LEMMA CellsStay ==
    ASSUME NEW a, NEW b, NEW u, NEW d, SeenRows(b, u, d) \subseteq SeenRows(a, u, d),
           MasksStay(b, a, u, d), NEW x \in Sees(b, u, d), x \notin Sees(a, u, d),
           ~Stacked(a.policy[d], x[2]), ~Stacked(b.policy[d], x[2])
    PROVE  <<x[1], x[2], <<"plain", x[1][x[2]]>>>> \in Sees(a, u, d)
<1> DEFINE R == SeenRows(a, u, d)
           C == Columns[d]
           f(row, c) == ShownAs(a, u, d, row, c)
           g(row, c) == ShownAs(b, u, d, row, c)
<1>1. Sees(a, u, d) = {<<row, c, f(row, c)>> : row \in R, c \in C}
  BY DEF Sees
<1>2. Sees(b, u, d) = {<<row, c, g(row, c)>> : row \in SeenRows(b, u, d), c \in C}
  BY DEF Sees
<1>3. PICK row \in R, c \in C : x = <<row, c, g(row, c)>>
  <2> HIDE DEF C, g
  <2> QED BY <1>2
<1>4. x[1] = row /\ x[2] = c
  BY <1>3
<1>5. (\A r : f(r, c) = <<"plain", r[c]>>) \/ (\A r : g(r, c) = f(r, c))
  BY <1>4 DEF MasksStay
<1> HIDE DEF R, C, f, g
<1>6. <<row, c, f(row, c)>> \in Sees(a, u, d)
  BY <1>1, <1>3
<1>7. g(row, c) # f(row, c)
  BY <1>3, <1>6
<1>8. f(row, c) = <<"plain", row[c]>>
  BY <1>5, <1>7
<1> QED BY <1>4, <1>6, <1>8

LEMMA TypesStay ==
    ASSUME NEW a, NEW b, NEW u, NEW t, OpensLess(b, a, u, Backing[t]), TypedLess(b, a, u, t),
           NEW may \in {"view", "edit"}, TypePermission(b, u, t)[may]
    PROVE  TypePermission(a, u, t)[may]
<1>1. DatasetPermission(b, u, Backing[t]).view => DatasetPermission(a, u, Backing[t]).view
  BY PermissionIs DEF OpensLess
<1>2. TypePermission(b, u, t).view => TypePermission(a, u, t).view
  BY <1>1, TypeIs DEF TypedLess
<1>3. TypePermission(b, u, t).edit => TypePermission(a, u, t).edit
  BY <1>2, TypeIs DEF TypedLess
<1> QED BY <1>2, <1>3

\* Together: nothing exceeds.
StaysUnder(b, a, u) ==
    /\ \A d \in Datasets : OpensLess(b, a, u, d) /\ FewerRows(b, a, u, d) /\ MasksStay(b, a, u, d)
    /\ \A t \in ObjectTypes : TypedLess(b, a, u, t)

LEMMA UnderIsNoExcess ==
    ASSUME NEW a, NEW b, NEW u, StaysUnder(b, a, u)
    PROVE  ~Exceeds(b, a, u)
<1>1. ASSUME NEW d \in Datasets, DatasetPermission(b, u, d).edit, ~DatasetPermission(a, u, d).edit
      PROVE  FALSE
  BY <1>1, PermissionIs DEF StaysUnder, OpensLess
<1>2. \A d \in Datasets : SeenRows(b, u, d) \subseteq SeenRows(a, u, d)
  BY RowsStay DEF StaysUnder
<1>3. ASSUME NEW d \in Datasets, NEW x \in Sees(b, u, d) \ Sees(a, u, d),
             ~Stacked(a.policy[d], x[2]), ~Stacked(b.policy[d], x[2])
      PROVE  <<x[1], x[2], <<"plain", x[1][x[2]]>>>> \in Sees(a, u, d)
  BY <1>2, <1>3, CellsStay DEF StaysUnder
<1>4. ASSUME NEW t \in ObjectTypes, NEW may \in {"view", "edit"}, TypePermission(b, u, t)[may]
      PROVE  TypePermission(a, u, t)[may]
  <2>1. Backing[t] \in Datasets
    BY ApprovalsAssumption
  <2> QED BY <1>4, <2>1, TypesStay DEF StaysUnder
<1> QED BY <1>1, <1>2, <1>3, <1>4 DEF Exceeds

(* Masks: one at most on a column that is not stacked. *)

LEMMA KeptNone ==
    ASSUME NEW q, Listed(q), NEW S, \A i \in DOMAIN q : q[i] \notin S
    PROVE  Kept(q, S) = <<>>
<1> DEFINE w == KeptUpto(q, S)
           T == {n \in Nat : w[n] = <<>>}
<1>1. Keeps(q, S, w)
  BY KeptStep
<1>2. Kept(q, S) = w[Len(q)] /\ Len(q) \in Nat
  BY KeptIsUpto, ListedIs
<1> HIDE DEF w
<1>3. 0 \in T
  BY <1>1 DEF Keeps
<1>4. ASSUME NEW n \in Nat, n \in T PROVE n + 1 \in T
  BY <1>1, <1>4 DEF Keeps
<1> HIDE DEF T
<1>5. Nat \subseteq T
  BY <1>3, <1>4, Induct
<1> QED BY <1>2, <1>5 DEF T

LEMMA KeptOne ==
    ASSUME NEW q, Listed(q), NEW S, NEW i \in DOMAIN q, q[i] \in S,
           \A j \in DOMAIN q : q[j] \in S => j = i
    PROVE  Kept(q, S) = <<q[i]>>
<1> DEFINE w == KeptUpto(q, S)
           T == {n \in Nat : w[n] = IF n < i THEN <<>> ELSE <<q[i]>>}
<1>1. Keeps(q, S, w)
  BY KeptStep
<1>2. Kept(q, S) = w[Len(q)] /\ Len(q) \in Nat /\ DOMAIN q = 1..Len(q)
  BY KeptIsUpto, ListedIs
<1>3. i \in 1..Len(q) /\ 0 < i
  BY <1>2
<1> HIDE DEF w
<1>4. 0 \in T
  <2>1. w[0] = <<>>
    BY <1>1 DEF Keeps
  <2> QED BY <1>3, <2>1
<1>5. ASSUME NEW n \in Nat, n \in T PROVE n + 1 \in T
  <2>1. n + 1 \in DOMAIN q /\ q[n + 1] \in S <=> n + 1 = i
    OBVIOUS
  <2>2. w[n] = IF n < i THEN <<>> ELSE <<q[i]>>
    BY <1>5
  <2>3. w[n + 1] = IF n + 1 = i THEN Append(w[n], q[n + 1]) ELSE w[n]
    BY <1>1, <2>1 DEF Keeps
  <2>4. CASE n + 1 = i
    <3>1. w[n] = <<>> /\ w[n + 1] = Append(w[n], q[i])
      BY <1>2, <2>2, <2>3, <2>4
    <3>2. Append(<<>>, q[i]) = <<q[i]>>
      OBVIOUS
    <3> QED BY <1>2, <2>4, <3>1, <3>2
  <2>5. CASE n + 1 # i
    <3>1. n < i <=> n + 1 < i
      BY <1>2, <1>3, <2>5
    <3> QED BY <2>2, <2>3, <2>5, <3>1
  <2> QED BY <2>4, <2>5
<1> HIDE DEF T
<1>6. Nat \subseteq T
  BY <1>4, <1>5, Induct
<1>7. w[Len(q)] = IF Len(q) < i THEN <<>> ELSE <<q[i]>>
  BY <1>2, <1>6 DEF T
<1> QED BY <1>2, <1>3, <1>7

LEMMA MaskedIs ==
    ASSUME NEW masks, NEW v, NEW n \in {0, 1}, Len(masks) = n
    PROVE  /\ n = 0 => Masked(masks, v) = <<"plain", v>>
           /\ n = 1 => Masked(masks, v) = MaskCell(<<"plain", v>>, masks[1])
<1> DEFINE plain == <<"plain", v>>
           step(cell, i) == MaskCell(cell, masks[i])
           Is(f) == f = [i \in 0..n |-> IF i = 0 THEN plain ELSE step(f[i - 1], i)]
           g == [i \in 0..n |-> IF i = 0 THEN plain ELSE step(plain, i)]
           h == CHOOSE f : Is(f)
<1>1. Masked(masks, v) = h[n]
  BY DEF Masked
<1> HIDE DEF plain, step
<1>2. Is(g)
  <2>1. \A i \in 0..n : i # 0 => i = 1 /\ i - 1 = 0 /\ 0 \in 0..n
    OBVIOUS
  <2>2. g[0] = plain
    OBVIOUS
  <2>3. \A i \in 0..n : i # 0 => g[i - 1] = plain
    BY <2>1, <2>2
  <2> QED BY <2>3
<1>3. Is(h)
  <2> HIDE DEF Is
  <2> QED BY <1>2
<1> HIDE DEF h
<1>4. h[0] = plain
  BY <1>3
<1>5. n = 1 => h[1] = step(plain, 1)
  <2> SUFFICES ASSUME n = 1 PROVE h[1] = step(plain, 1)
    OBVIOUS
  <2>1. 1 \in 0..n /\ 1 # 0 /\ 1 - 1 = 0
    OBVIOUS
  <2>2. h[1] = step(h[1 - 1], 1)
    BY <1>3, <2>1
  <2> QED BY <1>4, <2>1, <2>2
<1> QED BY <1>1, <1>4, <1>5 DEF plain, step

\* The masks on a column that apply to the user.
Bears(p, u, d, c, i) ==
    LET masks == p.policy[d].masks
    IN  /\ i \in DOMAIN masks /\ masks[i].column = c
        /\ Applies(masks[i], p.role[u], u, GroupsOf(p, u))

LEMMA ShownPlain ==
    ASSUME NEW p, NEW u, NEW d, NEW c, Listed(p.policy[d].masks), \A i : ~Bears(p, u, d, c, i)
    PROVE  \A row : ShownAs(p, u, d, row, c) = <<"plain", row[c]>>
<1> DEFINE masks == p.policy[d].masks
           S == {m \in {masks[i] : i \in DOMAIN masks} :
                   m.column = c /\ Applies(m, p.role[u], u, GroupsOf(p, u))}
<1>1. \A i \in DOMAIN masks : masks[i] \notin S
  BY DEF Bears
<1>2. MasksOn(p, u, d, c) = Kept(masks, S)
  BY DEF MasksOn
<1> HIDE DEF S
<1>3. MasksOn(p, u, d, c) = <<>>
  BY <1>1, <1>2, KeptNone
<1>4. \A v : Masked(<<>>, v) = <<"plain", v>>
  BY MaskedIs
<1> QED BY <1>3, <1>4 DEF ShownAs

LEMMA ShownMasked ==
    ASSUME NEW p, NEW u, NEW d, NEW c, Listed(p.policy[d].masks), ~Stacked(p.policy[d], c),
           NEW i, Bears(p, u, d, c, i), p.role[u] # "admin"
    PROVE  \A row : ShownAs(p, u, d, row, c) = MaskCell(<<"plain", row[c]>>, p.policy[d].masks[i])
<1> DEFINE masks == p.policy[d].masks
           S == {m \in {masks[j] : j \in DOMAIN masks} :
                   m.column = c /\ Applies(m, p.role[u], u, GroupsOf(p, u))}
<1>1. i \in DOMAIN masks /\ masks[i] \in S
  BY DEF Bears
<1>2. \A j \in DOMAIN masks : masks[j] \in S => j = i
  BY DEF Bears, Stacked
<1>3. MasksOn(p, u, d, c) = Kept(masks, S)
  BY DEF MasksOn
<1> HIDE DEF S
<1> DEFINE m == masks[i]
<1>4. MasksOn(p, u, d, c) = <<m>>
  BY <1>1, <1>2, <1>3, KeptOne
<1> HIDE DEF m
<1>5. Len(<<m>>) = 1 /\ <<m>>[1] = m
  OBVIOUS
<1>6. \A v : Masked(<<m>>, v) = MaskCell(<<"plain", v>>, m)
  BY <1>5, MaskedIs
<1> QED BY <1>4, <1>6 DEF ShownAs, m

\* Cells are masked by the mode alone.
LEMMA ModeDecides ==
    ASSUME NEW cell, NEW m, NEW n, m.mode = n.mode
    PROVE  MaskCell(cell, m) = MaskCell(cell, n)
BY DEF MaskCell

(* What the comparator finds in a policy. *)

LEMMA RowsNarrow ==
    ASSUME NEW a, NEW b, NEW u, NEW d, a.role[u] # "admin", b.role[u] = a.role[u],
           PolicyFits(a.policy[d]),
           RowGains(u, d, RowState(a, u, GroupsOf(a, u), a.policy[d]),
                          RowState(a, u, GroupsOf(b, u), b.policy[d])) = {}
    PROVE  FewerRows(b, a, u, d)
<1> DEFINE x == a.policy[d].row
           y == b.policy[d].row
           from == Allowed(x.rules, a.role[u], u, GroupsOf(a, u))
           to == Allowed(y.rules, a.role[u], u, GroupsOf(b, u))
           old == RowState(a, u, GroupsOf(a, u), a.policy[d])
           new == RowState(a, u, GroupsOf(b, u), b.policy[d])
<1>1. old.column = x.column /\ old.values = from /\ new.column = y.column /\ new.values = to
  BY DEF RowState
<1>2. x.column = "*" => x = NoRowPolicy
  BY DEF PolicyFits
<1>3. RowGains(u, d, old, new) = {}
  OBVIOUS
<1>4. \A row : RowVisible(a, u, d, row) <=>
        (x = NoRowPolicy \/ (x.column \in Columns[d] /\ row[x.column] \in from))
  BY DEF RowVisible
<1>5. \A row : RowVisible(b, u, d, row) =>
        (y = NoRowPolicy \/ (y.column \in Columns[d] /\ row[y.column] \in to))
  BY DEF RowVisible
<1> HIDE DEF x, y, from, to, old, new
<1>6. CASE x.column = "*"
  BY <1>2, <1>4, <1>6 DEF FewerRows
<1>7. CASE x.column # "*"
  <2>1. y.column = x.column /\ to \subseteq from
    BY <1>1, <1>3, <1>7 DEF RowGains
  <2>2. y # NoRowPolicy
    BY <1>7, <2>1 DEF NoRowPolicy
  <2> QED BY <1>4, <1>5, <2>1, <2>2 DEF FewerRows
<1> QED BY <1>6, <1>7

\* The mode that the comparator records of a column that is not stacked.
LEMMA ModeIs ==
    ASSUME NEW p, NEW u, NEW groups, NEW c, NEW text, Listed(text.masks), ~Stacked(text, c),
           NEW i \in DOMAIN text.masks, text.masks[i].column = c,
           Applies(text.masks[i], p.role[u], u, groups)
    PROVE  /\ c \in DOMAIN MaskState(p, u, groups, text)
           /\ MaskState(p, u, groups, text)[c] = text.masks[i].mode
<1> DEFINE masks == text.masks
           on == {j \in DOMAIN masks : Applies(masks[j], p.role[u], u, groups)}
           columns == {masks[j].column : j \in on}
           last(e) == CHOOSE k \in on : /\ masks[k].column = e
                                        /\ \A j \in on : masks[j].column = e => j <= k
<1>1. MaskState(p, u, groups, text) = [e \in columns |-> masks[last(e)].mode]
  BY DEF MaskState
<1>2. i \in on /\ c \in columns
  OBVIOUS
<1>3. \A j \in on : masks[j].column = c => j = i
  BY DEF Stacked
<1>4. i <= i
  BY ListedIs
<1> HIDE DEF on
<1>5. last(c) = i
  BY <1>2, <1>3, <1>4
<1> HIDE DEF last, columns
<1> QED BY <1>1, <1>2, <1>5

\* It records columns that bear a mask only.
LEMMA ColumnIs ==
    ASSUME NEW p, NEW u, NEW groups, NEW text, NEW c \in DOMAIN MaskState(p, u, groups, text)
    PROVE  \E i \in DOMAIN text.masks : /\ text.masks[i].column = c
                                        /\ Applies(text.masks[i], p.role[u], u, groups)
<1> DEFINE masks == text.masks
           on == {j \in DOMAIN masks : Applies(masks[j], p.role[u], u, groups)}
           columns == {masks[j].column : j \in on}
           mode(e) == masks[CHOOSE k \in on : /\ masks[k].column = e
                                              /\ \A j \in on : masks[j].column = e => j <= k].mode
<1>1. MaskState(p, u, groups, text) = [e \in columns |-> mode(e)]
  BY DEF MaskState
<1> HIDE DEF mode
<1>2. c \in columns
  BY <1>1
<1> QED BY <1>2

LEMMA MasksNarrow ==
    ASSUME NEW a, NEW b, NEW u, NEW d, a.role[u] # "admin", b.role[u] = a.role[u],
           Listed(a.policy[d].masks), Listed(b.policy[d].masks),
           MaskGains(u, d, MaskState(a, u, GroupsOf(a, u), a.policy[d]),
                           MaskState(a, u, GroupsOf(b, u), b.policy[d])) = {}
    PROVE  MasksStay(b, a, u, d)
<1> DEFINE old == MaskState(a, u, GroupsOf(a, u), a.policy[d])
           new == MaskState(a, u, GroupsOf(b, u), b.policy[d])
           Plain(c) == \A row : ShownAs(a, u, d, row, c) = <<"plain", row[c]>>
           Same(c) == \A row : ShownAs(b, u, d, row, c) = ShownAs(a, u, d, row, c)
<1>1. SUFFICES ASSUME NEW c, ~Stacked(a.policy[d], c), ~Stacked(b.policy[d], c), ~Plain(c)
               PROVE  Same(c)
  BY DEF MasksStay
<1>2. PICK i : Bears(a, u, d, c, i)
  BY <1>1, ShownPlain
<1> HIDE DEF Plain
<1> DEFINE m == a.policy[d].masks[i]
<1>3. i \in DOMAIN a.policy[d].masks /\ m.column = c /\ Applies(m, a.role[u], u, GroupsOf(a, u))
  BY <1>2 DEF Bears
<1>4. c \in DOMAIN old /\ old[c] = m.mode
  BY <1>1, <1>3, ModeIs
<1>5. MaskGains(u, d, old, new) = {}
  OBVIOUS
<1>6. c \in DOMAIN new /\ new[c] = old[c]
  <2> HIDE DEF old, new, m
  <2>1. DOMAIN old \ DOMAIN new = {}
    BY <1>5 DEF MaskGains
  <2>2. {x \in DOMAIN old \cap DOMAIN new : new[x] # old[x]} = {}
    BY <1>5 DEF MaskGains
  <2> QED BY <1>4, <2>1, <2>2
<1>7. PICK j \in DOMAIN b.policy[d].masks :
           /\ b.policy[d].masks[j].column = c
           /\ Applies(b.policy[d].masks[j], a.role[u], u, GroupsOf(b, u))
  BY <1>6, ColumnIs
<1> DEFINE n == b.policy[d].masks[j]
<1>8. new[c] = n.mode
  BY <1>1, <1>7, ModeIs
<1>9. Bears(b, u, d, c, j)
  BY <1>7 DEF Bears
<1>10. \A row : ShownAs(a, u, d, row, c) = MaskCell(<<"plain", row[c]>>, m)
  BY <1>1, <1>2, ShownMasked
<1>11. \A row : ShownAs(b, u, d, row, c) = MaskCell(<<"plain", row[c]>>, n)
  BY <1>1, <1>9, ShownMasked
<1> HIDE DEF old, new, m, n
<1>12. \A cell : MaskCell(cell, m) = MaskCell(cell, n)
  BY <1>4, <1>6, <1>8, ModeDecides
<1> QED BY <1>10, <1>11, <1>12

LEMMA PolicyNarrows ==
    ASSUME NEW a, NEW b, NEW u, NEW d, a.role[u] # "admin", b.role[u] = a.role[u],
           PolicyFits(a.policy[d]), PolicyFits(b.policy[d]),
           PolicyGains(a, u, d, GroupsOf(a, u), GroupsOf(b, u), a.policy[d], b.policy[d]) = {}
    PROVE  FewerRows(b, a, u, d) /\ MasksStay(b, a, u, d)
<1>1. /\ RowGains(u, d, RowState(a, u, GroupsOf(a, u), a.policy[d]),
                        RowState(a, u, GroupsOf(b, u), b.policy[d])) = {}
      /\ MaskGains(u, d, MaskState(a, u, GroupsOf(a, u), a.policy[d]),
                         MaskState(a, u, GroupsOf(b, u), b.policy[d])) = {}
  BY DEF PolicyGains
<1>2. Listed(a.policy[d].masks) /\ Listed(b.policy[d].masks)
  BY DEF PolicyFits
<1> QED BY <1>1, <1>2, RowsNarrow, MasksNarrow

\* A policy that is read as it was gains nobody anything.
LEMMA NoGainOfSame ==
    ASSUME NEW p, NEW u, NEW d, NEW had, NEW has, NEW text,
           RowState(p, u, had, text) = RowState(p, u, has, text),
           MaskState(p, u, had, text) = MaskState(p, u, has, text)
    PROVE  PolicyGains(p, u, d, had, has, text, text) = {}
<1>1. \A x : RowGains(u, d, x, x) = {}
  BY DEF RowGains
<1>2. \A x : MaskGains(u, d, x, x) = {}
  BY DEF MaskGains
<1> QED BY <1>1, <1>2 DEF PolicyGains

(* Groups and grants. *)

LEMMA GainsNone ==
    ASSUME NEW u, NEW on, NEW had, NEW has, GrantGains(u, on, had, has) = {}
    PROVE  (has.view => had.view) /\ (has.edit => had.edit)
<1>1. {m \in {"view", "edit"} : has[m] /\ ~had[m]} = {}
  BY DEF GrantGains
<1> QED BY <1>1

\* A subject that is not the group does not care who is in it.
LEMMA MatchesAlike ==
    ASSUME NEW s \in Named, NEW group, s # OfGroup(group), NEW role, NEW u, NEW had, NEW has,
           \A h : h # group => (h \in had <=> h \in has)
    PROVE  Matches(s, role, u, had) <=> Matches(s, role, u, has)
<1>1. CASE s = Everyone
  BY <1>1 DEF Matches, Everyone
<1>2. ASSUME NEW r, s = OfRole(r) PROVE Matches(s, role, u, had) <=> Matches(s, role, u, has)
  BY <1>2 DEF Matches, OfRole
<1>3. ASSUME NEW h, s = OfGroup(h) PROVE Matches(s, role, u, had) <=> Matches(s, role, u, has)
  BY <1>3 DEF Matches, OfGroup
<1>4. ASSUME NEW v, s = OfUser(v) PROVE Matches(s, role, u, had) <=> Matches(s, role, u, has)
  BY <1>4 DEF Matches, OfUser
<1> QED BY <1>1, <1>2, <1>3, <1>4 DEF Named

LEMMA FoldAlike ==
    ASSUME NEW role, NEW u, NEW had, NEW has, NEW grants,
           \A g \in grants : Matches(g.subject, role, u, had) <=> Matches(g.subject, role, u, has)
    PROVE  Fold(role, u, had, grants) = Fold(role, u, has, grants)
<1>1. {g \in grants : Matches(g.subject, role, u, had)}
        = {g \in grants : Matches(g.subject, role, u, has)}
  OBVIOUS
<1> QED BY <1>1 DEF Fold

LEMMA RowStateAlike ==
    ASSUME NEW p, NEW u, NEW had, NEW has, NEW text,
           \A r \in text.row.rules :
              Matches(r.subject, p.role[u], u, had) <=> Matches(r.subject, p.role[u], u, has)
    PROVE  RowState(p, u, had, text) = RowState(p, u, has, text)
<1>1. {r \in text.row.rules : Matches(r.subject, p.role[u], u, had)}
        = {r \in text.row.rules : Matches(r.subject, p.role[u], u, has)}
  OBVIOUS
<1> QED BY <1>1 DEF RowState, Allowed

\* What it records is a function of the masks that apply.
Recorded(text, on) ==
    LET columns == {text.masks[i].column : i \in on}
        last(c) == CHOOSE i \in on : /\ text.masks[i].column = c
                                     /\ \A j \in on : text.masks[j].column = c => j <= i
    IN  [c \in columns |-> text.masks[last(c)].mode]

LEMMA RecordedIs ==
    ASSUME NEW p, NEW u, NEW groups, NEW text
    PROVE  MaskState(p, u, groups, text)
             = Recorded(text, {i \in DOMAIN text.masks : Applies(text.masks[i], p.role[u], u, groups)})
BY DEF MaskState, Recorded

LEMMA MaskStateAlike ==
    ASSUME NEW p, NEW u, NEW had, NEW has, NEW text,
           \A i \in DOMAIN text.masks : \A s \in text.masks[i].exempt :
              Matches(s, p.role[u], u, had) <=> Matches(s, p.role[u], u, has)
    PROVE  MaskState(p, u, had, text) = MaskState(p, u, has, text)
<1>1. \A i \in DOMAIN text.masks :
         Applies(text.masks[i], p.role[u], u, had) <=> Applies(text.masks[i], p.role[u], u, has)
  BY DEF Applies
<1>2. {i \in DOMAIN text.masks : Applies(text.masks[i], p.role[u], u, had)}
        = {i \in DOMAIN text.masks : Applies(text.masks[i], p.role[u], u, has)}
  BY <1>1
<1> QED BY <1>2, RecordedIs

\* A policy that does not name the group is read as before.
LEMMA PolicyAlike ==
    ASSUME NEW p, NEW u, NEW d, NEW text, PolicyFits(text), NEW group,
           OfGroup(group) \notin Subjects(text), NEW had, NEW has,
           \A h : h # group => (h \in had <=> h \in has)
    PROVE  PolicyGains(p, u, d, had, has, text, text) = {}
<1>1. \A r \in text.row.rules : r.subject \in Named /\ r.subject # OfGroup(group)
  BY DEF Subjects, PolicyFits
<1>2. \A i \in DOMAIN text.masks : \A s \in text.masks[i].exempt : s \in Named /\ s # OfGroup(group)
  BY DEF Subjects, PolicyFits
<1>3. RowState(p, u, had, text) = RowState(p, u, has, text)
  BY <1>1, MatchesAlike, RowStateAlike
<1>4. MaskState(p, u, had, text) = MaskState(p, u, has, text)
  BY <1>2, MatchesAlike, MaskStateAlike
<1> QED BY <1>3, <1>4, NoGainOfSame

LEMMA GrantsAlike ==
    ASSUME NEW grants, GrantsFit(grants), NEW group, OfGroup(group) \notin {g.subject : g \in grants},
           NEW role, NEW u, NEW had, NEW has, \A h : h # group => (h \in had <=> h \in has)
    PROVE  Fold(role, u, had, grants) = Fold(role, u, has, grants)
<1>1. \A g \in grants : g.subject \in Named /\ g.subject # OfGroup(group)
  BY DEF GrantsFit
<1>2. \A g \in grants : Matches(g.subject, role, u, had) <=> Matches(g.subject, role, u, has)
  BY <1>1, MatchesAlike
<1> QED BY <1>2, FoldAlike

\* What is not touched.

LEMMA GroupsStay ==
    ASSUME NEW a, NEW b, b.member = a.member, NEW u
    PROVE  GroupsOf(b, u) = GroupsOf(a, u)
BY DEF GroupsOf

LEMMA PolicyStays ==
    ASSUME NEW a, NEW b, NEW u, NEW d, a.role[u] # "admin", b.role = a.role, b.member = a.member,
           b.policy[d] = a.policy[d], PolicyFits(a.policy[d])
    PROVE  FewerRows(b, a, u, d) /\ MasksStay(b, a, u, d)
<1>1. GroupsOf(b, u) = GroupsOf(a, u)
  BY GroupsStay
<1>2. PolicyGains(a, u, d, GroupsOf(a, u), GroupsOf(b, u), a.policy[d], b.policy[d]) = {}
  BY <1>1, NoGainOfSame
<1> QED BY <1>2, PolicyNarrows

LEMMA EvaluateStays ==
    ASSUME NEW a, NEW b, NEW u, b.role = a.role, b.member = a.member, NEW grants
    PROVE  Evaluate(b, u, grants) = Evaluate(a, u, grants)
BY GroupsStay DEF Evaluate

LEMMA TypedStays ==
    ASSUME NEW a, NEW b, NEW u, NEW t, b.role = a.role, b.member = a.member, b.typed[t] = a.typed[t]
    PROVE  TypedLess(b, a, u, t)
BY EvaluateStays DEF TypedLess

LEMMA ClearanceStays ==
    ASSUME NEW a, NEW b, NEW u, NEW d, b.role = a.role, b.cleared[u] = a.cleared[u],
           b.explicit = a.explicit, b.inherited = a.inherited
    PROVE  HasClearance(b, u, d) <=> HasClearance(a, u, d)
BY DEF HasClearance, Enforced

LEMMA OpensStays ==
    ASSUME NEW a, NEW b, NEW u, NEW d, b.role = a.role, b.member = a.member,
           b.granted[d] = a.granted[d], HasClearance(b, u, d) <=> HasClearance(a, u, d)
    PROVE  OpensLess(b, a, u, d)
BY EvaluateStays DEF OpensLess, Opens

(* The kinds of change. *)

\* The closure holds what is set.
LEMMA ClosureCovers ==
    ASSUME NEW edges, NEW direct, NEW d \in Datasets
    PROVE  direct[d] \subseteq Propagate(edges, direct)[d]
<1> DEFINE All == UNION {direct[e] : e \in Datasets}
           only == [e \in Datasets |-> direct[e]]
           Is(f) == f = SpreadOver(Datasets, edges, direct, f)
<1>1. only \in [Datasets -> SUBSET All]
  OBVIOUS
<1>2. Closes(Datasets, edges, All, only)
  <2> HIDE DEF All, only
  <2> QED BY <1>1, ClosureExists
<1>3. PICK f : f = SpreadOver(Datasets, edges, only, f)
  BY <1>2 DEF Closes
<1>4. SpreadOver(Datasets, edges, only, f) = SpreadOver(Datasets, edges, direct, f)
  BY DEF SpreadOver
<1>5. Is(f)
  BY <1>3, <1>4
<1>6. Propagate(edges, direct) = CHOOSE g : Is(g)
  BY DEF Propagate, SpreadOver
<1>7. Is(Propagate(edges, direct))
  <2> HIDE DEF Is
  <2> QED BY <1>5, <1>6
<1> DEFINE P == Propagate(edges, direct)
<1>8. P = SpreadOver(Datasets, edges, direct, P)
  BY <1>7
<1> HIDE DEF P, Is
<1>9. P[d] = direct[d] \cup UNION {P[v] : v \in {w \in Datasets : <<w, d>> \in edges}}
  BY <1>8 DEF SpreadOver
<1> QED BY <1>9 DEF P

LEMMA CandidateIs ==
    ASSUME NEW p, NEW u \in Candidates(p)
    PROVE  u \in Users /\ p.role[u] # "admin"
BY DEF Candidates

LEMMA ClearedIs ==
    ASSUME NEW p, NEW u, p.role[u] # "admin", NEW d
    PROVE  HasClearance(p, u, d) <=> Enforced(p, d) \subseteq p.cleared[u]
BY DEF HasClearance

\* Grants on a dataset.
LEMMA GrantsUnder ==
    ASSUME NEW a, TablesFit(a), NEW b, NEW d \in Datasets, NEW grants,
           b = SetGrantsForDataset(a, d, grants), DatasetGrantsDiff(a, d, grants) = {},
           NEW u \in Candidates(a)
    PROVE  StaysUnder(b, a, u)
<1>1. /\ b.role = a.role /\ b.member = a.member /\ b.policy = a.policy /\ b.typed = a.typed
      /\ b.cleared = a.cleared /\ b.explicit = a.explicit /\ b.inherited = a.inherited
      /\ \A e \in Datasets : b.granted[e] = IF e = d THEN grants ELSE a.granted[e]
  BY DEF SetGrantsForDataset, TablesFit
<1>2. a.role[u] # "admin"
  BY CandidateIs
<1>3. \A e : HasClearance(b, u, e) <=> HasClearance(a, u, e)
  BY <1>1, ClearanceStays
<1>4. HasClearance(a, u, d) =>
        GrantGains(u, d, Evaluate(a, u, a.granted[d]), Evaluate(a, u, grants)) = {}
  BY DEF DatasetGrantsDiff
<1>5. OpensLess(b, a, u, d)
  <2>1. Evaluate(b, u, b.granted[d]) = Evaluate(a, u, grants)
    BY <1>1, EvaluateStays
  <2>2. HasClearance(a, u, d) =>
          /\ Evaluate(a, u, grants).view => Evaluate(a, u, a.granted[d]).view
          /\ Evaluate(a, u, grants).edit => Evaluate(a, u, a.granted[d]).edit
    BY <1>4, GainsNone
  <2> QED BY <1>3, <2>1, <2>2 DEF OpensLess, Opens
<1>6. \A e \in Datasets : OpensLess(b, a, u, e)
  BY <1>1, <1>3, <1>5, OpensStays
<1>7. \A e \in Datasets : FewerRows(b, a, u, e) /\ MasksStay(b, a, u, e)
  BY <1>1, <1>2, PolicyStays DEF TablesFit
<1>8. \A t : TypedLess(b, a, u, t)
  BY <1>1, TypedStays
<1> QED BY <1>6, <1>7, <1>8 DEF StaysUnder

\* Grants on a type.
LEMMA TypesUnder ==
    ASSUME NEW a, TablesFit(a), NEW b, NEW t \in ObjectTypes, NEW grants,
           b = SetGrantsForType(a, t, grants), OntologyGrantsDiff(a, t, grants) = {},
           NEW u \in Candidates(a)
    PROVE  StaysUnder(b, a, u)
<1>1. /\ b.role = a.role /\ b.member = a.member /\ b.policy = a.policy /\ b.granted = a.granted
      /\ b.cleared = a.cleared /\ b.explicit = a.explicit /\ b.inherited = a.inherited
      /\ \A s \in ObjectTypes : b.typed[s] = IF s = t THEN grants ELSE a.typed[s]
  BY DEF SetGrantsForType, TablesFit
<1>2. a.role[u] # "admin"
  BY CandidateIs
<1>3. \A d \in Datasets : OpensLess(b, a, u, d)
  BY <1>1, ClearanceStays, OpensStays
<1>4. \A d \in Datasets : FewerRows(b, a, u, d) /\ MasksStay(b, a, u, d)
  BY <1>1, <1>2, PolicyStays DEF TablesFit
<1>5. GrantGains(u, t, Evaluate(a, u, a.typed[t]), Evaluate(a, u, grants)) = {}
  BY DEF OntologyGrantsDiff
<1>6. TypedLess(b, a, u, t)
  <2>1. Evaluate(b, u, b.typed[t]) = Evaluate(a, u, grants)
    BY <1>1, EvaluateStays
  <2> QED BY <1>5, <2>1, GainsNone DEF TypedLess
<1>7. \A s \in ObjectTypes : TypedLess(b, a, u, s)
  BY <1>1, <1>6, TypedStays
<1> QED BY <1>3, <1>4, <1>7 DEF StaysUnder

\* A policy.
LEMMA PolicyUnder ==
    ASSUME NEW a, TablesFit(a), NEW b, NEW d \in Datasets, NEW text, PolicyFits(text),
           b = SetDatasetPolicy(a, d, text), DatasetPolicyDiff(a, d, text) = {},
           NEW u \in Candidates(a)
    PROVE  StaysUnder(b, a, u)
<1>1. /\ b.role = a.role /\ b.member = a.member /\ b.granted = a.granted /\ b.typed = a.typed
      /\ b.cleared = a.cleared /\ b.explicit = a.explicit /\ b.inherited = a.inherited
      /\ \A e \in Datasets : b.policy[e] = IF e = d THEN text ELSE a.policy[e]
  BY DEF SetDatasetPolicy, TablesFit
<1>2. a.role[u] # "admin"
  BY CandidateIs
<1>3. \A e \in Datasets : OpensLess(b, a, u, e)
  BY <1>1, ClearanceStays, OpensStays
<1>4. \A t : TypedLess(b, a, u, t)
  BY <1>1, TypedStays
<1>5. PolicyGains(a, u, d, GroupsOf(a, u), GroupsOf(a, u), a.policy[d], text) = {}
  BY DEF DatasetPolicyDiff
<1>6. FewerRows(b, a, u, d) /\ MasksStay(b, a, u, d)
  <2>1. GroupsOf(b, u) = GroupsOf(a, u)
    BY <1>1, GroupsStay
  <2>2. PolicyFits(a.policy[d])
    BY DEF TablesFit
  <2> QED BY <1>1, <1>2, <1>5, <2>1, <2>2, PolicyNarrows
<1>7. \A e \in Datasets : FewerRows(b, a, u, e) /\ MasksStay(b, a, u, e)
  BY <1>1, <1>2, <1>6, PolicyStays DEF TablesFit
<1> QED BY <1>3, <1>4, <1>7 DEF StaysUnder

\* Markings, set or deleted: whoever passes them afterwards passed them before,
\* or is granted nothing.
LEMMA MarkingsUnder ==
    ASSUME NEW a, TablesFit(a), NEW b, NEW e, b.explicit = e,
           b.inherited = Propagate(a.lineage, e), b.role = a.role, b.member = a.member,
           b.policy = a.policy, b.granted = a.granted, b.typed = a.typed,
           MarkingGains(a, e) = {}, NEW u \in Candidates(a), b.cleared[u] \subseteq a.cleared[u]
    PROVE  StaysUnder(b, a, u)
<1> DEFINE from == Propagate(a.lineage, a.explicit)
           to == Propagate(a.lineage, e)
<1>1. a.role[u] # "admin" /\ b.role[u] # "admin"
  BY CandidateIs
<1>2. ASSUME NEW d \in Datasets, HasClearance(b, u, d)
      PROVE  HasClearance(a, u, d) \/ ~Evaluate(a, u, a.granted[d]).view
  <2>1. to[d] \subseteq a.cleared[u]
    <3>1. Enforced(b, d) \subseteq b.cleared[u]
      BY <1>1, <1>2, ClearedIs
    <3> QED BY <3>1 DEF Enforced
  <2>2. SUFFICES ASSUME Evaluate(a, u, a.granted[d]).view PROVE HasClearance(a, u, d)
    OBVIOUS
  <2> DEFINE gainers == {y \in Candidates(a) \X Datasets :
                           /\ to[y[2]] \subseteq a.cleared[y[1]]
                           /\ ~(from[y[2]] \subseteq a.cleared[y[1]])
                           /\ Evaluate(a, y[1], a.granted[y[2]]).view}
             gain(x) == Gain(x[1], <<"view", from[x[2]] \ to[x[2]]>>, x[2])
  <2>3. MarkingGains(a, e) = {gain(x) : x \in gainers}
    BY DEF MarkingGains
  <2> HIDE DEF gain, gainers
  <2>4. gainers = {}
    BY <2>3
  <2> HIDE DEF from, to
  <2>5. <<u, d>> \in Candidates(a) \X Datasets /\ <<u, d>>[1] = u /\ <<u, d>>[2] = d
    OBVIOUS
  <2>6. from[d] \subseteq a.cleared[u]
    BY <2>1, <2>2, <2>4, <2>5 DEF gainers
  <2>7. Enforced(a, d) \subseteq from[d]
    BY DEF TablesFit, from
  <2> QED BY <1>1, <2>6, <2>7, ClearedIs
<1>3. \A d \in Datasets : OpensLess(b, a, u, d)
  <2> SUFFICES ASSUME NEW d \in Datasets PROVE OpensLess(b, a, u, d)
    OBVIOUS
  <2>1. Evaluate(b, u, b.granted[d]) = Evaluate(a, u, a.granted[d])
    BY EvaluateStays
  <2>2. Evaluate(a, u, a.granted[d]).edit => Evaluate(a, u, a.granted[d]).view
    BY FoldIs DEF Evaluate
  <2> QED BY <1>2, <2>1, <2>2 DEF OpensLess, Opens
<1>4. \A d \in Datasets : FewerRows(b, a, u, d) /\ MasksStay(b, a, u, d)
  BY <1>1, PolicyStays DEF TablesFit
<1>5. \A t : TypedLess(b, a, u, t)
  BY TypedStays
<1> QED BY <1>3, <1>4, <1>5 DEF StaysUnder

LEMMA MarkedIs ==
    ASSUME NEW p, TablesFit(p), NEW e, NEW b, b = Marked(p, e)
    PROVE  /\ b.explicit = e /\ b.inherited = Propagate(p.lineage, e) /\ b.lineage = p.lineage
           /\ b.role = p.role /\ b.member = p.member /\ b.policy = p.policy
           /\ b.granted = p.granted /\ b.typed = p.typed /\ b.cleared = p.cleared
           /\ DOMAIN b = DOMAIN p
BY DEF Marked, TablesFit

LEMMA DeletedIs ==
    ASSUME NEW p, TablesFit(p), NEW k, NEW b, b = DeletedMarking(p, k)
    PROVE  LET e == WithoutMarking(p, k) IN
           /\ b.explicit = e /\ b.inherited = Propagate(p.lineage, e) /\ b.lineage = p.lineage
           /\ b.role = p.role /\ b.member = p.member /\ b.policy = p.policy
           /\ b.granted = p.granted /\ b.typed = p.typed
           /\ b.cleared = [u \in Users |-> p.cleared[u] \ {k}]
           /\ DOMAIN b = DOMAIN p
<1> DEFINE e == WithoutMarking(p, k)
           m == Marked(p, e)
           fewer == [u \in Users |-> p.cleared[u] \ {k}]
<1>1. /\ m.explicit = e /\ m.inherited = Propagate(p.lineage, e) /\ m.lineage = p.lineage
      /\ m.role = p.role /\ m.member = p.member /\ m.policy = p.policy
      /\ m.granted = p.granted /\ m.typed = p.typed /\ DOMAIN m = DOMAIN p
  BY MarkedIs
<1>2. b = [m EXCEPT !.cleared = fewer]
  BY DEF DeletedMarking
<1> HIDE DEF e, m, fewer
<1>3. "cleared" \in DOMAIN m
  BY <1>1 DEF TablesFit
<1>4. /\ b.explicit = m.explicit /\ b.inherited = m.inherited /\ b.lineage = m.lineage
      /\ b.role = m.role /\ b.member = m.member /\ b.policy = m.policy
      /\ b.granted = m.granted /\ b.typed = m.typed /\ b.cleared = fewer /\ DOMAIN b = DOMAIN m
  BY <1>1, <1>2, <1>3 DEF TablesFit
<1> QED BY <1>1, <1>4 DEF e, fewer

LEMMA SetMarkingsUnder ==
    ASSUME NEW a, TablesFit(a), NEW b, NEW e, b = Marked(a, e), MarkingGains(a, e) = {},
           NEW u \in Candidates(a)
    PROVE  StaysUnder(b, a, u)
BY MarkedIs, MarkingsUnder

LEMMA DeletionUnder ==
    ASSUME NEW a, TablesFit(a), NEW b, NEW k, b = DeletedMarking(a, k),
           MarkingGains(a, WithoutMarking(a, k)) = {}, NEW u \in Candidates(a)
    PROVE  StaysUnder(b, a, u)
<1> DEFINE e == WithoutMarking(a, k)
<1>1. /\ b.explicit = e /\ b.inherited = Propagate(a.lineage, e)
      /\ b.role = a.role /\ b.member = a.member /\ b.policy = a.policy
      /\ b.granted = a.granted /\ b.typed = a.typed
      /\ b.cleared = [v \in Users |-> a.cleared[v] \ {k}]
  BY DeletedIs
<1>2. b.cleared[u] \subseteq a.cleared[u]
  BY <1>1, CandidateIs
<1>3. MarkingGains(a, e) = {}
  OBVIOUS
<1> HIDE DEF e
<1> QED BY <1>1, <1>2, <1>3, MarkingsUnder

\* Clearances.
LEMMA ClearancesUnder ==
    ASSUME NEW a, TablesFit(a), NEW b, NEW v \in Users, NEW cleared, b = SetClearances(a, v, cleared),
           ClearancesDiff(a, v, cleared) = {}, NEW u \in Candidates(a)
    PROVE  StaysUnder(b, a, u)
<1>1. /\ b.role = a.role /\ b.member = a.member /\ b.policy = a.policy /\ b.granted = a.granted
      /\ b.typed = a.typed /\ b.explicit = a.explicit /\ b.inherited = a.inherited
      /\ \A w \in Users : b.cleared[w] = IF w = v THEN cleared ELSE a.cleared[w]
  BY DEF SetClearances, TablesFit
<1>2. u \in Users /\ a.role[u] # "admin" /\ b.role[u] # "admin"
  BY <1>1, CandidateIs
<1>3. ASSUME NEW d \in Datasets, HasClearance(b, u, d)
      PROVE  HasClearance(a, u, d) \/ ~Evaluate(a, u, a.granted[d]).view
  <2>1. CASE u # v
    BY <1>1, <1>2, <1>3, <2>1, ClearanceStays
  <2>2. CASE u = v
    <3>1. {d2 \in Datasets : /\ Enforced(a, d2) \subseteq cleared
                             /\ ~(Enforced(a, d2) \subseteq a.cleared[v])
                             /\ Evaluate(a, v, a.granted[d2]).view} = {}
      BY <2>2 DEF ClearancesDiff
    <3>2. Enforced(b, d) = Enforced(a, d)
      BY <1>1 DEF Enforced
    <3>3. Enforced(a, d) \subseteq cleared
      BY <1>1, <1>2, <1>3, <2>2, <3>2, ClearedIs
    <3> QED BY <1>2, <2>2, <3>1, <3>3, ClearedIs
  <2> QED BY <2>1, <2>2
<1>4. \A d \in Datasets : OpensLess(b, a, u, d)
  <2> SUFFICES ASSUME NEW d \in Datasets PROVE OpensLess(b, a, u, d)
    OBVIOUS
  <2>1. Evaluate(b, u, b.granted[d]) = Evaluate(a, u, a.granted[d])
    BY <1>1, EvaluateStays
  <2>2. Evaluate(a, u, a.granted[d]).edit => Evaluate(a, u, a.granted[d]).view
    BY FoldIs DEF Evaluate
  <2> QED BY <1>3, <2>1, <2>2 DEF OpensLess, Opens
<1>5. \A d \in Datasets : FewerRows(b, a, u, d) /\ MasksStay(b, a, u, d)
  BY <1>1, <1>2, PolicyStays DEF TablesFit
<1>6. \A t : TypedLess(b, a, u, t)
  BY <1>1, TypedStays
<1> QED BY <1>4, <1>5, <1>6 DEF StaysUnder

\* Members of a group.
FoldLess(role, u, had, has, grants) ==
    /\ Fold(role, u, has, grants).view => Fold(role, u, had, grants).view
    /\ Fold(role, u, has, grants).edit => Fold(role, u, had, grants).edit

\* What a user of other groups is answered.
GroupsNarrow(p, u, had, has) ==
    /\ \A d \in Datasets : HasClearance(p, u, d) => FoldLess(p.role[u], u, had, has, p.granted[d])
    /\ \A t \in ObjectTypes : FoldLess(p.role[u], u, had, has, p.typed[t])
    /\ \A d \in Datasets : PolicyGains(p, u, d, had, has, p.policy[d], p.policy[d]) = {}

\* A group that nothing names does not matter.
LEMMA UnnamedNarrows ==
    ASSUME NEW p, TablesFit(p), NEW group, ~GroupReferenced(p, group), NEW u, NEW had, NEW has,
           \A h : h # group => (h \in had <=> h \in has)
    PROVE  GroupsNarrow(p, u, had, has)
<1> DEFINE Same(grants) == Fold(p.role[u], u, had, grants) = Fold(p.role[u], u, has, grants)
<1>1. ASSUME NEW d \in Datasets PROVE Same(p.granted[d])
  <2> DEFINE grants == p.granted[d]
  <2>1. GrantsFit(grants) /\ OfGroup(group) \notin {g.subject : g \in grants}
    BY DEF GroupReferenced, TablesFit
  <2> HIDE DEF grants
  <2>2. Same(grants)
    BY <2>1, GrantsAlike
  <2> QED BY <2>2 DEF grants
<1>2. ASSUME NEW t \in ObjectTypes PROVE Same(p.typed[t])
  <2> DEFINE grants == p.typed[t]
  <2>1. GrantsFit(grants) /\ OfGroup(group) \notin {g.subject : g \in grants}
    BY DEF GroupReferenced, TablesFit
  <2> HIDE DEF grants
  <2>2. Same(grants)
    BY <2>1, GrantsAlike
  <2> QED BY <2>2 DEF grants
<1>3. \A d \in Datasets : PolicyGains(p, u, d, had, has, p.policy[d], p.policy[d]) = {}
  BY PolicyAlike DEF GroupReferenced, TablesFit
<1> QED BY <1>1, <1>2, <1>3 DEF GroupsNarrow, FoldLess

LEMMA SameNarrows ==
    ASSUME NEW p, NEW u, NEW groups
    PROVE  GroupsNarrow(p, u, groups, groups)
<1>1. \A d \in Datasets : PolicyGains(p, u, d, groups, groups, p.policy[d], p.policy[d]) = {}
  BY NoGainOfSame
<1> QED BY <1>1 DEF GroupsNarrow, FoldLess

\* A list without grants gives what the role gives.
LEMMA NoGrantsNarrow ==
    ASSUME NEW role, NEW u, NEW had, NEW has
    PROVE  FoldLess(role, u, had, has, {})
BY DEF FoldLess, Fold

\* Of a member the comparator looks at all of it.
LEMMA MemberNarrows ==
    ASSUME NEW p, NEW u, NEW had, NEW has, MemberGains(p, u, had, has) = {}
    PROVE  GroupsNarrow(p, u, had, has)
<1> DEFINE role == p.role[u]
           passed == {d \in Datasets : p.granted[d] # {} /\ HasClearance(p, u, d)}
           onData(d) == GrantGains(u, d, Fold(role, u, had, p.granted[d]), Fold(role, u, has, p.granted[d]))
           onType(t) == GrantGains(u, t, Fold(role, u, had, p.typed[t]), Fold(role, u, has, p.typed[t]))
           onRead(d) == PolicyGains(p, u, d, had, has, p.policy[d], p.policy[d])
           data == UNION {onData(d) : d \in passed}
           types == UNION {onType(t) : t \in ObjectTypes}
           reads == UNION {onRead(d) : d \in Datasets}
<1>1. MemberGains(p, u, had, has) = data \cup types \cup reads
  BY DEF MemberGains
<1>2. /\ \A d \in passed : onData(d) = {}
      /\ \A t \in ObjectTypes : onType(t) = {}
      /\ \A d \in Datasets : onRead(d) = {}
  <2> HIDE DEF onData, onType, onRead, passed, data, types, reads
  <2>1. data = {} /\ types = {} /\ reads = {}
    BY <1>1
  <2>4. \A d \in passed : onData(d) = {}
    BY <2>1 DEF data
  <2>5. \A t \in ObjectTypes : onType(t) = {}
    BY <2>1 DEF types
  <2>6. \A d \in Datasets : onRead(d) = {}
    BY <2>1 DEF reads
  <2> QED BY <2>4, <2>5, <2>6
<1>3. ASSUME NEW d \in passed PROVE FoldLess(role, u, had, has, p.granted[d])
  <2>1. GrantGains(u, d, Fold(role, u, had, p.granted[d]), Fold(role, u, has, p.granted[d])) = {}
    BY <1>2
  <2> QED BY <2>1, GainsNone DEF FoldLess
<1>4. ASSUME NEW t \in ObjectTypes PROVE FoldLess(role, u, had, has, p.typed[t])
  <2>1. GrantGains(u, t, Fold(role, u, had, p.typed[t]), Fold(role, u, has, p.typed[t])) = {}
    BY <1>2
  <2> QED BY <2>1, GainsNone DEF FoldLess
<1>5. \A d \in Datasets : HasClearance(p, u, d) => FoldLess(role, u, had, has, p.granted[d])
  BY <1>3, NoGrantsNarrow
<1> QED BY <1>2, <1>4, <1>5 DEF GroupsNarrow

LEMMA MembersUnder ==
    ASSUME NEW a, TablesFit(a), NEW b, NEW group \in Groups, NEW users,
           b = SetGroupMembers(a, group, users), GroupMembersDiff(a, group, users) = {},
           NEW u \in Candidates(a)
    PROVE  StaysUnder(b, a, u)
<1> DEFINE had == GroupsOf(a, u)
           has == GroupsOf(b, u)
           after(v) == IF v \in users THEN GroupsOf(a, v) \cup {group} ELSE GroupsOf(a, v) \ {group}
           current == a.member[group]
           changed == (users \ current) \cup (current \ users)
<1>1. /\ b.role = a.role /\ b.policy = a.policy /\ b.granted = a.granted /\ b.typed = a.typed
      /\ b.explicit = a.explicit /\ b.inherited = a.inherited /\ b.cleared = a.cleared
      /\ \A h \in Groups : b.member[h] = IF h = group THEN users ELSE a.member[h]
  BY DEF SetGroupMembers, TablesFit
<1>2. has = after(u)
  BY <1>1 DEF GroupsOf
<1>3. GroupsNarrow(a, u, had, has)
  <2>1. CASE ~GroupReferenced(a, group)
    <3>1. \A h : h # group => (h \in had <=> h \in has)
      BY <1>2
    <3> QED BY <2>1, <3>1, UnnamedNarrows
  <2>2. CASE u \notin changed
    <3>1. group \in had <=> u \in users
      BY <2>2 DEF GroupsOf
    <3>2. had = has
      BY <1>2, <3>1
    <3> QED BY <3>2, SameNarrows
  <2>3. CASE GroupReferenced(a, group) /\ u \in changed
    <3>1. GroupMembersDiff(a, group, users)
            = UNION {MemberGains(a, v, GroupsOf(a, v), after(v)) : v \in changed \cap Candidates(a)}
      BY <2>3 DEF GroupMembersDiff
    <3> HIDE DEF after, changed
    <3>2. MemberGains(a, u, GroupsOf(a, u), after(u)) = {}
      BY <2>3, <3>1
    <3> QED BY <1>2, <3>2, MemberNarrows
  <2> QED BY <2>1, <2>2, <2>3
<1>4. \A grants : Evaluate(b, u, grants) = Fold(a.role[u], u, has, grants)
                  /\ Evaluate(a, u, grants) = Fold(a.role[u], u, had, grants)
  BY <1>1 DEF Evaluate
<1>5. \A d \in Datasets : OpensLess(b, a, u, d)
  <2>1. \A d : HasClearance(b, u, d) <=> HasClearance(a, u, d)
    BY <1>1, ClearanceStays
  <2> HIDE DEF had, has
  <2> SUFFICES ASSUME NEW d \in Datasets PROVE OpensLess(b, a, u, d)
    OBVIOUS
  <2>2. HasClearance(a, u, d) => FoldLess(a.role[u], u, had, has, a.granted[d])
    BY <1>3 DEF GroupsNarrow
  <2>3. /\ Evaluate(b, u, b.granted[d]) = Fold(a.role[u], u, has, a.granted[d])
        /\ Evaluate(a, u, a.granted[d]) = Fold(a.role[u], u, had, a.granted[d])
    BY <1>1, <1>4
  <2> QED BY <2>1, <2>2, <2>3 DEF OpensLess, Opens, FoldLess
<1>6. \A t \in ObjectTypes : TypedLess(b, a, u, t)
  <2> HIDE DEF had, has
  <2> QED BY <1>1, <1>3, <1>4 DEF TypedLess, GroupsNarrow, FoldLess
<1>7. \A d \in Datasets : FewerRows(b, a, u, d) /\ MasksStay(b, a, u, d)
  <2> SUFFICES ASSUME NEW d \in Datasets PROVE FewerRows(b, a, u, d) /\ MasksStay(b, a, u, d)
    OBVIOUS
  <2>1. a.role[u] # "admin" /\ PolicyFits(a.policy[d]) /\ PolicyFits(b.policy[d])
    BY <1>1, CandidateIs DEF TablesFit
  <2>2. PolicyGains(a, u, d, GroupsOf(a, u), GroupsOf(b, u), a.policy[d], b.policy[d]) = {}
    BY <1>1, <1>3 DEF GroupsNarrow
  <2> QED BY <1>1, <2>1, <2>2, PolicyNarrows
<1> QED BY <1>5, <1>6, <1>7 DEF StaysUnder

\* The mode of the review.
LEMMA SettingsUnder ==
    ASSUME NEW a, TablesFit(a), NEW b, NEW on, b = [a EXCEPT !.review = on], NEW u \in Candidates(a)
    PROVE  StaysUnder(b, a, u)
<1>1. /\ b.role = a.role /\ b.member = a.member /\ b.policy = a.policy /\ b.granted = a.granted
      /\ b.typed = a.typed /\ b.explicit = a.explicit /\ b.inherited = a.inherited
      /\ b.cleared = a.cleared
  BY DEF TablesFit
<1>2. \A d \in Datasets : OpensLess(b, a, u, d)
  BY <1>1, ClearanceStays, OpensStays
<1>3. \A d \in Datasets : FewerRows(b, a, u, d) /\ MasksStay(b, a, u, d)
  BY <1>1, CandidateIs, PolicyStays DEF TablesFit
<1>4. \A t : TypedLess(b, a, u, t)
  BY <1>1, TypedStays
<1> QED BY <1>2, <1>3, <1>4 DEF StaysUnder

(* The changes, one kind after the other. *)
ChangeKinds == {"dataset_grants", "ontology_grants", "dataset_policy", "dataset_markings",
                "marking_delete", "clearances", "group_members", "group_delete", "user_role",
                "approval_settings"}

\* What a change is.
LEMMA ChangeIs ==
    ASSUME NEW change, ChangeFits(change)
    PROVE  /\ change.kind \in ChangeKinds
           /\ change.kind = "dataset_grants" => change.target \in Datasets /\ GrantsFit(change.payload)
           /\ change.kind = "ontology_grants" => change.target \in ObjectTypes /\ GrantsFit(change.payload)
           /\ change.kind = "dataset_policy" => change.target \in Datasets /\ PolicyFits(change.payload)
           /\ change.kind = "dataset_markings" => change.target \in Datasets
           /\ change.kind \in {"clearances", "user_role"} => change.target \in Users
           /\ change.kind \in {"group_members", "group_delete"} => change.target \in Groups
BY DEF ChangeFits, ChangeKinds

\* The change and its classification, kind by kind.
LEMMA DiffIs ==
    ASSUME NEW p, NEW change
    PROVE  LET subject == change.target
               payload == change.payload
               diff == Diff(p, change) IN
           /\ change.kind = "dataset_grants" => diff = DatasetGrantsDiff(p, subject, payload)
           /\ change.kind = "ontology_grants" => diff = OntologyGrantsDiff(p, subject, payload)
           /\ change.kind = "dataset_policy" => diff = DatasetPolicyDiff(p, subject, payload)
           /\ change.kind = "dataset_markings" => diff = MarkingGains(p, WithMarkings(p, subject, payload))
           /\ change.kind = "marking_delete" => diff = MarkingGains(p, WithoutMarking(p, subject))
           /\ change.kind = "clearances" => diff = ClearancesDiff(p, subject, payload)
           /\ change.kind = "group_members" => diff = GroupMembersDiff(p, subject, payload)
           /\ change.kind = "group_delete" => diff = GroupMembersDiff(p, subject, {})
BY DEF Diff

LEMMA AppliedIs ==
    ASSUME NEW p, NEW change
    PROVE  LET subject == change.target
               payload == change.payload
               after == Applied(p, change) IN
           /\ change.kind = "dataset_grants" => after = SetGrantsForDataset(p, subject, payload)
           /\ change.kind = "ontology_grants" => after = SetGrantsForType(p, subject, payload)
           /\ change.kind = "dataset_policy" => after = SetDatasetPolicy(p, subject, payload)
           /\ change.kind = "dataset_markings" => after = Marked(p, WithMarkings(p, subject, payload))
           /\ change.kind = "marking_delete" => after = DeletedMarking(p, subject)
           /\ change.kind = "clearances" => after = SetClearances(p, subject, payload)
           /\ change.kind = "group_members" => after = SetGroupMembers(p, subject, payload)
           /\ change.kind = "group_delete" => after = SetGroupMembers(p, subject, {})
           /\ change.kind = "user_role" => after = [p EXCEPT !.role[subject] = payload]
           /\ change.kind = "approval_settings" => after = [p EXCEPT !.review = payload]
BY DEF Applied, DeletedGroup

LEMMA TighteningUnder ==
    ASSUME NEW p, TablesFit(p), NEW change, ChangeFits(change), change.kind # "user_role",
           ~IsLoosening(p, change), NEW u \in Candidates(p)
    PROVE  StaysUnder(Applied(p, change), p, u)
<1> DEFINE b == Applied(p, change)
<1>1. Diff(p, change) = {}
  BY DEF IsLoosening
<1>2. CASE change.kind = "dataset_grants"
  <2>1. b = SetGrantsForDataset(p, change.target, change.payload)
    BY <1>2, AppliedIs
  <2>2. DatasetGrantsDiff(p, change.target, change.payload) = {}
    BY <1>1, <1>2, DiffIs
  <2>3. change.target \in Datasets
    BY <1>2, ChangeIs
  <2> HIDE DEF b
  <2>4. StaysUnder(b, p, u)
    BY <2>1, <2>2, <2>3, GrantsUnder
  <2> QED BY <2>4 DEF b
<1>3. CASE change.kind = "ontology_grants"
  <2>1. b = SetGrantsForType(p, change.target, change.payload)
    BY <1>3, AppliedIs
  <2>2. OntologyGrantsDiff(p, change.target, change.payload) = {}
    BY <1>1, <1>3, DiffIs
  <2>3. change.target \in ObjectTypes
    BY <1>3, ChangeIs
  <2> HIDE DEF b
  <2>4. StaysUnder(b, p, u)
    BY <2>1, <2>2, <2>3, TypesUnder
  <2> QED BY <2>4 DEF b
<1>4. CASE change.kind = "dataset_policy"
  <2>1. b = SetDatasetPolicy(p, change.target, change.payload)
    BY <1>4, AppliedIs
  <2>2. DatasetPolicyDiff(p, change.target, change.payload) = {}
    BY <1>1, <1>4, DiffIs
  <2>3. change.target \in Datasets /\ PolicyFits(change.payload)
    BY <1>4, ChangeIs
  <2> HIDE DEF b
  <2>4. StaysUnder(b, p, u)
    BY <2>1, <2>2, <2>3, PolicyUnder
  <2> QED BY <2>4 DEF b
<1>5. CASE change.kind = "dataset_markings"
  <2> DEFINE e == WithMarkings(p, change.target, change.payload)
  <2>1. b = Marked(p, e)
    BY <1>5, AppliedIs
  <2>2. MarkingGains(p, e) = {}
    BY <1>1, <1>5, DiffIs
  <2> HIDE DEF b, e
  <2>3. StaysUnder(b, p, u)
    BY <2>1, <2>2, SetMarkingsUnder
  <2> QED BY <2>3 DEF b
<1>6. CASE change.kind = "marking_delete"
  <2>1. b = DeletedMarking(p, change.target)
    BY <1>6, AppliedIs
  <2>2. MarkingGains(p, WithoutMarking(p, change.target)) = {}
    BY <1>1, <1>6, DiffIs
  <2> HIDE DEF b
  <2>3. StaysUnder(b, p, u)
    BY <2>1, <2>2, DeletionUnder
  <2> QED BY <2>3 DEF b
<1>7. CASE change.kind = "clearances"
  <2>1. b = SetClearances(p, change.target, change.payload)
    BY <1>7, AppliedIs
  <2>2. ClearancesDiff(p, change.target, change.payload) = {}
    BY <1>1, <1>7, DiffIs
  <2>3. change.target \in Users
    BY <1>7, ChangeIs
  <2> HIDE DEF b
  <2>4. StaysUnder(b, p, u)
    BY <2>1, <2>2, <2>3, ClearancesUnder
  <2> QED BY <2>4 DEF b
<1>8. CASE change.kind = "group_members"
  <2>1. b = SetGroupMembers(p, change.target, change.payload)
    BY <1>8, AppliedIs
  <2>2. GroupMembersDiff(p, change.target, change.payload) = {}
    BY <1>1, <1>8, DiffIs
  <2>3. change.target \in Groups
    BY <1>8, ChangeIs
  <2> HIDE DEF b
  <2>4. StaysUnder(b, p, u)
    BY <2>1, <2>2, <2>3, MembersUnder
  <2> QED BY <2>4 DEF b
<1>9. CASE change.kind = "group_delete"
  <2>1. b = SetGroupMembers(p, change.target, {})
    BY <1>9, AppliedIs
  <2>2. GroupMembersDiff(p, change.target, {}) = {}
    BY <1>1, <1>9, DiffIs
  <2>3. change.target \in Groups
    BY <1>9, ChangeIs
  <2> HIDE DEF b
  <2>4. StaysUnder(b, p, u)
    BY <2>1, <2>2, <2>3, MembersUnder
  <2> QED BY <2>4 DEF b
<1>10. CASE change.kind = "approval_settings"
  <2>1. b = [p EXCEPT !.review = change.payload]
    BY <1>10, AppliedIs
  <2> HIDE DEF b
  <2>2. StaysUnder(b, p, u)
    BY <2>1, SettingsUnder
  <2> QED BY <2>2 DEF b
<1>11. change.kind \in ChangeKinds
  BY ChangeIs
<1> HIDE DEF b
<1>12. StaysUnder(b, p, u)
  BY <1>2, <1>3, <1>4, <1>5, <1>6, <1>7, <1>8, <1>9, <1>10, <1>11 DEF ChangeKinds, b
<1> QED BY <1>12 DEF b

(* The tables stay what the changes make of them. *)

\* Markings that have just been propagated.
LEMMA MarkingFits ==
    ASSUME NEW p, TablesFit(p), NEW e, DOMAIN e = Datasets, NEW b, DOMAIN b = DOMAIN p,
           b.explicit = e, b.inherited = Propagate(p.lineage, e), b.lineage = p.lineage,
           b.member = p.member, b.policy = p.policy, b.granted = p.granted, b.typed = p.typed,
           DOMAIN b.cleared = Users
    PROVE  TablesFit(b)
<1>1. ASSUME NEW d \in Datasets PROVE Enforced(b, d) \subseteq Propagate(b.lineage, b.explicit)[d]
  <2>1. e[d] \subseteq Propagate(p.lineage, e)[d]
    BY ClosureCovers
  <2> QED BY <2>1 DEF Enforced
<1> QED BY <1>1 DEF TablesFit

\* A change of one table that leaves the markings alone.
LEMMA OtherFits ==
    ASSUME NEW p, TablesFit(p), NEW b, DOMAIN b = DOMAIN p,
           b.explicit = p.explicit, b.inherited = p.inherited, b.lineage = p.lineage,
           DOMAIN b.member = Groups, DOMAIN b.cleared = Users,
           DOMAIN b.granted = Datasets, \A d \in Datasets : GrantsFit(b.granted[d]),
           DOMAIN b.typed = ObjectTypes, \A t \in ObjectTypes : GrantsFit(b.typed[t]),
           DOMAIN b.policy = Datasets, \A d \in Datasets : PolicyFits(b.policy[d])
    PROVE  TablesFit(b)
<1>1. \A d : Enforced(b, d) = Enforced(p, d)
  BY DEF Enforced
<1> QED BY <1>1 DEF TablesFit

LEMMA AppliedFits ==
    ASSUME NEW p, TablesFit(p), NEW change, ChangeFits(change)
    PROVE  TablesFit(Applied(p, change))
<1> DEFINE b == Applied(p, change)
           subject == change.target
           payload == change.payload
<1>1. CASE change.kind = "dataset_grants"
  <2>1. subject \in Datasets /\ GrantsFit(payload)
    BY <1>1, ChangeIs
  <2>2. b = [p EXCEPT !.granted[subject] = payload]
    BY <1>1, AppliedIs DEF SetGrantsForDataset
  <2> HIDE DEF b, subject, payload
  <2>3. /\ DOMAIN b = DOMAIN p /\ b.explicit = p.explicit /\ b.inherited = p.inherited
        /\ b.lineage = p.lineage /\ b.member = p.member /\ b.cleared = p.cleared
        /\ b.typed = p.typed /\ b.policy = p.policy /\ DOMAIN b.granted = Datasets
        /\ \A d \in Datasets : b.granted[d] = IF d = subject THEN payload ELSE p.granted[d]
    BY <2>2 DEF TablesFit
  <2>4. \A d \in Datasets : GrantsFit(b.granted[d])
    BY <2>1, <2>3 DEF TablesFit
  <2>5. TablesFit(b)
    BY <2>3, <2>4, OtherFits DEF TablesFit
  <2> QED BY <2>5 DEF b
<1>2. CASE change.kind = "ontology_grants"
  <2>1. subject \in ObjectTypes /\ GrantsFit(payload)
    BY <1>2, ChangeIs
  <2>2. b = [p EXCEPT !.typed[subject] = payload]
    BY <1>2, AppliedIs DEF SetGrantsForType
  <2> HIDE DEF b, subject, payload
  <2>3. /\ DOMAIN b = DOMAIN p /\ b.explicit = p.explicit /\ b.inherited = p.inherited
        /\ b.lineage = p.lineage /\ b.member = p.member /\ b.cleared = p.cleared
        /\ b.granted = p.granted /\ b.policy = p.policy /\ DOMAIN b.typed = ObjectTypes
        /\ \A t \in ObjectTypes : b.typed[t] = IF t = subject THEN payload ELSE p.typed[t]
    BY <2>2 DEF TablesFit
  <2>4. \A t \in ObjectTypes : GrantsFit(b.typed[t])
    BY <2>1, <2>3 DEF TablesFit
  <2>5. TablesFit(b)
    BY <2>3, <2>4, OtherFits DEF TablesFit
  <2> QED BY <2>5 DEF b
<1>3. CASE change.kind = "dataset_policy"
  <2>1. subject \in Datasets /\ PolicyFits(payload)
    BY <1>3, ChangeIs
  <2>2. b = [p EXCEPT !.policy[subject] = payload]
    BY <1>3, AppliedIs DEF SetDatasetPolicy
  <2> HIDE DEF b, subject, payload
  <2>3. /\ DOMAIN b = DOMAIN p /\ b.explicit = p.explicit /\ b.inherited = p.inherited
        /\ b.lineage = p.lineage /\ b.member = p.member /\ b.cleared = p.cleared
        /\ b.granted = p.granted /\ b.typed = p.typed /\ DOMAIN b.policy = Datasets
        /\ \A d \in Datasets : b.policy[d] = IF d = subject THEN payload ELSE p.policy[d]
    BY <2>2 DEF TablesFit
  <2>4. \A d \in Datasets : PolicyFits(b.policy[d])
    BY <2>1, <2>3 DEF TablesFit
  <2>5. TablesFit(b)
    BY <2>3, <2>4, OtherFits DEF TablesFit
  <2> QED BY <2>5 DEF b
<1>4. CASE change.kind = "dataset_markings"
  <2> DEFINE e == WithMarkings(p, subject, payload)
  <2>1. b = Marked(p, e)
    BY <1>4, AppliedIs
  <2>2. DOMAIN e = Datasets
    BY DEF WithMarkings, TablesFit
  <2> HIDE DEF b, e
  <2>3. TablesFit(b)
    BY <2>1, <2>2, MarkedIs, MarkingFits DEF TablesFit
  <2> QED BY <2>3 DEF b
<1>5. CASE change.kind = "marking_delete"
  <2> DEFINE e == WithoutMarking(p, subject)
  <2>1. b = DeletedMarking(p, subject)
    BY <1>5, AppliedIs
  <2>2. DOMAIN e = Datasets
    BY DEF WithoutMarking
  <2> HIDE DEF b, subject
  <2>3. /\ b.explicit = e /\ b.inherited = Propagate(p.lineage, e) /\ b.lineage = p.lineage
        /\ b.member = p.member /\ b.policy = p.policy /\ b.granted = p.granted
        /\ b.typed = p.typed /\ b.cleared = [u \in Users |-> p.cleared[u] \ {subject}]
        /\ DOMAIN b = DOMAIN p
    BY <2>1, DeletedIs
  <2>4. DOMAIN b.cleared = Users
    BY <2>3
  <2> HIDE DEF e
  <2>5. TablesFit(b)
    BY <2>2, <2>3, <2>4, MarkingFits
  <2> QED BY <2>5 DEF b
<1>6. CASE change.kind = "clearances"
  <2>1. b = [p EXCEPT !.cleared[subject] = payload]
    BY <1>6, AppliedIs DEF SetClearances
  <2> HIDE DEF b, subject, payload
  <2>2. /\ DOMAIN b = DOMAIN p /\ b.explicit = p.explicit /\ b.inherited = p.inherited
        /\ b.lineage = p.lineage /\ b.member = p.member /\ DOMAIN b.cleared = DOMAIN p.cleared
        /\ b.granted = p.granted /\ b.typed = p.typed /\ b.policy = p.policy
    BY <2>1 DEF TablesFit
  <2>3. TablesFit(b)
    BY <2>2, OtherFits DEF TablesFit
  <2> QED BY <2>3 DEF b
<1>7. CASE change.kind \in {"group_members", "group_delete"}
  <2>1. PICK users : b = [p EXCEPT !.member[subject] = users]
    <3>1. CASE change.kind = "group_members"
      <4>1. b = [p EXCEPT !.member[subject] = payload]
        BY <3>1, AppliedIs DEF SetGroupMembers
      <4> HIDE DEF b, subject, payload
      <4> QED BY <4>1
    <3>2. CASE change.kind = "group_delete"
      <4>1. b = [p EXCEPT !.member[subject] = {}]
        BY <3>2, AppliedIs DEF SetGroupMembers
      <4> HIDE DEF b, subject
      <4> QED BY <4>1
    <3> QED BY <1>7, <3>1, <3>2
  <2> HIDE DEF b, subject
  <2>2. /\ DOMAIN b = DOMAIN p /\ b.explicit = p.explicit /\ b.inherited = p.inherited
        /\ b.lineage = p.lineage /\ DOMAIN b.member = DOMAIN p.member /\ b.cleared = p.cleared
        /\ b.granted = p.granted /\ b.typed = p.typed /\ b.policy = p.policy
    BY <2>1 DEF TablesFit
  <2>3. TablesFit(b)
    BY <2>2, OtherFits DEF TablesFit
  <2> QED BY <2>3 DEF b
<1>8. CASE change.kind \in {"user_role", "approval_settings"}
  <2>1. b = [p EXCEPT !.role[subject] = payload] \/ b = [p EXCEPT !.review = payload]
    BY <1>8, AppliedIs
  <2> HIDE DEF b, subject, payload
  <2>2. /\ DOMAIN b = DOMAIN p /\ b.explicit = p.explicit /\ b.inherited = p.inherited
        /\ b.lineage = p.lineage /\ b.member = p.member /\ b.cleared = p.cleared
        /\ b.granted = p.granted /\ b.typed = p.typed /\ b.policy = p.policy
    BY <2>1 DEF TablesFit
  <2>3. TablesFit(b)
    BY <2>2, OtherFits DEF TablesFit
  <2> QED BY <2>3 DEF b
<1>9. change.kind \in ChangeKinds
  BY ChangeIs
<1> HIDE DEF b, subject, payload
<1>10. TablesFit(b)
  BY <1>1, <1>2, <1>3, <1>4, <1>5, <1>6, <1>7, <1>8, <1>9 DEF ChangeKinds, b
<1> QED BY <1>10 DEF b

(* From the first tables on, and from the submission to the store. *)
CarriesFit(entry) == {"change", "state"} \subseteq DOMAIN entry /\ ChangeFits(entry.change)

TablesInv ==
    /\ TablesFit(policy)
    /\ \A change \in workload.asked : ChangeFits(change)
    /\ \A r \in Requests : request[r].pc = "file" => ChangeFits(request[r].change)
    /\ \A id \in DOMAIN proposals : CarriesFit(proposals[id])

LEMMA TablesStart == ApprovalsInit => TablesInv
<1> SUFFICES ASSUME ApprovalsInit PROVE TablesInv
  OBVIOUS
<1>1. PICK w \in Workloads :
        policy \in w.policies /\ workload = [asked |-> w.asked, requests |-> w.requests]
  BY DEF ApprovalsInit
<1>2. TablesFit(policy) /\ \A change \in workload.asked : ChangeFits(change)
  BY <1>1, ApprovalsAssumption
<1>3. \A r \in Requests : request[r].pc # "file"
  BY DEF ApprovalsInit, NoRequest
<1>4. DOMAIN proposals = {}
  BY DEF ApprovalsInit
<1> QED BY <1>2, <1>3, <1>4 DEF TablesInv

\* A request moves on; unless it is to file a record, it carries no change.
LEMMA RequestsCarryOn ==
    ASSUME DOMAIN request = Requests, NEW r, NEW to, Goes(r, to),
           to.pc = "file" => ChangeFits(to.change),
           \A s \in Requests : request[s].pc = "file" => ChangeFits(request[s].change)
    PROVE  \A s \in Requests : request'[s].pc = "file" => ChangeFits(request'[s].change)
<1>1. \A s \in Requests : request'[s] = IF s = r THEN to ELSE request[s]
  BY DEF Goes
<1> QED BY <1>1

LEMMA DecisionCarriesOn ==
    ASSUME InboxTyped, NEW id \in DOMAIN proposals, NEW state, DecideAs(id, state),
           \A i \in DOMAIN proposals : CarriesFit(proposals[i])
    PROVE  \A i \in DOMAIN proposals' : CarriesFit(proposals'[i])
<1>1. DOMAIN proposals' = DOMAIN proposals
  BY DecisionIsFenced
<1>2. CASE proposals[id].state = "pending"
  <2> DEFINE decided == [proposals[id] EXCEPT !.state = state]
  <2>1. proposals' = [proposals EXCEPT ![id] = decided]
    BY <1>2 DEF DecideAs
  <2>2. CarriesFit(decided)
    BY DEF CarriesFit
  <2> HIDE DEF decided
  <2>3. \A i \in DOMAIN proposals : proposals'[i] = IF i = id THEN decided ELSE proposals[i]
    BY <2>1
  <2> QED BY <1>1, <2>2, <2>3
<1>3. CASE proposals[id].state # "pending"
  BY <1>3 DEF DecideAs
<1> QED BY <1>2, <1>3

\* No step but the application of a change touches the tables.
LEMMA TablesKeep == ApprovalsInv /\ TablesInv /\ [ApprovalsNext]_approvalVars => TablesInv'
<1> SUFFICES ASSUME ApprovalsInv, TablesInv, [ApprovalsNext]_approvalVars PROVE TablesInv'
  OBVIOUS
<1> DEFINE Carried == \A s \in Requests : request[s].pc = "file" => ChangeFits(request[s].change)
           Filed == \A id \in DOMAIN proposals : CarriesFit(proposals[id])
           Asked == \A change \in workload.asked : ChangeFits(change)
<1>1. DOMAIN request = Requests /\ InboxTyped
  BY DEF ApprovalsInv, RequestsFollow
<1>2. TablesFit(policy) /\ Asked /\ Carried /\ Filed
  BY DEF TablesInv
<1>3. ASSUME TablesFit(policy)', workload' = workload, Carried', Filed' PROVE TablesInv'
  BY <1>2, <1>3 DEF TablesInv
<1>4. ASSUME policy' = policy PROVE TablesFit(policy)'
  BY <1>2, <1>4
<1>5. CASE UNCHANGED approvalVars
  BY <1>5 DEF TablesInv, approvalVars
<1>6. ASSUME NEW r, NEW admin, NEW change \in workload.asked, Submit(r, admin, change)
      PROVE  TablesInv'
  <2> DEFINE to == [pc |-> "file", admin |-> admin, change |-> change, diff |-> Diff(policy, change),
                    queues |-> IsLoosening(policy, change) /\ policy.review]
  <2>1. Goes(r, to) /\ policy' = policy /\ workload' = workload /\ proposals' = proposals
    BY <1>6 DEF Submit
  <2>2. ChangeFits(to.change)
    BY <1>2
  <2> HIDE DEF to
  <2>3. Carried'
    BY <1>1, <1>2, <2>1, <2>2, RequestsCarryOn
  <2>4. Filed'
    BY <1>2, <2>1
  <2> QED BY <1>3, <1>4, <2>1, <2>3, <2>4
<1>7. ASSUME NEW r, NEW to, Goes(r, to), to.pc # "file", UNCHANGED <<policy, workload, proposals>>
      PROVE  TablesInv'
  <2>1. Carried'
    BY <1>1, <1>2, <1>7, RequestsCarryOn
  <2>2. Filed'
    BY <1>2, <1>7
  <2> QED BY <1>3, <1>4, <1>7, <2>1, <2>2
<1>8. ASSUME NEW r, NEW admin, NEW id \in DOMAIN proposals, Approve(r, admin, id)
      PROVE  TablesInv'
  BY <1>7, <1>8 DEF Approve
<1>9. ASSUME NEW r, Abandon(r)
      PROVE  TablesInv'
  BY <1>7, <1>9 DEF Abandon, Ends, NoRequest
<1>10. ASSUME NEW id \in DOMAIN proposals, NEW state, DecideAs(id, state),
              UNCHANGED <<policy, workload>>, request' = request \/ \E r : Ends(r)
       PROVE  TablesInv'
  <2>1. Filed'
    BY <1>1, <1>2, <1>10, DecisionCarriesOn
  <2>2. Carried'
    <3>1. CASE request' = request
      BY <1>2, <3>1
    <3>2. CASE \E r : Ends(r)
      BY <1>1, <1>2, <3>2, RequestsCarryOn DEF Ends, NoRequest
    <3> QED BY <1>10, <3>1, <3>2
  <2> QED BY <1>3, <1>4, <1>10, <2>1, <2>2
<1>11. ASSUME NEW admin, NEW id \in DOMAIN proposals, Reject(admin, id) \/ Withdraw(admin, id)
       PROVE  TablesInv'
  BY <1>10, <1>11 DEF Reject, Withdraw
<1>12. ASSUME NEW r \in Requests, Decide(r) \/ Supersede(r)
       PROVE  TablesInv'
  <2>1. request[r].id \in DOMAIN proposals
    BY <1>12 DEF ApprovalsInv, RequestsFollow, Decide, Supersede, Late
  <2> QED BY <1>10, <1>12, <2>1 DEF Decide, Supersede
<1>13. ASSUME NEW r \in Requests, FileRecord(r)
       PROVE  TablesInv'
  <2> DEFINE entry == [change |-> request[r].change, diff |-> request[r].diff,
                       proposer |-> request[r].admin, state |-> "pending"]
  <2>1. proposals' = Append(proposals, entry)
    BY <1>13 DEF FileRecord
  <2>2. CarriesFit(entry)
    BY <1>2, <1>13 DEF FileRecord, CarriesFit
  <2>3. PICK S : proposals \in Seq(S)
    BY <1>1 DEF InboxTyped
  <2>4. proposals \in Seq(S \cup {entry})
    BY <2>3
  <2> HIDE DEF entry
  <2>5. \A i \in DOMAIN proposals' : IF i \in DOMAIN proposals THEN proposals'[i] = proposals[i]
                                                              ELSE proposals'[i] = entry
    BY <2>1, <2>4
  <2>6. Filed'
    BY <1>2, <2>2, <2>5
  <2>7. PICK to : Goes(r, to) /\ to.pc # "file"
    BY <1>13 DEF FileRecord, Ends, NoRequest
  <2>8. Carried'
    BY <1>1, <1>2, <2>7, RequestsCarryOn
  <2>9. policy' = policy /\ workload' = workload
    BY <1>13 DEF FileRecord
  <2> QED BY <1>3, <1>4, <2>6, <2>8, <2>9
<1>14. ASSUME NEW r \in Requests, ApplyChange(r)
       PROVE  TablesInv'
  <2> DEFINE id == request[r].id
             to == [request[r] EXCEPT !.pc = "decide"]
  <2>1. request[r] \in [pc : Late, id : DOMAIN proposals]
    BY <1>14 DEF ApprovalsInv, RequestsFollow, ApplyChange, Late
  <2>2. to.pc = "decide" /\ id \in DOMAIN proposals
    BY <2>1
  <2>3. /\ policy' = Applied(policy, proposals[id].change) /\ Goes(r, to)
        /\ workload' = workload /\ proposals' = proposals
    BY <1>14 DEF ApplyChange
  <2> HIDE DEF id, to
  <2>4. TablesFit(policy')
    BY <1>2, <2>2, <2>3, AppliedFits DEF CarriesFit
  <2>5. Carried'
    BY <1>1, <1>2, <2>2, <2>3, RequestsCarryOn
  <2>6. Filed'
    BY <1>2, <2>3
  <2> QED BY <1>3, <2>3, <2>4, <2>5, <2>6
<1> QED BY <1>5, <1>6, <1>8, <1>9, <1>11, <1>12, <1>13, <1>14 DEF ApprovalsNext

\* No change that the comparator calls a tightening widens anybody's access,
\* for any tables, users, grants, policies, markings and lineage, whatever has
\* been applied before (policy_diff.py against permissions.py): no row, no
\* cell, no right and no type comes in view.  Columns with several masks and
\* changes of role are left out, as in the property.
THEOREM TighteningsNeverWiden == ApprovalsSpec => []TighteningsDoNotWiden
<1>1. ApprovalsInit => ApprovalsInv /\ TablesInv
  BY ApprovalsStart, TablesStart
<1>2. ApprovalsInv /\ TablesInv /\ [ApprovalsNext]_approvalVars => (ApprovalsInv /\ TablesInv)'
  BY ApprovalsKeep, TablesKeep
<1>3. TablesInv => TighteningsDoNotWiden
  <2> SUFFICES ASSUME TablesInv, NEW change \in workload.asked, change.kind # "user_role",
                      ~IsLoosening(policy, change), NEW u \in Candidates(policy)
               PROVE  ~Exceeds(Applied(policy, change), policy, u)
    BY DEF TighteningsDoNotWiden
  <2>1. StaysUnder(Applied(policy, change), policy, u)
    BY TighteningUnder DEF TablesInv
  <2> QED BY <2>1, UnderIsNoExcess
<1> QED BY <1>1, <1>2, <1>3, PTL DEF ApprovalsSpec
=============================================================================
