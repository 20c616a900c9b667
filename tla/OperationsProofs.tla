-------------------------- MODULE OperationsProofs --------------------------
(***************************************************************************)
(* What is proved of the modules of operations: the semaphore of           *)
(* core/limits.py (Admission), the log of health events (Alerts), the      *)
(* marks of syncs (Connectors), the versions of Iceberg datasets           *)
(* (IcebergTable), incremental transforms (IncrementalBuild), the plan of  *)
(* a build (BuildPlanner) and the overlay of edits (ObjectOverlay), for    *)
(* any threads, slots, datasets, replicas, rows, branches, builds,         *)
(* declarations, keys, columns and edits.                                  *)
(***************************************************************************)
EXTENDS Admission, Alerts, BuildPlanner, Connectors, IcebergTable, IncrementalBuild, ObjectOverlay,
        Induction, FiniteSetTheorems, TLAPS

(***************************************************************************)
(* Admission.                                                              *)
(***************************************************************************)
QueryType ==
    [pc : {"idle", "waiting", "running", "leaving", "reading"},
     result : {"none", "rejected", "table", "reader", "memory", "error", "timeout"},
     watchdog : {"off", "armed", "fired"}]

\* The threads may be any set, so that the admitted ones are finitely many is
\* part of what is kept.
AdmissionInv ==
    /\ free \in Int
    /\ query \in [Queries -> QueryType]
    /\ IsFiniteSet(Admitted)
    /\ SlotsAccounted

LEMMA AdmissionStarts == AdmissionInit => AdmissionInv
<1> SUFFICES ASSUME AdmissionInit PROVE AdmissionInv
  OBVIOUS
<1>1. free \in Int /\ query \in [Queries -> QueryType]
  BY AdmissionAssumption DEF AdmissionInit, NoQuery, QueryType
<1>2. Admitted = {}
  BY DEF AdmissionInit, NoQuery, Admitted
<1>3. IsFiniteSet(Admitted) /\ Cardinality(Admitted) = 0
  BY <1>2, FS_EmptySet
<1> QED BY <1>1, <1>3, AdmissionAssumption DEF AdmissionInit, AdmissionInv, SlotsAccounted, Gated

\* A step that admits nobody and releases nobody.
LEMMA NobodyMoves ==
    ASSUME AdmissionInv, NEW q \in Queries, NEW state \in QueryType,
           query' = [query EXCEPT ![q] = state], free' = free,
           state.pc \in {"running", "leaving"} <=> query[q].pc \in {"running", "leaving"}
    PROVE  AdmissionInv'
<1>1. query' \in [Queries -> QueryType]
  BY DEF AdmissionInv
<1>2. Admitted' = Admitted
  BY DEF AdmissionInv, Admitted
<1> QED BY <1>1, <1>2 DEF AdmissionInv, SlotsAccounted, Gated

LEMMA AdmitKeepsInv ==
    ASSUME AdmissionInv, NEW q \in Queries, Admit(q)
    PROVE  AdmissionInv'
<1> DEFINE admitted == [query[q] EXCEPT !.pc = "running", !.watchdog = "armed"]
<1>0. query' = [query EXCEPT ![q] = admitted] /\ query[q] \in QueryType
  BY DEF AdmissionInv, Admit
<1>1. query' \in [Queries -> QueryType] /\ free' \in Int
  <2>1. admitted \in QueryType
    BY <1>0 DEF QueryType
  <2> QED BY <1>0, <2>1 DEF AdmissionInv, Admit
<1>2. Admitted' = Admitted \cup {q} /\ q \notin Admitted
  BY <1>0 DEF AdmissionInv, Admit, Admitted, QueryType
<1>3. IsFiniteSet(Admitted') /\ Cardinality(Admitted') = Cardinality(Admitted) + 1
  BY <1>2, FS_AddElement DEF AdmissionInv
<1>4. Cardinality(Admitted) \in Nat
  BY FS_CardinalityType DEF AdmissionInv
<1>5. SlotsAccounted'
  BY <1>3, <1>4, AdmissionAssumption DEF AdmissionInv, Admit, SlotsAccounted, Gated
<1> QED BY <1>1, <1>3, <1>5 DEF AdmissionInv

LEMMA LeaveKeepsInv ==
    ASSUME AdmissionInv, NEW q \in Queries, Leave(q)
    PROVE  AdmissionInv'
<1> DEFINE left == [query[q] EXCEPT
                 !.pc = IF query[q].result = "reader" THEN "reading" ELSE "idle",
                 !.watchdog = "off"]
<1>0. query' = [query EXCEPT ![q] = left] /\ query[q] \in QueryType
  BY DEF AdmissionInv, Leave
<1>1. query' \in [Queries -> QueryType] /\ free' \in Int
  <2>1. left \in QueryType
    BY <1>0 DEF QueryType
  <2> QED BY <1>0, <2>1 DEF AdmissionInv, Leave, GivenBack
<1>2. Admitted' = Admitted \ {q} /\ q \in Admitted
  BY <1>0 DEF AdmissionInv, Leave, Admitted, QueryType
<1>3. IsFiniteSet(Admitted') /\ Cardinality(Admitted') = Cardinality(Admitted) - 1
  BY <1>2, FS_RemoveElement DEF AdmissionInv
<1>4. Cardinality(Admitted) \in Nat
  BY FS_CardinalityType DEF AdmissionInv
<1>5. SlotsAccounted'
  BY <1>3, <1>4, AdmissionAssumption DEF AdmissionInv, Leave, GivenBack, SlotsAccounted, Gated
<1> QED BY <1>1, <1>3, <1>5 DEF AdmissionInv

LEMMA AdmissionKeeps == AdmissionInv /\ [AdmissionNext]_admissionVars => AdmissionInv'
<1> SUFFICES ASSUME AdmissionInv, [AdmissionNext]_admissionVars PROVE AdmissionInv'
  OBVIOUS
<1>1. CASE UNCHANGED admissionVars
  BY <1>1 DEF AdmissionInv, SlotsAccounted, Gated, Admitted, admissionVars
<1>2. CASE AdmissionNext
  <2>1. PICK q \in Queries : Ask(q) \/ Admit(q) \/ Reject(q) \/ WatchdogFires(q)
                             \/ End(q) \/ Leave(q) \/ ReadAll(q)
    BY <1>2 DEF AdmissionNext
  <2>2. query[q] \in QueryType
    BY DEF AdmissionInv
  <2>3. CASE Ask(q)
    BY <2>2, <2>3, NobodyMoves DEF Ask, NoQuery, QueryType
  <2>4. CASE Reject(q)
    BY <2>2, <2>4, NobodyMoves DEF Reject, NoQuery, QueryType
  <2>5. CASE WatchdogFires(q)
    <3>1. [query[q] EXCEPT !.watchdog = "fired"] \in QueryType
      BY <2>2 DEF QueryType
    <3> QED BY <2>2, <2>5, <3>1, NobodyMoves DEF WatchdogFires, QueryType
  <2>6. CASE End(q)
    <3>1. PICK r \in Endings(q) : query' = [query EXCEPT ![q].pc = "leaving", ![q].result = r]
      BY <2>6 DEF End
    <3>2. [query[q] EXCEPT !.pc = "leaving", !.result = r] \in QueryType
      BY <2>2 DEF QueryType, Endings
    <3>3. query' = [query EXCEPT ![q] = [query[q] EXCEPT !.pc = "leaving", !.result = r]]
      BY <3>1 DEF AdmissionInv
    <3> QED BY <2>2, <2>6, <3>2, <3>3, NobodyMoves DEF End, QueryType
  <2>7. CASE ReadAll(q)
    <3>1. [query[q] EXCEPT !.pc = "idle"] \in QueryType
      BY <2>2 DEF QueryType
    <3> QED BY <2>2, <2>7, <3>1, NobodyMoves DEF ReadAll, QueryType
  <2> QED BY <2>1, <2>3, <2>4, <2>5, <2>6, <2>7, AdmitKeepsInv, LeaveKeepsInv
<1> QED BY <1>1, <1>2

\* However many threads query and however their queries end, no more than
\* Slots of them are between admission and release, and a slot that was taken
\* is given back (limits.py, limited).
THEOREM SlotsAlwaysAccounted == AdmissionSpec => []SlotsAccounted
<1>1. AdmissionInv => SlotsAccounted
  BY DEF AdmissionInv
<1> QED BY <1>1, AdmissionStarts, AdmissionKeeps, PTL DEF AdmissionSpec

-----------------------------------------------------------------------------
(***************************************************************************)
(* Alerts: wherever a pass dies, the log of a dataset that no overlap, no  *)
(* death and no forgotten status has blurred ends with what health_state   *)
(* says.                                                                   *)
(***************************************************************************)
Statuses == {"failing", "overdue", "stale", "unknown", "healthy"}

PassType ==
    [pc : {"idle", "previous", "edges", "event"},
     status : [Monitored -> Statuses \cup {NoStatus}],
     was : [Monitored -> Statuses \cup {NoStatus}],
     todo : SUBSET Monitored, on : SUBSET Monitored]

\* The types the proof needs. A pass that runs has derived every status.
PassesTyped ==
    /\ health \in [Monitored -> Statuses \cup {NoStatus}]
    /\ events \in [Monitored -> Seq(Red \cup {"recovered"})]
    /\ doubt \in [Monitored -> SUBSET {"overlap", "forgotten", "unannounced"}]
    /\ pass \in [Tickers -> PassType]
    /\ \A t \in Tickers : pass[t].pc # "idle" => pass[t].status \in [Monitored -> Statuses]

Announcing(t, d) == pass[t].pc = "event" /\ d \in pass[t].on

\* An event is logged for one dataset, whose state has just been set to it.
OneAtATime ==
    \A t \in Tickers : \A d \in Monitored :
        Announcing(t, d) => /\ pass[t].on = {d}
                            /\ d \notin pass[t].todo
                            /\ Event(pass[t].was[d], pass[t].status[d]) # "none"

\* Without an overlap there is one pass, and what it has read of a dataset
\* it has still to set is what is recorded.
AloneUnlessOverlap ==
    \A d \in Monitored : "overlap" \notin doubt[d] =>
        /\ \A t, u \in Tickers : t # u => pass[t].pc = "idle" \/ pass[u].pc = "idle"
        /\ \A t \in Tickers :
              /\ pass[t].pc \in {"edges", "event"} /\ d \in pass[t].todo => pass[t].was[d] = health[d]
              /\ Announcing(t, d) => health[d] = pass[t].status[d]

\* LogFollowsState of one dataset, also of a status nobody is alerted about.
Follows(d) ==
    /\ health[d] \in Red => LastEvent(d) = health[d]
    /\ health[d] \notin Red => LastEvent(d) \in {"none", "recovered"}

\* It holds in the middle of a pass too, but between a state and its event.
FollowsWhenQuiet ==
    \A d \in Monitored :
        doubt[d] = {} /\ (\A t \in Tickers : ~Announcing(t, d)) => Follows(d)

AlertsInv == PassesTyped /\ OneAtATime /\ AloneUnlessOverlap /\ FollowsWhenQuiet

-----------------------------------------------------------------------------
LEMMA StatusTyped == \A f : Status(f) \in Statuses
BY DEF Status, Statuses

LEMMA NoPassTyped == NoPass \in PassType /\ NoPass.pc = "idle"
BY DEF NoPass, PassType

\* What an event says: a red status itself, a recovery of a healthy one.
LEMMA EventSays ==
    \A was, is : Event(was, is) # "none" =>
        /\ Event(was, is) \in Red \cup {"recovered"}
        /\ is \in Red => Event(was, is) = is
        /\ is \notin Red => Event(was, is) = "recovered"
BY DEF Event, Red

\* What its absence says: the status is not red, and was not or is unknown.
LEMMA NoEventSays ==
    ASSUME NEW was, NEW is \in Statuses, Event(was, is) = "none"
    PROVE  is \notin Red /\ (was \in Red => is = "unknown")
BY DEF Event, Red, Statuses

LEMMA AlertsStart == AlertsInit => AlertsInv
<1> SUFFICES ASSUME AlertsInit PROVE AlertsInv
  OBVIOUS
<1>1. /\ health = [d \in Monitored |-> NoStatus]
      /\ events = [d \in Monitored |-> <<>>]
      /\ pass = [t \in Tickers |-> NoPass]
      /\ doubt = [d \in Monitored |-> {}]
  BY DEF AlertsInit
<1>2. PassesTyped
  BY <1>1, NoPassTyped DEF PassesTyped
<1>3. OneAtATime /\ AloneUnlessOverlap
  BY <1>1, NoPassTyped DEF OneAtATime, AloneUnlessOverlap, Announcing
<1>4. FollowsWhenQuiet
  BY <1>1 DEF FollowsWhenQuiet, Follows, LastEvent, Red, NoStatus
<1> QED BY <1>2, <1>3, <1>4 DEF AlertsInv

\* What changes of a dataset changes nothing recorded.
LEMMA HappenKeeps == ASSUME AlertsInv, NEW d \in Monitored, Happen(d) PROVE AlertsInv'
BY DEF AlertsInv, PassesTyped, OneAtATime, AloneUnlessOverlap, FollowsWhenQuiet, Follows,
       LastEvent, Announcing, Happen

LEMMA DeriveKeeps == ASSUME AlertsInv, NEW t \in Tickers, Derive(t) PROVE AlertsInv'
<1> DEFINE new == [NoPass EXCEPT !.pc = "previous",
                                 !.status = [d \in Monitored |-> Status(facts[d])]]
           busy == \E o \in Tickers \ {t} : pass[o].pc # "idle"
<1>1. /\ pass[t].pc = "idle"
      /\ pass' = [pass EXCEPT ![t] = new]
      /\ doubt' = IF busy THEN [d \in Monitored |-> doubt[d] \cup {"overlap"}] ELSE doubt
      /\ UNCHANGED <<health, events>>
  BY DEF Derive
<1>2. /\ new \in PassType /\ new.pc = "previous" /\ new.status \in [Monitored -> Statuses]
  BY StatusTyped DEF NoPass, PassType
<1> HIDE DEF new
<1>3. /\ pass'[t] = new
      /\ \A u \in Tickers \ {t} : pass'[u] = pass[u]
      /\ \A u \in Tickers, d \in Monitored : ~Announcing(u, d)' <=> ~Announcing(u, d)
  BY <1>1, <1>2 DEF AlertsInv, PassesTyped, Announcing
<1>4. PassesTyped'
  BY <1>1, <1>2, <1>3 DEF AlertsInv, PassesTyped
<1>5. OneAtATime'
  BY <1>1, <1>2, <1>3 DEF AlertsInv, OneAtATime, Announcing
<1>6. AloneUnlessOverlap'
  <2> SUFFICES ASSUME NEW d \in Monitored, "overlap" \notin doubt'[d]
               PROVE  /\ \A v, u \in Tickers :
                            v # u => pass'[v].pc = "idle" \/ pass'[u].pc = "idle"
                      /\ \A v \in Tickers :
                            /\ pass'[v].pc \in {"edges", "event"} /\ d \in pass'[v].todo
                                 => pass'[v].was[d] = health'[d]
                            /\ Announcing(v, d)' => health'[d] = pass'[v].status[d]
    BY DEF AloneUnlessOverlap
  <2>1. ~busy
    BY <1>1
  <2>2. \A u \in Tickers \ {t} : pass'[u].pc = "idle"
    BY <2>1, <1>3
  <2> QED BY <2>2, <1>2, <1>3 DEF Announcing
<1>7. FollowsWhenQuiet'
  <2> SUFFICES ASSUME NEW d \in Monitored, doubt'[d] = {},
                      \A u \in Tickers : ~Announcing(u, d)'
               PROVE  Follows(d)'
    BY DEF FollowsWhenQuiet
  <2>1. doubt[d] = {}
    BY <1>1
  <2>2. Follows(d)
    BY <1>3, <2>1 DEF AlertsInv, FollowsWhenQuiet
  <2> QED BY <2>2, <1>1 DEF Follows, LastEvent
<1> QED BY <1>4, <1>5, <1>6, <1>7 DEF AlertsInv

LEMMA ReadPreviousKeeps == ASSUME AlertsInv, NEW t \in Tickers, ReadPrevious(t) PROVE AlertsInv'
<1> DEFINE new == [pass[t] EXCEPT !.pc = "edges", !.was = health,
                                  !.todo = {d \in Monitored : health[d] # pass[t].status[d]}]
<1>0. PassesTyped /\ pass[t] \in PassType
  BY DEF AlertsInv, PassesTyped
<1>1. /\ pass[t].pc = "previous"
      /\ pass' = [pass EXCEPT ![t] = new]
      /\ UNCHANGED <<health, events, doubt>>
  BY <1>0 DEF ReadPrevious, PassesTyped, PassType
<1>2. /\ new \in PassType /\ new.pc = "edges" /\ new.was = health
      /\ new.status = pass[t].status
  BY <1>0 DEF PassesTyped, PassType
<1> HIDE DEF new
<1>3. /\ pass'[t] = new
      /\ \A u \in Tickers \ {t} : pass'[u] = pass[u]
      /\ \A u \in Tickers, d \in Monitored : Announcing(u, d)' <=> Announcing(u, d)
  BY <1>0, <1>1, <1>2 DEF PassesTyped, Announcing
<1>4. PassesTyped'
  BY <1>0, <1>1, <1>2, <1>3 DEF PassesTyped
<1>5. OneAtATime'
  BY <1>1, <1>2, <1>3 DEF AlertsInv, OneAtATime, Announcing
<1>6. AloneUnlessOverlap'
  BY <1>1, <1>2, <1>3 DEF AlertsInv, AloneUnlessOverlap, Announcing
<1>7. FollowsWhenQuiet'
  BY <1>1, <1>3 DEF AlertsInv, FollowsWhenQuiet, Follows, LastEvent
<1> QED BY <1>4, <1>5, <1>6, <1>7 DEF AlertsInv

\* The one step that unsettles a log: it leaves its event to be added, a
\* status of which nothing need be said, or a forgotten one.
LEMMA SetStateKeeps == ASSUME AlertsInv, NEW t \in Tickers, SetState(t) PROVE AlertsInv'
<1> PICK e \in pass[t].todo :
      LET event == Event(pass[t].was[e], pass[t].status[e])
      IN /\ pass[t].pc = "edges"
         /\ health' = [health EXCEPT ![e] = pass[t].status[e]]
         /\ pass' = [pass EXCEPT ![t].todo = @ \ {e}, ![t].on = {e},
                                 ![t].pc = IF event = "none" THEN "edges" ELSE "event"]
         /\ doubt' = IF pass[t].was[e] \in Red /\ pass[t].status[e] = "unknown"
                     THEN Doubted(e, {"forgotten"}) ELSE doubt
         /\ UNCHANGED <<facts, events, ticks, changes>>
  BY DEF SetState
<1> DEFINE event == Event(pass[t].was[e], pass[t].status[e])
           new == [pass[t] EXCEPT !.todo = @ \ {e}, !.on = {e},
                                  !.pc = IF event = "none" THEN "edges" ELSE "event"]
<1>0. /\ PassesTyped /\ pass[t] \in PassType /\ e \in Monitored
      /\ pass[t].pc = "edges"
      /\ pass[t].status \in [Monitored -> Statuses]
  BY DEF AlertsInv, PassesTyped, PassType
<1>1. /\ health' = [health EXCEPT ![e] = pass[t].status[e]]
      /\ pass' = [pass EXCEPT ![t] = new]
      /\ events' = events
      /\ \A d \in Monitored : doubt[d] \subseteq doubt'[d]
      /\ pass[t].was[e] \in Red /\ pass[t].status[e] = "unknown" => doubt'[e] # {}
      /\ doubt' \in [Monitored -> SUBSET {"overlap", "forgotten", "unannounced"}]
  BY <1>0 DEF PassesTyped, PassType, Doubted
<1>2. /\ new \in PassType /\ new.on = {e} /\ new.todo = pass[t].todo \ {e}
      /\ new.status = pass[t].status /\ new.was = pass[t].was
      /\ new.pc = IF event = "none" THEN "edges" ELSE "event"
  BY <1>0 DEF PassType
<1> HIDE DEF new
<1>3. /\ pass'[t] = new
      /\ \A u \in Tickers \ {t} : pass'[u] = pass[u]
      /\ \A u \in Tickers \ {t}, d \in Monitored : Announcing(u, d)' <=> Announcing(u, d)
      /\ \A d \in Monitored : ~Announcing(t, d)
      /\ \A d \in Monitored : Announcing(t, d)' <=> (d = e /\ event # "none")
      /\ health'[e] = pass[t].status[e]
      /\ \A d \in Monitored \ {e} : health'[d] = health[d]
  BY <1>0, <1>1, <1>2, ZenonT(60) DEF PassesTyped, Announcing
<1>4. PassesTyped'
  BY <1>0, <1>1, <1>2, <1>3 DEF PassesTyped
<1>5. OneAtATime'
  <2> SUFFICES ASSUME NEW u \in Tickers, NEW d \in Monitored, Announcing(u, d)'
               PROVE  /\ pass'[u].on = {d}
                      /\ d \notin pass'[u].todo
                      /\ Event(pass'[u].was[d], pass'[u].status[d]) # "none"
    BY DEF OneAtATime
  <2>1. CASE u = t
    BY <2>1, <1>2, <1>3
  <2>2. CASE u # t
    <3>1. pass'[u] = pass[u] /\ Announcing(u, d)
      BY <2>2, <1>3
    <3> QED BY <3>1 DEF AlertsInv, OneAtATime
  <2> QED BY <2>1, <2>2
<1>6. AloneUnlessOverlap'
  <2> SUFFICES ASSUME NEW d \in Monitored, "overlap" \notin doubt'[d]
               PROVE  /\ \A v, u \in Tickers :
                            v # u => pass'[v].pc = "idle" \/ pass'[u].pc = "idle"
                      /\ \A v \in Tickers :
                            /\ pass'[v].pc \in {"edges", "event"} /\ d \in pass'[v].todo
                                 => pass'[v].was[d] = health'[d]
                            /\ Announcing(v, d)' => health'[d] = pass'[v].status[d]
    BY DEF AloneUnlessOverlap
  <2>1. "overlap" \notin doubt[d]
    BY <1>1
  <2>2. \A u \in Tickers \ {t} : pass'[u].pc = "idle"
    BY <2>1, <1>0, <1>3, ZenonT(60) DEF AlertsInv, AloneUnlessOverlap
  <2>3. d \in pass'[t].todo => pass'[t].was[d] = health'[d]
    BY <2>1, <1>0, <1>2, <1>3 DEF AlertsInv, AloneUnlessOverlap
  <2>4. Announcing(t, d)' => health'[d] = pass'[t].status[d]
    BY <1>2, <1>3
  <2> QED BY <2>2, <2>3, <2>4 DEF Announcing
<1>7. FollowsWhenQuiet'
  <2> SUFFICES ASSUME NEW d \in Monitored, doubt'[d] = {},
                      \A u \in Tickers : ~Announcing(u, d)'
               PROVE  Follows(d)'
    BY DEF FollowsWhenQuiet
  <2>1. doubt[d] = {}
    BY <1>1
  <2>2. Follows(d)
    BY <1>3, <2>1 DEF AlertsInv, FollowsWhenQuiet
  <2>3. CASE d # e
    BY <2>2, <2>3, <1>1, <1>3 DEF Follows, LastEvent
  <2>4. CASE d = e
    <3>1. event = "none"
      BY <1>3, <2>4
    <3>2. /\ pass[t].status[e] \notin Red
          /\ pass[t].was[e] \in Red => pass[t].status[e] = "unknown"
      BY <3>1, <1>0, NoEventSays
    <3>3. pass[t].was[e] = health[e]
      BY <2>1, <2>4, <1>0 DEF AlertsInv, AloneUnlessOverlap
    <3>4. health[e] \notin Red
      BY <3>2, <3>3, <1>1, <2>4
    <3> QED BY <2>2, <2>4, <3>2, <3>4, <1>1, <1>3 DEF Follows, LastEvent
  <2> QED BY <2>3, <2>4
<1> QED BY <1>4, <1>5, <1>6, <1>7 DEF AlertsInv

LEMMA AddEventKeeps == ASSUME AlertsInv, NEW t \in Tickers, AddEvent(t) PROVE AlertsInv'
<1> PICK e \in pass[t].on :
      /\ pass[t].pc = "event"
      /\ events' = [events EXCEPT ![e] = Append(@, Event(pass[t].was[e], pass[t].status[e]))]
      /\ pass' = [pass EXCEPT ![t].pc = "edges"]
      /\ doubt' = [doubt EXCEPT ![e] = @ \cap {"overlap"}]
      /\ UNCHANGED <<facts, health, ticks, changes>>
  BY DEF AddEvent
<1> DEFINE event == Event(pass[t].was[e], pass[t].status[e])
           new == [pass[t] EXCEPT !.pc = "edges"]
<1>0. /\ PassesTyped /\ pass[t] \in PassType /\ e \in Monitored
      /\ Announcing(t, e) /\ pass[t].on = {e} /\ event # "none"
  BY DEF AlertsInv, PassesTyped, PassType, Announcing, OneAtATime
<1>1. event \in Red \cup {"recovered"}
  BY <1>0, EventSays
<1>2. /\ events' = [events EXCEPT ![e] = Append(@, event)]
      /\ pass' = [pass EXCEPT ![t] = new]
      /\ health' = health
      /\ \A d \in Monitored \ {e} : doubt'[d] = doubt[d] /\ events'[d] = events[d]
      /\ \A d \in Monitored : "overlap" \in doubt'[d] <=> "overlap" \in doubt[d]
      /\ doubt' \in [Monitored -> SUBSET {"overlap", "forgotten", "unannounced"}]
  BY <1>0 DEF PassesTyped, PassType
<1>3. /\ new \in PassType /\ new.pc = "edges"
      /\ new.status = pass[t].status /\ new.was = pass[t].was /\ new.todo = pass[t].todo
  BY <1>0 DEF PassType
<1> HIDE DEF event, new
<1>4. /\ pass'[t] = new
      /\ \A u \in Tickers \ {t} : pass'[u] = pass[u]
      /\ \A u \in Tickers \ {t}, d \in Monitored : Announcing(u, d)' <=> Announcing(u, d)
      /\ \A d \in Monitored : ~Announcing(t, d)'
  BY <1>0, <1>2, <1>3 DEF PassesTyped, Announcing
<1>5. events'[e] # <<>> /\ events'[e][Len(events'[e])] = event
  <2>1. events[e] \in Seq(Red \cup {"recovered"}) /\ events'[e] = Append(events[e], event)
    BY <1>0, <1>2 DEF PassesTyped
  <2> QED BY <2>1, <1>1
<1>6. PassesTyped'
  <2>1. events' \in [Monitored -> Seq(Red \cup {"recovered"})]
    BY <1>0, <1>1, <1>2 DEF PassesTyped
  <2>2. pass[t].status \in [Monitored -> Statuses]
    BY <1>0 DEF PassesTyped, Announcing
  <2>3. /\ pass' \in [Tickers -> PassType]
        /\ \A u \in Tickers : pass'[u].pc # "idle" => pass'[u].status \in [Monitored -> Statuses]
    <3>1. pass' \in [Tickers -> PassType]
      BY <1>0, <1>2, <1>3 DEF PassesTyped
    <3> SUFFICES ASSUME NEW u \in Tickers, pass'[u].pc # "idle"
                 PROVE  pass'[u].status \in [Monitored -> Statuses]
      BY <3>1
    <3>2. CASE u = t
      BY <3>2, <2>2, <1>3, <1>4
    <3>3. CASE u # t
      <4>1. pass'[u] = pass[u]
        BY <3>3, <1>4
      <4> QED BY <4>1, <1>0 DEF PassesTyped
    <3> QED BY <3>2, <3>3
  <2> QED BY <2>1, <2>3, <1>0, <1>2 DEF PassesTyped
<1>7. OneAtATime'
  BY <1>4 DEF AlertsInv, OneAtATime
<1>8. AloneUnlessOverlap'
  BY <1>0, <1>2, <1>3, <1>4 DEF AlertsInv, AloneUnlessOverlap, Announcing
<1>9. FollowsWhenQuiet'
  <2> SUFFICES ASSUME NEW d \in Monitored, doubt'[d] = {},
                      \A u \in Tickers : ~Announcing(u, d)'
               PROVE  Follows(d)'
    BY DEF FollowsWhenQuiet
  <2>1. CASE d # e
    <3>1. doubt[d] = {} /\ \A u \in Tickers : ~Announcing(u, d)
      BY <2>1, <1>0, <1>2, <1>4 DEF Announcing
    <3>2. Follows(d)
      BY <3>1 DEF AlertsInv, FollowsWhenQuiet
    <3> QED BY <2>1, <3>2, <1>2 DEF Follows, LastEvent
  <2>2. CASE d = e
    <3>1. health[e] = pass[t].status[e]
      BY <2>2, <1>0, <1>2 DEF AlertsInv, AloneUnlessOverlap
    <3>2. /\ health[e] \in Red => event = health[e]
          /\ health[e] \notin Red => event = "recovered"
      BY <3>1, <1>0, EventSays DEF event
    <3> QED BY <2>2, <3>2, <1>2, <1>5 DEF Follows, LastEvent
  <2> QED BY <2>1, <2>2
<1> QED BY <1>6, <1>7, <1>8, <1>9 DEF AlertsInv

LEMMA FinishKeeps == ASSUME AlertsInv, NEW t \in Tickers, Finish(t) PROVE AlertsInv'
<1>1. /\ pass[t].pc = "edges" /\ pass' = [pass EXCEPT ![t] = NoPass]
      /\ UNCHANGED <<health, events, doubt>>
  BY DEF Finish
<1>2. /\ pass'[t] = NoPass
      /\ \A u \in Tickers \ {t} : pass'[u] = pass[u]
      /\ \A u \in Tickers, d \in Monitored : Announcing(u, d)' <=> Announcing(u, d)
  BY <1>1, NoPassTyped DEF AlertsInv, PassesTyped, Announcing
<1>3. PassesTyped'
  BY <1>1, <1>2, NoPassTyped DEF AlertsInv, PassesTyped
<1>4. OneAtATime'
  BY <1>2, NoPassTyped DEF AlertsInv, OneAtATime, Announcing
<1>5. AloneUnlessOverlap'
  BY <1>1, <1>2, NoPassTyped DEF AlertsInv, AloneUnlessOverlap, Announcing
<1>6. FollowsWhenQuiet'
  BY <1>1, <1>2 DEF AlertsInv, FollowsWhenQuiet, Follows, LastEvent
<1> QED BY <1>3, <1>4, <1>5, <1>6 DEF AlertsInv

\* A pass that dies between a state and its event leaves the log in doubt.
LEMMA AbortKeeps == ASSUME AlertsInv, NEW t \in Tickers, Abort(t) PROVE AlertsInv'
<1>1. /\ pass' = [pass EXCEPT ![t] = NoPass]
      /\ UNCHANGED <<health, events>>
      /\ doubt' = IF pass[t].pc = "event"
                  THEN [d \in Monitored |->
                          IF d \in pass[t].on THEN doubt[d] \cup {"unannounced"} ELSE doubt[d]]
                  ELSE doubt
  BY DEF Abort
<1>2. /\ \A d \in Monitored : Announcing(t, d) => doubt'[d] # {}
      /\ \A d \in Monitored : doubt[d] \subseteq doubt'[d]
      /\ doubt' \in [Monitored -> SUBSET {"overlap", "forgotten", "unannounced"}]
  BY <1>1 DEF AlertsInv, PassesTyped, Announcing
<1>3. /\ pass'[t] = NoPass
      /\ \A u \in Tickers \ {t} : pass'[u] = pass[u]
      /\ \A u \in Tickers \ {t}, d \in Monitored : Announcing(u, d)' <=> Announcing(u, d)
  BY <1>1, NoPassTyped DEF AlertsInv, PassesTyped, Announcing
<1>4. PassesTyped'
  BY <1>1, <1>2, <1>3, NoPassTyped DEF AlertsInv, PassesTyped
<1>5. OneAtATime'
  BY <1>3, NoPassTyped DEF AlertsInv, OneAtATime, Announcing
<1>6. AloneUnlessOverlap'
  BY <1>1, <1>2, <1>3, NoPassTyped DEF AlertsInv, AloneUnlessOverlap, Announcing
<1>7. FollowsWhenQuiet'
  <2> SUFFICES ASSUME NEW d \in Monitored, doubt'[d] = {},
                      \A u \in Tickers : ~Announcing(u, d)'
               PROVE  Follows(d)'
    BY DEF FollowsWhenQuiet
  <2>1. doubt[d] = {} /\ \A u \in Tickers : ~Announcing(u, d)
    BY <1>2, <1>3
  <2>2. Follows(d)
    BY <2>1 DEF AlertsInv, FollowsWhenQuiet
  <2> QED BY <2>2, <1>1 DEF Follows, LastEvent
<1> QED BY <1>4, <1>5, <1>6, <1>7 DEF AlertsInv

-----------------------------------------------------------------------------
(* Whoever reads the log of health events knows what is red: for any       *)
(* datasets and replicas, whatever happens to the data and wherever a pass *)
(* dies, an undoubted log ends with the state recorded.                    *)
THEOREM LogAlwaysFollows == AlertsSpec => []LogFollowsState
<1>1. AlertsInv /\ [AlertsNext]_alertVars => AlertsInv'
  <2> SUFFICES ASSUME AlertsInv, [AlertsNext]_alertVars PROVE AlertsInv'
    OBVIOUS
  <2>1. ASSUME NEW d \in Monitored, Happen(d) PROVE AlertsInv'
    BY <2>1, HappenKeeps
  <2>2. ASSUME NEW t \in Tickers, Derive(t) PROVE AlertsInv'
    BY <2>2, DeriveKeeps
  <2>3. ASSUME NEW t \in Tickers, ReadPrevious(t) PROVE AlertsInv'
    BY <2>3, ReadPreviousKeeps
  <2>4. ASSUME NEW t \in Tickers, SetState(t) PROVE AlertsInv'
    BY <2>4, SetStateKeeps
  <2>5. ASSUME NEW t \in Tickers, AddEvent(t) PROVE AlertsInv'
    BY <2>5, AddEventKeeps
  <2>6. ASSUME NEW t \in Tickers, Finish(t) PROVE AlertsInv'
    BY <2>6, FinishKeeps
  <2>7. ASSUME NEW t \in Tickers, Abort(t) PROVE AlertsInv'
    BY <2>7, AbortKeeps
  <2>8. CASE UNCHANGED alertVars
    BY <2>8 DEF AlertsInv, PassesTyped, OneAtATime, AloneUnlessOverlap, FollowsWhenQuiet,
                Follows, LastEvent, Announcing, alertVars
  <2> QED BY <2>1, <2>2, <2>3, <2>4, <2>5, <2>6, <2>7, <2>8 DEF AlertsNext
<1>2. AlertsInv => LogFollowsState
  BY DEF AlertsInv, FollowsWhenQuiet, Follows, LogFollowsState, Announcing, Red
<1> QED BY <1>1, <1>2, AlertsStart, PTL DEF AlertsSpec

(***************************************************************************)
(* Connectors.                                                             *)
(***************************************************************************)
SourceRows == [exists : BOOLEAN, target : SyncTargets, mode : {"append", "replace"},
               cursor : 0..MaxRow]
SyncFrames == [pc : {"idle", "read", "pull", "write", "record"}, source : SourceRows,
               follows : BOOLEAN, base : Seq(1..MaxRow), rows : Seq(1..MaxRow), cursor : 0..MaxRow]

Distinct(rows) == \A i, j \in DOMAIN rows : i # j => rows[i] # rows[j]
Ordered == \A v, w \in 1..MaxRow : v < w <=> rank[v] < rank[w]

ConnectorsTyped ==
    /\ rank \in TextRanks /\ top \in 0..MaxRow
    /\ source \in SourceRows
    /\ stored \in [SyncTargets -> Seq(1..MaxRow)]
    /\ sync \in [Syncs -> SyncFrames]
    /\ syncs \in Nat

\* No mark is above what the table has.
MarksAreSeen ==
    /\ source.cursor <= top
    /\ \A s \in Syncs : sync[s].source.cursor <= top /\ sync[s].cursor <= top

\* Until the first sync there is nothing that a redefinition could lead astray.
BeforeAnySync ==
    syncs = 0 => /\ source.cursor = 0 /\ Running = {}
                 /\ \A d \in SyncTargets : stored[d] = <<>>

\* What a sync has in hand, up to its cursor, joins what is there.
Joins(f, src, rows) ==
    f.pc # "idle" =>
        /\ src.exists /\ f.source.target = src.target /\ f.source.mode = src.mode
        /\ src.mode = "append" => 1..f.source.cursor \subseteq Held(rows)
        /\ src.mode = "replace" => f.cursor = 0
        /\ f.pc = "write" => 1..f.cursor \subseteq (1..f.source.cursor) \cup Held(f.rows)
        /\ f.pc = "record" => 1..f.cursor \subseteq Held(rows)

NothingSkipped ==
    "redefined" \notin disturbed /\ "dropped" \notin disturbed =>
        /\ 1..source.cursor \subseteq Held(stored[source.target])
        /\ source.mode = "replace" => source.cursor = 0
        /\ \A s \in Syncs : Joins(sync[s], source, stored[source.target])

\* The mark that a sync will leave.
Tip(f, src) == IF f.cursor = 0 THEN src.cursor ELSE f.cursor

\* What a sync has in hand is above the mark there is, up to the one to come.
IsNew(f, src, rows) ==
    f.pc # "idle" =>
        /\ f.source.cursor = src.cursor
        /\ f.pc = "write" =>
              /\ src.cursor <= Tip(f, src) /\ Distinct(f.rows)
              /\ \A r \in Held(f.rows) : src.cursor < r /\ r <= Tip(f, src)
        /\ f.pc = "record" => \A r \in Held(rows) : r <= Tip(f, src)

NothingTwice ==
    disturbed = {} =>
        /\ \A s, t \in Running : s = t
        /\ source.mode = "append" /\ Ordered =>
              /\ Distinct(stored[source.target])
              /\ (\A s \in Syncs : sync[s].pc # "record") =>
                    \A r \in Held(stored[source.target]) : r <= source.cursor
              /\ \A s \in Syncs : IsNew(sync[s], source, stored[source.target])

\* One at a time, syncs add to the version there is, and drop nothing of it.
OneByOne ==
    /\ \A d \in SyncTargets : d \notin published => stored[d] = <<>>
    /\ "overlap" \notin disturbed =>
          /\ "dropped" \notin disturbed
          /\ \A s, t \in Running : s = t
          /\ \A s \in Syncs :
                sync[s].pc \in {"pull", "write"} /\ sync[s].source.mode = "append" =>
                    sync[s].base = stored[sync[s].source.target]

ConnectorsInv ==
    /\ ConnectorsTyped /\ MarksAreSeen /\ BeforeAnySync
    /\ OneByOne /\ NothingSkipped /\ NothingTwice

LEMMA NoSourceTyped == NoSource \in SourceRows /\ NoSync \in SyncFrames
<1>1. (CHOOSE d \in SyncTargets : TRUE) \in SyncTargets
  BY ConnectorsAssumption
<1>2. 0 \in 0..MaxRow
  BY ConnectorsAssumption
<1>3. NoSource \in SourceRows
  BY <1>1, <1>2 DEF NoSource, SourceRows
<1> QED BY <1>2, <1>3 DEF NoSync, SyncFrames

LEMMA ConnectorsStart == ConnectorsInit => ConnectorsInv
<1> SUFFICES ASSUME ConnectorsInit PROVE ConnectorsInv
  OBVIOUS
<1>1. /\ \A s \in Syncs : sync[s] = NoSync
      /\ NoSync.pc = "idle" /\ NoSync.source = NoSource /\ NoSource.cursor = 0
      /\ NoSource.target \in SyncTargets /\ NoSource.mode = "append"
  BY NoSourceTyped DEF ConnectorsInit, NoSync, NoSource, SourceRows
<1>2. ConnectorsTyped
  BY NoSourceTyped, ConnectorsAssumption DEF ConnectorsInit, ConnectorsTyped
<1>3. stored[source.target] = <<>> /\ Held(<<>>) = {}
  BY <1>1 DEF ConnectorsInit, Held
<1>4. Running = {}
  BY <1>1 DEF Running
<1>5. /\ source.cursor = 0 /\ source.mode = "append" /\ top = 0
      /\ \A s \in Syncs : /\ sync[s].pc = "idle" /\ sync[s].source.cursor = 0
                         /\ sync[s].cursor = 0
      /\ \A d \in SyncTargets : stored[d] = <<>>
  BY <1>1 DEF ConnectorsInit, NoSync
<1>6. MarksAreSeen /\ BeforeAnySync /\ Distinct(<<>>)
  BY <1>4, <1>5 DEF MarksAreSeen, BeforeAnySync, Distinct
<1>9. OneByOne
  BY <1>4, <1>5 DEF ConnectorsInit, OneByOne
<1>7. NothingSkipped
  BY <1>3, <1>5 DEF NothingSkipped, Joins
<1>8. NothingTwice
  BY <1>3, <1>4, <1>5, <1>6 DEF NothingTwice, IsNew
<1> QED BY <1>2, <1>6, <1>7, <1>8, <1>9 DEF ConnectorsInv

LEMMA HeldTyped == \A s \in Seq(1..MaxRow) : \A x \in Held(s) : x \in 1..MaxRow
<1> DEFINE S == 1..MaxRow
<1> HIDE DEF S
<1>1. \A s \in Seq(S), i \in Nat : i \in DOMAIN s => s[i] \in S
  OBVIOUS
<1>2. \A s \in Seq(S) : DOMAIN s \subseteq Nat
  OBVIOUS
<1> QED BY <1>1, <1>2 DEF Held, S

\* Appending rows to rows.
LEMMA HeldJoin ==
    ASSUME NEW s \in Seq(1..MaxRow), NEW t \in Seq(1..MaxRow)
    PROVE  /\ s \o t \in Seq(1..MaxRow)
           /\ Held(s \o t) = Held(s) \cup Held(t)
           /\ Distinct(s) /\ Distinct(t) /\ (\A r \in Held(s), q \in Held(t) : r < q) =>
                 Distinct(s \o t)
<1> DEFINE u == s \o t
           S(i) == i \in 1..Len(s)
<1>1. /\ DOMAIN s = 1..Len(s) /\ DOMAIN t = 1..Len(t) /\ DOMAIN u = 1..(Len(s) + Len(t))
      /\ Len(s) \in Nat /\ Len(t) \in Nat
      /\ \A i \in 1..Len(s) : u[i] = s[i]
      /\ \A i \in 1..Len(t) : u[Len(s) + i] = t[i]
      /\ \A i \in 1..(Len(s) + Len(t)) : i \notin 1..Len(s) => i - Len(s) \in 1..Len(t) /\ u[i] = t[i - Len(s)]
  OBVIOUS
<1>2. \A i \in 1..Len(s) : i \in 1..(Len(s) + Len(t))
  BY <1>1
<1>3. \A i \in 1..Len(t) : Len(s) + i \in 1..(Len(s) + Len(t))
  BY <1>1
<1> HIDE DEF u
<1>4. Held(u) = Held(s) \cup Held(t)
  <2>1. ASSUME NEW x \in Held(u) PROVE x \in Held(s) \cup Held(t)
    <3>1. PICK i \in 1..(Len(s) + Len(t)) : x = u[i]
      BY <1>1, <2>1 DEF Held
    <3>2. CASE S(i)
      <4>1. x = s[i]
        BY <1>1, <3>1, <3>2
      <4> QED BY <1>1, <3>2, <4>1 DEF Held
    <3>3. CASE ~S(i)
      <4>1. x = t[i - Len(s)] /\ i - Len(s) \in 1..Len(t)
        BY <1>1, <3>1, <3>3
      <4> QED BY <1>1, <4>1 DEF Held
    <3> QED BY <3>2, <3>3
  <2>2. ASSUME NEW x \in Held(s) PROVE x \in Held(u)
    BY <1>1, <1>2, <2>2 DEF Held
  <2>3. ASSUME NEW x \in Held(t) PROVE x \in Held(u)
    <3>1. PICK i \in 1..Len(t) : x = t[i]
      BY <1>1, <2>3 DEF Held
    <3>2. x = u[Len(s) + i] /\ Len(s) + i \in DOMAIN u
      BY <1>1, <1>3, <3>1
    <3> QED BY <3>2 DEF Held
  <2> QED BY <2>1, <2>2, <2>3
<1>6. /\ \A x \in Held(s) : x \in 1..MaxRow
      /\ \A x \in Held(t) : x \in 1..MaxRow
  <2> QED BY HeldTyped
<1>5. ASSUME Distinct(s), Distinct(t), \A r \in Held(s), q \in Held(t) : r < q
      PROVE  Distinct(u)
  <2> SUFFICES ASSUME NEW i \in DOMAIN u, NEW j \in DOMAIN u, i # j PROVE u[i] # u[j]
    BY DEF Distinct
  <2>0. \A r \in 1..MaxRow, q \in 1..MaxRow : r < q => r # q
    OBVIOUS
  <2>1. CASE S(i) /\ S(j)
    BY <1>1, <1>5, <2>1 DEF Distinct
  <2>2. CASE ~S(i) /\ ~S(j)
    <3>1. i - Len(s) \in 1..Len(t) /\ j - Len(s) \in 1..Len(t) /\ i - Len(s) # j - Len(s)
      BY <1>1, <2>2
    <3>2. u[i] = t[i - Len(s)] /\ u[j] = t[j - Len(s)]
      BY <1>1, <2>2
    <3> QED BY <1>1, <1>5, <3>1, <3>2 DEF Distinct
  <2>3. CASE S(i) /\ ~S(j)
    <3>1. u[i] \in Held(s) /\ u[j] \in Held(t)
      BY <1>1, <2>3 DEF Held
    <3>2. u[i] < u[j] /\ u[i] \in 1..MaxRow /\ u[j] \in 1..MaxRow
      BY <1>5, <1>6, <3>1
    <3> QED BY <2>0, <3>2
  <2>4. CASE ~S(i) /\ S(j)
    <3>1. u[j] \in Held(s) /\ u[i] \in Held(t)
      BY <1>1, <2>4 DEF Held
    <3>2. u[j] < u[i] /\ u[i] \in 1..MaxRow /\ u[j] \in 1..MaxRow
      BY <1>5, <1>6, <3>1
    <3> QED BY <2>0, <3>2
  <2> QED BY <2>1, <2>2, <2>3, <2>4
<1>7. u \in Seq(1..MaxRow)
  <2> DEFINE R == 1..MaxRow
  <2> HIDE DEF R
  <2>1. \A v, w \in Seq(R) : v \o w \in Seq(R)
    OBVIOUS
  <2> QED BY <2>1 DEF R, u
<1> QED BY <1>4, <1>5, <1>7 DEF u

\* The ranks of the values have a bound ...
LEMMA RanksAreBounded ==
    ASSUME NEW r \in [1..MaxRow -> Nat]
    PROVE  \E N \in Nat : \A v \in 1..MaxRow : r[v] <= N
<1> DEFINE T == {n \in Nat : n <= MaxRow => \E N \in Nat : \A v \in 1..n : r[v] <= N}
<1>1. 0 \in T
  OBVIOUS
<1>2. ASSUME NEW n \in Nat, n \in T PROVE n + 1 \in T
  <2> SUFFICES ASSUME n + 1 <= MaxRow PROVE \E N \in Nat : \A v \in 1..(n + 1) : r[v] <= N
    OBVIOUS
  <2>1. PICK N \in Nat : \A v \in 1..n : r[v] <= N
    BY <1>2, ConnectorsAssumption
  <2>2. r[n + 1] \in Nat
    BY ConnectorsAssumption
  <2>3. PICK M \in Nat : M >= N /\ M >= r[n + 1]
    BY <2>2
  <2>4. \A v \in 1..(n + 1) : v \in 1..n \/ v = n + 1
    OBVIOUS
  <2>5. \A v \in 1..(n + 1) : r[v] <= M
    <3> SUFFICES ASSUME NEW v \in 1..(n + 1) PROVE r[v] <= M
      OBVIOUS
    <3>1. r[v] \in Nat
      BY ConnectorsAssumption
    <3> QED BY <2>1, <2>2, <2>3, <2>4, <3>1
  <2> QED BY <2>5
<1> HIDE DEF T
<1>3. Nat \subseteq T
  BY <1>1, <1>2, Induct
<1>4. MaxRow \in T /\ MaxRow <= MaxRow
  BY <1>3, ConnectorsAssumption
<1> QED BY <1>4 DEF T

\* ... so that one of some values comes last as text.
LEMMA TextMaxIsOne ==
    ASSUME rank \in TextRanks, NEW values, values \subseteq 1..MaxRow, values # {}
    PROVE  TextMax(values) \in values /\ \A o \in values : rank[o] <= rank[TextMax(values)]
<1>1. rank \in [1..MaxRow -> Nat]
  BY ConnectorsAssumption
<1>2. PICK N \in Nat : \A v \in 1..MaxRow : rank[v] <= N
  BY <1>1, RanksAreBounded
<1> DEFINE R == {rank[v] : v \in values}
<1>3. R \subseteq 0..N /\ R # {}
  <2>1. ASSUME NEW v \in values PROVE rank[v] \in 0..N
    <3>1. rank[v] \in Nat /\ rank[v] <= N
      BY <1>1, <1>2
    <3> QED BY <3>1
  <2> QED BY <2>1
<1>6. \A v \in values : rank[v] \in R
  OBVIOUS
<1>4. PICK x \in R : \A y \in R : y <= x
  BY <1>3, GreatestMember
<1>5. \E v \in values : \A o \in values : rank[o] <= rank[v]
  BY <1>4, <1>6
<1> QED BY <1>5 DEF TextMax

\* The rows of a pull: what is above some mark.
LEMMA HeldPulled ==
    ASSUME NEW c \in 0..MaxRow, NEW n \in 0..MaxRow, c <= n
    PROVE  LET rows == [i \in 1..(n - c) |-> c + i]
           IN  rows \in Seq(1..MaxRow) /\ Held(rows) = (c + 1)..n /\ Distinct(rows)
<1> DEFINE rows == [i \in 1..(n - c) |-> c + i]
<1>1. n - c \in Nat
  BY ConnectorsAssumption
<1>2. \A i \in 1..(n - c) : c + i \in 1..MaxRow /\ c + i \in (c + 1)..n
  BY ConnectorsAssumption
<1>3. rows \in Seq(1..MaxRow)
  BY <1>1, <1>2
<1>4. DOMAIN rows = 1..(n - c) /\ \A i \in 1..(n - c) : rows[i] = c + i
  OBVIOUS
<1> HIDE DEF rows
<1>5. \A x \in (c + 1)..n : x - c \in 1..(n - c) /\ c + (x - c) = x
  BY ConnectorsAssumption
<1>6. Held(rows) \subseteq (c + 1)..n
  BY <1>2, <1>4 DEF Held
<1>7. (c + 1)..n \subseteq Held(rows)
  <2> SUFFICES ASSUME NEW x \in (c + 1)..n PROVE x \in Held(rows)
    OBVIOUS
  <2>1. x - c \in DOMAIN rows /\ rows[x - c] = x
    BY <1>4, <1>5
  <2> QED BY <2>1 DEF Held
<1>8. Distinct(rows)
  <2> SUFFICES ASSUME NEW i \in 1..(n - c), NEW j \in 1..(n - c), i # j PROVE c + i # c + j
    BY <1>4 DEF Distinct
  <2> QED OBVIOUS
<1> QED BY <1>3, <1>6, <1>7, <1>8 DEF rows

\* A step that changes one sync.
LEMMA OneSyncMoves ==
    ASSUME ConnectorsTyped, NEW s \in Syncs, NEW f \in SyncFrames, sync' = [sync EXCEPT ![s] = f]
    PROVE  /\ sync' \in [Syncs -> SyncFrames] /\ sync'[s] = f
           /\ \A t \in Syncs : t # s => sync'[t] = sync[t]
           /\ Running' = IF f.pc = "idle" THEN Running \ {s} ELSE Running \cup {s}
<1>1. /\ sync' \in [Syncs -> SyncFrames] /\ sync'[s] = f
      /\ \A t \in Syncs : t # s => sync'[t] = sync[t]
  BY DEF ConnectorsTyped
<1> QED BY <1>1 DEF Running

LEMMA InsertRowKeeps == ConnectorsInv /\ InsertRow => ConnectorsInv'
<1> SUFFICES ASSUME ConnectorsInv, InsertRow PROVE ConnectorsInv'
  OBVIOUS
<1> USE DEF ConnectorsInv, InsertRow
<1>1. ConnectorsTyped'
  BY ConnectorsAssumption DEF ConnectorsTyped
<1>2. MarksAreSeen'
  <2>1. /\ source.cursor \in 0..MaxRow
        /\ \A s \in Syncs : sync[s].source.cursor \in 0..MaxRow /\ sync[s].cursor \in 0..MaxRow
    BY DEF ConnectorsTyped, SourceRows, SyncFrames
  <2> QED BY <2>1, ConnectorsAssumption DEF MarksAreSeen, ConnectorsTyped
<1>3. BeforeAnySync' /\ NothingSkipped' /\ NothingTwice' /\ OneByOne'
  BY DEF BeforeAnySync, NothingSkipped, NothingTwice, OneByOne, Running, Ordered
<1> QED BY <1>1, <1>2, <1>3

\* A row of sources is put or deleted: before any sync, or with nothing changed, or after which
\* nothing is promised.
LEMMA SourceChanges ==
    ASSUME ConnectorsInv, NEW row \in SourceRows, source' = row,
           row.cursor = source.cursor \/ row.cursor = 0,
           UNCHANGED <<rank, top, stored, published, sync, syncs>>,
           disturbed \subseteq disturbed', disturbed' \subseteq disturbed \cup {"redefined"},
           \/ "redefined" \in disturbed'
           \/ syncs = 0
           \/ /\ row.target = source.target /\ row.mode = source.mode
              /\ row.cursor = source.cursor /\ Running = {}
    PROVE  ConnectorsInv'
<1> USE DEF ConnectorsInv
<1>1. ConnectorsTyped'
  BY DEF ConnectorsTyped
<1>2. MarksAreSeen'
  BY ConnectorsAssumption DEF MarksAreSeen, ConnectorsTyped
<1>3. BeforeAnySync' /\ Running' = Running /\ Ordered' = Ordered
  BY DEF BeforeAnySync, Running, Ordered
<1>7. OneByOne'
  BY <1>3 DEF OneByOne
<1>4. CASE "redefined" \in disturbed'
  BY <1>1, <1>2, <1>3, <1>4, <1>7 DEF NothingSkipped, NothingTwice
<1>5. CASE syncs = 0
  <2>1. /\ row.cursor = 0 /\ row.target \in SyncTargets /\ stored[row.target] = <<>>
        /\ \A s \in Syncs : sync[s].pc = "idle"
    BY <1>5 DEF BeforeAnySync, Running, SourceRows
  <2>2. Held(<<>>) = {} /\ Distinct(<<>>)
    BY DEF Held, Distinct
  <2>3. NothingSkipped'
    BY <2>1, <2>2 DEF NothingSkipped, Joins
  <2>4. NothingTwice'
    BY <1>3, <1>5, <2>1, <2>2 DEF NothingTwice, IsNew, BeforeAnySync
  <2> QED BY <1>1, <1>2, <1>3, <1>7, <2>3, <2>4
<1>6. CASE /\ row.target = source.target /\ row.mode = source.mode
           /\ row.cursor = source.cursor /\ Running = {}
  <2>1. \A s \in Syncs : sync[s].pc = "idle"
    BY <1>6 DEF Running
  <2>2. NothingSkipped'
    BY <1>6, <2>1 DEF NothingSkipped, Joins
  <2>3. NothingTwice'
    BY <1>3, <1>6, <2>1 DEF NothingTwice, IsNew
  <2> QED BY <1>1, <1>2, <1>3, <1>7, <2>2, <2>3
<1> QED BY <1>4, <1>5, <1>6

LEMMA PutSourceKeeps == ConnectorsInv /\ PutSource => ConnectorsInv'
<1> SUFFICES ASSUME ConnectorsInv,
                    NEW target \in SyncTargets, NEW mode \in {"append", "replace"},
                    source' = [exists |-> TRUE, target |-> target, mode |-> mode,
                               cursor |-> source.cursor],
                    disturbed' = disturbed \cup
                        (IF syncs > 0 /\ Redirected(target, mode) THEN {"redefined"} ELSE {}),
                    UNCHANGED <<rank, top, stored, published, sync, syncs>>
             PROVE  ConnectorsInv'
  BY DEF PutSource
<1> DEFINE row == [exists |-> TRUE, target |-> target, mode |-> mode, cursor |-> source.cursor]
<1>1. source.cursor \in 0..MaxRow
  BY DEF ConnectorsInv, ConnectorsTyped, SourceRows
<1>2. /\ row \in SourceRows /\ source' = row
      /\ row.target = target /\ row.mode = mode /\ row.cursor = source.cursor
  BY <1>1 DEF SourceRows
<1>3. syncs \in Nat
  BY DEF ConnectorsInv, ConnectorsTyped
<1>4. \/ "redefined" \in disturbed'
      \/ syncs = 0
      \/ target = source.target /\ mode = source.mode /\ Running = {}
  BY <1>3 DEF Redirected
<1> HIDE DEF row
<1> QED BY <1>2, <1>4, SourceChanges

LEMMA DeleteSourceKeeps == ConnectorsInv /\ DeleteSource => ConnectorsInv'
<1> SUFFICES ASSUME ConnectorsInv, DeleteSource PROVE ConnectorsInv'
  OBVIOUS
<1>1. syncs \in Nat /\ NoSource.cursor = 0
  BY DEF ConnectorsInv, ConnectorsTyped, NoSource
<1>2. syncs = 0 \/ "redefined" \in disturbed'
  BY <1>1 DEF DeleteSource
<1> QED BY <1>1, <1>2, NoSourceTyped, SourceChanges DEF DeleteSource

LEMMA BeginKeeps == ASSUME ConnectorsInv, NEW s \in Syncs, Begin(s) PROVE ConnectorsInv'
<1> USE DEF ConnectorsInv
<1> DEFINE f == [NoSync EXCEPT !.pc = "read", !.source = source]
<1>1. /\ f \in SyncFrames /\ f.pc = "read" /\ f.source = source /\ f.cursor = 0
      /\ f.source.cursor = source.cursor
  BY NoSourceTyped DEF ConnectorsTyped, SyncFrames, NoSync
<1>2. sync' = [sync EXCEPT ![s] = f] /\ syncs' = syncs + 1
      /\ UNCHANGED <<rank, top, source, stored, published>>
  BY DEF Begin
<1> HIDE DEF f
<1>3. /\ sync' \in [Syncs -> SyncFrames] /\ sync'[s] = f
      /\ \A t \in Syncs : t # s => sync'[t] = sync[t]
      /\ Running' = Running \cup {s}
  BY <1>1, <1>2, OneSyncMoves
<1>4. ConnectorsTyped' /\ BeforeAnySync' /\ Ordered' = Ordered
  BY <1>2, <1>3 DEF ConnectorsTyped, BeforeAnySync, Ordered
<1>5. MarksAreSeen'
  <2>1. top \in Nat
    BY ConnectorsAssumption DEF ConnectorsTyped
  <2> QED BY <1>1, <1>2, <1>3, <2>1 DEF MarksAreSeen
<1>6. NothingSkipped'
  <2> SUFFICES ASSUME "redefined" \notin disturbed', "dropped" \notin disturbed' PROVE NothingSkipped'
    BY DEF NothingSkipped
  <2>1. "redefined" \notin disturbed /\ "dropped" \notin disturbed /\ source.exists
    BY DEF Begin
  <2>2. Joins(f, source, stored[source.target])
    BY <1>1, <2>1 DEF Joins, NothingSkipped
  <2> QED BY <1>2, <1>3, <2>1, <2>2 DEF NothingSkipped
<1>7. NothingTwice'
  <2> SUFFICES ASSUME disturbed' = {} PROVE NothingTwice'
    BY DEF NothingTwice
  <2>1. Running = {} /\ disturbed = {}
    BY DEF Begin
  <2>2. Running' = {s} /\ (\A t \in Syncs : t # s => sync[t].pc = "idle")
        /\ (\A t \in Syncs : sync[t].pc # "record") /\ (\A t \in Syncs : sync'[t].pc # "record")
    BY <1>1, <1>3, <2>1 DEF Running
  <2>3. \A t \in Syncs : IsNew(sync'[t], source', stored'[source'.target])
    BY <1>1, <1>2, <1>3, <2>2 DEF IsNew
  <2> QED BY <1>2, <1>4, <2>1, <2>2, <2>3 DEF NothingTwice
<1>8. OneByOne'
  <2> SUFFICES ASSUME "overlap" \notin disturbed' PROVE OneByOne'
    BY <1>2 DEF OneByOne
  <2>1. "overlap" \notin disturbed /\ Running = {} /\ disturbed' = disturbed
    BY DEF Begin
  <2>2. Running' = {s} /\ \A t \in Syncs : sync'[t].pc \notin {"pull", "write"}
    BY <1>1, <1>3, <2>1 DEF Running
  <2> QED BY <1>2, <2>1, <2>2 DEF OneByOne
<1> QED BY <1>4, <1>5, <1>6, <1>7, <1>8

LEMMA ReadBaseKeeps == ASSUME ConnectorsInv, NEW s \in Syncs, ReadBase(s) PROVE ConnectorsInv'
<1> USE DEF ConnectorsInv
<1> DEFINE d == sync[s].source.target
           now == sync[s].source.mode = "append" /\ d \in published
           f == [sync[s] EXCEPT !.pc = "pull", !.follows = now,
                                !.base = IF now THEN stored[d] ELSE <<>>]
<1>1. /\ sync[s] \in SyncFrames /\ sync[s].source \in SourceRows /\ d \in SyncTargets
      /\ sync[s].pc = "read" /\ stored[d] \in Seq(1..MaxRow) /\ <<>> \in Seq(1..MaxRow)
  BY DEF ConnectorsTyped, SyncFrames, SourceRows, ReadBase
<1>2. /\ f \in SyncFrames /\ f.pc = "pull" /\ f.source = sync[s].source
      /\ f.cursor = sync[s].cursor
      /\ f.base = IF now THEN stored[d] ELSE <<>>
  BY <1>1 DEF SyncFrames
<1>3. /\ sync' = [sync EXCEPT ![s] = f]
      /\ UNCHANGED <<rank, top, source, stored, published, syncs, disturbed>>
  BY DEF ReadBase
<1> HIDE DEF f
<1>4. /\ sync' \in [Syncs -> SyncFrames] /\ sync'[s] = f
      /\ \A t \in Syncs : t # s => sync'[t] = sync[t]
      /\ Running' = Running /\ s \in Running
  BY <1>1, <1>2, <1>3, OneSyncMoves DEF Running
<1>5. ConnectorsTyped' /\ BeforeAnySync' /\ Ordered' = Ordered
  BY <1>3, <1>4 DEF ConnectorsTyped, BeforeAnySync, Ordered
<1>6. MarksAreSeen'
  BY <1>2, <1>3, <1>4 DEF MarksAreSeen
<1>7. OneByOne'
  <2>1. f.source.mode = "append" => f.base = stored[d]
    BY <1>1, <1>2 DEF OneByOne
  <2> QED BY <1>2, <1>3, <1>4, <2>1 DEF OneByOne
<1>8. NothingSkipped'
  BY <1>1, <1>2, <1>3, <1>4 DEF NothingSkipped, Joins
<1>9. NothingTwice'
  BY <1>1, <1>2, <1>3, <1>4, <1>5 DEF NothingTwice, IsNew, Tip
<1> QED BY <1>5, <1>6, <1>7, <1>8, <1>9


LEMMA FrameAfterPull ==
    ASSUME NEW g \in SyncFrames, NEW rows \in Seq(1..MaxRow), NEW mark \in 0..MaxRow
    PROVE  [[[g EXCEPT !.pc = "write"] EXCEPT !.rows = rows] EXCEPT !.cursor = mark] =
               [pc |-> "write", source |-> g.source, follows |-> g.follows, base |-> g.base,
                rows |-> rows, cursor |-> mark]
<1> DEFINE h == [[[g EXCEPT !.pc = "write"] EXCEPT !.rows = rows] EXCEPT !.cursor = mark]
<1>1. h \in SyncFrames
  BY DEF SyncFrames
<1>2. h.pc = "write" /\ h.source = g.source /\ h.follows = g.follows /\ h.base = g.base
      /\ h.rows = rows /\ h.cursor = mark
  BY DEF SyncFrames
<1> HIDE DEF h
<1>3. h = [pc |-> "write", source |-> g.source, follows |-> g.follows, base |-> g.base,
                rows |-> rows, cursor |-> mark]
  BY <1>1, <1>2 DEF SyncFrames
<1> QED BY <1>3 DEF h

\* What is pulled: the rows above the mark, and the one that is last as text of some of them.
LEMMA PullIs ==
    ASSUME ConnectorsInv, NEW s \in Syncs, Pull(s)
    PROVE  /\ Since(s) \in 0..MaxRow /\ Since(s) <= top
           /\ \E f \in SyncFrames :
                 /\ sync' = [sync EXCEPT ![s] = f] /\ f.pc = "write"
                 /\ f.source = sync[s].source /\ f.base = sync[s].base
                 /\ Held(f.rows) = (Since(s) + 1)..top /\ Distinct(f.rows)
                 /\ f.cursor = 0 \/ f.cursor \in (Since(s) + 1)..top
                 /\ f.source.mode = "replace" => f.cursor = 0
                 /\ f.source.mode = "append" /\ Since(s) < top => f.cursor # 0
                 /\ Ordered /\ f.cursor # 0 => f.cursor = top
<1> USE DEF ConnectorsInv
<1> DEFINE c == Since(s)
           rows == [i \in 1..(top - c) |-> c + i]
           R == (c + 1)..top
<1>1. /\ sync[s] \in SyncFrames /\ sync[s].source \in SourceRows /\ top \in 0..MaxRow
      /\ sync[s].source.cursor \in 0..MaxRow /\ sync[s].source.cursor <= top
      /\ sync[s].source.mode \in {"append", "replace"}
  BY DEF ConnectorsTyped, SyncFrames, SourceRows, MarksAreSeen
<1>2. c \in 0..MaxRow /\ c <= top
  BY <1>1, ConnectorsAssumption DEF Since
<1>3. rows \in Seq(1..MaxRow) /\ Held(rows) = (c + 1)..top /\ Distinct(rows)
  BY <1>1, <1>2, HeldPulled
<1>4. PICK maxima \in SUBSET R :
          /\ R # {} => top \in maxima
          /\ sync' = [sync EXCEPT ![s].pc = "write", ![s].rows = rows,
                                  ![s].cursor = Tracked(sync[s].source.mode, R, maxima)]
  BY DEF Pull
<1> DEFINE mark == Tracked(sync[s].source.mode, R, maxima)
           f == [pc |-> "write", source |-> sync[s].source, follows |-> sync[s].follows,
                 base |-> sync[s].base, rows |-> rows, cursor |-> mark]
<1>5. R \subseteq 1..MaxRow /\ rank \in TextRanks
  <2>1. \A x \in R : x \in 1..MaxRow
    BY <1>1, <1>2, ConnectorsAssumption
  <2> QED BY <2>1 DEF ConnectorsTyped
<1>6. c < top => R # {} /\ top \in R
  BY <1>1, <1>2
<1>7. ASSUME mark # 0
      PROVE  /\ mark \in R /\ mark \in maxima /\ top \in maxima /\ sync[s].source.mode # "replace"
             /\ \A o \in maxima : rank[o] <= rank[mark]
  <2>1. R # {} /\ mark = TextMax(maxima) /\ sync[s].source.mode # "replace"
    BY <1>7 DEF Tracked
  <2>2. maxima # {} /\ maxima \subseteq 1..MaxRow /\ top \in maxima
    BY <1>4, <1>5, <2>1
  <2>3. TextMax(maxima) \in maxima /\ \A o \in maxima : rank[o] <= rank[TextMax(maxima)]
    BY <1>5, <2>2, TextMaxIsOne
  <2> QED BY <2>1, <2>2, <2>3
<1>8. ASSUME sync[s].source.mode = "append", c < top PROVE mark # 0
  <2>1. R # {} /\ mark = TextMax(maxima)
    BY <1>6, <1>8 DEF Tracked
  <2>2. maxima # {} /\ maxima \subseteq 1..MaxRow
    BY <1>4, <1>5, <2>1
  <2>3. TextMax(maxima) \in 1..MaxRow
    BY <1>5, <2>2, TextMaxIsOne
  <2> QED BY <2>1, <2>3
<1>9. ASSUME Ordered, mark # 0 PROVE mark = top
  <2>1. rank[top] <= rank[mark] /\ mark \in R /\ top \in 1..MaxRow /\ mark \in 1..MaxRow
    BY <1>4, <1>5, <1>7, <1>9
  <2>2. rank[top] \in Nat /\ rank[mark] \in Nat
    BY <1>5, <2>1, ConnectorsAssumption
  <2>3. ~(mark < top)
    BY <1>9, <2>1, <2>2 DEF Ordered
  <2> QED BY <1>1, <1>2, <2>1, <2>3
<1>10. mark \in 0..MaxRow
  BY <1>5, <1>7, ConnectorsAssumption
<1> HIDE DEF mark, rows
<1>13. f \in SyncFrames
  BY <1>1, <1>3, <1>10 DEF SyncFrames
<1>14. sync' = [sync EXCEPT ![s] = [[[sync[s] EXCEPT !.pc = "write"] EXCEPT !.rows = rows]
                                                   EXCEPT !.cursor = mark]]
  BY <1>4 DEF mark, ConnectorsTyped
<1>15. [[[sync[s] EXCEPT !.pc = "write"] EXCEPT !.rows = rows] EXCEPT !.cursor = mark] = f
  BY <1>1, <1>3, <1>10, FrameAfterPull
<1>11. f \in SyncFrames /\ sync' = [sync EXCEPT ![s] = f]
  BY <1>13, <1>14, <1>15
<1>12. /\ f.pc = "write" /\ f.source = sync[s].source /\ f.base = sync[s].base /\ f.rows = rows /\ f.cursor = mark
  OBVIOUS
<1> HIDE DEF f
<1>16. /\ Held(f.rows) = (c + 1)..top /\ Distinct(f.rows)
       /\ f.cursor = 0 \/ f.cursor \in (c + 1)..top
       /\ f.source.mode = "replace" => f.cursor = 0
       /\ f.source.mode = "append" /\ c < top => f.cursor # 0
       /\ Ordered /\ f.cursor # 0 => f.cursor = top
  BY <1>3, <1>7, <1>8, <1>9, <1>12
<1> HIDE DEF c
<1>17. c = Since(s)
  BY DEF c
<1> QED BY <1>2, <1>11, <1>12, <1>16, <1>17

LEMMA PullKeeps == ASSUME ConnectorsInv, NEW s \in Syncs, Pull(s) PROVE ConnectorsInv'
<1> USE DEF ConnectorsInv
<1> DEFINE c == Since(s)
<1>1. PICK f \in SyncFrames :
          /\ sync' = [sync EXCEPT ![s] = f] /\ f.pc = "write"
          /\ f.source = sync[s].source /\ f.base = sync[s].base
          /\ Held(f.rows) = (c + 1)..top /\ Distinct(f.rows)
          /\ f.cursor = 0 \/ f.cursor \in (c + 1)..top
          /\ f.source.mode = "replace" => f.cursor = 0
          /\ f.source.mode = "append" /\ c < top => f.cursor # 0
          /\ Ordered /\ f.cursor # 0 => f.cursor = top
  BY PullIs
<1>10. c \in 0..MaxRow /\ c <= top
  BY PullIs
<1>2. UNCHANGED <<rank, top, source, stored, published, syncs, disturbed>> /\ sync[s].pc = "pull"
  BY DEF Pull
<1>3. /\ sync' \in [Syncs -> SyncFrames] /\ sync'[s] = f
      /\ \A t \in Syncs : t # s => sync'[t] = sync[t]
      /\ Running' = Running /\ s \in Running
  BY <1>1, <1>2, OneSyncMoves DEF Running
<1>4. ConnectorsTyped' /\ BeforeAnySync' /\ Ordered' = Ordered
  BY <1>2, <1>3 DEF ConnectorsTyped, BeforeAnySync, Ordered
<1>5. c = IF f.source.mode = "append" THEN f.source.cursor ELSE 0
  BY <1>1 DEF Since
<1> HIDE DEF c
<1>6. /\ top \in 0..MaxRow /\ f.cursor \in 0..MaxRow /\ f.cursor <= top
      /\ f.source.cursor \in 0..MaxRow /\ f.source.mode \in {"append", "replace"}
      /\ source.cursor \in 0..MaxRow /\ source.cursor <= top
  BY <1>1, <1>10, ConnectorsAssumption DEF ConnectorsTyped, SyncFrames, SourceRows, MarksAreSeen
<1>7. MarksAreSeen'
  BY <1>1, <1>2, <1>3, <1>6 DEF MarksAreSeen
<1>8. NothingSkipped'
  <2> SUFFICES ASSUME "redefined" \notin disturbed, "dropped" \notin disturbed PROVE NothingSkipped'
    BY <1>2 DEF NothingSkipped
  <2>1. Joins(sync[s], source, stored[source.target])
    BY DEF NothingSkipped
  <2>2. 1..f.cursor \subseteq (1..f.source.cursor) \cup Held(f.rows)
    <3>1. CASE f.cursor = 0
      BY <3>1
    <3>2. CASE f.cursor \in (c + 1)..top /\ f.source.mode = "append"
      BY <1>1, <1>5, <1>6, <1>10, <3>2
    <3> QED BY <1>1, <1>6, <3>1, <3>2
  <2>3. Joins(f, source, stored[source.target])
    BY <1>1, <1>2, <2>1, <2>2 DEF Joins
  <2> QED BY <1>2, <1>3, <2>3 DEF NothingSkipped
<1>9. NothingTwice'
  <2> SUFFICES ASSUME disturbed = {} PROVE NothingTwice'
    BY <1>2 DEF NothingTwice
  <2>1. \A t, u \in Running : t = u
    BY DEF NothingTwice
  <2>2. \A t \in Syncs : t # s => sync[t].pc = "idle"
    BY <1>3, <2>1 DEF Running
  <2>3. (\A t \in Syncs : sync[t].pc # "record") /\ (\A t \in Syncs : sync'[t].pc # "record")
    BY <1>1, <1>2, <1>3, <2>2
  <2>4. ASSUME source.mode = "append", Ordered
        PROVE  \A t \in Syncs : IsNew(sync'[t], source, stored[source.target])
    <3>1. IsNew(sync[s], source, stored[source.target]) /\ Joins(sync[s], source, stored[source.target])
      BY <2>4 DEF NothingTwice, NothingSkipped
    <3>2. f.source.cursor = source.cursor /\ f.source.mode = "append"
      BY <1>1, <1>2, <2>4, <3>1 DEF IsNew, Joins
    <3>3. c = source.cursor
      BY <1>5, <3>2
    <3>4. source.cursor <= Tip(f, source)
      BY <1>1, <1>6, <1>10, <3>3 DEF Tip
    <3>5. ASSUME NEW r \in Held(f.rows) PROVE source.cursor < r /\ r <= Tip(f, source)
      <4>1. r \in (c + 1)..top
        BY <1>1, <3>5
      <4>2. c < top
        BY <1>6, <3>3, <4>1
      <4>3. Tip(f, source) = top
        BY <1>1, <2>4, <3>2, <4>2 DEF Tip
      <4> QED BY <1>6, <3>3, <4>1, <4>3
    <3>6. IsNew(f, source, stored[source.target])
      BY <1>1, <3>2, <3>4, <3>5 DEF IsNew
    <3> QED BY <1>3, <2>2, <3>6 DEF IsNew
  <2> QED BY <1>2, <1>3, <1>4, <2>1, <2>3, <2>4 DEF NothingTwice
<1>11. OneByOne'
  BY <1>1, <1>2, <1>3 DEF OneByOne
<1> QED BY <1>4, <1>7, <1>8, <1>9, <1>11

LEMMA WriteKeeps == ASSUME ConnectorsInv, NEW s \in Syncs, Write(s) PROVE ConnectorsInv'
<1> USE DEF ConnectorsInv
<1> DEFINE f == [sync[s] EXCEPT !.pc = "record"]
           d == sync[s].source.target
           new == sync[s].base \o sync[s].rows
<1>1. /\ sync[s] \in SyncFrames /\ sync[s].source \in SourceRows /\ d \in SyncTargets
      /\ sync[s].source.mode \in {"append", "replace"} /\ sync[s].pc = "write"
      /\ stored[d] \in Seq(1..MaxRow) /\ sync[s].rows \in Seq(1..MaxRow) /\ sync[s].base \in Seq(1..MaxRow)
      /\ source \in SourceRows /\ source.mode \in {"append", "replace"}
      /\ source.target \in SyncTargets
  BY DEF ConnectorsTyped, SyncFrames, SourceRows, Write
<1>2. /\ f \in SyncFrames /\ f.pc = "record" /\ f.source = sync[s].source
      /\ f.cursor = sync[s].cursor
  BY <1>1 DEF SyncFrames
<1>3. /\ sync' = [sync EXCEPT ![s] = f] /\ UNCHANGED <<rank, top, source, syncs>>
      /\ stored' = [stored EXCEPT ![d] = new] /\ published' = published \cup {d}
      /\ disturbed \subseteq disturbed' /\ disturbed' \subseteq disturbed \cup {"dropped"}
      /\ "dropped" \in disturbed' /\ "dropped" \notin disturbed =>
            sync[s].source.mode = "append" /\ ~(Held(stored[d]) \subseteq Held(new))
      /\ "dropped" \notin disturbed' /\ sync[s].source.mode = "append" =>
            Held(stored[d]) \subseteq Held(new)
  BY DEF Write
<1>4. new \in Seq(1..MaxRow)
  BY <1>1, HeldJoin
<1>5. /\ stored' \in [SyncTargets -> Seq(1..MaxRow)] /\ stored'[d] = new
      /\ \A e \in SyncTargets : e # d => stored'[e] = stored[e]
  BY <1>1, <1>3, <1>4 DEF ConnectorsTyped
<1> HIDE DEF f
<1>6. /\ sync' \in [Syncs -> SyncFrames] /\ sync'[s] = f
      /\ \A t \in Syncs : t # s => sync'[t] = sync[t]
      /\ Running' = Running /\ s \in Running
  BY <1>1, <1>2, <1>3, OneSyncMoves DEF Running
<1>7. ConnectorsTyped' /\ BeforeAnySync' /\ Ordered' = Ordered
  BY <1>3, <1>5, <1>6 DEF ConnectorsTyped, BeforeAnySync, Ordered
<1>8. MarksAreSeen'
  BY <1>2, <1>3, <1>6 DEF MarksAreSeen
<1>9. /\ Held(new) = Held(sync[s].base) \cup Held(sync[s].rows)
      /\ Distinct(sync[s].base) /\ Distinct(sync[s].rows)
         /\ (\A r \in Held(sync[s].base), q \in Held(sync[s].rows) : r < q) => Distinct(new)
  BY <1>1, HeldJoin
<1> HIDE DEF new
<1>10. OneByOne'
  <2>1. \A e \in SyncTargets : e \notin published' => stored'[e] = <<>>
    BY <1>3, <1>5 DEF OneByOne
  <2> SUFFICES ASSUME "overlap" \notin disturbed' PROVE OneByOne'
    BY <2>1 DEF OneByOne
  <2>2. "overlap" \notin disturbed
    BY <1>3
  <2>3. sync[s].source.mode = "append" => sync[s].base = stored[d]
    BY <1>1, <2>2 DEF OneByOne
  <2>4. "dropped" \notin disturbed'
    BY <1>3, <1>9, <2>2, <2>3 DEF OneByOne
  <2>5. \A t \in Syncs : sync'[t].pc \notin {"pull", "write"}
    BY <1>2, <1>6, <2>2 DEF OneByOne, Running
  <2> QED BY <1>6, <2>1, <2>2, <2>4, <2>5 DEF OneByOne
<1>11. ASSUME "redefined" \notin disturbed', "dropped" \notin disturbed'
       PROVE  /\ source.exists /\ d = source.target /\ sync[s].source.mode = source.mode
              /\ 1..f.cursor \subseteq Held(new) /\ 1..source.cursor \subseteq Held(new)
              /\ \A t \in Syncs : Joins(sync'[t], source, new)
  <2>1. /\ \A t \in Syncs : Joins(sync[t], source, stored[source.target])
        /\ 1..source.cursor \subseteq Held(stored[source.target])
        /\ source.mode = "replace" => source.cursor = 0
    BY <1>3, <1>11 DEF NothingSkipped
  <2>2. /\ source.exists /\ d = source.target /\ sync[s].source.mode = source.mode
        /\ source.mode = "append" => 1..sync[s].source.cursor \subseteq Held(stored[d])
        /\ source.mode = "replace" => sync[s].cursor = 0
        /\ 1..sync[s].cursor \subseteq (1..sync[s].source.cursor) \cup Held(sync[s].rows)
    BY <1>1, <2>1 DEF Joins
  <2>3. CASE source.mode = "append"
    <3>1. Held(stored[d]) \subseteq Held(new) /\ Held(sync[s].rows) \subseteq Held(new)
      BY <1>3, <1>9, <1>11, <2>2, <2>3
    <3>2. 1..f.cursor \subseteq Held(new) /\ 1..source.cursor \subseteq Held(new)
      BY <1>2, <2>1, <2>2, <2>3, <3>1
    <3>3. ASSUME NEW t \in Syncs PROVE Joins(sync'[t], source, new)
      <4>1. CASE t = s
        BY <1>2, <1>6, <2>2, <2>3, <3>1, <3>2, <4>1 DEF Joins
      <4>2. CASE t # s
        <5>1. Joins(sync[t], source, stored[d])
          BY <2>1, <2>2
        <5> QED BY <1>6, <3>1, <4>2, <5>1 DEF Joins
      <4> QED BY <4>1, <4>2
    <3> QED BY <2>2, <3>2, <3>3
  <2>4. CASE source.mode = "replace"
    <3>1. f.cursor = 0 /\ source.cursor = 0 /\ 1..0 = {}
      BY <1>2, <2>1, <2>2, <2>4
    <3>2. ASSUME NEW t \in Syncs PROVE Joins(sync'[t], source, new)
      <4>1. CASE t = s
        BY <1>2, <1>6, <2>2, <2>4, <3>1, <4>1 DEF Joins
      <4>2. CASE t # s
        <5>1. Joins(sync[t], source, stored[d])
          BY <2>1, <2>2
        <5>2. sync[t].pc # "idle" => sync[t].cursor = 0
          BY <2>4, <5>1 DEF Joins
        <5> QED BY <1>6, <2>4, <3>1, <4>2, <5>1, <5>2 DEF Joins
      <4> QED BY <4>1, <4>2
    <3> QED BY <2>2, <3>1, <3>2
  <2> QED BY <1>1, <2>3, <2>4
<1>12. NothingSkipped'
  <2> SUFFICES ASSUME "redefined" \notin disturbed', "dropped" \notin disturbed' PROVE NothingSkipped'
    BY DEF NothingSkipped
  <2>1. stored'[source.target] = new /\ source' = source
    BY <1>3, <1>5, <1>11
  <2>2. source.mode = "replace" => source.cursor = 0
    BY <1>3 DEF NothingSkipped
  <2> QED BY <1>11, <2>1, <2>2 DEF NothingSkipped
<1>13. NothingTwice'
  <2> SUFFICES ASSUME disturbed' = {} PROVE NothingTwice'
    BY DEF NothingTwice
  <2>6. disturbed = {}
    BY <1>3
  <2>1. \A t, u \in Running : t = u
    BY <2>6 DEF NothingTwice
  <2>2. (\A t \in Syncs : t # s => sync[t].pc = "idle") /\ (\A t \in Syncs : sync[t].pc # "record")
    BY <1>1, <1>6, <2>1 DEF Running
  <2>3. d = source.target /\ sync[s].source.mode = source.mode /\ stored'[source.target] = new
    BY <1>5, <1>11
  <2>4. ASSUME source.mode = "append", Ordered
        PROVE  Distinct(new) /\ \A t \in Syncs : IsNew(sync'[t], source, new)
    <3>1. /\ Distinct(stored[d]) /\ \A r \in Held(stored[d]) : r <= source.cursor
          /\ IsNew(sync[s], source, stored[d])
      BY <2>2, <2>3, <2>4, <2>6 DEF NothingTwice
    <3>0. sync[s].base = stored[d]
      BY <1>1, <2>3, <2>4, <2>6 DEF OneByOne
    <3>2. /\ sync[s].source.cursor = source.cursor
          /\ source.cursor <= Tip(sync[s], source) /\ Distinct(sync[s].rows)
          /\ \A r \in Held(sync[s].rows) : source.cursor < r /\ r <= Tip(sync[s], source)
      BY <1>1, <3>1 DEF IsNew
    <3>3. /\ source.cursor \in Nat /\ Tip(sync[s], source) \in Nat
          /\ \A r \in Held(stored[d]) : r \in Nat
          /\ \A r \in Held(sync[s].rows) : r \in Nat
      <4>1. source.cursor \in Nat /\ sync[s].cursor \in Nat
        BY <1>1, ConnectorsAssumption DEF SourceRows, SyncFrames
      <4>2. \A x \in 1..MaxRow : x \in Nat
        OBVIOUS
      <4> QED BY <1>1, <4>1, <4>2, HeldTyped DEF Tip
    <3>4. \A r \in Held(stored[d]), q \in Held(sync[s].rows) : r < q
      <4> SUFFICES ASSUME NEW r \in Held(stored[d]), NEW q \in Held(sync[s].rows) PROVE r < q
        OBVIOUS
      <4>1. r <= source.cursor /\ source.cursor < q /\ r \in Nat /\ q \in Nat
        BY <3>1, <3>2, <3>3
      <4> QED BY <3>3, <4>1
    <3>5. Distinct(new) /\ Held(new) = Held(stored[d]) \cup Held(sync[s].rows)
      BY <1>9, <3>0, <3>1, <3>2, <3>4
    <3>6. Tip(f, source) = Tip(sync[s], source)
      BY <1>2 DEF Tip
    <3>7. \A r \in Held(stored[d]) : r <= Tip(f, source)
      <4> SUFFICES ASSUME NEW r \in Held(stored[d]) PROVE r <= Tip(f, source)
        OBVIOUS
      <4>1. r <= source.cursor /\ r \in Nat
        BY <3>1, <3>3
      <4> QED BY <3>2, <3>3, <3>6, <4>1
    <3>8. IsNew(f, source, new)
      BY <1>2, <3>2, <3>5, <3>6, <3>7 DEF IsNew
    <3>9. ASSUME NEW t \in Syncs PROVE IsNew(sync'[t], source, new)
      <4>1. CASE t = s
        BY <1>6, <3>8, <4>1
      <4>2. CASE t # s
        BY <1>6, <2>2, <4>2 DEF IsNew
      <4> QED BY <4>1, <4>2
    <3> QED BY <3>5, <3>9
  <2>5. ~ \A t \in Syncs : sync'[t].pc # "record"
    BY <1>2, <1>6
  <2> QED BY <1>3, <1>6, <1>7, <2>1, <2>3, <2>4, <2>5 DEF NothingTwice
<1> QED BY <1>7, <1>8, <1>10, <1>12, <1>13

LEMMA WriteNothingKeeps == ASSUME ConnectorsInv, NEW s \in Syncs, WriteNothing(s) PROVE ConnectorsInv'
<1> USE DEF ConnectorsInv
<1> DEFINE f == [sync[s] EXCEPT !.pc = "record"]
<1>1. sync[s] \in SyncFrames /\ sync[s].pc = "write" /\ Held(sync[s].rows) = {}
  BY DEF ConnectorsTyped, WriteNothing, Held
<1>2. /\ f \in SyncFrames /\ f.pc = "record" /\ f.source = sync[s].source
      /\ f.cursor = sync[s].cursor
  BY <1>1 DEF SyncFrames
<1>3. /\ sync' = [sync EXCEPT ![s] = f]
      /\ UNCHANGED <<rank, top, source, stored, published, syncs, disturbed>>
  BY DEF WriteNothing
<1> HIDE DEF f
<1>4. /\ sync' \in [Syncs -> SyncFrames] /\ sync'[s] = f
      /\ \A t \in Syncs : t # s => sync'[t] = sync[t]
      /\ Running' = Running /\ s \in Running
  BY <1>1, <1>2, <1>3, OneSyncMoves DEF Running
<1>5. ConnectorsTyped' /\ BeforeAnySync' /\ Ordered' = Ordered
  BY <1>3, <1>4 DEF ConnectorsTyped, BeforeAnySync, Ordered
<1>6. MarksAreSeen'
  BY <1>2, <1>3, <1>4 DEF MarksAreSeen
<1>7. OneByOne'
  BY <1>2, <1>3, <1>4 DEF OneByOne
<1>8. NothingSkipped'
  <2> SUFFICES ASSUME "redefined" \notin disturbed, "dropped" \notin disturbed PROVE NothingSkipped'
    BY <1>3 DEF NothingSkipped
  <2>1. Joins(sync[s], source, stored[source.target])
    BY DEF NothingSkipped
  <2>2. source.mode \in {"append", "replace"} /\ 1..0 = {}
    BY DEF ConnectorsTyped, SourceRows
  <2>3. 1..f.cursor \subseteq Held(stored[source.target])
    BY <1>1, <1>2, <2>1, <2>2 DEF Joins
  <2>4. Joins(f, source, stored[source.target])
    BY <1>1, <1>2, <2>1, <2>3 DEF Joins
  <2> QED BY <1>3, <1>4, <2>4 DEF NothingSkipped
<1>9. NothingTwice'
  <2> SUFFICES ASSUME disturbed = {} PROVE NothingTwice'
    BY <1>3 DEF NothingTwice
  <2>1. \A t, u \in Running : t = u
    BY DEF NothingTwice
  <2>2. (\A t \in Syncs : t # s => sync[t].pc = "idle") /\ (\A t \in Syncs : sync[t].pc # "record")
    BY <1>1, <1>4, <2>1 DEF Running
  <2>3. ~ \A t \in Syncs : sync'[t].pc # "record"
    BY <1>2, <1>4
  <2>4. ASSUME source.mode = "append", Ordered
        PROVE  \A t \in Syncs : IsNew(sync'[t], source, stored[source.target])
    <3>1. /\ \A r \in Held(stored[source.target]) : r <= source.cursor
          /\ IsNew(sync[s], source, stored[source.target])
      BY <2>2, <2>4 DEF NothingTwice
    <3>2. source.cursor <= Tip(f, source) /\ f.source.cursor = source.cursor
      BY <1>1, <1>2, <3>1 DEF IsNew, Tip
    <3>3. source.cursor \in Nat /\ Tip(f, source) \in Nat
      BY <1>2, ConnectorsAssumption DEF ConnectorsTyped, SourceRows, SyncFrames, Tip
    <3>4. stored[source.target] \in Seq(1..MaxRow)
      BY DEF ConnectorsTyped, SourceRows
    <3>5. \A r \in Held(stored[source.target]) : r \in Nat
      <4>1. \A x \in 1..MaxRow : x \in Nat
        OBVIOUS
      <4> QED BY <3>4, <4>1, HeldTyped
    <3>6. \A r \in Held(stored[source.target]) : r <= Tip(f, source)
      BY <3>1, <3>2, <3>3, <3>5
    <3>7. IsNew(f, source, stored[source.target])
      BY <1>2, <3>2, <3>6 DEF IsNew
    <3> QED BY <1>4, <2>2, <3>7 DEF IsNew
  <2> QED BY <1>3, <1>4, <1>5, <2>1, <2>3, <2>4 DEF NothingTwice
<1> QED BY <1>5, <1>6, <1>7, <1>8, <1>9

\* A sync ends: its mark is recorded, if it has one, or it is abandoned.
LEMMA RecordSyncKeeps == ASSUME ConnectorsInv, NEW s \in Syncs, RecordSync(s) PROVE ConnectorsInv'
<1> USE DEF ConnectorsInv
<1>1. /\ sync[s] \in SyncFrames /\ source \in SourceRows /\ sync[s].cursor \in 0..MaxRow
      /\ sync[s].pc = "record" /\ s \in Running /\ sync[s].cursor <= top /\ source.cursor <= top
      /\ top \in 0..MaxRow
  BY DEF ConnectorsTyped, SyncFrames, RecordSync, Running, MarksAreSeen
<1>2. /\ sync' = [sync EXCEPT ![s] = NoSync]
      /\ UNCHANGED <<rank, top, stored, published, syncs, disturbed>>
  BY DEF RecordSync
<1>3. NoSync \in SyncFrames /\ NoSync.pc = "idle" /\ NoSync.source.cursor = 0 /\ NoSync.cursor = 0
  BY NoSourceTyped DEF NoSync, NoSource
<1>4. /\ sync' \in [Syncs -> SyncFrames] /\ sync'[s] = NoSync
      /\ \A t \in Syncs : t # s => sync'[t] = sync[t]
      /\ Running' = Running \ {s}
  BY <1>2, <1>3, OneSyncMoves
<1>5. PICK row \in SourceRows :
          /\ source' = row /\ row.target = source.target /\ row.mode = source.mode
          /\ row.exists = source.exists
          /\ row.cursor = source.cursor \/ row.cursor = sync[s].cursor
          /\ source.exists => row.cursor = Tip(sync[s], source)
  <2> DEFINE mk == [source EXCEPT !.cursor = sync[s].cursor]
  <2>1. /\ mk \in SourceRows /\ mk.target = source.target /\ mk.mode = source.mode
        /\ mk.exists = source.exists /\ mk.cursor = sync[s].cursor
    BY <1>1 DEF SourceRows
  <2>2. source' = IF source.exists /\ sync[s].cursor # 0 THEN mk ELSE source
    BY DEF RecordSync, Mark
  <2> HIDE DEF mk
  <2> QED BY <1>1, <2>1, <2>2 DEF Tip
<1>6. ConnectorsTyped' /\ BeforeAnySync' /\ Ordered' = Ordered
  BY <1>1, <1>2, <1>4, <1>5 DEF ConnectorsTyped, BeforeAnySync, Ordered
<1>7. MarksAreSeen'
  BY <1>1, <1>2, <1>3, <1>4, <1>5 DEF MarksAreSeen
<1>8. NothingSkipped'
  <2> SUFFICES ASSUME "redefined" \notin disturbed, "dropped" \notin disturbed PROVE NothingSkipped'
    BY <1>2 DEF NothingSkipped
  <2>1. /\ 1..source.cursor \subseteq Held(stored[source.target])
        /\ source.mode = "replace" => source.cursor = 0
        /\ \A t \in Syncs : Joins(sync[t], source, stored[source.target])
    BY DEF NothingSkipped
  <2>2. /\ source.mode = "replace" => sync[s].cursor = 0
        /\ 1..sync[s].cursor \subseteq Held(stored[source.target])
    BY <1>1, <2>1 DEF Joins
  <2>3. \A t \in Syncs : Joins(sync'[t], row, stored[source.target])
    BY <1>3, <1>4, <1>5, <2>1 DEF Joins
  <2> QED BY <1>2, <1>5, <2>1, <2>2, <2>3 DEF NothingSkipped
<1>9. NothingTwice'
  <2> SUFFICES ASSUME disturbed = {} PROVE NothingTwice'
    BY <1>2 DEF NothingTwice
  <2>1. \A t, u \in Running : t = u
    BY DEF NothingTwice
  <2>2. \A t \in Syncs : sync'[t].pc = "idle"
    BY <1>1, <1>3, <1>4, <2>1 DEF Running
  <2>3. source.exists /\ row.cursor = Tip(sync[s], source)
    BY <1>1, <1>5 DEF NothingSkipped, Joins
  <2>4. ASSUME source.mode = "append", Ordered
        PROVE  /\ Distinct(stored[source.target])
               /\ \A r \in Held(stored[source.target]) : r <= row.cursor
    BY <1>1, <2>3, <2>4 DEF NothingTwice, IsNew
  <2>5. \A t \in Syncs : IsNew(sync'[t], row, stored[source.target])
    BY <2>2 DEF IsNew
  <2> QED BY <1>2, <1>4, <1>5, <1>6, <2>1, <2>4, <2>5 DEF NothingTwice
<1>10. OneByOne'
  BY <1>2, <1>3, <1>4 DEF OneByOne
<1> QED BY <1>6, <1>7, <1>8, <1>9, <1>10

LEMMA AbandonSyncKeeps == ASSUME ConnectorsInv, NEW s \in Syncs, AbandonSync(s) PROVE ConnectorsInv'
<1> USE DEF ConnectorsInv
<1>1. sync[s].pc # "idle" /\ s \in Running /\ top \in 0..MaxRow
  BY DEF AbandonSync, Running, ConnectorsTyped
<1>2. /\ sync' = [sync EXCEPT ![s] = NoSync]
      /\ UNCHANGED <<rank, top, source, stored, published, syncs>> /\ disturbed \subseteq disturbed'
      /\ disturbed' \subseteq disturbed \cup {"unrecorded"}
      /\ disturbed' = {} => sync[s].pc # "record"
  BY DEF AbandonSync
<1>3. NoSync \in SyncFrames /\ NoSync.pc = "idle" /\ NoSync.source.cursor = 0 /\ NoSync.cursor = 0
  BY NoSourceTyped DEF NoSync, NoSource
<1>4. /\ sync' \in [Syncs -> SyncFrames] /\ sync'[s] = NoSync
      /\ \A t \in Syncs : t # s => sync'[t] = sync[t]
      /\ Running' = Running \ {s}
  BY <1>2, <1>3, OneSyncMoves
<1>5. ConnectorsTyped' /\ BeforeAnySync' /\ Ordered' = Ordered
  BY <1>2, <1>4 DEF ConnectorsTyped, BeforeAnySync, Ordered
<1>6. MarksAreSeen'
  BY <1>1, <1>2, <1>3, <1>4, ConnectorsAssumption DEF MarksAreSeen
<1>7. NothingSkipped'
  BY <1>2, <1>3, <1>4 DEF NothingSkipped, Joins
<1>8. NothingTwice'
  <2> SUFFICES ASSUME disturbed' = {} PROVE NothingTwice'
    BY DEF NothingTwice
  <2>1. disturbed = {} /\ sync[s].pc # "record"
    BY <1>2
  <2>2. \A t, u \in Running : t = u
    BY <2>1 DEF NothingTwice
  <2>3. /\ \A t \in Syncs : sync'[t].pc = "idle"
        /\ \A t \in Syncs : sync[t].pc # "record"
    BY <1>1, <1>3, <1>4, <2>1, <2>2 DEF Running
  <2>4. \A t \in Syncs : IsNew(sync'[t], source, stored[source.target])
    BY <2>3 DEF IsNew
  <2> QED BY <1>2, <1>4, <1>5, <2>1, <2>2, <2>3, <2>4 DEF NothingTwice
<1>9. OneByOne'
  BY <1>2, <1>3, <1>4 DEF OneByOne
<1> QED BY <1>5, <1>6, <1>7, <1>8, <1>9

LEMMA ConnectorsStep == ConnectorsInv /\ [ConnectorsNext]_connectorVars => ConnectorsInv'
<1> SUFFICES ASSUME ConnectorsInv, [ConnectorsNext]_connectorVars PROVE ConnectorsInv'
  OBVIOUS
<1>1. CASE InsertRow
  BY <1>1, InsertRowKeeps
<1>2. CASE PutSource
  BY <1>2, PutSourceKeeps
<1>3. CASE DeleteSource
  BY <1>3, DeleteSourceKeeps
<1>4. ASSUME NEW s \in Syncs, Begin(s) PROVE ConnectorsInv'
  BY <1>4, BeginKeeps
<1>10. ASSUME NEW s \in Syncs, ReadBase(s) PROVE ConnectorsInv'
  BY <1>10, ReadBaseKeeps
<1>11. ASSUME NEW s \in Syncs, WriteNothing(s) PROVE ConnectorsInv'
  BY <1>11, WriteNothingKeeps
<1>5. ASSUME NEW s \in Syncs, Pull(s) PROVE ConnectorsInv'
  BY <1>5, PullKeeps
<1>6. ASSUME NEW s \in Syncs, Write(s) PROVE ConnectorsInv'
  BY <1>6, WriteKeeps
<1>7. ASSUME NEW s \in Syncs, RecordSync(s) PROVE ConnectorsInv'
  BY <1>7, RecordSyncKeeps
<1>8. ASSUME NEW s \in Syncs, AbandonSync(s) PROVE ConnectorsInv'
  BY <1>8, AbandonSyncKeeps
<1>9. CASE UNCHANGED connectorVars
  BY <1>9 DEF connectorVars, ConnectorsInv, ConnectorsTyped, MarksAreSeen, BeforeAnySync, Running,
     OneByOne, NothingSkipped, NothingTwice, Ordered
<1> QED BY <1>1, <1>2, <1>3, <1>4, <1>5, <1>6, <1>7, <1>8, <1>9, <1>10, <1>11 DEF ConnectorsNext

(* However syncs fail to be recorded and die, and in whatever order the texts of the cursors     *)
(* come, a row below a source's mark is missing from its dataset only when the source was         *)
(* redefined or an append was registered over a version whose rows it had not read, and the latter *)
(* takes syncs that overlap; syncs that are recorded, one at a time, into one dataset store each  *)
(* row once where the texts come in the order of the values (connectors.py, sync_source and       *)
(* tracked; catalog.py, append_batches).                                                          *)
THEOREM RowsAlwaysArriveOnce == ConnectorsSpec => []RowsArriveOnce
<1>1. ConnectorsInv => RowsArriveOnce
  <2> SUFFICES ASSUME ConnectorsInv PROVE RowsArriveOnce
    OBVIOUS
  <2>1. Arrived(source.target) = Held(stored[source.target])
    BY DEF Arrived
  <2>2. NeverReReads
    BY DEF NeverReReads, ConnectorsInv, NothingTwice, Ordered, Distinct
  <2>3. "dropped" \in disturbed => "overlap" \in disturbed
    BY DEF ConnectorsInv, OneByOne
  <2> QED BY <2>1, <2>2, <2>3 DEF RowsArriveOnce, ConnectorsInv, NothingSkipped
<1> QED BY ConnectorsStart, ConnectorsStep, <1>1, PTL DEF ConnectorsSpec

(***************************************************************************)
(* Iceberg datasets: the history of main.                                  *)
(***************************************************************************)

Snapshots == [parent : Nat, rows : SUBSET Nat]

\* Parents were committed before their children.
Formed(p) == p \in Seq(Snapshots) /\ \A n \in 1..Len(p) : p[n].parent < n

LEMMA FormedIs ==
    ASSUME NEW p, Formed(p)
    PROVE  /\ Len(p) \in Nat
           /\ \A m \in 1..Len(p) : p[m].parent \in Nat /\ p[m].parent < m
<1>1. Len(p) \in Nat /\ \A m \in 1..Len(p) : p[m] \in Snapshots
  BY DEF Formed
<1>2. \A x \in Snapshots : x.parent \in Nat
  BY DEF Snapshots
<1> QED BY <1>1, <1>2 DEF Formed

LineageOf(p, s) ==
    LET chain[n \in 0..Len(p)] == IF n = 0 THEN {} ELSE {n} \cup chain[p[n].parent]
    IN  chain[s]

ChainTo(p, n, f) ==
    f = [m \in 0..n |-> IF m = 0 THEN {} ELSE {m} \cup f[p[m].parent]]

LEMMA ChainExists ==
    ASSUME NEW p, Formed(p)
    PROVE  \E f : ChainTo(p, Len(p), f)
<1> DEFINE T == {n \in Nat : n <= Len(p) => \E f : ChainTo(p, n, f)}
<1>0. Len(p) \in Nat /\ \A m \in 1..Len(p) : p[m].parent \in Nat /\ p[m].parent < m
  BY FormedIs
<1>1. 0 \in T
  <2>1. ChainTo(p, 0, [m \in 0..0 |-> {}])
    BY DEF ChainTo
  <2> QED BY <2>1
<1>2. ASSUME NEW n \in Nat, n \in T PROVE n + 1 \in T
  <2> SUFFICES ASSUME n + 1 <= Len(p) PROVE \E f : ChainTo(p, n + 1, f)
    OBVIOUS
  <2>1. PICK f : ChainTo(p, n, f)
    BY <1>0, <1>2
  <2> DEFINE h == [m \in 0..(n + 1) |-> IF m = n + 1 THEN {m} \cup f[p[m].parent] ELSE f[m]]
  <2>2. \A m \in 0..n : h[m] = f[m]
    OBVIOUS
  <2>3. \A m \in 0..n : f[m] = IF m = 0 THEN {} ELSE {m} \cup f[p[m].parent]
    BY <2>1, Zenon DEF ChainTo
  <2>4. \A m \in 0..(n + 1) : h[m] = IF m = 0 THEN {} ELSE {m} \cup h[p[m].parent]
    <3> SUFFICES ASSUME NEW m \in 0..(n + 1)
                 PROVE  h[m] = IF m = 0 THEN {} ELSE {m} \cup h[p[m].parent]
      OBVIOUS
    <3> HIDE DEF h
    <3>1. CASE m = 0
      <4>1. 0 \in 0..n
        OBVIOUS
      <4>2. h[0] = f[0] /\ f[0] = {}
        BY <2>2, <2>3, <4>1
      <4> QED BY <3>1, <4>2
    <3>2. CASE m # 0
      <4>1. m \in 1..Len(p) /\ p[m].parent \in 0..n
        BY <1>0, <3>2
      <4>2. h[p[m].parent] = f[p[m].parent]
        BY <2>2, <4>1
      <4>3. CASE m = n + 1
        BY <3>2, <4>2, <4>3 DEF h
      <4>4. CASE m # n + 1
        <5>1. m \in 0..n
          BY <4>4
        <5> QED BY <2>2, <2>3, <3>2, <4>2, <5>1
      <4> QED BY <4>3, <4>4
    <3> QED BY <3>1, <3>2
  <2>5. h = [m \in 0..(n + 1) |-> h[m]]
    OBVIOUS
  <2> HIDE DEF h
  <2>6. ChainTo(p, n + 1, h)
    BY <2>4, <2>5 DEF ChainTo
  <2> QED BY <2>6
<1> HIDE DEF T
<1>3. Len(p) \in T
  BY <1>0, <1>1, <1>2, Induct
<1> QED BY <1>0, <1>3 DEF T

\* What Lineage computes.
LineageStep(p) ==
    /\ LineageOf(p, 0) = {}
    /\ \A n \in 1..Len(p) : LineageOf(p, n) = {n} \cup LineageOf(p, p[n].parent)

LEMMA LineageIs ==
    ASSUME NEW p, Formed(p)
    PROVE  LineageStep(p)
<1> DEFINE f == CHOOSE g : ChainTo(p, Len(p), g)
<1>1. ChainTo(p, Len(p), f)
  BY ChainExists
<1>2. \A s : LineageOf(p, s) = f[s]
  BY DEF LineageOf, ChainTo
<1> HIDE DEF f
<1>3. \A m \in 0..Len(p) : f[m] = IF m = 0 THEN {} ELSE {m} \cup f[p[m].parent]
  BY <1>1, Zenon DEF ChainTo
<1>4. Len(p) \in Nat /\ 0 \in 0..Len(p) /\ \A m \in 1..Len(p) : m \in 0..Len(p) /\ m # 0
  BY FormedIs
<1>5. f[0] = {}
  BY <1>3, <1>4
<1>6. \A m \in 1..Len(p) : f[m] = {m} \cup f[p[m].parent]
  BY <1>3, <1>4
<1> QED BY <1>2, <1>5, <1>6 DEF LineageStep

\* A lineage goes down, and holds those of its members.
LineageDown(p, n) ==
    /\ LineageOf(p, n) \subseteq 1..n
    /\ \A m \in LineageOf(p, n) : LineageOf(p, m) \subseteq LineageOf(p, n)
    /\ n # 0 => n \in LineageOf(p, n)

LEMMA LineageGoesDown ==
    ASSUME NEW p, Formed(p), NEW s \in 0..Len(p)
    PROVE  LineageDown(p, s)
<1> DEFINE T == {n \in Nat : n <= Len(p) => \A m \in 0..n : LineageDown(p, m)}
<1>0. Len(p) \in Nat /\ \A m \in 1..Len(p) : p[m].parent \in Nat /\ p[m].parent < m
  BY FormedIs
<1>1. 0 \in T
  BY LineageIs DEF LineageStep, LineageDown
<1>2. ASSUME NEW n \in Nat, n \in T PROVE n + 1 \in T
  <2> SUFFICES ASSUME n + 1 <= Len(p) PROVE LineageDown(p, n + 1)
    BY <1>0, <1>2
  <2> DEFINE q == p[n + 1].parent
  <2>1. n + 1 \in 1..Len(p) /\ q \in 0..n
    BY <1>0
  <2> HIDE DEF q
  <2>2. LineageOf(p, n + 1) = {n + 1} \cup LineageOf(p, q)
    BY <2>1, LineageIs DEF LineageStep, q
  <2>3. LineageDown(p, q)
    BY <1>0, <1>2, <2>1
  <2> QED BY <2>1, <2>2, <2>3 DEF LineageDown
<1> HIDE DEF T
<1>3. Len(p) \in T
  BY <1>0, <1>1, <1>2, Induct
<1> QED BY <1>0, <1>3 DEF T

\* q is p and more snapshots.
Longer(p, q) == Len(p) <= Len(q) /\ \A n \in 1..Len(p) : q[n] = p[n]

SameLineages(p, q) == \A n \in 0..Len(p) : LineageOf(q, n) = LineageOf(p, n)

LEMMA LineagesStay ==
    ASSUME NEW p, Formed(p), NEW q, Formed(q), Longer(p, q)
    PROVE  SameLineages(p, q)
<1> DEFINE T == {n \in Nat : n <= Len(p) => \A m \in 0..n : LineageOf(q, m) = LineageOf(p, m)}
<1>0. /\ Len(p) \in Nat /\ Len(q) \in Nat /\ Len(p) <= Len(q)
      /\ \A m \in 1..Len(p) : p[m].parent \in Nat /\ p[m].parent < m /\ q[m] = p[m]
  BY FormedIs DEF Longer
<1>1. 0 \in T
  <2>1. LineageOf(q, 0) = {} /\ LineageOf(p, 0) = {}
    BY LineageIs DEF LineageStep
  <2> QED BY <2>1
<1>2. ASSUME NEW n \in Nat, n \in T PROVE n + 1 \in T
  <2> SUFFICES ASSUME n + 1 <= Len(p) PROVE LineageOf(q, n + 1) = LineageOf(p, n + 1)
    BY <1>0, <1>2
  <2> DEFINE r == p[n + 1].parent
  <2>1. n + 1 \in 1..Len(p) /\ n + 1 \in 1..Len(q) /\ r \in 0..n /\ q[n + 1].parent = r
    BY <1>0
  <2> HIDE DEF r
  <2>2. LineageOf(p, n + 1) = {n + 1} \cup LineageOf(p, r)
    BY <2>1, LineageIs DEF LineageStep, r
  <2>3. LineageOf(q, n + 1) = {n + 1} \cup LineageOf(q, r)
    BY <2>1, LineageIs DEF LineageStep
  <2>4. LineageOf(q, r) = LineageOf(p, r)
    BY <1>0, <1>2, <2>1
  <2> QED BY <2>2, <2>3, <2>4
<1> HIDE DEF T
<1>3. Len(p) \in T
  BY <1>0, <1>1, <1>2, Induct
<1> QED BY <1>0, <1>3 DEF T, SameLineages

-----------------------------------------------------------------------------
Counts == {Cardinality(r) : r \in SUBSET Nat}
TableVersions == [snapshot : Nat, rows : Counts, alone : BOOLEAN]
LakeFrames ==
    [pc : {"idle", "load", "commit", "state", "point", "count", "number", "insert", "swap"},
     mode : {"none", "append", "replace", "compact", "merge", "schema"}, alone : BOOLEAN,
     base : Nat, pin : Nat, rows : SUBSET Nat, metadata : Nat, snapshot : Nat,
     count : Counts, number : Nat]

RowsOf(p, s) == IF s = 0 THEN {} ELSE p[s].rows

\* What a call knows of main, whose tip is tip: nothing else as long as
\* nobody else has moved it, and in any case a member of its history.
Fits(p, tip, files, f) ==
    /\ f.pc \in {"load", "commit"} => f.pin = 0
    /\ f.pc = "commit" => f.mode \in {"append", "replace", "compact"}
    /\ f.pc = "swap" => f.pin \in 1..Len(p) /\ f.base \in LineageOf(p, f.pin)
    /\ f.pc = "state" =>
        /\ tip # 0 /\ files # <<>>
        /\ f.pin # 0 => f.pin \in LineageOf(p, tip) /\ (f.alone => f.pin = tip)
    /\ f.pc \in {"point", "count", "number", "insert"} =>
        /\ f.snapshot \in LineageOf(p, tip)
        /\ f.alone => f.snapshot = tip /\ f.count = Cardinality(RowsOf(p, tip))
    /\ f.pc = "point" =>
        f.metadata \in 1..Len(files) /\ (f.alone => files[f.metadata] = tip)

\* The first three parts of VersionsNameSnapshots.
VersionsFit(p, tip, vs) ==
    /\ \A v \in 1..Len(vs) : vs[v].snapshot # 0 => vs[v].snapshot \in LineageOf(p, tip)
    /\ \A v \in 1..Len(vs) : vs[v].snapshot # 0 /\ vs[v].alone =>
            /\ vs[v].rows = Cardinality(RowsOf(p, vs[v].snapshot))
            /\ \A u \in 1..(v - 1) : vs[u].snapshot # 0 /\ vs[u].alone =>
                    vs[u].snapshot \in LineageOf(p, vs[v].snapshot)

Pointing(c) == lake[c].pc \in {"state", "point"}
ReadersSeeMain == IF pointer = 0 THEN Main = 0 ELSE metadata[pointer] = Main

IcebergTyped ==
    /\ Formed(snapshots)
    /\ refs \in [Branches \cup {"main"} -> 0..Len(snapshots)]
    /\ metadata \in Seq(Nat) /\ pointer \in 0..Len(metadata)
    /\ versions \in Seq(TableVersions)
    /\ lake \in [LakeCalls -> LakeFrames]

IcebergInv ==
    /\ IcebergTyped
    /\ IF metadata = <<>> THEN Main = 0 ELSE metadata[Len(metadata)] = Main
    /\ \A c \in LakeCalls : Fits(snapshots, Main, metadata, lake[c])
    /\ VersionsFit(snapshots, Main, versions)
    /\ ~adrift => ReadersSeeMain \/ \E c \in LakeCalls : Pointing(c)

-----------------------------------------------------------------------------
\* The table goes on: snapshots and metadata are added, main goes forward.
GoesForward(p, tip, files, q, reached, filed) ==
    /\ Formed(p) /\ Formed(q) /\ Longer(p, q)
    /\ tip \in 0..Len(p) /\ reached \in 0..Len(q) /\ (tip # 0 => tip \in LineageOf(q, reached))
    /\ Len(files) <= Len(filed) /\ \A i \in 1..Len(files) : filed[i] = files[i]
    /\ files \in Seq(Nat) /\ filed \in Seq(Nat)

LineageKept(p, tip, q, reached) ==
    /\ LineageOf(p, tip) \subseteq LineageOf(q, reached)
    /\ LineageOf(p, tip) \subseteq 1..Len(p)
    /\ tip = 0 => LineageOf(p, tip) = {}
    /\ \A s \in 0..Len(p) : LineageOf(q, s) = LineageOf(p, s) /\ RowsOf(q, s) = RowsOf(p, s)

LEMMA LineageIsKept ==
    ASSUME NEW p, NEW tip, NEW files, NEW q, NEW reached, NEW filed,
           GoesForward(p, tip, files, q, reached, filed)
    PROVE  LineageKept(p, tip, q, reached)
<1>1. Formed(p) /\ Formed(q) /\ Longer(p, q) /\ tip \in 0..Len(p) /\ reached \in 0..Len(q)
  BY DEF GoesForward
<1>2. Len(p) \in Nat /\ Len(q) \in Nat
  BY <1>1, FormedIs
<1>3. SameLineages(p, q)
  BY <1>1, LineagesStay
<1>4. \A s \in 0..Len(p) : LineageOf(q, s) = LineageOf(p, s)
  BY <1>3 DEF SameLineages
<1>5. \A s \in 0..Len(p) : RowsOf(q, s) = RowsOf(p, s)
  BY <1>1, <1>2 DEF Longer, RowsOf
<1>6. LineageDown(p, tip) /\ LineageDown(q, reached)
  BY <1>1, LineageGoesDown
<1>7. LineageOf(p, 0) = {}
  BY <1>1, LineageIs DEF LineageStep
<1>8. LineageOf(p, tip) \subseteq LineageOf(q, reached)
  <2>1. CASE tip = 0
    BY <1>7, <2>1
  <2>2. CASE tip # 0
    BY <1>1, <1>4, <1>6, <2>2 DEF GoesForward, LineageDown
  <2> QED BY <2>1, <2>2
<1>9. LineageOf(p, tip) \subseteq 1..Len(p)
  BY <1>1, <1>2, <1>6 DEF LineageDown
<1> QED BY <1>4, <1>5, <1>7, <1>8, <1>9 DEF LineageKept

LEMMA FitsStays ==
    ASSUME NEW p, NEW tip, NEW files, NEW q, NEW reached, NEW filed,
           GoesForward(p, tip, files, q, reached, filed),
           NEW f \in LakeFrames, Fits(p, tip, files, f),
           NEW g \in LakeFrames, g = f \/ g = [f EXCEPT !.alone = FALSE],
           reached = tip \/ ~g.alone
    PROVE  Fits(q, reached, filed, g)
<1>1. LineageKept(p, tip, q, reached)
  BY LineageIsKept
<1>2. /\ g.pc = f.pc /\ g.pin = f.pin /\ g.base = f.base /\ g.snapshot = f.snapshot
      /\ g.mode = f.mode /\ g.count = f.count /\ g.metadata = f.metadata
      /\ (g.alone => f.alone)
  BY DEF LakeFrames
<1>3. /\ Len(p) \in Nat /\ Len(q) \in Nat /\ Len(p) <= Len(q) /\ tip \in 0..Len(p)
      /\ Len(files) \in Nat /\ Len(filed) \in Nat
      /\ Len(files) <= Len(filed) /\ \A i \in 1..Len(files) : filed[i] = files[i]
      /\ files # <<>> => filed # <<>>
  BY FormedIs DEF GoesForward, Longer
<1>4. tip # 0 => reached # 0
  <2>1. LineageOf(q, 0) = {}
    BY LineageIs DEF GoesForward, LineageStep
  <2> QED BY <2>1 DEF GoesForward
<1>5. f.pin \in 1..Len(p) => LineageOf(q, f.pin) = LineageOf(p, f.pin)
  BY <1>1, <1>3 DEF LineageKept
<1>6. g.alone => reached = tip
  OBVIOUS
<1>7. RowsOf(q, tip) = RowsOf(p, tip)
  BY <1>1, <1>3 DEF LineageKept
<1>8. g.pc = "swap" => g.pin \in 1..Len(q) /\ g.base \in LineageOf(q, g.pin)
  BY <1>2, <1>3, <1>5 DEF Fits
<1>9. g.pc = "state" =>
        /\ reached # 0 /\ filed # <<>>
        /\ g.pin # 0 => g.pin \in LineageOf(q, reached) /\ (g.alone => g.pin = reached)
  BY <1>1, <1>2, <1>3, <1>4, <1>6 DEF Fits, LineageKept
<1>10. g.pc \in {"point", "count", "number", "insert"} =>
        /\ g.snapshot \in LineageOf(q, reached)
        /\ g.alone => g.snapshot = reached /\ g.count = Cardinality(RowsOf(q, reached))
  BY <1>1, <1>2, <1>6, <1>7 DEF Fits, LineageKept
<1>11. g.pc = "point" =>
        g.metadata \in 1..Len(filed) /\ (g.alone => filed[g.metadata] = reached)
  BY <1>2, <1>3, <1>6 DEF Fits
<1>12. /\ g.pc \in {"load", "commit"} => g.pin = 0
       /\ g.pc = "commit" => g.mode \in {"append", "replace", "compact"}
  BY <1>2 DEF Fits
<1> QED BY <1>8, <1>9, <1>10, <1>11, <1>12 DEF Fits

LEMMA VersionsStayFit ==
    ASSUME NEW p, NEW tip, NEW files, NEW q, NEW reached, NEW filed,
           GoesForward(p, tip, files, q, reached, filed),
           NEW vs \in Seq(TableVersions), VersionsFit(p, tip, vs)
    PROVE  VersionsFit(q, reached, vs)
<1>1. LineageKept(p, tip, q, reached)
  BY LineageIsKept
<1>2. ASSUME NEW v \in 1..Len(vs), vs[v].snapshot # 0
      PROVE  vs[v].snapshot \in LineageOf(q, reached) /\ vs[v].snapshot \in 0..Len(p)
  <2>1. vs[v].snapshot \in LineageOf(p, tip)
    BY <1>2 DEF VersionsFit
  <2>2. vs[v].snapshot \in LineageOf(q, reached) /\ vs[v].snapshot \in 1..Len(p)
    BY <1>1, <2>1 DEF LineageKept
  <2> QED BY <2>2
<1>3. \A s \in 0..Len(p) : LineageOf(q, s) = LineageOf(p, s) /\ RowsOf(q, s) = RowsOf(p, s)
  BY <1>1 DEF LineageKept
<1> QED BY <1>2, <1>3 DEF VersionsFit

-----------------------------------------------------------------------------
LEMMA LineageOfIs == \A s : Lineage(s) = LineageOf(snapshots, s) /\ RowsAt(s) = RowsOf(snapshots, s)
BY DEF Lineage, LineageOf, RowsAt, RowsOf

TableGoesForward ==
    GoesForward(snapshots, Main, metadata, snapshots', Main', metadata')

LEMMA TableIsTyped ==
    ASSUME IcebergInv
    PROVE  /\ Formed(snapshots) /\ Len(snapshots) \in Nat /\ Main \in 0..Len(snapshots)
           /\ metadata \in Seq(Nat) /\ Len(metadata) \in Nat
           /\ refs \in [Branches \cup {"main"} -> 0..Len(snapshots)]
           /\ \A c \in LakeCalls : lake[c] \in LakeFrames
<1>1. IcebergTyped
  BY DEF IcebergInv
<1>2. Formed(snapshots) /\ Len(snapshots) \in Nat
  BY <1>1, FormedIs DEF IcebergTyped
<1>3. Main \in 0..Len(snapshots)
  BY <1>1 DEF IcebergTyped, Main
<1> QED BY <1>1, <1>2, <1>3 DEF IcebergTyped

LEMMA TableStays ==
    ASSUME IcebergInv, UNCHANGED lakeTable
    PROVE  TableGoesForward /\ Main' = Main
<1>1. Main' = Main /\ snapshots' = snapshots /\ metadata' = metadata
  BY DEF lakeTable, Main
<1>2. Longer(snapshots, snapshots)
  BY TableIsTyped DEF Longer
<1>3. Main # 0 => Main \in LineageOf(snapshots, Main)
  BY TableIsTyped, LineageGoesDown DEF LineageDown
<1> QED BY <1>1, <1>2, <1>3, TableIsTyped DEF TableGoesForward, GoesForward

\* The steps of one call, or of none, that leave main where it was.
LEMMA MainStays ==
    ASSUME IcebergInv, IcebergTyped', TableGoesForward, Main' = Main,
           metadata' = metadata \/ metadata' = Append(metadata, Main),
           UNCHANGED <<pointer, versions, adrift>>,
           \A d \in LakeCalls : lake'[d] = lake[d] \/
               /\ Fits(snapshots, Main, metadata, lake[d]) =>
                       Fits(snapshots', Main', metadata', lake'[d])
               /\ lake[d].pc \in {"state", "point"} => lake'[d].pc \in {"state", "point"}
    PROVE  IcebergInv'
<1>1. IF metadata' = <<>> THEN Main' = 0 ELSE metadata'[Len(metadata')] = Main'
  BY TableIsTyped DEF IcebergInv
<1>2. ASSUME NEW d \in LakeCalls PROVE Fits(snapshots', Main', metadata', lake'[d])
  <2>1. Fits(snapshots, Main, metadata, lake[d]) /\ lake[d] \in LakeFrames
    BY TableIsTyped DEF IcebergInv
  <2>2. CASE lake'[d] = lake[d]
    BY <2>1, <2>2, FitsStays DEF TableGoesForward
  <2>3. CASE lake'[d] # lake[d]
    BY <2>1, <2>3
  <2> QED BY <2>2, <2>3
<1>3. VersionsFit(snapshots', Main', versions')
  <2>1. versions \in Seq(TableVersions) /\ VersionsFit(snapshots, Main, versions)
    BY DEF IcebergInv, IcebergTyped
  <2> QED BY <2>1, VersionsStayFit DEF TableGoesForward
<1>4. ReadersSeeMain => ReadersSeeMain'
  <2>1. pointer \in 0..Len(metadata) /\ Len(metadata) \in Nat
    BY TableIsTyped DEF IcebergInv, IcebergTyped
  <2>2. \A i \in 1..Len(metadata) : metadata'[i] = metadata[i]
    BY DEF TableGoesForward, GoesForward
  <2> QED BY <2>1, <2>2 DEF ReadersSeeMain
<1>5. \A d \in LakeCalls : Pointing(d) => Pointing(d)'
  BY DEF Pointing
<1>6. ~adrift' => ReadersSeeMain' \/ \E d \in LakeCalls : Pointing(d)'
  BY <1>4, <1>5 DEF IcebergInv
<1> QED BY <1>1, <1>2, <1>3, <1>6 DEF IcebergInv

\* A call moves main: the others have been crossed.
LEMMA MainMoves ==
    ASSUME IcebergInv, IcebergTyped', TableGoesForward, NEW c \in LakeCalls, NEW f \in LakeFrames,
           Crossing(c, f), f.pc = "state", Fits(snapshots', Main', metadata', f),
           metadata' = Append(metadata, Main'),
           UNCHANGED <<pointer, versions, adrift>>
    PROVE  IcebergInv'
<1>1. IF metadata' = <<>> THEN Main' = 0 ELSE metadata'[Len(metadata')] = Main'
  BY TableIsTyped
<1>2. lake'[c] = f
  BY DEF Crossing
<1>3. ASSUME NEW d \in LakeCalls PROVE Fits(snapshots', Main', metadata', lake'[d])
  <2>1. CASE d = c
    BY <1>2, <2>1
  <2>2. CASE d # c /\ lake[d] = NoLakeCall
    <3>1. lake'[d] = NoLakeCall
      BY <2>2 DEF Crossing
    <3> QED BY <3>1 DEF Fits, NoLakeCall
  <2>3. CASE d # c /\ lake[d] # NoLakeCall
    <3>1. lake[d] \in LakeFrames /\ Fits(snapshots, Main, metadata, lake[d])
      BY TableIsTyped DEF IcebergInv
    <3>2. lake'[d] = [lake[d] EXCEPT !.alone = FALSE]
      BY <2>3 DEF Crossing
    <3>3. lake'[d] \in LakeFrames /\ ~lake'[d].alone
      BY <3>1, <3>2 DEF LakeFrames
    <3> QED BY <3>1, <3>2, <3>3, FitsStays DEF TableGoesForward
  <2> QED BY <2>1, <2>2, <2>3
<1>4. VersionsFit(snapshots', Main', versions')
  <2>1. versions \in Seq(TableVersions) /\ VersionsFit(snapshots, Main, versions)
    BY DEF IcebergInv, IcebergTyped
  <2> QED BY <2>1, VersionsStayFit DEF TableGoesForward
<1>5. Pointing(c)'
  BY <1>2 DEF Pointing
<1> QED BY <1>1, <1>3, <1>4, <1>5 DEF IcebergInv

\* What a step of c leaves its frame at.
LEMMA LakeFrameIs ==
    ASSUME IcebergInv, NEW c \in LakeCalls, NEW f, lake' = [lake EXCEPT ![c] = f]
    PROVE  /\ lake'[c] = f /\ \A d \in LakeCalls \ {c} : lake'[d] = lake[d]
           /\ f \in LakeFrames => lake' \in [LakeCalls -> LakeFrames]
BY DEF IcebergInv, IcebergTyped

LEMMA CallGoesOn ==
    ASSUME IcebergInv, NEW c \in LakeCalls, NEW f \in LakeFrames, lake' = [lake EXCEPT ![c] = f],
           Fits(snapshots, Main, metadata, lake[c]) => Fits(snapshots, Main, metadata, f),
           lake[c].pc \in {"state", "point"} => f.pc \in {"state", "point"},
           UNCHANGED <<lakeTable, pointer, versions, adrift>>
    PROVE  IcebergInv'
<1>1. IcebergTyped'
  <2>1. IcebergTyped
    BY DEF IcebergInv
  <2>2. lake' \in [LakeCalls -> LakeFrames]
    BY LakeFrameIs
  <2> QED BY <2>1, <2>2 DEF IcebergTyped, lakeTable
<1>2. TableGoesForward /\ Main' = Main
  BY TableStays
<1>3. snapshots' = snapshots /\ metadata' = metadata
  BY DEF lakeTable
<1> QED BY <1>1, <1>2, <1>3, LakeFrameIs, MainStays

LEMMA RowsTyped ==
    ASSUME IcebergInv, NEW s \in 0..Len(snapshots)
    PROVE  RowsAt(s) \in SUBSET Nat
<1>1. \A n \in 1..Len(snapshots) : snapshots[n] \in Snapshots
  BY TableIsTyped DEF Formed
<1>2. \A x \in Snapshots : x.rows \in SUBSET Nat
  BY DEF Snapshots
<1> QED BY <1>1, <1>2, TableIsTyped DEF RowsAt

LEMMA ZeroIsACount == 0 \in Counts /\ \A r \in SUBSET Nat : Cardinality(r) \in Counts
<1>1. Cardinality({}) = 0
  BY FS_EmptySet
<1> QED BY <1>1 DEF Counts

LEMMA CrossedTyped ==
    ASSUME IcebergInv, NEW c \in LakeCalls, NEW f \in LakeFrames, Crossing(c, f)
    PROVE  lake' \in [LakeCalls -> LakeFrames]
<1>1. \A d \in LakeCalls : [lake[d] EXCEPT !.alone = FALSE] \in LakeFrames
  BY TableIsTyped DEF LakeFrames
<1> QED BY <1>1, TableIsTyped DEF Crossing

LEMMA LoadTableKeeps == ASSUME IcebergInv, NEW c \in LakeCalls, LoadTable(c) PROVE IcebergInv'
<1>1. PICK mode \in {"append", "replace"} :
          Enter(c, [NoLakeCall EXCEPT !.pc = "commit", !.mode = mode, !.base = Main])
  BY DEF LoadTable
<1> DEFINE f == [NoLakeCall EXCEPT !.pc = "commit", !.mode = mode, !.base = Main]
<1>2. Main \in Nat
  BY TableIsTyped
<1>3. f \in LakeFrames
  BY <1>2, ZeroIsACount DEF LakeFrames, NoLakeCall
<1>4. lake[c].pc = "idle" /\ lake' = [lake EXCEPT ![c] = f]
  BY <1>1 DEF Enter, NoLakeCall
<1>5. Fits(snapshots, Main, metadata, f)
  BY DEF Fits, NoLakeCall
<1> HIDE DEF f
<1> QED BY <1>3, <1>4, <1>5, CallGoesOn DEF LoadTable

LEMMA ReadToCompactKeeps == ASSUME IcebergInv, NEW c \in LakeCalls, ReadToCompact(c) PROVE IcebergInv'
<1> DEFINE rows == RowsAt(Main)
           f == [NoLakeCall EXCEPT !.pc = "load", !.rows = rows]
<1>1. rows \in SUBSET Nat
  BY TableIsTyped, RowsTyped
<1>2. lake[c].pc = "idle" /\ lake' = [lake EXCEPT ![c] = f]
  BY DEF ReadToCompact, Enter, NoLakeCall
<1> HIDE DEF rows
<1>0. f \in LakeFrames
  BY <1>1, ZeroIsACount DEF LakeFrames, NoLakeCall
<1>3. Fits(snapshots, Main, metadata, f)
  BY DEF Fits, NoLakeCall
<1> HIDE DEF f
<1> QED BY <1>0, <1>2, <1>3, CallGoesOn DEF ReadToCompact

LEMMA LoadToCompactKeeps == ASSUME IcebergInv, NEW c \in LakeCalls, LoadToCompact(c) PROVE IcebergInv'
<1> DEFINE f == [lake[c] EXCEPT !.pc = "commit", !.mode = "compact", !.base = Main]
<1>0. lake[c] \in LakeFrames /\ Main \in Nat
  BY TableIsTyped
<1>1. f \in LakeFrames
  BY <1>0 DEF LakeFrames
<1>2. lake[c].pc = "load" /\ lake' = [lake EXCEPT ![c] = f]
  BY DEF LoadToCompact, Then
<1>3. Fits(snapshots, Main, metadata, lake[c]) => Fits(snapshots, Main, metadata, f)
  BY <1>2, TableIsTyped DEF Fits, LakeFrames
<1> HIDE DEF f
<1> QED BY <1>1, <1>2, <1>3, CallGoesOn DEF LoadToCompact

LEMMA ConcludeKeeps ==
    ASSUME IcebergInv, NEW c \in LakeCalls, Conclude(c), lake[c].pc \notin {"state", "point"},
           UNCHANGED <<lakeTable, pointer, versions, adrift>>
    PROVE  IcebergInv'
<1>1. NoLakeCall \in LakeFrames /\ Fits(snapshots, Main, metadata, NoLakeCall)
  BY ZeroIsACount DEF LakeFrames, NoLakeCall, Fits
<1> QED BY <1>1, CallGoesOn DEF Conclude

\* A snapshot is added.
LEMMA CommitExtends ==
    ASSUME IcebergInv, NEW ref \in DOMAIN refs, NEW rows \in SUBSET Nat, CommitSnapshot(ref, rows)
    PROVE  /\ Formed(snapshots') /\ Longer(snapshots, snapshots')
           /\ Len(snapshots') = Len(snapshots) + 1
           /\ snapshots'[Len(snapshots) + 1].parent = refs[ref]
           /\ refs' \in [Branches \cup {"main"} -> 0..Len(snapshots')]
           /\ refs'[ref] = Len(snapshots) + 1
           /\ \A b \in DOMAIN refs \ {ref} : refs'[b] = refs[b]
           /\ metadata' = Append(metadata, Main')
<1> DEFINE e == [parent |-> refs[ref], rows |-> rows]
<1>1. refs[ref] \in 0..Len(snapshots) /\ Len(snapshots) \in Nat
  BY TableIsTyped
<1>2. e \in Snapshots
  BY <1>1 DEF Snapshots
<1>3. snapshots \in Seq(Snapshots) /\ \A n \in 1..Len(snapshots) : snapshots[n].parent < n
  BY TableIsTyped DEF Formed
<1>4. snapshots' = Append(snapshots, e)
  BY DEF CommitSnapshot
<1>5. e.parent = refs[ref]
  OBVIOUS
<1> HIDE DEF e
<1>6. /\ snapshots' \in Seq(Snapshots) /\ Len(snapshots') = Len(snapshots) + 1
      /\ snapshots'[Len(snapshots) + 1] = e
      /\ \A n \in 1..Len(snapshots) : snapshots'[n] = snapshots[n]
  BY <1>2, <1>3, <1>4
<1>7. Formed(snapshots')
  BY <1>1, <1>3, <1>5, <1>6 DEF Formed
<1>8. refs' = [refs EXCEPT ![ref] = Len(snapshots) + 1] /\ metadata' = Append(metadata, Main')
  BY DEF CommitSnapshot, Main
<1> QED BY <1>1, <1>5, <1>6, <1>7, <1>8, TableIsTyped DEF Longer

LEMMA CommitKeeps == ASSUME IcebergInv, NEW c \in LakeCalls, Commit(c) PROVE IcebergInv'
<1>0. lake[c].pc = "commit" /\ lake[c] \in LakeFrames /\ UNCHANGED <<pointer, versions, adrift>>
  BY TableIsTyped DEF Commit
<1>1. CASE lake[c].base # Main
  BY <1>0, <1>1, ConcludeKeeps DEF Commit
<1>2. CASE lake[c].base = Main
  <2> DEFINE f == [lake[c] EXCEPT !.pc = "state"]
  <2>1. CommitSnapshot("main", Written(c)) /\ Crossing(c, f)
    BY <1>0, <1>2 DEF Commit
  <2>2. Written(c) \in SUBSET Nat
    <3>1. RowsAt(Main) \in SUBSET Nat /\ lake[c].rows \in SUBSET Nat /\ Len(snapshots) + 1 \in Nat
      BY <1>0, TableIsTyped, RowsTyped DEF LakeFrames
    <3>2. lake[c].mode \in {"append", "replace", "compact"}
      BY <1>0 DEF IcebergInv, Fits
    <3> QED BY <3>1, <3>2 DEF Written
  <2>3. f \in LakeFrames /\ f.pc = "state" /\ f.pin = 0
    <3>1. Fits(snapshots, Main, metadata, lake[c])
      BY DEF IcebergInv
    <3> QED BY <1>0, <3>1 DEF LakeFrames, Fits
  <2>4. "main" \in DOMAIN refs /\ Main = refs["main"] /\ Main' = refs'["main"]
    BY TableIsTyped DEF Main
  <2>5. /\ Formed(snapshots') /\ Longer(snapshots, snapshots')
        /\ Len(snapshots') = Len(snapshots) + 1 /\ Main' = Len(snapshots) + 1
        /\ snapshots'[Len(snapshots) + 1].parent = Main
        /\ refs' \in [Branches \cup {"main"} -> 0..Len(snapshots')]
        /\ metadata' = Append(metadata, Main')
    BY <2>1, <2>2, <2>4, CommitExtends
  <2>6. TableGoesForward
    <3>1. LineageOf(snapshots', Main') = {Main'} \cup LineageOf(snapshots', Main)
      <4>1. Main' \in 1..Len(snapshots') /\ snapshots'[Main'].parent = Main
        BY <2>5, TableIsTyped
      <4> QED BY <2>5, <4>1, LineageIs DEF LineageStep
    <3>2. Main \in 0..Len(snapshots') /\ Main' \in 0..Len(snapshots')
      BY <2>5, TableIsTyped
    <3>3. Main # 0 => Main \in LineageOf(snapshots', Main)
      BY <2>5, <3>2, LineageGoesDown DEF LineageDown
    <3>4. metadata' \in Seq(Nat) /\ Len(metadata) <= Len(metadata')
          /\ \A i \in 1..Len(metadata) : metadata'[i] = metadata[i]
      BY <2>5, TableIsTyped
    <3> QED BY <2>5, <3>1, <3>2, <3>3, <3>4, TableIsTyped DEF TableGoesForward, GoesForward
  <2>7. Fits(snapshots', Main', metadata', f)
    <3>1. Main' # 0 /\ metadata' # <<>>
      BY <2>5, TableIsTyped
    <3> QED BY <2>3, <3>1 DEF Fits
  <2> HIDE DEF f
  <2>8. IcebergTyped'
    <3>1. lake' \in [LakeCalls -> LakeFrames]
      BY <2>1, <2>3, CrossedTyped
    <3>2. pointer' \in 0..Len(metadata') /\ metadata' \in Seq(Nat) /\ versions' \in Seq(TableVersions)
      BY <1>0, <2>6, TableIsTyped DEF IcebergInv, IcebergTyped, TableGoesForward, GoesForward
    <3> QED BY <2>5, <3>1, <3>2 DEF IcebergTyped
  <2> QED BY <1>0, <2>1, <2>3, <2>5, <2>6, <2>7, <2>8, MainMoves
<1> QED BY <1>1, <1>2

LEMMA ReadTableKeeps == ASSUME IcebergInv, NEW c \in LakeCalls, ReadTable(c) PROVE IcebergInv'
<1> DEFINE pinned == IF lake[c].pin # 0 THEN lake[c].pin ELSE Main
           count == Cardinality(RowsAt(Main))
           f == [lake[c] EXCEPT !.pc = "point", !.metadata = Len(metadata), !.snapshot = pinned,
                                !.count = count]
<1>1. /\ lake[c] \in LakeFrames /\ lake[c].pc = "state" /\ lake' = [lake EXCEPT ![c] = f]
      /\ Fits(snapshots, Main, metadata, lake[c]) /\ UNCHANGED <<lakeTable, pointer, versions, adrift>>
  BY TableIsTyped DEF ReadTable, Then, IcebergInv
<1>2. count \in Counts /\ count = Cardinality(RowsOf(snapshots, Main))
  BY ZeroIsACount, TableIsTyped, RowsTyped, LineageOfIs
<1>3. pinned \in Nat /\ Len(metadata) \in Nat
  BY <1>1, TableIsTyped DEF LakeFrames
<1>4. pinned \in LineageOf(snapshots, Main) /\ (lake[c].alone => pinned = Main)
  <2>1. Main # 0 /\ Main \in LineageOf(snapshots, Main)
    BY <1>1, TableIsTyped, LineageGoesDown DEF Fits, LineageDown
  <2> QED BY <1>1, <2>1 DEF Fits
<1>5. Len(metadata) \in 1..Len(metadata) /\ metadata[Len(metadata)] = Main
  BY <1>1, TableIsTyped DEF Fits, IcebergInv
<1> HIDE DEF pinned, count
<1>6. /\ f \in LakeFrames /\ f.pc = "point" /\ f.metadata = Len(metadata) /\ f.snapshot = pinned
      /\ f.count = count /\ f.alone = lake[c].alone
  BY <1>1, <1>2, <1>3 DEF LakeFrames
<1> HIDE DEF f
<1>7. Fits(snapshots, Main, metadata, f)
  BY <1>2, <1>4, <1>5, <1>6 DEF Fits
<1> QED BY <1>1, <1>6, <1>7, CallGoesOn

LEMMA CountRowsKeeps == ASSUME IcebergInv, NEW c \in LakeCalls, CountRows(c) PROVE IcebergInv'
<1> DEFINE count == Cardinality(RowsAt(Main))
           f == [lake[c] EXCEPT !.pc = "number", !.count = count]
<1>1. /\ lake[c] \in LakeFrames /\ lake[c].pc = "count" /\ lake' = [lake EXCEPT ![c] = f]
      /\ Fits(snapshots, Main, metadata, lake[c]) /\ UNCHANGED <<lakeTable, pointer, versions, adrift>>
  BY TableIsTyped DEF CountRows, Then, IcebergInv
<1>2. count \in Counts /\ count = Cardinality(RowsOf(snapshots, Main))
  BY ZeroIsACount, TableIsTyped, RowsTyped, LineageOfIs
<1> HIDE DEF count
<1>3. /\ f \in LakeFrames /\ f.pc = "number" /\ f.snapshot = lake[c].snapshot
      /\ f.count = count /\ f.alone = lake[c].alone
  BY <1>1, <1>2 DEF LakeFrames
<1> HIDE DEF f
<1>4. Fits(snapshots, Main, metadata, f)
  BY <1>1, <1>2, <1>3 DEF Fits
<1> QED BY <1>1, <1>3, <1>4, CallGoesOn

LEMMA NextVersionKeeps == ASSUME IcebergInv, NEW c \in LakeCalls, NextVersion(c) PROVE IcebergInv'
<1> DEFINE f == [lake[c] EXCEPT !.pc = "insert", !.number = Len(versions) + 1]
<1>1. /\ lake[c] \in LakeFrames /\ lake[c].pc = "number" /\ lake' = [lake EXCEPT ![c] = f]
      /\ Fits(snapshots, Main, metadata, lake[c]) /\ UNCHANGED <<lakeTable, pointer, versions, adrift>>
  BY TableIsTyped DEF NextVersion, Then, IcebergInv
<1>2. Len(versions) + 1 \in Nat
  BY DEF IcebergInv, IcebergTyped
<1>3. /\ f \in LakeFrames /\ f.pc = "insert" /\ f.snapshot = lake[c].snapshot
      /\ f.count = lake[c].count /\ f.alone = lake[c].alone
  BY <1>1, <1>2 DEF LakeFrames
<1> HIDE DEF f
<1>4. Fits(snapshots, Main, metadata, f)
  BY <1>1, <1>3 DEF Fits
<1> QED BY <1>1, <1>3, <1>4, CallGoesOn

LEMMA LoadToMergeKeeps == ASSUME IcebergInv, NEW c \in LakeCalls, LoadToMerge(c) PROVE IcebergInv'
<1>1. PICK b \in Branches :
          /\ refs[b] # 0 /\ Main # 0 /\ FastForward(refs[b])
          /\ Enter(c, [NoLakeCall EXCEPT !.pc = IF refs[b] = Main THEN "state" ELSE "swap",
                                        !.mode = "merge", !.base = Main, !.pin = refs[b]])
  BY DEF LoadToMerge
<1> DEFINE tip == refs[b]
           f == [NoLakeCall EXCEPT !.pc = IF tip = Main THEN "state" ELSE "swap",
                                   !.mode = "merge", !.base = Main, !.pin = tip]
<1>2. tip \in 1..Len(snapshots) /\ Main \in Nat /\ tip \in Nat
  BY <1>1, TableIsTyped
<1>3. lake[c].pc = "idle" /\ lake' = [lake EXCEPT ![c] = f]
  BY <1>1 DEF Enter, NoLakeCall
<1>4. Main \in LineageOf(snapshots, tip) /\ Main # 0
  BY <1>1, LineageOfIs DEF FastForward
<1> HIDE DEF tip
<1>5. /\ f \in LakeFrames /\ f.pin = tip /\ f.base = Main
      /\ f.pc = IF tip = Main THEN "state" ELSE "swap"
  BY <1>2, ZeroIsACount DEF LakeFrames, NoLakeCall
<1> HIDE DEF f
<1>6. metadata # <<>>
  BY <1>1 DEF IcebergInv
<1>7. Fits(snapshots, Main, metadata, f)
  BY <1>2, <1>4, <1>5, <1>6 DEF Fits
<1> QED BY <1>3, <1>5, <1>7, CallGoesOn DEF LoadToMerge

LEMMA SwapMainKeeps == ASSUME IcebergInv, NEW c \in LakeCalls, SwapMain(c) PROVE IcebergInv'
<1>0. /\ lake[c].pc = "swap" /\ lake[c] \in LakeFrames /\ UNCHANGED <<pointer, versions, adrift>>
      /\ Fits(snapshots, Main, metadata, lake[c])
  BY TableIsTyped DEF SwapMain, IcebergInv
<1>1. CASE lake[c].base # Main
  BY <1>0, <1>1, ConcludeKeeps DEF SwapMain
<1>2. CASE lake[c].base = Main
  <2> DEFINE f == [lake[c] EXCEPT !.pc = "state"]
             tip == lake[c].pin
  <2>1. /\ refs' = [refs EXCEPT !["main"] = tip] /\ metadata' = Append(metadata, tip)
        /\ Crossing(c, f) /\ snapshots' = snapshots
    BY <1>0, <1>2 DEF SwapMain
  <2>2. tip \in 1..Len(snapshots) /\ Main \in LineageOf(snapshots, tip)
    BY <1>0, <1>2 DEF Fits
  <2>3. f \in LakeFrames /\ f.pc = "state" /\ f.pin = tip
    BY <1>0 DEF LakeFrames
  <2> HIDE DEF tip, f
  <2>4. Main' = tip /\ refs' \in [Branches \cup {"main"} -> 0..Len(snapshots)]
    BY <2>1, <2>2, TableIsTyped DEF Main
  <2>5. tip # 0 /\ tip \in LineageOf(snapshots, tip)
    BY <2>2, TableIsTyped, LineageGoesDown DEF LineageDown
  <2>6. /\ metadata' \in Seq(Nat) /\ Len(metadata') = Len(metadata) + 1 /\ metadata' # <<>>
        /\ \A i \in 1..Len(metadata) : metadata'[i] = metadata[i]
    BY <2>1, <2>2, TableIsTyped
  <2>7. TableGoesForward
    <3>1. Longer(snapshots, snapshots')
      BY <2>1, TableIsTyped DEF Longer
    <3>2. Main' \in 0..Len(snapshots') /\ (Main # 0 => Main \in LineageOf(snapshots', Main'))
      BY <2>1, <2>2, <2>4
    <3> QED BY <2>1, <2>6, <3>1, <3>2, TableIsTyped DEF TableGoesForward, GoesForward
  <2>8. Fits(snapshots', Main', metadata', f)
    BY <2>1, <2>3, <2>4, <2>5, <2>6 DEF Fits
  <2>9. IcebergTyped'
    <3>1. lake' \in [LakeCalls -> LakeFrames]
      BY <2>1, <2>3, CrossedTyped
    <3>2. pointer' \in 0..Len(metadata') /\ metadata' \in Seq(Nat) /\ versions' \in Seq(TableVersions)
      BY <1>0, <2>6, TableIsTyped DEF IcebergInv, IcebergTyped
    <3> QED BY <2>1, <2>4, <3>1, <3>2, TableIsTyped DEF IcebergTyped
  <2> QED BY <1>0, <2>1, <2>3, <2>4, <2>7, <2>8, <2>9, MainMoves
<1> QED BY <1>1, <1>2

\* A commit of metadata that moves no branch's tip but perhaps b's.
LEMMA BesideMain ==
    ASSUME IcebergInv, Formed(snapshots'), Longer(snapshots, snapshots'),
           Len(snapshots) <= Len(snapshots'),
           refs' \in [Branches \cup {"main"} -> 0..Len(snapshots')],
           Main' = Main, metadata' = Append(metadata, Main)
    PROVE  /\ TableGoesForward
           /\ UNCHANGED <<pointer, versions>> /\ lake' \in [LakeCalls -> LakeFrames] => IcebergTyped'
<1>1. /\ metadata' \in Seq(Nat) /\ Len(metadata') = Len(metadata) + 1
      /\ \A i \in 1..Len(metadata) : metadata'[i] = metadata[i]
  BY TableIsTyped
<1>2. Len(snapshots') \in Nat /\ Main' \in 0..Len(snapshots')
  BY FormedIs, TableIsTyped
<1>3. Main # 0 => Main \in LineageOf(snapshots', Main')
  BY <1>2, LineageGoesDown DEF LineageDown
<1>4. TableGoesForward
  BY <1>1, <1>2, <1>3, TableIsTyped DEF TableGoesForward, GoesForward
<1>5. ASSUME UNCHANGED <<pointer, versions>>, lake' \in [LakeCalls -> LakeFrames]
      PROVE  IcebergTyped'
  <2>1. pointer' \in 0..Len(metadata') /\ versions' \in Seq(TableVersions)
    BY <1>1, <1>5, TableIsTyped DEF IcebergInv, IcebergTyped
  <2> QED BY <1>1, <1>5, <2>1 DEF IcebergTyped
<1> QED BY <1>4, <1>5

LEMMA CreateBranchKeeps == ASSUME IcebergInv, CreateBranch PROVE IcebergInv'
<1>1. PICK b \in Branches, v \in 0..Len(versions) :
          /\ refs' = [refs EXCEPT ![b] = LET pinned == IF v = 0 THEN 0 ELSE versions[v].snapshot
                                         IN  IF pinned # 0 THEN pinned ELSE Main]
          /\ metadata' = Append(metadata, Main)
          /\ UNCHANGED <<snapshots, pointer, versions, lake, adrift>>
  BY DEF CreateBranch
<1> DEFINE pinned == IF v = 0 THEN 0 ELSE versions[v].snapshot
           start == IF pinned # 0 THEN pinned ELSE Main
<1>2. start \in 0..Len(snapshots)
  <2>1. CASE v # 0 /\ versions[v].snapshot # 0
    <3>1. v \in 1..Len(versions) /\ VersionsFit(snapshots, Main, versions)
      BY <2>1 DEF IcebergInv, IcebergTyped
    <3>2. versions[v].snapshot \in LineageOf(snapshots, Main)
      BY <2>1, <3>1 DEF VersionsFit
    <3>3. LineageOf(snapshots, Main) \subseteq 1..Main
      BY TableIsTyped, LineageGoesDown DEF LineageDown
    <3> QED BY <2>1, <3>2, <3>3, TableIsTyped
  <2>2. CASE ~(v # 0 /\ versions[v].snapshot # 0)
    BY <2>2, TableIsTyped
  <2> QED BY <2>1, <2>2
<1>3. refs' = [refs EXCEPT ![b] = start]
  BY <1>1
<1> HIDE DEF start
<1>4. Main' = Main /\ refs' \in [Branches \cup {"main"} -> 0..Len(snapshots')]
  BY <1>1, <1>2, <1>3, TableIsTyped, IcebergAssumption DEF Main
<1>5. Longer(snapshots, snapshots') /\ Len(snapshots) <= Len(snapshots') /\ Formed(snapshots')
  BY <1>1, TableIsTyped DEF Longer
<1>6. lake' \in [LakeCalls -> LakeFrames]
  BY <1>1 DEF IcebergInv, IcebergTyped
<1> QED BY <1>1, <1>4, <1>5, <1>6, BesideMain, MainStays

LEMMA DeleteBranchKeeps == ASSUME IcebergInv, DeleteBranch PROVE IcebergInv'
<1>1. PICK b \in Branches :
          /\ refs' = [refs EXCEPT ![b] = 0] /\ metadata' = Append(metadata, Main)
          /\ UNCHANGED <<snapshots, pointer, versions, lake, adrift>>
  BY DEF DeleteBranch
<1>2. Main' = Main /\ refs' \in [Branches \cup {"main"} -> 0..Len(snapshots')]
  BY <1>1, TableIsTyped, IcebergAssumption DEF Main
<1>3. Longer(snapshots, snapshots') /\ Len(snapshots) <= Len(snapshots') /\ Formed(snapshots')
  BY <1>1, TableIsTyped DEF Longer
<1>4. lake' \in [LakeCalls -> LakeFrames]
  BY <1>1 DEF IcebergInv, IcebergTyped
<1> QED BY <1>1, <1>2, <1>3, <1>4, BesideMain, MainStays

LEMMA WriteBranchKeeps == ASSUME IcebergInv, WriteBranch PROVE IcebergInv'
<1>1. PICK b \in Branches :
          /\ CommitSnapshot(b, RowsAt(refs[b]) \cup {Len(snapshots) + 1})
          /\ UNCHANGED <<pointer, versions, lake, lakeCalls, adrift>>
  BY DEF WriteBranch
<1> DEFINE rows == RowsAt(refs[b]) \cup {Len(snapshots) + 1}
<1>2. b \in DOMAIN refs /\ refs[b] \in 0..Len(snapshots) /\ "main" \in DOMAIN refs \ {b}
  BY TableIsTyped, IcebergAssumption
<1>3. rows \in SUBSET Nat
  <2>1. RowsAt(refs[b]) \in SUBSET Nat
    BY <1>2, RowsTyped
  <2> QED BY <2>1, TableIsTyped
<1> HIDE DEF rows
<1>4. CommitSnapshot(b, rows)
  BY <1>1 DEF rows
<1>5. /\ Formed(snapshots') /\ Longer(snapshots, snapshots')
      /\ Len(snapshots') = Len(snapshots) + 1
      /\ refs' \in [Branches \cup {"main"} -> 0..Len(snapshots')]
      /\ Main' = Main /\ metadata' = Append(metadata, Main')
  BY <1>2, <1>3, <1>4, CommitExtends DEF Main
<1>6. Len(snapshots) <= Len(snapshots')
  BY <1>5, TableIsTyped
<1>7. lake' \in [LakeCalls -> LakeFrames]
  BY <1>1 DEF IcebergInv, IcebergTyped
<1> QED BY <1>1, <1>5, <1>6, <1>7, BesideMain, MainStays

LEMMA EvolveSchemaKeeps == ASSUME IcebergInv, NEW c \in LakeCalls, EvolveSchema(c) PROVE IcebergInv'
<1> DEFINE f == [NoLakeCall EXCEPT !.pc = "state", !.mode = "schema"]
<1>1. /\ Main # 0 /\ lake[c].pc = "idle" /\ lake' = [lake EXCEPT ![c] = f]
      /\ metadata' = Append(metadata, Main) /\ UNCHANGED <<snapshots, refs, pointer, versions, adrift>>
  BY DEF EvolveSchema, Enter, NoLakeCall
<1>2. f \in LakeFrames /\ f.pc = "state" /\ f.pin = 0
  BY ZeroIsACount DEF LakeFrames, NoLakeCall
<1> HIDE DEF f
<1>3. Main' = Main /\ refs' \in [Branches \cup {"main"} -> 0..Len(snapshots')]
  BY <1>1, TableIsTyped DEF Main
<1>4. Longer(snapshots, snapshots') /\ Len(snapshots) <= Len(snapshots') /\ Formed(snapshots')
  BY <1>1, TableIsTyped DEF Longer
<1>5. lake' \in [LakeCalls -> LakeFrames] /\ lake'[c] = f /\ \A d \in LakeCalls \ {c} : lake'[d] = lake[d]
  BY <1>1, <1>2, LakeFrameIs
<1>6. metadata' # <<>> /\ Main' # 0
  BY <1>1, <1>3, TableIsTyped
<1>7. Fits(snapshots', Main', metadata', f)
  BY <1>2, <1>6 DEF Fits
<1>8. TableGoesForward /\ IcebergTyped'
  BY <1>1, <1>3, <1>4, <1>5, BesideMain
<1> QED BY <1>1, <1>3, <1>5, <1>7, <1>8, MainStays

\* What is left of the invariant when only frames, the pointer and versions
\* have changed.
LEMMA TableUntouched ==
    ASSUME IcebergInv, UNCHANGED lakeTable, NEW c \in LakeCalls, NEW f \in LakeFrames,
           lake' = [lake EXCEPT ![c] = f], Fits(snapshots, Main, metadata, f),
           pointer' \in 0..Len(metadata), versions' \in Seq(TableVersions),
           VersionsFit(snapshots, Main, versions'),
           ~adrift' => ReadersSeeMain' \/ \E d \in LakeCalls : Pointing(d)'
    PROVE  IcebergInv'
<1>1. snapshots' = snapshots /\ metadata' = metadata /\ refs' = refs /\ Main' = Main
  BY DEF lakeTable, Main
<1>2. lake' \in [LakeCalls -> LakeFrames] /\ lake'[c] = f /\ \A d \in LakeCalls \ {c} : lake'[d] = lake[d]
  BY LakeFrameIs
<1>3. \A d \in LakeCalls : Fits(snapshots, Main, metadata, lake'[d])
  BY <1>2 DEF IcebergInv
<1>4. IcebergTyped'
  BY <1>1, <1>2 DEF IcebergInv, IcebergTyped
<1> QED BY <1>1, <1>3, <1>4 DEF IcebergInv

LEMMA SetSourceKeeps == ASSUME IcebergInv, NEW c \in LakeCalls, SetSource(c) PROVE IcebergInv'
<1> DEFINE f == IF lake[c].mode = "schema" THEN NoLakeCall
                ELSE [lake[c] EXCEPT !.pc = IF lake[c].pin = 0 THEN "number" ELSE "count"]
<1>1. /\ lake[c] \in LakeFrames /\ lake[c].pc = "point" /\ Fits(snapshots, Main, metadata, lake[c])
      /\ pointer' = lake[c].metadata /\ adrift' = ~lake[c].alone /\ UNCHANGED <<lakeTable, versions>>
  BY TableIsTyped DEF SetSource, IcebergInv
<1>2. lake' = [lake EXCEPT ![c] = f]
  BY DEF SetSource, Conclude, Then
<1>3. f \in LakeFrames /\ Fits(snapshots, Main, metadata, f)
  <2>1. CASE lake[c].mode = "schema"
    BY <2>1, ZeroIsACount DEF LakeFrames, NoLakeCall, Fits
  <2>2. CASE lake[c].mode # "schema"
    <3>1. /\ f \in LakeFrames /\ f.pc \in {"number", "count"} /\ f.snapshot = lake[c].snapshot
          /\ f.count = lake[c].count /\ f.alone = lake[c].alone
      BY <1>1, <2>2 DEF LakeFrames
    <3> HIDE DEF f
    <3> QED BY <1>1, <3>1 DEF Fits
  <2> QED BY <2>1, <2>2
<1> HIDE DEF f
<1>4. pointer' \in 1..Len(metadata) /\ (lake[c].alone => metadata[pointer'] = Main)
  BY <1>1 DEF Fits
<1>5. ~adrift' => ReadersSeeMain'
  <2>1. metadata' = metadata /\ Main' = Main /\ pointer' # 0
    BY <1>1, <1>4, TableIsTyped DEF lakeTable, Main
  <2> QED BY <1>1, <1>4, <2>1 DEF ReadersSeeMain
<1>6. pointer' \in 0..Len(metadata)
  BY <1>4, TableIsTyped
<1>7. versions' \in Seq(TableVersions) /\ VersionsFit(snapshots, Main, versions')
  BY <1>1 DEF IcebergInv, IcebergTyped
<1> QED BY <1>1, <1>2, <1>3, <1>5, <1>6, <1>7, TableUntouched

LEMMA AddVersionKeeps == ASSUME IcebergInv, NEW c \in LakeCalls, AddVersion(c) PROVE IcebergInv'
<1>1. /\ lake[c] \in LakeFrames /\ lake[c].pc = "insert" /\ Fits(snapshots, Main, metadata, lake[c])
      /\ lake' = [lake EXCEPT ![c] = NoLakeCall] /\ UNCHANGED <<lakeTable, pointer, adrift>>
  BY TableIsTyped DEF AddVersion, Conclude, IcebergInv
<1>2. CASE versions' = versions
  BY <1>1, <1>2, ConcludeKeeps DEF Conclude
<1>3. CASE versions' # versions
  <2> DEFINE e == [snapshot |-> lake[c].snapshot, rows |-> lake[c].count, alone |-> lake[c].alone]
             n == Len(versions)
  <2>1. versions' = Append(versions, e)
    BY <1>3 DEF AddVersion
  <2>2. e \in TableVersions /\ e.snapshot = lake[c].snapshot /\ e.rows = lake[c].count
        /\ e.alone = lake[c].alone
    BY <1>1 DEF LakeFrames, TableVersions
  <2>3. /\ e.snapshot \in LineageOf(snapshots, Main)
        /\ e.alone => e.snapshot = Main /\ e.rows = Cardinality(RowsOf(snapshots, Main))
    BY <1>1, <2>2 DEF Fits
  <2> HIDE DEF e
  <2>4. versions \in Seq(TableVersions) /\ n \in Nat /\ VersionsFit(snapshots, Main, versions)
    BY DEF IcebergInv, IcebergTyped
  <2>5. /\ versions' \in Seq(TableVersions) /\ Len(versions') = n + 1 /\ versions'[n + 1] = e
        /\ \A v \in 1..n : versions'[v] = versions[v]
    BY <2>1, <2>2, <2>4
  <2> HIDE DEF n
  <2>6. VersionsFit(snapshots, Main, versions')
    <3>1. \A v \in 1..n : versions'[v].snapshot # 0 => versions'[v].snapshot \in LineageOf(snapshots, Main)
      BY <2>4, <2>5 DEF VersionsFit, n
    <3>2. ASSUME NEW v \in 1..Len(versions')
          PROVE  versions'[v].snapshot # 0 => versions'[v].snapshot \in LineageOf(snapshots, Main)
      BY <2>3, <2>4, <2>5, <3>1
    <3>3. ASSUME NEW v \in 1..Len(versions'), versions'[v].snapshot # 0, versions'[v].alone
          PROVE  /\ versions'[v].rows = Cardinality(RowsOf(snapshots, versions'[v].snapshot))
                 /\ \A u \in 1..(v - 1) : versions'[u].snapshot # 0 /\ versions'[u].alone =>
                        versions'[u].snapshot \in LineageOf(snapshots, versions'[v].snapshot)
      <4>1. CASE v = n + 1
        BY <2>3, <2>4, <2>5, <3>1, <3>3, <4>1
      <4>2. CASE v \in 1..n
        <5>1. versions'[v] = versions[v] /\ \A u \in 1..(v - 1) : versions'[u] = versions[u]
          BY <2>4, <2>5, <4>2
        <5> QED BY <2>4, <3>3, <4>2, <5>1 DEF VersionsFit, n
      <4> QED BY <2>4, <2>5, <4>1, <4>2
    <3> QED BY <3>2, <3>3 DEF VersionsFit
  <2>7. NoLakeCall \in LakeFrames /\ Fits(snapshots, Main, metadata, NoLakeCall)
    BY ZeroIsACount DEF LakeFrames, NoLakeCall, Fits
  <2>8. ~adrift' => ReadersSeeMain' \/ \E d \in LakeCalls : Pointing(d)'
    <3>1. ReadersSeeMain => ReadersSeeMain'
      BY <1>1 DEF ReadersSeeMain, lakeTable, Main
    <3>2. \A d \in LakeCalls : Pointing(d) => Pointing(d)'
      BY <1>1, <2>7, LakeFrameIs DEF Pointing
    <3> QED BY <1>1, <3>1, <3>2 DEF IcebergInv
  <2>9. pointer' \in 0..Len(metadata)
    BY <1>1 DEF IcebergInv, IcebergTyped
  <2> QED BY <1>1, <2>5, <2>6, <2>7, <2>8, <2>9, TableUntouched
<1> QED BY <1>2, <1>3

LEMMA DieKeeps == ASSUME IcebergInv, NEW c \in LakeCalls, Die(c) PROVE IcebergInv'
<1>1. lake' = [lake EXCEPT ![c] = NoLakeCall] /\ UNCHANGED <<lakeTable, pointer, versions>>
  BY DEF Die, Conclude
<1>2. NoLakeCall \in LakeFrames /\ Fits(snapshots, Main, metadata, NoLakeCall)
  BY ZeroIsACount DEF LakeFrames, NoLakeCall, Fits
<1>3. ~adrift' => ReadersSeeMain' \/ \E d \in LakeCalls : Pointing(d)'
  <2>1. ReadersSeeMain => ReadersSeeMain'
    BY <1>1 DEF ReadersSeeMain, lakeTable, Main
  <2>2. \A d \in LakeCalls \ {c} : Pointing(d) => Pointing(d)'
    BY <1>1, <1>2, LakeFrameIs DEF Pointing
  <2>3. ~adrift' => ~adrift /\ ~Pointing(c)
    BY DEF Die, Pointing
  <2> QED BY <2>1, <2>2, <2>3 DEF IcebergInv
<1>4. pointer' \in 0..Len(metadata) /\ versions' \in Seq(TableVersions)
      /\ VersionsFit(snapshots, Main, versions')
  BY <1>1 DEF IcebergInv, IcebergTyped
<1> QED BY <1>1, <1>2, <1>3, <1>4, TableUntouched

LEMMA IcebergStart == IcebergInit => IcebergInv
<1> SUFFICES ASSUME IcebergInit PROVE IcebergInv
  OBVIOUS
<1>1. Formed(snapshots) /\ Len(snapshots) = 0 /\ Main = 0 /\ metadata = <<>> /\ pointer = 0
  BY DEF IcebergInit, Formed, Main
<1>2. \A c \in LakeCalls : lake[c] = NoLakeCall
  BY DEF IcebergInit
<1>3. NoLakeCall \in LakeFrames /\ Fits(snapshots, Main, metadata, NoLakeCall)
  BY ZeroIsACount DEF LakeFrames, NoLakeCall, Fits
<1>4. versions \in Seq(TableVersions) /\ VersionsFit(snapshots, Main, versions)
  <2>1. CASE versions = <<>>
    BY <2>1 DEF VersionsFit
  <2>2. CASE versions # <<>>
    <3> DEFINE e == [snapshot |-> 0, rows |-> 1, alone |-> TRUE]
    <3>1. versions = <<e>>
      BY <2>2 DEF IcebergInit
    <3>2. Cardinality({0}) = 1
      BY FS_Singleton
    <3>3. Cardinality({0}) \in Counts
      BY ZeroIsACount
    <3>4. e \in TableVersions /\ e.snapshot = 0
      BY <3>2, <3>3 DEF TableVersions
    <3> HIDE DEF e
    <3>5. versions \in Seq(TableVersions) /\ \A v \in 1..Len(versions) : versions[v].snapshot = 0
      BY <3>1, <3>4
    <3> QED BY <3>5 DEF VersionsFit
  <2> QED BY <2>1, <2>2
<1>5. IcebergTyped
  BY <1>1, <1>3, <1>4 DEF IcebergInit, IcebergTyped
<1>6. ReadersSeeMain
  BY <1>1 DEF ReadersSeeMain
<1> QED BY <1>1, <1>2, <1>3, <1>4, <1>5, <1>6 DEF IcebergInv

LEMMA IcebergStepKeeps == IcebergInv /\ [IcebergNext]_icebergVars => IcebergInv'
<1> SUFFICES ASSUME IcebergInv, [IcebergNext]_icebergVars PROVE IcebergInv'
  OBVIOUS
<1>1. CASE CreateBranch
  BY <1>1, CreateBranchKeeps
<1>2. CASE DeleteBranch
  BY <1>2, DeleteBranchKeeps
<1>3. CASE WriteBranch
  BY <1>3, WriteBranchKeeps
<1>4. ASSUME NEW c \in LakeCalls,
             LoadTable(c) \/ ReadToCompact(c) \/ LoadToCompact(c) \/ Commit(c)
      PROVE  IcebergInv'
  BY <1>4, LoadTableKeeps, ReadToCompactKeeps, LoadToCompactKeeps, CommitKeeps
<1>5. ASSUME NEW c \in LakeCalls,
             ReadTable(c) \/ SetSource(c) \/ CountRows(c) \/ NextVersion(c) \/ AddVersion(c)
      PROVE  IcebergInv'
  BY <1>5, ReadTableKeeps, SetSourceKeeps, CountRowsKeeps, NextVersionKeeps, AddVersionKeeps
<1>6. ASSUME NEW c \in LakeCalls, LoadToMerge(c) \/ SwapMain(c) \/ EvolveSchema(c) \/ Die(c)
      PROVE  IcebergInv'
  BY <1>6, LoadToMergeKeeps, SwapMainKeeps, EvolveSchemaKeeps, DieKeeps
<1>7. CASE UNCHANGED icebergVars
  BY <1>7 DEF icebergVars, lakeTable, IcebergInv, IcebergTyped, Main, ReadersSeeMain, Pointing
<1> QED BY <1>1, <1>2, <1>3, <1>4, <1>5, <1>6, <1>7 DEF IcebergNext

(* A version's number and its snapshot are the same point in history: the  *)
(* snapshots pinned stay in main's history, in the order of the versions,  *)
(* and have the rows the versions say; and readers at rest see main.       *)
THEOREM VersionsAlwaysNameSnapshots == IcebergSpec => []VersionsNameSnapshots
<1>1. IcebergInv => VersionsNameSnapshots
  <2> SUFFICES ASSUME IcebergInv PROVE VersionsNameSnapshots
    OBVIOUS
  <2>1. VersionsFit(snapshots, Main, versions) /\ versions \in Seq(TableVersions)
    BY DEF IcebergInv, IcebergTyped
  <2>2. DOMAIN versions = 1..Len(versions) /\ Len(versions) \in Nat
    BY <2>1
  <2>3. \A v, w \in 1..Len(versions) : v < w => v \in 1..(w - 1)
    OBVIOUS
  <2>4. (\A c \in LakeCalls : lake[c] = NoLakeCall) => ~\E c \in LakeCalls : Pointing(c)
    BY DEF Pointing, NoLakeCall
  <2>5. ~adrift /\ (\A c \in LakeCalls : lake[c] = NoLakeCall) => ReadersSeeMain
    BY <2>4 DEF IcebergInv
  <2>6. \A v \in Pinned : versions[v].snapshot \in Lineage(Main)
    BY <2>1, <2>2, LineageOfIs DEF VersionsFit, Pinned
  <2>7. \A v \in TrueVersions : versions[v].rows = Cardinality(RowsAt(versions[v].snapshot))
    BY <2>1, <2>2, LineageOfIs DEF VersionsFit, TrueVersions, Pinned
  <2>8. \A v, w \in TrueVersions : v < w => versions[v].snapshot \in Lineage(versions[w].snapshot)
    BY <2>1, <2>2, <2>3, LineageOfIs DEF VersionsFit, TrueVersions, Pinned
  <2> QED BY <2>5, <2>6, <2>7, <2>8 DEF VersionsNameSnapshots, ReadersSeeMain
<1> QED BY <1>1, IcebergStart, IcebergStepKeeps, PTL DEF IcebergSpec

(***************************************************************************)
(* Incremental transforms: the rows of a sequence of parts.                *)
(***************************************************************************)

RowsUpTo(p, k) ==
    LET upTo[n \in 0..Len(p)] == IF n = 0 THEN <<>> ELSE upTo[n - 1] \o p[n]
    IN  upTo[k]

RowSteps(R, p) ==
    /\ RowsUpTo(p, 0) = <<>>
    /\ \A n \in 0..Len(p) : RowsUpTo(p, n) \in Seq(R)
    /\ \A n \in 1..Len(p) : RowsUpTo(p, n) = RowsUpTo(p, n - 1) \o p[n]
    /\ RowsIn(p) = RowsUpTo(p, Len(p))

LEMMA RowsInIs ==
    ASSUME NEW R, NEW p \in Seq(Seq(R))
    PROVE  RowSteps(R, p)
<1> DEFINE S == Seq(R)
           G == [m \in Nat |-> [x \in S |-> IF m \in 1..Len(p) THEN x \o p[m] ELSE x]]
           IsIt(f) == f = [n \in 0..Len(p) |-> IF n = 0 THEN <<>> ELSE f[n - 1] \o p[n]]
           it == CHOOSE f : IsIt(f)
<1>1. Len(p) \in Nat /\ \A m \in 1..Len(p) : p[m] \in S
  OBVIOUS
<1>2. <<>> \in S
  OBVIOUS
<1>3. G \in [Nat -> [S -> S]]
  <2>1. \A m \in 1..Len(p), x \in S : x \o p[m] \in S
    BY <1>1
  <2> HIDE DEF S
  <2> QED BY <2>1
<1> HIDE DEF S
<1>4. \A m \in 1..Len(p), x \in S : G[m][x] = x \o p[m]
  BY <1>1, SMTT(30)
<1> HIDE DEF G
<1>5. PICK g : Unrolled(S, <<>>, G, Len(p), g)
  BY <1>1, <1>2, <1>3, UnrolledExists
<1>6. IsIt(g)
  <2>1. g \in [0..Len(p) -> S] /\ g[0] = <<>> /\ \A m \in 1..Len(p) : g[m] = G[m][g[m - 1]]
    BY <1>5, Zenon DEF Unrolled
  <2>2. ASSUME NEW m \in 1..Len(p) PROVE g[m] = g[m - 1] \o p[m]
    <3>1. m - 1 \in 0..Len(p)
      BY <1>1
    <3> QED BY <1>4, <2>1, <3>1
  <2>3. \A m \in 0..Len(p) : g[m] = IF m = 0 THEN <<>> ELSE g[m - 1] \o p[m]
    <3> TAKE m \in 0..Len(p)
    <3>1. CASE m = 0
      BY <2>1, <3>1
    <3>2. CASE m # 0
      <4>1. m \in 1..Len(p)
        BY <1>1, <3>2
      <4> QED BY <2>2, <3>2, <4>1
    <3> QED BY <3>1, <3>2
  <2> QED BY <2>1, <2>3
<1>7. IsIt(it)
  BY <1>6, Zenon
<1> HIDE DEF it
<1>8. \A n \in 0..Len(p) : it[n] = IF n = 0 THEN <<>> ELSE it[n - 1] \o p[n]
  BY <1>7, Zenon
<1>9. \A k : RowsUpTo(p, k) = it[k]
  BY DEF RowsUpTo, it
<1>10. RowsIn(p) = it[Len(p)]
  BY DEF RowsIn, it
<1> HIDE DEF IsIt
<1>11. it[0] = <<>> /\ \A m \in 1..Len(p) : it[m] = it[m - 1] \o p[m]
  <2>1. 0 \in 0..Len(p) /\ \A m \in 1..Len(p) : m \in 0..Len(p) /\ m # 0
    BY <1>1
  <2> QED BY <1>8, <2>1
<1>12. \A n \in 0..Len(p) : it[n] \in S
  <2> DEFINE T == {n \in Nat : n <= Len(p) => it[n] \in S}
  <2>1. 0 \in T
    BY <1>2, <1>11
  <2>2. ASSUME NEW n \in Nat, n \in T PROVE n + 1 \in T
    <3> SUFFICES ASSUME n + 1 <= Len(p) PROVE it[n + 1] \in S
      OBVIOUS
    <3>1. n + 1 \in 1..Len(p) /\ (n + 1) - 1 = n /\ n <= Len(p)
      BY <1>1
    <3>2. it[n] \in S /\ p[n + 1] \in S
      BY <1>1, <2>2, <3>1
    <3>3. it[n + 1] = it[n] \o p[n + 1]
      BY <1>11, <3>1
    <3> QED BY <3>2, <3>3 DEF S
  <2> HIDE DEF T
  <2>3. Nat \subseteq T
    BY <2>1, <2>2, Induct
  <2> QED BY <1>1, <2>3 DEF T
<1> QED BY <1>9, <1>10, <1>11, <1>12 DEF RowSteps, S

\* p is where q begins.
Prefix(p, q) == Len(p) <= Len(q) /\ \A i \in 1..Len(p) : q[i] = p[i]
Rest(p, q) == SubSeq(q, Len(p) + 1, Len(q))

RowsSplit(R, p, q) ==
    /\ Rest(p, q) \in Seq(Seq(R))
    /\ RowsIn(p) \in Seq(R) /\ RowsIn(Rest(p, q)) \in Seq(R)
    /\ RowsIn(q) = RowsIn(p) \o RowsIn(Rest(p, q))

LEMMA RowsSplitAtPrefix ==
    ASSUME NEW R, NEW p \in Seq(Seq(R)), NEW q \in Seq(Seq(R)), Prefix(p, q)
    PROVE  RowsSplit(R, p, q)
<1> DEFINE k == Len(p)
           d == Rest(p, q)
<1>1. k \in Nat /\ Len(q) \in Nat /\ k <= Len(q) /\ \A i \in 1..k : q[i] = p[i]
  BY DEF Prefix
<1>2. d \in Seq(Seq(R)) /\ Len(d) = Len(q) - k /\ \A i \in 1..Len(d) : d[i] = q[k + i]
  <2> DEFINE S == Seq(R)
  <2>1. q \in Seq(S) /\ p \in Seq(S)
    OBVIOUS
  <2> HIDE DEF S
  <2> QED BY <1>1, <2>1 DEF Rest
<1>3. RowSteps(R, p) /\ RowSteps(R, q) /\ RowSteps(R, d)
  BY <1>2, RowsInIs
<1> HIDE DEF k, d
<1>4. \A n \in 0..k : RowsUpTo(q, n) = RowsUpTo(p, n)
  <2> DEFINE T == {n \in Nat : n <= k => RowsUpTo(q, n) = RowsUpTo(p, n)}
  <2>1. 0 \in T
    BY <1>3 DEF RowSteps
  <2>2. ASSUME NEW n \in Nat, n \in T PROVE n + 1 \in T
    <3> SUFFICES ASSUME n + 1 <= k PROVE RowsUpTo(q, n + 1) = RowsUpTo(p, n + 1)
      OBVIOUS
    <3>1. n + 1 \in 1..k /\ n + 1 \in 1..Len(p) /\ n + 1 \in 1..Len(q) /\ (n + 1) - 1 = n
      BY <1>1 DEF k
    <3>2. RowsUpTo(q, n + 1) = RowsUpTo(q, n) \o q[n + 1]
      BY <1>3, <3>1 DEF RowSteps
    <3>3. RowsUpTo(p, n + 1) = RowsUpTo(p, n) \o p[n + 1]
      BY <1>3, <3>1 DEF RowSteps
    <3>4. RowsUpTo(q, n) = RowsUpTo(p, n) /\ q[n + 1] = p[n + 1]
      BY <1>1, <2>2, <3>1
    <3> QED BY <3>2, <3>3, <3>4
  <2> HIDE DEF T
  <2>3. Nat \subseteq T
    BY <2>1, <2>2, Induct
  <2> QED BY <1>1, <2>3 DEF T
<1> DEFINE head == RowsUpTo(p, k)
<1>5. head \in Seq(R) /\ head = RowsIn(p) /\ k \in 0..k
  BY <1>1, <1>3 DEF RowSteps, k
<1>6. \A n \in 0..Len(d) : RowsUpTo(q, k + n) = head \o RowsUpTo(d, n)
  <2> DEFINE T == {n \in Nat : n <= Len(d) => RowsUpTo(q, k + n) = head \o RowsUpTo(d, n)}
  <2>1. 0 \in T
    <3>1. RowsUpTo(d, 0) = <<>> /\ k + 0 = k /\ RowsUpTo(q, k) = head
      BY <1>1, <1>3, <1>4, <1>5 DEF RowSteps
    <3>2. head \o <<>> = head
      BY <1>5
    <3> QED BY <3>1, <3>2
  <2>2. ASSUME NEW n \in Nat, n \in T PROVE n + 1 \in T
    <3> SUFFICES ASSUME n + 1 <= Len(d) PROVE RowsUpTo(q, k + (n + 1)) = head \o RowsUpTo(d, n + 1)
      OBVIOUS
    <3>1. /\ n + 1 \in 1..Len(d) /\ (n + 1) - 1 = n /\ n \in 0..Len(d) /\ n <= Len(d)
          /\ k + (n + 1) \in 1..Len(q) /\ (k + (n + 1)) - 1 = k + n
      BY <1>1, <1>2
    <3>2. RowsUpTo(q, k + (n + 1)) = RowsUpTo(q, k + n) \o q[k + (n + 1)]
      BY <1>3, <3>1 DEF RowSteps
    <3>3. RowsUpTo(d, n + 1) = RowsUpTo(d, n) \o d[n + 1]
      BY <1>3, <3>1 DEF RowSteps
    <3>4. RowsUpTo(q, k + n) = head \o RowsUpTo(d, n) /\ d[n + 1] = q[k + (n + 1)]
      BY <1>2, <2>2, <3>1
    <3>5. RowsUpTo(d, n) \in Seq(R) /\ d[n + 1] \in Seq(R)
      BY <1>2, <1>3, <3>1 DEF RowSteps
    <3>6. \A x, y, z \in Seq(R) : (x \o y) \o z = x \o (y \o z)
      BY SMTT(30)
    <3> HIDE DEF head
    <3>7. (head \o RowsUpTo(d, n)) \o d[n + 1] = head \o (RowsUpTo(d, n) \o d[n + 1])
      BY <1>5, <3>5, <3>6
    <3> QED BY <3>2, <3>3, <3>4, <3>7
  <2> HIDE DEF T
  <2>3. Nat \subseteq T
    BY <2>1, <2>2, Induct
  <2> QED BY <1>2, <2>3 DEF T
<1>7. Len(d) \in 0..Len(d) /\ k + Len(d) = Len(q) /\ Len(d) \in Nat
  BY <1>1, <1>2
<1> HIDE DEF head
<1>8. RowsUpTo(q, Len(q)) = head \o RowsUpTo(d, Len(d))
  BY <1>6, <1>7
<1> QED BY <1>2, <1>3, <1>5, <1>7, <1>8 DEF RowsSplit, RowSteps, d

LEMMA WithinMore ==
    ASSUME NEW x \in Seq(Nat), NEW y \in Seq(Nat), NEW z \in Seq(Nat)
    PROVE  /\ Within(x, x)
           /\ Within(x, y) => Within(x, y \o z)
           /\ Within(x, z) /\ Within(y, z) => Within(x \o y, z)
           /\ Within(y, x \o y)
           /\ Within(x \o y, z) => Within(x, z)
<1>1. DOMAIN x = 1..Len(x) /\ DOMAIN y = 1..Len(y) /\ DOMAIN z = 1..Len(z)
  OBVIOUS
<1>2. Len(x) \in Nat /\ Len(y) \in Nat /\ Len(z) \in Nat
  OBVIOUS
<1>3. /\ DOMAIN (y \o z) = 1..(Len(y) + Len(z))
      /\ \A i \in 1..Len(y) : (y \o z)[i] = y[i]
  OBVIOUS
<1>4. /\ DOMAIN (x \o y) = 1..(Len(x) + Len(y))
      /\ \A i \in 1..Len(x) : (x \o y)[i] = x[i]
      /\ \A i \in 1..Len(y) : (x \o y)[Len(x) + i] = y[i]
  OBVIOUS
<1>5. \A i \in 1..(Len(x) + Len(y)) :
        i \in 1..Len(x) \/ (i - Len(x) \in 1..Len(y) /\ Len(x) + (i - Len(x)) = i)
  BY <1>2
<1>6. \A i \in 1..Len(y) : i \in 1..(Len(y) + Len(z)) /\ Len(x) + i \in 1..(Len(x) + Len(y))
  BY <1>2
<1>7. \A i \in 1..Len(x) : i \in 1..(Len(x) + Len(y))
  BY <1>2
<1>a. Within(x, x)
  BY DEF Within
<1>b. Within(x, y) => Within(x, y \o z)
  BY <1>1, <1>3, <1>6 DEF Within
<1>c. ASSUME Within(x, z), Within(y, z) PROVE Within(x \o y, z)
  <2> SUFFICES ASSUME NEW i \in 1..(Len(x) + Len(y)) PROVE \E j \in DOMAIN z : z[j] = (x \o y)[i]
    BY <1>4 DEF Within
  <2>1. CASE i \in 1..Len(x)
    BY <1>1, <1>4, <1>c, <2>1 DEF Within
  <2>2. CASE i \notin 1..Len(x)
    <3>1. i - Len(x) \in 1..Len(y) /\ Len(x) + (i - Len(x)) = i
      BY <1>5, <2>2
    <3>2. (x \o y)[i] = y[i - Len(x)]
      BY <1>4, <3>1
    <3> QED BY <1>1, <1>c, <3>1, <3>2 DEF Within
  <2> QED BY <2>1, <2>2
<1>d. Within(y, x \o y)
  BY <1>1, <1>4, <1>6 DEF Within
<1>e. Within(x \o y, z) => Within(x, z)
  BY <1>1, <1>4, <1>7 DEF Within
<1> QED BY <1>a, <1>b, <1>c, <1>d, <1>e

LEMMA PrefixRowsWithin ==
    ASSUME NEW p \in Seq(Seq(Nat)), NEW q \in Seq(Seq(Nat)), Prefix(p, q)
    PROVE  Within(RowsIn(p), RowsIn(q))
<1>1. RowsSplit(Nat, p, q)
  BY RowsSplitAtPrefix
<1>2. /\ RowsIn(p) \in Seq(Nat) /\ RowsIn(Rest(p, q)) \in Seq(Nat)
      /\ RowsIn(q) = RowsIn(p) \o RowsIn(Rest(p, q))
  BY <1>1 DEF RowsSplit
<1> QED BY <1>2, WithinMore

-----------------------------------------------------------------------------
(* The versions of the input. *)

LEMMA SeqOfMore ==
    ASSUME NEW A, NEW B, A \subseteq B
    PROVE  Seq(A) \subseteq Seq(B)
OBVIOUS

\* Version n: no row is newer; what it appends to another is one part.
VersionFormed(x, n) ==
    /\ x \in Seq(Seq(1..n)) /\ x # <<>>
    /\ Len(x) > 1 => x[Len(x)] = <<n>>

\* A version that another extends, it extends all the way.
NoWayBack(inp) ==
    \A v, t, w \in 1..Len(inp) :
        v <= t /\ t <= w /\ Prefix(inp[v], inp[w]) => Prefix(inp[v], inp[t])

InputFormed(inp) ==
    /\ inp \in Seq(Seq(Seq(Nat)))
    /\ \A n \in 1..Len(inp) : VersionFormed(inp[n], n)
    /\ NoWayBack(inp)

LEMMA RowsStayWithin ==
    ASSUME NEW n \in Nat
    PROVE  Seq(1..n) \subseteq Seq(Nat) /\ Seq(1..n) \subseteq Seq(1..(n + 1))
           /\ Seq(Seq(1..n)) \subseteq Seq(Seq(Nat)) /\ Seq(Seq(1..n)) \subseteq Seq(Seq(1..(n + 1)))
<1> DEFINE A == 1..n
           B == 1..(n + 1)
<1>1. A \subseteq Nat /\ A \subseteq B
  OBVIOUS
<1> HIDE DEF A, B
<1>2. Seq(A) \subseteq Seq(Nat)
  BY <1>1, SeqOfMore
<1>3. Seq(A) \subseteq Seq(B)
  BY <1>1, SeqOfMore
<1>4. Seq(Seq(A)) \subseteq Seq(Seq(Nat))
  <2> DEFINE C == Seq(A)
             D == Seq(Nat)
  <2>1. C \subseteq D
    BY <1>2
  <2> HIDE DEF C, D
  <2>2. Seq(C) \subseteq Seq(D)
    BY <2>1, SeqOfMore
  <2> QED BY <2>2 DEF C, D
<1>5. Seq(Seq(A)) \subseteq Seq(Seq(B))
  <2> DEFINE C == Seq(A)
             D == Seq(B)
  <2>1. C \subseteq D
    BY <1>3
  <2> HIDE DEF C, D
  <2>2. Seq(C) \subseteq Seq(D)
    BY <2>1, SeqOfMore
  <2> QED BY <2>2 DEF C, D
<1> QED BY <1>2, <1>3, <1>4, <1>5 DEF A, B

\* What a writer of the input makes of version n.
Appended(x, n) == Append(x, <<n + 1>>)
Compacted(x) == <<RowsIn(x)>>

LEMMA WritersForm ==
    ASSUME NEW n \in Nat
    PROVE  /\ VersionFormed(<<<<n + 1>>>>, n + 1)
           /\ \A x : VersionFormed(x, n) =>
                /\ VersionFormed(Appended(x, n), n + 1)
                /\ VersionFormed(Compacted(x), n + 1)
<1>1. VersionFormed(<<<<n + 1>>>>, n + 1)
  <2> DEFINE S == Seq(1..(n + 1))
  <2>1. <<n + 1>> \in S
    OBVIOUS
  <2> HIDE DEF S
  <2>2. <<<<n + 1>>>> \in Seq(S) /\ Len(<<<<n + 1>>>>) = 1 /\ <<<<n + 1>>>> # <<>>
    BY <2>1
  <2> QED BY <2>2 DEF VersionFormed, S
<1>2. ASSUME NEW x, VersionFormed(x, n) PROVE VersionFormed(Appended(x, n), n + 1)
  <2> DEFINE S == Seq(1..(n + 1))
  <2>1. x \in Seq(S)
    BY <1>2, RowsStayWithin DEF VersionFormed
  <2>2. <<n + 1>> \in S
    OBVIOUS
  <2> HIDE DEF S
  <2>3. /\ Append(x, <<n + 1>>) \in Seq(S) /\ Append(x, <<n + 1>>) # <<>>
        /\ Append(x, <<n + 1>>)[Len(Append(x, <<n + 1>>))] = <<n + 1>>
    BY <2>1, <2>2
  <2> QED BY <2>3 DEF VersionFormed, Appended, S
<1>3. ASSUME NEW x, VersionFormed(x, n) PROVE VersionFormed(Compacted(x), n + 1)
  <2> DEFINE S == Seq(1..(n + 1))
  <2>1. x \in Seq(S)
    BY <1>3, RowsStayWithin DEF VersionFormed
  <2>2. RowsIn(x) \in S
    <3>1. RowSteps(1..(n + 1), x) /\ Len(x) \in 0..Len(x)
      BY <2>1, RowsInIs
    <3> QED BY <3>1 DEF RowSteps
  <2> HIDE DEF S
  <2>3. <<RowsIn(x)>> \in Seq(S) /\ Len(<<RowsIn(x)>>) = 1 /\ <<RowsIn(x)>> # <<>>
    BY <2>2
  <2> QED BY <2>3 DEF VersionFormed, Compacted, S
<1> QED BY <1>1, <1>2, <1>3

\* None of them makes of it what an earlier version begins with, unless it
\* began with that already.
LEMMA WritersOnlyExtend ==
    ASSUME NEW n \in Nat, NEW x, VersionFormed(x, n), NEW v \in 1..n, NEW y, VersionFormed(y, v),
           v = n => y = x
    PROVE  /\ ~Prefix(y, <<<<n + 1>>>>)
           /\ Prefix(y, Appended(x, n)) => Prefix(y, x)
           /\ Len(x) > 1 => ~Prefix(y, Compacted(x))
<1>1. Len(y) \in Nat /\ Len(y) >= 1 /\ \A i \in 1..Len(y) : y[i] \in Seq(1..v)
  BY DEF VersionFormed
<1>2. Len(x) \in Nat /\ Len(x) >= 1 /\ \A i \in 1..Len(x) : x[i] \in Seq(1..n)
  BY DEF VersionFormed
<1>3. \A r \in Nat, i \in 1..Len(y) : y[i] = <<r>> => r <= v
  <2>1. \A r \in Nat : <<r>> \in Seq(1..v) => r \in 1..v
    <3> SUFFICES ASSUME NEW r \in Nat, NEW z \in Seq(1..v), z = <<r>> PROVE r \in 1..v
      OBVIOUS
    <3>1. Len(z) = 1 /\ z[1] = r
      OBVIOUS
    <3>2. z[1] \in 1..v
      BY <3>1
    <3> QED BY <3>1, <3>2
  <2> SUFFICES ASSUME NEW r \in Nat, NEW i \in 1..Len(y), y[i] = <<r>> PROVE r <= v
    OBVIOUS
  <2>2. y[i] \in Seq(1..v)
    BY <1>1
  <2>3. r \in 1..v
    BY <2>1, <2>2
  <2> QED BY <2>3
<1>4. ~Prefix(y, <<<<n + 1>>>>)
  <2> SUFFICES ASSUME Prefix(y, <<<<n + 1>>>>) PROVE FALSE
    OBVIOUS
  <2>1. 1 \in 1..Len(y) /\ y[1] = <<n + 1>>
    <3> DEFINE z == <<n + 1>>
    <3>1. Prefix(y, <<z>>) /\ 1 \in 1..Len(y)
      BY <1>1
    <3> HIDE DEF z
    <3>2. y[1] = z
      BY <3>1 DEF Prefix
    <3> QED BY <3>1, <3>2 DEF z
  <2>2. n + 1 <= v
    BY <1>3, <2>1
  <2> QED BY <2>2
<1>5. ASSUME Prefix(y, Appended(x, n)) PROVE Prefix(y, x)
  <2>1. Len(Appended(x, n)) = Len(x) + 1 /\ Appended(x, n)[Len(x) + 1] = <<n + 1>>
        /\ \A i \in 1..Len(x) : Appended(x, n)[i] = x[i]
    <3>1. x \in Seq(Seq(1..n))
      BY DEF VersionFormed
    <3> QED BY <3>1 DEF Appended
  <2>2. Len(y) <= Len(x)
    <3> SUFFICES ASSUME Len(y) > Len(x) PROVE FALSE
      BY <1>1, <1>2
    <3>1. Len(x) + 1 \in 1..Len(y) /\ y[Len(x) + 1] = <<n + 1>>
      BY <1>1, <1>2, <1>5, <2>1 DEF Prefix
    <3>2. n + 1 <= v
      BY <1>3, <3>1
    <3> QED BY <3>2
  <2> QED BY <1>1, <1>2, <1>5, <2>1, <2>2 DEF Prefix
<1>6. ASSUME Len(x) > 1, Prefix(y, Compacted(x)) PROVE FALSE
  <2>1. Len(y) = 1 /\ y[1] = RowsIn(x)
    <3> DEFINE z == RowsIn(x)
    <3>1. Compacted(x) = <<z>>
      BY DEF Compacted
    <3> HIDE DEF z
    <3>2. Prefix(y, <<z>>) /\ 1 \in 1..Len(y) /\ Len(y) \in Nat
      BY <1>1, <1>6, <3>1
    <3>3. y[1] = z /\ Len(y) <= 1
      BY <3>2 DEF Prefix
    <3>4. Len(y) \in Nat /\ Len(y) >= 1 /\ Len(y) <= 1
      BY <1>1, <3>3
    <3>5. \A k \in Nat : k >= 1 /\ k <= 1 => k = 1
      OBVIOUS
    <3> QED BY <3>3, <3>4, <3>5, Zenon DEF z
  <2>2. RowSteps(1..n, x)
    BY RowsInIs DEF VersionFormed
  <2> DEFINE head == RowsUpTo(x, Len(x) - 1)
  <2>3. head \in Seq(1..n) /\ RowsIn(x) = head \o <<n>>
    <3>1. Len(x) - 1 \in 0..Len(x) /\ Len(x) \in 1..Len(x) /\ x[Len(x)] = <<n>>
      BY <1>2, <1>6 DEF VersionFormed
    <3> QED BY <2>2, <3>1 DEF RowSteps
  <2> HIDE DEF head
  <2>4. Len(head) + 1 \in 1..Len(RowsIn(x)) /\ RowsIn(x)[Len(head) + 1] = n
    BY <2>3
  <2>5. RowsIn(x) \in Seq(1..v)
    BY <1>1, <2>1
  <2>6. n \in 1..v
    BY <2>4, <2>5
  <2>7. n = v
    BY <2>6
  <2>8. Len(y) = Len(x)
    BY <2>7
  <2>9. Len(y) = 1
    BY <2>1
  <2> QED BY <1>6, <2>8, <2>9
<1> QED BY <1>4, <1>5, <1>6

LEMMA InputGrows ==
    ASSUME NEW inp, InputFormed(inp), NEW x,
           \/ x = <<<<Len(inp) + 1>>>>
           \/ inp # <<>> /\ x = Appended(inp[Len(inp)], Len(inp))
           \/ inp # <<>> /\ Len(inp[Len(inp)]) > 1 /\ x = Compacted(inp[Len(inp)])
    PROVE  /\ InputFormed(Append(inp, x)) /\ Len(Append(inp, x)) = Len(inp) + 1
           /\ \A v \in 1..Len(inp) : Append(inp, x)[v] = inp[v]
<1> DEFINE n == Len(inp)
           S == Seq(Seq(Nat))
           new == Append(inp, x)
<1>1. inp \in Seq(S) /\ n \in Nat /\ (inp # <<>> => n \in 1..n)
  BY DEF InputFormed
<1>2. \A v \in 1..n : VersionFormed(inp[v], v)
  BY DEF InputFormed
<1>3. VersionFormed(x, n + 1)
  BY <1>1, <1>2, WritersForm
<1>4. x \in S
  BY <1>1, <1>3, RowsStayWithin DEF VersionFormed
<1> HIDE DEF S
<1>5. new \in Seq(S) /\ Len(new) = n + 1 /\ new[n + 1] = x /\ \A v \in 1..n : new[v] = inp[v]
  BY <1>1, <1>4
<1> HIDE DEF new, n
<1>6. \A v \in 1..(n + 1) : VersionFormed(new[v], v)
  BY <1>1, <1>2, <1>3, <1>5
<1>7. ASSUME NEW v \in 1..n, Prefix(inp[v], x) PROVE Prefix(inp[v], inp[n])
  <2>1. n \in 1..n /\ VersionFormed(inp[n], n) /\ VersionFormed(inp[v], v)
    BY <1>1, <1>2
  <2> QED BY <1>1, <1>7, <2>1, WritersOnlyExtend DEF n
<1>8. NoWayBack(new)
  <2> SUFFICES ASSUME NEW v \in 1..(n + 1), NEW t \in 1..(n + 1), NEW w \in 1..(n + 1),
                      v <= t, t <= w, Prefix(new[v], new[w])
               PROVE  Prefix(new[v], new[t])
    BY <1>5 DEF NoWayBack
  <2>1. CASE t = w
    BY <2>1
  <2>2. CASE t # w
    <3>1. t \in 1..n /\ v \in 1..n /\ n \in 1..n /\ t <= n
      BY <1>1, <2>2
    <3>2. Prefix(inp[v], inp[t])
      <4>1. CASE w \in 1..n
        BY <1>5, <3>1, <4>1 DEF InputFormed, NoWayBack, n
      <4>2. CASE w = n + 1
        <5>1. Prefix(inp[v], inp[n])
          BY <1>5, <1>7, <3>1, <4>2
        <5> QED BY <3>1, <5>1 DEF InputFormed, NoWayBack, n
      <4> QED BY <1>1, <4>1, <4>2
    <3> QED BY <1>5, <3>1, <3>2
  <2> QED BY <2>1, <2>2
<1> QED BY <1>5, <1>6, <1>8 DEF InputFormed, new, n, S

-----------------------------------------------------------------------------
BuildFrames ==
    [pc : {"idle", "state", "read", "write", "record"}, version : Nat,
     mode : {"none", "full", "delta"}, rows : Seq(Nat), alone : BOOLEAN]

\* What an execution has in hand, when no other has run since it began.
AloneFits(inp, cons, out, spl, f) ==
    /\ cons <= f.version
    /\ f.pc = "read" => f.mode = "full"
    /\ f.pc \in {"write", "record"} => f.mode \in {"full", "delta"}
    /\ f.pc \in {"read", "write", "record"} /\ f.mode = "full" =>
            cons = 0 \/ ~Prefix(inp[cons], inp[f.version])
    /\ f.pc = "write" /\ f.mode = "delta" =>
            /\ cons # 0 /\ Prefix(inp[cons], inp[f.version])
            /\ f.rows = RowsIn(Rest(inp[cons], inp[f.version]))
    /\ f.pc = "write" /\ f.mode = "full" =>
            /\ Prefix(inp[f.version], inp[Len(inp)]) => Within(RowsIn(inp[f.version]), f.rows)
            /\ "overtaken" \notin spl => f.rows = RowsIn(inp[f.version])
    /\ f.pc = "record" =>
            /\ spl = {} => out = RowsIn(inp[f.version])
            /\ "overlap" \notin spl /\ Prefix(inp[f.version], inp[Len(inp)]) =>
                    Within(RowsIn(inp[f.version]), out)

BuildFits(inp, cons, out, spl, f) ==
    f.pc # "idle" =>
        /\ f.version \in 1..Len(inp)
        /\ f.alone => AloneFits(inp, cons, out, spl, f)
        /\ "overlap" \notin spl => f.alone

\* InputConsumed while executions are under way: none has written without
\* having recorded it.
OutputFits(inp, cons, out, spl, recording) ==
    /\ spl = {} /\ ~recording => out = IF cons = 0 THEN <<>> ELSE RowsIn(inp[cons])
    /\ "overlap" \notin spl /\ cons # 0 /\ Prefix(inp[cons], inp[Len(inp)]) =>
            Within(RowsIn(inp[cons]), out)

Recording == \E b \in Builds : build[b].pc = "record"

IncrementalTyped ==
    /\ InputFormed(input) /\ output \in Seq(Nat) /\ consumed \in 0..Len(input)
    /\ build \in [Builds -> BuildFrames]

AloneIsAlone ==
    \A b \in Builds : build[b].pc # "idle" /\ build[b].alone => Alone(b)

IncrementalInv ==
    /\ IncrementalTyped /\ AloneIsAlone
    /\ \A b \in Builds : BuildFits(input, consumed, output, spoilt, build[b])
    /\ OutputFits(input, consumed, output, spoilt, Recording)

LEMMA InputIsTyped ==
    ASSUME NEW inp, InputFormed(inp)
    PROVE  /\ Len(inp) \in Nat
           /\ \A v \in 1..Len(inp) : inp[v] \in Seq(Seq(Nat)) /\ RowsIn(inp[v]) \in Seq(Nat)
           /\ \A v \in 1..Len(inp) : Prefix(inp[v], inp[v])
<1>1. inp \in Seq(Seq(Seq(Nat)))
  BY DEF InputFormed
<1> DEFINE S == Seq(Seq(Nat))
<1>2. Len(inp) \in Nat /\ \A v \in 1..Len(inp) : inp[v] \in S
  <2>1. inp \in Seq(S)
    BY <1>1
  <2> HIDE DEF S
  <2> QED BY <2>1
<1>3. ASSUME NEW v \in 1..Len(inp) PROVE RowsIn(inp[v]) \in Seq(Nat) /\ Prefix(inp[v], inp[v])
  <2>1. inp[v] \in Seq(Seq(Nat))
    BY <1>2
  <2>2. RowSteps(Nat, inp[v]) /\ Len(inp[v]) \in 0..Len(inp[v])
    BY <2>1, RowsInIs
  <2>3. RowsIn(inp[v]) \in Seq(Nat)
    BY <2>2 DEF RowSteps
  <2>4. Prefix(inp[v], inp[v])
    BY <2>2 DEF Prefix
  <2> QED BY <2>3, <2>4
<1> QED BY <1>2, <1>3

LEMMA ExtendsIs ==
    ASSUME InputFormed(input), NEW v \in 1..Len(input), NEW w \in 1..Len(input)
    PROVE  Extends(v, w) <=> Prefix(input[v], input[w])
<1> DEFINE S == Seq(Nat)
           p == input[v]
           q == input[w]
<1>1. p \in Seq(S) /\ q \in Seq(S)
  BY InputIsTyped
<1> HIDE DEF S, p, q
<1>2. Len(p) <= Len(q) => (SubSeq(q, 1, Len(p)) = p <=> \A i \in 1..Len(p) : q[i] = p[i])
  <2> SUFFICES ASSUME Len(p) <= Len(q)
               PROVE  SubSeq(q, 1, Len(p)) = p <=> \A i \in 1..Len(p) : q[i] = p[i]
    OBVIOUS
  <2>1. /\ SubSeq(q, 1, Len(p)) \in Seq(S) /\ Len(SubSeq(q, 1, Len(p))) = Len(p)
        /\ \A i \in 1..Len(p) : SubSeq(q, 1, Len(p))[i] = q[i]
    BY <1>1
  <2> DEFINE r == SubSeq(q, 1, Len(p))
  <2> HIDE DEF r
  <2>2. (\A i \in 1..Len(p) : r[i] = p[i]) => r = p
    BY <1>1, <2>1 DEF r
  <2> QED BY <2>1, <2>2 DEF r
<1> QED BY <1>2 DEF Extends, Prefix, p, q

LEMMA PrefixComposes ==
    ASSUME NEW inp, InputFormed(inp), NEW u \in 1..Len(inp), NEW v \in 1..Len(inp),
           NEW w \in 1..Len(inp), Prefix(inp[u], inp[v]), Prefix(inp[v], inp[w])
    PROVE  Prefix(inp[u], inp[w])
<1>1. \A k \in {u, v, w} : Len(inp[k]) \in Nat
  BY InputIsTyped
<1> QED BY <1>1 DEF Prefix

\* A new version of the input leaves what holds of the old ones.
LEMMA NewInputKeeps ==
    ASSUME IncrementalInv, NEW x, NewInput(x),
           \/ x = <<<<Len(input) + 1>>>>
           \/ input # <<>> /\ x = Appended(Latest, Len(input))
           \/ input # <<>> /\ Len(Latest) > 1 /\ x = Compacted(Latest)
    PROVE  IncrementalInv'
<1>1. /\ input' = Append(input, x) /\ UNCHANGED <<output, consumed, build, spoilt>>
      /\ InputFormed(input) /\ consumed \in 0..Len(input)
  BY DEF NewInput, IncrementalInv, IncrementalTyped
<1>2. /\ InputFormed(input') /\ Len(input') = Len(input) + 1 /\ Len(input) \in Nat
      /\ \A v \in 1..Len(input) : input'[v] = input[v]
  BY <1>1, InputGrows, InputIsTyped DEF Latest
<1>3. ASSUME NEW v \in 1..Len(input), Prefix(input'[v], input'[Len(input')])
      PROVE  Prefix(input[v], input[Len(input)])
  <2>1. v \in 1..Len(input') /\ Len(input) \in 1..Len(input') /\ Len(input') \in 1..Len(input')
        /\ v <= Len(input) /\ Len(input) <= Len(input') /\ Len(input) \in 1..Len(input)
    BY <1>2
  <2>2. Prefix(input'[v], input'[Len(input)])
    BY <1>2, <1>3, <2>1 DEF InputFormed, NoWayBack
  <2> QED BY <1>2, <2>1, <2>2
<1>4. ASSUME NEW b \in Builds PROVE BuildFits(input', consumed', output', spoilt', build'[b])
  <2> DEFINE f == build[b]
  <2>1. BuildFits(input, consumed, output, spoilt, f)
    BY DEF IncrementalInv
  <2> HIDE DEF f
  <2> SUFFICES ASSUME f.pc # "idle" PROVE BuildFits(input', consumed, output, spoilt, f)
    BY <1>1 DEF BuildFits, f
  <2>2. /\ f.version \in 1..Len(input) /\ f.version \in 1..Len(input')
        /\ input'[f.version] = input[f.version]
        /\ consumed # 0 => consumed \in 1..Len(input) /\ input'[consumed] = input[consumed]
    BY <1>1, <1>2, <2>1 DEF BuildFits
  <2>3. AloneFits(input, consumed, output, spoilt, f) => AloneFits(input', consumed, output, spoilt, f)
    BY <1>3, <2>2 DEF AloneFits
  <2> QED BY <2>1, <2>2, <2>3 DEF BuildFits
<1>5. OutputFits(input', consumed', output', spoilt', Recording')
  <2>1. OutputFits(input, consumed, output, spoilt, Recording) /\ (Recording' <=> Recording)
    BY <1>1 DEF IncrementalInv, Recording
  <2>2. consumed # 0 => consumed \in 1..Len(input) /\ input'[consumed] = input[consumed]
    BY <1>1, <1>2
  <2> QED BY <1>1, <1>3, <2>1, <2>2 DEF OutputFits
<1>6. AloneIsAlone' /\ IncrementalTyped'
  <2>1. consumed' \in 0..Len(input')
    BY <1>1, <1>2
  <2> QED BY <1>1, <1>2, <2>1 DEF IncrementalInv, IncrementalTyped, AloneIsAlone, Alone
<1> QED BY <1>4, <1>5, <1>6 DEF IncrementalInv

\* What a step of b leaves its frame at.
LEMMA FrameOf ==
    ASSUME IncrementalInv, NEW b \in Builds, NEW f, build' = [build EXCEPT ![b] = f]
    PROVE  /\ build'[b] = f /\ \A o \in Builds \ {b} : build'[o] = build[o]
           /\ f \in BuildFrames => build' \in [Builds -> BuildFrames]
           /\ build[b] \in BuildFrames /\ BuildFits(input, consumed, output, spoilt, build[b])
           /\ InputFormed(input) /\ Len(input) \in Nat /\ consumed \in 0..Len(input)
           /\ output \in Seq(Nat)
BY InputIsTyped DEF IncrementalInv, IncrementalTyped

\* b goes on, or ends; so nobody that was alone is disturbed.
LEMMA AloneStays ==
    ASSUME IncrementalInv, NEW b \in Builds, build[b].pc # "idle", NEW f,
           build' = [build EXCEPT ![b] = f], f.pc = "idle" \/ f.alone = build[b].alone
    PROVE  /\ AloneIsAlone'
           /\ \A o \in Builds \ {b} : build[o].pc # "idle" => ~build[o].alone
           /\ build[b].alone => \A o \in Builds \ {b} : build[o].pc = "idle"
<1>1. \A o \in Builds \ {b} : build[o].pc # "idle" => ~build[o].alone
  BY DEF IncrementalInv, AloneIsAlone, Alone
<1>2. build[b].alone => \A o \in Builds \ {b} : build[o].pc = "idle"
  BY DEF IncrementalInv, AloneIsAlone, Alone
<1>3. AloneIsAlone'
  BY <1>1, <1>2, FrameOf DEF AloneIsAlone, Alone
<1> QED BY <1>1, <1>2, <1>3

\* A step of b that touches the output and the record only as stated here.
LEMMA BuildGoesOn ==
    ASSUME IncrementalInv, NEW b \in Builds, build[b].pc # "idle", NEW f \in BuildFrames,
           build' = [build EXCEPT ![b] = f], f.pc = "idle" \/ f.alone = build[b].alone,
           input' = input, output' \in Seq(Nat), consumed' \in 0..Len(input),
           "overlap" \notin spoilt' => "overlap" \notin spoilt \/ build[b].alone,
           f.pc # "idle" => f.version \in 1..Len(input),
           f.pc # "idle" /\ f.alone => AloneFits(input, consumed', output', spoilt', f),
           OutputFits(input, consumed', output', spoilt', Recording')
    PROVE  IncrementalInv'
<1>1. AloneIsAlone' /\ (\A o \in Builds \ {b} : build[o].pc # "idle" => ~build[o].alone)
      /\ (build[b].alone => \A o \in Builds \ {b} : build[o].pc = "idle")
  BY AloneStays
<1>2. ASSUME NEW o \in Builds PROVE BuildFits(input', consumed', output', spoilt', build'[o])
  <2>1. \A a \in Builds : BuildFits(input, consumed, output, spoilt, build[a])
    BY DEF IncrementalInv
  <2>2. CASE o = b
    <3>1. f.pc # "idle" /\ "overlap" \notin spoilt' => f.alone
      BY <2>1 DEF BuildFits
    <3> QED BY <2>2, <3>1, FrameOf DEF BuildFits
  <2>3. CASE o # b
    <3>1. build'[o] = build[o]
      BY <2>3, FrameOf
    <3>2. build[o].pc # "idle" => "overlap" \in spoilt'
      BY <1>1, <2>1, <2>3 DEF BuildFits
    <3> QED BY <1>1, <2>1, <2>3, <3>1, <3>2 DEF BuildFits
  <2> QED BY <2>2, <2>3
<1>3. IncrementalTyped'
  BY FrameOf DEF IncrementalTyped
<1>4. OutputFits(input', consumed', output', spoilt', Recording')
  OBVIOUS
<1> QED BY <1>1, <1>2, <1>3, <1>4 DEF IncrementalInv

LEMMA WritersKeep ==
    ASSUME IncrementalInv, AppendInput \/ RewriteInput \/ CompactInput
    PROVE  IncrementalInv'
<1>1. CASE AppendInput
  BY <1>1, NewInputKeeps DEF AppendInput, Appended, NewRow
<1>2. CASE RewriteInput
  BY <1>2, NewInputKeeps DEF RewriteInput, NewRow
<1>3. CASE CompactInput
  BY <1>3, NewInputKeeps DEF CompactInput, Compacted
<1> QED BY <1>1, <1>2, <1>3

Begun(n, a) == [NoBuild EXCEPT !.pc = "state", !.version = n, !.alone = a]

LEMMA BeginsTyped ==
    ASSUME NEW n \in Nat, NEW a \in BOOLEAN
    PROVE  /\ Begun(n, a) \in BuildFrames /\ Begun(n, a).pc = "state"
           /\ Begun(n, a).version = n /\ Begun(n, a).alone = a
<1>1. <<>> \in Seq(Nat)
  OBVIOUS
<1> QED BY <1>1 DEF Begun, NoBuild, BuildFrames

LEMMA ReadVersionKeeps == ASSUME IncrementalInv, NEW b \in Builds, ReadVersion(b) PROVE IncrementalInv'
<1> DEFINE alone == Alone(b)
           f == [NoBuild EXCEPT !.pc = "state", !.version = Len(input), !.alone = alone]
           g(o) == [build[o] EXCEPT !.alone = build[o].pc = "idle"]
<1>1. /\ build[b].pc = "idle" /\ input # <<>>
      /\ build' = [o \in Builds |-> IF o = b THEN f ELSE g(o)]
      /\ spoilt' = spoilt \cup (IF Alone(b) THEN {} ELSE {"overlap"})
      /\ UNCHANGED <<input, output, consumed>>
  BY DEF ReadVersion
<1>2. Len(input) \in 1..Len(input) /\ consumed \in 0..Len(input) /\ build \in [Builds -> BuildFrames]
  BY <1>1, InputIsTyped DEF IncrementalInv, IncrementalTyped, InputFormed
<1>a. alone \in BOOLEAN
  BY DEF Alone
<1> HIDE DEF alone
<1>b. /\ f \in BuildFrames /\ f.pc = "state" /\ f.version = Len(input) /\ f.alone = alone
  <2>1. Len(input) \in Nat
    BY <1>2
  <2> QED BY <1>a, <2>1, BeginsTyped DEF Begun
<1>3. /\ f \in BuildFrames /\ f.pc = "state" /\ f.version = Len(input) /\ (f.alone <=> Alone(b))
  BY <1>b DEF alone
<1>4. ASSUME NEW o \in Builds
      PROVE  /\ g(o) \in BuildFrames /\ g(o).pc = build[o].pc /\ g(o).version = build[o].version
             /\ g(o).pc # "idle" => ~g(o).alone
  BY <1>2 DEF BuildFrames
<1> HIDE DEF f, g
<1>5. build'[b] = f /\ \A o \in Builds \ {b} : build'[o] = g(o)
  BY <1>1
<1>6. IncrementalTyped'
  <2>1. build' \in [Builds -> BuildFrames]
    BY <1>1, <1>3, <1>4
  <2> QED BY <1>1, <2>1 DEF IncrementalInv, IncrementalTyped
<1>7. AloneIsAlone'
  BY <1>3, <1>4, <1>5 DEF AloneIsAlone, Alone
<1>8. ASSUME NEW o \in Builds PROVE BuildFits(input', consumed', output', spoilt', build'[o])
  <2>1. CASE o = b
    BY <1>1, <1>2, <1>3, <1>5, <2>1 DEF BuildFits, AloneFits
  <2>2. CASE o # b
    <3>1. BuildFits(input, consumed, output, spoilt, build[o])
      BY DEF IncrementalInv
    <3>2. build[o].pc # "idle" => "overlap" \in spoilt'
      BY <1>1, <2>2 DEF Alone
    <3> QED BY <1>1, <1>4, <1>5, <2>2, <3>1, <3>2 DEF BuildFits
  <2> QED BY <2>1, <2>2
<1>9. OutputFits(input', consumed', output', spoilt', Recording')
  <2>1. OutputFits(input, consumed, output, spoilt, Recording)
    BY DEF IncrementalInv
  <2>2. Recording' <=> Recording
    BY <1>1, <1>3, <1>4, <1>5 DEF Recording
  <2>3. spoilt \subseteq spoilt' /\ (spoilt' = {} => spoilt = {})
    BY <1>1
  <2> QED BY <1>1, <2>1, <2>2, <2>3 DEF OutputFits
<1> QED BY <1>6, <1>7, <1>8, <1>9 DEF IncrementalInv

LEMMA NoBuildTyped == NoBuild \in BuildFrames /\ NoBuild.pc = "idle"
BY DEF NoBuild, BuildFrames

LEMMA ReadStateKeeps == ASSUME IncrementalInv, NEW b \in Builds, ReadState(b) PROVE IncrementalInv'
<1> DEFINE current == build[b].version
           mode == Mode(consumed, current)
           f == CASE mode = "unchanged" -> NoBuild
                  [] mode = "delta" ->
                        [build[b] EXCEPT !.pc = "write", !.mode = mode,
                                         !.rows = RowsIn(DeltaParts(consumed, current))]
                  [] OTHER -> [build[b] EXCEPT !.pc = "read", !.mode = mode]
<1>1. /\ build[b].pc = "state" /\ build' = [build EXCEPT ![b] = f]
      /\ UNCHANGED <<input, output, consumed, spoilt>>
  BY DEF ReadState
<1>2. /\ build[b] \in BuildFrames /\ BuildFits(input, consumed, output, spoilt, build[b])
      /\ InputFormed(input) /\ Len(input) \in Nat /\ consumed \in 0..Len(input) /\ output \in Seq(Nat)
  BY <1>1, FrameOf
<1>3. current \in 1..Len(input) /\ (build[b].alone => consumed <= current)
  BY <1>1, <1>2 DEF BuildFits, AloneFits
<1>4. OutputFits(input', consumed', output', spoilt', Recording')
  <2>1. f.pc # "record"
    BY <1>2, NoBuildTyped DEF BuildFrames
  <2>2. Recording' => Recording
    BY <1>1, <2>1, FrameOf DEF Recording
  <2>3. Recording => Recording'
    BY <1>1, FrameOf DEF Recording
  <2> QED BY <1>1, <2>2, <2>3 DEF OutputFits, IncrementalInv
<1>5. CASE mode = "unchanged"
  <2>1. f = NoBuild
    BY <1>5
  <2> HIDE DEF f
  <2> QED BY <1>1, <1>2, <1>4, <2>1, NoBuildTyped, BuildGoesOn
<1>6. CASE mode = "delta"
  <2> DEFINE rows == RowsIn(DeltaParts(consumed, current))
  <2>1. consumed # 0 /\ Prefix(input[consumed], input[current])
    BY <1>2, <1>3, <1>6, ExtendsIs DEF Mode
  <2>2. DeltaParts(consumed, current) = Rest(input[consumed], input[current])
    BY DEF DeltaParts, Rest
  <2>3. rows \in Seq(Nat)
    <3>1. input[consumed] \in Seq(Seq(Nat)) /\ input[current] \in Seq(Seq(Nat))
      BY <1>2, <1>3, <2>1, InputIsTyped
    <3> QED BY <2>1, <2>2, <3>1, RowsSplitAtPrefix DEF RowsSplit
  <2>4. f = [build[b] EXCEPT !.pc = "write", !.mode = "delta", !.rows = rows]
    BY <1>6
  <2> HIDE DEF rows, f
  <2>5. /\ f \in BuildFrames /\ f.pc = "write" /\ f.mode = "delta" /\ f.rows = rows
        /\ f.alone = build[b].alone /\ f.version = current
    BY <1>2, <2>3, <2>4 DEF BuildFrames
  <2>6. f.alone => AloneFits(input, consumed, output, spoilt, f)
    BY <1>3, <2>1, <2>2, <2>5 DEF AloneFits, rows
  <2> QED BY <1>1, <1>2, <1>3, <1>4, <2>5, <2>6, BuildGoesOn
<1>7. CASE mode = "full"
  <2>1. consumed = 0 \/ ~Prefix(input[consumed], input[current])
    <3>1. consumed = 0 \/ ~Extends(consumed, current)
      BY <1>7 DEF Mode
    <3> QED BY <1>2, <1>3, <3>1, ExtendsIs
  <2>2. f = [build[b] EXCEPT !.pc = "read", !.mode = "full"]
    BY <1>7
  <2> HIDE DEF f
  <2>3. /\ f \in BuildFrames /\ f.pc = "read" /\ f.mode = "full"
        /\ f.alone = build[b].alone /\ f.version = current
    BY <1>2, <2>2 DEF BuildFrames
  <2>4. f.alone => AloneFits(input, consumed, output, spoilt, f)
    BY <1>3, <2>1, <2>3 DEF AloneFits
  <2> QED BY <1>1, <1>2, <1>3, <1>4, <2>3, <2>4, BuildGoesOn
<1>8. mode \in {"unchanged", "delta", "full"}
  BY DEF Mode
<1> QED BY <1>5, <1>6, <1>7, <1>8

LEMMA ReadInputKeeps == ASSUME IncrementalInv, NEW b \in Builds, ReadInput(b) PROVE IncrementalInv'
<1> DEFINE rows == RowsIn(Latest)
           f == [build[b] EXCEPT !.pc = "write", !.rows = rows]
<1>1. /\ build[b].pc = "read" /\ build' = [build EXCEPT ![b] = f]
      /\ spoilt' = spoilt \cup (IF build[b].version = Len(input) THEN {} ELSE {"overtaken"})
      /\ UNCHANGED <<input, output, consumed>>
  BY DEF ReadInput
<1>2. /\ build[b] \in BuildFrames /\ BuildFits(input, consumed, output, spoilt, build[b])
      /\ InputFormed(input) /\ Len(input) \in Nat /\ consumed \in 0..Len(input) /\ output \in Seq(Nat)
  BY <1>1, FrameOf
<1>3. build[b].version \in 1..Len(input) /\ Len(input) \in 1..Len(input)
  BY <1>1, <1>2 DEF BuildFits
<1>4. rows \in Seq(Nat) /\ rows = RowsIn(input[Len(input)])
  BY <1>2, <1>3, InputIsTyped DEF Latest
<1> HIDE DEF rows
<1>5. /\ f \in BuildFrames /\ f.pc = "write" /\ f.mode = build[b].mode /\ f.rows = rows
      /\ f.alone = build[b].alone /\ f.version = build[b].version
  BY <1>2, <1>4 DEF BuildFrames
<1> HIDE DEF f
<1>6. f.alone => AloneFits(input, consumed, output, spoilt', f)
  <2>1. Prefix(input[f.version], input[Len(input)]) => Within(RowsIn(input[f.version]), rows)
    <3>1. input[f.version] \in Seq(Seq(Nat)) /\ input[Len(input)] \in Seq(Seq(Nat))
      BY <1>2, <1>3, <1>5, InputIsTyped
    <3> QED BY <1>4, <3>1, PrefixRowsWithin
  <2>2. "overtaken" \notin spoilt' => rows = RowsIn(input[f.version])
    BY <1>1, <1>4, <1>5
  <2> QED BY <1>1, <1>2, <1>5, <2>1, <2>2 DEF BuildFits, AloneFits
<1>7. OutputFits(input, consumed', output', spoilt', Recording')
  <2>1. Recording' <=> Recording
    BY <1>1, <1>5, FrameOf DEF Recording
  <2>2. spoilt \subseteq spoilt' /\ (spoilt' = {} => spoilt = {})
    BY <1>1
  <2> QED BY <1>1, <2>1, <2>2 DEF OutputFits, IncrementalInv
<1>8. "overlap" \notin spoilt' => "overlap" \notin spoilt
  BY <1>1
<1> QED BY <1>1, <1>2, <1>3, <1>5, <1>6, <1>7, <1>8, BuildGoesOn

\* What is left of WriteOutput for a build that is alone.
LEMMA WriteEnds ==
    ASSUME IncrementalInv, NEW b \in Builds, build[b].pc # "idle", build[b].alone, NEW f \in BuildFrames,
           build' = [build EXCEPT ![b] = f], f.pc = "record", f.alone = build[b].alone,
           input' = input, consumed' = consumed, output' \in Seq(Nat), Recording',
           f.version \in 1..Len(input), consumed \in 0..Len(input), consumed <= f.version,
           f.mode \in {"full", "delta"},
           f.mode = "full" => consumed = 0 \/ ~Prefix(input[consumed], input[f.version]),
           spoilt' = {} => output' = RowsIn(input[f.version]),
           "overlap" \notin spoilt' /\ Prefix(input[f.version], input[Len(input)]) =>
                Within(RowsIn(input[f.version]), output'),
           "overlap" \notin spoilt' /\ consumed # 0 /\ Prefix(input[consumed], input[Len(input)]) =>
                Within(RowsIn(input[consumed]), output')
    PROVE  IncrementalInv'
<1>1. AloneFits(input, consumed', output', spoilt', f)
  BY DEF AloneFits
<1>2. OutputFits(input, consumed', output', spoilt', Recording')
  BY DEF OutputFits
<1> QED BY <1>1, <1>2, BuildGoesOn

LEMMA WriteOutputKeeps == ASSUME IncrementalInv, NEW b \in Builds, WriteOutput(b) PROVE IncrementalInv'
<1> DEFINE f == [build[b] EXCEPT !.pc = "record"]
           version == build[b].version
           rows == build[b].rows
<1>1. /\ build[b].pc = "write" /\ build' = [build EXCEPT ![b] = f]
      /\ output' = IF build[b].mode = "delta" THEN output \o rows ELSE rows
      /\ spoilt' = IF Undisturbed(b) THEN {} ELSE spoilt
      /\ UNCHANGED <<input, consumed>>
  BY DEF WriteOutput
<1>2. /\ build[b] \in BuildFrames /\ BuildFits(input, consumed, output, spoilt, build[b])
      /\ InputFormed(input) /\ Len(input) \in Nat /\ consumed \in 0..Len(input) /\ output \in Seq(Nat)
      /\ OutputFits(input, consumed, output, spoilt, Recording)
  BY <1>1, FrameOf DEF IncrementalInv
<1>3. version \in 1..Len(input) /\ Len(input) \in 1..Len(input) /\ rows \in Seq(Nat)
  BY <1>1, <1>2 DEF BuildFits, BuildFrames
<1>4. /\ f \in BuildFrames /\ f.pc = "record" /\ f.mode = build[b].mode
      /\ f.alone = build[b].alone /\ f.version = version
  BY <1>1, <1>2 DEF BuildFrames
<1> HIDE DEF f, version, rows
<1>5. output' \in Seq(Nat)
  BY <1>1, <1>2, <1>3
<1>6. Recording'
  BY <1>1, <1>4, FrameOf DEF Recording
<1>7. CASE ~build[b].alone
  <2>1. "overlap" \in spoilt /\ spoilt' = spoilt
    BY <1>1, <1>2, <1>7 DEF BuildFits, Undisturbed
  <2>2. OutputFits(input, consumed', output', spoilt', Recording')
    BY <1>6, <2>1 DEF OutputFits
  <2> QED BY <1>1, <1>2, <1>3, <1>4, <1>5, <1>7, <2>1, <2>2, BuildGoesOn
<1>8. CASE build[b].alone
  <2>1. AloneFits(input, consumed, output, spoilt, build[b]) /\ consumed <= version
    BY <1>1, <1>2, <1>8 DEF BuildFits, AloneFits, version
  <2>2. ~Recording
    <3>1. \A o \in Builds \ {b} : build[o].pc = "idle"
      BY <1>1, <1>8 DEF IncrementalInv, AloneIsAlone, Alone
    <3> QED BY <1>1, <3>1 DEF Recording
  <2>3. build[b].mode \in {"full", "delta"}
    BY <1>1, <2>1 DEF AloneFits
  <2> DEFINE Kept == /\ "overlap" \notin spoilt' /\ consumed # 0
                     /\ Prefix(input[consumed], input[Len(input)])
                     => Within(RowsIn(input[consumed]), output')
             Whole == build[b].mode = "full" =>
                            consumed = 0 \/ ~Prefix(input[consumed], input[version])
  <2>4. Whole
    BY <1>1, <2>1 DEF AloneFits, version
  <2>5. CASE build[b].mode = "delta"
    <3>1. output' = output \o rows /\ spoilt' = spoilt
      BY <1>1, <2>5 DEF Undisturbed
    <3>2. /\ consumed \in 1..Len(input) /\ Prefix(input[consumed], input[version])
          /\ rows = RowsIn(Rest(input[consumed], input[version]))
      BY <1>1, <1>2, <2>1, <2>5 DEF AloneFits, version, rows
    <3>3. RowsIn(input[version]) = RowsIn(input[consumed]) \o rows
      <4>1. input[consumed] \in Seq(Seq(Nat)) /\ input[version] \in Seq(Seq(Nat))
        BY <1>2, <1>3, <3>2, InputIsTyped
      <4> QED BY <3>2, <4>1, RowsSplitAtPrefix DEF RowsSplit
    <3>4. RowsIn(input[consumed]) \in Seq(Nat)
      BY <1>2, <3>2, InputIsTyped
    <3>5. Kept
      <4> SUFFICES ASSUME "overlap" \notin spoilt', consumed # 0, Prefix(input[consumed], input[Len(input)])
                   PROVE  Within(RowsIn(input[consumed]), output')
        OBVIOUS
      <4>1. Within(RowsIn(input[consumed]), output)
        BY <1>2, <3>1 DEF OutputFits
      <4> QED BY <1>2, <1>3, <3>1, <3>4, <4>1, WithinMore
    <3>6. ASSUME spoilt' = {} PROVE output' = RowsIn(input[version])
      <4>1. spoilt = {} /\ consumed # 0
        BY <1>2, <3>1, <3>2, <3>6
      <4>2. output = RowsIn(input[consumed])
        BY <1>2, <2>2, <4>1 DEF OutputFits
      <4> QED BY <3>1, <3>3, <4>2
    <3>7. ASSUME "overlap" \notin spoilt', Prefix(input[version], input[Len(input)])
          PROVE  Within(RowsIn(input[version]), output')
      <4>1. Prefix(input[consumed], input[Len(input)])
        BY <1>2, <1>3, <3>2, <3>7, PrefixComposes
      <4>2. Within(RowsIn(input[consumed]), output') /\ Within(rows, output')
        <5>1. Within(RowsIn(input[consumed]), output')
          BY <3>2, <3>5, <3>7, <4>1
        <5>2. Within(rows, output')
          BY <1>2, <1>3, <3>1, WithinMore
        <5> QED BY <5>1, <5>2
      <4> QED BY <1>3, <1>5, <3>3, <3>4, <4>2, WithinMore
    <3> QED BY <1>1, <1>2, <1>3, <1>4, <1>5, <1>6, <1>8, <2>1, <2>3, <2>4, <2>5, <3>5, <3>6, <3>7,
               WriteEnds DEF version
  <2>6. CASE build[b].mode = "full"
    <3>1. output' = rows
      BY <1>1, <2>6
    <3>2. /\ Prefix(input[version], input[Len(input)]) => Within(RowsIn(input[version]), rows)
          /\ "overtaken" \notin spoilt => rows = RowsIn(input[version])
      BY <1>1, <2>1, <2>6 DEF AloneFits, version, rows
    <3>3. ASSUME spoilt' = {} PROVE output' = RowsIn(input[version])
      <4>1. CASE Undisturbed(b)
        BY <3>1, <4>1 DEF Undisturbed, version, rows
      <4>2. CASE ~Undisturbed(b)
        BY <1>1, <3>1, <3>2, <3>3, <4>2
      <4> QED BY <4>1, <4>2
    <3>4. Kept
      <4> SUFFICES ASSUME consumed # 0, Prefix(input[consumed], input[Len(input)]) PROVE FALSE
        OBVIOUS
      <4>1. consumed \in 1..Len(input) /\ consumed <= version /\ version <= Len(input)
        BY <1>2, <1>3, <2>1
      <4>2. Prefix(input[consumed], input[version])
        BY <1>2, <1>3, <4>1 DEF InputFormed, NoWayBack
      <4> QED BY <2>4, <2>6, <4>2
    <3> QED BY <1>1, <1>2, <1>3, <1>4, <1>5, <1>6, <1>8, <2>1, <2>3, <2>4, <2>6, <3>1, <3>2, <3>3, <3>4,
               WriteEnds DEF version
  <2> QED BY <2>3, <2>5, <2>6
<1> QED BY <1>7, <1>8

LEMMA RecordKeeps == ASSUME IncrementalInv, NEW b \in Builds, Record(b) PROVE IncrementalInv'
<1> DEFINE version == build[b].version
<1>1. /\ build[b].pc = "record" /\ build' = [build EXCEPT ![b] = NoBuild] /\ consumed' = version
      /\ UNCHANGED <<input, output, spoilt>>
  BY DEF Record, ConsumedBy
<1>2. /\ build[b] \in BuildFrames /\ BuildFits(input, consumed, output, spoilt, build[b])
      /\ InputFormed(input) /\ Len(input) \in Nat /\ output \in Seq(Nat)
  BY <1>1, FrameOf
<1>3. version \in 1..Len(input) /\ version # 0 /\ version \in 0..Len(input)
  BY <1>1, <1>2 DEF BuildFits
<1>4. OutputFits(input, consumed', output', spoilt', Recording')
  <2>1. CASE "overlap" \in spoilt
    BY <1>1, <2>1 DEF OutputFits
  <2>2. CASE "overlap" \notin spoilt
    <3>1. AloneFits(input, consumed, output, spoilt, build[b])
      BY <1>1, <1>2, <2>2 DEF BuildFits
    <3> QED BY <1>1, <1>3, <2>2, <3>1 DEF OutputFits, AloneFits, version
  <2> QED BY <2>1, <2>2
<1> HIDE DEF version
<1> QED BY <1>1, <1>2, <1>3, <1>4, NoBuildTyped, BuildGoesOn

LEMMA StopKeeps == ASSUME IncrementalInv, NEW b \in Builds, Stop(b) PROVE IncrementalInv'
<1>1. /\ build[b].pc # "idle" /\ build' = [build EXCEPT ![b] = NoBuild]
      /\ spoilt' = spoilt \cup (IF build[b].pc = "record" THEN {"unrecorded"} ELSE {})
      /\ UNCHANGED <<input, output, consumed>>
  BY DEF Stop
<1>2. consumed \in 0..Len(input) /\ output \in Seq(Nat)
  BY <1>1, FrameOf
<1>3. spoilt \subseteq spoilt' /\ ("overlap" \notin spoilt' => "overlap" \notin spoilt)
  BY <1>1
<1>4. OutputFits(input, consumed', output', spoilt', Recording')
  <2>1. spoilt' = {} => spoilt = {} /\ build[b].pc # "record"
    BY <1>1
  <2>2. build[b].pc # "record" => (Recording => Recording')
    BY <1>1, FrameOf DEF Recording
  <2> QED BY <1>1, <1>3, <2>1, <2>2 DEF OutputFits, IncrementalInv
<1> QED BY <1>1, <1>2, <1>3, <1>4, NoBuildTyped, BuildGoesOn

LEMMA IncrementalStart == IncrementalInit => IncrementalInv
<1> SUFFICES ASSUME IncrementalInit PROVE IncrementalInv
  OBVIOUS
<1>1. /\ input = <<>> /\ output = <<>> /\ consumed = 0
      /\ build = [b \in Builds |-> NoBuild] /\ spoilt = {}
  BY DEF IncrementalInit
<1>2. InputFormed(input) /\ Len(input) = 0
  <2> DEFINE S == Seq(Seq(Nat))
  <2>1. <<>> \in Seq(S) /\ Len(<<>>) = 0 /\ 1..0 = {}
    OBVIOUS
  <2> QED BY <1>1, <2>1 DEF InputFormed, NoWayBack, S
<1>3. \A b \in Builds : build[b] = NoBuild /\ build[b].pc = "idle" /\ build[b] \in BuildFrames
  BY <1>1, NoBuildTyped
<1>4. consumed \in 0..Len(input) /\ output \in Seq(Nat)
  BY <1>1, <1>2
<1>5. IncrementalTyped
  BY <1>1, <1>2, <1>3, <1>4 DEF IncrementalTyped
<1>6. OutputFits(input, consumed, output, spoilt, Recording)
  BY <1>1 DEF OutputFits
<1> QED BY <1>3, <1>5, <1>6 DEF IncrementalInv, AloneIsAlone, BuildFits

LEMMA IncrementalStepKeeps ==
    IncrementalInv /\ [IncrementalNext]_incrementalVars => IncrementalInv'
<1> SUFFICES ASSUME IncrementalInv, [IncrementalNext]_incrementalVars PROVE IncrementalInv'
  OBVIOUS
<1>1. CASE AppendInput \/ RewriteInput \/ CompactInput
  BY <1>1, WritersKeep
<1>2. ASSUME NEW b \in Builds, ReadVersion(b) PROVE IncrementalInv'
  BY <1>2, ReadVersionKeeps
<1>3. ASSUME NEW b \in Builds, ReadState(b) PROVE IncrementalInv'
  BY <1>3, ReadStateKeeps
<1>4. ASSUME NEW b \in Builds, ReadInput(b) PROVE IncrementalInv'
  BY <1>4, ReadInputKeeps
<1>5. ASSUME NEW b \in Builds, WriteOutput(b) PROVE IncrementalInv'
  BY <1>5, WriteOutputKeeps
<1>6. ASSUME NEW b \in Builds, Record(b) PROVE IncrementalInv'
  BY <1>6, RecordKeeps
<1>7. ASSUME NEW b \in Builds, Stop(b) PROVE IncrementalInv'
  BY <1>7, StopKeeps
<1>8. CASE UNCHANGED incrementalVars
  BY <1>8 DEF incrementalVars, IncrementalInv, IncrementalTyped, AloneIsAlone, Alone, Recording
<1> QED BY <1>1, <1>2, <1>3, <1>4, <1>5, <1>6, <1>7, <1>8 DEF IncrementalNext

LEMMA InputConsumedFrom == IncrementalInv => InputConsumed
<1> SUFFICES ASSUME IncrementalInv PROVE InputConsumed
  OBVIOUS
<1>1. /\ InputFormed(input) /\ consumed \in 0..Len(input)
      /\ OutputFits(input, consumed, output, spoilt, Recording)
  BY DEF IncrementalInv, IncrementalTyped
<1>2. AtRest => ~Recording
  BY DEF AtRest, Recording
<1>3. consumed # 0 => consumed \in 1..Len(input) /\ Len(input) \in 1..Len(input)
  BY <1>1, InputIsTyped
<1>4. consumed # 0 => (Extends(consumed, Len(input)) <=> Prefix(input[consumed], input[Len(input)]))
  BY <1>1, <1>3, ExtendsIs
<1> QED BY <1>1, <1>2, <1>4 DEF InputConsumed, ConsumesOnce, NothingLost, Consumed, OutputFits

(* Whatever is appended to the input, rewritten or compacted meanwhile,    *)
(* however executions overlap and wherever they stop, an incremental       *)
(* transform at rest has put every row of the version it is recorded to    *)
(* have consumed into its output, and exactly once unless executions       *)
(* overlapped, one died before its record or a full read was overtaken     *)
(* (Builder.execute, _incremental_input).                                  *)
THEOREM InputAlwaysConsumed == IncrementalSpec => []InputConsumed
<1>1. IncrementalInit => IncrementalInv
  BY IncrementalStart
<1>2. IncrementalInv /\ [IncrementalNext]_incrementalVars => IncrementalInv'
  BY IncrementalStepKeeps
<1>3. IncrementalInv => InputConsumed
  BY InputConsumedFrom
<1> QED BY <1>1, <1>2, <1>3, PTL DEF IncrementalSpec

(***************************************************************************)
(* The planner.                                                            *)
(***************************************************************************)
\* What the assumption says of the constants, for the declarations in hand.
Given ==
    /\ Listed(declared) /\ \A s \in All : Listed(s.inputs)
    /\ targets = AllOutputs \/ Listed(targets)

\* What is registered is what is declared so far, without a clash.
Collected ==
    /\ registry \in Seq(All) /\ Len(registry) <= Len(declared)
    /\ \A i \in DOMAIN registry : registry[i] = declared[i]
    /\ \A i, j \in DOMAIN registry :
          i # j => registry[i].name # registry[j].name /\ registry[i].output # registry[j].output

Resolved == Len(registry) = Len(declared) /\ Known

\* The search, with its roots r, its calls p and its order o. No transform is
\* visited twice,
Apart(p, o) ==
    /\ \A i, j \in DOMAIN o : o[i] = o[j] => i = j
    /\ \A i, j \in DOMAIN p : p[i].spec = p[j].spec => i = j
    /\ \A i \in DOMAIN p, j \in DOMAIN o : p[i].spec # o[j]

\* each call is about a transform that feeds its caller's,
Chained(p) == \A i, j \in DOMAIN p : j = i + 1 => p[j].spec \in Before(p[i].spec)

\* the inputs a call has passed are done, but for the one it waits for,
Passed(p, o) ==
    \A i \in DOMAIN p : \A k \in DOMAIN p[i].spec.inputs : k < p[i].next =>
        \A u \in Producers(registry, p[i].spec.inputs[k]) :
            u \in Members(o) \/ \E j \in DOMAIN p : j = i + 1 /\ u = p[j].spec

\* all that feed a transform that is done precede it,
Sorted(o) == \A j \in DOMAIN o : \A u \in Before(o[j]) : \E i \in DOMAIN o : i < j /\ o[i] = u

\* and nothing asked for is forgotten.
Covered(r, p, o) ==
    \A s \in Asked : s \in Members(r) \/ s \in Members(o) \/ \E i \in DOMAIN p : p[i].spec = s

Calls == [spec : Wanted, next : Nat \ {0}]

Search(r, p, o) ==
    /\ r \in Seq(Wanted) /\ p \in Seq(Calls) /\ o \in Seq(Wanted)
    /\ Apart(p, o) /\ Chained(p) /\ Passed(p, o) /\ Sorted(o) /\ Covered(r, p, o)

PlannerInv ==
    /\ Given /\ Collected
    /\ planning = "collecting" => path = <<>> /\ order = <<>>
    /\ planning = "visiting" => Resolved /\ Search(roots, path, order)
    /\ PlanIsTopological

(* The declarations as a graph. *)

LEMMA BeforeIs ==
    ASSUME NEW s \in All
    PROVE  /\ Before(s) = {u \in All : u.output \in Members(s.inputs)}
           /\ Before(s) \subseteq All
<1>1. ASSUME NEW u \in Before(s)
      PROVE  u \in All /\ u.output \in Members(s.inputs)
  BY <1>1 DEF Before, Feeds
<1>2. ASSUME NEW u \in All, u.output \in Members(s.inputs)
      PROVE  u \in Before(s)
  <2> DEFINE e == <<u, s>>
  <2>1. e \in {f \in Feeds : f[2] = s} /\ e[1] = u
    BY <1>2 DEF Feeds
  <2> QED BY <2>1 DEF Before
<1> QED BY <1>1, <1>2

LEMMA ClosureIs ==
    ASSUME NEW specs, specs \subseteq All
    PROVE  /\ specs \subseteq Closure(specs) /\ Closure(specs) \subseteq All
           /\ Closed(Closure(specs))
           /\ \A C \in SUBSET All : specs \subseteq C /\ Closed(C) => Closure(specs) \subseteq C
<1>1. specs \subseteq Closure(specs) /\ Closure(specs) \subseteq All
  BY DEF Closure
<1>2. ASSUME NEW s \in Closure(specs), NEW u \in Before(s)
      PROVE  u \in Closure(specs)
  <2>1. u \in All
    BY <1>1, <1>2, BeforeIs
  <2>2. ASSUME NEW C \in SUBSET All, specs \subseteq C, Closed(C)
        PROVE  u \in C
    <3>1. s \in C
      BY <1>2, <2>2 DEF Closure
    <3> QED BY <1>2, <2>2, <3>1 DEF Closed
  <2> QED BY <2>1, <2>2 DEF Closure
<1>3. Closed(Closure(specs))
  BY <1>2 DEF Closed
<1>4. ASSUME NEW C \in SUBSET All, specs \subseteq C, Closed(C)
      PROVE  Closure(specs) \subseteq C
  BY <1>4 DEF Closure
<1> QED BY <1>1, <1>3, <1>4

LEMMA WantedIs ==
    /\ Asked \subseteq Wanted /\ Wanted \subseteq All /\ Closed(Wanted)
    /\ \A C \in SUBSET All : Asked \subseteq C /\ Closed(C) => Wanted \subseteq C
<1>1. Asked \subseteq All
  BY DEF Asked
<1> QED BY <1>1, ClosureIs DEF Wanted

\* Once everything is registered, a dataset has at most one producer.
LEMMA ProducersAre ==
    ASSUME Given, Collected, Len(registry) = Len(declared)
    PROVE  /\ registry = declared /\ WellDeclared
           /\ \A d : /\ Producers(registry, d) = {u \in All : u.output = d}
                     /\ \A u, v \in Producers(registry, d) : u = v
<1>1. declared \in Seq(All)
  BY DEF Given, Listed, All
<1>2. DOMAIN registry = 1..Len(registry) /\ DOMAIN declared = 1..Len(declared)
  BY <1>1 DEF Collected
<1>3. registry = declared
  BY <1>1, <1>2 DEF Collected
<1>4. WellDeclared
  BY <1>3 DEF Collected, WellDeclared
<1>5. Members(registry) = All
  BY <1>3 DEF All
<1>6. \A d : Producers(registry, d) = {u \in All : u.output = d}
  BY <1>5 DEF Producers
<1>7. ASSUME NEW u \in All, NEW v \in All, u.output = v.output
      PROVE  u = v
  <2>1. PICK i \in DOMAIN declared : u = declared[i]
    BY DEF All, Members
  <2>2. PICK j \in DOMAIN declared : v = declared[j]
    BY DEF All, Members
  <2> QED BY <1>4, <1>7, <2>1, <2>2 DEF WellDeclared
<1> QED BY <1>3, <1>4, <1>6, <1>7

LEMMA FeedersProduce ==
    ASSUME Given, Collected, Len(registry) = Len(declared), NEW s \in All
    PROVE  \A u : u \in Before(s) <=>
              \E k \in DOMAIN s.inputs : u \in Producers(registry, s.inputs[k])
<1>1. Before(s) = {u \in All : u.output \in Members(s.inputs)}
  BY BeforeIs
<1>2. \A d : Producers(registry, d) = {u \in All : u.output = d}
  BY ProducersAre
<1> QED BY <1>1, <1>2 DEF Members

(* The search. *)

LEMMA HeadOrTail ==
    ASSUME NEW S, NEW r \in Seq(S), r # <<>>, NEW s \in Members(r)
    PROVE  s = Head(r) \/ s \in Members(Tail(r))
<1>1. PICK i \in 1..Len(r) : s = r[i]
  BY DEF Members
<1>2. CASE i = 1
  BY <1>1, <1>2
<1>3. CASE i # 1
  <2>1. Tail(r) \in Seq(S) /\ Len(Tail(r)) = Len(r) - 1
    OBVIOUS
  <2>2. i - 1 \in 1..Len(Tail(r))
    BY <1>1, <1>3, <2>1
  <2>3. i - 1 \in DOMAIN Tail(r)
    BY <2>1, <2>2
  <2>4. Tail(r)[i - 1] = r[i]
    BY <1>1, <2>1, <2>2
  <2> QED BY <1>1, <2>3, <2>4 DEF Members
<1> QED BY <1>2, <1>3

LEMMA SearchStarts ==
    ASSUME Given, Collected, Len(registry) = Len(declared), NEW r \in Seq(Asked),
           Asked \subseteq Members(r)
    PROVE  Search(r, <<>>, <<>>)
<1>1. r \in Seq(Wanted)
  BY WantedIs
<1>2. <<>> \in Seq(Calls) /\ <<>> \in Seq(Wanted)
  OBVIOUS
<1>3. Apart(<<>>, <<>>) /\ Chained(<<>>) /\ Passed(<<>>, <<>>) /\ Sorted(<<>>)
  BY DEF Apart, Chained, Passed, Sorted
<1>4. Covered(r, <<>>, <<>>)
  BY DEF Covered
<1> QED BY <1>1, <1>2, <1>3, <1>4 DEF Search

LEMMA SearchSkipsRoot ==
    ASSUME NEW r, NEW o, Search(r, <<>>, o), r # <<>>, Head(r) \in Members(o)
    PROVE  Search(Tail(r), <<>>, o)
<1>1. Tail(r) \in Seq(Wanted)
  BY DEF Search
<1>2. \A s \in Members(r) : s = Head(r) \/ s \in Members(Tail(r))
  BY HeadOrTail DEF Search
<1>3. Covered(Tail(r), <<>>, o)
  BY <1>2 DEF Covered, Search
<1> QED BY <1>1, <1>3 DEF Search

LEMMA SearchVisitsRoot ==
    ASSUME Given, NEW r, NEW o, Search(r, <<>>, o), r # <<>>, Head(r) \notin Members(o)
    PROVE  Search(Tail(r), <<[spec |-> Head(r), next |-> 1]>>, o)
<1> DEFINE p == <<[spec |-> Head(r), next |-> 1]>>
<1>1. Tail(r) \in Seq(Wanted) /\ Head(r) \in Wanted
  BY DEF Search
<1>2. p \in Seq(Calls) /\ DOMAIN p = {1} /\ p[1].spec = Head(r) /\ p[1].next = 1
  BY <1>1 DEF Calls
<1> HIDE DEF p
<1>3. \A s \in Members(r) : s = Head(r) \/ s \in Members(Tail(r))
  BY HeadOrTail DEF Search
<1>4. Covered(Tail(r), p, o)
  BY <1>2, <1>3 DEF Covered, Search
<1>5. Apart(p, o)
  BY <1>2 DEF Apart, Search, Members
<1>6. Chained(p)
  BY <1>2 DEF Chained
<1>7. Passed(p, o)
  <2> SUFFICES ASSUME NEW i \in DOMAIN p, NEW k \in DOMAIN p[i].spec.inputs, k < p[i].next
               PROVE  FALSE
    BY DEF Passed
  <2>1. k < 1 /\ p[i].spec \in All /\ Listed(p[i].spec.inputs)
    BY <1>1, <1>2, WantedIs DEF Given
  <2> QED BY <2>1 DEF Listed
<1> QED BY <1>1, <1>2, <1>4, <1>5, <1>6, <1>7 DEF Search, p

LEMMA CallIs ==
    ASSUME NEW c \in Calls
    PROVE  c.spec \in Wanted /\ c.spec \in All /\ c.next \in Nat
BY WantedIs DEF Calls

LEMMA FrontIs ==
    ASSUME NEW S, NEW p \in Seq(S), p # <<>>,
           NEW front, front = SubSeq(p, 1, Len(p) - 1)
    PROVE  /\ front \in Seq(S) /\ Len(front) = Len(p) - 1
           /\ \A i \in 1..Len(p) - 1 : front[i] = p[i]
<1>1. Len(p) \in Nat /\ Len(p) # 0 /\ \A i \in 1..Len(p) : p[i] \in S
  OBVIOUS
<1> DEFINE n == Len(p) - 1
<1>2. n \in Nat /\ \A i \in 1..n : p[i] \in S
  BY <1>1
<1>3. front = [i \in 1..n |-> p[i]]
  BY <1>1
<1> HIDE DEF n
<1>4. front \in Seq(S) /\ Len(front) = n /\ \A i \in 1..n : front[i] = p[i]
  BY <1>2, <1>3
<1> QED BY <1>4 DEF n

\* Frames that differ from the calls in the next input of the last.
Stepped(p, f) ==
    /\ Len(f) = Len(p)
    /\ \A i \in 1..Len(p) : f[i].spec = p[i].spec
    /\ \A i \in 1..Len(p) : i < Len(p) => f[i].next = p[i].next
    /\ f[Len(p)].next = p[Len(p)].next + 1

LEMMA FramesStep ==
    ASSUME NEW p \in Seq(Calls), p # <<>>,
           NEW f, f = Append(SubSeq(p, 1, Len(p) - 1),
                             [spec |-> p[Len(p)].spec, next |-> p[Len(p)].next + 1])
    PROVE  f \in Seq(Calls) /\ Stepped(p, f)
<1> DEFINE last == [spec |-> p[Len(p)].spec, next |-> p[Len(p)].next + 1]
           callers == SubSeq(p, 1, Len(p) - 1)
<1>1. Len(p) \in 1..Len(p) /\ p[Len(p)] \in Calls
  OBVIOUS
<1>2. last \in Calls /\ last.spec = p[Len(p)].spec /\ last.next = p[Len(p)].next + 1
  BY <1>1 DEF Calls
<1>3. callers \in Seq(Calls) /\ Len(callers) = Len(p) - 1
      /\ \A i \in 1..Len(p) - 1 : callers[i] = p[i]
  BY FrontIs
<1>4. f = Append(callers, last)
  OBVIOUS
<1> HIDE DEF last, callers
<1>5. f \in Seq(Calls) /\ Len(f) = Len(p) /\ f[Len(p)] = last
      /\ \A i \in 1..Len(p) - 1 : f[i] = p[i]
  BY <1>1, <1>2, <1>3, <1>4
<1>6. \A i \in 1..Len(p) : i < Len(p) => f[i] = p[i]
  BY <1>1, <1>5
<1> QED BY <1>1, <1>2, <1>5, <1>6 DEF Stepped

\* The last call goes on to its next input, which nothing is left to wait for.
LEMMA SearchPasses ==
    ASSUME Given, NEW r, NEW p, NEW o, Search(r, p, o), p # <<>>,
           NEW f \in Seq(Calls), Stepped(p, f),
           \A k \in DOMAIN p[Len(p)].spec.inputs : k = p[Len(p)].next =>
              \A u \in Producers(registry, p[Len(p)].spec.inputs[k]) : u \in Members(o)
    PROVE  Search(r, f, o)
<1>1. p \in Seq(Calls) /\ DOMAIN p = 1..Len(p) /\ DOMAIN f = 1..Len(p) /\ Len(p) \in 1..Len(p)
  BY DEF Search, Stepped
<1>2. \A i \in 1..Len(p) : f[i].spec = p[i].spec
  BY DEF Stepped
<1>3. Apart(f, o)
  BY <1>1, <1>2 DEF Apart, Search
<1>4. Chained(f)
  BY <1>1, <1>2 DEF Chained, Search
<1>5. Covered(r, f, o)
  BY <1>1, <1>2 DEF Covered, Search
<1>6. ASSUME NEW i \in DOMAIN f, NEW k \in DOMAIN f[i].spec.inputs, k < f[i].next,
             NEW u \in Producers(registry, f[i].spec.inputs[k])
      PROVE  u \in Members(o) \/ \E j \in DOMAIN f : j = i + 1 /\ u = f[j].spec
  <2>1. i \in DOMAIN p /\ f[i].spec = p[i].spec /\ k \in DOMAIN p[i].spec.inputs
        /\ u \in Producers(registry, p[i].spec.inputs[k])
    BY <1>1, <1>2, <1>6
  <2>2. CASE k < p[i].next
    <3>1. u \in Members(o) \/ \E j \in DOMAIN p : j = i + 1 /\ u = p[j].spec
      BY <2>1, <2>2 DEF Passed, Search
    <3> QED BY <1>1, <1>2, <3>1
  <2>3. CASE ~(k < p[i].next)
    <3>1. p[i] \in Calls /\ p[i].spec \in All /\ p[i].next \in Nat
      BY <1>1, <2>1, CallIs
    <3>2. k \in Nat
      BY <2>1, <3>1 DEF Given, Listed
    <3>3. i = Len(p)
      BY <1>1, <1>6, <2>1, <2>3 DEF Stepped
    <3>4. f[i].next = p[i].next + 1
      BY <3>3 DEF Stepped
    <3>5. k = p[i].next
      BY <1>6, <2>3, <3>1, <3>2, <3>4
    <3> QED BY <2>1, <3>3, <3>5
  <2> QED BY <2>2, <2>3
<1>7. Passed(f, o)
  BY <1>6 DEF Passed
<1> QED BY <1>3, <1>4, <1>5, <1>7 DEF Search

\* It goes on to an input whose producer it visits.
LEMMA SearchCalls ==
    ASSUME Given, Collected, Len(registry) = Len(declared),
           NEW r, NEW p, NEW o, Search(r, p, o), p # <<>>,
           NEW f \in Seq(Calls), Stepped(p, f),
           p[Len(p)].next \in DOMAIN p[Len(p)].spec.inputs,
           NEW u \in Producers(registry, p[Len(p)].spec.inputs[p[Len(p)].next]),
           u \notin Members(o), \A i \in DOMAIN p : p[i].spec # u,
           NEW g, g = Append(f, [spec |-> u, next |-> 1])
    PROVE  Search(r, g, o)
<1> DEFINE n == Len(p)
           call == [spec |-> u, next |-> 1]
<1>1. p \in Seq(Calls) /\ n \in Nat /\ DOMAIN p = 1..n /\ DOMAIN f = 1..n /\ n \in 1..n /\ Len(f) = n
  BY DEF Search, Stepped
<1>2. \A i \in 1..n : f[i].spec = p[i].spec
  BY DEF Stepped
<1>3. p[n].spec \in Wanted /\ p[n].spec \in All
  BY <1>1, CallIs
<1>4. u \in Before(p[n].spec) /\ u \in Wanted /\ u \in All
  <2>1. u \in Before(p[n].spec)
    BY <1>3, FeedersProduce
  <2> QED BY <1>3, <2>1, WantedIs DEF Closed
<1>5. call \in Calls /\ call.spec = u /\ call.next = 1
  BY <1>4 DEF Calls
<1>6. g = Append(f, call)
  OBVIOUS
<1> HIDE DEF call
<1>7. g \in Seq(Calls) /\ DOMAIN g = 1..(n + 1) /\ g[n + 1] = call /\ \A i \in 1..n : g[i] = f[i]
  BY <1>1, <1>5, <1>6
<1>8. \A i \in 1..n : g[i].spec = p[i].spec
  BY <1>2, <1>7
<1>9. g[n + 1].spec = u
  BY <1>5, <1>7
<1>10. \A i \in 1..(n + 1) : i \in 1..n \/ i = n + 1
  BY <1>1
<1> HIDE DEF n
<1>11. Apart(g, o)
  <2>1. \A i, j \in DOMAIN g : g[i].spec = g[j].spec => i = j
    BY <1>1, <1>7, <1>8, <1>9, <1>10, SMTT(30) DEF Apart, Search
  <2>2. \A i \in DOMAIN g, j \in DOMAIN o : g[i].spec # o[j]
    BY <1>1, <1>7, <1>8, <1>9, <1>10 DEF Apart, Search, Members
  <2> QED BY <2>1, <2>2 DEF Apart, Search
<1>12. Chained(g)
  <2> SUFFICES ASSUME NEW i \in DOMAIN g, NEW j \in DOMAIN g, j = i + 1
               PROVE  g[j].spec \in Before(g[i].spec)
    BY DEF Chained
  <2>1. i \in 1..n
    BY <1>1, <1>7
  <2>2. CASE j \in 1..n
    BY <1>1, <1>8, <2>1, <2>2 DEF Chained, Search
  <2>3. CASE j = n + 1
    <3>1. i = n
      BY <1>1, <2>1, <2>3
    <3> QED BY <1>4, <1>8, <1>9, <2>1, <2>3, <3>1
  <2> QED BY <1>7, <1>10, <2>2, <2>3
<1>13. Covered(r, g, o)
  <2>1. \A i \in DOMAIN p : i \in DOMAIN g /\ g[i].spec = p[i].spec
    BY <1>1, <1>7, <1>8
  <2> QED BY <2>1 DEF Covered, Search
<1>14. ASSUME NEW i \in DOMAIN g, NEW k \in DOMAIN g[i].spec.inputs, k < g[i].next,
              NEW v \in Producers(registry, g[i].spec.inputs[k])
       PROVE  v \in Members(o) \/ \E j \in DOMAIN g : j = i + 1 /\ v = g[j].spec
  <2>1. CASE i = n + 1
    <3>1. k < 1 /\ Listed(u.inputs) /\ k \in DOMAIN u.inputs
      BY <1>4, <1>5, <1>7, <1>9, <1>14, <2>1 DEF Given
    <3> QED BY <3>1 DEF Listed
  <2>2. CASE i \in 1..n
    <3>1. i \in DOMAIN p /\ g[i].spec = p[i].spec /\ k \in DOMAIN p[i].spec.inputs
          /\ v \in Producers(registry, p[i].spec.inputs[k]) /\ g[i].next = f[i].next
      BY <1>1, <1>7, <1>8, <1>14, <2>2
    <3>2. CASE k < p[i].next
      <4>1. v \in Members(o) \/ \E j \in DOMAIN p : j = i + 1 /\ v = p[j].spec
        BY <3>1, <3>2 DEF Passed, Search
      <4>2. \A j \in DOMAIN p : j \in DOMAIN g /\ g[j].spec = p[j].spec
        BY <1>1, <1>7, <1>8
      <4> QED BY <4>1, <4>2
    <3>3. CASE ~(k < p[i].next)
      <4>1. p[i] \in Calls /\ p[i].spec \in All /\ p[i].next \in Nat
        BY <1>1, <3>1, CallIs
      <4>2. k \in Nat
        BY <3>1, <4>1 DEF Given, Listed
      <4>3. i = n
        BY <1>1, <1>14, <3>1, <3>3 DEF Stepped, n
      <4>4. f[i].next = p[i].next + 1
        BY <4>3 DEF Stepped, n
      <4>5. k = p[i].next
        BY <1>14, <3>1, <3>3, <4>1, <4>2, <4>4
      <4>6. v = u
        BY <3>1, <4>3, <4>5, ProducersAre DEF n
      <4> QED BY <1>1, <1>7, <1>9, <4>3, <4>6
    <3> QED BY <3>2, <3>3
  <2> QED BY <1>7, <1>10, <2>1, <2>2
<1>15. Passed(g, o)
  BY <1>14 DEF Passed
<1> QED BY <1>7, <1>11, <1>12, <1>13, <1>15 DEF Search

\* The last call has passed all its inputs and returns.
LEMMA SearchReturns ==
    ASSUME Given, Collected, Len(registry) = Len(declared),
           NEW r, NEW p, NEW o, Search(r, p, o), p # <<>>,
           ~(p[Len(p)].next <= Len(p[Len(p)].spec.inputs)),
           NEW f, f = SubSeq(p, 1, Len(p) - 1), NEW q, q = Append(o, p[Len(p)].spec)
    PROVE  Search(r, f, q)
<1> DEFINE n == Len(p)
           m == Len(o)
           t == p[n].spec
<1>1. p \in Seq(Calls) /\ n \in Nat /\ DOMAIN p = 1..n /\ n \in 1..n
  BY DEF Search
<1>2. f \in Seq(Calls) /\ DOMAIN f = 1..(n - 1) /\ \A i \in 1..(n - 1) : f[i] = p[i]
  BY <1>1, FrontIs
<1>3. p[n] \in Calls /\ t \in Wanted /\ t \in All /\ p[n].next \in Nat
  BY <1>1, CallIs
<1>4. o \in Seq(Wanted) /\ m \in Nat /\ DOMAIN o = 1..m
  BY DEF Search
<1>5. q = Append(o, t)
  OBVIOUS
<1>6. ~(p[n].next <= Len(t.inputs))
  OBVIOUS
<1>7. \A u \in Before(t) : u \in Members(o)
  <2> SUFFICES ASSUME NEW u \in Before(t)
               PROVE  u \in Members(o)
    OBVIOUS
  <2>1. PICK k \in DOMAIN t.inputs : u \in Producers(registry, t.inputs[k])
    BY <1>3, FeedersProduce
  <2>2. k < p[n].next
    <3>1. Listed(t.inputs)
      BY <1>3 DEF Given
    <3>2. k \in Nat /\ Len(t.inputs) \in Nat /\ k <= Len(t.inputs)
      BY <2>1, <3>1 DEF Listed
    <3> QED BY <1>3, <1>6, <3>2
  <2>3. u \in Members(o) \/ \E j \in DOMAIN p : j = n + 1 /\ u = p[j].spec
    BY <1>1, <2>1, <2>2 DEF Passed, Search
  <2> QED BY <1>1, <2>3
<1> HIDE DEF n, m, t
<1>8. q \in Seq(Wanted) /\ DOMAIN q = 1..(m + 1) /\ q[m + 1] = t /\ \A i \in 1..m : q[i] = o[i]
  BY <1>3, <1>4, <1>5 DEF m
<1>9. \A i \in 1..(m + 1) : i \in 1..m \/ i = m + 1
  BY <1>4
<1>10. \A i \in DOMAIN f : i \in DOMAIN p /\ f[i] = p[i] /\ i # n
  BY <1>1, <1>2
<1>11. \A i \in DOMAIN o : i \in DOMAIN q /\ q[i] = o[i]
  BY <1>4, <1>8
<1>12. m + 1 \in DOMAIN q
  BY <1>4, <1>8
<1>13. Members(o) \subseteq Members(q) /\ t \in Members(q)
  BY <1>8, <1>11, <1>12 DEF Members
<1>14. \A i \in DOMAIN p : p[i].spec = t => i = n
  BY <1>1 DEF Apart, Search, t
<1>15. \A j \in DOMAIN o : o[j] # t
  BY <1>1 DEF Apart, Search, t
<1>16. Apart(f, q)
  <2>1. \A i, j \in DOMAIN q : q[i] = q[j] => i = j
    BY <1>4, <1>8, <1>9, <1>15 DEF Apart, Search
  <2>2. \A i, j \in DOMAIN f : f[i].spec = f[j].spec => i = j
    BY <1>10 DEF Apart, Search
  <2>3. \A i \in DOMAIN f, j \in DOMAIN q : f[i].spec # q[j]
    BY <1>4, <1>8, <1>9, <1>10, <1>14 DEF Apart, Search
  <2> QED BY <2>1, <2>2, <2>3 DEF Apart
<1>17. Chained(f)
  BY <1>10 DEF Chained, Search
<1>18. Covered(r, f, q)
  <2> SUFFICES ASSUME NEW s \in Asked, s \notin Members(r), s \notin Members(o), s # t
               PROVE  \E i \in DOMAIN f : f[i].spec = s
    BY <1>13 DEF Covered
  <2>1. PICK i \in DOMAIN p : p[i].spec = s
    BY DEF Covered, Search
  <2>2. i # n
    BY <2>1 DEF t
  <2>3. i \in DOMAIN f
    BY <1>1, <1>2, <2>2
  <2> QED BY <1>10, <2>1, <2>3
<1>19. ASSUME NEW i \in DOMAIN f, NEW k \in DOMAIN f[i].spec.inputs, k < f[i].next,
              NEW u \in Producers(registry, f[i].spec.inputs[k])
       PROVE  u \in Members(q) \/ \E j \in DOMAIN f : j = i + 1 /\ u = f[j].spec
  <2>1. i \in DOMAIN p /\ f[i] = p[i]
    BY <1>10
  <2>2. u \in Members(o) \/ \E j \in DOMAIN p : j = i + 1 /\ u = p[j].spec
    BY <1>19, <2>1 DEF Passed, Search
  <2>3. ASSUME NEW j \in DOMAIN p, j = i + 1, u = p[j].spec
        PROVE  u \in Members(q) \/ \E l \in DOMAIN f : l = i + 1 /\ u = f[l].spec
    <3>1. CASE j = n
      BY <1>13, <2>3, <3>1 DEF t
    <3>2. CASE j # n
      <4>1. j \in DOMAIN f
        BY <1>1, <1>2, <3>2
      <4> QED BY <1>10, <2>3, <4>1
    <3> QED BY <3>1, <3>2
  <2> QED BY <1>13, <2>2, <2>3
<1>20. Passed(f, q)
  BY <1>19 DEF Passed
<1>21. Sorted(q)
  <2> SUFFICES ASSUME NEW j \in DOMAIN q, NEW u \in Before(q[j])
               PROVE  \E i \in DOMAIN q : i < j /\ q[i] = u
    BY DEF Sorted
  <2>1. CASE j \in 1..m
    <3>1. j \in DOMAIN o /\ q[j] = o[j]
      BY <1>4, <1>11, <2>1
    <3>2. \E i \in DOMAIN o : i < j /\ o[i] = u
      BY <3>1 DEF Sorted, Search
    <3> QED BY <1>11, <3>2
  <2>2. CASE j = m + 1
    <3>1. u \in Members(o)
      BY <1>7, <1>8, <2>2
    <3>2. PICK i \in DOMAIN o : o[i] = u
      BY <3>1 DEF Members
    <3>3. i < j
      BY <1>4, <2>2
    <3> QED BY <1>11, <3>2, <3>3
  <2> QED BY <1>8, <1>9, <2>1, <2>2
<1> QED BY <1>2, <1>8, <1>16, <1>17, <1>18, <1>20, <1>21 DEF Search

\* The last call is about to visit a transform whose own call has not
\* returned: its inputs lead back to it.
LEMMA SearchMeetsCycle ==
    ASSUME Given, Collected, Len(registry) = Len(declared),
           NEW r, NEW p, NEW o, Search(r, p, o), p # <<>>,
           NEW k \in DOMAIN p[Len(p)].spec.inputs,
           NEW m \in DOMAIN p, p[m].spec \in Producers(registry, p[Len(p)].spec.inputs[k])
    PROVE  Cyclic(Wanted)
<1> DEFINE n == Len(p)
           u == p[m].spec
<1>1. p \in Seq(Calls) /\ n \in Nat /\ DOMAIN p = 1..n /\ n \in 1..n /\ m \in 1..n
  BY DEF Search
<1>2. \A i \in 1..n : p[i].spec \in Wanted /\ p[i].spec \in All
  BY <1>1, CallIs
<1>3. u \in Before(p[n].spec)
  BY <1>1, <1>2, FeedersProduce
<1>4. ASSUME NEW C \in SUBSET All, Before(u) \subseteq C, Closed(C)
      PROVE  u \in C
  <2> DEFINE T == {l \in Nat : m + l < n => p[m + l + 1].spec \in C}
  <2>1. 0 \in T
    <3>1. ASSUME m < n
          PROVE  p[m + 1].spec \in C
      <4>1. m \in DOMAIN p /\ m + 1 \in DOMAIN p
        BY <1>1, <3>1
      <4>2. p[m + 1].spec \in Before(p[m].spec)
        BY <4>1 DEF Chained, Search
      <4> QED BY <1>4, <4>2
    <3> QED BY <1>1, <3>1
  <2>2. ASSUME NEW l \in Nat, l \in T
        PROVE  l + 1 \in T
    <3>1. ASSUME m + (l + 1) < n
          PROVE  p[m + (l + 1) + 1].spec \in C
      <4>1. m + l < n /\ m + l + 1 \in DOMAIN p /\ m + (l + 1) + 1 \in DOMAIN p
            /\ m + (l + 1) + 1 = (m + l + 1) + 1
        BY <1>1, <3>1
      <4>2. p[m + l + 1].spec \in C
        BY <2>2, <4>1
      <4>3. p[m + (l + 1) + 1].spec \in Before(p[m + l + 1].spec)
        BY <4>1 DEF Chained, Search
      <4> QED BY <1>4, <4>2, <4>3 DEF Closed
    <3> QED BY <3>1
  <2> HIDE DEF T
  <2>3. Nat \subseteq T
    BY <2>1, <2>2, Induct
  <2>4. CASE m = n
    BY <1>3, <1>4, <2>4
  <2>5. CASE m # n
    <3>1. n - m - 1 \in Nat /\ m + (n - m - 1) < n /\ m + (n - m - 1) + 1 = n
      BY <1>1, <2>5
    <3>2. n - m - 1 \in T
      BY <2>3, <3>1
    <3>3. p[n].spec \in C
      BY <3>1, <3>2 DEF T
    <3> QED BY <1>3, <1>4, <3>3 DEF Closed
  <2> QED BY <2>4, <2>5
<1>5. u \in Closure(Before(u))
  BY <1>1, <1>2, <1>4 DEF Closure
<1> QED BY <1>1, <1>2, <1>5 DEF Cyclic

\* A search that has nothing left to visit has found the plan.
LEMMA SearchEnds ==
    ASSUME Given, Collected, Len(registry) = Len(declared), NEW o, Search(<<>>, <<>>, o)
    PROVE  /\ Members(o) = Wanted /\ Len(o) = Cardinality(Wanted) /\ ~Cyclic(Wanted)
           /\ \A i, j \in DOMAIN o : <<o[i], o[j]>> \in Feeds => i < j
<1>1. o \in Seq(Wanted) /\ DOMAIN o = 1..Len(o) /\ Len(o) \in Nat
  BY DEF Search
<1>2. Members(o) \subseteq Wanted /\ Members(o) \in SUBSET All
  BY <1>1, WantedIs DEF Members
<1>3. Asked \subseteq Members(o)
  BY DEF Covered, Search, Members
<1>4. Closed(Members(o))
  BY DEF Closed, Sorted, Search, Members
<1>5. Members(o) = Wanted
  BY <1>2, <1>3, <1>4, WantedIs
<1>6. Len(o) = Cardinality(Wanted)
  <2>1. o \in Surjection(1..Len(o), Wanted)
    BY <1>1, <1>5 DEF Members, Surjection
  <2>2. o \in Injection(1..Len(o), Wanted)
    BY <1>1 DEF Apart, Search, Injection, IsInjective
  <2>3. ExistsBijection(1..Len(o), Wanted)
    BY <2>1, <2>2 DEF ExistsBijection, Bijection
  <2> QED BY <1>1, <2>3, FS_CountingElements
<1>7. ASSUME NEW s \in Wanted, s \in Closure(Before(s))
      PROVE  FALSE
  <2>1. PICK j \in DOMAIN o : o[j] = s
    BY <1>5 DEF Members
  <2> DEFINE C == {o[i] : i \in {l \in DOMAIN o : l < j}}
  <2>2. C \in SUBSET All
    BY <1>2 DEF Members
  <2>3. Before(s) \subseteq C
    BY <2>1 DEF Sorted, Search
  <2>4. Closed(C)
    <3> SUFFICES ASSUME NEW i \in DOMAIN o, i < j, NEW u \in Before(o[i])
                 PROVE  u \in C
      BY DEF Closed
    <3>1. PICK l \in DOMAIN o : l < i /\ o[l] = u
      BY DEF Sorted, Search
    <3>2. l < j
      BY <1>1, <3>1
    <3> QED BY <3>1, <3>2
  <2>5. s \in C
    BY <1>7, <2>2, <2>3, <2>4 DEF Closure
  <2>6. PICK i \in DOMAIN o : i < j /\ o[i] = s
    BY <2>5
  <2>7. i = j
    BY <2>1, <2>6 DEF Apart, Search
  <2> QED BY <1>1, <2>6, <2>7
<1>8. ASSUME NEW i \in DOMAIN o, NEW j \in DOMAIN o, <<o[i], o[j]>> \in Feeds
      PROVE  i < j
  <2>1. o[i] \in Before(o[j])
    <3> DEFINE e == <<o[i], o[j]>>
    <3>1. e \in {f \in Feeds : f[2] = o[j]} /\ e[1] = o[i]
      BY <1>8
    <3> QED BY <3>1 DEF Before
  <2>2. PICK l \in DOMAIN o : l < j /\ o[l] = o[i]
    BY <2>1 DEF Sorted, Search
  <2>3. l = i
    BY <2>2 DEF Apart, Search
  <2> QED BY <2>2, <2>3
<1> QED BY <1>5, <1>6, <1>7, <1>8 DEF Cyclic

(* The steps of the planner. *)

LEMMA PlannerStarts == PlannerInit => PlannerInv
<1> SUFFICES ASSUME PlannerInit PROVE PlannerInv
  OBVIOUS
<1>1. Given
  BY PlannerAssumption DEF PlannerInit, Given, All
<1>2. Collected
  <2>1. declared \in Seq(All)
    BY <1>1 DEF Given, Listed, All
  <2> QED BY <2>1 DEF PlannerInit, Collected
<1>3. PlanIsTopological
  BY DEF PlannerInit, PlanIsTopological
<1> QED BY <1>1, <1>2, <1>3 DEF PlannerInit, PlannerInv

\* What is declared and asked for stays.
LEMMA GraphStays ==
    ASSUME UNCHANGED <<declared, targets>>
    PROVE  /\ All' = All /\ Feeds' = Feeds /\ Asked' = Asked /\ Wanted' = Wanted /\ Calls' = Calls
           /\ WellDeclared' = WellDeclared /\ Known' = Known
           /\ Cyclic(Wanted)' = Cyclic(Wanted)
<1>1. All' = All
  BY DEF All
<1>2. Feeds' = Feeds
  BY <1>1 DEF Feeds
<1>3. Asked' = Asked /\ Wanted' = Wanted /\ Calls' = Calls
  BY <1>1, <1>2 DEF Asked, Wanted, Calls, Closure, Closed, Before
<1>4. WellDeclared' = WellDeclared /\ Known' = Known
  BY DEF WellDeclared, Known
<1>5. Cyclic(Wanted)' = Cyclic(Wanted)
  BY <1>1, <1>2, <1>3 DEF Cyclic, Closure, Closed, Before
<1> QED BY <1>1, <1>2, <1>3, <1>4, <1>5

\* What a step of the search leaves alone.
LEMMA SearchGoesOn ==
    ASSUME PlannerInv, planning = "visiting",
           UNCHANGED <<declared, targets, registry, planning>>, Search(roots', path', order')
    PROVE  PlannerInv'
<1>1. Given' /\ Collected' /\ Resolved'
  BY DEF PlannerInv, Given, Collected, Resolved, All, Known
<1>2. Asked' = Asked /\ Wanted' = Wanted /\ Calls' = Calls
  BY GraphStays
<1>3. Search(roots, path, order)'
  BY <1>2 DEF Search, Apart, Chained, Passed, Sorted, Covered, Before, Feeds, All
<1>4. PlanIsTopological'
  BY DEF PlanIsTopological
<1> QED BY <1>1, <1>3, <1>4 DEF PlannerInv

LEMMA PlannerRefuses ==
    ASSUME PlannerInv, UNCHANGED <<declared, targets, registry>>, planning' = "refused",
           ~WellDeclared \/ ~Known \/ Cyclic(Wanted)
    PROVE  PlannerInv'
<1>1. Given' /\ Collected'
  BY DEF PlannerInv, Given, Collected, All
<1>2. (~WellDeclared \/ ~Known \/ Cyclic(Wanted))'
  BY GraphStays
<1>3. PlanIsTopological'
  BY <1>2 DEF PlanIsTopological
<1> QED BY <1>1, <1>3 DEF PlannerInv

LEMMA RegisterKeepsPlan ==
    ASSUME PlannerInv, Register, UNCHANGED <<declared, targets>>
    PROVE  PlannerInv'
<1> DEFINE n == Len(registry)
           spec == declared[n + 1]
<1>1. /\ registry \in Seq(All) /\ n \in Nat /\ DOMAIN registry = 1..n
      /\ declared \in Seq(All) /\ DOMAIN declared = 1..Len(declared)
      /\ planning = "collecting" /\ n < Len(declared)
      /\ spec \in All /\ n + 1 \in DOMAIN declared
  <2>1. declared \in Seq(All)
    BY DEF PlannerInv, Given, Listed, All
  <2> QED BY <2>1 DEF Register, PlannerInv, Collected
<1>2. \A i \in DOMAIN registry : registry[i] = declared[i]
  BY DEF PlannerInv, Collected
<1>3. ASSUME Clash(spec), Refuse
      PROVE  PlannerInv'
  <2>1. PICK i \in DOMAIN registry :
            registry[i].name = spec.name \/ registry[i].output = spec.output
    BY <1>3 DEF Clash, Members
  <2>2. i \in DOMAIN declared /\ i # n + 1 /\ registry[i] = declared[i]
    BY <1>1, <1>2
  <2>3. ~WellDeclared
    BY <1>1, <2>1, <2>2 DEF WellDeclared
  <2> QED BY <1>3, <2>3, PlannerRefuses DEF Refuse
<1>4. ASSUME ~Clash(spec), registry' = Append(registry, spec),
             UNCHANGED <<roots, path, order, planning>>
      PROVE  PlannerInv'
  <2>1. Given'
    BY DEF PlannerInv, Given, All
  <2>2. registry' \in Seq(All) /\ DOMAIN registry' = 1..(n + 1) /\ Len(registry') = n + 1
        /\ registry'[n + 1] = spec /\ \A i \in 1..n : registry'[i] = registry[i]
    BY <1>1, <1>4
  <2>3. All' = All
    BY DEF All
  <2>4. \A i \in 1..(n + 1) : i \in 1..n \/ i = n + 1
    BY <1>1
  <2>5. \A i \in 1..n : registry[i].name # spec.name /\ registry[i].output # spec.output
    BY <1>1, <1>4 DEF Clash, Members
  <2> HIDE DEF n, spec
  <2>6. \A i \in DOMAIN registry' : registry'[i] = declared[i]
    BY <1>1, <1>2, <2>2, <2>4 DEF spec
  <2>7. ASSUME NEW i \in DOMAIN registry', NEW j \in DOMAIN registry', i # j
        PROVE  registry'[i].name # registry'[j].name /\ registry'[i].output # registry'[j].output
    <3>1. CASE i \in 1..n /\ j \in 1..n
      BY <1>1, <2>2, <2>7, <3>1 DEF PlannerInv, Collected
    <3>2. CASE i = n + 1 /\ j \in 1..n
      BY <1>1, <2>2, <2>5, <3>2
    <3>3. CASE i \in 1..n /\ j = n + 1
      BY <1>1, <2>2, <2>5, <3>3
    <3> QED BY <2>2, <2>4, <2>7, <3>1, <3>2, <3>3
  <2>8. Collected'
    BY <1>1, <2>2, <2>3, <2>6, <2>7 DEF Collected
  <2>9. PlanIsTopological'
    BY <1>1, <1>4 DEF PlanIsTopological
  <2> QED BY <1>1, <1>4, <2>1, <2>8, <2>9 DEF PlannerInv
<1> QED BY <1>3, <1>4 DEF Register

LEMMA ResolveKeepsPlan ==
    ASSUME PlannerInv, Resolve, UNCHANGED <<declared, targets>>
    PROVE  PlannerInv'
<1>1. Given /\ Collected /\ Len(registry) = Len(declared) /\ planning = "collecting"
      /\ path = <<>> /\ order = <<>> /\ planning' = "visiting"
      /\ UNCHANGED <<registry, path, order>>
  BY DEF PlannerInv, Resolve
<1>2. /\ registry = declared
      /\ \A d : /\ Producers(registry, d) = {u \in All : u.output = d}
                /\ \A u, v \in Producers(registry, d) : u = v
  BY <1>1, ProducersAre
<1>3. Known /\ roots' \in Seq(Asked) /\ Asked \subseteq Members(roots')
  <2>1. ASSUME targets = AllOutputs, roots' = registry
        PROVE  Known /\ roots' \in Seq(Asked) /\ Asked \subseteq Members(roots')
    <3>1. Asked = All
      BY <2>1 DEF Asked
    <3>2. roots' \in Seq(All) /\ Members(roots') = All
      BY <1>1, <1>2, <2>1 DEF Collected, All
    <3> QED BY <2>1, <3>1, <3>2 DEF Known
  <2>2. ASSUME targets # AllOutputs,
               \A i \in DOMAIN targets : Producers(registry, targets[i]) # {},
               roots' = [i \in DOMAIN targets |->
                           CHOOSE r \in Producers(registry, targets[i]) : TRUE]
        PROVE  Known /\ roots' \in Seq(Asked) /\ Asked \subseteq Members(roots')
    <3>1. Known
      BY <1>2, <2>2 DEF Known
    <3>2. targets \in Seq(Members(targets)) /\ DOMAIN targets = 1..Len(targets)
          /\ Len(targets) \in Nat
      BY <1>1, <2>2 DEF Given, Listed
    <3>3. \A i \in DOMAIN targets : roots'[i] \in Producers(registry, targets[i])
      BY <2>2
    <3>4. \A i \in DOMAIN targets : roots'[i] \in Asked /\ roots'[i].output = targets[i]
      BY <1>2, <3>3 DEF Asked, Members
    <3>5. DOMAIN roots' = DOMAIN targets
      BY <2>2
    <3>6. roots' \in Seq(Asked)
      <4>1. roots' \in [1..Len(targets) -> Asked]
        BY <2>2, <3>2, <3>4
      <4> QED BY <3>2, <4>1
    <3>7. ASSUME NEW s \in Asked
          PROVE  s \in Members(roots')
      <4>1. PICK i \in DOMAIN targets : s.output = targets[i]
        BY <2>2 DEF Asked, Members
      <4>2. s \in Producers(registry, targets[i])
        BY <1>2, <4>1 DEF Asked
      <4>3. s = roots'[i]
        BY <1>2, <3>3, <4>2
      <4> QED BY <3>5, <4>3 DEF Members
    <3> QED BY <3>1, <3>6, <3>7
  <2> QED BY <2>1, <2>2 DEF Resolve
<1>4. Search(roots', <<>>, <<>>)
  BY <1>1, <1>3, SearchStarts
<1>5. Given' /\ Collected' /\ Resolved'
  BY <1>1, <1>3 DEF Given, Collected, Resolved, All, Known
<1>6. Asked' = Asked /\ Wanted' = Wanted /\ Calls' = Calls
  BY GraphStays
<1>7. Search(roots', path', order')
  BY <1>1, <1>4
<1>8. Search(roots, path, order)'
  BY <1>1, <1>6, <1>7 DEF Search, Apart, Chained, Passed, Sorted, Covered, Before, Feeds, All
<1>9. PlanIsTopological'
  BY <1>1 DEF PlanIsTopological
<1> QED BY <1>1, <1>5, <1>8, <1>9 DEF PlannerInv

LEMMA RefuseTargetKeepsPlan ==
    ASSUME PlannerInv, RefuseTarget, UNCHANGED <<declared, targets>>
    PROVE  PlannerInv'
<1>1. registry = declared
  BY ProducersAre DEF RefuseTarget, PlannerInv
<1>2. ~Known
  BY <1>1 DEF RefuseTarget, Known
<1> QED BY <1>2, PlannerRefuses DEF RefuseTarget, Refuse

LEMMA VisitRootKeepsPlan ==
    ASSUME PlannerInv, VisitRoot, UNCHANGED <<declared, targets>>
    PROVE  PlannerInv'
<1>1. /\ Given /\ Collected /\ Len(registry) = Len(declared) /\ planning = "visiting"
      /\ Search(roots, path, order) /\ path = <<>> /\ roots # <<>> /\ roots' = Tail(roots)
  BY DEF PlannerInv, Resolved, VisitRoot
<1>2. Visiting = {}
  BY <1>1 DEF Visiting
<1>3. /\ UNCHANGED <<registry, order, planning>>
      /\ path' = IF Head(roots) \in Members(order) THEN <<>>
                 ELSE Append(<<>>, [spec |-> Head(roots), next |-> 1])
  BY <1>2 DEF VisitRoot, Visit
<1>4. CASE Head(roots) \in Members(order)
  <2>1. Search(Tail(roots), <<>>, order)
    BY <1>1, <1>4, SearchSkipsRoot
  <2> QED BY <1>1, <1>3, <1>4, <2>1, SearchGoesOn
<1>5. CASE Head(roots) \notin Members(order)
  <2>1. Search(Tail(roots), <<[spec |-> Head(roots), next |-> 1]>>, order)
    BY <1>1, <1>5, SearchVisitsRoot
  <2>2. path' = <<[spec |-> Head(roots), next |-> 1]>>
    BY <1>3, <1>5
  <2> QED BY <1>1, <1>3, <2>1, <2>2, SearchGoesOn
<1> QED BY <1>4, <1>5

LEMMA VisitInputKeepsPlan ==
    ASSUME PlannerInv, VisitInput, UNCHANGED <<declared, targets>>
    PROVE  PlannerInv'
<1> DEFINE t == path[Len(path)].spec
           k == path[Len(path)].next
           up == Producers(registry, t.inputs[k])
           frames == Append(SubSeq(path, 1, Len(path) - 1), [spec |-> t, next |-> k + 1])
<1>1. /\ Given /\ Collected /\ Len(registry) = Len(declared) /\ planning = "visiting"
      /\ Search(roots, path, order) /\ path # <<>> /\ k <= Len(t.inputs) /\ roots' = roots
  BY DEF PlannerInv, Resolved, VisitInput, InputLeft, Caller
<1>2. path \in Seq(Calls) /\ Len(path) \in DOMAIN path /\ path[Len(path)] \in Calls
  <2>1. path \in Seq(Calls)
    BY <1>1 DEF Search
  <2> QED BY <1>1, <2>1
<1>3. k \in DOMAIN t.inputs
  <2>1. t \in All /\ k \in Nat /\ k # 0
    BY <1>2, WantedIs DEF Calls
  <2>2. t.inputs \in Seq(Members(t.inputs))
    BY <1>1, <2>1 DEF Given, Listed
  <2> QED BY <1>1, <2>1, <2>2
<1>4. frames \in Seq(Calls) /\ Stepped(path, frames)
  BY <1>1, <1>2, FramesStep
<1>5. \/ up = {} /\ path' = frames /\ UNCHANGED <<registry, order, planning>>
      \/ up # {} /\ Visit(CHOOSE r \in up : TRUE, frames)
  BY DEF VisitInput, Caller, Callers
<1> HIDE DEF frames
<1>6. ASSUME path' = frames, \A u \in up : u \in Members(order),
             UNCHANGED <<registry, order, planning>>
      PROVE  PlannerInv'
  <2>1. Search(roots, frames, order)
    BY <1>1, <1>4, <1>6, SearchPasses
  <2> QED BY <1>1, <1>6, <2>1, SearchGoesOn
<1>7. ASSUME NEW u \in up, Visit(u, frames)
      PROVE  PlannerInv'
  <2>1. \A v \in up : v = u
    BY <1>1, ProducersAre
  <2>2. CASE u \in Visiting
    <3>1. PICK m \in DOMAIN path : path[m].spec = u
      BY <2>2 DEF Visiting
    <3>2. Cyclic(Wanted)
      BY <1>1, <1>3, <3>1, SearchMeetsCycle
    <3> QED BY <1>7, <2>2, <3>2, PlannerRefuses DEF Visit
  <2>3. CASE u \notin Visiting /\ u \in Members(order)
    BY <1>6, <1>7, <2>1, <2>3 DEF Visit
  <2>4. CASE u \notin Visiting /\ u \notin Members(order)
    <3>1. path' = Append(frames, [spec |-> u, next |-> 1])
          /\ UNCHANGED <<registry, order, planning>>
      BY <1>7, <2>4 DEF Visit
    <3>2. \A i \in DOMAIN path : path[i].spec # u
      BY <2>4 DEF Visiting
    <3>3. Search(roots, Append(frames, [spec |-> u, next |-> 1]), order)
      BY <1>1, <1>3, <1>4, <2>4, <3>2, SearchCalls
    <3> QED BY <1>1, <3>1, <3>3, SearchGoesOn
  <2> QED BY <2>2, <2>3, <2>4
<1>8. CASE up = {}
  BY <1>5, <1>6, <1>8
<1>9. CASE up # {}
  <2>1. (CHOOSE r \in up : TRUE) \in up /\ Visit(CHOOSE r \in up : TRUE, frames)
    BY <1>5, <1>9
  <2> QED BY <1>7, <2>1
<1> QED BY <1>8, <1>9

LEMMA LeaveVisitKeepsPlan ==
    ASSUME PlannerInv, LeaveVisit, UNCHANGED <<declared, targets>>
    PROVE  PlannerInv'
<1>1. /\ Given /\ Collected /\ Len(registry) = Len(declared) /\ planning = "visiting"
      /\ Search(roots, path, order) /\ path # <<>>
      /\ ~(path[Len(path)].next <= Len(path[Len(path)].spec.inputs))
      /\ path' = SubSeq(path, 1, Len(path) - 1) /\ order' = Append(order, path[Len(path)].spec)
      /\ UNCHANGED <<registry, roots, planning>>
  BY DEF PlannerInv, Resolved, LeaveVisit, InputLeft, Caller, Callers
<1>2. Search(roots, path', order')
  BY <1>1, SearchReturns
<1> QED BY <1>1, <1>2, SearchGoesOn

LEMMA ReturnPlanKeepsPlan ==
    ASSUME PlannerInv, ReturnPlan, UNCHANGED <<declared, targets>>
    PROVE  PlannerInv'
<1>1. /\ Given /\ Collected /\ Resolved /\ Len(registry) = Len(declared)
      /\ Search(<<>>, <<>>, order) /\ WellDeclared
  BY ProducersAre DEF PlannerInv, Resolved, ReturnPlan
<1>2. /\ Members(order) = Wanted /\ Len(order) = Cardinality(Wanted) /\ ~Cyclic(Wanted)
      /\ \A i, j \in DOMAIN order : <<order[i], order[j]>> \in Feeds => i < j
  BY <1>1, SearchEnds
<1>3. Given' /\ Collected'
  BY <1>1 DEF Given, Collected, All, ReturnPlan
<1>4. (WellDeclared /\ Known)' /\ Wanted' = Wanted /\ Cyclic(Wanted)' = Cyclic(Wanted)
      /\ Feeds' = Feeds /\ Members(order)' = Members(order) /\ order' = order
      /\ planning' = "planned"
  BY <1>1, GraphStays DEF ReturnPlan, Resolved
<1>5. PlanIsTopological'
  BY <1>2, <1>4 DEF PlanIsTopological
<1> QED BY <1>3, <1>4, <1>5 DEF PlannerInv

LEMMA PlannerKeepsInv == PlannerInv /\ [PlannerNext]_plannerVars => PlannerInv'
<1> SUFFICES ASSUME PlannerInv, [PlannerNext]_plannerVars
             PROVE  PlannerInv'
  OBVIOUS
<1>1. CASE PlannerNext
  BY <1>1, RegisterKeepsPlan, ResolveKeepsPlan, RefuseTargetKeepsPlan, VisitRootKeepsPlan,
     VisitInputKeepsPlan, LeaveVisitKeepsPlan, ReturnPlanKeepsPlan DEF PlannerNext
<1>2. CASE UNCHANGED plannerVars
  <2>1. UNCHANGED <<declared, targets, registry, roots, path, order, planning>>
    BY <1>2 DEF plannerVars
  <2>2. /\ All' = All /\ Feeds' = Feeds /\ Asked' = Asked /\ Wanted' = Wanted /\ Calls' = Calls
        /\ WellDeclared' = WellDeclared /\ Known' = Known /\ Cyclic(Wanted)' = Cyclic(Wanted)
    BY <2>1, GraphStays
  <2>3. Given' /\ Collected' /\ Resolved' = Resolved
    BY <2>1, <2>2 DEF PlannerInv, Given, Collected, Resolved
  <2>4. Search(roots, path, order)' = Search(roots, path, order)
    BY <2>1, <2>2 DEF Search, Apart, Chained, Passed, Sorted, Covered, Before
  <2>5. PlanIsTopological'
    BY <2>1, <2>2 DEF PlannerInv, PlanIsTopological
  <2> QED BY <2>1, <2>3, <2>4, <2>5 DEF PlannerInv
<1> QED BY <1>1, <1>2

\* PlannerInv holds at every step, and a search that ends has the plan: a
\* build is refused only for a clash, an unknown target or a cycle among
\* what it needs, and otherwise runs each transform that its targets need,
\* once, after all that feed it (Builder.plan).
THEOREM PlansAlwaysTopological == PlannerSpec => []PlanIsTopological
<1>1. PlannerInv => PlanIsTopological
  BY DEF PlannerInv
<1> QED BY PlannerStarts, PlannerKeepsInv, <1>1, PTL DEF PlannerSpec

(***************************************************************************)
(* The overlay of edits.                                                   *)
(*                                                                         *)
(* Objects(rows, o) says what rows with an overlay over them amount to,    *)
(* and ObjectsAfter what an edit does to that; the overlay, the replay,    *)
(* the numbering and the index are shown to follow it edit by edit.        *)
(***************************************************************************)
(* What a fold over the live edits is: its values after 0, 1, ... of them. *)
OverlayRun(f, edits, after) ==
    /\ f[0] = NoOverlay
    /\ \A i \in 1..Len(edits) : f[i] = OverlayEdit(f[i - 1], edits[i], after + i)

OrdinalRun(f, start, edits, after) ==
    /\ f[0] = [ord |-> start, at |-> NoDict]
    /\ \A i \in 1..Len(edits) : f[i] = OrdinalEdit(f[i - 1], edits[i], after + i)

ReplayRun(f, start, admitted, edits, after) ==
    /\ f[0] = start
    /\ \A i \in 1..Len(edits) : f[i] = ReplayEdit(admitted, f[i - 1], edits[i], after + i)

\* And over the rows.
RowRun(f, rows) ==
    /\ f[0] = [order |-> << >>, rows |-> NoDict]
    /\ \A i \in 1..Len(rows) : f[i] = Put(f[i - 1], rows[i].key, rows[i].vals)

LEMMA OverlayIs ==
    ASSUME Len(log) \in Nat
    PROVE  \E f : OverlayRun(f, log, taken) /\ Overlay = f[Len(log)]
<1> DEFINE St(x, i) == OverlayEdit(x, log[i], taken + i)
           start == NoOverlay
           Is(g, n) == g = [i \in 0..n |-> IF i = 0 THEN start ELSE St(g[i - 1], i)]
           T == {n \in Nat : \E g : Is(g, n)}
           f == CHOOSE g : Is(g, Len(log))
<1>1. Overlay = f[Len(log)]
  BY DEF Overlay, OverLog, Position
<1> HIDE DEF St, start
<1>2. 0 \in T
  <2> DEFINE g == [i \in 0..0 |-> start]
  <2>1. Is(g, 0)
    OBVIOUS
  <2> QED BY <2>1
<1>3. ASSUME NEW n \in Nat, n \in T PROVE n + 1 \in T
  <2>1. PICK g : Is(g, n)
    BY <1>3
  <2> DEFINE h == [i \in 0..(n + 1) |-> IF i <= n THEN g[i] ELSE St(g[n], n + 1)]
  <2>2. \A i \in 0..n : g[i] = IF i = 0 THEN start ELSE St(g[i - 1], i)
    BY <2>1
  <2>3. (\A i \in 0..n : h[i] = g[i]) /\ h[n + 1] = St(g[n], n + 1)
    OBVIOUS
  <2>4. h = [i \in 0..(n + 1) |-> h[i]]
    OBVIOUS
  <2> HIDE DEF h
  <2>5. \A i \in 0..(n + 1) : h[i] = IF i = 0 THEN start ELSE St(h[i - 1], i)
    BY <2>2, <2>3
  <2>6. Is(h, n + 1)
    BY <2>4, <2>5
  <2> QED BY <2>6
<1>4. Len(log) \in T
  <2> HIDE DEF T
  <2> QED BY <1>2, <1>3, Induct
<1>5. Is(f, Len(log))
  BY <1>4
<1> HIDE DEF f
<1>6. f[0] = start /\ \A i \in 1..Len(log) : f[i] = St(f[i - 1], i)
  BY <1>5
<1>7. OverlayRun(f, log, taken)
  BY <1>6 DEF OverlayRun, St, start
<1> QED BY <1>1, <1>7

LEMMA OrdinalsAre ==
    ASSUME Len(log) \in Nat
    PROVE  \E f : OrdinalRun(f, BaseOrdinals, log, taken) /\ Ordinals = f[Len(log)]
<1> DEFINE St(x, i) == OrdinalEdit(x, log[i], taken + i)
           start == [ord |-> BaseOrdinals, at |-> NoDict]
           Is(g, n) == g = [i \in 0..n |-> IF i = 0 THEN start ELSE St(g[i - 1], i)]
           T == {n \in Nat : \E g : Is(g, n)}
           f == CHOOSE g : Is(g, Len(log))
<1>1. Ordinals = f[Len(log)]
  BY DEF Ordinals, OverLog, Position
<1> HIDE DEF St, start
<1>2. 0 \in T
  <2> DEFINE g == [i \in 0..0 |-> start]
  <2>1. Is(g, 0)
    OBVIOUS
  <2> QED BY <2>1
<1>3. ASSUME NEW n \in Nat, n \in T PROVE n + 1 \in T
  <2>1. PICK g : Is(g, n)
    BY <1>3
  <2> DEFINE h == [i \in 0..(n + 1) |-> IF i <= n THEN g[i] ELSE St(g[n], n + 1)]
  <2>2. \A i \in 0..n : g[i] = IF i = 0 THEN start ELSE St(g[i - 1], i)
    BY <2>1
  <2>3. (\A i \in 0..n : h[i] = g[i]) /\ h[n + 1] = St(g[n], n + 1)
    OBVIOUS
  <2>4. h = [i \in 0..(n + 1) |-> h[i]]
    OBVIOUS
  <2> HIDE DEF h
  <2>5. \A i \in 0..(n + 1) : h[i] = IF i = 0 THEN start ELSE St(h[i - 1], i)
    BY <2>2, <2>3
  <2>6. Is(h, n + 1)
    BY <2>4, <2>5
  <2> QED BY <2>6
<1>4. Len(log) \in T
  <2> HIDE DEF T
  <2> QED BY <1>2, <1>3, Induct
<1>5. Is(f, Len(log))
  BY <1>4
<1> HIDE DEF f
<1>6. f[0] = start /\ \A i \in 1..Len(log) : f[i] = St(f[i - 1], i)
  BY <1>5
<1>7. OrdinalRun(f, BaseOrdinals, log, taken)
  BY <1>6 DEF OrdinalRun, St, start
<1> QED BY <1>1, <1>7

LEMMA MaterializedIs ==
    ASSUME Len(log) \in Nat
    PROVE  \E f : ReplayRun(f, BaseDict, Overlay.creates, log, taken) /\ Materialized = f[Len(log)]
<1> DEFINE St(x, i) == ReplayEdit(Overlay.creates, x, log[i], taken + i)
           start == BaseDict
           Is(g, n) == g = [i \in 0..n |-> IF i = 0 THEN start ELSE St(g[i - 1], i)]
           T == {n \in Nat : \E g : Is(g, n)}
           f == CHOOSE g : Is(g, Len(log))
<1>1. Materialized = f[Len(log)]
  BY DEF Materialized, OverLog, Position
<1> HIDE DEF St, start
<1>2. 0 \in T
  <2> DEFINE g == [i \in 0..0 |-> start]
  <2>1. Is(g, 0)
    OBVIOUS
  <2> QED BY <2>1
<1>3. ASSUME NEW n \in Nat, n \in T PROVE n + 1 \in T
  <2>1. PICK g : Is(g, n)
    BY <1>3
  <2> DEFINE h == [i \in 0..(n + 1) |-> IF i <= n THEN g[i] ELSE St(g[n], n + 1)]
  <2>2. \A i \in 0..n : g[i] = IF i = 0 THEN start ELSE St(g[i - 1], i)
    BY <2>1
  <2>3. (\A i \in 0..n : h[i] = g[i]) /\ h[n + 1] = St(g[n], n + 1)
    OBVIOUS
  <2>4. h = [i \in 0..(n + 1) |-> h[i]]
    OBVIOUS
  <2> HIDE DEF h
  <2>5. \A i \in 0..(n + 1) : h[i] = IF i = 0 THEN start ELSE St(h[i - 1], i)
    BY <2>2, <2>3
  <2>6. Is(h, n + 1)
    BY <2>4, <2>5
  <2> QED BY <2>6
<1>4. Len(log) \in T
  <2> HIDE DEF T
  <2> QED BY <1>2, <1>3, Induct
<1>5. Is(f, Len(log))
  BY <1>4
<1> HIDE DEF f
<1>6. f[0] = start /\ \A i \in 1..Len(log) : f[i] = St(f[i - 1], i)
  BY <1>5
<1>7. ReplayRun(f, BaseDict, Overlay.creates, log, taken)
  BY <1>6 DEF ReplayRun, St, start
<1> QED BY <1>1, <1>7

LEMMA BaseDictIs ==
    ASSUME Len(base) \in Nat
    PROVE  \E f : RowRun(f, base) /\ BaseDict = f[Len(base)]
<1> DEFINE St(x, i) == Put(x, base[i].key, base[i].vals)
           start == [order |-> << >>, rows |-> NoDict]
           Is(g, n) == g = [i \in 0..n |-> IF i = 0 THEN start ELSE St(g[i - 1], i)]
           T == {n \in Nat : \E g : Is(g, n)}
           f == CHOOSE g : Is(g, Len(base))
<1>1. BaseDict = f[Len(base)]
  BY DEF BaseDict
<1> HIDE DEF St, start
<1>2. 0 \in T
  <2> DEFINE g == [i \in 0..0 |-> start]
  <2>1. Is(g, 0)
    OBVIOUS
  <2> QED BY <2>1
<1>3. ASSUME NEW n \in Nat, n \in T PROVE n + 1 \in T
  <2>1. PICK g : Is(g, n)
    BY <1>3
  <2> DEFINE h == [i \in 0..(n + 1) |-> IF i <= n THEN g[i] ELSE St(g[n], n + 1)]
  <2>2. \A i \in 0..n : g[i] = IF i = 0 THEN start ELSE St(g[i - 1], i)
    BY <2>1
  <2>3. (\A i \in 0..n : h[i] = g[i]) /\ h[n + 1] = St(g[n], n + 1)
    OBVIOUS
  <2>4. h = [i \in 0..(n + 1) |-> h[i]]
    OBVIOUS
  <2> HIDE DEF h
  <2>5. \A i \in 0..(n + 1) : h[i] = IF i = 0 THEN start ELSE St(h[i - 1], i)
    BY <2>2, <2>3
  <2>6. Is(h, n + 1)
    BY <2>4, <2>5
  <2> QED BY <2>6
<1>4. Len(base) \in T
  <2> HIDE DEF T
  <2> QED BY <1>2, <1>3, Induct
<1>5. Is(f, Len(base))
  BY <1>4
<1> HIDE DEF f
<1>6. f[0] = start /\ \A i \in 1..Len(base) : f[i] = St(f[i - 1], i)
  BY <1>5
<1>7. RowRun(f, base)
  BY <1>6 DEF RowRun, St, start
<1> QED BY <1>1, <1>7
(* What rows with different keys and an overlay over them amount to. *)
KeysIn(rows) == {rows[i].key : i \in 1..Len(rows)}

NumberOf(rows, k) == CHOOSE i \in 1..Len(rows) : rows[i].key = k

RowsFit(rows) ==
    /\ rows \in Seq([key : Keys, vals : [Cols -> Int], rest : Int])
    /\ \A i, j \in 1..Len(rows) : rows[i].key = rows[j].key => i = j

OverlayFits(o) ==
    /\ DOMAIN o = {"deleted", "updates", "creates", "ord", "fresh"}
    /\ DOMAIN o.ord = DOMAIN o.creates /\ DOMAIN o.fresh = DOMAIN o.creates
    /\ DOMAIN o.creates \cap (o.deleted \cup DOMAIN o.updates) = {}
    /\ DOMAIN o.creates \subseteq Keys
    /\ \A k \in DOMAIN o.creates : DOMAIN o.creates[k] \subseteq Cols
    /\ \A k \in DOMAIN o.updates : DOMAIN o.updates[k] \subseteq Cols

\* The key has been deleted, and created again perhaps.
Gone(o, k) == k \in o.deleted \/ (k \in DOMAIN o.fresh /\ o.fresh[k])

Live(rows, o) == (KeysIn(rows) \ o.deleted) \cup DOMAIN o.creates

OrdOf(rows, o, k) ==
    IF k \in DOMAIN o.creates /\ (o.fresh[k] \/ k \notin KeysIn(rows)) THEN o.ord[k]
    ELSE NumberOf(rows, k)

ValsOf(rows, o, k) ==
    IF k \in DOMAIN o.creates THEN Over(o.creates[k], Pad)
    ELSE IF k \in DOMAIN o.updates THEN Over(o.updates[k], rows[NumberOf(rows, k)].vals)
    ELSE rows[NumberOf(rows, k)].vals

Shown(ord, vals) == [ord |-> ord, vals |-> vals]

Objects(rows, o) == [k \in Live(rows, o) |-> Shown(OrdOf(rows, o, k), ValsOf(rows, o, k))]

\* What one edit does to that.
ObjectsAfter(v, e, n) ==
    CASE e.kind = "create" ->
            With(v, e.key, Shown(IF e.key \in DOMAIN v THEN v[e.key].ord ELSE CreatedOrd(n),
                                 Over(Payload(e, n), Pad)))
      [] e.kind = "update" ->
            IF e.key \notin DOMAIN v THEN v
            ELSE With(v, e.key, Shown(v[e.key].ord, Over(Payload(e, n), v[e.key].vals)))
      [] e.kind = "delete" -> Without(v, e.key)

-----------------------------------------------------------------------------
LEMMA OverIs ==
    ASSUME NEW f, NEW g
    PROVE  /\ DOMAIN Over(f, g) = DOMAIN f \cup DOMAIN g
           /\ \A x \in DOMAIN f \cup DOMAIN g : Over(f, g)[x] = IF x \in DOMAIN f THEN f[x] ELSE g[x]
BY DEF Over

LEMMA OverAgain ==
    ASSUME NEW f, NEW g, NEW h
    PROVE  Over(f, Over(g, h)) = Over(Over(f, g), h)
<1> DEFINE D == DOMAIN f \cup DOMAIN g \cup DOMAIN h
           F(x) == IF x \in DOMAIN f THEN f[x] ELSE IF x \in DOMAIN g THEN g[x] ELSE h[x]
<1>1. Over(f, Over(g, h)) = [x \in D |-> F(x)]
  BY DEF Over
<1>2. Over(Over(f, g), h) = [x \in D |-> F(x)]
  BY DEF Over
<1> QED BY <1>1, <1>2

LEMMA PayloadIs ==
    ASSUME NEW e, NEW n
    PROVE  DOMAIN Payload(e, n) \subseteq Cols
BY DEF Payload

\* Where a key is live and what is shown, after each kind of edit.
LEMMA CreateIs ==
    ASSUME NEW rows, NEW o, OverlayFits(o), NEW k \in Keys, NEW payload, DOMAIN payload \subseteq Cols,
           NEW n, NEW p, p = Create(o, k, payload, n)
    PROVE  /\ OverlayFits(p)
           /\ Live(rows, p) = Live(rows, o) \cup {k}
           /\ DOMAIN p.creates = DOMAIN o.creates \cup {k}
           /\ \A x : Gone(p, x) <=> Gone(o, x)
           /\ OrdOf(rows, p, k) = IF k \in Live(rows, o) THEN OrdOf(rows, o, k) ELSE CreatedOrd(n)
           /\ ValsOf(rows, p, k) = Over(payload, Pad)
           /\ \A x \in Live(rows, o) \ {k} : /\ OrdOf(rows, p, x) = OrdOf(rows, o, x)
                                             /\ ValsOf(rows, p, x) = ValsOf(rows, o, x)
<1>1. /\ DOMAIN p = {"deleted", "updates", "creates", "ord", "fresh"}
      /\ p.deleted = o.deleted \ {k}
      /\ p.updates = Without(o.updates, k)
      /\ p.creates = With(o.creates, k, payload)
      /\ p.ord = SetDefault(o.ord, k, CreatedOrd(n))
      /\ p.fresh = With(o.fresh, k, Fresh(o, k))
  BY DEF Create
<1>2. /\ DOMAIN p.updates = DOMAIN o.updates \ {k}
      /\ \A x \in DOMAIN o.updates \ {k} : p.updates[x] = o.updates[x]
  BY <1>1 DEF Without
<1>3. /\ DOMAIN p.creates = DOMAIN o.creates \cup {k} /\ p.creates[k] = payload
      /\ \A x \in DOMAIN o.creates : x # k => p.creates[x] = o.creates[x]
  BY <1>1 DEF With
<1>4. /\ DOMAIN p.ord = DOMAIN o.ord \cup {k}
      /\ p.ord[k] = IF k \in DOMAIN o.ord THEN o.ord[k] ELSE CreatedOrd(n)
      /\ \A x \in DOMAIN o.ord : x # k => p.ord[x] = o.ord[x]
  BY <1>1 DEF SetDefault, With
<1>5. /\ DOMAIN p.fresh = DOMAIN o.fresh \cup {k} /\ (p.fresh[k] <=> Gone(o, k))
      /\ \A x \in DOMAIN o.fresh : x # k => p.fresh[x] = o.fresh[x]
  BY <1>1 DEF With, Fresh, Gone
<1>6. OverlayFits(p)
  BY <1>1, <1>2, <1>3, <1>4, <1>5 DEF OverlayFits
<1>7. Live(rows, p) = Live(rows, o) \cup {k}
  BY <1>1, <1>3 DEF Live
<1>8. \A x : Gone(p, x) <=> Gone(o, x)
  BY <1>1, <1>5 DEF Gone
<1>9. OrdOf(rows, p, k) = IF k \in Live(rows, o) THEN OrdOf(rows, o, k) ELSE CreatedOrd(n)
  <2>1. CASE k \in DOMAIN o.creates
    BY <1>3, <1>4, <1>5, <2>1 DEF OrdOf, Live, Gone, OverlayFits
  <2>2. CASE k \notin DOMAIN o.creates
    BY <1>3, <1>4, <1>5, <2>2 DEF OrdOf, Live, Gone, OverlayFits
  <2> QED BY <2>1, <2>2
<1>10. ValsOf(rows, p, k) = Over(payload, Pad)
  BY <1>3 DEF ValsOf
<1>11. ASSUME NEW x \in Live(rows, o) \ {k}
       PROVE  OrdOf(rows, p, x) = OrdOf(rows, o, x) /\ ValsOf(rows, p, x) = ValsOf(rows, o, x)
  BY <1>2, <1>3, <1>4, <1>5 DEF OrdOf, ValsOf, OverlayFits
<1> QED BY <1>3, <1>6, <1>7, <1>8, <1>9, <1>10, <1>11

LEMMA UpdateIs ==
    ASSUME NEW rows, NEW o, OverlayFits(o), NEW k \in Keys, NEW payload, DOMAIN payload \subseteq Cols,
           NEW p, p = Update(o, k, payload)
    PROVE  /\ OverlayFits(p)
           /\ Live(rows, p) = Live(rows, o)
           /\ DOMAIN p.creates = DOMAIN o.creates
           /\ \A x : Gone(p, x) <=> Gone(o, x)
           /\ ValsOf(rows, p, k) = Over(payload, ValsOf(rows, o, k))
           /\ \A x : OrdOf(rows, p, x) = OrdOf(rows, o, x)
           /\ \A x : x # k => ValsOf(rows, p, x) = ValsOf(rows, o, x)
<1>1. CASE k \in DOMAIN o.creates
  <2>1. p = [o EXCEPT !.creates = With(o.creates, k, Over(payload, o.creates[k]))]
    BY <1>1 DEF Update
  <2>2. /\ DOMAIN p = DOMAIN o /\ p.deleted = o.deleted /\ p.updates = o.updates
        /\ p.ord = o.ord /\ p.fresh = o.fresh
        /\ p.creates = With(o.creates, k, Over(payload, o.creates[k]))
    BY <2>1 DEF OverlayFits
  <2>3. /\ DOMAIN p.creates = DOMAIN o.creates /\ p.creates[k] = Over(payload, o.creates[k])
        /\ \A x \in DOMAIN o.creates : x # k => p.creates[x] = o.creates[x]
    BY <1>1, <2>2 DEF With
  <2>4. DOMAIN p.creates[k] \subseteq Cols
    BY <1>1, <2>3 DEF OverlayFits, Over
  <2>5. OverlayFits(p)
    BY <2>2, <2>3, <2>4 DEF OverlayFits
  <2>6. ValsOf(rows, p, k) = Over(payload, ValsOf(rows, o, k))
    BY <1>1, <2>3, OverAgain DEF ValsOf
  <2> QED BY <2>2, <2>3, <2>5, <2>6 DEF Live, Gone, OrdOf, ValsOf
<1>2. CASE k \notin DOMAIN o.creates
  <2> DEFINE new == IF k \in DOMAIN o.updates THEN Over(payload, o.updates[k]) ELSE payload
  <2>1. p = [o EXCEPT !.updates = With(o.updates, k, new)]
    BY <1>2 DEF Update
  <2>2. DOMAIN new \subseteq Cols
    BY DEF OverlayFits, Over
  <2>3. ASSUME NEW row PROVE Over(new, row) = Over(payload, IF k \in DOMAIN o.updates
                                                             THEN Over(o.updates[k], row) ELSE row)
    BY OverAgain
  <2> HIDE DEF new
  <2>4. /\ DOMAIN p = DOMAIN o /\ p.deleted = o.deleted /\ p.creates = o.creates
        /\ p.ord = o.ord /\ p.fresh = o.fresh /\ p.updates = With(o.updates, k, new)
    BY <2>1 DEF OverlayFits
  <2>5. /\ DOMAIN p.updates = DOMAIN o.updates \cup {k} /\ p.updates[k] = new
        /\ \A x \in DOMAIN o.updates : x # k => p.updates[x] = o.updates[x]
    BY <2>4 DEF With
  <2>6. OverlayFits(p)
    BY <1>2, <2>2, <2>4, <2>5 DEF OverlayFits
  <2>7. ValsOf(rows, p, k) = Over(payload, ValsOf(rows, o, k))
    BY <1>2, <2>3, <2>4, <2>5 DEF ValsOf
  <2>8. \A x : x # k => ValsOf(rows, p, x) = ValsOf(rows, o, x)
    BY <2>4, <2>5 DEF ValsOf
  <2> QED BY <2>4, <2>6, <2>7, <2>8 DEF Live, Gone, OrdOf
<1> QED BY <1>1, <1>2

DeleteKeeps(rows, o, k, p) ==
    /\ OverlayFits(p)
    /\ Live(rows, p) = Live(rows, o) \ {k}
    /\ DOMAIN p.creates = DOMAIN o.creates \ {k}
    /\ \A x : Gone(p, x) <=> (x = k \/ Gone(o, x))
    /\ \A x : x # k => /\ OrdOf(rows, p, x) = OrdOf(rows, o, x)
                       /\ ValsOf(rows, p, x) = ValsOf(rows, o, x)

LEMMA DeleteIs ==
    ASSUME NEW rows, NEW o, OverlayFits(o), NEW k \in Keys, NEW p, p = Delete(o, k)
    PROVE  DeleteKeeps(rows, o, k, p)
<1>1. /\ DOMAIN p = {"deleted", "updates", "creates", "ord", "fresh"}
      /\ p.deleted = o.deleted \cup {k}
      /\ p.updates = Without(o.updates, k) /\ p.creates = Without(o.creates, k)
      /\ p.ord = Without(o.ord, k) /\ p.fresh = Without(o.fresh, k)
  BY DEF Delete
<1>2. /\ DOMAIN p.updates = DOMAIN o.updates \ {k} /\ DOMAIN p.creates = DOMAIN o.creates \ {k}
      /\ DOMAIN p.ord = DOMAIN o.ord \ {k} /\ DOMAIN p.fresh = DOMAIN o.fresh \ {k}
      /\ \A x \in DOMAIN o.updates \ {k} : p.updates[x] = o.updates[x]
      /\ \A x \in DOMAIN o.creates \ {k} : p.creates[x] = o.creates[x]
      /\ \A x \in DOMAIN o.ord \ {k} : p.ord[x] = o.ord[x]
      /\ \A x \in DOMAIN o.fresh \ {k} : p.fresh[x] = o.fresh[x]
  BY <1>1 DEF Without
<1>3. OverlayFits(p)
  BY <1>1, <1>2 DEF OverlayFits
<1>4. Live(rows, p) = Live(rows, o) \ {k}
  BY <1>1, <1>2 DEF Live
<1>5. \A x : Gone(p, x) <=> (x = k \/ Gone(o, x))
  BY <1>1, <1>2 DEF Gone
<1>6. ASSUME NEW x, x # k
      PROVE  OrdOf(rows, p, x) = OrdOf(rows, o, x) /\ ValsOf(rows, p, x) = ValsOf(rows, o, x)
  BY <1>2, <1>6 DEF OrdOf, ValsOf, OverlayFits
<1> QED BY <1>2, <1>3, <1>4, <1>5, <1>6 DEF DeleteKeeps
CreatedAfter(C, e) ==
    CASE e.kind = "create" -> C \cup {e.key} [] e.kind = "update" -> C [] e.kind = "delete" -> C \ {e.key}

EditFits(e) == e.kind \in {"create", "update", "delete"} /\ e.key \in Keys

LEMMA EditsFit == \A e \in Edits : EditFits(e)
BY DEF Edits, EditFits

LEMMA ObjectsAre ==
    ASSUME NEW rows, NEW o
    PROVE  /\ DOMAIN Objects(rows, o) = Live(rows, o)
           /\ \A x \in Live(rows, o) : /\ Objects(rows, o)[x] = Shown(OrdOf(rows, o, x), ValsOf(rows, o, x))
                                       /\ Objects(rows, o)[x].ord = OrdOf(rows, o, x)
                                       /\ Objects(rows, o)[x].vals = ValsOf(rows, o, x)
BY DEF Objects, Shown

\* What the overlay holds changes edit by edit.
LEMMA OverlayFollows ==
    ASSUME NEW rows, NEW o, OverlayFits(o), NEW e, EditFits(e), NEW n, NEW p, p = OverlayEdit(o, e, n)
    PROVE  /\ OverlayFits(p)
           /\ Objects(rows, p) = ObjectsAfter(Objects(rows, o), e, n)
           /\ DOMAIN p.creates = CreatedAfter(DOMAIN o.creates, e)
           /\ \A x : Gone(p, x) <=> Gone(o, x) \/ (e.kind = "delete" /\ x = e.key)
<1> DEFINE k == e.key
           payload == Payload(e, n)
           v == Objects(rows, o)
           w == Objects(rows, p)
<1>1. k \in Keys /\ DOMAIN payload \subseteq Cols
  BY PayloadIs DEF EditFits
<1>2. /\ DOMAIN v = Live(rows, o) /\ DOMAIN w = Live(rows, p)
      /\ \A x \in Live(rows, o) : v[x] = Shown(OrdOf(rows, o, x), ValsOf(rows, o, x))
      /\ \A x \in Live(rows, o) : v[x].ord = OrdOf(rows, o, x) /\ v[x].vals = ValsOf(rows, o, x)
      /\ w = [x \in Live(rows, p) |-> Shown(OrdOf(rows, p, x), ValsOf(rows, p, x))]
      /\ v = [x \in Live(rows, o) |-> Shown(OrdOf(rows, o, x), ValsOf(rows, o, x))]
  BY DEF Objects, Shown
<1>3. CASE e.kind = "create"
  <2>1. p = Create(o, k, payload, n)
    BY <1>3 DEF OverlayEdit
  <2> DEFINE ord == IF k \in DOMAIN v THEN v[k].ord ELSE CreatedOrd(n)
             new == Shown(ord, Over(payload, Pad))
  <2>2. ObjectsAfter(v, e, n) = With(v, k, new)
    BY <1>3 DEF ObjectsAfter
  <2>3. CreatedAfter(DOMAIN o.creates, e) = DOMAIN o.creates \cup {k}
    BY <1>3 DEF CreatedAfter
  <2> HIDE DEF payload, v, w, k
  <2>4. /\ OverlayFits(p)
        /\ Live(rows, p) = Live(rows, o) \cup {k}
        /\ DOMAIN p.creates = DOMAIN o.creates \cup {k}
        /\ \A x : Gone(p, x) <=> Gone(o, x)
        /\ OrdOf(rows, p, k) = IF k \in Live(rows, o) THEN OrdOf(rows, o, k) ELSE CreatedOrd(n)
        /\ ValsOf(rows, p, k) = Over(payload, Pad)
        /\ \A x \in Live(rows, o) \ {k} : /\ OrdOf(rows, p, x) = OrdOf(rows, o, x)
                                          /\ ValsOf(rows, p, x) = ValsOf(rows, o, x)
    BY <1>1, <2>1, CreateIs
  <2>5. ord = OrdOf(rows, p, k)
    BY <1>2, <2>4
  <2>6. \A x \in Live(rows, p) :
           Shown(OrdOf(rows, p, x), ValsOf(rows, p, x)) = IF x = k THEN new ELSE v[x]
    BY <1>2, <2>4, <2>5
  <2> HIDE DEF new
  <2>7. w = [x \in DOMAIN v \cup {k} |-> IF x = k THEN new ELSE v[x]]
    BY <1>2, <2>4, <2>6
  <2>8. w = With(v, k, new)
    BY <2>7 DEF With
  <2> QED BY <1>3, <2>2, <2>3, <2>4, <2>8 DEF v, w
<1>4. CASE e.kind = "update"
  <2>1. p = Update(o, k, payload)
    BY <1>4 DEF OverlayEdit
  <2> DEFINE new == Shown(v[k].ord, Over(payload, v[k].vals))
  <2>2. ObjectsAfter(v, e, n) = IF k \notin DOMAIN v THEN v ELSE With(v, k, new)
    BY <1>4 DEF ObjectsAfter
  <2>3. CreatedAfter(DOMAIN o.creates, e) = DOMAIN o.creates
    BY <1>4 DEF CreatedAfter
  <2> HIDE DEF payload, v, w, k
  <2>4. /\ OverlayFits(p)
        /\ Live(rows, p) = Live(rows, o)
        /\ DOMAIN p.creates = DOMAIN o.creates
        /\ \A x : Gone(p, x) <=> Gone(o, x)
        /\ ValsOf(rows, p, k) = Over(payload, ValsOf(rows, o, k))
        /\ \A x : OrdOf(rows, p, x) = OrdOf(rows, o, x)
        /\ \A x : x # k => ValsOf(rows, p, x) = ValsOf(rows, o, x)
    BY <1>1, <2>1, UpdateIs
  <2>5. \A x \in Live(rows, p) :
           Shown(OrdOf(rows, p, x), ValsOf(rows, p, x)) = IF x = k THEN new ELSE v[x]
    BY <1>2, <2>4
  <2> HIDE DEF new
  <2>6. w = [x \in DOMAIN v |-> IF x = k THEN new ELSE v[x]]
    BY <1>2, <2>4, <2>5
  <2>7. k \in DOMAIN v => w = With(v, k, new)
    <3>1. k \in DOMAIN v => DOMAIN v \cup {k} = DOMAIN v
      OBVIOUS
    <3> QED BY <2>6, <3>1 DEF With
  <2>8. k \notin DOMAIN v => w = v
    BY <1>2, <2>4, <2>6
  <2> QED BY <1>4, <2>2, <2>3, <2>4, <2>7, <2>8 DEF v, w
<1>5. CASE e.kind = "delete"
  <2>1. p = Delete(o, k)
    BY <1>5 DEF OverlayEdit
  <2>2. ObjectsAfter(v, e, n) = Without(v, k)
    BY <1>5 DEF ObjectsAfter
  <2>3. CreatedAfter(DOMAIN o.creates, e) = DOMAIN o.creates \ {k}
    BY <1>5 DEF CreatedAfter
  <2>4. e.key = k
    OBVIOUS
  <2> HIDE DEF payload, v, w, k
  <2>5. DeleteKeeps(rows, o, k, p)
    BY <1>1, <2>1, DeleteIs
  <2>6. \A x \in Live(rows, p) : Shown(OrdOf(rows, p, x), ValsOf(rows, p, x)) = v[x]
    BY <1>2, <2>5 DEF DeleteKeeps
  <2>7. w = [x \in DOMAIN v \ {k} |-> v[x]]
    BY <1>2, <2>5, <2>6 DEF DeleteKeeps
  <2>8. w = Without(v, k)
    BY <2>7 DEF Without
  <2> QED BY <1>5, <2>2, <2>3, <2>4, <2>5, <2>8 DEF v, w, DeleteKeeps
<1> QED BY <1>3, <1>4, <1>5 DEF EditFits

-----------------------------------------------------------------------------
(* The dict of a replay lists its keys by the ordinals of the objects. *)
ObjectsFit(v, n) ==
    /\ DOMAIN v \subseteq Keys
    /\ \A k \in DOMAIN v : v[k].ord \in Int /\ v[k].ord <= CreatedOrd(n)
    /\ \A k \in DOMAIN v : v[k].vals \in [Cols -> Int]

DictFits(d, v) ==
    /\ DOMAIN d = {"order", "rows"}
    /\ d.order \in Seq(Keys)
    /\ {d.order[i] : i \in 1..Len(d.order)} = DOMAIN d.rows
    /\ DOMAIN d.rows \subseteq DOMAIN v
    /\ \A k \in DOMAIN v : v[k].ord \in Int
    /\ \A i, j \in 1..Len(d.order) : i < j => v[d.order[i]].ord < v[d.order[j]].ord

SameRowsBut(d, f, k) == \A x : x # k /\ x \in DOMAIN d.rows => f.rows[x] = d.rows[x]

LEMMA ShownIs == \A ord, vals : Shown(ord, vals).ord = ord /\ Shown(ord, vals).vals = vals
BY DEF Shown

LEMMA PadIs ==
    ASSUME NEW payload, DOMAIN payload \subseteq Cols, NEW vals, DOMAIN vals = Cols
    PROVE  Over(payload, vals) = [x \in Cols |-> Over(payload, vals)[x]]
BY DEF Over

LEMMA PadFits ==
    ASSUME NEW e, NEW n \in Int, NEW vals \in [Cols -> Int]
    PROVE  Over(Payload(e, n), vals) \in [Cols -> Int]
<1> DEFINE payload == Payload(e, n)
<1>1. DOMAIN payload \subseteq Cols /\ \A x \in DOMAIN payload : payload[x] \in Int
  BY DEF Payload, Null
<1> HIDE DEF payload
<1>2. Over(payload, vals) \in [Cols -> Int]
  BY <1>1 DEF Over
<1> QED BY <1>2 DEF payload

LEMMA ValsAre ==
    ASSUME NEW v, NEW n, ObjectsFit(v, n), NEW k \in DOMAIN v
    PROVE  DOMAIN v[k].vals = Cols /\ v[k].vals = [x \in Cols |-> v[k].vals[x]]
<1> DEFINE vals == v[k].vals
<1>1. vals \in [Cols -> Int]
  BY DEF ObjectsFit
<1> HIDE DEF vals
<1>2. DOMAIN vals = Cols /\ vals = [x \in Cols |-> vals[x]]
  BY <1>1
<1> QED BY <1>2 DEF vals

LEMMA ObjectsKeep ==
    ASSUME NEW n \in Nat, NEW v, ObjectsFit(v, n), NEW e, EditFits(e),
           NEW w, w = ObjectsAfter(v, e, n + 1)
    PROVE  ObjectsFit(w, n + 1)
<1> DEFINE k == e.key
           payload == Payload(e, n + 1)
<1>1. k \in Keys /\ DOMAIN payload \subseteq Cols
  BY PayloadIs DEF EditFits
<1>2. CreatedOrd(n) < CreatedOrd(n + 1) /\ CreatedOrd(n) \in Int /\ CreatedOrd(n + 1) \in Int
  BY BoundsAssumption DEF CreatedOrd
<1>3. \A x \in DOMAIN v : v[x].ord <= CreatedOrd(n + 1)
  BY <1>2 DEF ObjectsFit
<1>4. CASE e.kind = "create"
  <2> DEFINE ord == IF k \in DOMAIN v THEN v[k].ord ELSE CreatedOrd(n + 1)
             vals == Over(payload, Pad)
  <2>1. w = With(v, k, Shown(ord, vals))
    BY <1>4 DEF ObjectsAfter
  <2>2. ord \in Int /\ ord <= CreatedOrd(n + 1)
    BY <1>2, <1>3 DEF ObjectsFit
  <2>3. vals \in [Cols -> Int]
    <3>1. Pad \in [Cols -> Int]
      BY DEF Pad, Null
    <3> QED BY <3>1, PadFits
  <2> HIDE DEF ord, vals, k
  <2>4. /\ DOMAIN w = DOMAIN v \cup {k} /\ w[k] = Shown(ord, vals)
        /\ \A x \in DOMAIN v : x # k => w[x] = v[x]
    BY <2>1 DEF With
  <2>5. w[k].ord = ord /\ w[k].vals = vals
    BY <2>4, ShownIs
  <2> QED BY <1>1, <1>3, <2>2, <2>3, <2>4, <2>5 DEF ObjectsFit
<1>5. CASE e.kind = "update"
  <2>1. CASE k \notin DOMAIN v
    <3>1. w = v
      BY <1>5, <2>1 DEF ObjectsAfter
    <3> QED BY <3>1, <1>3 DEF ObjectsFit
  <2>2. CASE k \in DOMAIN v
    <3> DEFINE vals == Over(payload, v[k].vals)
    <3>1. w = With(v, k, Shown(v[k].ord, vals))
      BY <1>5, <2>2 DEF ObjectsAfter
    <3>2. v[k].vals \in [Cols -> Int]
      BY <2>2 DEF ObjectsFit
    <3>3. vals \in [Cols -> Int]
      BY <3>2, PadFits
    <3> HIDE DEF vals, k
    <3>4. /\ DOMAIN w = DOMAIN v \cup {k} /\ w[k] = Shown(v[k].ord, vals)
          /\ \A x \in DOMAIN v : x # k => w[x] = v[x]
      BY <3>1 DEF With
    <3>5. w[k].ord = v[k].ord /\ w[k].vals = vals
      BY <3>4, ShownIs
    <3> QED BY <1>1, <1>3, <2>2, <3>3, <3>4, <3>5 DEF ObjectsFit
  <2> QED BY <2>1, <2>2
<1>6. CASE e.kind = "delete"
  <2>1. w = Without(v, k)
    BY <1>6 DEF ObjectsAfter
  <2> HIDE DEF k
  <2>2. DOMAIN w = DOMAIN v \ {k} /\ \A x \in DOMAIN w : w[x] = v[x]
    BY <2>1 DEF Without
  <2> QED BY <1>3, <2>2 DEF ObjectsFit
<1> QED BY <1>4, <1>5, <1>6 DEF EditFits

\* Putting a key that is there, and one whose ordinal is the greatest.
CanPut(v, w, d, k) ==
    /\ DictFits(d, v)
    /\ DOMAIN w = DOMAIN v \cup {k} /\ w[k].ord \in Int
    /\ \A x \in DOMAIN v : w[x].ord = v[x].ord
    /\ k \notin DOMAIN d.rows => \A x \in DOMAIN v : v[x].ord < w[k].ord

IsPut(w, d, k, row, f) ==
    /\ DictFits(f, w)
    /\ DOMAIN f.rows = DOMAIN d.rows \cup {k}
    /\ f.rows[k] = row /\ SameRowsBut(d, f, k)
    /\ Len(f.order) <= Len(d.order) + 1

LEMMA PutIs ==
    ASSUME NEW v, NEW w, NEW d, NEW k \in Keys, CanPut(v, w, d, k), NEW row,
           NEW f, f = Put(d, k, row)
    PROVE  IsPut(w, d, k, row, f)
<1> USE DEF CanPut
<1>1. /\ DOMAIN f = {"order", "rows"}
      /\ f.order = IF k \in DOMAIN d.rows THEN d.order ELSE Append(d.order, k)
      /\ f.rows = With(d.rows, k, row)
  BY DEF Put
<1>2. DOMAIN f.rows = DOMAIN d.rows \cup {k} /\ f.rows[k] = row /\ SameRowsBut(d, f, k)
  BY <1>1 DEF With, SameRowsBut
<1>3. d.order \in Seq(Keys) /\ Len(d.order) \in Nat /\ \A i \in 1..Len(d.order) : d.order[i] \in DOMAIN d.rows
  BY DEF DictFits
<1>4. CASE k \in DOMAIN d.rows
  <2>1. f.order = d.order
    BY <1>1, <1>4
  <2>2. DOMAIN f.rows = DOMAIN d.rows
    BY <1>2, <1>4
  <2>3. \A i \in 1..Len(d.order) : d.order[i] \in DOMAIN v
    BY <1>3 DEF DictFits
  <2>4. \A i, j \in 1..Len(d.order) : i < j => w[d.order[i]].ord < w[d.order[j]].ord
    BY <2>3 DEF DictFits
  <2>5. DOMAIN f.rows \subseteq DOMAIN w /\ \A x \in DOMAIN w : w[x].ord \in Int
    BY <2>2 DEF DictFits
  <2>6. DictFits(f, w)
    <3>1. {d.order[i] : i \in 1..Len(d.order)} = DOMAIN d.rows
      BY DEF DictFits
    <3>2. {f.order[i] : i \in 1..Len(f.order)} = DOMAIN f.rows
      BY <2>1, <2>2, <3>1
    <3>3. f.order \in Seq(Keys)
      BY <1>3, <2>1
    <3>4. \A i, j \in 1..Len(f.order) : i < j => w[f.order[i]].ord < w[f.order[j]].ord
      BY <2>1, <2>4
    <3> QED BY <1>1, <2>5, <3>2, <3>3, <3>4 DEF DictFits
  <2> QED BY <1>2, <1>3, <2>1, <2>6 DEF IsPut
<1>5. CASE k \notin DOMAIN d.rows
  <2> DEFINE n == Len(d.order)
  <2>1. /\ f.order \in Seq(Keys) /\ Len(f.order) = n + 1 /\ f.order[n + 1] = k
        /\ \A i \in 1..n : f.order[i] = d.order[i]
    BY <1>1, <1>3, <1>5
  <2>2. {f.order[i] : i \in 1..(n + 1)} = DOMAIN d.rows \cup {k}
    <3>1. 1..(n + 1) = (1..n) \cup {n + 1}
      BY <1>3
    <3>2. {f.order[i] : i \in 1..n} = {d.order[i] : i \in 1..n}
      BY <2>1
    <3>3. {f.order[i] : i \in 1..(n + 1)} = {f.order[i] : i \in 1..n} \cup {f.order[n + 1]}
      BY <3>1
    <3> QED BY <2>1, <3>2, <3>3 DEF DictFits
  <2>3. ASSUME NEW i \in 1..(n + 1), NEW j \in 1..(n + 1), i < j
        PROVE  w[f.order[i]].ord < w[f.order[j]].ord
    <3>1. i \in 1..n /\ f.order[i] = d.order[i] /\ d.order[i] \in DOMAIN v
      BY <1>3, <2>1, <2>3 DEF DictFits
    <3>2. CASE j = n + 1
      BY <1>5, <2>1, <3>1, <3>2
    <3>3. CASE j \in 1..n
      <4>1. f.order[j] = d.order[j] /\ d.order[j] \in DOMAIN v
        BY <1>3, <2>1, <3>3 DEF DictFits
      <4>2. v[d.order[i]].ord < v[d.order[j]].ord
        BY <2>3, <3>1, <3>3 DEF DictFits
      <4> QED BY <3>1, <4>1, <4>2
    <3> QED BY <1>3, <3>2, <3>3
  <2>4. DictFits(f, w)
    BY <1>1, <1>2, <1>3, <2>1, <2>2, <2>3 DEF DictFits
  <2> QED BY <1>2, <1>3, <2>1, <2>4 DEF IsPut
<1> QED BY <1>4, <1>5

LEMMA PopIs ==
    ASSUME NEW v, NEW w, NEW d, DictFits(d, v), NEW k \in Keys,
           DOMAIN w = DOMAIN v \ {k}, \A x \in DOMAIN w : w[x].ord = v[x].ord,
           NEW f, f = Pop(d, k)
    PROVE  /\ DictFits(f, w)
           /\ DOMAIN f.rows = DOMAIN d.rows \ {k}
           /\ SameRowsBut(d, f, k)
           /\ Len(f.order) <= Len(d.order)
<1>1. d.order \in Seq(Keys) /\ Len(d.order) \in Nat
  BY DEF DictFits
<1>2. CASE k \notin DOMAIN d.rows
  <2>1. f = d
    BY <1>2 DEF Pop
  <2>2. DOMAIN d.rows \subseteq DOMAIN w
    BY <1>2 DEF DictFits
  <2>3. \A i \in 1..Len(d.order) : d.order[i] \in DOMAIN w
    BY <2>2 DEF DictFits
  <2>4. DictFits(d, w)
    BY <2>2, <2>3 DEF DictFits
  <2> QED BY <1>1, <1>2, <2>1, <2>4 DEF SameRowsBut
<1>3. CASE k \in DOMAIN d.rows
  <2> DEFINE n == Len(d.order)
             at == CHOOSE i \in 1..n : d.order[i] = k
             nth(i) == IF i < at THEN i ELSE i + 1
             left == [i \in 1..(n - 1) |-> d.order[nth(i)]]
  <2>1. DOMAIN d.order = 1..n
    BY <1>1
  <2>2. f = [order |-> left, rows |-> Without(d.rows, k)]
    BY <1>3, <2>1 DEF Pop
  <2>3. at \in 1..n /\ d.order[at] = k
    <3>1. \E i \in 1..n : d.order[i] = k
      BY <1>3 DEF DictFits
    <3> QED BY <3>1
  <2>4. \A i \in 1..n : d.order[i] = k => i = at
    BY <1>1, <1>3, <2>3 DEF DictFits
  <2> HIDE DEF at
  <2>5. \A i \in 1..(n - 1) : nth(i) \in 1..n /\ nth(i) # at
    BY <1>1, <2>3
  <2>6. \A i, j \in 1..(n - 1) : i < j => nth(i) < nth(j)
    BY <1>1, <2>3
  <2>7. \A j \in 1..n : j # at => \E i \in 1..(n - 1) : nth(i) = j
    <3> SUFFICES ASSUME NEW j \in 1..n, j # at PROVE \E i \in 1..(n - 1) : nth(i) = j
      OBVIOUS
    <3>1. CASE j < at
      <4>1. j \in 1..(n - 1) /\ nth(j) = j
        BY <1>1, <2>3, <3>1
      <4> QED BY <4>1
    <3>2. CASE j > at
      <4>1. j - 1 \in 1..(n - 1) /\ nth(j - 1) = j
        BY <1>1, <2>3, <3>2
      <4> QED BY <4>1
    <3> QED BY <1>1, <2>3, <3>1, <3>2
  <2> HIDE DEF nth
  <2>8. left \in Seq(Keys) /\ Len(left) = n - 1 /\ \A i \in 1..(n - 1) : left[i] = d.order[nth(i)]
    <3>1. \A i \in 1..(n - 1) : d.order[nth(i)] \in Keys
      BY <1>1, <2>5
    <3>2. n - 1 \in Nat
      BY <1>1, <2>3
    <3> QED BY <3>1, <3>2
  <2> HIDE DEF left
  <2>9. DOMAIN f = {"order", "rows"} /\ f.order = left
        /\ DOMAIN f.rows = DOMAIN d.rows \ {k} /\ \A x \in DOMAIN f.rows : f.rows[x] = d.rows[x]
    BY <2>2 DEF Without
  <2>10. {left[i] : i \in 1..(n - 1)} = DOMAIN d.rows \ {k}
    <3>1. ASSUME NEW i \in 1..(n - 1) PROVE left[i] \in DOMAIN d.rows \ {k}
      <4>1. nth(i) \in 1..n /\ nth(i) # at /\ left[i] = d.order[nth(i)]
        BY <2>5, <2>8
      <4>2. d.order[nth(i)] \in DOMAIN d.rows
        BY <4>1 DEF DictFits
      <4> QED BY <2>4, <4>1, <4>2
    <3>2. ASSUME NEW x \in DOMAIN d.rows \ {k} PROVE \E i \in 1..(n - 1) : left[i] = x
      <4>1. PICK j \in 1..n : d.order[j] = x
        BY DEF DictFits
      <4>2. j # at
        BY <2>3, <4>1
      <4>3. PICK i \in 1..(n - 1) : nth(i) = j
        BY <2>7, <4>2
      <4> QED BY <2>8, <4>1, <4>3
    <3> QED BY <3>1, <3>2
  <2>11. DOMAIN f.rows \subseteq DOMAIN w
    BY <2>9 DEF DictFits
  <2>12. ASSUME NEW i \in 1..(n - 1), NEW j \in 1..(n - 1), i < j
         PROVE  w[left[i]].ord < w[left[j]].ord
    <3>1. left[i] \in DOMAIN w /\ left[j] \in DOMAIN w
      BY <2>9, <2>10, <2>11
    <3>2. v[d.order[nth(i)]].ord < v[d.order[nth(j)]].ord
      BY <2>5, <2>6, <2>12 DEF DictFits
    <3> QED BY <2>8, <3>1, <3>2
  <2>13. DictFits(f, w)
    <3>1. {left[i] : i \in 1..Len(left)} = DOMAIN f.rows
      BY <2>8, <2>9, <2>10
    <3>2. \A x \in DOMAIN w : w[x].ord \in Int
      BY DEF DictFits
    <3>3. \A i, j \in 1..Len(left) : i < j => w[left[i]].ord < w[left[j]].ord
      BY <2>8, <2>12
    <3> QED BY <2>8, <2>9, <2>11, <3>1, <3>2, <3>3 DEF DictFits
  <2> QED BY <1>1, <2>3, <2>8, <2>9, <2>13 DEF SameRowsBut
<1> QED BY <1>2, <1>3

-----------------------------------------------------------------------------
(* What the replay holds after some of the edits: of a key that is created *)
(* in the end, the object; of another, the row until it is deleted.        *)
GoneAfter(G, e) == IF e.kind = "delete" THEN G \cup {e.key} ELSE G

\* A value shown, or the one that the creates of the key assign in the end.
RowAgrees(A, k, row, vals) ==
    /\ row = [x \in Cols |-> row[x]]
    /\ \A x \in Cols : row[x] = vals[x] \/ (k \in DOMAIN A /\ x \in DOMAIN A[k] /\ row[x] = A[k][x])

ReplayKeys(K, A, v, G, d) ==
    \A k \in Keys : k \in DOMAIN d.rows <=> IF k \in DOMAIN A THEN k \in DOMAIN v ELSE k \in K \ G

ReplayRows(A, v, C, d) ==
    \A k \in DOMAIN d.rows : (k \in DOMAIN A \/ k \notin C) => RowAgrees(A, k, d.rows[k], v[k].vals)

ReplayFits(K, A, v, C, G, d) ==
    DictFits(d, v) /\ ReplayKeys(K, A, v, G, d) /\ ReplayRows(A, v, C, d)

LEMMA RowAgreesOver ==
    ASSUME NEW A, NEW k, NEW row, NEW vals, RowAgrees(A, k, row, vals), DOMAIN vals = Cols,
           NEW payload, DOMAIN payload \subseteq Cols
    PROVE  RowAgrees(A, k, Over(payload, row), Over(payload, vals))
<1>1. DOMAIN row = Cols
  BY DEF RowAgrees
<1>2. /\ DOMAIN Over(payload, row) = Cols /\ DOMAIN Over(payload, vals) = Cols
      /\ \A x \in Cols : Over(payload, row)[x] = IF x \in DOMAIN payload THEN payload[x] ELSE row[x]
      /\ \A x \in Cols : Over(payload, vals)[x] = IF x \in DOMAIN payload THEN payload[x] ELSE vals[x]
  BY <1>1 DEF Over
<1>3. Over(payload, row) = [x \in Cols |-> Over(payload, row)[x]]
  BY <1>1, PadIs
<1> QED BY <1>2, <1>3 DEF RowAgrees

LEMMA RowAgreesCreated ==
    ASSUME NEW A, NEW k \in DOMAIN A, DOMAIN A[k] \subseteq Cols, NEW vals, DOMAIN vals = Cols
    PROVE  RowAgrees(A, k, Over(A[k], vals), vals)
<1>1. /\ DOMAIN Over(A[k], vals) = Cols
      /\ \A x \in Cols : Over(A[k], vals)[x] = IF x \in DOMAIN A[k] THEN A[k][x] ELSE vals[x]
  BY DEF Over
<1>2. Over(A[k], vals) = [x \in Cols |-> Over(A[k], vals)[x]]
  BY PadIs
<1> QED BY <1>1, <1>2 DEF RowAgrees

ColumnsIn(A) == \A k \in DOMAIN A : DOMAIN A[k] \subseteq Cols

CanReplay(K, A, v, C, G, d, e, n) ==
    /\ ColumnsIn(A) /\ n \in Nat /\ ObjectsFit(v, n) /\ DOMAIN v = C \cup (K \ G)
    /\ ReplayFits(K, A, v, C, G, d) /\ EditFits(e)

LEMMA ReplayFollows ==
    ASSUME NEW K, NEW A, NEW v, NEW C, NEW G, NEW d, NEW e, NEW n, CanReplay(K, A, v, C, G, d, e, n),
           NEW w, w = ObjectsAfter(v, e, n + 1), NEW f, f = ReplayEdit(A, d, e, n + 1)
    PROVE  /\ DOMAIN w = CreatedAfter(C, e) \cup (K \ GoneAfter(G, e))
           /\ ReplayFits(K, A, w, CreatedAfter(C, e), GoneAfter(G, e), f)
           /\ Len(f.order) <= Len(d.order) + 1
<1>0. /\ ColumnsIn(A) /\ n \in Nat /\ ObjectsFit(v, n) /\ DOMAIN v = C \cup (K \ G)
      /\ ReplayFits(K, A, v, C, G, d) /\ EditFits(e)
  BY DEF CanReplay
<1> USE <1>0
<1> DEFINE k == e.key
           payload == Payload(e, n + 1)
           D == CreatedAfter(C, e)
           H == GoneAfter(G, e)
<1>1. k \in Keys /\ DOMAIN payload \subseteq Cols
  BY PayloadIs DEF EditFits
<1>2. ObjectsFit(w, n + 1)
  BY ObjectsKeep
<1>3. DictFits(d, v) /\ ReplayKeys(K, A, v, G, d) /\ ReplayRows(A, v, C, d)
  BY DEF ReplayFits
<1>4. Len(d.order) \in Nat /\ DOMAIN d.rows \subseteq DOMAIN v /\ DOMAIN v \subseteq Keys
  BY <1>3 DEF DictFits, ObjectsFit
<1>5. \A x \in DOMAIN v : v[x].ord < CreatedOrd(n + 1)
  BY BoundsAssumption DEF ObjectsFit, CreatedOrd
<1>6. CreatedOrd(n + 1) \in Int /\ \A x \in DOMAIN v : v[x].ord \in Int /\ DOMAIN v[x].vals = Cols
  <2>1. CreatedOrd(n + 1) \in Int
    BY BoundsAssumption DEF CreatedOrd
  <2>2. \A x \in DOMAIN v : v[x].ord \in Int
    BY DEF ObjectsFit
  <2>3. \A x \in DOMAIN v : DOMAIN v[x].vals = Cols
    BY ValsAre
  <2> QED BY <2>1, <2>2, <2>3
<1>7. CASE e.kind = "create"
  <2> DEFINE ord == IF k \in DOMAIN v THEN v[k].ord ELSE CreatedOrd(n + 1)
             vals == Over(payload, Pad)
             row == Over(A[k], vals)
  <2>1. w = With(v, k, Shown(ord, vals)) /\ D = C \cup {k} /\ H = G
    BY <1>7 DEF ObjectsAfter, CreatedAfter, GoneAfter
  <2>2. f = IF k \notin DOMAIN A THEN d ELSE Put(d, k, row)
    BY <1>7 DEF ReplayEdit
  <2>3. DOMAIN vals = Cols
    BY <1>1 DEF Over, Pad
  <2> HIDE DEF vals, ord, row, D, H
  <2>4. /\ DOMAIN w = DOMAIN v \cup {k} /\ w[k].ord = ord /\ w[k].vals = vals
        /\ \A x \in DOMAIN v : x # k => w[x] = v[x]
    BY <2>1, ShownIs DEF With
  <2>5. \A x \in DOMAIN v : w[x].ord = v[x].ord
    BY <2>4 DEF ord
  <2>6. ord \in Int
    BY <1>6 DEF ord
  <2> HIDE DEF k
  <2>7. DOMAIN w = D \cup (K \ H)
    BY <2>1, <2>4
  <2>8. CASE k \notin DOMAIN A
    <3>1. f = d
      BY <2>2, <2>8
    <3>2. DictFits(d, w)
      <4>1. \A i \in 1..Len(d.order) : d.order[i] \in DOMAIN v
        BY <1>3 DEF DictFits
      <4>2. \A i, j \in 1..Len(d.order) : i < j => w[d.order[i]].ord < w[d.order[j]].ord
        BY <1>3, <2>5, <4>1 DEF DictFits
      <4>3. \A x \in DOMAIN w : w[x].ord \in Int
        BY <1>2 DEF ObjectsFit
      <4> QED BY <1>3, <1>4, <2>4, <4>2, <4>3 DEF DictFits
    <3>3. ReplayKeys(K, A, w, H, d)
      BY <1>3, <2>1, <2>4, <2>8 DEF ReplayKeys
    <3>4. ReplayRows(A, w, D, d)
      BY <1>3, <1>4, <2>1, <2>4, <2>8 DEF ReplayRows
    <3> QED BY <1>4, <2>7, <3>1, <3>2, <3>3, <3>4 DEF ReplayFits, D, H
  <2>9. CASE k \in DOMAIN A
    <3>1. f = Put(d, k, row)
      BY <2>2, <2>9
    <3>2. k \in DOMAIN v <=> k \in DOMAIN d.rows
      BY <1>1, <1>3, <2>9 DEF ReplayKeys
    <3>3. k \notin DOMAIN d.rows => \A x \in DOMAIN v : v[x].ord < w[k].ord
      BY <1>5, <2>4, <3>2 DEF ord
    <3>4. /\ DictFits(f, w) /\ DOMAIN f.rows = DOMAIN d.rows \cup {k}
          /\ f.rows[k] = row /\ SameRowsBut(d, f, k) /\ Len(f.order) <= Len(d.order) + 1
      <4>1. CanPut(v, w, d, k)
        BY <1>3, <2>4, <2>5, <2>6, <3>3 DEF CanPut
      <4>2. IsPut(w, d, k, row, f)
        BY <1>1, <3>1, <4>1, PutIs
      <4> QED BY <4>2 DEF IsPut
    <3>5. ReplayKeys(K, A, w, H, f)
      BY <1>3, <2>1, <2>4, <2>9, <3>4 DEF ReplayKeys
    <3>6. RowAgrees(A, k, row, vals)
      BY <2>3, <2>9, RowAgreesCreated DEF row, ColumnsIn
    <3>7. ReplayRows(A, w, D, f)
      BY <1>3, <1>4, <2>1, <2>4, <3>4, <3>6 DEF ReplayRows, SameRowsBut
    <3> QED BY <2>7, <3>4, <3>5, <3>7 DEF ReplayFits, D, H
  <2> QED BY <2>8, <2>9
<1>8. CASE e.kind = "update"
  <2> DEFINE vals == Over(payload, v[k].vals)
             row == Over(payload, d.rows[k])
  <2>1. w = (IF k \notin DOMAIN v THEN v ELSE With(v, k, Shown(v[k].ord, vals))) /\ D = C /\ H = G
    BY <1>8 DEF ObjectsAfter, CreatedAfter, GoneAfter
  <2>2. f = IF k \notin DOMAIN d.rows THEN d ELSE Put(d, k, row)
    BY <1>8 DEF ReplayEdit
  <2> HIDE DEF vals, row, D, H, payload
  <2>3. /\ DOMAIN w = DOMAIN v
        /\ \A x \in DOMAIN v : x # k => w[x] = v[x]
        /\ k \in DOMAIN v => w[k].ord = v[k].ord /\ w[k].vals = vals
    <3> DEFINE new == Shown(v[k].ord, vals)
    <3>1. new.ord = v[k].ord /\ new.vals = vals
      BY ShownIs
    <3> HIDE DEF new, k
    <3>2. w = IF k \notin DOMAIN v THEN v ELSE With(v, k, new)
      BY <2>1 DEF new
    <3>3. CASE k \notin DOMAIN v
      BY <3>2, <3>3
    <3>4. CASE k \in DOMAIN v
      <4>1. w = [x \in DOMAIN v \cup {k} |-> IF x = k THEN new ELSE v[x]]
        BY <3>2, <3>4 DEF With
      <4> QED BY <3>1, <3>4, <4>1
    <3> QED BY <3>3, <3>4
  <2> HIDE DEF k
  <2>4. \A x \in DOMAIN v : w[x].ord = v[x].ord
    BY <2>3
  <2>5. CASE k \notin DOMAIN d.rows
    <3>1. f = d
      BY <2>2, <2>5
    <3>2. DictFits(d, w)
      <4>1. \A i \in 1..Len(d.order) : d.order[i] \in DOMAIN v
        BY <1>3 DEF DictFits
      <4>2. \A i, j \in 1..Len(d.order) : i < j => w[d.order[i]].ord < w[d.order[j]].ord
        BY <1>3, <2>4, <4>1 DEF DictFits
      <4>3. \A x \in DOMAIN w : w[x].ord \in Int
        BY <1>2 DEF ObjectsFit
      <4> QED BY <1>3, <1>4, <2>3, <4>2, <4>3 DEF DictFits
    <3>3. ReplayKeys(K, A, w, H, d)
      BY <1>3, <2>1, <2>3 DEF ReplayKeys
    <3>4. ReplayRows(A, w, D, d)
      BY <1>3, <1>4, <2>1, <2>3, <2>5 DEF ReplayRows
    <3> QED BY <1>4, <2>1, <2>3, <3>1, <3>2, <3>3, <3>4 DEF ReplayFits, D, H
  <2>6. CASE k \in DOMAIN d.rows
    <3>1. f = Put(d, k, row)
      BY <2>2, <2>6
    <3>2. k \in DOMAIN v /\ w[k].ord \in Int /\ DOMAIN w = DOMAIN v \cup {k}
      BY <1>4, <1>6, <2>3, <2>6
    <3>3. /\ DictFits(f, w) /\ DOMAIN f.rows = DOMAIN d.rows \cup {k}
          /\ f.rows[k] = row /\ SameRowsBut(d, f, k) /\ Len(f.order) <= Len(d.order) + 1
      <4>1. CanPut(v, w, d, k)
        BY <1>3, <2>4, <2>6, <3>2 DEF CanPut
      <4>2. IsPut(w, d, k, row, f)
        BY <1>1, <3>1, <4>1, PutIs
      <4> QED BY <4>2 DEF IsPut
    <3>4. DOMAIN f.rows = DOMAIN d.rows
      BY <2>6, <3>3
    <3>5. ReplayKeys(K, A, w, H, f)
      BY <1>3, <2>1, <2>3, <3>4 DEF ReplayKeys
    <3>6. (k \in DOMAIN A \/ k \notin C) => RowAgrees(A, k, row, vals)
      <4> SUFFICES ASSUME k \in DOMAIN A \/ k \notin C PROVE RowAgrees(A, k, row, vals)
        OBVIOUS
      <4>1. RowAgrees(A, k, d.rows[k], v[k].vals)
        BY <1>3, <2>6 DEF ReplayRows
      <4> QED BY <1>1, <1>6, <3>2, <4>1, RowAgreesOver DEF row, vals
    <3>7. ReplayRows(A, w, D, f)
      BY <1>3, <1>4, <2>1, <2>3, <3>2, <3>3, <3>4, <3>6 DEF ReplayRows, SameRowsBut
    <3> QED BY <2>1, <2>3, <3>3, <3>5, <3>7 DEF ReplayFits, D, H
  <2> QED BY <2>5, <2>6
<1>9. CASE e.kind = "delete"
  <2>1. w = Without(v, k) /\ D = C \ {k} /\ H = G \cup {k}
    BY <1>9 DEF ObjectsAfter, CreatedAfter, GoneAfter
  <2>2. f = Pop(d, k)
    BY <1>9 DEF ReplayEdit
  <2> HIDE DEF payload, D, H, k
  <2>3. DOMAIN w = DOMAIN v \ {k} /\ \A x \in DOMAIN w : w[x] = v[x]
    BY <2>1 DEF Without
  <2>4. \A x \in DOMAIN w : w[x].ord = v[x].ord
    BY <2>3
  <2>5. /\ DictFits(f, w) /\ DOMAIN f.rows = DOMAIN d.rows \ {k}
        /\ SameRowsBut(d, f, k) /\ Len(f.order) <= Len(d.order)
    BY <1>1, <1>3, <2>2, <2>3, <2>4, PopIs
  <2>6. DOMAIN w = D \cup (K \ H)
    BY <2>1, <2>3
  <2>7. ReplayKeys(K, A, w, H, f)
    BY <1>3, <2>1, <2>3, <2>5 DEF ReplayKeys
  <2>8. ReplayRows(A, w, D, f)
    BY <1>3, <1>4, <2>1, <2>3, <2>5 DEF ReplayRows, SameRowsBut
  <2>9. Len(f.order) \in Nat
    BY <2>5 DEF DictFits
  <2> QED BY <1>4, <2>5, <2>6, <2>7, <2>8, <2>9 DEF ReplayFits, D, H
<1> QED BY <1>7, <1>8, <1>9 DEF EditFits

-----------------------------------------------------------------------------
(* Before the first edit. *)
LEMMA RowsAre ==
    ASSUME NEW rows, RowsFit(rows)
    PROVE  /\ Len(rows) \in Nat /\ KeysIn(rows) \subseteq Keys
           /\ \A i \in 1..Len(rows) : /\ rows[i].key \in Keys /\ rows[i].key \in KeysIn(rows)
                                      /\ NumberOf(rows, rows[i].key) = i
                                      /\ rows[i].vals \in [Cols -> Int] /\ rows[i].rest \in Int
           /\ \A k \in KeysIn(rows) : /\ NumberOf(rows, k) \in 1..Len(rows)
                                      /\ rows[NumberOf(rows, k)].key = k
<1>1. Len(rows) \in Nat
  BY DEF RowsFit
<1>2. \A i \in 1..Len(rows) : /\ rows[i].key \in Keys /\ rows[i].vals \in [Cols -> Int]
                              /\ rows[i].rest \in Int
  <2> DEFINE Rows == [key : Keys, vals : [Cols -> Int], rest : Int]
  <2>1. \A r \in Rows : r.key \in Keys /\ r.vals \in [Cols -> Int] /\ r.rest \in Int
    OBVIOUS
  <2>2. rows \in Seq(Rows)
    BY DEF RowsFit
  <2> HIDE DEF Rows
  <2>3. \A i \in 1..Len(rows) : rows[i] \in Rows
    BY <2>2
  <2> QED BY <2>1, <2>3
<1>3. \A k \in KeysIn(rows) : NumberOf(rows, k) \in 1..Len(rows) /\ rows[NumberOf(rows, k)].key = k
  <2> SUFFICES ASSUME NEW k \in KeysIn(rows)
               PROVE  NumberOf(rows, k) \in 1..Len(rows) /\ rows[NumberOf(rows, k)].key = k
    OBVIOUS
  <2>1. \E i \in 1..Len(rows) : rows[i].key = k
    BY DEF KeysIn
  <2> QED BY <2>1 DEF NumberOf
<1>4. \A i \in 1..Len(rows) : rows[i].key \in KeysIn(rows)
  BY DEF KeysIn
<1>5. \A i \in 1..Len(rows) : NumberOf(rows, rows[i].key) = i
  BY <1>3, <1>4 DEF RowsFit
<1>6. KeysIn(rows) \subseteq Keys
  BY <1>2 DEF KeysIn
<1> QED BY <1>1, <1>2, <1>3, <1>4, <1>5, <1>6

DictHolds(d, rows, i) ==
    /\ DOMAIN d = {"order", "rows"}
    /\ d.order \in Seq(Keys) /\ Len(d.order) = i
    /\ \A j \in 1..i : d.order[j] = rows[j].key
    /\ DOMAIN d.rows = {rows[j].key : j \in 1..i}
    /\ \A j \in 1..i : d.rows[rows[j].key] = rows[j].vals

LEMMA RowRunHolds ==
    ASSUME NEW rows, RowsFit(rows), NEW f, RowRun(f, rows)
    PROVE  \A i \in 0..Len(rows) : DictHolds(f[i], rows, i)
<1> DEFINE T == {i \in Nat : i <= Len(rows) => DictHolds(f[i], rows, i)}
<1>1. Len(rows) \in Nat
  BY RowsAre
<1>2. 0 \in T
  <2>1. f[0] = [order |-> << >>, rows |-> NoDict]
    BY DEF RowRun
  <2>2. f[0].order = << >> /\ DOMAIN f[0] = {"order", "rows"} /\ DOMAIN f[0].rows = {}
    BY <2>1 DEF NoDict
  <2>3. {rows[j].key : j \in 1..0} = {}
    OBVIOUS
  <2>4. f[0].order \in Seq(Keys) /\ Len(f[0].order) = 0
    BY <2>2
  <2>5. DictHolds(f[0], rows, 0)
    BY <2>2, <2>3, <2>4 DEF DictHolds
  <2> QED BY <2>5
<1>3. ASSUME NEW n \in Nat, n \in T PROVE n + 1 \in T
  <2> SUFFICES ASSUME n + 1 <= Len(rows) PROVE DictHolds(f[n + 1], rows, n + 1)
    OBVIOUS
  <2> DEFINE d == f[n]
             g == f[n + 1]
             k == rows[n + 1].key
             row == rows[n + 1].vals
  <2>1. n + 1 \in 1..Len(rows) /\ (n + 1) - 1 = n
    BY <1>1
  <2>2. DictHolds(d, rows, n)
    BY <1>1, <1>3
  <2>3. g = Put(d, k, row)
    BY <2>1 DEF RowRun
  <2>4. k \in Keys /\ \A j \in 1..n : rows[j].key # k
    <3>1. k \in Keys
      BY <2>1, RowsAre
    <3>2. \A j \in 1..n : j \in 1..Len(rows) /\ j # n + 1
      BY <1>1, <2>1
    <3> QED BY <2>1, <3>1, <3>2 DEF RowsFit
  <2> HIDE DEF d, g, row
  <2>5. k \notin DOMAIN d.rows
    BY <2>2, <2>4 DEF DictHolds
  <2>6. DOMAIN g = {"order", "rows"} /\ g.order = Append(d.order, k) /\ g.rows = With(d.rows, k, row)
    BY <2>3, <2>5 DEF Put
  <2>7. /\ g.order \in Seq(Keys) /\ Len(g.order) = n + 1 /\ g.order[n + 1] = k
        /\ \A j \in 1..n : g.order[j] = d.order[j]
    BY <2>2, <2>4, <2>6 DEF DictHolds
  <2>8. /\ DOMAIN g.rows = DOMAIN d.rows \cup {k} /\ g.rows[k] = row
        /\ \A x \in DOMAIN d.rows : g.rows[x] = d.rows[x]
    BY <2>5, <2>6 DEF With
  <2>9. 1..(n + 1) = (1..n) \cup {n + 1}
    OBVIOUS
  <2>10. {rows[j].key : j \in 1..(n + 1)} = {rows[j].key : j \in 1..n} \cup {k}
    BY <2>9
  <2>11. \A j \in 1..(n + 1) : g.order[j] = rows[j].key
    BY <2>2, <2>7, <2>9 DEF DictHolds
  <2>12. \A j \in 1..n : g.rows[rows[j].key] = rows[j].vals
    BY <2>2, <2>8 DEF DictHolds
  <2>13. \A j \in 1..(n + 1) : g.rows[rows[j].key] = rows[j].vals
    BY <2>8, <2>9, <2>12 DEF row
  <2>14. DictHolds(g, rows, n + 1)
    BY <2>2, <2>6, <2>7, <2>8, <2>10, <2>11, <2>13 DEF DictHolds
  <2> QED BY <2>14 DEF g
<1>4. Nat \subseteq T
  <2> HIDE DEF T
  <2> QED BY <1>2, <1>3, Induct
<1>5. ASSUME NEW i \in 0..Len(rows) PROVE DictHolds(f[i], rows, i)
  <2>1. i \in T
    BY <1>4
  <2> QED BY <2>1
<1> QED BY <1>5

LEMMA NoOverlayIs ==
    ASSUME NEW rows
    PROVE  /\ OverlayFits(NoOverlay) /\ Live(rows, NoOverlay) = KeysIn(rows)
           /\ DOMAIN NoOverlay.creates = {} /\ \A x : ~Gone(NoOverlay, x)
           /\ \A k : /\ OrdOf(rows, NoOverlay, k) = NumberOf(rows, k)
                     /\ ValsOf(rows, NoOverlay, k) = rows[NumberOf(rows, k)].vals
<1>1. DOMAIN NoDict = {}
  BY DEF NoDict
<1>2. /\ DOMAIN NoOverlay = {"deleted", "updates", "creates", "ord", "fresh"}
      /\ NoOverlay.deleted = {} /\ NoOverlay.updates = NoDict /\ NoOverlay.creates = NoDict
      /\ NoOverlay.ord = NoDict /\ NoOverlay.fresh = NoDict
  BY DEF NoOverlay
<1> QED BY <1>1, <1>2 DEF OverlayFits, Live, Gone, OrdOf, ValsOf

FoldFits(rows, after, edits) ==
    /\ RowsFit(rows)
    /\ after \in Nat /\ Len(rows) <= MaxRows + after
    /\ edits \in Seq(Edits) /\ after + Len(edits) <= MaxEdits

LEMMA ObjectsBegin ==
    ASSUME NEW rows, NEW after, NEW edits, FoldFits(rows, after, edits)
    PROVE  ObjectsFit(Objects(rows, NoOverlay), after)
<1> DEFINE v == Objects(rows, NoOverlay)
<1>1. /\ DOMAIN v = KeysIn(rows)
      /\ \A k \in KeysIn(rows) : v[k].ord = NumberOf(rows, k) /\ v[k].vals = rows[NumberOf(rows, k)].vals
  BY NoOverlayIs, ObjectsAre
<1>2. RowsFit(rows) /\ after \in Nat /\ Len(rows) \in Nat /\ Len(edits) \in Nat
      /\ Len(rows) <= MaxRows + after /\ after + Len(edits) <= MaxEdits
  BY RowsAre DEF FoldFits
<1>3. KeysIn(rows) \subseteq Keys
  BY <1>2, RowsAre
<1>4. ASSUME NEW k \in KeysIn(rows)
      PROVE  v[k].ord \in Int /\ v[k].ord <= CreatedOrd(after) /\ v[k].vals \in [Cols -> Int]
  <2>1. NumberOf(rows, k) \in 1..Len(rows)
    BY <1>2, RowsAre
  <2>2. rows[NumberOf(rows, k)].vals \in [Cols -> Int]
    BY <1>2, <2>1, RowsAre
  <2>3. v[k].vals \in [Cols -> Int]
    BY <1>1, <2>2
  <2>5. v[k].ord \in Int /\ v[k].ord <= CreatedOrd(after)
    BY <1>1, <1>2, <2>1, BoundsAssumption DEF CreatedOrd
  <2> QED BY <2>3, <2>5
<1> QED BY <1>1, <1>3, <1>4 DEF ObjectsFit

-----------------------------------------------------------------------------
(* After each of the edits. *)
GoneOf(o) == {x \in Keys : Gone(o, x)}

LEMMA EditOf ==
    ASSUME NEW edits, edits \in Seq(Edits), NEW n \in Nat, n + 1 <= Len(edits)
    PROVE  n + 1 \in 1..Len(edits) /\ (n + 1) - 1 = n /\ EditFits(edits[n + 1])
<1>1. n + 1 \in 1..Len(edits) /\ (n + 1) - 1 = n
  OBVIOUS
<1>2. edits[n + 1] \in Edits
  BY <1>1
<1> QED BY <1>1, <1>2, EditsFit

LEMMA RunFits ==
    ASSUME NEW rows, NEW after, NEW edits, FoldFits(rows, after, edits),
           NEW f, OverlayRun(f, edits, after)
    PROVE  \A i \in 0..Len(edits) : OverlayFits(f[i]) /\ ObjectsFit(Objects(rows, f[i]), after + i)
<1> DEFINE Fit(i) == OverlayFits(f[i]) /\ ObjectsFit(Objects(rows, f[i]), after + i)
           T == {i \in Nat : i <= Len(edits) => Fit(i)}
<1>1. Len(edits) \in Nat /\ edits \in Seq(Edits) /\ after \in Nat
  BY DEF FoldFits
<1>2. 0 \in T
  <2>1. f[0] = NoOverlay /\ after + 0 = after
    BY <1>1 DEF OverlayRun
  <2> QED BY <2>1, NoOverlayIs, ObjectsBegin
<1>3. ASSUME NEW n \in Nat, n \in T PROVE n + 1 \in T
  <2> SUFFICES ASSUME n + 1 <= Len(edits) PROVE Fit(n + 1)
    OBVIOUS
  <2> DEFINE o == f[n]
             p == f[n + 1]
             e == edits[n + 1]
             v == Objects(rows, o)
             w == Objects(rows, p)
  <2>1. n + 1 \in 1..Len(edits) /\ (n + 1) - 1 = n /\ EditFits(e)
    BY <1>1, EditOf
  <2>2. p = OverlayEdit(o, e, after + (n + 1))
    BY <2>1 DEF OverlayRun
  <2>3. OverlayFits(o) /\ ObjectsFit(v, after + n)
    BY <1>1, <1>3
  <2>4. after + n \in Nat /\ after + (n + 1) = (after + n) + 1
    BY <1>1
  <2> HIDE DEF o, p, e
  <2>5. OverlayFits(p) /\ w = ObjectsAfter(v, e, (after + n) + 1)
    BY <2>1, <2>2, <2>3, <2>4, OverlayFollows
  <2> HIDE DEF v, w
  <2>6. ObjectsFit(w, after + (n + 1))
    BY <2>1, <2>3, <2>4, <2>5, ObjectsKeep
  <2> QED BY <2>5, <2>6 DEF p, w
<1>4. Nat \subseteq T
  <2> HIDE DEF T
  <2> QED BY <1>2, <1>3, Induct
<1>5. ASSUME NEW i \in 0..Len(edits) PROVE Fit(i)
  <2>1. i \in T /\ i <= Len(edits)
    BY <1>1, <1>4
  <2> QED BY <2>1
<1> QED BY <1>5

DictShows(d, v) ==
    /\ DictFits(d, v)
    /\ DOMAIN d.rows = DOMAIN v
    /\ \A k \in DOMAIN v : d.rows[k] = v[k].vals

LEMMA ReplayBegins ==
    ASSUME NEW rows, RowsFit(rows), NEW d, DictHolds(d, rows, Len(rows)),
           NEW v, v = Objects(rows, NoOverlay), NEW n, ObjectsFit(v, n)
    PROVE  DictShows(d, v) /\ Len(d.order) = Len(rows)
<1>1. DOMAIN v = KeysIn(rows)
      /\ \A k \in KeysIn(rows) : v[k].ord = NumberOf(rows, k) /\ v[k].vals = rows[NumberOf(rows, k)].vals
  BY NoOverlayIs, ObjectsAre
<1>2. /\ DOMAIN d = {"order", "rows"}
      /\ d.order \in Seq(Keys) /\ Len(d.order) = Len(rows)
      /\ \A j \in 1..Len(rows) : d.order[j] = rows[j].key
      /\ DOMAIN d.rows = KeysIn(rows)
      /\ \A j \in 1..Len(rows) : d.rows[rows[j].key] = rows[j].vals
  BY DEF DictHolds, KeysIn
<1>3. {d.order[j] : j \in 1..Len(d.order)} = KeysIn(rows)
  BY <1>2 DEF KeysIn
<1>4. \A j \in 1..Len(rows) : v[d.order[j]].ord = j
  BY <1>1, <1>2, RowsAre
<1>5. \A i, j \in 1..Len(d.order) : i < j => v[d.order[i]].ord < v[d.order[j]].ord
  BY <1>2, <1>4
<1>6. \A k \in DOMAIN v : v[k].ord \in Int
  BY DEF ObjectsFit
<1>7. DictFits(d, v)
  BY <1>1, <1>2, <1>3, <1>5, <1>6 DEF DictFits
<1>8. ASSUME NEW k \in KeysIn(rows) PROVE d.rows[k] = v[k].vals
  <2>1. NumberOf(rows, k) \in 1..Len(rows) /\ rows[NumberOf(rows, k)].key = k
    BY RowsAre
  <2> QED BY <1>1, <1>2, <2>1
<1> QED BY <1>1, <1>2, <1>7, <1>8 DEF DictShows

LEMMA LiveIs ==
    ASSUME NEW rows, KeysIn(rows) \subseteq Keys, NEW o, OverlayFits(o)
    PROVE  Live(rows, o) = DOMAIN o.creates \cup (KeysIn(rows) \ GoneOf(o))
<1>1. ASSUME NEW x \in Keys, x \notin DOMAIN o.creates PROVE x \in GoneOf(o) <=> x \in o.deleted
  BY <1>1 DEF GoneOf, Gone, OverlayFits
<1> QED BY <1>1 DEF Live

LEMMA ReplayRunFits ==
    ASSUME NEW rows, NEW after, NEW edits, FoldFits(rows, after, edits),
           NEW f, OverlayRun(f, edits, after), NEW A, ColumnsIn(A),
           NEW b, DictShows(b, Objects(rows, NoOverlay)), Len(b.order) = Len(rows),
           NEW d, ReplayRun(d, b, A, edits, after)
    PROVE  \A i \in 0..Len(edits) :
              /\ ReplayFits(KeysIn(rows), A, Objects(rows, f[i]), DOMAIN f[i].creates, GoneOf(f[i]), d[i])
              /\ Len(d[i].order) <= Len(rows) + i
<1> DEFINE K == KeysIn(rows)
           Fit(i) == /\ ReplayFits(K, A, Objects(rows, f[i]), DOMAIN f[i].creates, GoneOf(f[i]), d[i])
                     /\ Len(d[i].order) <= Len(rows) + i
           T == {i \in Nat : i <= Len(edits) => Fit(i)}
<1>1. Len(edits) \in Nat /\ edits \in Seq(Edits) /\ after \in Nat
  BY DEF FoldFits
<1>2. RowsFit(rows) /\ Len(rows) \in Nat /\ K \subseteq Keys
  BY RowsAre DEF FoldFits
<1>3. 0 \in T
  <2> DEFINE v == Objects(rows, NoOverlay)
  <2>1. f[0] = NoOverlay /\ d[0] = b
    BY DEF OverlayRun, ReplayRun
  <2>2. GoneOf(NoOverlay) = {} /\ DOMAIN NoOverlay.creates = {} /\ DOMAIN v = K
    BY NoOverlayIs, ObjectsAre DEF GoneOf
  <2>3. DictFits(b, v) /\ DOMAIN b.rows = DOMAIN v /\ \A k \in DOMAIN v : b.rows[k] = v[k].vals
    BY DEF DictShows
  <2>4. ObjectsFit(v, after)
    BY ObjectsBegin
  <2> HIDE DEF v, K
  <2>5. ReplayKeys(K, A, v, {}, b)
    BY <2>2, <2>3 DEF ReplayKeys
  <2>6. ReplayRows(A, v, {}, b)
    BY <2>3, <2>4, ValsAre DEF ReplayRows, RowAgrees
  <2>7. Fit(0)
    BY <1>2, <2>1, <2>2, <2>3, <2>5, <2>6 DEF ReplayFits, v
  <2> QED BY <2>7
<1>4. ASSUME NEW n \in Nat, n \in T PROVE n + 1 \in T
  <2> SUFFICES ASSUME n + 1 <= Len(edits) PROVE Fit(n + 1)
    OBVIOUS
  <2> DEFINE o == f[n]
             p == f[n + 1]
             e == edits[n + 1]
             v == Objects(rows, o)
             w == Objects(rows, p)
             c == d[n]
             g == d[n + 1]
             m == after + n
  <2>1. n + 1 \in 1..Len(edits) /\ (n + 1) - 1 = n /\ EditFits(e)
    BY <1>1, EditOf
  <2>2. m \in Nat /\ after + (n + 1) = m + 1
    BY <1>1
  <2>3. p = OverlayEdit(o, e, m + 1) /\ g = ReplayEdit(A, c, e, m + 1)
    BY <2>1, <2>2 DEF OverlayRun, ReplayRun
  <2>4. OverlayFits(o) /\ ObjectsFit(v, m)
    BY <1>1, RunFits
  <2>5. ReplayFits(K, A, v, DOMAIN o.creates, GoneOf(o), c) /\ Len(c.order) <= Len(rows) + n
    BY <1>1, <1>4
  <2> HIDE DEF e, m, c, g
  <2>6. /\ OverlayFits(p) /\ w = ObjectsAfter(v, e, m + 1)
        /\ DOMAIN p.creates = CreatedAfter(DOMAIN o.creates, e)
        /\ \A x : Gone(p, x) <=> Gone(o, x) \/ (e.kind = "delete" /\ x = e.key)
    <3> HIDE DEF o, p
    <3> QED BY <2>1, <2>3, <2>4, OverlayFollows
  <2>7. GoneOf(p) = GoneAfter(GoneOf(o), e)
    <3> HIDE DEF o, p
    <3>1. e.key \in Keys
      BY <2>1 DEF EditFits
    <3> QED BY <2>6, <3>1 DEF GoneOf, GoneAfter
  <2>8. DOMAIN v = DOMAIN o.creates \cup (K \ GoneOf(o))
    <3> HIDE DEF o, p
    <3> QED BY <1>2, <2>4, LiveIs, ObjectsAre
  <2> HIDE DEF o, p, v, w, K
  <2>9. ReplayFits(K, A, w, DOMAIN p.creates, GoneOf(p), g) /\ Len(g.order) <= Len(c.order) + 1
    <3> DEFINE C == DOMAIN o.creates
               D == DOMAIN p.creates
               G == GoneOf(o)
               H == GoneOf(p)
    <3>1. D = CreatedAfter(C, e) /\ H = GoneAfter(G, e) /\ DOMAIN v = C \cup (K \ G)
      BY <2>6, <2>7, <2>8
    <3>2. ReplayFits(K, A, v, C, G, c) /\ w = ObjectsAfter(v, e, m + 1)
      BY <2>5, <2>6
    <3> HIDE DEF C, D, G, H
    <3>3. ReplayFits(K, A, w, CreatedAfter(C, e), GoneAfter(G, e), g) /\ Len(g.order) <= Len(c.order) + 1
      <4>1. CanReplay(K, A, v, C, G, c, e, m)
        BY <2>1, <2>2, <2>4, <3>1, <3>2 DEF CanReplay
      <4>2. g = ReplayEdit(A, c, e, m + 1)
        BY <2>3
      <4> QED BY <3>2, <4>1, <4>2, ReplayFollows
    <3>4. ReplayFits(K, A, w, D, H, g) /\ Len(g.order) <= Len(c.order) + 1
      BY <3>1, <3>3
    <3> QED BY <3>4 DEF D, H
  <2>10. Len(c.order) \in Nat /\ Len(g.order) \in Nat
    BY <2>5, <2>9 DEF ReplayFits, DictFits
  <2>11. Len(g.order) <= Len(rows) + (n + 1)
    BY <1>2, <2>5, <2>9, <2>10
  <2> QED BY <2>9, <2>11 DEF o, p, v, w, c, g
<1>5. Nat \subseteq T
  <2> HIDE DEF T
  <2> QED BY <1>3, <1>4, Induct
<1>6. ASSUME NEW i \in 0..Len(edits) PROVE Fit(i)
  <2>1. i \in T /\ i <= Len(edits)
    BY <1>1, <1>5
  <2> QED BY <2>1
<1> QED BY <1>6

\* In the end the replay shows the objects.
LEMMA ReplayEnds ==
    ASSUME NEW rows, NEW o, OverlayFits(o), NEW v, v = Objects(rows, o), NEW n, ObjectsFit(v, n),
           KeysIn(rows) \subseteq Keys,
           NEW d, ReplayFits(KeysIn(rows), o.creates, v, DOMAIN o.creates, GoneOf(o), d)
    PROVE  DictShows(d, v)
<1> DEFINE A == o.creates
           K == KeysIn(rows)
           G == GoneOf(o)
<1>1. DictFits(d, v) /\ ReplayKeys(K, A, v, G, d) /\ ReplayRows(A, v, DOMAIN A, d)
  BY DEF ReplayFits
<1>2. DOMAIN v = DOMAIN A \cup (K \ G)
  BY LiveIs, ObjectsAre
<1>3. DOMAIN v \subseteq Keys /\ DOMAIN d.rows \subseteq DOMAIN v
  BY <1>1 DEF ObjectsFit, DictFits
<1>4. \A k \in DOMAIN A : v[k].vals = Over(A[k], Pad)
  BY <1>2, ObjectsAre DEF ValsOf
<1>5. \A k \in DOMAIN A : DOMAIN A[k] \subseteq Cols
  BY DEF OverlayFits
<1> HIDE DEF A, K, G
<1>6. DOMAIN d.rows = DOMAIN v
  BY <1>1, <1>2, <1>3 DEF ReplayKeys
<1>7. ASSUME NEW k \in DOMAIN v PROVE d.rows[k] = v[k].vals
  <2> DEFINE row == d.rows[k]
             vals == v[k].vals
  <2>1. RowAgrees(A, k, row, vals)
    BY <1>1, <1>6 DEF ReplayRows
  <2>2. vals = [x \in Cols |-> vals[x]]
    BY ValsAre
  <2>3. k \in DOMAIN A => vals = Over(A[k], Pad)
    BY <1>4
  <2> HIDE DEF row, vals
  <2>4. row = [x \in Cols |-> row[x]]
    BY <2>1 DEF RowAgrees
  <2>5. ASSUME NEW x \in Cols PROVE row[x] = vals[x]
    <3>1. row[x] = vals[x] \/ (k \in DOMAIN A /\ x \in DOMAIN A[k] /\ row[x] = A[k][x])
      BY <2>1 DEF RowAgrees
    <3>2. (k \in DOMAIN A /\ x \in DOMAIN A[k]) => vals[x] = A[k][x]
      BY <2>3 DEF Over
    <3> QED BY <3>1, <3>2
  <2>6. row = vals
    BY <2>2, <2>4, <2>5
  <2> QED BY <2>6 DEF row, vals
<1> QED BY <1>1, <1>6, <1>7 DEF DictShows

-----------------------------------------------------------------------------
(* ORDER BY has one answer when the ordinals differ. *)
IsSorted(S, n, q) ==
    /\ q \in [1..n -> S] /\ {q[i] : i \in 1..n} = S
    /\ \A i, j \in 1..n : i < j => q[i].ord < q[j].ord

LEMMA SortedOnce ==
    ASSUME NEW S, \A x \in S : x.ord \in Int, NEW n \in Nat, NEW q, IsSorted(S, n, q), NEW r, IsSorted(S, n, r)
    PROVE  r = q
<1> DEFINE T == {i \in 1..n : r[i] # q[i]}
<1>1. ASSUME T # {} PROVE FALSE
  <2>1. T \subseteq Nat
    OBVIOUS
  <2>2. PICK i \in T : \A j \in T : i <= j
    BY <1>1, <2>1, LeastMember
  <2>3. i \in 1..n /\ r[i] # q[i] /\ \A j \in 1..n : j < i => r[j] = q[j]
    BY <2>2
  <2> HIDE DEF T
  <2>4. q[i] \in S /\ r[i] \in S
    BY <2>3 DEF IsSorted
  <2>5. PICK a \in 1..n : q[a] = r[i]
    BY <2>4 DEF IsSorted
  <2>6. PICK b \in 1..n : r[b] = q[i]
    BY <2>4 DEF IsSorted
  <2>7. q[i].ord \in Int /\ r[i].ord \in Int
    BY <2>4
  <2>8. a > i
    <3>1. a # i
      BY <2>3, <2>5
    <3>2. ASSUME a < i PROVE FALSE
      <4>1. r[a] = r[i]
        BY <2>3, <2>5, <3>2
      <4>2. r[a].ord < r[i].ord
        BY <2>3, <3>2 DEF IsSorted
      <4> QED BY <2>7, <4>1, <4>2
    <3> QED BY <2>3, <3>1, <3>2
  <2>9. b > i
    <3>1. b # i
      BY <2>3, <2>6
    <3>2. ASSUME b < i PROVE FALSE
      <4>1. q[b] = q[i]
        BY <2>3, <2>6, <3>2
      <4>2. q[b].ord < q[i].ord
        BY <2>3, <3>2 DEF IsSorted
      <4> QED BY <2>7, <4>1, <4>2
    <3> QED BY <2>3, <3>1, <3>2
  <2>10. q[i].ord < r[i].ord
    BY <2>3, <2>5, <2>8 DEF IsSorted
  <2>11. r[i].ord < q[i].ord
    BY <2>3, <2>6, <2>9 DEF IsSorted
  <2> QED BY <2>7, <2>10, <2>11
<1>2. \A i \in 1..n : r[i] = q[i]
  BY <1>1
<1>3. q = [i \in 1..n |-> q[i]] /\ r = [i \in 1..n |-> r[i]]
  BY DEF IsSorted
<1> QED BY <1>2, <1>3

LEMMA ByOrdIs ==
    ASSUME NEW S, \A x \in S : x.ord \in Int, NEW n \in Nat, NEW q, IsSorted(S, n, q)
    PROVE  ByOrd(S) = q
<1>1. \A i, j \in 1..n : i < j => q[i].ord < q[j].ord
  BY DEF IsSorted
<1>2. q \in [1..n -> S] /\ \A x \in S : \E i \in 1..n : q[i] = x
  BY DEF IsSorted
<1>3. \A i, j \in 1..n : q[i] = q[j] => i = j
  <2> SUFFICES ASSUME NEW i \in 1..n, NEW j \in 1..n, q[i] = q[j], i < j PROVE FALSE
    OBVIOUS
  <2>1. q[i] \in S /\ q[i].ord \in Int
    BY <1>2
  <2> QED BY <1>1, <2>1
<1>4. q \in Bijection(1..n, S)
  BY <1>2, <1>3 DEF Bijection, Injection, Surjection, IsInjective
<1>5. Cardinality(S) = n
  BY <1>4, FS_CountingElements DEF ExistsBijection
<1> DEFINE P(list) == /\ {list[i] : i \in DOMAIN list} = S
                      /\ \A i, j \in DOMAIN list : i < j => list[i].ord < list[j].ord
           r == CHOOSE list \in [1..n -> S] : P(list)
<1>6. ByOrd(S) = r
  BY <1>5 DEF ByOrd
<1>7. \A list \in [1..n -> S] : P(list) <=> IsSorted(S, n, list)
  <2> SUFFICES ASSUME NEW list \in [1..n -> S] PROVE P(list) <=> IsSorted(S, n, list)
    OBVIOUS
  <2>1. DOMAIN list = 1..n
    OBVIOUS
  <2> QED BY <2>1 DEF IsSorted
<1>8. P(q)
  BY <1>2, <1>7
<1> HIDE DEF P
<1>9. r \in [1..n -> S] /\ P(r)
  BY <1>2, <1>8
<1>10. IsSorted(S, n, r)
  BY <1>7, <1>9
<1> HIDE DEF r
<1>11. r = q
  BY <1>10, SortedOnce
<1> QED BY <1>6, <1>11

\* A dict that lists its keys by the ordinals gives the sorted page.
LEMMA PageIs ==
    ASSUME NEW v, NEW d, DictShows(d, v), NEW F,
           DOMAIN F = DOMAIN v, \A k \in DOMAIN v : F[k].ord = v[k].ord,
           NEW S, S = {F[k] : k \in DOMAIN v}
    PROVE  ByOrd(S) = [i \in 1..Len(d.order) |-> F[d.order[i]]]
<1> DEFINE n == Len(d.order)
           q == [i \in 1..n |-> F[d.order[i]]]
<1>1. /\ n \in Nat /\ {d.order[i] : i \in 1..n} = DOMAIN v
      /\ \A k \in DOMAIN v : v[k].ord \in Int
      /\ \A i, j \in 1..n : i < j => v[d.order[i]].ord < v[d.order[j]].ord
  <2>1. DictFits(d, v) /\ DOMAIN d.rows = DOMAIN v
    BY DEF DictShows
  <2>2. n \in Nat
    BY <2>1 DEF DictFits
  <2>3. {d.order[i] : i \in 1..n} = DOMAIN v
    BY <2>1 DEF DictFits
  <2>4. \A k \in DOMAIN v : v[k].ord \in Int
    BY <2>1 DEF DictFits
  <2>5. \A i, j \in 1..n : i < j => v[d.order[i]].ord < v[d.order[j]].ord
    BY <2>1 DEF DictFits
  <2> QED BY <2>2, <2>3, <2>4, <2>5
<1>2. \A i \in 1..n : d.order[i] \in DOMAIN v /\ q[i] = F[d.order[i]]
  BY <1>1
<1>3. \A x \in S : x.ord \in Int
  BY <1>1
<1>4. q \in [1..n -> S]
  BY <1>2
<1>5. \A x \in S : \E i \in 1..n : q[i] = x
  <2> SUFFICES ASSUME NEW k \in DOMAIN v PROVE \E i \in 1..n : q[i] = F[k]
    OBVIOUS
  <2>1. PICK i \in 1..n : d.order[i] = k
    BY <1>1
  <2> QED BY <1>2, <2>1
<1> HIDE DEF q
<1>6. \A i, j \in 1..n : i < j => q[i].ord < q[j].ord
  <2>1. \A i \in 1..n : q[i].ord = v[d.order[i]].ord
    BY <1>2
  <2> QED BY <1>1, <2>1
<1>7. IsSorted(S, n, q)
  BY <1>4, <1>5, <1>6 DEF IsSorted
<1>8. ByOrd(S) = q
  BY <1>1, <1>3, <1>7, ByOrdIs
<1> QED BY <1>8 DEF q

-----------------------------------------------------------------------------
(* The numbering of a rebuild, and the index that the edits keep. *)
Entry(ord, at, vals) == [ord |-> ord, at |-> at, vals |-> vals]

LastAt(at, k) == IF k \in DOMAIN at THEN at[k] ELSE 0

IndexOf(v, at) == [k \in DOMAIN v |-> Entry(v[k].ord, LastAt(at, k), v[k].vals)]

OrdinalsFit(h, v) ==
    /\ DOMAIN h = {"ord", "at"}
    /\ DOMAIN h.ord = DOMAIN v
    /\ \A k \in DOMAIN v : h.ord[k] = v[k].ord

LEMMA EntryIs ==
    \A o, a, x : Entry(o, a, x).ord = o /\ Entry(o, a, x).at = a /\ Entry(o, a, x).vals = x
BY DEF Entry

LEMMA OrdinalsFollow ==
    ASSUME NEW v, NEW h, OrdinalsFit(h, v), NEW e, EditFits(e), NEW n,
           NEW w, w = ObjectsAfter(v, e, n), NEW g, g = OrdinalEdit(h, e, n)
    PROVE  OrdinalsFit(g, w)
<1> DEFINE k == e.key
<1>1. CASE e.kind = "create"
  <2> DEFINE ord == IF k \in DOMAIN v THEN v[k].ord ELSE CreatedOrd(n)
             new == Shown(ord, Over(Payload(e, n), Pad))
  <2>1. w = With(v, k, new)
    BY <1>1 DEF ObjectsAfter
  <2>2. g = [ord |-> SetDefault(h.ord, k, CreatedOrd(n)), at |-> With(h.at, k, n)]
    BY <1>1 DEF OrdinalEdit
  <2>3. new.ord = ord
    BY ShownIs
  <2> HIDE DEF new, k
  <2>4. DOMAIN w = DOMAIN v \cup {k} /\ w[k] = new /\ \A x \in DOMAIN v : x # k => w[x] = v[x]
    BY <2>1 DEF With
  <2>5. g.ord = SetDefault(h.ord, k, CreatedOrd(n)) /\ DOMAIN g = {"ord", "at"}
    BY <2>2
  <2>6. DOMAIN h.ord = DOMAIN v /\ \A x \in DOMAIN v : h.ord[x] = v[x].ord
    BY DEF OrdinalsFit
  <2>7. DOMAIN g.ord = DOMAIN v \cup {k} /\ g.ord[k] = ord /\ \A x \in DOMAIN v : g.ord[x] = v[x].ord
    <3>1. CASE k \in DOMAIN v
      BY <2>5, <2>6, <3>1 DEF SetDefault
    <3>2. CASE k \notin DOMAIN v
      BY <2>5, <2>6, <3>2 DEF SetDefault, With
    <3> QED BY <3>1, <3>2
  <2> QED BY <2>3, <2>4, <2>5, <2>7 DEF OrdinalsFit
<1>2. CASE e.kind = "update"
  <2> DEFINE new == Shown(v[k].ord, Over(Payload(e, n), v[k].vals))
  <2>1. w = IF k \notin DOMAIN v THEN v ELSE With(v, k, new)
    BY <1>2 DEF ObjectsAfter
  <2>2. g = [h EXCEPT !.at = With(h.at, k, n)]
    BY <1>2 DEF OrdinalEdit
  <2>3. g.ord = h.ord /\ DOMAIN g = {"ord", "at"}
    BY <2>2 DEF OrdinalsFit
  <2>4. new.ord = v[k].ord
    BY ShownIs
  <2> HIDE DEF new, k
  <2>5. DOMAIN w = DOMAIN v /\ \A x \in DOMAIN v : w[x].ord = v[x].ord
    <3>1. CASE k \notin DOMAIN v
      BY <2>1, <3>1
    <3>2. CASE k \in DOMAIN v
      <4>1. w = [x \in DOMAIN v \cup {k} |-> IF x = k THEN new ELSE v[x]]
        BY <2>1, <3>2 DEF With
      <4> QED BY <2>4, <3>2, <4>1
    <3> QED BY <3>1, <3>2
  <2> QED BY <2>3, <2>5 DEF OrdinalsFit
<1>3. CASE e.kind = "delete"
  <2>1. w = Without(v, k)
    BY <1>3 DEF ObjectsAfter
  <2>2. g = [ord |-> Without(h.ord, k), at |-> Without(h.at, k)]
    BY <1>3 DEF OrdinalEdit
  <2> HIDE DEF k
  <2>3. g.ord = Without(h.ord, k) /\ DOMAIN g = {"ord", "at"}
    BY <2>2
  <2> QED BY <2>1, <2>3 DEF OrdinalsFit, Without
<1> QED BY <1>1, <1>2, <1>3 DEF EditFits

LEMMA IndexFollows ==
    ASSUME NEW v, NEW h, OrdinalsFit(h, v), index = IndexOf(v, h.at),
           NEW e, EditFits(e), NEW n,
           NEW w, w = ObjectsAfter(v, e, n), NEW g, g = OrdinalEdit(h, e, n)
    PROVE  Incremented(e, n) = IndexOf(w, g.at)
<1> DEFINE k == e.key
           at == h.at
<1>1. DOMAIN index = DOMAIN v
      /\ \A x \in DOMAIN v : index[x] = Entry(v[x].ord, LastAt(at, x), v[x].vals)
  BY DEF IndexOf
<1>2. \A x \in DOMAIN v : index[x].ord = v[x].ord /\ index[x].vals = v[x].vals
  BY <1>1, EntryIs
<1>3. CASE e.kind = "create"
  <2> DEFINE ord == IF k \in DOMAIN v THEN v[k].ord ELSE CreatedOrd(n)
             vals == Over(Payload(e, n), Pad)
             new == Shown(ord, vals)
  <2>1. w = With(v, k, new)
    BY <1>3 DEF ObjectsAfter
  <2>2. g.at = With(at, k, n)
    BY <1>3 DEF OrdinalEdit
  <2>3. Ordinal(k, n) = ord
    BY <1>1, <1>2 DEF Ordinal
  <2>4. Incremented(e, n) = With(index, k, Entry(ord, n, vals))
    BY <1>3, <2>3 DEF Incremented, Entry
  <2>5. new.ord = ord /\ new.vals = vals
    BY ShownIs
  <2> HIDE DEF ord, vals, new, k, at
  <2>6. DOMAIN w = DOMAIN v \cup {k} /\ w[k] = new /\ \A x \in DOMAIN v : x # k => w[x] = v[x]
    BY <2>1 DEF With
  <2>7. LastAt(g.at, k) = n /\ \A x : x # k => LastAt(g.at, x) = LastAt(at, x)
    BY <2>2 DEF LastAt, With
  <2>8. \A x \in DOMAIN w : Entry(w[x].ord, LastAt(g.at, x), w[x].vals)
                               = IF x = k THEN Entry(ord, n, vals) ELSE index[x]
    BY <1>1, <2>5, <2>6, <2>7
  <2>9. IndexOf(w, g.at) = [x \in DOMAIN w |-> IF x = k THEN Entry(ord, n, vals) ELSE index[x]]
    BY <2>8 DEF IndexOf
  <2>10. With(index, k, Entry(ord, n, vals)) = [x \in DOMAIN w |-> IF x = k THEN Entry(ord, n, vals) ELSE index[x]]
    BY <1>1, <2>6 DEF With
  <2> QED BY <2>4, <2>9, <2>10
<1>4. CASE e.kind = "update"
  <2> DEFINE vals == Over(Payload(e, n), v[k].vals)
             new == Shown(v[k].ord, vals)
  <2>1. w = IF k \notin DOMAIN v THEN v ELSE With(v, k, new)
    BY <1>4 DEF ObjectsAfter
  <2>2. g.at = With(at, k, n)
    BY <1>4 DEF OrdinalEdit, OrdinalsFit
  <2>3. new.ord = v[k].ord /\ new.vals = vals
    BY ShownIs
  <2>4. LastAt(g.at, k) = n /\ \A x : x # k => LastAt(g.at, x) = LastAt(at, x)
    <3> HIDE DEF k, at
    <3> QED BY <2>2 DEF LastAt, With
  <2>5. CASE k \notin DOMAIN v
    <3>1. Incremented(e, n) = index /\ w = v
      BY <1>1, <1>4, <2>1, <2>5 DEF Incremented
    <3>2. \A x \in DOMAIN v : Entry(v[x].ord, LastAt(g.at, x), v[x].vals) = Entry(v[x].ord, LastAt(at, x), v[x].vals)
      BY <2>4, <2>5
    <3>3. IndexOf(v, g.at) = IndexOf(v, at)
      BY <3>2 DEF IndexOf
    <3> QED BY <3>1, <3>3
  <2>6. CASE k \in DOMAIN v
    <3> DEFINE entry == Entry(v[k].ord, n, vals)
               old == index[k]
    <3>1. old.ord = v[k].ord /\ old.vals = v[k].vals
      BY <1>2, <2>6
    <3>2. [ord |-> old.ord, at |-> n, vals |-> vals] = entry
      BY <3>1 DEF Entry
    <3>3. Over(Payload(e, n), old.vals) = vals
      BY <1>2, <2>6
    <3>4. Incremented(e, n) = With(index, k, [ord |-> old.ord, at |-> n, vals |-> Over(Payload(e, n), old.vals)])
      BY <1>1, <1>4, <2>6 DEF Incremented
    <3>5. Incremented(e, n) = With(index, k, entry)
      BY <3>2, <3>3, <3>4
    <3> HIDE DEF entry, old, new, vals, k, at
    <3>6. w = [x \in DOMAIN v \cup {k} |-> IF x = k THEN new ELSE v[x]]
      BY <2>1, <2>6 DEF With
    <3>7. DOMAIN w = DOMAIN v /\ w[k] = new /\ \A x \in DOMAIN v : x # k => w[x] = v[x]
      BY <2>6, <3>6
    <3>8. \A x \in DOMAIN w : Entry(w[x].ord, LastAt(g.at, x), w[x].vals) = IF x = k THEN entry ELSE index[x]
      BY <1>1, <2>3, <2>4, <2>6, <3>7 DEF entry
    <3>9. IndexOf(w, g.at) = [x \in DOMAIN v |-> IF x = k THEN entry ELSE index[x]]
      BY <3>7, <3>8 DEF IndexOf
    <3>10. DOMAIN index \cup {k} = DOMAIN v
      BY <1>1, <2>6
    <3>11. With(index, k, entry) = [x \in DOMAIN v |-> IF x = k THEN entry ELSE index[x]]
      BY <3>10 DEF With
    <3> QED BY <3>5, <3>9, <3>11
  <2> QED BY <2>5, <2>6
<1>5. CASE e.kind = "delete"
  <2>1. w = Without(v, k) /\ Incremented(e, n) = Without(index, k)
    BY <1>5 DEF ObjectsAfter, Incremented
  <2>2. g.at = Without(at, k)
    BY <1>5 DEF OrdinalEdit
  <2> HIDE DEF k, at
  <2>3. DOMAIN w = DOMAIN v \ {k} /\ \A x \in DOMAIN w : w[x] = v[x]
    BY <2>1 DEF Without
  <2>4. \A x \in DOMAIN w : LastAt(g.at, x) = LastAt(at, x)
    BY <2>2, <2>3 DEF LastAt, Without
  <2>5. \A x \in DOMAIN w : Entry(w[x].ord, LastAt(g.at, x), w[x].vals) = index[x]
    BY <1>1, <2>3, <2>4
  <2>6. IndexOf(w, g.at) = [x \in DOMAIN w |-> index[x]]
    BY <2>5 DEF IndexOf
  <2>7. Without(index, k) = [x \in DOMAIN w |-> index[x]]
    BY <1>1, <2>3 DEF Without
  <2> QED BY <2>1, <2>6, <2>7
<1> QED BY <1>3, <1>4, <1>5 DEF EditFits

-----------------------------------------------------------------------------
(* Runs over the same edits are the same, so what holds of one does of all. *)
LEMMA OverlayRunOnce ==
    ASSUME NEW edits, Len(edits) \in Nat, NEW after, NEW f, OverlayRun(f, edits, after),
           NEW g, OverlayRun(g, edits, after)
    PROVE  f[Len(edits)] = g[Len(edits)]
<1> DEFINE T == {i \in Nat : i <= Len(edits) => f[i] = g[i]}
<1>1. 0 \in T
  BY DEF OverlayRun
<1>2. ASSUME NEW n \in Nat, n \in T PROVE n + 1 \in T
  <2> SUFFICES ASSUME n + 1 <= Len(edits) PROVE f[n + 1] = g[n + 1]
    OBVIOUS
  <2>1. n + 1 \in 1..Len(edits) /\ (n + 1) - 1 = n /\ f[n] = g[n]
    BY <1>2
  <2> QED BY <2>1 DEF OverlayRun
<1>3. Len(edits) \in T
  <2> HIDE DEF T
  <2> QED BY <1>1, <1>2, Induct
<1> QED BY <1>3

LEMMA OrdinalRunOnce ==
    ASSUME NEW edits, Len(edits) \in Nat, NEW after, NEW start, NEW f, OrdinalRun(f, start, edits, after),
           NEW g, OrdinalRun(g, start, edits, after)
    PROVE  f[Len(edits)] = g[Len(edits)]
<1> DEFINE T == {i \in Nat : i <= Len(edits) => f[i] = g[i]}
<1>1. 0 \in T
  BY DEF OrdinalRun
<1>2. ASSUME NEW n \in Nat, n \in T PROVE n + 1 \in T
  <2> SUFFICES ASSUME n + 1 <= Len(edits) PROVE f[n + 1] = g[n + 1]
    OBVIOUS
  <2>1. n + 1 \in 1..Len(edits) /\ (n + 1) - 1 = n /\ f[n] = g[n]
    BY <1>2
  <2> QED BY <2>1 DEF OrdinalRun
<1>3. Len(edits) \in T
  <2> HIDE DEF T
  <2> QED BY <1>1, <1>2, Induct
<1> QED BY <1>3

OrdinalsOf(rows) == [k \in KeysIn(rows) |-> NumberOf(rows, k)]

LEMMA OrdinalsBegin ==
    ASSUME NEW rows
    PROVE  OrdinalsFit([ord |-> OrdinalsOf(rows), at |-> NoDict], Objects(rows, NoOverlay))
<1> DEFINE v == Objects(rows, NoOverlay)
           h == [ord |-> OrdinalsOf(rows), at |-> NoDict]
<1>1. DOMAIN v = KeysIn(rows) /\ \A k \in KeysIn(rows) : v[k].ord = NumberOf(rows, k)
  BY NoOverlayIs, ObjectsAre
<1>2. DOMAIN h = {"ord", "at"} /\ h.ord = OrdinalsOf(rows)
  OBVIOUS
<1> HIDE DEF v, h
<1>3. OrdinalsFit(h, v)
  BY <1>1, <1>2 DEF OrdinalsFit, OrdinalsOf
<1> QED BY <1>3 DEF v, h

LEMMA OrdinalRunFits ==
    ASSUME NEW rows, NEW after, NEW edits, FoldFits(rows, after, edits),
           NEW f, OverlayRun(f, edits, after), NEW h, OrdinalRun(h, OrdinalsOf(rows), edits, after)
    PROVE  OrdinalsFit(h[Len(edits)], Objects(rows, f[Len(edits)]))
<1> DEFINE Fit(i) == OrdinalsFit(h[i], Objects(rows, f[i]))
           T == {i \in Nat : i <= Len(edits) => Fit(i)}
<1>1. Len(edits) \in Nat /\ edits \in Seq(Edits) /\ after \in Nat
  BY DEF FoldFits
<1>2. 0 \in T
  <2>1. f[0] = NoOverlay /\ h[0] = [ord |-> OrdinalsOf(rows), at |-> NoDict]
    BY DEF OverlayRun, OrdinalRun
  <2>2. Fit(0)
    BY <2>1, OrdinalsBegin
  <2> QED BY <2>2
<1>3. ASSUME NEW n \in Nat, n \in T PROVE n + 1 \in T
  <2> SUFFICES ASSUME n + 1 <= Len(edits) PROVE Fit(n + 1)
    OBVIOUS
  <2> DEFINE o == f[n]
             p == f[n + 1]
             e == edits[n + 1]
             v == Objects(rows, o)
             w == Objects(rows, p)
             c == h[n]
             g == h[n + 1]
             m == after + (n + 1)
  <2>1. n + 1 \in 1..Len(edits) /\ (n + 1) - 1 = n /\ EditFits(e)
    BY <1>1, EditOf
  <2>2. p = OverlayEdit(o, e, m) /\ g = OrdinalEdit(c, e, m)
    BY <2>1 DEF OverlayRun, OrdinalRun
  <2>3. OverlayFits(o)
    BY <1>1, RunFits
  <2>4. OrdinalsFit(c, v)
    BY <1>1, <1>3
  <2> HIDE DEF o, p, e, c, g, m
  <2>5. w = ObjectsAfter(v, e, m)
    BY <2>1, <2>2, <2>3, OverlayFollows
  <2> HIDE DEF v, w
  <2>6. OrdinalsFit(g, w)
    BY <2>1, <2>2, <2>4, <2>5, OrdinalsFollow
  <2> QED BY <2>6 DEF g, w, p
<1>4. Len(edits) \in T
  <2> HIDE DEF T
  <2> QED BY <1>1, <1>2, <1>3, Induct
<1> QED BY <1>4

\* The keys that are gone are those with a delete among the live edits.
DeletedBy(edits, i, x) == \E j \in 1..i : edits[j].kind = "delete" /\ edits[j].key = x

LEMMA GoneIs ==
    ASSUME NEW rows, NEW after, NEW edits, FoldFits(rows, after, edits), NEW f, OverlayRun(f, edits, after)
    PROVE  \A x : Gone(f[Len(edits)], x) <=> DeletedBy(edits, Len(edits), x)
<1> DEFINE Fit(i) == \A x : Gone(f[i], x) <=> DeletedBy(edits, i, x)
           T == {i \in Nat : i <= Len(edits) => Fit(i)}
<1>1. Len(edits) \in Nat /\ edits \in Seq(Edits) /\ after \in Nat
  BY DEF FoldFits
<1>2. 0 \in T
  <2>1. f[0] = NoOverlay
    BY DEF OverlayRun
  <2>2. Fit(0)
    BY <2>1, NoOverlayIs DEF DeletedBy
  <2> QED BY <2>2
<1>3. ASSUME NEW n \in Nat, n \in T PROVE n + 1 \in T
  <2> SUFFICES ASSUME n + 1 <= Len(edits) PROVE Fit(n + 1)
    OBVIOUS
  <2> DEFINE o == f[n]
             p == f[n + 1]
             e == edits[n + 1]
  <2>1. n + 1 \in 1..Len(edits) /\ (n + 1) - 1 = n /\ EditFits(e)
    BY <1>1, EditOf
  <2>2. p = OverlayEdit(o, e, after + (n + 1))
    BY <2>1 DEF OverlayRun
  <2>3. OverlayFits(o) /\ \A x : Gone(o, x) <=> DeletedBy(edits, n, x)
    BY <1>1, <1>3, RunFits
  <2>4. \A x : Gone(p, x) <=> Gone(o, x) \/ (e.kind = "delete" /\ x = e.key)
    <3>1. OverlayFits(o)
      BY <2>3
    <3>2. EditFits(e)
      BY <2>1
    <3> DEFINE m == after + (n + 1)
    <3>3. p = OverlayEdit(o, e, m)
      BY <2>2
    <3> HIDE DEF o, p, e, m
    <3> QED BY <3>1, <3>2, <3>3, OverlayFollows
  <2>5. 1..(n + 1) = (1..n) \cup {n + 1}
    OBVIOUS
  <2>6. \A x : DeletedBy(edits, n + 1, x) <=> DeletedBy(edits, n, x) \/ (e.kind = "delete" /\ x = e.key)
    BY <2>5 DEF DeletedBy
  <2> QED BY <2>3, <2>4, <2>6
<1>4. Len(edits) \in T
  <2> HIDE DEF T
  <2> QED BY <1>1, <1>2, <1>3, Induct
<1> QED BY <1>4

-----------------------------------------------------------------------------
(* What the pushdown returns. *)
RestOf(rows, o, k) ==
    IF k \in KeysIn(rows) /\ ~Gone(o, k) THEN rows[NumberOf(rows, k)].rest ELSE Null

Line(k, vals, rest, ord) == [key |-> k, vals |-> vals, rest |-> rest, ord |-> ord]

PageRow(rows, o, k) == Line(k, ValsOf(rows, o, k), RestOf(rows, o, k), OrdOf(rows, o, k))

LEMMA LineIs ==
    \A k, vals, rest, ord : LET l == Line(k, vals, rest, ord) IN
        l.key = k /\ l.vals = vals /\ l.rest = rest /\ l.ord = ord
BY DEF Line

LEMMA BaseIs ==
    ASSUME base \in Seq([key : Keys, vals : [Cols -> Int], rest : Int])
    PROVE  BaseKeys = KeysIn(base) /\ (\A k : LastRow(k) = NumberOf(base, k)) /\ BaseOrdinals = OrdinalsOf(base)
<1>1. DOMAIN base = 1..Len(base)
  OBVIOUS
<1>2. BaseKeys = KeysIn(base) /\ \A k : LastRow(k) = NumberOf(base, k)
  BY <1>1 DEF BaseKeys, KeysIn, LastRow, NumberOf
<1> QED BY <1>2 DEF BaseOrdinals, OrdinalsOf

LEMMA MergedIs ==
    ASSUME RowsFit(base), NEW o, OverlayFits(o)
    PROVE  /\ DOMAIN Merged(o) = KeysIn(base) \ o.deleted
           /\ \A k \in DOMAIN Merged(o) : /\ Merged(o)[k].rest = base[NumberOf(base, k)].rest
                                          /\ Merged(o)[k].ord = NumberOf(base, k)
           /\ \A k \in DOMAIN Merged(o) \ DOMAIN o.creates : Merged(o)[k] = PageRow(base, o, k)
<1>1. BaseKeys = KeysIn(base) /\ \A k : LastRow(k) = NumberOf(base, k)
  BY BaseIs DEF RowsFit
<1> DEFINE F(k) ==
        LET i == NumberOf(base, k) IN
        [key |-> k, ord |-> i, rest |-> base[i].rest,
         vals |-> IF k \in DOMAIN o.updates THEN Merge(o.updates[k], base[i].vals) ELSE base[i].vals]
<1>2. Merged(o) = [k \in KeysIn(base) \ o.deleted |-> F(k)]
  BY <1>1 DEF Merged
<1>3. \A k : F(k).rest = base[NumberOf(base, k)].rest /\ F(k).ord = NumberOf(base, k)
  OBVIOUS
<1>4. ASSUME NEW k \in KeysIn(base) \ o.deleted, k \notin DOMAIN o.creates
      PROVE  F(k) = PageRow(base, o, k)
  <2> DEFINE i == NumberOf(base, k)
             vals == IF k \in DOMAIN o.updates THEN Merge(o.updates[k], base[i].vals) ELSE base[i].vals
             rest == base[i].rest
  <2>1. vals = ValsOf(base, o, k)
    BY <1>4 DEF ValsOf, Merge
  <2>2. rest = RestOf(base, o, k)
    BY <1>4 DEF RestOf, Gone, OverlayFits
  <2>3. i = OrdOf(base, o, k)
    BY <1>4 DEF OrdOf
  <2>4. F(k) = [key |-> k, ord |-> i, rest |-> rest, vals |-> vals]
    OBVIOUS
  <2> HIDE DEF i, vals, rest, F
  <2>5. F(k) = Line(k, vals, rest, i)
    BY <2>4 DEF Line
  <2> QED BY <2>1, <2>2, <2>3, <2>5 DEF PageRow
<1> HIDE DEF F
<1> QED BY <1>2, <1>3, <1>4

LEMMA PushdownIs ==
    ASSUME RowsFit(base), OverlayFits(Overlay), NEW d, DictShows(d, Objects(base, Overlay))
    PROVE  Pushdown = [i \in 1..Len(d.order) |-> PageRow(base, Overlay, d.order[i])]
<1> DEFINE o == Overlay
           v == Objects(base, o)
           merged == Merged(o)
           created == DOMAIN o.creates
           F == [k \in DOMAIN v |-> PageRow(base, o, k)]
           S == {Created(o, k, merged) : k \in created} \cup {merged[k] : k \in DOMAIN merged \ created}
<1>1. Pushdown = ByOrd(S)
  BY DEF Pushdown
<1>2. DOMAIN v = Live(base, o) /\ \A k \in DOMAIN v : v[k].ord = OrdOf(base, o, k)
  BY ObjectsAre
<1> HIDE DEF o, merged
<1>3. OverlayFits(o) /\ merged = Merged(o)
  BY DEF o, merged
<1>4. /\ DOMAIN merged = KeysIn(base) \ o.deleted
      /\ \A k \in DOMAIN merged : merged[k].rest = base[NumberOf(base, k)].rest /\ merged[k].ord = NumberOf(base, k)
      /\ \A k \in DOMAIN merged \ created : merged[k] = PageRow(base, o, k)
  BY <1>3, MergedIs
<1>5. ASSUME NEW k \in created PROVE Created(o, k, merged) = PageRow(base, o, k)
  <2>1. k \in DOMAIN merged <=> k \in KeysIn(base)
    BY <1>3, <1>4 DEF OverlayFits
  <2>2. Inherited(o, k, merged) = RestOf(base, o, k)
    <3>1. Gone(o, k) <=> o.fresh[k]
      BY <1>3 DEF Gone, OverlayFits
    <3> QED BY <1>4, <2>1, <3>1 DEF Inherited, RestOf
  <2>3. (IF o.fresh[k] \/ k \notin DOMAIN merged THEN o.ord[k] ELSE merged[k].ord) = OrdOf(base, o, k)
    BY <1>4, <2>1 DEF OrdOf
  <2>4. Over(o.creates[k], Pad) = ValsOf(base, o, k)
    BY DEF ValsOf
  <2> QED BY <2>2, <2>3, <2>4 DEF Created, PageRow, Line
<1>6. DOMAIN v = created \cup (DOMAIN merged \ created)
  BY <1>2, <1>4 DEF Live
<1>7. S = {PageRow(base, o, k) : k \in DOMAIN v}
  <2> HIDE DEF v
  <2>1. {Created(o, k, merged) : k \in created} = {PageRow(base, o, k) : k \in created}
    BY <1>5
  <2>2. {merged[k] : k \in DOMAIN merged \ created} = {PageRow(base, o, k) : k \in DOMAIN merged \ created}
    BY <1>4
  <2>3. {PageRow(base, o, k) : k \in DOMAIN v}
           = {PageRow(base, o, k) : k \in created} \cup {PageRow(base, o, k) : k \in DOMAIN merged \ created}
    BY <1>6
  <2> QED BY <2>1, <2>2, <2>3
<1> HIDE DEF v, S
<1>8. S = {F[k] : k \in DOMAIN v} /\ DOMAIN F = DOMAIN v
  BY <1>7
<1>9. \A k \in DOMAIN v : F[k].ord = v[k].ord
  BY <1>2, LineIs DEF PageRow
<1>10. DictShows(d, v)
  BY DEF v, o
<1>11. \A i \in 1..Len(d.order) : F[d.order[i]] = PageRow(base, o, d.order[i])
  <2>1. \A i \in 1..Len(d.order) : d.order[i] \in DOMAIN v
    BY <1>10 DEF DictShows, DictFits
  <2> QED BY <2>1
<1> HIDE DEF F
<1>12. ByOrd(S) = [i \in 1..Len(d.order) |-> F[d.order[i]]]
  BY <1>8, <1>9, <1>10, PageIs
<1>13. ByOrd(S) = [i \in 1..Len(d.order) |-> PageRow(base, o, d.order[i])]
  BY <1>11, <1>12
<1> QED BY <1>1, <1>13 DEF o

-----------------------------------------------------------------------------
(* The four, at once. *)
IndexFits(rows, after, edits, idx) ==
    \E f, h : /\ OverlayRun(f, edits, after)
              /\ OrdinalRun(h, OrdinalsOf(rows), edits, after)
              /\ idx = IndexOf(Objects(rows, f[Len(edits)]), h[Len(edits)].at)

OverlayInv == FoldFits(base, taken, log) /\ IndexFits(base, taken, log, index)

LEMMA OverlayNow ==
    ASSUME OverlayInv
    PROVE  /\ OverlayFits(Overlay)
           /\ ObjectsFit(Objects(base, Overlay), taken + Len(log))
           /\ OrdinalsFit(Ordinals, Objects(base, Overlay))
           /\ DictShows(Materialized, Objects(base, Overlay))
           /\ Len(Materialized.order) <= Len(base) + Len(log)
           /\ index = IndexOf(Objects(base, Overlay), Ordinals.at)
           /\ \A x : Gone(Overlay, x) <=> DeletedBy(log, Len(log), x)
<1> DEFINE n == Len(log)
<1>1. FoldFits(base, taken, log) /\ IndexFits(base, taken, log, index)
  BY DEF OverlayInv
<1>2. RowsFit(base) /\ n \in Nat /\ n \in 0..n
  BY <1>1 DEF FoldFits
<1>3. Len(base) \in Nat /\ KeysIn(base) \subseteq Keys
  BY <1>2, RowsAre
<1>4. PICK f : OverlayRun(f, log, taken) /\ Overlay = f[n]
  BY <1>2, OverlayIs
<1>5. BaseOrdinals = OrdinalsOf(base)
  BY <1>2, BaseIs DEF RowsFit
<1>6. PICK h : OrdinalRun(h, OrdinalsOf(base), log, taken) /\ Ordinals = h[n]
  BY <1>2, <1>5, OrdinalsAre
<1>7. OverlayFits(Overlay) /\ ObjectsFit(Objects(base, Overlay), taken + n)
  BY <1>1, <1>2, <1>4, RunFits
<1>8. OrdinalsFit(Ordinals, Objects(base, Overlay))
  BY <1>1, <1>4, <1>6, OrdinalRunFits
<1>9. index = IndexOf(Objects(base, Overlay), Ordinals.at)
  <2>1. PICK f1, h1 : /\ OverlayRun(f1, log, taken)
                      /\ OrdinalRun(h1, OrdinalsOf(base), log, taken)
                      /\ index = IndexOf(Objects(base, f1[n]), h1[n].at)
    BY <1>1 DEF IndexFits
  <2>2. f1[n] = Overlay
    BY <1>2, <1>4, <2>1, OverlayRunOnce
  <2>3. h1[n] = Ordinals
    BY <1>2, <1>6, <2>1, OrdinalRunOnce
  <2> QED BY <2>1, <2>2, <2>3
<1>10. \A x : Gone(Overlay, x) <=> DeletedBy(log, n, x)
  BY <1>1, <1>4, GoneIs
<1>11. PICK b : RowRun(b, base) /\ BaseDict = b[Len(base)]
  BY <1>3, BaseDictIs
<1>12. PICK d : ReplayRun(d, BaseDict, Overlay.creates, log, taken) /\ Materialized = d[n]
  BY <1>2, MaterializedIs
<1>13. DictShows(BaseDict, Objects(base, NoOverlay)) /\ Len(BaseDict.order) = Len(base)
  <2>1. DictHolds(BaseDict, base, Len(base))
    BY <1>2, <1>3, <1>11, RowRunHolds
  <2>2. ObjectsFit(Objects(base, NoOverlay), taken)
    BY <1>1, ObjectsBegin
  <2> QED BY <1>2, <2>1, <2>2, ReplayBegins
<1>14. ColumnsIn(Overlay.creates)
  BY <1>7 DEF ColumnsIn, OverlayFits
<1>15. /\ ReplayFits(KeysIn(base), Overlay.creates, Objects(base, Overlay), DOMAIN Overlay.creates,
                     GoneOf(Overlay), Materialized)
       /\ Len(Materialized.order) <= Len(base) + n
  BY <1>1, <1>2, <1>4, <1>12, <1>13, <1>14, ReplayRunFits
<1>16. DictShows(Materialized, Objects(base, Overlay))
  BY <1>3, <1>7, <1>15, ReplayEnds
<1> QED BY <1>7, <1>8, <1>9, <1>10, <1>15, <1>16

LEMMA PushdownNow ==
    ASSUME OverlayInv
    PROVE  Pushdown = [i \in 1..Len(Materialized.order) |-> PageRow(base, Overlay, Materialized.order[i])]
<1>1. RowsFit(base)
  BY DEF OverlayInv, FoldFits
<1> QED BY <1>1, OverlayNow, PushdownIs

LEMMA InvAgrees == OverlayInv => ImplementationsAgree
<1> SUFFICES ASSUME OverlayInv PROVE ImplementationsAgree
  OBVIOUS
<1> DEFINE o == Overlay
           v == Objects(base, o)
           d == Materialized
           n == Len(d.order)
           rows == Pushdown
<1>1. RowsFit(base) /\ log \in Seq(Edits)
  BY DEF OverlayInv, FoldFits
<1>2. DOMAIN v = Live(base, o) /\ \A k \in DOMAIN v : v[k].ord = OrdOf(base, o, k) /\ v[k].vals = ValsOf(base, o, k)
  BY ObjectsAre
<1>3. /\ DictShows(d, v) /\ OrdinalsFit(Ordinals, v) /\ index = IndexOf(v, Ordinals.at)
      /\ \A x : Gone(o, x) <=> DeletedBy(log, Len(log), x)
  BY OverlayNow
<1>4. rows = [i \in 1..n |-> PageRow(base, o, d.order[i])]
  BY PushdownNow
<1>5. DOMAIN d.rows = DOMAIN v /\ \A k \in DOMAIN v : d.rows[k] = v[k].vals
  BY <1>3 DEF DictShows
<1>6. n \in Nat /\ DOMAIN d.order = 1..n /\ \A i \in 1..n : d.order[i] \in DOMAIN v
  <2>1. DictFits(d, v)
    BY <1>3 DEF DictShows
  <2>2. d.order \in Seq(Keys)
    BY <2>1 DEF DictFits
  <2>3. \A i \in 1..n : d.order[i] \in DOMAIN v
    BY <2>1 DEF DictFits
  <2> QED BY <2>2, <2>3
<1> HIDE DEF o, v, d, rows
<1>7. /\ DOMAIN rows = 1..n
      /\ \A i \in 1..n : /\ rows[i].key = d.order[i] /\ rows[i].vals = ValsOf(base, o, d.order[i])
                         /\ rows[i].rest = RestOf(base, o, d.order[i])
  BY <1>4, LineIs DEF PageRow
<1>8. PushdownIsReplay
  <2>1. \A i \in 1..n : rows[i].vals = d.rows[d.order[i]]
    BY <1>2, <1>5, <1>6, <1>7
  <2>2. [i \in DOMAIN rows |-> <<rows[i].key, rows[i].vals>>]
           = [i \in 1..n |-> <<d.order[i], d.rows[d.order[i]]>>]
    BY <1>7, <2>1
  <2>3. [i \in DOMAIN d.order |-> <<d.order[i], d.rows[d.order[i]]>>]
           = [i \in 1..n |-> <<d.order[i], d.rows[d.order[i]]>>]
    BY <1>6
  <2> QED BY <2>2, <2>3 DEF PushdownIsReplay, Replayed, rows, d
<1>9. index = Rebuilt
  <2> DEFINE h == Ordinals
  <2>1. \A k \in DOMAIN v : h.ord[k] = v[k].ord
    BY <1>3 DEF OrdinalsFit
  <2>2. Rebuilt = [k \in DOMAIN d.rows |->
            [ord |-> h.ord[k], at |-> IF k \in DOMAIN h.at THEN h.at[k] ELSE 0, vals |-> d.rows[k]]]
    BY DEF Rebuilt, d
  <2> HIDE DEF h
  <2>3. \A k \in DOMAIN v :
            [ord |-> h.ord[k], at |-> IF k \in DOMAIN h.at THEN h.at[k] ELSE 0, vals |-> d.rows[k]]
              = Entry(v[k].ord, LastAt(h.at, k), v[k].vals)
    BY <1>5, <2>1 DEF Entry, LastAt
  <2>4. Rebuilt = IndexOf(v, h.at)
    BY <1>5, <2>2, <2>3 DEF IndexOf
  <2> QED BY <1>3, <2>4 DEF h
<1>10. [i \in DOMAIN ByOrd({[key |-> k, ord |-> index[k].ord] : k \in DOMAIN index}) |->
          ByOrd({[key |-> k, ord |-> index[k].ord] : k \in DOMAIN index})[i].key] = d.order
  <2> DEFINE F == [k \in DOMAIN v |-> [key |-> k, ord |-> v[k].ord]]
             S == {[key |-> k, ord |-> index[k].ord] : k \in DOMAIN index}
             page == ByOrd(S)
  <2>1. DOMAIN index = DOMAIN v /\ \A k \in DOMAIN v : index[k].ord = v[k].ord
    BY <1>3, EntryIs DEF IndexOf
  <2>2. S = {F[k] : k \in DOMAIN v}
    BY <2>1
  <2>3. DOMAIN F = DOMAIN v /\ \A k \in DOMAIN v : F[k].ord = v[k].ord /\ F[k].key = k
    OBVIOUS
  <2> HIDE DEF F, S
  <2>4. page = [i \in 1..n |-> F[d.order[i]]]
    BY <1>3, <2>2, <2>3, PageIs
  <2>5. \A i \in 1..n : page[i].key = d.order[i]
    BY <1>6, <2>3, <2>4
  <2>6. DOMAIN page = 1..n
    BY <2>4
  <2> HIDE DEF page
  <2>7. [i \in DOMAIN page |-> page[i].key] = [i \in 1..n |-> d.order[i]]
    BY <2>5, <2>6
  <2>8. d.order = [i \in 1..n |-> d.order[i]]
    <3>1. d.order \in Seq(Keys)
      BY <1>3 DEF DictShows, DictFits
    <3> QED BY <3>1
  <2> QED BY <2>7, <2>8 DEF page, S
<1>11. IndexIsReplay
  BY <1>9, <1>10 DEF IndexIsReplay, d
<1>12. UndeclaredSurvives
  <2>1. BaseKeys = KeysIn(base) /\ \A k : LastRow(k) = NumberOf(base, k)
    BY <1>1, BaseIs DEF RowsFit
  <2>2. DOMAIN log = 1..Len(log)
    BY <1>1
  <2>3. ASSUME NEW i \in 1..n, NEW k, k = rows[i].key
        PROVE  rows[i].rest = IF k \in BaseKeys /\ ~(\E j \in DOMAIN log : log[j].kind = "delete" /\ log[j].key = k)
                              THEN base[LastRow(k)].rest ELSE Null
    <3>1. Gone(o, k) <=> \E j \in DOMAIN log : log[j].kind = "delete" /\ log[j].key = k
      BY <1>3, <2>2 DEF DeletedBy
    <3> QED BY <1>7, <2>1, <2>3, <3>1 DEF RestOf
  <2> QED BY <1>7, <2>3 DEF UndeclaredSurvives, rows
<1> QED BY <1>8, <1>11, <1>12 DEF ImplementationsAgree

-----------------------------------------------------------------------------
(* The invariant. *)
LEMMA IndexBegins ==
    ASSUME NEW rows, NEW after
    PROVE  IndexFits(rows, after, << >>, IndexOf(Objects(rows, NoOverlay), NoDict))
<1> DEFINE f == [i \in {0} |-> NoOverlay]
           h == [i \in {0} |-> [ord |-> OrdinalsOf(rows), at |-> NoDict]]
<1>1. Len(<< >>) = 0 /\ \A i \in 1..Len(<< >>) : FALSE
  OBVIOUS
<1>2. f[0] = NoOverlay /\ h[0] = [ord |-> OrdinalsOf(rows), at |-> NoDict]
  OBVIOUS
<1>3. h[0].at = NoDict
  BY <1>2
<1> HIDE DEF f, h
<1>4. OverlayRun(f, << >>, after)
  BY <1>1, <1>2 DEF OverlayRun
<1>5. OrdinalRun(h, OrdinalsOf(rows), << >>, after)
  BY <1>1, <1>2 DEF OrdinalRun
<1>6. IndexOf(Objects(rows, NoOverlay), NoDict) = IndexOf(Objects(rows, f[Len(<< >>)]), h[Len(<< >>)].at)
  BY <1>1, <1>2, <1>3
<1> QED BY <1>4, <1>5, <1>6 DEF IndexFits

\* The index of rows that no edit is made to.
LEMMA RowsIndexIs ==
    ASSUME NEW rows
    PROVE  IndexOf(Objects(rows, NoOverlay), NoDict)
              = [k \in KeysIn(rows) |-> [ord |-> NumberOf(rows, k), at |-> 0, vals |-> rows[NumberOf(rows, k)].vals]]
<1> DEFINE v == Objects(rows, NoOverlay)
<1>1. /\ DOMAIN v = KeysIn(rows)
      /\ \A k \in KeysIn(rows) : v[k].ord = NumberOf(rows, k) /\ v[k].vals = rows[NumberOf(rows, k)].vals
  BY NoOverlayIs, ObjectsAre
<1>2. \A k : LastAt(NoDict, k) = 0
  BY DEF LastAt, NoDict
<1> HIDE DEF v
<1>3. \A k \in KeysIn(rows) : Entry(v[k].ord, LastAt(NoDict, k), v[k].vals)
         = [ord |-> NumberOf(rows, k), at |-> 0, vals |-> rows[NumberOf(rows, k)].vals]
  BY <1>1, <1>2 DEF Entry
<1>4. IndexOf(v, NoDict) = [k \in KeysIn(rows) |->
         [ord |-> NumberOf(rows, k), at |-> 0, vals |-> rows[NumberOf(rows, k)].vals]]
  BY <1>1, <1>3 DEF IndexOf
<1> QED BY <1>4 DEF v

LEMMA OverlayInitInv == OverlayInit => OverlayInv
<1> SUFFICES ASSUME OverlayInit PROVE OverlayInv
  OBVIOUS
<1>0. PICK m \in 0..MaxRows : \E ks \in [1..m -> Keys] :
         /\ \A i, j \in 1..m : ks[i] = ks[j] => i = j
         /\ base = [i \in 1..m |-> Row(ks[i], i)]
  BY DEF OverlayInit
<1>1. PICK ks \in [1..m -> Keys] :
         /\ \A i, j \in 1..m : ks[i] = ks[j] => i = j
         /\ base = [i \in 1..m |-> Row(ks[i], i)]
  BY <1>0
<1>2. log = << >> /\ taken = 0
      /\ index = [k \in BaseKeys |-> [ord |-> LastRow(k), at |-> 0, vals |-> base[LastRow(k)].vals]]
  BY DEF OverlayInit
<1>3. m \in Nat /\ m <= MaxRows
  BY BoundsAssumption
<1> DEFINE Rows == [key : Keys, vals : [Cols -> Int], rest : Int]
<1>4. \A i \in 1..m : Row(ks[i], i) \in Rows /\ Row(ks[i], i).key = ks[i]
  <2> SUFFICES ASSUME NEW i \in 1..m PROVE Row(ks[i], i) \in Rows /\ Row(ks[i], i).key = ks[i]
    OBVIOUS
  <2>1. -i \in Int /\ [c \in Cols |-> -i] \in [Cols -> Int] /\ ks[i] \in Keys
    BY <1>1, <1>3
  <2> QED BY <2>1 DEF Row
<1> HIDE DEF Rows
<1>5. base \in Seq(Rows) /\ Len(base) = m /\ \A i \in 1..m : base[i].key = ks[i]
  BY <1>1, <1>3, <1>4
<1>6. RowsFit(base)
  BY <1>1, <1>5 DEF RowsFit, Rows
<1>7. log \in Seq(Edits) /\ Len(log) = 0
  BY <1>2
<1>8. FoldFits(base, taken, log)
  BY <1>2, <1>3, <1>5, <1>6, <1>7, BoundsAssumption DEF FoldFits
<1>9. BaseKeys = KeysIn(base) /\ \A k : LastRow(k) = NumberOf(base, k)
  BY <1>6, BaseIs DEF RowsFit
<1>10. index = [k \in KeysIn(base) |->
                  [ord |-> NumberOf(base, k), at |-> 0, vals |-> base[NumberOf(base, k)].vals]]
  BY <1>2, <1>9
<1>11. index = IndexOf(Objects(base, NoOverlay), NoDict)
  BY <1>10, RowsIndexIs
<1>12. IndexFits(base, taken, log, index)
  BY <1>2, <1>11, IndexBegins
<1> QED BY <1>8, <1>12 DEF OverlayInv

\* One more edit.
LEMMA EditInv ==
    ASSUME OverlayInv, NEW e \in Edits, Edit(e)
    PROVE  OverlayInv'
<1> DEFINE n == Len(log)
           p == (taken + n) + 1
           new == Append(log, e)
<1>1. FoldFits(base, taken, log) /\ IndexFits(base, taken, log, index)
  BY DEF OverlayInv
<1>2. /\ RowsFit(base) /\ taken \in Nat /\ Len(base) <= MaxRows + taken
      /\ log \in Seq(Edits) /\ n \in Nat
  BY <1>1 DEF FoldFits
<1>3. taken + n < MaxEdits /\ log' = new /\ index' = Incremented(e, p) /\ base' = base /\ taken' = taken
  BY DEF Edit
<1>4. new \in Seq(Edits) /\ Len(new) = n + 1 /\ new[n + 1] = e /\ \A i \in 1..n : new[i] = log[i]
  BY <1>2
<1> HIDE DEF new
<1>5. FoldFits(base, taken, new)
  BY <1>2, <1>3, <1>4, BoundsAssumption DEF FoldFits
<1>6. EditFits(e)
  BY EditsFit
<1>7. PICK f, h : /\ OverlayRun(f, log, taken)
                  /\ OrdinalRun(h, OrdinalsOf(base), log, taken)
                  /\ index = IndexOf(Objects(base, f[n]), h[n].at)
  BY <1>1 DEF IndexFits
<1> DEFINE g == [i \in 0..(n + 1) |-> IF i <= n THEN f[i] ELSE OverlayEdit(f[n], e, p)]
           c == [i \in 0..(n + 1) |-> IF i <= n THEN h[i] ELSE OrdinalEdit(h[n], e, p)]
<1>8. /\ \A i \in 0..n : g[i] = f[i] /\ c[i] = h[i]
      /\ g[n + 1] = OverlayEdit(f[n], e, p) /\ c[n + 1] = OrdinalEdit(h[n], e, p)
  BY <1>2
<1> HIDE DEF g, c
<1>9. p = taken + (n + 1) /\ (n + 1) - 1 = n /\ n \in 0..n
  BY <1>2
<1>10. \A i \in 1..n : i \in 0..n /\ i - 1 \in 0..n
  BY <1>2
<1>11. 1..(n + 1) = (1..n) \cup {n + 1}
  BY <1>2
<1>12. OverlayRun(g, new, taken)
  <2>1. g[0] = NoOverlay
    BY <1>2, <1>7, <1>8 DEF OverlayRun
  <2>2. \A i \in 1..n : g[i] = OverlayEdit(g[i - 1], new[i], taken + i)
    BY <1>4, <1>7, <1>8, <1>10 DEF OverlayRun
  <2>3. g[n + 1] = OverlayEdit(g[(n + 1) - 1], new[n + 1], taken + (n + 1))
    BY <1>4, <1>8, <1>9
  <2>4. \A i \in 1..(n + 1) : g[i] = OverlayEdit(g[i - 1], new[i], taken + i)
    BY <1>11, <2>2, <2>3
  <2> QED BY <1>4, <2>1, <2>4 DEF OverlayRun
<1>13. OrdinalRun(c, OrdinalsOf(base), new, taken)
  <2>1. c[0] = [ord |-> OrdinalsOf(base), at |-> NoDict]
    BY <1>2, <1>7, <1>8 DEF OrdinalRun
  <2>2. \A i \in 1..n : c[i] = OrdinalEdit(c[i - 1], new[i], taken + i)
    BY <1>4, <1>7, <1>8, <1>10 DEF OrdinalRun
  <2>3. c[n + 1] = OrdinalEdit(c[(n + 1) - 1], new[n + 1], taken + (n + 1))
    BY <1>4, <1>8, <1>9
  <2>4. \A i \in 1..(n + 1) : c[i] = OrdinalEdit(c[i - 1], new[i], taken + i)
    BY <1>11, <2>2, <2>3
  <2> QED BY <1>4, <2>1, <2>4 DEF OrdinalRun
<1>14. OverlayFits(f[n]) /\ OrdinalsFit(h[n], Objects(base, f[n]))
  BY <1>1, <1>7, <1>9, RunFits, OrdinalRunFits
<1>15. Objects(base, g[n + 1]) = ObjectsAfter(Objects(base, f[n]), e, p)
  <2> DEFINE o == f[n]
             q == g[n + 1]
  <2>1. q = OverlayEdit(o, e, p) /\ OverlayFits(o)
    BY <1>8, <1>14
  <2> HIDE DEF o, q, p
  <2>2. Objects(base, q) = ObjectsAfter(Objects(base, o), e, p)
    BY <1>6, <2>1, OverlayFollows
  <2> QED BY <2>2 DEF o, q
<1>16. Incremented(e, p) = IndexOf(Objects(base, g[n + 1]), c[n + 1].at)
  <2> DEFINE v == Objects(base, f[n])
             w == Objects(base, g[n + 1])
             b == h[n]
             d == c[n + 1]
  <2>1. w = ObjectsAfter(v, e, p) /\ d = OrdinalEdit(b, e, p) /\ OrdinalsFit(b, v) /\ index = IndexOf(v, b.at)
    BY <1>7, <1>8, <1>14, <1>15
  <2> HIDE DEF v, w, b, d, p
  <2>2. Incremented(e, p) = IndexOf(w, d.at)
    BY <1>6, <2>1, IndexFollows
  <2> QED BY <2>2 DEF w, d
<1>17. IndexFits(base, taken, new, Incremented(e, p))
  BY <1>4, <1>12, <1>13, <1>16 DEF IndexFits
<1>18. FoldFits(base, taken, log)' /\ IndexFits(base, taken, log, index)'
  BY <1>3, <1>5, <1>17
<1> QED BY <1>18 DEF OverlayInv

\* A fold: the page becomes the rows of a version, and nothing is edited.
LEMMA FoldInv ==
    ASSUME OverlayInv, Fold
    PROVE  OverlayInv'
<1> DEFINE o == Overlay
           v == Objects(base, o)
           d == Materialized
           n == Len(d.order)
           page == Pushdown
           new == [i \in DOMAIN page |-> [key |-> page[i].key, vals |-> page[i].vals, rest |-> page[i].rest]]
           after == taken + Len(log)
           Rows == [key : Keys, vals : [Cols -> Int], rest : Int]
<1>1. FoldFits(base, taken, log)
  BY DEF OverlayInv
<1>2. /\ RowsFit(base) /\ taken \in Nat /\ Len(base) <= MaxRows + taken /\ Len(base) \in Nat
      /\ log \in Seq(Edits) /\ Len(log) \in Nat /\ taken + Len(log) <= MaxEdits
  BY <1>1, RowsAre DEF FoldFits
<1>3. /\ base' = new
      /\ index' = [k \in {page[i].key : i \in DOMAIN page} |->
                      LET i == CHOOSE j \in DOMAIN page : page[j].key = k IN
                      [ord |-> i, at |-> 0, vals |-> page[i].vals]]
      /\ taken' = after /\ log' = << >>
  BY DEF Fold
<1>4. /\ ObjectsFit(v, after) /\ DictShows(d, v) /\ Len(d.order) <= Len(base) + Len(log)
      /\ OverlayFits(o)
  BY OverlayNow
<1>5. page = [i \in 1..n |-> PageRow(base, o, d.order[i])]
  BY PushdownNow
<1>6. DOMAIN v = Live(base, o) /\ \A k \in DOMAIN v : v[k].vals = ValsOf(base, o, k)
  BY ObjectsAre
<1> HIDE DEF v, o, d, page
<1>7. DictFits(d, v) /\ DOMAIN d.rows = DOMAIN v
  BY <1>4 DEF DictShows
<1>8. n \in Nat /\ \A i \in 1..n : d.order[i] \in DOMAIN v /\ d.order[i] \in Keys
  BY <1>7 DEF DictFits
<1>9. \A i, j \in 1..n : d.order[i] = d.order[j] => i = j
  <2> SUFFICES ASSUME NEW i \in 1..n, NEW j \in 1..n, d.order[i] = d.order[j], i < j PROVE FALSE
    BY <1>8
  <2>1. v[d.order[i]].ord < v[d.order[j]].ord
    BY <1>7 DEF DictFits
  <2>2. v[d.order[i]].ord \in Int
    BY <1>7, <1>8 DEF DictFits
  <2> QED BY <2>1, <2>2
<1>10. /\ DOMAIN page = 1..n
       /\ \A i \in 1..n : /\ page[i].key = d.order[i] /\ page[i].vals = v[d.order[i]].vals
                          /\ page[i].rest = RestOf(base, o, d.order[i])
  BY <1>5, <1>6, <1>8, LineIs DEF PageRow
<1>11. \A i \in 1..n : page[i].key \in Keys /\ page[i].vals \in [Cols -> Int] /\ page[i].rest \in Int
  <2> SUFFICES ASSUME NEW i \in 1..n
               PROVE  page[i].key \in Keys /\ page[i].vals \in [Cols -> Int] /\ page[i].rest \in Int
    OBVIOUS
  <2> DEFINE k == d.order[i]
  <2>1. v[k].vals \in [Cols -> Int]
    BY <1>4, <1>8 DEF ObjectsFit
  <2>2. RestOf(base, o, k) \in Int
    <3>1. k \in KeysIn(base) => base[NumberOf(base, k)].rest \in Int
      BY <1>2, RowsAre
    <3> QED BY <3>1 DEF RestOf, Null
  <2> QED BY <1>8, <1>10, <2>1, <2>2
<1>12. /\ new = [i \in 1..n |-> [key |-> page[i].key, vals |-> page[i].vals, rest |-> page[i].rest]]
  BY <1>10
<1>13. new \in Seq(Rows) /\ Len(new) = n
  <2>1. \A i \in 1..n : [key |-> page[i].key, vals |-> page[i].vals, rest |-> page[i].rest] \in Rows
    BY <1>11
  <2> HIDE DEF Rows, new
  <2> QED BY <1>8, <1>12, <2>1
<1>14. \A i \in 1..n : new[i].key = page[i].key /\ new[i].vals = page[i].vals
  BY <1>12
<1> HIDE DEF new
<1>15. RowsFit(new)
  <2>1. \A i, j \in 1..Len(new) : new[i].key = new[j].key => i = j
    BY <1>9, <1>10, <1>13, <1>14
  <2> QED BY <1>13, <2>1 DEF RowsFit
<1>16. FoldFits(new, after, << >>)
  <2>1. << >> \in Seq(Edits) /\ Len(<< >>) = 0
    OBVIOUS
  <2>2. n <= MaxRows + after
    BY <1>2, <1>4, <1>8, BoundsAssumption
  <2> QED BY <1>2, <1>13, <1>15, <2>1, <2>2, BoundsAssumption DEF FoldFits
<1>17. index' = IndexOf(Objects(new, NoOverlay), NoDict)
  <2> DEFINE At(k) == CHOOSE j \in 1..n : page[j].key = k
  <2>1. index' = [k \in {page[i].key : i \in 1..n} |-> [ord |-> At(k), at |-> 0, vals |-> page[At(k)].vals]]
    BY <1>3, <1>10
  <2>2. {page[i].key : i \in 1..n} = KeysIn(new)
    BY <1>13, <1>14 DEF KeysIn
  <2>3. ASSUME NEW k \in KeysIn(new) PROVE At(k) = NumberOf(new, k) /\ page[At(k)].vals = new[NumberOf(new, k)].vals
    <3>1. PICK i \in 1..n : page[i].key = k
      BY <2>2
    <3>2. At(k) \in 1..n /\ page[At(k)].key = k
      BY <3>1
    <3>3. At(k) = i
      BY <1>9, <1>10, <3>1, <3>2
    <3>4. NumberOf(new, k) = i
      BY <1>13, <1>14, <1>15, <3>1, RowsAre
    <3> QED BY <1>14, <3>3, <3>4
  <2> HIDE DEF At
  <2>4. index' = [k \in KeysIn(new) |->
                    [ord |-> NumberOf(new, k), at |-> 0, vals |-> new[NumberOf(new, k)].vals]]
    BY <2>1, <2>2, <2>3
  <2> QED BY <2>4, RowsIndexIs
<1>18. IndexFits(new, after, << >>, IndexOf(Objects(new, NoOverlay), NoDict))
  BY IndexBegins
<1>19. FoldFits(base, taken, log)' /\ IndexFits(base, taken, log, index)'
  BY <1>3, <1>16, <1>17, <1>18
<1> QED BY <1>19 DEF OverlayInv

LEMMA OverlayInvStep == OverlayInv /\ [OverlayNext]_overlayVars => OverlayInv'
<1> SUFFICES ASSUME OverlayInv, [OverlayNext]_overlayVars PROVE OverlayInv'
  OBVIOUS
<1>1. CASE \E e \in Edits : Edit(e)
  BY <1>1, EditInv
<1>2. CASE Fold
  BY <1>2, FoldInv
<1>3. CASE UNCHANGED overlayVars
  BY <1>3 DEF overlayVars, OverlayInv
<1> QED BY <1>1, <1>2, <1>3 DEF OverlayNext

\* However the edits, their replacements and the folds come, paging through
\* the merge in SQL, replaying the log, rebuilding the index and keeping it
\* edit by edit give the same objects in the same order, and a column that no
\* property is declared for keeps its value until its row is deleted
\* (service.py _sql_query, _materialize, _object_ordinals, _rows_for_edit).
THEOREM ImplementationsAlwaysAgree == OverlaySpec => []ImplementationsAgree
<1>1. OverlayInit => OverlayInv
  BY OverlayInitInv
<1>2. OverlayInv /\ [OverlayNext]_overlayVars => OverlayInv'
  BY OverlayInvStep
<1>3. OverlayInv => ImplementationsAgree
  BY InvAgrees
<1> QED BY <1>1, <1>2, <1>3, PTL DEF OverlaySpec
=============================================================================
