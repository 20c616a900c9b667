------------------------------- MODULE Alerts -------------------------------
(***************************************************************************)
(* Health alerts (core/health.py): each scheduler tick of each replica     *)
(* derives every dataset's status, compares it with the one recorded in    *)
(* health_state and, where they differ, records the new one, logs an event *)
(* and posts it to the webhooks. These are separate transactions, nothing  *)
(* keeps the passes of two replicas apart, and a replica may die anywhere. *)
(***************************************************************************)
EXTENDS Integers, Sequences

CONSTANTS
    Monitored,      \* datasets
    Facts,          \* what may be true of a dataset, see Status
    Tickers,        \* replicas that run the scheduler
    MaxTicks,       \* bound on the passes
    MaxFacts        \* bound on the changes of what is true

ASSUME AlertsAssumption == MaxTicks \in Nat /\ MaxFacts \in Nat

VARIABLES
    facts,          \* facts[d]: what builds, syncs, schedules and clocks say
    health,         \* health_state
    events,         \* events[d]: the log of health_events
    pass,           \* pass[t]: a replica's pass
    ticks, changes, \* counters under the bounds
    doubt           \* doubt[d]: history, what blurred the log since its last event

alertVars == <<facts, health, events, pass, ticks, changes, doubt>>

Red == {"failing", "overdue", "stale"}
NoStatus == "none"      \* no row in health_state

(* HealthService._one.                                                     *)
Status(f) ==
    CASE f.taskFailed \/ f.expectationFailed \/ f.syncFailed \/ f.scheduleFailed -> "failing"
      [] f.overdue -> "overdue"
      [] f.promised /\ (~f.built \/ f.late) -> "stale"
      [] ~f.built /\ ~f.ran /\ ~f.promised -> "unknown"
      [] OTHER -> "healthy"

\* A mutant: only a failure is worth a recovery.
FailureEvent(was, is) ==
    CASE is \in Red -> is
      [] is = "healthy" /\ was = "failing" -> "recovered"
      [] OTHER -> "none"

\* A red status is its own event; recovery is an event after any red.
Event(was, is) ==
    CASE is \in Red -> is
      [] is = "healthy" /\ was \in Red -> "recovered"
      [] OTHER -> "none"

NoPass == [pc |-> "idle", status |-> [d \in Monitored |-> NoStatus],
           was |-> [d \in Monitored |-> NoStatus], todo |-> {}, on |-> {}]

AlertsInit ==
    /\ facts \in [Monitored -> {f \in Facts : ~f.built /\ ~f.ran}]
    /\ health = [d \in Monitored |-> NoStatus]
    /\ events = [d \in Monitored |-> <<>>]
    /\ pass = [t \in Tickers |-> NoPass]
    /\ ticks = 0 /\ changes = 0
    /\ doubt = [d \in Monitored |-> {}]

Doubted(d, why) == [doubt EXCEPT ![d] = @ \cup why]

(* A build, a sync, a tick of the clock or a declaration of freshness.     *)
(* Versions and task rows stay.                                            *)
Happen(d) ==
    /\ changes < MaxFacts
    /\ \E f \in Facts \ {facts[d]} :
          /\ facts[d].built => f.built
          /\ facts[d].ran => f.ran
          /\ facts' = [facts EXCEPT ![d] = f]
    /\ changes' = changes + 1
    /\ UNCHANGED <<health, events, pass, ticks, doubt>>

-----------------------------------------------------------------------------
(* One pass of evaluate_and_alert. *)

\* The statuses are derived at once here. In the code the builds, the
\* schedules and each dataset are read one after the other.
Derive(t) ==
    LET busy == \E o \in Tickers \ {t} : pass[o].pc # "idle"
    IN /\ pass[t].pc = "idle" /\ ticks < MaxTicks
       /\ pass' = [pass EXCEPT ![t] = [NoPass EXCEPT
            !.pc = "previous", !.status = [d \in Monitored |-> Status(facts[d])]]]
       /\ doubt' = IF busy THEN [d \in Monitored |-> doubt[d] \cup {"overlap"}] ELSE doubt
       /\ ticks' = ticks + 1
       /\ UNCHANGED <<facts, health, events, changes>>

ReadPrevious(t) ==
    /\ pass[t].pc = "previous"
    /\ pass' = [pass EXCEPT ![t].pc = "edges", ![t].was = health,
                            ![t].todo = {d \in Monitored : health[d] # pass[t].status[d]}]
    /\ UNCHANGED <<facts, health, events, ticks, changes, doubt>>

SetState(t) == \E d \in pass[t].todo :
    LET event == Event(pass[t].was[d], pass[t].status[d])
    IN /\ pass[t].pc = "edges"
       /\ health' = [health EXCEPT ![d] = pass[t].status[d]]
       /\ pass' = [pass EXCEPT ![t].todo = @ \ {d}, ![t].on = {d},
                               ![t].pc = IF event = "none" THEN "edges" ELSE "event"]
       /\ doubt' = IF pass[t].was[d] \in Red /\ pass[t].status[d] = "unknown"
                   THEN Doubted(d, {"forgotten"}) ELSE doubt
       /\ UNCHANGED <<facts, events, ticks, changes>>

(* The event is logged and posted. A webhook that does not answer is       *)
(* noted and not tried again; it never stops the pass.                     *)
AddEvent(t) == \E d \in pass[t].on :
    /\ pass[t].pc = "event"
    /\ events' = [events EXCEPT ![d] = Append(@, Event(pass[t].was[d], pass[t].status[d]))]
    /\ pass' = [pass EXCEPT ![t].pc = "edges"]
    /\ doubt' = [doubt EXCEPT ![d] = @ \cap {"overlap"}]
    /\ UNCHANGED <<facts, health, ticks, changes>>

Finish(t) ==
    /\ pass[t].pc = "edges" /\ pass[t].todo = {}
    /\ pass' = [pass EXCEPT ![t] = NoPass]
    /\ UNCHANGED <<facts, health, events, ticks, changes, doubt>>

(* The replica dies, or the database refuses a statement.                  *)
Abort(t) ==
    /\ pass[t].pc # "idle"
    /\ doubt' = IF pass[t].pc = "event"
                THEN [d \in Monitored |->
                        IF d \in pass[t].on THEN doubt[d] \cup {"unannounced"} ELSE doubt[d]]
                ELSE doubt
    /\ pass' = [pass EXCEPT ![t] = NoPass]
    /\ UNCHANGED <<facts, health, events, ticks, changes>>

AlertsNext ==
    \/ \E d \in Monitored : Happen(d)
    \/ \E t \in Tickers :
          Derive(t) \/ ReadPrevious(t) \/ SetState(t) \/ AddEvent(t) \/ Finish(t) \/ Abort(t)

AlertsSpec == AlertsInit /\ [][AlertsNext]_alertVars

-----------------------------------------------------------------------------
LastEvent(d) == IF events[d] = <<>> THEN "none" ELSE events[d][Len(events[d])]

(* Between passes the log ends with what health_state says: a red status   *)
(* with its own event, a healthy one with none or a recovery, so that who  *)
(* opened something on an event is told to close it. Not so after          *)
(* overlapping passes, nor, until the next event, after a pass that died   *)
(* between the state and its event or a red status that became unknown.    *)
LogFollowsState ==
    \A d \in Monitored :
        (\A t \in Tickers : pass[t].pc = "idle") /\ doubt[d] = {} =>
            /\ health[d] \in Red => LastEvent(d) = health[d]
            /\ health[d] = "healthy" => LastEvent(d) \in {"none", "recovered"}
=============================================================================
