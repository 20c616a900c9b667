----------------------------- MODULE Admission -----------------------------
(***************************************************************************)
(* Admission of interactive queries in one process (core/limits.py:        *)
(* limited, admit and guard): a bounded semaphore, a short wait for a      *)
(* slot, and a watchdog that interrupts a connection at its deadline.      *)
(*                                                                         *)
(* DuckDB may return its result as a reader: the callers read it to the    *)
(* end after limited has given the slot back.                              *)
(***************************************************************************)
EXTENDS Integers, FiniteSets

CONSTANTS
    Queries,        \* threads that query
    Slots,          \* LAURELIN_MAX_CONCURRENT_QUERIES, 0 for no bound
    MaxQueries      \* bound on the queries asked

ASSUME AdmissionAssumption == Slots \in Nat /\ MaxQueries \in Nat

VARIABLES
    free,           \* what the semaphore has left
    query,          \* query[q]: where it is, how it ends, and its watchdog
    asked           \* queries asked

admissionVars == <<free, query, asked>>

NoQuery == [pc |-> "idle", result |-> "none", watchdog |-> "off"]

AdmissionInit ==
    /\ free = Slots
    /\ query = [q \in Queries |-> NoQuery]
    /\ asked = 0

Gated == Slots > 0

Ask(q) ==
    /\ query[q].pc = "idle" /\ asked < MaxQueries
    /\ asked' = asked + 1
    /\ query' = [query EXCEPT ![q] = [NoQuery EXCEPT !.pc = "waiting"]]
    /\ UNCHANGED free

(* admit lets the query in and guard starts its watchdog.                  *)
Admit(q) ==
    /\ query[q].pc = "waiting"
    /\ Gated => free > 0
    /\ free' = IF Gated THEN free - 1 ELSE free
    /\ query' = [query EXCEPT ![q].pc = "running", ![q].watchdog = "armed"]
    /\ UNCHANGED asked

\* The wait is over: QueryRejected, without a slot to give back.
Reject(q) ==
    /\ query[q].pc = "waiting" /\ Gated /\ free = 0
    /\ query' = [query EXCEPT ![q] = [NoQuery EXCEPT !.result = "rejected"]]
    /\ UNCHANGED <<free, asked>>

WatchdogFires(q) ==
    /\ query[q].watchdog = "armed"
    /\ query' = [query EXCEPT ![q].watchdog = "fired"]
    /\ UNCHANGED <<free, asked>>

(* How the body may end. An interruption is a timeout if the watchdog did  *)
(* it, and any other exception is raised as it is.                         *)
Endings(q) ==
    {"table", "reader", "memory", "error"}
        \cup (IF query[q].watchdog = "fired" THEN {"timeout"} ELSE {})

End(q) ==
    /\ query[q].pc = "running"
    /\ \E r \in Endings(q) :
          query' = [query EXCEPT ![q].pc = "leaving", ![q].result = r]
    /\ UNCHANGED <<free, asked>>

\* A mutant: the slot is given back after the yield and not in a finally.
GivenBackOnSuccess(q) ==
    IF Gated /\ query[q].result \in {"table", "reader"} THEN free + 1 ELSE free

GivenBack(q) == IF Gated THEN free + 1 ELSE free

(* Both finally clauses: the watchdog is cancelled, the slot given back.   *)
Leave(q) ==
    /\ query[q].pc = "leaving"
    /\ free' = GivenBack(q)
    /\ query' = [query EXCEPT
            ![q].pc = IF query[q].result = "reader" THEN "reading" ELSE "idle",
            ![q].watchdog = "off"]
    /\ UNCHANGED asked

\* The rest of a reader's rows are computed now.
ReadAll(q) ==
    /\ query[q].pc = "reading"
    /\ query' = [query EXCEPT ![q].pc = "idle"]
    /\ UNCHANGED <<free, asked>>

AdmissionNext == \E q \in Queries :
    Ask(q) \/ Admit(q) \/ Reject(q) \/ WatchdogFires(q) \/ End(q) \/ Leave(q) \/ ReadAll(q)

AdmissionSpec == AdmissionInit /\ [][AdmissionNext]_admissionVars

-----------------------------------------------------------------------------
Admitted == {q \in Queries : query[q].pc \in {"running", "leaving"}}

(* However queries end, refused, timed out, out of memory or failed, the   *)
(* slots taken are those of the queries between admission and release: no  *)
(* more than the bound, and all back when nobody queries.                  *)
SlotsAccounted == Gated => free >= 0 /\ free + Cardinality(Admitted) = Slots
=============================================================================
