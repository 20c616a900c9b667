---------------------------- MODULE BuildLeases ----------------------------
(***************************************************************************)
(* The builds of one workspace and the replicas that execute them: the     *)
(* lease of laurelin/core/db.py (claim_build, renew_build_lease,           *)
(* release_build, reap_expired_builds) and Builder.execute of              *)
(* laurelin/transforms/builder.py, which takes, renews and gives it back.  *)
(*                                                                         *)
(* What a transform computes is left out; that it ends well or badly is    *)
(* not.  The 120 seconds of a lease are not counted: a lease is live until *)
(* LeaseExpires.                                                           *)
(***************************************************************************)
EXTENDS Naturals, Sequences, FiniteSets

CONSTANTS
    Workers,        \* the replicas, by worker_id
    NoWorker,       \* claimed_by IS NULL
    Builds,         \* bound: the builds of a behaviour
    Plan,           \* the transforms of a build, in the planner's order
    Inputs,         \* the transforms whose outputs a transform reads
    Handed,         \* how many replicas may be asked to execute one build
    Waits,          \* whether a build may be run with wait=true or by the CLI
    Slow,           \* whether a replica at work may outlive its 120 s lease
    Mortal,         \* the replicas that may die
    Faults          \* whether a store call of execute may raise

Transforms == {Plan[i] : i \in 1..Len(Plan)}

\* builder.plan lists a transform once, and its inputs before it.
Planned ==
    \A i \in 1..Len(Plan) :
        /\ Inputs[Plan[i]] \subseteq {Plan[j] : j \in 1..(i - 1)}
        /\ \A j \in 1..Len(Plan) : Plan[i] = Plan[j] => i = j

ASSUME WorkersAssumption ==
    NoWorker \notin Workers /\ Mortal \subseteq Workers /\ IsFiniteSet(Workers)
ASSUME PlanAssumption ==
    Plan \in Seq(Transforms) /\ Inputs \in [Transforms -> SUBSET Transforms] /\ Planned
ASSUME HandedAssumption == Handed \in Nat
ASSUME SwitchAssumption == {Waits, Slow, Faults} \subseteq BOOLEAN

VARIABLES
    build,      \* the builds rows
    task,       \* the build_tasks rows, by transform
    job,        \* each replica's execution of each build
    reaping,    \* the ids each replica's reaper has read and not yet failed
    runs,       \* how often each transform of a build was run (history)
    lost        \* the replicas whose lease of a build ended while they were
                \* at work: it ran out, or a reaper cleared it (history)

vars == <<build, task, job, reaping, runs, lost>>

NoBuild == [status |-> "none", owner |-> NoWorker, lease |-> "none"]
NoJob == [pc |-> "none"]

BuildsInit ==
    /\ build = [b \in Builds |-> NoBuild]
    /\ task = [b \in Builds |-> [t \in Transforms |-> "none"]]
    /\ job = [b \in Builds |-> [w \in Workers |-> NoJob]]
    /\ reaping = [w \in Workers |-> {}]
    /\ runs = [b \in Builds |-> [t \in Transforms |-> 0]]
    /\ lost = [b \in Builds |-> {}]

Alive(w) == \A b \in Builds : job[b][w].pc # "dead"

Steps == {"begin", "work", "heartbeat", "transform", "release"}
Executing(b, w) == job[b][w].pc \in Steps

AtWork(b) == {build[b].owner} \cap {w \in Workers : Executing(b, w)}

\* claim_build, renew_build_lease and reap_expired_builds call these active.
Active(row) == row.status \in {"pending", "running"}

Goto(b, w, pc) == job' = [job EXCEPT ![b][w].pc = pc]

-----------------------------------------------------------------------------
(* A build is asked for. *)

Job(pc, leased) == [pc |-> pc, leased |-> leased, at |-> 1, failed |-> {}]

\* POST /builds, a schedule or the CLI: the row, then the executor pool of this
\* replica, or this thread.  The reaper run_build calls first is Reap below.
Request(b, w, wait) ==
    /\ build[b].status = "none" /\ Alive(w)
    /\ build' = [build EXCEPT ![b].status = "pending"]
    /\ job' = [job EXCEPT ![b][w] = IF wait THEN Job("begin", FALSE) ELSE Job("queued", TRUE)]
    /\ UNCHANGED <<task, reaping, runs, lost>>

\* Another replica is asked to execute a build that one was asked to already.
HandOver(b, w) ==
    /\ build[b].status # "none" /\ Alive(w)
    /\ job[b][w] = NoJob
    /\ Cardinality({v \in Workers : job[b][v] # NoJob}) < Handed
    /\ \A v \in Workers : job[b][v].pc \in Steps => job[b][v].leased
    /\ job' = [job EXCEPT ![b][w] = Job("queued", TRUE)]
    /\ UNCHANGED <<build, task, reaping, runs, lost>>

-----------------------------------------------------------------------------
(* Builder.execute. *)

\* A mutant: the UPDATE does not look at the status.
ClaimableWhenDone(row, w) == row.owner \in {NoWorker, w} \/ row.lease # "live"

\* claim_build's WHERE.
Claimable(row, w) ==
    /\ Active(row)
    /\ row.owner \in {NoWorker, w} \/ row.lease # "live"

Claim(b, w) ==
    /\ job[b][w].pc = "queued"
    /\ IF Claimable(build[b], w)
       THEN /\ build' = [build EXCEPT ![b].owner = w, ![b].lease = "live"]
            /\ Goto(b, w, "begin")
       ELSE UNCHANGED build /\ Goto(b, w, "done")
    /\ UNCHANGED <<task, reaping, runs, lost>>

\* The pipelines changed since the request: failed, and the lease is kept.
PlanFails(b, w) ==
    /\ job[b][w].pc = "begin" /\ job[b][w].leased
    /\ build' = [build EXCEPT ![b].status = "failed"]
    /\ Goto(b, w, "done")
    /\ UNCHANGED <<task, reaping, runs, lost>>

Begin(b, w) ==
    /\ job[b][w].pc = "begin"
    /\ build' = [build EXCEPT ![b].status = "running"]
    /\ Goto(b, w, "work")
    /\ UNCHANGED <<task, reaping, runs, lost>>

NextTask(b, w) == Plan[job[b][w].at]
MoreToDo(b, w) == job[b][w].pc = "work" /\ job[b][w].at <= Len(Plan)

\* blocked_by: an input failed, or was itself blocked.
Blocked(j, t) == Inputs[t] \cap j.failed # {}

\* A mutant: a blocked transform is not added to failed_outputs.
BlockedIsForgotten(j, t) == [j EXCEPT !.at = @ + 1]

SkipBlocked(j, t) == [j EXCEPT !.at = @ + 1, !.failed = @ \cup {t}]

BlockTask(b, w) ==
    /\ MoreToDo(b, w)
    /\ Blocked(job[b][w], NextTask(b, w))
    /\ task' = [task EXCEPT ![b][NextTask(b, w)] = "failed"]
    /\ job' = [job EXCEPT ![b][w] = SkipBlocked(@, NextTask(b, w))]
    /\ UNCHANGED <<build, reaping, runs, lost>>

StartTask(b, w) ==
    /\ MoreToDo(b, w)
    /\ ~Blocked(job[b][w], NextTask(b, w))
    /\ task' = [task EXCEPT ![b][NextTask(b, w)] = "running"]
    /\ Goto(b, w, IF job[b][w].leased THEN "heartbeat" ELSE "transform")
    /\ UNCHANGED <<build, reaping, runs, lost>>

\* renew_build_lease looks at the owner only; its answer is not used.
Heartbeat(b, w) ==
    /\ job[b][w].pc = "heartbeat"
    /\ build' = [build EXCEPT ![b].lease = IF build[b].owner = w THEN "live" ELSE @]
    /\ Goto(b, w, "transform")
    /\ UNCHANGED <<task, reaping, runs, lost>>

Outcome(j, t, ok) ==
    [j EXCEPT !.pc = "work", !.at = @ + 1, !.failed = IF ok THEN @ ELSE @ \cup {t}]

\* The transform runs, and its task is recorded.
RunTask(b, w, ok) ==
    /\ job[b][w].pc = "transform"
    /\ LET t == NextTask(b, w) IN
           /\ task' = [task EXCEPT ![b][t] = IF ok THEN "succeeded" ELSE "failed"]
           /\ job' = [job EXCEPT ![b][w] = Outcome(@, t, ok)]
           /\ runs' = [runs EXCEPT ![b][t] = IF @ < Handed THEN @ + 1 ELSE @]
    /\ UNCHANGED <<build, reaping, lost>>

\* final_status is written whoever holds the build by now.
Finish(b, w) ==
    /\ job[b][w].pc = "work" /\ job[b][w].at > Len(Plan)
    /\ build' = [build EXCEPT ![b].status = IF job[b][w].failed = {} THEN "succeeded" ELSE "failed"]
    /\ Goto(b, w, IF job[b][w].leased THEN "release" ELSE "done")
    /\ UNCHANGED <<task, reaping, runs, lost>>

\* A mutant: release_build without its worker argument.
ReleaseAny(row, w) == TRUE

ReleaseOwn(row, w) == row.owner = w

\* release_build ends the lease and leaves claimed_by.
Release(b, w) ==
    /\ job[b][w].pc = "release"
    /\ build' = [build EXCEPT ![b].lease = IF ReleaseOwn(build[b], w) THEN "none" ELSE @]
    /\ Goto(b, w, "done")
    /\ UNCHANGED <<task, reaping, runs, lost>>

\* A store call outside the per-task try raises; nobody catches it.
Raise(b, w) ==
    /\ Faults /\ job[b][w].pc \in Steps
    /\ Goto(b, w, "raised")
    /\ UNCHANGED <<build, task, reaping, runs, lost>>

Execute(b, w) ==
    \/ Claim(b, w) \/ PlanFails(b, w) \/ Begin(b, w)
    \/ BlockTask(b, w) \/ StartTask(b, w) \/ Heartbeat(b, w)
    \/ \E ok \in BOOLEAN : RunTask(b, w, ok)
    \/ Finish(b, w) \/ Release(b, w)

-----------------------------------------------------------------------------
(* The reaper, the clock, and death. *)

LeaseExpires(b) ==
    /\ build[b].lease = "live"
    /\ Executing(b, build[b].owner) => Slow
    /\ build' = [build EXCEPT ![b].lease = "expired"]
    /\ lost' = [lost EXCEPT ![b] = @ \cup AtWork(b)]
    /\ UNCHANGED <<task, job, reaping, runs>>

\* A mutant: every build whose lease is over.
AnyExpired(row) == row.lease = "expired"

\* A mutant: a claimed build that was never begun is passed over.
RunningExpired(row) == row.status = "running" /\ row.lease = "expired"

Reapable(row) == Active(row) /\ row.lease = "expired"

\* reap_expired_builds: the ids are read ...
ReapSelect(w) ==
    /\ Alive(w) /\ reaping[w] = {}
    /\ \E b \in Builds : Reapable(build[b])
    /\ reaping' = [reaping EXCEPT ![w] = {b \in Builds : Reapable(build[b])}]
    /\ UNCHANGED <<build, task, job, runs, lost>>

Reaped(row) == [NoBuild EXCEPT !.status = "failed"]

\* ... and then failed by id, with no second look.
ReapFail(w) ==
    /\ reaping[w] # {}
    /\ build' = [b \in Builds |-> IF b \in reaping[w] THEN Reaped(build[b]) ELSE build[b]]
    /\ reaping' = [reaping EXCEPT ![w] = {}]
    /\ lost' = [b \in Builds |-> lost[b] \cup IF b \in reaping[w] THEN AtWork(b) ELSE {}]
    /\ UNCHANGED <<task, job, runs>>

Reap(w) == ReapSelect(w) \/ ReapFail(w)

Die(w) ==
    /\ w \in Mortal /\ Alive(w)
    /\ job' = [b \in Builds |-> [job[b] EXCEPT ![w] = [pc |-> "dead"]]]
    /\ reaping' = [reaping EXCEPT ![w] = {}]
    /\ UNCHANGED <<build, task, runs, lost>>

-----------------------------------------------------------------------------
BuildsNext ==
    \/ \E b \in Builds, w \in Workers :
          \/ Request(b, w, FALSE)
          \/ Waits /\ Request(b, w, TRUE)
          \/ HandOver(b, w) \/ Execute(b, w) \/ Raise(b, w)
    \/ \E b \in Builds : LeaseExpires(b)
    \/ \E w \in Workers : Reap(w) \/ Die(w)

BuildsSpec == BuildsInit /\ [][BuildsNext]_vars

\* A transform ends, the clock runs, and the scheduler's health pass of every
\* replica that lives reaps.
FairBuildsSpec ==
    /\ BuildsSpec
    /\ \A b \in Builds : WF_vars(LeaseExpires(b)) /\ \A w \in Workers : WF_vars(Execute(b, w))
    /\ \A w \in Workers : WF_vars(Reap(w))

-----------------------------------------------------------------------------
(* What is claimed of builds. *)

\* test_build_leases.py: "must not build twice".  However many replicas are
\* asked, early or late, a transform runs once, and once more for each replica
\* that died or raised, as long as no replica worked past its lease.
Stopped(b) == {w \in Workers : job[b][w].pc \in {"dead", "raised"}}

ExecutedOnce ==
    \A b \in Builds, t \in Transforms :
        lost[b] = {} => runs[b][t] <= 1 + Cardinality(Stopped(b))

\* Two replicas are inside execute of one build at once only if the lease of
\* one of them ended under it, whoever took over from whom.
AtMostOneExecutor ==
    \A b \in Builds : \A v, w \in Workers \ lost[b] :
        Executing(b, v) /\ Executing(b, w) => v = w

\* A build that reads succeeded has succeeded in every transform of its plan,
\* and a transform that succeeded had all its inputs built before it.
StatusMatchesTasks ==
    \A b \in Builds, t \in Transforms :
        /\ build[b].status = "succeeded" => task[b][t] = "succeeded"
        /\ task[b][t] = "succeeded" => \A u \in Inputs[t] : task[b][u] = "succeeded"

\* A build that has ended keeps the outcome it ended with, although its lease
\* may outlive it: a crash or a failed plan leaves it behind.
Ended(b) == build[b].status \in {"succeeded", "failed"}

TerminalStays == [][\A b \in Builds : Ended(b) => build'[b].status = build[b].status]_vars

\* "Leases expire so a replica that dies mid-build doesn't strand its work
\* forever": a build that was claimed ends.
ClaimedBuildEnds == \A b \in Builds : build[b].lease # "none" ~> Ended(b)
=============================================================================
