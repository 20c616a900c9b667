----------------------------- MODULE Scheduler -----------------------------
(***************************************************************************)
(* One schedule of laurelin/core/scheduler.py and the replicas that poll   *)
(* it.  A replica reads the due list, claims the schedule with one         *)
(* conditional UPDATE, reads the row again under the claim, runs the       *)
(* action, and records the run.  Between any two of these the other        *)
(* replicas, the clock, the watched datasets and the operators move.       *)
(*                                                                         *)
(* Time is counted in firing windows of the cron expression, so next_fire  *)
(* is the next tick.  The 300 seconds of a lease are not counted: a lease  *)
(* is live until LeaseExpires.                                             *)
(***************************************************************************)
EXTENDS Naturals, FiniteSets

CONSTANTS
    Workers,        \* the replicas' scheduler threads
    NoWorker,       \* claimed_by IS NULL
    Datasets,       \* the datasets an upstream schedule may watch
    Mortal,         \* the replicas that may die
    Slow,           \* the replicas whose actions may outlive their 300 s lease
    Raising,        \* the replicas whose passes may raise, for want of the database
    Puts,           \* the definitions operators may PUT
    Deletes,        \* whether operators may delete the schedule
    RunNow,         \* whether operators may ask for a run
    MaxClock,       \* bound: windows in a behaviour
    MaxVersion,     \* bound: versions of a dataset in a behaviour
    FireCap         \* bound: firings of one window are counted up to this

ASSUME WorkersAssumption == NoWorker \notin Workers /\ Mortal \cup Slow \cup Raising \subseteq Workers
ASSUME BoundsAssumption == MaxClock \in Nat \ {0} /\ MaxVersion \in Nat /\ FireCap \in Nat
ASSUME SwitchAssumption == {Deletes, RunNow} \subseteq BOOLEAN

Definitions == [enabled : BOOLEAN, trigger : {"cron", "upstream"}, upstream : Datasets]

ASSUME PutsAssumption == Puts \subseteq Definitions

VARIABLES
    sched,      \* the schedules row, NoRow when there is none
    clock,      \* utcnow
    latest,     \* each dataset's latest version, 0 for none
    worker,     \* the local state of each replica's pass
    asked,      \* POST .../run between its read and its write
    fired,      \* how often each window or version was acted on by a replica
                \* that kept its claim until it recorded, or still has it (history)
    acted       \* the newest version of each dataset acted on (history)

vars == <<sched, clock, latest, worker, asked, fired, acted>>

NoRow == [enabled |-> FALSE]
Exists == sched # NoRow

\* A window is named by the next_run_at that was served, or by the version.
Marks == {"cron"} \X (1..MaxClock) \cup Datasets \X (1..MaxVersion)

\* next_fire(cron) at the present time.
NextFire == clock + 1

\* A NULL next_run_at is 0; a NULL watermark is 0 too, which compares as None
\* does: every version is above it.
Row(d, next) ==
    [enabled |-> d.enabled, trigger |-> d.trigger, upstream |-> d.upstream,
     next |-> next, watermark |-> 0, claimedBy |-> NoWorker, live |-> FALSE]

FirstFire(d) == IF d.trigger = "cron" /\ d.enabled THEN NextFire ELSE 0

Idle == [pc |-> "idle"]

SchedulerInit ==
    /\ clock = 1
    /\ latest = [d \in Datasets |-> 0]
    /\ \E d \in Definitions : d.enabled /\ sched = Row(d, FirstFire(d))
    /\ worker = [w \in Workers |-> Idle]
    /\ asked = NoRow
    /\ fired = [m \in Marks |-> 0]
    /\ acted = [d \in Datasets |-> 0]

-----------------------------------------------------------------------------
(* Due or not. *)

CronDue(s) == s.next # 0 /\ s.next <= clock

\* _upstream_advanced
UpstreamAdvanced(s) == latest[s.upstream] > s.watermark

\* _still_due, and what the due list and _tick_store ask before claiming.
Due(s) ==
    /\ s.enabled
    /\ IF s.trigger = "upstream" THEN UpstreamAdvanced(s) ELSE CronDue(s)

\* A mutant: the due list is trusted once the claim is won.
TrustDueList(s) == s.enabled

StillDue(s) == Due(s)

-----------------------------------------------------------------------------
(* One pass of a replica. *)

\* The row is on the due list.
Poll(w) ==
    /\ worker[w].pc = "idle"
    /\ Exists /\ Due(sched)
    /\ worker' = [worker EXCEPT ![w] = [pc |-> "claim"]]
    /\ UNCHANGED <<sched, clock, latest, asked, fired, acted>>

\* claim_schedule's WHERE: the claim is free or its lease is over, and a cron
\* schedule is still due.  The watermark is not looked at here.
Claimable(s) ==
    /\ s.enabled
    /\ s.claimedBy = NoWorker \/ ~s.live
    /\ s.trigger = "upstream" \/ CronDue(s)

\* A mutant: the conditional UPDATE forgets the claim that is there.
ClaimableByAnyone(s) == s.enabled /\ (s.trigger = "upstream" \/ CronDue(s))

\* A mutant: a claim is for ever.
ClaimableIfFree(s) == Claimable(s) /\ s.claimedBy = NoWorker

ClaimWins(s) == Claimable(s)

Claim(w) ==
    /\ worker[w].pc = "claim"
    /\ IF Exists /\ ClaimWins(sched)
       THEN /\ sched' = [sched EXCEPT !.claimedBy = w, !.live = TRUE]
            /\ worker' = [worker EXCEPT ![w] = [pc |-> "recheck", claimed |-> TRUE]]
       ELSE /\ worker' = [worker EXCEPT ![w] = Idle]
            /\ UNCHANGED sched
    /\ UNCHANGED <<clock, latest, asked, fired, acted>>

\* The claimant reads the row again and finds nothing to do.
Release(w) ==
    /\ worker[w].pc = "recheck"
    /\ ~(Exists /\ StillDue(sched))
    /\ worker' = [worker EXCEPT ![w] = Idle]
    /\ sched' = IF Exists /\ sched.claimedBy = w
                THEN [sched EXCEPT !.claimedBy = NoWorker, !.live = FALSE]
                ELSE sched
    /\ UNCHANGED <<clock, latest, asked, fired, acted>>

\* What a run serves: the window it was due for, or the version it saw.
MarkOf(s) == IF s.trigger = "cron" THEN <<"cron", s.next>> ELSE <<s.upstream, latest[s.upstream]>>

\* A run of m counts, and counts no longer.
Counted(m) == IF m \in Marks /\ fired[m] < FireCap THEN [fired EXCEPT ![m] = @ + 1] ELSE fired
Excused(m) == IF m \in Marks /\ fired[m] > 0 THEN [fired EXCEPT ![m] = @ - 1] ELSE fired

\* _run up to run_action: what will be recorded is computed before the action.
Start(w) ==
    /\ worker[w].pc = "recheck"
    /\ Exists /\ StillDue(sched)
    /\ worker' = [worker EXCEPT ![w] =
                    [pc |-> "run", claimed |-> worker[w].claimed, mark |-> MarkOf(sched),
                     trigger |-> sched.trigger, upstream |-> sched.upstream,
                     next |-> IF sched.trigger = "cron" THEN NextFire ELSE 0,
                     watermark |-> IF sched.trigger = "upstream" THEN latest[sched.upstream] ELSE 0]]
    /\ fired' = IF worker[w].claimed THEN Counted(MarkOf(sched)) ELSE fired
    /\ acted' = IF sched.trigger = "upstream"
                THEN [acted EXCEPT ![sched.upstream] = latest[sched.upstream]] ELSE acted
    /\ UNCHANGED <<sched, clock, latest, asked>>

\* A mutant: the watermark is read when the run is recorded.
WatermarkAtTheEnd(r) == IF r.trigger = "upstream" THEN latest[r.upstream] ELSE 0

RecordedWatermark(r) == r.watermark

\* The row after record_schedule_run: COALESCE keeps a watermark.
Recorded(s, r) ==
    [s EXCEPT !.next = r.next,
              !.watermark = IF RecordedWatermark(r) = 0 THEN s.watermark ELSE RecordedWatermark(r),
              !.claimedBy = NoWorker, !.live = FALSE]

\* A mutant: record_schedule_run without its worker argument.
Unfenced(w) == TRUE

\* AND claimed_by = ?
Fence(w) == sched.claimedBy = w

\* The action has ended, well or badly: both are recorded the same way.
Record(w) ==
    /\ worker[w].pc = "run"
    /\ IF Exists /\ Fence(w)
       THEN /\ sched' = Recorded(sched, worker[w])
            /\ fired' = IF worker[w].claimed THEN fired ELSE Counted(worker[w].mark)
       ELSE UNCHANGED <<sched, fired>>
    /\ worker' = [worker EXCEPT ![w] = Idle]
    /\ UNCHANGED <<clock, latest, asked, acted>>

\* w is at work on the schedule, and its claim has been there all the time.
Claimed(w) == worker[w].pc \in {"recheck", "run"} /\ worker[w].claimed

\* The replica leaves its pass where it is, and the claim with it.
Leave(w, frame) ==
    /\ worker' = [worker EXCEPT ![w] = frame]
    /\ fired' = IF Claimed(w) /\ worker[w].pc = "run" THEN Excused(worker[w].mark) ELSE fired
    /\ UNCHANGED <<sched, clock, latest, asked, acted>>

\* The replica dies, whatever it was doing.
Die(w) == w \in Mortal /\ worker[w].pc # "dead" /\ Leave(w, [pc |-> "dead"])

\* A read, a release or record_schedule_run raises, in the except clause too:
\* the loop swallows it and polls again.
Raise(w) == w \in Raising /\ worker[w].pc \notin {"idle", "dead"} /\ Leave(w, Idle)

-----------------------------------------------------------------------------
(* The rest of the world. *)

\* The claim is over while its holder may still be at work.
ClaimLost ==
    LET w == sched.claimedBy IN
    IF w # NoWorker /\ Claimed(w)
    THEN /\ worker' = [worker EXCEPT ![w].claimed = FALSE]
         /\ fired' = IF worker[w].pc = "run" THEN Excused(worker[w].mark) ELSE fired
    ELSE UNCHANGED <<worker, fired>>

\* lease_expires_at < utcnow
LeaseExpires ==
    /\ Exists /\ sched.live
    /\ sched.claimedBy \in Slow \/ ~Claimed(sched.claimedBy)
    /\ sched' = [sched EXCEPT !.live = FALSE]
    /\ ClaimLost
    /\ UNCHANGED <<clock, latest, asked, acted>>

Tick ==
    /\ clock < MaxClock
    /\ clock' = clock + 1
    /\ UNCHANGED <<sched, latest, worker, asked, fired, acted>>

NewVersion(d) ==
    /\ latest[d] < MaxVersion
    /\ latest' = [latest EXCEPT ![d] = @ + 1]
    /\ UNCHANGED <<sched, clock, worker, asked, fired, acted>>

\* upsert_schedule: ON CONFLICT updates the definition and next_run_at only.
Upsert(d, next, watermark) ==
    IF Exists
    THEN [sched EXCEPT !.enabled = d.enabled, !.trigger = d.trigger,
                       !.upstream = d.upstream, !.next = next]
    ELSE [Row(d, next) EXCEPT !.watermark = watermark]

\* PUT /schedules/{name}
Put(d) ==
    /\ sched' = Upsert(d, FirstFire(d), 0)
    /\ UNCHANGED <<clock, latest, worker, asked, fired, acted>>

Delete ==
    /\ Deletes /\ Exists
    /\ sched' = NoRow
    /\ ClaimLost
    /\ UNCHANGED <<clock, latest, asked, acted>>

\* POST /schedules/{name}/run reads the row ...
AskRun ==
    /\ RunNow /\ asked = NoRow
    /\ Exists /\ sched.enabled
    /\ asked' = [sched EXCEPT !.next = clock,
                              !.watermark = IF sched.trigger = "upstream" THEN 0 ELSE @]
    /\ UNCHANGED <<sched, clock, latest, worker, fired, acted>>

\* ... and writes it back.
QueueRun ==
    /\ asked # NoRow
    /\ sched' = Upsert(asked, asked.next, asked.watermark)
    /\ asked' = NoRow
    /\ UNCHANGED <<clock, latest, worker, fired, acted>>

-----------------------------------------------------------------------------
Pass(w) == Claim(w) \/ Release(w) \/ Start(w) \/ Record(w)

SchedulerNext ==
    \/ \E w \in Workers : Poll(w) \/ Pass(w) \/ Die(w) \/ Raise(w)
    \/ LeaseExpires \/ Tick
    \/ \E d \in Datasets : NewVersion(d)
    \/ \E d \in Puts : Put(d)
    \/ Delete \/ AskRun \/ QueueRun

SchedulerSpec == SchedulerInit /\ [][SchedulerNext]_vars

\* Every replica polls for ever and finishes its pass; an old lease runs out.
FairSchedulerSpec ==
    /\ SchedulerSpec
    /\ \A w \in Workers : WF_vars(Poll(w)) /\ WF_vars(Pass(w))
    /\ WF_vars(LeaseExpires)

-----------------------------------------------------------------------------
(* What is claimed of the scheduler. *)

RowType ==
    [enabled : BOOLEAN, trigger : {"cron", "upstream"}, upstream : Datasets,
     next : 0..(MaxClock + 1), watermark : 0..MaxVersion,
     claimedBy : Workers \cup {NoWorker}, live : BOOLEAN]

RunType ==
    [pc : {"run"}, claimed : BOOLEAN,
     mark : {"cron"} \X (0..(MaxClock + 1)) \cup Datasets \X (0..MaxVersion),
     trigger : {"cron", "upstream"}, upstream : Datasets,
     next : 0..(MaxClock + 1), watermark : 0..MaxVersion]

PassType ==
    [pc : {"idle", "claim", "dead"}] \cup [pc : {"recheck"}, claimed : BOOLEAN] \cup RunType

\* The variables hold what their comments say, and a lease is live only while
\* somebody is named as its holder.
TypeOK ==
    /\ sched \in RowType \cup {NoRow}
    /\ Exists => (sched.live => sched.claimedBy # NoWorker)
    /\ clock \in 1..MaxClock
    /\ latest \in [Datasets -> 0..MaxVersion]
    /\ worker \in [Workers -> PassType]
    /\ asked \in RowType \cup {NoRow}
    /\ fired \in [Marks -> 0..FireCap]
    /\ acted \in [Datasets -> 0..MaxVersion]

\* scheduler.py: "Exactly once across replicas".  No window of a cron schedule
\* and no version of a watched dataset is acted on twice, however many
\* replicas saw it on their due lists: it is acted on again only after a
\* replica died, raised or overran its lease before it recorded.
OncePerWindow == \A m \in Marks : fired[m] <= 1

\* Two replicas are inside the action of a schedule at once only when one of
\* them has overrun its lease, or an operator deleted the schedule under it.
AtMostOneRunner ==
    \A v, w \in Workers :
        worker[v].pc = "run" /\ Claimed(v) /\ worker[w].pc = "run" /\ Claimed(w) => v = w

\* A schedule that is not due has been run for everything it watches: the
\* watermark never passes a version that no run could have seen.
CaughtUpMeansActed ==
    Exists /\ sched.trigger = "upstream" /\ ~UpstreamAdvanced(sched)
        => latest[sched.upstream] <= acted[sched.upstream]

\* What is due is acted on once: never twice, and never passed over.
ServedOnce == OncePerWindow /\ CaughtUpMeansActed

\* A run that is recorded moves the schedule forward: neither the next firing
\* time nor the watermark goes back to what a stalled replica computed.
Forward ==
    Exists /\ Exists' => sched'.next >= sched.next /\ sched'.watermark >= sched.watermark

MovesForward == [][Forward]_vars

\* "A replica that dies mid-run has its claim expire rather than wedging the
\* schedule forever": what is due is run, and is then no longer due, as long as
\* one replica lives whose actions end within their lease.
DueIsServed == (Exists /\ Due(sched)) ~> ~(Exists /\ Due(sched))
=============================================================================
