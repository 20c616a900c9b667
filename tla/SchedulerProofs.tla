-------------------------- MODULE SchedulerProofs --------------------------
(***************************************************************************)
(* The claims of core/scheduler.py for any replicas, datasets and          *)
(* operators: a replica whose claim has been there all the time is the one *)
(* the row names.                                                          *)
(***************************************************************************)
EXTENDS Scheduler, TLAPS

\* A claim ends when the lease does or the row goes, and both are noticed.
ClaimIsHeld ==
    \A w \in Workers : Claimed(w) => Exists /\ sched.claimedBy = w /\ sched.live

SchedulerInv == TypeOK /\ ClaimIsHeld

-----------------------------------------------------------------------------
\* A row is not the missing row: it has more than one column.
LEMMA RowsExist == NoRow \notin RowType
<1> SUFFICES ASSUME NoRow \in RowType PROVE FALSE
  OBVIOUS
<1>1. "live" \in DOMAIN NoRow
  BY DEF RowType
<1> QED BY <1>1 DEF NoRow

LEMMA NewRowTyped ==
    ASSUME NEW d \in Definitions, NEW next \in 0..(MaxClock + 1)
    PROVE  /\ Row(d, next) \in RowType
           /\ Row(d, next).claimedBy = NoWorker /\ ~Row(d, next).live
BY BoundsAssumption DEF Definitions, Row, RowType

LEMMA FirstFireTyped ==
    ASSUME TypeOK, NEW d \in Definitions
    PROVE  FirstFire(d) \in 0..(MaxClock + 1)
BY BoundsAssumption DEF TypeOK, FirstFire, NextFire

LEMMA MarkTyped ==
    ASSUME TypeOK, Exists
    PROVE  MarkOf(sched) \in {"cron"} \X (0..(MaxClock + 1)) \cup Datasets \X (0..MaxVersion)
<1>1. sched \in RowType
  BY DEF TypeOK, Exists
<1> QED BY <1>1 DEF RowType, MarkOf, TypeOK

LEMMA CountingTyped ==
    ASSUME TypeOK, NEW m
    PROVE  Counted(m) \in [Marks -> 0..FireCap] /\ Excused(m) \in [Marks -> 0..FireCap]
BY BoundsAssumption DEF TypeOK, Counted, Excused

\* The worker of a pass that has a claim, after the claim is over.
LEMMA UnclaimedTyped ==
    ASSUME TypeOK, NEW w \in Workers, Claimed(w)
    PROVE  /\ [worker[w] EXCEPT !.claimed = FALSE] \in PassType
           /\ ~[worker[w] EXCEPT !.claimed = FALSE].claimed
<1>1. worker[w] \in PassType /\ worker[w].pc \in {"recheck", "run"}
  BY DEF TypeOK, Claimed
<1>2. worker[w] \in [pc : {"recheck"}, claimed : BOOLEAN] \/ worker[w] \in RunType
  BY <1>1 DEF PassType
<1>3. CASE worker[w] \in [pc : {"recheck"}, claimed : BOOLEAN]
  BY <1>3 DEF PassType
<1>4. CASE worker[w] \in RunType
  BY <1>4 DEF PassType, RunType
<1> QED BY <1>2, <1>3, <1>4

-----------------------------------------------------------------------------
LEMMA SchedulerStarts == SchedulerInit => SchedulerInv
<1> SUFFICES ASSUME SchedulerInit PROVE SchedulerInv
  OBVIOUS
<1>1. PICK d \in Definitions : sched = Row(d, FirstFire(d))
  BY DEF SchedulerInit
<1>2. clock \in 1..MaxClock /\ FirstFire(d) \in 0..(MaxClock + 1)
  BY BoundsAssumption DEF SchedulerInit, FirstFire, NextFire
<1>3. sched \in RowType /\ ~sched.live
  BY <1>1, <1>2, NewRowTyped
<1>4. worker \in [Workers -> PassType] /\ \A w \in Workers : worker[w].pc = "idle"
  BY DEF SchedulerInit, Idle, PassType
<1>5. /\ latest \in [Datasets -> 0..MaxVersion] /\ acted \in [Datasets -> 0..MaxVersion]
      /\ fired \in [Marks -> 0..FireCap] /\ asked = NoRow
  BY BoundsAssumption DEF SchedulerInit
<1> QED BY <1>2, <1>3, <1>4, <1>5 DEF SchedulerInv, TypeOK, ClaimIsHeld, Claimed

\* One replica moves to where it has no claim, and the row keeps whatever
\* claim another replica has on it.
LEMMA UnclaimedMove ==
    ASSUME SchedulerInv, NEW w \in Workers, NEW to \in PassType,
           worker' = [worker EXCEPT ![w] = to],
           to.pc \notin {"recheck", "run"},
           sched' \in RowType \cup {NoRow},
           Exists' => (sched'.live => sched'.claimedBy # NoWorker),
           \/ sched' = sched
           \/ sched.claimedBy = w \/ ~Exists,
           fired' \in [Marks -> 0..FireCap], UNCHANGED <<clock, latest, asked, acted>>
    PROVE  SchedulerInv'
<1>1. worker' \in [Workers -> PassType]
  BY DEF SchedulerInv, TypeOK
<1>2. TypeOK'
  BY <1>1 DEF SchedulerInv, TypeOK, Marks
<1>3. ASSUME NEW v \in Workers, Claimed(v)'
      PROVE  v # w /\ Claimed(v)
  BY <1>3 DEF SchedulerInv, TypeOK, Claimed
<1>4. ClaimIsHeld'
  <2> SUFFICES ASSUME NEW v \in Workers, Claimed(v)'
               PROVE  Exists' /\ sched'.claimedBy = v /\ sched'.live
    BY DEF ClaimIsHeld
  <2>1. v # w /\ Exists /\ sched.claimedBy = v /\ sched.live
    BY <1>3 DEF SchedulerInv, ClaimIsHeld
  <2> QED BY <2>1 DEF Exists
<1> QED BY <1>2, <1>4 DEF SchedulerInv

LEMMA PollKeeps == ASSUME SchedulerInv, NEW w \in Workers, Poll(w) PROVE SchedulerInv'
<1>1. [pc |-> "claim"] \in PassType
  BY DEF PassType
<1> QED BY <1>1, UnclaimedMove DEF Poll, SchedulerInv, TypeOK, Exists

LEMMA ReleaseKeeps == ASSUME SchedulerInv, NEW w \in Workers, Release(w) PROVE SchedulerInv'
<1>1. Idle \in PassType /\ Idle.pc = "idle"
  BY DEF Idle, PassType
<1>2. CASE Exists /\ sched.claimedBy = w
  <2>1. sched \in RowType
    BY <1>2 DEF SchedulerInv, TypeOK, Exists
  <2>2. sched' = [sched EXCEPT !.claimedBy = NoWorker, !.live = FALSE]
    BY <1>2 DEF Release
  <2>3. sched' \in RowType /\ ~sched'.live
    BY <2>1, <2>2 DEF RowType
  <2> QED BY <1>1, <1>2, <2>3, UnclaimedMove DEF Release, SchedulerInv, TypeOK
<1>3. CASE ~(Exists /\ sched.claimedBy = w)
  BY <1>1, <1>3, UnclaimedMove DEF Release, SchedulerInv, TypeOK, Exists
<1> QED BY <1>2, <1>3

LEMMA RecordKeeps == ASSUME SchedulerInv, NEW w \in Workers, Record(w) PROVE SchedulerInv'
<1>1. Idle \in PassType /\ Idle.pc = "idle"
  BY DEF Idle, PassType
<1>2. worker[w] \in RunType
  BY DEF SchedulerInv, TypeOK, PassType, Record
<1>3. CASE Exists /\ Fence(w)
  <2>1. sched \in RowType
    BY <1>3 DEF SchedulerInv, TypeOK, Exists
  <2>2. sched' = Recorded(sched, worker[w])
    BY <1>3 DEF Record
  <2>3. sched' \in RowType /\ ~sched'.live
    BY <1>2, <2>1, <2>2 DEF RowType, RunType, Recorded, RecordedWatermark
  <2>4. fired' \in [Marks -> 0..FireCap]
    BY <1>3, CountingTyped DEF Record, SchedulerInv, TypeOK
  <2> QED BY <1>1, <1>3, <2>3, <2>4, UnclaimedMove DEF Record, Fence
<1>4. CASE ~(Exists /\ Fence(w))
  BY <1>1, <1>4, UnclaimedMove DEF Record, SchedulerInv, TypeOK, Exists
<1> QED BY <1>3, <1>4

LEMMA LeaveKeeps ==
    ASSUME SchedulerInv, NEW w \in Workers, NEW frame \in {Idle, [pc |-> "dead"]}, Leave(w, frame)
    PROVE  SchedulerInv'
<1>1. frame \in PassType /\ frame.pc \in {"idle", "dead"}
  BY DEF PassType, Idle
<1>2. fired' \in [Marks -> 0..FireCap]
  BY CountingTyped DEF Leave, SchedulerInv, TypeOK
<1> QED BY <1>1, <1>2, UnclaimedMove DEF Leave, SchedulerInv, TypeOK, Exists

LEMMA QuitKeeps ==
    ASSUME SchedulerInv, NEW w \in Workers, Die(w) \/ Raise(w) PROVE SchedulerInv'
BY LeaveKeeps DEF Die, Raise

-----------------------------------------------------------------------------
\* claim_schedule wins only where no live claim is, so no other replica has one.
LEMMA ClaimKeeps == ASSUME SchedulerInv, NEW w \in Workers, Claim(w) PROVE SchedulerInv'
<1>1. CASE Exists /\ ClaimWins(sched)
  <2>1. sched \in RowType /\ (sched.claimedBy = NoWorker \/ ~sched.live)
    BY <1>1 DEF SchedulerInv, TypeOK, Exists, ClaimWins, Claimable
  <2>2. /\ sched' = [sched EXCEPT !.claimedBy = w, !.live = TRUE]
        /\ worker' = [worker EXCEPT ![w] = [pc |-> "recheck", claimed |-> TRUE]]
        /\ UNCHANGED <<clock, latest, asked, fired, acted>>
    BY <1>1 DEF Claim
  <2>3. sched' \in RowType /\ sched'.live /\ sched'.claimedBy = w /\ w # NoWorker
    BY <2>1, <2>2, WorkersAssumption DEF RowType
  <2>4. worker' \in [Workers -> PassType]
    BY <2>2 DEF SchedulerInv, TypeOK, PassType
  <2>5. TypeOK'
    BY <2>2, <2>3, <2>4 DEF SchedulerInv, TypeOK
  <2>6. \A v \in Workers : ~Claimed(v)
    BY <2>1, WorkersAssumption DEF SchedulerInv, ClaimIsHeld
  <2>7. ASSUME NEW v \in Workers, Claimed(v)' PROVE v = w
    BY <2>2, <2>6, <2>7 DEF SchedulerInv, TypeOK, Claimed
  <2>8. Exists'
    BY <2>3, RowsExist DEF Exists
  <2> QED BY <2>3, <2>5, <2>7, <2>8 DEF SchedulerInv, ClaimIsHeld
<1>2. CASE ~(Exists /\ ClaimWins(sched))
  <2>1. Idle \in PassType /\ Idle.pc = "idle"
    BY DEF Idle, PassType
  <2> QED BY <1>2, <2>1, UnclaimedMove DEF Claim, SchedulerInv, TypeOK, Exists
<1> QED BY <1>1, <1>2

\* A start keeps the claim it has, or has none.
LEMMA StartKeeps == ASSUME SchedulerInv, NEW w \in Workers, Start(w) PROVE SchedulerInv'
<1> DEFINE to == [pc |-> "run", claimed |-> worker[w].claimed, mark |-> MarkOf(sched),
                  trigger |-> sched.trigger, upstream |-> sched.upstream,
                  next |-> IF sched.trigger = "cron" THEN NextFire ELSE 0,
                  watermark |-> IF sched.trigger = "upstream" THEN latest[sched.upstream] ELSE 0]
<1>1. sched \in RowType /\ Exists
  BY DEF SchedulerInv, TypeOK, Exists, Start
<1>2. worker[w] \in [pc : {"recheck"}, claimed : BOOLEAN]
  BY DEF SchedulerInv, TypeOK, PassType, RunType, Start
<1>3. to \in RunType
  <2>1. NextFire \in 0..(MaxClock + 1) /\ latest[sched.upstream] \in 0..MaxVersion
    BY <1>1, BoundsAssumption DEF SchedulerInv, TypeOK, NextFire, RowType
  <2> QED BY <1>1, <1>2, <2>1, MarkTyped, BoundsAssumption DEF SchedulerInv, RunType, RowType
<1>4. to.pc = "run" /\ to.claimed = worker[w].claimed
  OBVIOUS
<1>5. worker' = [worker EXCEPT ![w] = to]
  BY DEF Start
<1> HIDE DEF to
<1>6. worker' \in [Workers -> PassType]
  BY <1>3, <1>5 DEF SchedulerInv, TypeOK, PassType
<1>7. fired' \in [Marks -> 0..FireCap]
  BY CountingTyped DEF Start, SchedulerInv, TypeOK
<1>8. acted' \in [Datasets -> 0..MaxVersion]
  BY <1>1 DEF Start, SchedulerInv, TypeOK, RowType
<1>9. TypeOK'
  BY <1>6, <1>7, <1>8 DEF Start, SchedulerInv, TypeOK, Exists
<1>10. ASSUME NEW v \in Workers, Claimed(v)' PROVE Claimed(v)
  BY <1>2, <1>4, <1>5, <1>10 DEF SchedulerInv, TypeOK, Claimed
<1> QED BY <1>9, <1>10 DEF Start, SchedulerInv, ClaimIsHeld, Exists

\* Once a claim is over nobody has one.
LEMMA ClaimLostKeeps ==
    ASSUME SchedulerInv, Exists, ClaimLost
    PROVE  /\ worker' \in [Workers -> PassType]
           /\ fired' \in [Marks -> 0..FireCap]
           /\ \A v \in Workers : ~Claimed(v)'
<1>1. sched.claimedBy \in Workers \cup {NoWorker}
  BY DEF SchedulerInv, TypeOK, Exists, RowType
<1>2. \A v \in Workers : Claimed(v) => sched.claimedBy = v
  BY DEF SchedulerInv, ClaimIsHeld
<1>3. CASE sched.claimedBy # NoWorker /\ Claimed(sched.claimedBy)
  <2> DEFINE w == sched.claimedBy
             to == [worker[w] EXCEPT !.claimed = FALSE]
  <2>1. w \in Workers /\ Claimed(w)
    BY <1>1, <1>3
  <2>2. to \in PassType /\ ~to.claimed
    BY <2>1, UnclaimedTyped DEF SchedulerInv
  <2>3. worker' = [worker EXCEPT ![w] = to]
    BY <1>3 DEF ClaimLost, SchedulerInv, TypeOK
  <2>4. fired' \in [Marks -> 0..FireCap]
    BY <1>3, CountingTyped DEF ClaimLost, SchedulerInv, TypeOK
  <2> HIDE DEF w, to
  <2>5. worker' \in [Workers -> PassType]
    BY <2>1, <2>2, <2>3 DEF SchedulerInv, TypeOK
  <2>6. ASSUME NEW v \in Workers PROVE ~Claimed(v)'
    <3>1. CASE v = w
      BY <2>1, <2>2, <2>3, <3>1 DEF SchedulerInv, TypeOK, Claimed
    <3>2. CASE v # w
      <4>1. worker'[v] = worker[v]
        BY <2>3, <3>2 DEF SchedulerInv, TypeOK
      <4>2. ~Claimed(v)
        BY <1>2, <3>2 DEF w
      <4> QED BY <4>1, <4>2 DEF Claimed
    <3> QED BY <3>1, <3>2
  <2> QED BY <2>4, <2>5, <2>6
<1>4. CASE ~(sched.claimedBy # NoWorker /\ Claimed(sched.claimedBy))
  <2>1. \A v \in Workers : ~Claimed(v)
    BY <1>2, <1>4, WorkersAssumption
  <2> QED BY <1>4, <2>1 DEF ClaimLost, SchedulerInv, TypeOK, Claimed
<1> QED BY <1>3, <1>4

LEMMA LeaseExpiresKeeps == ASSUME SchedulerInv, LeaseExpires PROVE SchedulerInv'
<1>1. sched \in RowType /\ Exists
  BY DEF SchedulerInv, TypeOK, Exists, LeaseExpires
<1>2. sched' \in RowType /\ ~sched'.live
  BY <1>1 DEF LeaseExpires, RowType
<1>3. /\ worker' \in [Workers -> PassType] /\ fired' \in [Marks -> 0..FireCap]
      /\ \A v \in Workers : ~Claimed(v)'
  BY <1>1, ClaimLostKeeps DEF LeaseExpires
<1> QED BY <1>2, <1>3 DEF LeaseExpires, SchedulerInv, TypeOK, ClaimIsHeld

LEMMA DeleteKeeps == ASSUME SchedulerInv, Delete PROVE SchedulerInv'
<1>1. /\ worker' \in [Workers -> PassType] /\ fired' \in [Marks -> 0..FireCap]
      /\ \A v \in Workers : ~Claimed(v)'
  BY ClaimLostKeeps DEF Delete
<1>2. sched' = NoRow
  BY DEF Delete
<1> QED BY <1>1, <1>2 DEF Delete, SchedulerInv, TypeOK, ClaimIsHeld, Exists

-----------------------------------------------------------------------------
\* upsert_schedule leaves the claim of a row that is there alone.
LEMMA UpsertKeeps ==
    ASSUME SchedulerInv, NEW d \in RowType \cup Definitions,
           NEW next \in 0..(MaxClock + 1), NEW watermark \in 0..MaxVersion,
           sched' = Upsert(d, next, watermark), asked' \in RowType \cup {NoRow},
           UNCHANGED <<clock, latest, worker, fired, acted>>
    PROVE  SchedulerInv'
<1>1. d.enabled \in BOOLEAN /\ d.trigger \in {"cron", "upstream"} /\ d.upstream \in Datasets
  BY DEF RowType, Definitions
<1>2. sched' \in RowType /\ (sched'.live => sched'.claimedBy # NoWorker)
      /\ (Exists => sched'.claimedBy = sched.claimedBy /\ sched'.live = sched.live)
  <2>1. CASE Exists
    <3>1. sched \in RowType /\ (sched.live => sched.claimedBy # NoWorker)
      BY <2>1 DEF SchedulerInv, TypeOK, Exists
    <3> QED BY <1>1, <2>1, <3>1 DEF Upsert, RowType
  <2>2. CASE ~Exists
    BY <1>1, <2>2, BoundsAssumption DEF Upsert, Row, RowType
  <2> QED BY <2>1, <2>2
<1>3. Exists'
  BY <1>2, RowsExist DEF Exists
<1>4. TypeOK'
  BY <1>2 DEF SchedulerInv, TypeOK
<1>5. \A v \in Workers : Claimed(v)' => Claimed(v)
  BY DEF Claimed
<1> QED BY <1>2, <1>3, <1>4, <1>5 DEF SchedulerInv, ClaimIsHeld

LEMMA OperatorsKeep ==
    ASSUME SchedulerInv, (\E d \in Puts : Put(d)) \/ AskRun \/ QueueRun
    PROVE  SchedulerInv'
<1>1. ASSUME NEW d \in Puts, Put(d) PROVE SchedulerInv'
  BY <1>1, UpsertKeeps, FirstFireTyped, PutsAssumption, BoundsAssumption
     DEF Put, SchedulerInv, TypeOK
<1>2. CASE AskRun
  <2>1. sched \in RowType
    BY <1>2 DEF AskRun, SchedulerInv, TypeOK, Exists
  <2>2. asked' \in RowType
    <3>1. clock \in 0..(MaxClock + 1) /\ 0 \in 0..MaxVersion
      BY BoundsAssumption DEF SchedulerInv, TypeOK
    <3>2. asked' = [sched EXCEPT !.next = clock,
                       !.watermark = IF sched.trigger = "upstream" THEN 0 ELSE sched.watermark]
      BY <1>2 DEF AskRun
    <3> QED BY <2>1, <3>1, <3>2 DEF RowType
  <2> QED BY <1>2, <2>2 DEF AskRun, SchedulerInv, TypeOK, ClaimIsHeld, Claimed, Exists
<1>3. CASE QueueRun
  <2>1. asked \in RowType
    BY <1>3 DEF QueueRun, SchedulerInv, TypeOK
  <2>2. asked.next \in 0..(MaxClock + 1) /\ asked.watermark \in 0..MaxVersion
    BY <2>1 DEF RowType
  <2> QED BY <1>3, <2>1, <2>2, UpsertKeeps DEF QueueRun
<1> QED BY <1>1, <1>2, <1>3

LEMMA WorldKeeps ==
    ASSUME SchedulerInv, Tick \/ \E d \in Datasets : NewVersion(d)
    PROVE  SchedulerInv'
<1>1. CASE Tick
  BY <1>1, BoundsAssumption DEF Tick, SchedulerInv, TypeOK, ClaimIsHeld, Claimed, Exists
<1>2. ASSUME NEW d \in Datasets, NewVersion(d) PROVE SchedulerInv'
  BY <1>2, BoundsAssumption DEF NewVersion, SchedulerInv, TypeOK, ClaimIsHeld, Claimed, Exists
<1> QED BY <1>1, <1>2

LEMMA SchedulerKeeps == SchedulerInv /\ [SchedulerNext]_vars => SchedulerInv'
<1> SUFFICES ASSUME SchedulerInv, [SchedulerNext]_vars PROVE SchedulerInv'
  OBVIOUS
<1>1. CASE UNCHANGED vars
  BY <1>1 DEF SchedulerInv, TypeOK, ClaimIsHeld, Claimed, Exists, vars
<1>2. CASE SchedulerNext
  BY <1>2, PollKeeps, ClaimKeeps, ReleaseKeeps, StartKeeps, RecordKeeps, QuitKeeps,
     LeaseExpiresKeeps, DeleteKeeps, OperatorsKeep, WorldKeeps
     DEF SchedulerNext, Pass
<1> QED BY <1>1, <1>2

-----------------------------------------------------------------------------
\* The variables stay what their comments say, for any bounds.
THEOREM SchedulerTyped == SchedulerSpec => []TypeOK
<1>1. SchedulerInv => TypeOK
  BY DEF SchedulerInv
<1> QED BY <1>1, SchedulerStarts, SchedulerKeeps, PTL DEF SchedulerSpec

\* Whatever the replicas, the operators and the clock do, two replicas are in
\* the action of a schedule at once only after a claim was over (scheduler.py,
\* "Exactly once across replicas"): the conditional UPDATE excludes the rest.
THEOREM OneRunner == SchedulerSpec => []AtMostOneRunner
<1>1. SchedulerInv => AtMostOneRunner
  BY DEF SchedulerInv, ClaimIsHeld, AtMostOneRunner
<1> QED BY <1>1, SchedulerStarts, SchedulerKeeps, PTL DEF SchedulerSpec

-----------------------------------------------------------------------------
(* Exactly once, as long as nobody edits the schedule: no PUT, no deletion   *)
(* and no POST .../run while the replicas poll.  An edit may reset the next  *)
(* firing time to a window that was already served.                          *)

NoOperators == Puts = {} /\ ~Deletes /\ ~RunNow

Running(w) == worker[w].pc = "run"

\* The row says that m needs no run any more.
Settled(m) ==
    IF sched.trigger = "cron" THEN m[1] = "cron" /\ m[2] < sched.next
                              ELSE m[1] = sched.upstream /\ m[2] <= sched.watermark

\* What the run will record moves this row forward, and its mark is unsettled.
MovesOn(r, s) ==
    /\ r.trigger = s.trigger /\ r.upstream = s.upstream
    /\ s.trigger = "cron" => r.mark = <<"cron", s.next>> /\ r.next > s.next /\ r.watermark = 0
    /\ s.trigger = "upstream" =>
           r.mark = <<s.upstream, r.watermark>> /\ r.watermark > s.watermark /\ r.next = 0

\* The holder the row names may be slow or out of its lease: its run still fits.
HoldersRunFits == \A w \in Workers : Running(w) /\ sched.claimedBy = w => MovesOn(worker[w], sched)

MarksServed ==
    \A m \in Marks : fired[m] # 0 =>
        /\ fired[m] = 1
        /\ Settled(m) \/ \E w \in Workers : Claimed(w) /\ Running(w) /\ worker[w].mark = m

WatermarkIsActed ==
    /\ \A d \in Datasets : acted[d] <= latest[d]
    /\ sched.trigger = "upstream" => sched.next = 0 /\ sched.watermark <= acted[sched.upstream]
    /\ \A w \in Workers : Running(w) /\ worker[w].trigger = "upstream"
                              => worker[w].watermark <= acted[worker[w].upstream]

Unedited == Exists /\ sched.enabled /\ asked = NoRow

ServedInv == SchedulerInv /\ Unedited /\ HoldersRunFits /\ MarksServed /\ WatermarkIsActed

LEMMA ServedStarts == SchedulerInit => ServedInv
<1> SUFFICES ASSUME SchedulerInit PROVE ServedInv
  OBVIOUS
<1>1. PICK d \in Definitions : d.enabled /\ sched = Row(d, FirstFire(d))
  BY DEF SchedulerInit
<1>2. SchedulerInv
  BY SchedulerStarts
<1>3. Unedited
  <2>1. FirstFire(d) \in 0..(MaxClock + 1)
    BY <1>2, FirstFireTyped DEF SchedulerInv
  <2>2. sched \in RowType
    BY <1>1, <2>1, NewRowTyped
  <2> QED BY <1>1, <2>2, RowsExist DEF Unedited, Exists, Row, SchedulerInit
<1>4. \A w \in Workers : ~Running(w)
  BY DEF SchedulerInit, Idle, Running
<1>5. MarksServed
  BY DEF SchedulerInit, MarksServed
<1>6. WatermarkIsActed
  BY <1>1, <1>4 DEF SchedulerInit, WatermarkIsActed, Row, FirstFire, Definitions
<1> QED BY <1>2, <1>3, <1>4, <1>5, <1>6 DEF ServedInv, HoldersRunFits

\* One replica moves outside the action, and the row keeps all but its claim.
LEMMA OutsideTheAction ==
    ASSUME ServedInv, SchedulerInv', NEW w \in Workers, NEW to,
           ~Running(w), to.pc # "run", worker' = [worker EXCEPT ![w] = to],
           sched' \in RowType, sched'.enabled = sched.enabled,
           sched'.trigger = sched.trigger, sched'.upstream = sched.upstream,
           sched'.next = sched.next, sched'.watermark = sched.watermark,
           sched'.claimedBy \in {sched.claimedBy, w, NoWorker},
           UNCHANGED <<clock, latest, asked, fired, acted>>
    PROVE  ServedInv'
<1>1. \A v \in Workers : Running(v)' => v # w /\ Running(v) /\ worker'[v] = worker[v]
  BY DEF ServedInv, SchedulerInv, TypeOK, Running
<1>2. \A v \in Workers : Running(v) => v # w /\ worker'[v] = worker[v]
  BY DEF ServedInv, SchedulerInv, TypeOK, Running
<1>3. Unedited'
  BY RowsExist DEF ServedInv, Unedited, Exists
<1>4. HoldersRunFits'
  BY <1>1, WorkersAssumption DEF ServedInv, HoldersRunFits, MovesOn
<1>5. MarksServed'
  BY <1>2 DEF ServedInv, MarksServed, Settled, Claimed, Running
<1>6. WatermarkIsActed'
  BY <1>1 DEF ServedInv, WatermarkIsActed
<1> QED BY <1>3, <1>4, <1>5, <1>6 DEF ServedInv

LEMMA PassOutsideServes ==
    ASSUME ServedInv, NEW w \in Workers, Poll(w) \/ Claim(w) \/ Release(w)
    PROVE  ServedInv'
<1>1. SchedulerInv' /\ sched \in RowType
  BY PollKeeps, ClaimKeeps, ReleaseKeeps DEF ServedInv, SchedulerInv, TypeOK, Unedited, Exists
<1>2. CASE Poll(w)
  BY <1>1, <1>2, OutsideTheAction DEF Poll, Running
<1>3. CASE Claim(w)
  <2>1. CASE Exists /\ ClaimWins(sched)
    <3>1. sched' = [sched EXCEPT !.claimedBy = w, !.live = TRUE]
      BY <1>3, <2>1 DEF Claim
    <3>2. sched' \in RowType
      BY <1>1, <3>1 DEF RowType
    <3> QED BY <1>1, <1>3, <2>1, <3>1, <3>2, OutsideTheAction DEF Claim, Running, RowType
  <2>2. CASE ~(Exists /\ ClaimWins(sched))
    BY <1>1, <1>3, <2>2, OutsideTheAction DEF Claim, Running, Idle
  <2> QED BY <2>1, <2>2
<1>4. CASE Release(w)
  <2>1. CASE Exists /\ sched.claimedBy = w
    <3>1. sched' = [sched EXCEPT !.claimedBy = NoWorker, !.live = FALSE]
      BY <1>4, <2>1 DEF Release
    <3>2. sched' \in RowType
      BY <1>1, <3>1 DEF RowType
    <3> QED BY <1>1, <1>4, <2>1, <3>1, <3>2, OutsideTheAction DEF Release, Running, Idle, RowType
  <2>2. CASE ~(Exists /\ sched.claimedBy = w)
    BY <1>1, <1>4, <2>2, OutsideTheAction DEF Release, Running, Idle
  <2> QED BY <2>1, <2>2
<1> QED BY <1>2, <1>3, <1>4

\* A run starts for a window or a version the row has not settled.
LEMMA StartServes == ASSUME ServedInv, NEW w \in Workers, Start(w) PROVE ServedInv'
<1> DEFINE to == [pc |-> "run", claimed |-> worker[w].claimed, mark |-> MarkOf(sched),
                  trigger |-> sched.trigger, upstream |-> sched.upstream,
                  next |-> IF sched.trigger = "cron" THEN NextFire ELSE 0,
                  watermark |-> IF sched.trigger = "upstream" THEN latest[sched.upstream] ELSE 0]
<1>1. SchedulerInv' /\ SchedulerInv /\ sched \in RowType
  BY StartKeeps DEF ServedInv, SchedulerInv, TypeOK, Unedited, Exists
<1>2. worker' = [worker EXCEPT ![w] = to] /\ worker \in [Workers -> PassType]
  BY <1>1 DEF Start, SchedulerInv, TypeOK
<1>3. MovesOn(to, sched)
  BY <1>1, BoundsAssumption DEF Start, StillDue, Due, CronDue, UpstreamAdvanced, MovesOn, MarkOf,
     NextFire, RowType, SchedulerInv, TypeOK
<1>4. /\ to.pc = "run" /\ to.claimed = worker[w].claimed /\ to.mark = MarkOf(sched)
      /\ to.trigger = sched.trigger /\ to.upstream = sched.upstream
      /\ sched.trigger = "upstream" => to.watermark = latest[sched.upstream]
  OBVIOUS
<1> HIDE DEF to
<1>5. worker'[w] = to /\ \A v \in Workers : v # w => worker'[v] = worker[v]
  BY <1>2
<1>6. Unedited'
  BY DEF ServedInv, Unedited, Exists, Start
<1>7. HoldersRunFits'
  <2> SUFFICES ASSUME NEW v \in Workers, Running(v)', sched'.claimedBy = v
               PROVE  MovesOn(worker'[v], sched')
    BY DEF HoldersRunFits
  <2>1. sched' = sched
    BY DEF Start
  <2>2. CASE v = w
    BY <1>3, <1>5, <2>1, <2>2
  <2>3. CASE v # w
    BY <1>5, <2>1, <2>3 DEF ServedInv, HoldersRunFits, Running
  <2> QED BY <2>2, <2>3
<1>8. MarksServed'
  <2> SUFFICES ASSUME NEW m \in Marks, fired'[m] # 0
               PROVE  /\ fired'[m] = 1
                      /\ Settled(m)' \/ \E v \in Workers : Claimed(v)' /\ Running(v)' /\ worker'[v].mark = m
    BY DEF MarksServed
  <2>1. Settled(m)' <=> Settled(m)
    BY DEF Start, Settled
  <2>2. \A v \in Workers : v # w /\ Claimed(v) /\ Running(v) => Claimed(v)' /\ Running(v)' /\ worker'[v].mark = worker[v].mark
    BY <1>5 DEF Claimed, Running
  <2>3. ~Running(w)
    BY DEF Start, Running
  <2>4. CASE fired'[m] = fired[m]
    BY <2>1, <2>2, <2>3, <2>4 DEF ServedInv, MarksServed
  <2>5. CASE fired'[m] # fired[m]
    <3>1. worker[w].claimed /\ m = MarkOf(sched) /\ fired'[m] = fired[m] + 1
      BY <1>1, <2>5 DEF Start, Counted, SchedulerInv, TypeOK
    <3>2. Claimed(w) /\ Claimed(w)' /\ Running(w)' /\ worker'[w].mark = m
      BY <1>4, <1>5, <3>1 DEF Start, Claimed, Running
    <3>3. ~Settled(m)
      <4>1. to.mark = m
        BY <1>4, <3>1
      <4>2. CASE sched.trigger = "cron"
        BY <1>1, <1>3, <4>1, <4>2 DEF MovesOn, Settled, RowType
      <4>3. CASE sched.trigger = "upstream"
        <5>1. latest[sched.upstream] \in Nat /\ sched.watermark \in Nat
          BY <1>1, BoundsAssumption DEF SchedulerInv, TypeOK, RowType
        <5> QED BY <1>3, <1>4, <4>1, <4>3, <5>1 DEF MovesOn, Settled
      <4> QED BY <1>1, <4>2, <4>3 DEF RowType
    <3>4. \A v \in Workers : Claimed(v) => v = w
      BY <1>1, <3>2 DEF SchedulerInv, ClaimIsHeld
    <3>5. fired[m] = 0
      BY <2>3, <3>3, <3>4 DEF ServedInv, MarksServed
    <3> QED BY <3>1, <3>2, <3>5
  <2> QED BY <2>4, <2>5
<1>9. WatermarkIsActed'
  <2>1. /\ UNCHANGED <<sched, latest>>
        /\ acted' = IF sched.trigger = "upstream"
                    THEN [acted EXCEPT ![sched.upstream] = latest[sched.upstream]] ELSE acted
    BY DEF Start
  <2>2. sched.upstream \in Datasets /\ latest \in [Datasets -> Nat] /\ acted \in [Datasets -> Nat]
        /\ sched.watermark \in Nat
    BY <1>1, BoundsAssumption DEF SchedulerInv, TypeOK, RowType
  <2>3. \A d \in Datasets : acted'[d] <= latest'[d] /\ acted[d] <= acted'[d]
    BY <2>1, <2>2 DEF ServedInv, WatermarkIsActed
  <2>4. ASSUME NEW v \in Workers, Running(v)', worker'[v].trigger = "upstream"
        PROVE  worker'[v].watermark <= acted'[worker'[v].upstream]
    <3>1. CASE v = w
      BY <1>4, <1>5, <2>1, <2>2, <2>4, <3>1
    <3>2. CASE v # w
      <4>1. worker[v] \in RunType /\ worker'[v] = worker[v]
        BY <1>2, <1>5, <2>4, <3>2 DEF PassType, Running
      <4>2. worker[v].watermark <= acted[worker[v].upstream] /\ worker[v].upstream \in Datasets /\ worker[v].watermark \in Nat
        BY <1>5, <2>4, <3>2, <4>1, BoundsAssumption DEF ServedInv, WatermarkIsActed, Running, RunType
      <4> QED BY <2>2, <2>3, <4>1, <4>2, <2>1
    <3> QED BY <3>1, <3>2
  <2>5. sched'.trigger = "upstream" => sched'.next = 0 /\ sched'.watermark <= acted'[sched'.upstream]
    BY <2>1, <2>2, <2>3 DEF ServedInv, WatermarkIsActed
  <2> QED BY <2>3, <2>4, <2>5 DEF WatermarkIsActed
<1> QED BY <1>1, <1>6, <1>7, <1>8, <1>9 DEF ServedInv

\* The row is recorded only by the holder it names: its mark is settled then,
\* and no mark that was settled becomes open again.
LEMMA RecordMoves ==
    ASSUME ServedInv, NEW w \in Workers, Record(w), Fence(w)
    PROVE  /\ sched' = Recorded(sched, worker[w]) /\ MovesOn(worker[w], sched)
           /\ sched \in RowType /\ sched' \in RowType /\ worker[w] \in RunType
           /\ sched'.next >= sched.next /\ sched'.watermark >= sched.watermark
           /\ \A m \in Marks : Settled(m) => Settled(m)'
           /\ \A m : m = worker[w].mark => Settled(m)'
           /\ sched'.watermark \in {sched.watermark, worker[w].watermark}
<1>1. sched \in RowType /\ Exists
  BY DEF ServedInv, SchedulerInv, TypeOK, Unedited, Exists
<1>2. worker[w] \in RunType
  BY DEF ServedInv, SchedulerInv, TypeOK, PassType, Record
<1>3. sched' = Recorded(sched, worker[w])
  BY <1>1 DEF Record
<1>4. MovesOn(worker[w], sched)
  BY DEF ServedInv, HoldersRunFits, Running, Record, Fence
<1>5. /\ sched' \in RowType /\ sched'.trigger = sched.trigger /\ sched'.upstream = sched.upstream
      /\ sched'.next = worker[w].next
      /\ sched'.watermark = IF worker[w].watermark = 0 THEN sched.watermark ELSE worker[w].watermark
  BY <1>1, <1>2, <1>3 DEF RowType, RunType, Recorded, RecordedWatermark
<1>6. /\ sched.next \in Nat /\ sched.watermark \in Nat /\ worker[w].next \in Nat
      /\ worker[w].watermark \in Nat /\ sched.trigger \in {"cron", "upstream"}
  BY <1>1, <1>2, BoundsAssumption DEF RowType, RunType
<1>7. sched.trigger = "upstream" => sched.next = 0
  BY DEF ServedInv, WatermarkIsActed
<1>8. sched'.next >= sched.next /\ sched'.watermark >= sched.watermark
  BY <1>4, <1>5, <1>6, <1>7 DEF MovesOn
<1>9. ASSUME NEW m \in Marks, Settled(m) PROVE Settled(m)'
  <2>1. m[2] \in Nat
    BY BoundsAssumption DEF Marks
  <2>2. sched'.next \in Nat /\ sched'.watermark \in Nat
    BY <1>5, <1>6
  <2> QED BY <1>5, <1>6, <1>8, <1>9, <2>1, <2>2 DEF Settled
<1>10. ASSUME NEW m, m = worker[w].mark PROVE Settled(m)'
  <2>1. sched.trigger = "cron" => m[1] = "cron" /\ m[2] < sched'.next
    BY <1>4, <1>5, <1>6, <1>10 DEF MovesOn
  <2>2. sched.trigger = "upstream" => m[1] = sched.upstream /\ m[2] <= sched'.watermark
    BY <1>4, <1>5, <1>6, <1>10 DEF MovesOn
  <2> QED BY <1>5, <1>6, <2>1, <2>2 DEF Settled
<1> QED BY <1>1, <1>2, <1>3, <1>4, <1>5, <1>8, <1>9, <1>10

LEMMA RecordServes == ASSUME ServedInv, NEW w \in Workers, Record(w) PROVE ServedInv'
<1>1. SchedulerInv' /\ SchedulerInv /\ Exists /\ worker \in [Workers -> PassType]
  BY RecordKeeps DEF ServedInv, SchedulerInv, TypeOK, Unedited
<1>2. worker' = [worker EXCEPT ![w] = Idle] /\ UNCHANGED <<clock, latest, asked, acted>>
  BY DEF Record
<1>3. \A v \in Workers : Running(v)' => v # w /\ Running(v) /\ worker'[v] = worker[v]
  BY <1>1, <1>2 DEF Running, Idle
<1>4. \A v \in Workers : Claimed(v) => sched.claimedBy = v
  BY <1>1 DEF SchedulerInv, ClaimIsHeld
<1>5. CASE Fence(w)
  <2>1. /\ sched' = Recorded(sched, worker[w]) /\ MovesOn(worker[w], sched)
        /\ sched \in RowType /\ sched' \in RowType /\ worker[w] \in RunType
        /\ \A m \in Marks : Settled(m) => Settled(m)'
        /\ \A m : m = worker[w].mark => Settled(m)'
        /\ sched'.watermark \in {sched.watermark, worker[w].watermark}
    BY <1>5, RecordMoves
  <2>2. /\ sched'.claimedBy = NoWorker /\ sched'.enabled = sched.enabled
        /\ sched'.trigger = sched.trigger /\ sched'.upstream = sched.upstream
        /\ sched'.next = worker[w].next
    BY <2>1 DEF RowType, Recorded
  <2>3. Unedited'
    BY <1>2, <2>1, <2>2, RowsExist DEF ServedInv, Unedited, Exists
  <2>4. HoldersRunFits'
    BY <2>2, WorkersAssumption DEF HoldersRunFits
  <2>5. ASSUME NEW m \in Marks, fired[m] # 0 PROVE fired[m] = 1 /\ Settled(m)'
    BY <1>4, <1>5, <2>1, <2>5 DEF ServedInv, MarksServed, Fence
  <2>6. ASSUME NEW m \in Marks, m = worker[w].mark, ~worker[w].claimed PROVE fired[m] = 0
    <3>1. \A v \in Workers : ~Claimed(v)
      BY <1>4, <1>5, <2>6 DEF Claimed, Fence
    <3>2. ~Settled(m)
      BY <2>1, <2>6, BoundsAssumption DEF MovesOn, Settled, RowType, RunType
    <3> QED BY <3>1, <3>2 DEF ServedInv, MarksServed
  <2>7. MarksServed'
    <3> SUFFICES ASSUME NEW m \in Marks, fired'[m] # 0 PROVE fired'[m] = 1 /\ Settled(m)'
      BY DEF MarksServed
    <3>1. CASE fired'[m] = fired[m]
      BY <2>5, <3>1
    <3>2. CASE fired'[m] # fired[m]
      <4>1. fired' = Counted(worker[w].mark) /\ ~worker[w].claimed
        BY <1>1, <1>5, <3>2 DEF Record
      <4>2. m = worker[w].mark /\ fired'[m] = fired[m] + 1
        BY <1>1, <3>2, <4>1 DEF Counted, SchedulerInv, TypeOK
      <4> QED BY <2>1, <2>6, <4>1, <4>2
    <3> QED BY <3>1, <3>2
  <2>8. WatermarkIsActed'
    <3>1. sched.trigger = "upstream" =>
              /\ worker[w].next = 0
              /\ sched.watermark <= acted[sched.upstream]
              /\ worker[w].watermark <= acted[sched.upstream]
      BY <2>1 DEF ServedInv, WatermarkIsActed, MovesOn, Running, Record
    <3> QED BY <1>2, <1>3, <2>1, <2>2, <3>1 DEF ServedInv, WatermarkIsActed
  <2> QED BY <1>1, <2>3, <2>4, <2>7, <2>8 DEF ServedInv
<1>6. CASE ~Fence(w)
  <2>1. UNCHANGED <<sched, fired>> /\ ~Claimed(w)
    BY <1>4, <1>6 DEF Record, Fence
  <2>2. \A v \in Workers : Claimed(v) => v # w /\ worker'[v] = worker[v]
    BY <1>1, <1>2, <2>1
  <2>3. MarksServed'
    BY <2>1, <2>2 DEF ServedInv, MarksServed, Settled, Claimed, Running
  <2>4. HoldersRunFits'
    BY <1>3, <2>1 DEF ServedInv, HoldersRunFits
  <2>5. WatermarkIsActed'
    BY <1>2, <1>3, <2>1 DEF ServedInv, WatermarkIsActed
  <2>6. Unedited'
    BY <1>2, <2>1 DEF ServedInv, Unedited, Exists
  <2> QED BY <1>1, <2>3, <2>4, <2>5, <2>6 DEF ServedInv
<1> QED BY <1>5, <1>6

\* A run whose holder is gone counts no longer: its mark is open again.
LEMMA ExcusedServes ==
    ASSUME ServedInv, NEW w \in Workers, Claimed(w),
           fired' = IF worker[w].pc = "run" THEN Excused(worker[w].mark) ELSE fired,
           NEW m \in Marks, fired'[m] # 0
    PROVE  fired'[m] = 1 /\ Settled(m)
<1>1. fired \in [Marks -> Nat] /\ \A v \in Workers : Claimed(v) => v = w
  BY BoundsAssumption DEF ServedInv, SchedulerInv, TypeOK, ClaimIsHeld
<1>2. CASE fired'[m] = fired[m]
  <2>1. fired[m] = 1 /\ (Settled(m) \/ (Running(w) /\ worker[w].mark = m))
    BY <1>1, <1>2 DEF ServedInv, MarksServed
  <2>2. CASE Running(w) /\ worker[w].mark = m
    BY <1>1, <1>2, <2>1, <2>2 DEF Running, Excused
  <2> QED BY <1>2, <2>1, <2>2
<1>3. CASE fired'[m] # fired[m]
  <2>1. fired[m] > 0 /\ fired'[m] = fired[m] - 1
    BY <1>1, <1>3 DEF Excused
  <2>2. fired[m] = 1
    BY <1>1, <2>1 DEF ServedInv, MarksServed
  <2> QED BY <2>1, <2>2
<1> QED BY <1>2, <1>3

LEMMA LeaveServes ==
    ASSUME ServedInv, NEW w \in Workers, NEW frame \in {Idle, [pc |-> "dead"]}, Leave(w, frame)
    PROVE  ServedInv'
<1>1. SchedulerInv' /\ SchedulerInv /\ worker \in [Workers -> PassType]
  BY LeaveKeeps DEF ServedInv, SchedulerInv, TypeOK
<1>2. /\ worker' = [worker EXCEPT ![w] = frame] /\ frame.pc \in {"idle", "dead"}
      /\ UNCHANGED <<sched, clock, latest, asked, acted>>
  BY DEF Leave, Idle
<1>3. \A v \in Workers : Running(v)' => v # w /\ Running(v) /\ worker'[v] = worker[v]
  BY <1>1, <1>2 DEF Running
<1>4. MarksServed'
  <2>1. CASE Claimed(w)
    <3>1. fired' = IF worker[w].pc = "run" THEN Excused(worker[w].mark) ELSE fired
      BY <2>1 DEF Leave
    <3>2. \A m \in Marks : fired'[m] # 0 => fired'[m] = 1 /\ Settled(m)
      BY <2>1, <3>1, ExcusedServes
    <3> QED BY <1>2, <3>2 DEF MarksServed, Settled
  <2>2. CASE ~Claimed(w)
    <3>1. fired' = fired /\ \A v \in Workers : Claimed(v) => v # w /\ worker'[v] = worker[v]
      BY <1>1, <1>2, <2>2 DEF Leave
    <3> QED BY <1>2, <3>1 DEF ServedInv, MarksServed, Settled, Claimed, Running
  <2> QED BY <2>1, <2>2
<1>5. HoldersRunFits' /\ WatermarkIsActed' /\ Unedited'
  BY <1>2, <1>3 DEF ServedInv, HoldersRunFits, WatermarkIsActed, Unedited, Exists
<1> QED BY <1>1, <1>4, <1>5 DEF ServedInv

LEMMA QuitServes ==
    ASSUME ServedInv, NEW w \in Workers, Die(w) \/ Raise(w) PROVE ServedInv'
BY LeaveServes DEF Die, Raise

LEMMA LeaseExpiresServes == ASSUME ServedInv, LeaseExpires PROVE ServedInv'
<1>1. SchedulerInv' /\ SchedulerInv /\ sched \in RowType /\ worker \in [Workers -> PassType]
  BY LeaseExpiresKeeps DEF ServedInv, SchedulerInv, TypeOK, Unedited, Exists
<1>2. sched' = [sched EXCEPT !.live = FALSE] /\ UNCHANGED <<clock, latest, asked, acted>> /\ ClaimLost
  BY DEF LeaseExpires
<1>3. /\ sched' \in RowType /\ sched'.enabled = sched.enabled /\ sched'.trigger = sched.trigger
      /\ sched'.upstream = sched.upstream /\ sched'.next = sched.next
      /\ sched'.watermark = sched.watermark /\ sched'.claimedBy = sched.claimedBy
  BY <1>1, <1>2 DEF RowType
<1>4. Unedited'
  BY <1>2, <1>3, RowsExist DEF ServedInv, Unedited, Exists
<1> DEFINE h == sched.claimedBy
<1>5. \A v \in Workers : Claimed(v) => h = v
  BY <1>1 DEF SchedulerInv, ClaimIsHeld
<1>6. \A v \in Workers : Running(v)' =>
          /\ Running(v)
          /\ worker'[v].mark = worker[v].mark /\ worker'[v].trigger = worker[v].trigger
          /\ worker'[v].upstream = worker[v].upstream /\ worker'[v].next = worker[v].next
          /\ worker'[v].watermark = worker[v].watermark
  <2> SUFFICES ASSUME NEW v \in Workers, Running(v)'
               PROVE  /\ Running(v)
                      /\ worker'[v].mark = worker[v].mark /\ worker'[v].trigger = worker[v].trigger
                      /\ worker'[v].upstream = worker[v].upstream /\ worker'[v].next = worker[v].next
                      /\ worker'[v].watermark = worker[v].watermark
    OBVIOUS
  <2>1. CASE worker'[v] = worker[v]
    BY <2>1 DEF Running
  <2>2. CASE worker'[v] # worker[v]
    <3>1. v = h /\ worker'[v] = [worker[v] EXCEPT !.claimed = FALSE]
      BY <1>1, <1>2, <2>2 DEF ClaimLost
    <3>2. worker'[v].pc = worker[v].pc
      BY <1>1, <3>1 DEF PassType
    <3>3. worker[v] \in RunType
      BY <1>1, <3>2 DEF PassType, Running
    <3> QED BY <3>1, <3>2, <3>3 DEF RunType, Running
  <2> QED BY <2>1, <2>2
<1>7. HoldersRunFits'
  <2> SUFFICES ASSUME NEW v \in Workers, Running(v)', sched'.claimedBy = v
               PROVE  MovesOn(worker'[v], sched')
    BY DEF HoldersRunFits
  <2>1. MovesOn(worker[v], sched)
    BY <1>3, <1>6 DEF ServedInv, HoldersRunFits
  <2> QED BY <1>3, <1>6, <2>1 DEF MovesOn
<1>8. WatermarkIsActed'
  BY <1>2, <1>3, <1>6 DEF ServedInv, WatermarkIsActed
<1>9. MarksServed'
  <2>0. \A m \in Marks : Settled(m) => Settled(m)'
    BY <1>3 DEF Settled
  <2>1. CASE h # NoWorker /\ Claimed(h)
    <3>1. h \in Workers
      BY <1>1, <2>1 DEF RowType
    <3>2. fired' = IF worker[h].pc = "run" THEN Excused(worker[h].mark) ELSE fired
      BY <1>2, <2>1 DEF ClaimLost
    <3>3. \A m \in Marks : fired'[m] # 0 => fired'[m] = 1 /\ Settled(m)
      BY <2>1, <3>1, <3>2, ExcusedServes
    <3> QED BY <2>0, <3>3 DEF MarksServed
  <2>2. CASE ~(h # NoWorker /\ Claimed(h))
    <3>1. UNCHANGED fired
      BY <1>2, <2>2 DEF ClaimLost
    <3>2. \A v \in Workers : ~Claimed(v)
      BY <1>5, <2>2, WorkersAssumption
    <3> QED BY <2>0, <3>1, <3>2 DEF ServedInv, MarksServed
  <2> QED BY <2>1, <2>2
<1> QED BY <1>1, <1>4, <1>7, <1>8, <1>9 DEF ServedInv

LEMMA WorldServes ==
    ASSUME ServedInv, Tick \/ \E d \in Datasets : NewVersion(d)
    PROVE  ServedInv'
<1>1. SchedulerInv' /\ latest \in [Datasets -> Nat] /\ acted \in [Datasets -> Nat]
  BY WorldKeeps, BoundsAssumption DEF ServedInv, SchedulerInv, TypeOK
<1>2. UNCHANGED <<sched, worker, asked, fired, acted>>
      /\ \A d \in Datasets : latest[d] <= latest'[d] /\ latest'[d] \in Nat
  BY <1>1 DEF Tick, NewVersion
<1>3. \A d \in Datasets : acted'[d] <= latest'[d]
  BY <1>1, <1>2 DEF ServedInv, WatermarkIsActed
<1> QED BY <1>1, <1>2, <1>3
    DEF ServedInv, Unedited, Exists, HoldersRunFits, MarksServed, WatermarkIsActed,
        Settled, Claimed, Running

LEMMA ServedKeeps ==
    ASSUME NoOperators
    PROVE  ServedInv /\ [SchedulerNext]_vars => ServedInv'
<1> SUFFICES ASSUME ServedInv, [SchedulerNext]_vars PROVE ServedInv'
  OBVIOUS
<1>1. CASE UNCHANGED vars
  <2>1. SchedulerInv'
    BY SchedulerKeeps DEF ServedInv
  <2> QED BY <1>1, <2>1
      DEF ServedInv, Unedited, Exists, HoldersRunFits, MarksServed, WatermarkIsActed,
          Settled, Claimed, Running, vars
<1>2. CASE SchedulerNext
  <2>1. ~((\E d \in Puts : Put(d)) \/ Delete \/ AskRun \/ QueueRun)
    BY DEF NoOperators, Delete, AskRun, QueueRun, ServedInv, Unedited
  <2> QED BY <1>2, <2>1, PassOutsideServes, StartServes, RecordServes, QuitServes,
        LeaseExpiresServes, WorldServes DEF SchedulerNext, Pass
<1> QED BY <1>1, <1>2

\* scheduler.py, "Exactly once across replicas": while nobody edits the
\* schedule, a window or a version is acted on once by the replicas that keep
\* their claims, and no version is marked as seen before some run saw it.
THEOREM UneditedIsServedOnce == ASSUME NoOperators PROVE SchedulerSpec => []ServedOnce
<1>1. ServedInv => ServedOnce
  <2> SUFFICES ASSUME ServedInv PROVE OncePerWindow /\ CaughtUpMeansActed
    BY DEF ServedOnce
  <2>1. OncePerWindow
    BY DEF OncePerWindow, ServedInv, MarksServed
  <2>2. CaughtUpMeansActed
    <3> SUFFICES ASSUME Exists, sched.trigger = "upstream", ~UpstreamAdvanced(sched)
                 PROVE  latest[sched.upstream] <= acted[sched.upstream]
      BY DEF CaughtUpMeansActed
    <3>1. /\ latest[sched.upstream] \in Nat /\ acted[sched.upstream] \in Nat /\ sched.watermark \in Nat
      BY BoundsAssumption DEF ServedInv, SchedulerInv, TypeOK, RowType, Exists
    <3> QED BY <3>1 DEF ServedInv, WatermarkIsActed, UpstreamAdvanced
  <2> QED BY <2>1, <2>2
<1> QED BY <1>1, ServedStarts, ServedKeeps, PTL DEF SchedulerSpec

\* record_schedule_run: while nobody edits the schedule, neither the next
\* firing time nor the watermark of the row goes back, whichever stalled
\* replica records and however late.
THEOREM UneditedMovesForward == ASSUME NoOperators PROVE SchedulerSpec => MovesForward
<1>1. ServedInv /\ [SchedulerNext]_vars => [Forward]_vars
  <2> SUFFICES ASSUME ServedInv, SchedulerNext PROVE Forward
    BY DEF vars
  <2>1. sched.next \in Nat /\ sched.watermark \in Nat
    BY BoundsAssumption DEF ServedInv, SchedulerInv, TypeOK, RowType, Unedited, Exists
  <2>2. ~((\E d \in Puts : Put(d)) \/ Delete \/ AskRun \/ QueueRun)
    BY DEF NoOperators, Delete, AskRun, QueueRun, ServedInv, Unedited
  <2>3. ASSUME NEW w \in Workers, Record(w) PROVE Forward
    <3>1. CASE Fence(w)
      BY <2>3, <3>1, RecordMoves DEF Forward
    <3>2. CASE ~Fence(w)
      BY <2>1, <2>3, <3>2 DEF Record, Forward
    <3> QED BY <3>1, <3>2
  <2>4. ASSUME sched' = sched \/ (sched'.next = sched.next /\ sched'.watermark = sched.watermark)
        PROVE  Forward
    BY <2>1, <2>4 DEF Forward
  <2>5. sched \in RowType
    BY DEF ServedInv, SchedulerInv, TypeOK, Unedited, Exists
  <2>6. ASSUME NEW w \in Workers, Poll(w) \/ Start(w) \/ Die(w) \/ Raise(w) PROVE Forward
    BY <2>4, <2>6 DEF Poll, Start, Die, Raise, Leave
  <2>7. ASSUME NEW w \in Workers, Claim(w) PROVE Forward
    BY <2>4, <2>5, <2>7 DEF Claim, RowType
  <2>8. ASSUME NEW w \in Workers, Release(w) PROVE Forward
    BY <2>4, <2>5, <2>8 DEF Release, RowType
  <2>9. ASSUME LeaseExpires PROVE Forward
    BY <2>4, <2>5, <2>9 DEF LeaseExpires, RowType
  <2>10. ASSUME Tick \/ \E d \in Datasets : NewVersion(d) PROVE Forward
    BY <2>4, <2>10 DEF Tick, NewVersion
  <2> QED BY <2>2, <2>3, <2>6, <2>7, <2>8, <2>9, <2>10 DEF SchedulerNext, Pass
<1> QED BY <1>1, ServedStarts, ServedKeeps, PTL DEF SchedulerSpec, MovesForward
=============================================================================
