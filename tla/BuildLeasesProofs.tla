------------------------- MODULE BuildLeasesProofs -------------------------
(***************************************************************************)
(* The lease of core/db.py for any replicas, builds and plans: it excludes *)
(* a second executor until it ends under the first.                        *)
(***************************************************************************)
EXTENDS BuildLeases, FiniteSetTheorems, TLAPS

BuildType ==
    [status : {"none", "pending", "running", "succeeded", "failed"},
     owner : Workers \cup {NoWorker}, lease : {"none", "live", "expired"}]

\* That a job stays within its plan does not matter here.
Entries == {Plan[i] : i \in Nat}

AskedType ==
    [pc : Steps \cup {"queued", "done", "raised"}, leased : BOOLEAN, at : Nat,
     failed : SUBSET Entries]

JobType == [pc : {"none", "dead"}] \cup AskedType

LeasesTyped ==
    /\ build \in [Builds -> BuildType]
    /\ job \in [Builds -> [Workers -> JobType]]
    /\ reaping \in [Workers -> SUBSET Builds]
    /\ lost \in [Builds -> SUBSET Workers]

\* The replica is on its way into the build, or in it.
Engaged(b, w) == job[b][w].pc \in Steps \cup {"queued"}

\* Who executes under a lease, and has not lost it, holds it.
LeaseIsHeld ==
    \A b \in Builds : \A w \in Workers \ lost[b] :
        Executing(b, w) /\ job[b][w].leased => build[b].owner = w /\ build[b].lease = "live"

\* Who executes without a lease is alone, because it was asked first.
UnleasedIsAlone ==
    \A b \in Builds : \A v, w \in Workers :
        Executing(b, w) /\ ~job[b][w].leased /\ Engaged(b, v) => v = w

NobodyBeforeTheRequest ==
    \A b \in Builds, w \in Workers : Engaged(b, w) => build[b].status # "none"

QueuedIsLeased == \A b \in Builds, w \in Workers : job[b][w].pc = "queued" => job[b][w].leased

LeasesInv ==
    LeasesTyped /\ LeaseIsHeld /\ UnleasedIsAlone /\ NobodyBeforeTheRequest /\ QueuedIsLeased

-----------------------------------------------------------------------------
LEMMA LeasesStart == BuildsInit => LeasesInv
<1> SUFFICES ASSUME BuildsInit PROVE LeasesInv
  OBVIOUS
<1>1. LeasesTyped
  BY DEF BuildsInit, LeasesTyped, NoBuild, NoJob, BuildType, JobType
<1>2. \A b \in Builds, w \in Workers : job[b][w].pc = "none"
  BY DEF BuildsInit, NoJob
<1> QED BY <1>1, <1>2
        DEF LeasesInv, LeaseIsHeld, UnleasedIsAlone, NobodyBeforeTheRequest, QueuedIsLeased,
            Executing, Engaged, Steps

LEMMA JobMoves ==
    ASSUME LeasesTyped, NEW b \in Builds, NEW w \in Workers, NEW to \in JobType,
           job' = [job EXCEPT ![b][w] = to]
    PROVE  /\ job' \in [Builds -> [Workers -> JobType]]
           /\ job'[b][w] = to
           /\ \A c \in Builds, v \in Workers : c # b \/ v # w => job'[c][v] = job[c][v]
<1> DEFINE jobs == [job[b] EXCEPT ![w] = to]
<1>1. jobs \in [Workers -> JobType] /\ jobs[w] = to
      /\ \A v \in Workers : v # w => jobs[v] = job[b][v]
  BY DEF LeasesTyped
<1>2. job' = [job EXCEPT ![b] = jobs]
  OBVIOUS
<1> HIDE DEF jobs
<1>3. /\ job' \in [Builds -> [Workers -> JobType]] /\ job'[b] = jobs
      /\ \A c \in Builds : c # b => job'[c] = job[c]
  BY <1>1, <1>2 DEF LeasesTyped
<1> QED BY <1>1, <1>3

LEMMA EngagedJob ==
    ASSUME LeasesTyped, NEW b \in Builds, NEW w \in Workers, Engaged(b, w)
    PROVE  job[b][w] \in AskedType
BY DEF LeasesTyped, JobType, AskedType, Engaged, Steps

\* One step of a replica inside execute, which takes the lease from nobody.
LEMMA ExecutorStep ==
    ASSUME LeasesInv, NEW b \in Builds, NEW w \in Workers, Engaged(b, w), NEW to \in JobType,
           job' = [job EXCEPT ![b][w] = to],
           to.pc # "queued",
           to.pc \in Steps => Executing(b, w) /\ to.leased = job[b][w].leased,
           NEW row \in BuildType, build' = [build EXCEPT ![b] = row], row.status # "none",
           \A v \in Workers :
              build[b].owner = v /\ build[b].lease = "live" /\ (v # w \/ to.pc \in Steps)
                => row.owner = v /\ row.lease = "live",
           UNCHANGED <<reaping, lost>>
    PROVE  LeasesInv'
<1>0. LeasesTyped
  BY DEF LeasesInv
<1>1. /\ job' \in [Builds -> [Workers -> JobType]]
      /\ job'[b][w] = to
      /\ \A c \in Builds, v \in Workers : c # b \/ v # w => job'[c][v] = job[c][v]
  BY <1>0, JobMoves, ZenonT(60)
<1>2. /\ build' \in [Builds -> BuildType] /\ build'[b] = row
      /\ \A c \in Builds : c # b => build'[c] = build[c]
  BY DEF LeasesInv, LeasesTyped
<1>3. LeasesTyped'
  BY <1>1, <1>2 DEF LeasesInv, LeasesTyped
<1>4. \A c \in Builds, v \in Workers :
        /\ Executing(c, v)' => Executing(c, v) /\ job'[c][v].leased = job[c][v].leased
        /\ Engaged(c, v)' => Engaged(c, v)
        /\ Executing(c, v)' => c # b \/ v # w \/ to.pc \in Steps
  BY <1>1 DEF Executing, Engaged
<1>5. LeaseIsHeld'
  <2> SUFFICES ASSUME NEW c \in Builds, NEW v \in Workers, v \notin lost'[c],
                      Executing(c, v)', job'[c][v].leased
               PROVE  build'[c].owner = v /\ build'[c].lease = "live"
    BY DEF LeaseIsHeld
  <2>1. build[c].owner = v /\ build[c].lease = "live"
    BY <1>4 DEF LeasesInv, LeaseIsHeld
  <2>2. CASE c = b
    BY <1>2, <1>4, <2>1, <2>2
  <2>3. CASE c # b
    BY <1>2, <2>1, <2>3
  <2> QED BY <2>2, <2>3
<1>6. UnleasedIsAlone'
  BY <1>4 DEF LeasesInv, UnleasedIsAlone
<1>7. NobodyBeforeTheRequest'
  BY <1>2, <1>4 DEF LeasesInv, NobodyBeforeTheRequest
<1>8. QueuedIsLeased'
  BY <1>1 DEF LeasesInv, QueuedIsLeased
<1> QED BY <1>3, <1>5, <1>6, <1>7, <1>8 DEF LeasesInv

\* The step leaves the build's row alone.
LEMMA LocalStep ==
    ASSUME LeasesInv, NEW b \in Builds, NEW w \in Workers, Engaged(b, w), NEW to \in JobType,
           job' = [job EXCEPT ![b][w] = to],
           to.pc # "queued",
           to.pc \in Steps => Executing(b, w) /\ to.leased = job[b][w].leased,
           UNCHANGED <<build, reaping, lost>>
    PROVE  LeasesInv'
<1>1. build[b] \in BuildType /\ build' = [build EXCEPT ![b] = build[b]]
  BY DEF LeasesInv, LeasesTyped
<1>2. build[b].status # "none"
  BY DEF LeasesInv, NobodyBeforeTheRequest
<1> QED BY <1>1, <1>2, ExecutorStep

\* A replica goes to another step of execute, or out of it.
LEMMA GotoIs ==
    ASSUME LeasesTyped, NEW b \in Builds, NEW w \in Workers, Engaged(b, w),
           NEW pc \in Steps \cup {"done", "raised"}, Goto(b, w, pc)
    PROVE  \E to \in JobType : /\ job' = [job EXCEPT ![b][w] = to]
                               /\ to.pc = pc /\ to.leased = job[b][w].leased
<1> DEFINE to == [job[b][w] EXCEPT !.pc = pc]
<1>1. job' = [job EXCEPT ![b][w] = to]
  BY DEF Goto
<1>2. to \in JobType /\ to.pc = pc /\ to.leased = job[b][w].leased
  BY EngagedJob DEF JobType, AskedType
<1> QED BY <1>1, <1>2

LEMMA GotoKeeps ==
    ASSUME LeasesInv, NEW b \in Builds, NEW w \in Workers, Executing(b, w),
           NEW pc \in Steps \cup {"done", "raised"}, Goto(b, w, pc),
           NEW row \in BuildType, build' = [build EXCEPT ![b] = row], row.status # "none",
           \A v \in Workers :
              build[b].owner = v /\ build[b].lease = "live" /\ (v # w \/ pc \in Steps)
                => row.owner = v /\ row.lease = "live",
           UNCHANGED <<reaping, lost>>
    PROVE  LeasesInv'
<1>1. Engaged(b, w)
  BY DEF Executing, Engaged
<1>2. PICK to \in JobType : /\ job' = [job EXCEPT ![b][w] = to]
                            /\ to.pc = pc /\ to.leased = job[b][w].leased
  BY <1>1, GotoIs DEF LeasesInv
<1>3. to.pc # "queued" /\ (to.pc \in Steps => Executing(b, w) /\ to.leased = job[b][w].leased)
  BY <1>2 DEF Steps
<1>4. \A v \in Workers :
         build[b].owner = v /\ build[b].lease = "live" /\ (v # w \/ to.pc \in Steps)
           => row.owner = v /\ row.lease = "live"
  BY <1>2
<1> QED BY <1>1, <1>2, <1>3, <1>4, ExecutorStep

-----------------------------------------------------------------------------
\* claim_build wins only where nobody else has a live lease.
LEMMA ClaimKeeps ==
    ASSUME LeasesInv, NEW b \in Builds, NEW w \in Workers, Claim(b, w)
    PROVE  LeasesInv'
<1>0. LeasesTyped
  BY DEF LeasesInv
<1>1. Engaged(b, w) /\ build[b] \in BuildType
  BY DEF Claim, Engaged, LeasesInv, LeasesTyped
<1>2. CASE ~Claimable(build[b], w)
  <2>1. PICK to \in JobType : job' = [job EXCEPT ![b][w] = to] /\ to.pc = "done"
    BY <1>1, <1>2, GotoIs DEF Claim, LeasesInv
  <2>2. "done" \notin Steps
    BY DEF Steps
  <2> QED BY <1>1, <1>2, <2>1, <2>2, LocalStep DEF Claim
<1>3. CASE Claimable(build[b], w)
  <2>1. PICK to \in JobType : /\ job' = [job EXCEPT ![b][w] = to]
                              /\ to.pc = "begin" /\ to.leased = job[b][w].leased
    BY <1>1, <1>3, GotoIs DEF Claim, LeasesInv, Steps
  <2>2. /\ job' \in [Builds -> [Workers -> JobType]]
        /\ job'[b][w] = to
        /\ \A c \in Builds, v \in Workers : c # b \/ v # w => job'[c][v] = job[c][v]
    BY <1>0, <2>1, JobMoves, ZenonT(60)
  <2> DEFINE row == [build[b] EXCEPT !.owner = w, !.lease = "live"]
  <2>3. row \in BuildType /\ row.status = build[b].status /\ row.owner = w /\ row.lease = "live"
    BY <1>1 DEF BuildType
  <2>4. build' = [build EXCEPT ![b] = row] /\ UNCHANGED <<reaping, lost>>
    BY <1>3 DEF Claim, LeasesInv, LeasesTyped
  <2> HIDE DEF row
  <2>5. /\ build' \in [Builds -> BuildType] /\ build'[b] = row
        /\ \A c \in Builds : c # b => build'[c] = build[c]
    BY <2>3, <2>4 DEF LeasesInv, LeasesTyped
  <2>6. LeasesTyped'
    BY <2>2, <2>4, <2>5 DEF LeasesInv, LeasesTyped
  <2>7. \A v \in Workers \ lost[b] : ~(v # w /\ Executing(b, v) /\ job[b][v].leased)
    BY <1>3, WorkersAssumption DEF Claimable, LeasesInv, LeaseIsHeld
  <2>8. LeaseIsHeld'
    BY <2>2, <2>3, <2>4, <2>5, <2>7 DEF LeasesInv, LeaseIsHeld, Executing
  <2>9. /\ \A v \in Workers : Executing(b, v) => job[b][v].leased \/ v = w
        /\ ~Executing(b, w)
    BY <1>1 DEF LeasesInv, UnleasedIsAlone, Claim, Executing, Steps
  <2>10. UnleasedIsAlone'
    <3> SUFFICES ASSUME NEW c \in Builds, NEW u \in Workers, NEW v \in Workers,
                        Executing(c, v)', ~job'[c][v].leased, Engaged(c, u)'
                 PROVE  u = v
      BY DEF UnleasedIsAlone
    <3>1. CASE c # b
      BY <2>2, <3>1 DEF LeasesInv, UnleasedIsAlone, Executing, Engaged
    <3>2. CASE c = b /\ v # w
      BY <2>2, <2>9, <3>2 DEF Executing
    <3>3. CASE c = b /\ v = w
      <4>1. ~job[b][w].leased
        BY <2>1, <2>2, <3>3
      <4> QED BY <4>1 DEF LeasesInv, QueuedIsLeased, Claim
    <3> QED BY <3>1, <3>2, <3>3
  <2>11. NobodyBeforeTheRequest'
    BY <1>1, <2>2, <2>3, <2>5 DEF LeasesInv, NobodyBeforeTheRequest, Engaged
  <2>12. QueuedIsLeased'
    BY <2>1, <2>2 DEF LeasesInv, QueuedIsLeased
  <2> QED BY <2>6, <2>8, <2>10, <2>11, <2>12 DEF LeasesInv
<1> QED BY <1>2, <1>3

\* Nobody is engaged in a build that was not asked for, so the first is alone.
LEMMA RequestKeeps ==
    ASSUME LeasesInv, NEW b \in Builds, NEW w \in Workers, NEW wait \in BOOLEAN,
           Request(b, w, wait)
    PROVE  LeasesInv'
<1>0. LeasesTyped
  BY DEF LeasesInv
<1> DEFINE to == IF wait THEN Job("begin", FALSE) ELSE Job("queued", TRUE)
           row == [build[b] EXCEPT !.status = "pending"]
<1>1. build[b] \in BuildType /\ build[b].status = "none"
  BY DEF LeasesInv, LeasesTyped, Request
<1>2. to \in JobType /\ (to.pc = "queued" => to.leased)
  BY DEF Job, JobType, AskedType, Steps
<1>3. row \in BuildType /\ row.status = "pending"
  BY <1>1 DEF BuildType
<1>4. /\ job' = [job EXCEPT ![b][w] = to] /\ build' = [build EXCEPT ![b] = row]
      /\ UNCHANGED <<reaping, lost>>
  BY DEF Request, LeasesInv, LeasesTyped
<1>5. \A v \in Workers : ~Engaged(b, v)
  BY <1>1 DEF LeasesInv, NobodyBeforeTheRequest
<1>6. to.pc \in Steps => ~to.leased
  BY DEF Job, Steps
<1> HIDE DEF to, row
<1>7. /\ job' \in [Builds -> [Workers -> JobType]]
      /\ job'[b][w] = to
      /\ \A c \in Builds, v \in Workers : c # b \/ v # w => job'[c][v] = job[c][v]
  BY <1>0, <1>2, <1>4, JobMoves, ZenonT(60)
<1>8. /\ build' \in [Builds -> BuildType] /\ build'[b] = row
      /\ \A c \in Builds : c # b => build'[c] = build[c]
  BY <1>3, <1>4 DEF LeasesInv, LeasesTyped
<1>9. LeasesTyped'
  BY <1>4, <1>7, <1>8 DEF LeasesInv, LeasesTyped
<1>10. \A v \in Workers : v # w => ~Engaged(b, v)'
  BY <1>5, <1>7 DEF Engaged
<1>11. LeaseIsHeld'
  <2> SUFFICES ASSUME NEW c \in Builds, NEW v \in Workers, v \notin lost'[c],
                      Executing(c, v)', job'[c][v].leased
               PROVE  build'[c].owner = v /\ build'[c].lease = "live"
    BY DEF LeaseIsHeld
  <2>1. c # b
    BY <1>6, <1>7, <1>10 DEF Executing, Engaged
  <2> QED BY <1>4, <1>7, <1>8, <2>1 DEF LeasesInv, LeaseIsHeld, Executing
<1>12. UnleasedIsAlone'
  <2> SUFFICES ASSUME NEW c \in Builds, NEW u \in Workers, NEW v \in Workers,
                      Executing(c, v)', ~job'[c][v].leased, Engaged(c, u)'
               PROVE  u = v
    BY DEF UnleasedIsAlone
  <2>1. CASE c = b
    BY <1>10, <2>1 DEF Executing, Engaged
  <2>2. CASE c # b
    BY <1>7, <2>2 DEF LeasesInv, UnleasedIsAlone, Executing, Engaged
  <2> QED BY <2>1, <2>2
<1>13. NobodyBeforeTheRequest'
  BY <1>3, <1>7, <1>8 DEF LeasesInv, NobodyBeforeTheRequest, Engaged
<1>14. QueuedIsLeased'
  BY <1>2, <1>7 DEF LeasesInv, QueuedIsLeased
<1> QED BY <1>9, <1>11, <1>12, <1>13, <1>14 DEF LeasesInv

LEMMA HandOverKeeps ==
    ASSUME LeasesInv, NEW b \in Builds, NEW w \in Workers, HandOver(b, w)
    PROVE  LeasesInv'
<1>0. LeasesTyped
  BY DEF LeasesInv
<1> DEFINE to == Job("queued", TRUE)
<1>1. to \in JobType /\ to.pc = "queued" /\ to.leased
  BY DEF Job, JobType, AskedType
<1>2. job' = [job EXCEPT ![b][w] = to] /\ UNCHANGED <<build, reaping, lost>>
  BY DEF HandOver
<1>3. \A v \in Workers : Executing(b, v) => job[b][v].leased
  BY DEF HandOver, Executing
<1>4. build[b].status # "none"
  BY DEF HandOver
<1> HIDE DEF to
<1>5. /\ job' \in [Builds -> [Workers -> JobType]]
      /\ job'[b][w] = to
      /\ \A c \in Builds, v \in Workers : c # b \/ v # w => job'[c][v] = job[c][v]
  BY <1>0, <1>1, <1>2, JobMoves, ZenonT(60)
<1>6. LeasesTyped'
  BY <1>2, <1>5 DEF LeasesInv, LeasesTyped
<1>7. \A c \in Builds, v \in Workers :
        Executing(c, v)' => Executing(c, v) /\ job'[c][v] = job[c][v]
  BY <1>1, <1>5 DEF Executing, Steps
<1>8. LeaseIsHeld'
  BY <1>2, <1>7 DEF LeasesInv, LeaseIsHeld
<1>9. UnleasedIsAlone'
  <2> SUFFICES ASSUME NEW c \in Builds, NEW u \in Workers, NEW v \in Workers,
                      Executing(c, v)', ~job'[c][v].leased, Engaged(c, u)'
               PROVE  u = v
    BY DEF UnleasedIsAlone
  <2>1. c # b
    BY <1>3, <1>7
  <2> QED BY <1>5, <1>7, <2>1 DEF LeasesInv, UnleasedIsAlone, Engaged
<1>10. NobodyBeforeTheRequest'
  BY <1>2, <1>4, <1>5 DEF LeasesInv, NobodyBeforeTheRequest, Engaged
<1>11. QueuedIsLeased'
  BY <1>1, <1>5 DEF LeasesInv, QueuedIsLeased
<1> QED BY <1>6, <1>8, <1>9, <1>10, <1>11 DEF LeasesInv

-----------------------------------------------------------------------------
(* The steps of execute. *)

SetsStatus(b, status) == build' = [build EXCEPT ![b].status = status]

LEMMA StatusRow ==
    ASSUME LeasesInv, NEW b \in Builds, NEW status \in {"running", "succeeded", "failed"},
           SetsStatus(b, status)
    PROVE  \E row \in BuildType :
             /\ build' = [build EXCEPT ![b] = row]
             /\ row.status # "none" /\ row.owner = build[b].owner /\ row.lease = build[b].lease
<1> DEFINE row == [build[b] EXCEPT !.status = status]
<1>1. build[b] \in BuildType
  BY DEF LeasesInv, LeasesTyped
<1>2. row \in BuildType /\ row.status # "none"
      /\ row.owner = build[b].owner /\ row.lease = build[b].lease
  BY <1>1 DEF BuildType
<1>3. build' = [build EXCEPT ![b] = row]
  BY DEF SetsStatus
<1> HIDE DEF row
<1> QED BY <1>2, <1>3

LEMMA StatusKeeps ==
    ASSUME LeasesInv, NEW b \in Builds, NEW w \in Workers, Executing(b, w),
           NEW pc \in Steps \cup {"done", "raised"}, Goto(b, w, pc),
           NEW status \in {"running", "succeeded", "failed"},
           SetsStatus(b, status), UNCHANGED <<reaping, lost>>
    PROVE  LeasesInv'
<1>1. PICK row \in BuildType :
         /\ build' = [build EXCEPT ![b] = row]
         /\ row.status # "none" /\ row.owner = build[b].owner /\ row.lease = build[b].lease
  BY StatusRow
<1>2. \A v \in Workers :
         build[b].owner = v /\ build[b].lease = "live" /\ (v # w \/ pc \in Steps)
           => row.owner = v /\ row.lease = "live"
  BY <1>1
<1> QED BY <1>1, <1>2, GotoKeeps

LEMMA ExecutingRow ==
    ASSUME LeasesInv, NEW b \in Builds, NEW w \in Workers, Executing(b, w)
    PROVE  build[b] \in BuildType /\ build[b].status # "none" /\ Engaged(b, w)
BY DEF LeasesInv, LeasesTyped, NobodyBeforeTheRequest, Executing, Engaged

LEMMA HeartbeatKeeps ==
    ASSUME LeasesInv, NEW b \in Builds, NEW w \in Workers, Heartbeat(b, w)
    PROVE  LeasesInv'
<1> DEFINE row == [build[b] EXCEPT !.lease = IF build[b].owner = w THEN "live" ELSE @]
<1>1. Executing(b, w) /\ "transform" \in Steps
  BY DEF Heartbeat, Executing, Steps
<1>2. build[b] \in BuildType /\ build[b].status # "none"
  BY <1>1, ExecutingRow
<1>3. /\ row \in BuildType /\ row.status = build[b].status /\ row.owner = build[b].owner
      /\ build[b].lease = "live" => row.lease = "live"
  BY <1>2 DEF BuildType
<1>4. build' = [build EXCEPT ![b] = row] /\ Goto(b, w, "transform") /\ UNCHANGED <<reaping, lost>>
  BY DEF Heartbeat, LeasesInv, LeasesTyped
<1> HIDE DEF row
<1> QED BY <1>1, <1>2, <1>3, <1>4, GotoKeeps

LEMMA ReleaseKeeps ==
    ASSUME LeasesInv, NEW b \in Builds, NEW w \in Workers, Release(b, w)
    PROVE  LeasesInv'
<1> DEFINE row == [build[b] EXCEPT !.lease = IF build[b].owner = w THEN "none" ELSE @]
<1>1. Executing(b, w) /\ "done" \notin Steps
  BY DEF Release, Executing, Steps
<1>2. build[b] \in BuildType /\ build[b].status # "none"
  BY <1>1, ExecutingRow
<1>3. /\ row \in BuildType /\ row.status = build[b].status /\ row.owner = build[b].owner
      /\ build[b].owner # w => row.lease = build[b].lease
  BY <1>2 DEF BuildType
<1>4. build' = [build EXCEPT ![b] = row] /\ Goto(b, w, "done") /\ UNCHANGED <<reaping, lost>>
  BY DEF Release, ReleaseOwn, LeasesInv, LeasesTyped
<1> HIDE DEF row
<1>5. \A v \in Workers :
         build[b].owner = v /\ build[b].lease = "live" /\ (v # w \/ "done" \in Steps)
           => row.owner = v /\ row.lease = "live"
  BY <1>1, <1>3
<1> QED BY <1>1, <1>2, <1>3, <1>4, <1>5, GotoKeeps

LEMMA OutcomesTyped ==
    ASSUME NEW j \in AskedType, NEW t \in Entries, NEW ok \in BOOLEAN
    PROVE  /\ SkipBlocked(j, t) \in AskedType
           /\ SkipBlocked(j, t).pc = j.pc /\ SkipBlocked(j, t).leased = j.leased
           /\ Outcome(j, t, ok) \in AskedType
           /\ Outcome(j, t, ok).pc = "work" /\ Outcome(j, t, ok).leased = j.leased
<1> DEFINE failed == j.failed \cup {t}
           next == j.at + 1
<1>1. failed \in SUBSET Entries /\ next \in Nat /\ j.failed \in SUBSET Entries
  BY DEF AskedType
<1>2. /\ SkipBlocked(j, t) = [j EXCEPT !.at = next, !.failed = failed]
      /\ Outcome(j, t, ok) = [j EXCEPT !.pc = "work", !.at = next,
                                       !.failed = IF ok THEN j.failed ELSE failed]
  BY DEF SkipBlocked, Outcome
<1> HIDE DEF failed, next
<1> QED BY <1>1, <1>2 DEF AskedType, Steps

\* The loop over the plan changes what a replica knows of its job.
LEMMA TasksKeep ==
    ASSUME LeasesInv, NEW b \in Builds, NEW w \in Workers,
           BlockTask(b, w) \/ \E ok \in BOOLEAN : RunTask(b, w, ok)
    PROVE  LeasesInv'
<1>1. Executing(b, w)
  BY DEF BlockTask, MoreToDo, RunTask, Executing, Steps
<1>2. Engaged(b, w)
  BY <1>1, ExecutingRow
<1>3. job[b][w] \in AskedType
  BY <1>2, EngagedJob DEF LeasesInv
<1>4. NextTask(b, w) \in Entries
  BY <1>3 DEF NextTask, Entries, AskedType
<1>5. CASE BlockTask(b, w)
  <2> DEFINE to == SkipBlocked(job[b][w], NextTask(b, w))
  <2>1. /\ to \in JobType /\ to.pc = job[b][w].pc /\ to.leased = job[b][w].leased
    BY <1>3, <1>4, OutcomesTyped DEF JobType
  <2>2. job' = [job EXCEPT ![b][w] = to]
    BY <1>5 DEF BlockTask
  <2>3. to.pc # "queued"
    BY <1>1, <2>1 DEF Executing, Steps
  <2> HIDE DEF to
  <2>4. to.pc \in Steps => Executing(b, w) /\ to.leased = job[b][w].leased
    BY <1>1, <2>1
  <2>5. UNCHANGED <<build, reaping, lost>>
    BY <1>5 DEF BlockTask
  <2> QED BY <1>2, <2>1, <2>2, <2>3, <2>4, <2>5, LocalStep
<1>6. ASSUME NEW ok \in BOOLEAN, RunTask(b, w, ok)
      PROVE  LeasesInv'
  <2> DEFINE to == Outcome(job[b][w], NextTask(b, w), ok)
  <2>1. /\ to \in JobType /\ to.pc = "work" /\ to.leased = job[b][w].leased
    BY <1>3, <1>4, OutcomesTyped DEF JobType
  <2>2. job' = [job EXCEPT ![b][w] = to]
    BY <1>6 DEF RunTask
  <2> HIDE DEF to
  <2> QED BY <1>1, <1>2, <1>6, <2>1, <2>2, LocalStep, ZenonT(60) DEF RunTask
<1> QED BY <1>5, <1>6

LEMMA ExecuteKeeps ==
    ASSUME LeasesInv, NEW b \in Builds, NEW w \in Workers, Execute(b, w) \/ Raise(b, w)
    PROVE  LeasesInv'
<1>1. CASE PlanFails(b, w)
  BY <1>1, StatusKeeps DEF PlanFails, SetsStatus, Executing, Steps
<1>2. CASE Begin(b, w)
  BY <1>2, StatusKeeps DEF Begin, SetsStatus, Executing, Steps
<1>3. CASE Finish(b, w)
  BY <1>3, StatusKeeps DEF Finish, SetsStatus, Executing, Steps
<1>4. CASE StartTask(b, w) \/ Raise(b, w)
  <2>1. Executing(b, w)
    BY <1>4 DEF StartTask, MoreToDo, Raise, Executing, Steps
  <2>2. Engaged(b, w)
    BY <2>1, ExecutingRow
  <2>3. PICK pc \in {"heartbeat", "transform", "raised"} : Goto(b, w, pc)
    BY <1>4 DEF StartTask, Raise
  <2>4. PICK to \in JobType : /\ job' = [job EXCEPT ![b][w] = to]
                              /\ to.pc = pc /\ to.leased = job[b][w].leased
    BY <2>2, <2>3, GotoIs DEF LeasesInv, Steps
  <2> QED BY <1>4, <2>1, <2>2, <2>3, <2>4, LocalStep DEF StartTask, Raise
<1> QED BY <1>1, <1>2, <1>3, <1>4, ClaimKeeps, TasksKeep, HeartbeatKeeps, ReleaseKeeps
        DEF Execute

-----------------------------------------------------------------------------
(* A lease that ends is held by nobody who has not lost it. *)

LEMMA RowsChange ==
    ASSUME LeasesInv, build' \in [Builds -> BuildType], lost' \in [Builds -> SUBSET Workers],
           reaping' \in [Workers -> SUBSET Builds], job' = job,
           \A b \in Builds : /\ build[b].status # "none" => build'[b].status # "none"
                            /\ lost[b] \subseteq lost'[b]
                            /\ \/ build'[b].owner = build[b].owner /\ build'[b].lease = build[b].lease
                               \/ AtWork(b) \subseteq lost'[b]
    PROVE  LeasesInv'
<1>1. LeasesTyped'
  BY DEF LeasesInv, LeasesTyped
<1>2. LeaseIsHeld'
  <2> SUFFICES ASSUME NEW b \in Builds, NEW w \in Workers, w \notin lost'[b],
                      Executing(b, w), job[b][w].leased
               PROVE  build'[b].owner = w /\ build'[b].lease = "live"
    BY DEF LeaseIsHeld, Executing
  <2>1. build[b].owner = w /\ build[b].lease = "live"
    <3>1. w \in Workers \ lost[b]
      OBVIOUS
    <3> QED BY <3>1 DEF LeasesInv, LeaseIsHeld
  <2>2. w \in AtWork(b)
    BY <2>1 DEF AtWork
  <2> QED BY <2>1, <2>2
<1>3. UnleasedIsAlone' /\ QueuedIsLeased'
  BY DEF LeasesInv, UnleasedIsAlone, QueuedIsLeased, Executing, Engaged
<1>4. NobodyBeforeTheRequest'
  <2> SUFFICES ASSUME NEW b \in Builds, NEW w \in Workers, Engaged(b, w)
               PROVE  build'[b].status # "none"
    BY DEF NobodyBeforeTheRequest, Engaged
  <2> QED BY DEF LeasesInv, NobodyBeforeTheRequest
<1> QED BY <1>1, <1>2, <1>3, <1>4 DEF LeasesInv

LEMMA LeaseExpiresKeeps ==
    ASSUME LeasesInv, NEW b \in Builds, LeaseExpires(b)
    PROVE  LeasesInv'
<1> DEFINE row == [build[b] EXCEPT !.lease = "expired"]
<1>1. row \in BuildType /\ row.status = build[b].status
  BY DEF LeasesInv, LeasesTyped, BuildType
<1>2. /\ build' = [build EXCEPT ![b] = row] /\ job' = job /\ reaping' = reaping
      /\ lost' = [lost EXCEPT ![b] = lost[b] \cup AtWork(b)]
  BY DEF LeaseExpires, LeasesInv, LeasesTyped
<1>3. AtWork(b) \subseteq Workers
  BY DEF AtWork
<1> HIDE DEF row
<1>4. build' \in [Builds -> BuildType] /\ lost' \in [Builds -> SUBSET Workers]
  BY <1>1, <1>2, <1>3 DEF LeasesInv, LeasesTyped
<1>5. \A c \in Builds : /\ build[c].status # "none" => build'[c].status # "none"
                        /\ lost[c] \subseteq lost'[c]
                        /\ \/ build'[c].owner = build[c].owner /\ build'[c].lease = build[c].lease
                           \/ AtWork(c) \subseteq lost'[c]
  BY <1>1, <1>2 DEF LeasesInv, LeasesTyped
<1> QED BY <1>2, <1>4, <1>5, RowsChange DEF LeasesInv, LeasesTyped

LEMMA ReapKeeps ==
    ASSUME LeasesInv, NEW w \in Workers, Reap(w)
    PROVE  LeasesInv'
<1>1. CASE ReapSelect(w)
  <2>1. reaping' \in [Workers -> SUBSET Builds] /\ UNCHANGED <<build, job, lost>>
    BY <1>1 DEF ReapSelect, LeasesInv, LeasesTyped
  <2> QED BY <2>1, RowsChange DEF LeasesInv, LeasesTyped
<1>2. CASE ReapFail(w)
  <2>1. \A b \in Builds : AtWork(b) \subseteq Workers
    BY DEF AtWork
  <2>2. \A b \in Builds : /\ build'[b] = IF b \in reaping[w] THEN Reaped(build[b]) ELSE build[b]
                          /\ lost'[b] = lost[b] \cup IF b \in reaping[w] THEN AtWork(b) ELSE {}
    BY <1>2 DEF ReapFail
  <2>3. \A b \in Builds : Reaped(build[b]) \in BuildType /\ Reaped(build[b]).status = "failed"
    BY DEF Reaped, NoBuild, BuildType
  <2>4. build' \in [Builds -> BuildType] /\ lost' \in [Builds -> SUBSET Workers]
    BY <1>2, <2>1, <2>3 DEF ReapFail, LeasesInv, LeasesTyped
  <2>5. reaping' \in [Workers -> SUBSET Builds] /\ job' = job
    BY <1>2 DEF ReapFail, LeasesInv, LeasesTyped
  <2>6. \A b \in Builds : /\ build[b].status # "none" => build'[b].status # "none"
                          /\ lost[b] \subseteq lost'[b]
                          /\ \/ build'[b].owner = build[b].owner /\ build'[b].lease = build[b].lease
                             \/ AtWork(b) \subseteq lost'[b]
    BY <2>2, <2>3
  <2> QED BY <2>4, <2>5, <2>6, RowsChange
<1> QED BY <1>1, <1>2 DEF Reap

LEMMA DieKeeps ==
    ASSUME LeasesInv, NEW w \in Workers, Die(w)
    PROVE  LeasesInv'
<1> DEFINE dead == [pc |-> "dead"]
<1>1. dead \in JobType /\ dead.pc = "dead"
  BY DEF JobType
<1>2. \A b \in Builds : job'[b] = [job[b] EXCEPT ![w] = dead]
  BY DEF Die
<1> HIDE DEF dead
<1>3. \A b \in Builds, v \in Workers : job'[b][v] = IF v = w THEN dead ELSE job[b][v]
  BY <1>2, ZenonT(60) DEF LeasesInv, LeasesTyped
<1>4. job' \in [Builds -> [Workers -> JobType]] /\ reaping' \in [Workers -> SUBSET Builds]
  BY <1>1, <1>2 DEF Die, LeasesInv, LeasesTyped
<1>5. LeasesTyped'
  BY <1>4 DEF Die, LeasesInv, LeasesTyped
<1>6. \A b \in Builds, v \in Workers :
        /\ Engaged(b, v)' => Engaged(b, v) /\ job'[b][v] = job[b][v]
        /\ Executing(b, v)' => Executing(b, v) /\ job'[b][v] = job[b][v]
  BY <1>1, <1>3 DEF Engaged, Executing, Steps
<1>7. LeaseIsHeld' /\ UnleasedIsAlone' /\ NobodyBeforeTheRequest'
  BY <1>6 DEF Die, LeasesInv, LeaseIsHeld, UnleasedIsAlone, NobodyBeforeTheRequest
<1>8. QueuedIsLeased'
  BY <1>1, <1>3 DEF LeasesInv, QueuedIsLeased
<1> QED BY <1>5, <1>7, <1>8 DEF LeasesInv

LEMMA LeasesKeep == LeasesInv /\ [BuildsNext]_vars => LeasesInv'
<1> SUFFICES ASSUME LeasesInv, [BuildsNext]_vars PROVE LeasesInv'
  OBVIOUS
<1>1. CASE UNCHANGED vars
  BY <1>1 DEF LeasesInv, LeasesTyped, LeaseIsHeld, UnleasedIsAlone, NobodyBeforeTheRequest,
              QueuedIsLeased, Executing, Engaged, vars
<1>2. ASSUME NEW b \in Builds, NEW w \in Workers,
             \/ Request(b, w, FALSE)
             \/ Waits /\ Request(b, w, TRUE)
             \/ HandOver(b, w) \/ Execute(b, w) \/ Raise(b, w)
      PROVE  LeasesInv'
  BY <1>2, RequestKeeps, HandOverKeeps, ExecuteKeeps
<1>3. ASSUME NEW b \in Builds, LeaseExpires(b) PROVE LeasesInv'
  BY <1>3, LeaseExpiresKeeps
<1>4. ASSUME NEW w \in Workers, Reap(w) \/ Die(w) PROVE LeasesInv'
  BY <1>4, ReapKeeps, DieKeeps
<1> QED BY <1>1, <1>2, <1>3, <1>4 DEF BuildsNext

-----------------------------------------------------------------------------
\* However many replicas are asked to execute a build, and whatever dies,
\* raises or is reaped, two are inside execute of it only after the lease of
\* one of them has ended under it (claim_build and release_build, db.py).
THEOREM OneExecutor == BuildsSpec => []AtMostOneExecutor
<1>1. LeasesInv => AtMostOneExecutor
  <2> SUFFICES ASSUME LeasesInv, NEW b \in Builds, NEW v \in Workers \ lost[b],
                      NEW w \in Workers \ lost[b], Executing(b, v), Executing(b, w)
               PROVE  v = w
    BY DEF AtMostOneExecutor
  <2>1. Engaged(b, v) /\ Engaged(b, w)
    BY DEF Executing, Engaged
  <2>2. CASE job[b][v].leased /\ job[b][w].leased
    BY <2>2 DEF LeasesInv, LeaseIsHeld
  <2>3. CASE ~(job[b][v].leased /\ job[b][w].leased)
    BY <2>1, <2>3 DEF LeasesInv, UnleasedIsAlone
  <2> QED BY <2>2, <2>3
<1> QED BY <1>1, LeasesStart, LeasesKeep, PTL DEF BuildsSpec

-----------------------------------------------------------------------------
(* How often a transform runs.  A run of the i-th transform leaves its       *)
(* replica past i, or stopped, and of the replicas that were neither stopped *)
(* nor overrun one at most is past the beginning.                            *)

\* The replicas that may have run the i-th transform of the plan.
Passed(b, i) ==
    {w \in Workers : w \in Stopped(b) \/ (job[b][w].pc \in Steps \cup {"done"} /\ job[b][w].at > i)}

\* The replica came through the plan and wrote the outcome.
Through(b, w) == job[b][w].pc \in {"release", "done"} /\ job[b][w].at > 1

JobsBegin(b) ==
    /\ build[b].status = "none" => \A w \in Workers : job[b][w].pc \in {"none", "dead"}
    /\ \A w \in Workers :
        /\ job[b][w].pc \in {"queued", "begin"} => job[b][w].at = 1
        /\ job[b][w].pc \in Steps => job[b][w].at >= 1
        /\ job[b][w].pc \in {"heartbeat", "transform"} => job[b][w].at <= Len(Plan)

RunsArePassed(b) ==
    /\ runs[b] \in [Transforms -> Nat]
    /\ \A i \in 1..Len(Plan) : runs[b][Plan[i]] <= Cardinality(Passed(b, i))

\* As long as no lease ended under its holder, who came through was alone.
ThroughAlone(b) ==
    lost[b] = {} =>
        \A v, w \in Workers : Through(b, w) =>
            Ended(b) /\ (v # w => ~Executing(b, v) /\ ~Through(b, v))

Counts(b) == JobsBegin(b) /\ RunsArePassed(b) /\ ThroughAlone(b)

RunsTyped == runs \in [Builds -> [Transforms -> Nat]]

CountsInv == LeasesInv /\ RunsTyped /\ \A b \in Builds : Counts(b)

LEMMA PlanFacts ==
    /\ Len(Plan) \in Nat
    /\ \A i \in 1..Len(Plan) : Plan[i] \in Transforms
    /\ \A t \in Transforms : \E i \in 1..Len(Plan) : Plan[i] = t
    /\ \A i, j \in 1..Len(Plan) : Plan[i] = Plan[j] => i = j
BY PlanAssumption DEF Planned, Transforms

LEMMA PassedGrows ==
    ASSUME NEW b \in Builds, NEW i, Passed(b, i) \subseteq Passed(b, i)'
    PROVE  /\ Cardinality(Passed(b, i)) \in Nat /\ Cardinality(Passed(b, i)') \in Nat
           /\ Cardinality(Passed(b, i)) <= Cardinality(Passed(b, i)')
           /\ \A w \in Workers : w \in Passed(b, i)' /\ w \notin Passed(b, i) =>
                Cardinality(Passed(b, i)') >= Cardinality(Passed(b, i)) + 1
<1> DEFINE P == Passed(b, i)
           Q == Passed(b, i)'
<1>1. P \subseteq Workers /\ Q \subseteq Workers
  BY DEF Passed
<1>2. IsFiniteSet(P) /\ IsFiniteSet(Q)
  BY <1>1, WorkersAssumption, FS_Subset
<1>3. Cardinality(P) \in Nat /\ Cardinality(Q) \in Nat
  BY <1>2, FS_CardinalityType
<1>4. Cardinality(P) <= Cardinality(Q)
  BY <1>2, FS_Subset
<1>5. ASSUME NEW w \in Workers, w \in Q, w \notin P PROVE Cardinality(Q) >= Cardinality(P) + 1
  <2>1. P \cup {w} \subseteq Q
    BY <1>5
  <2>2. Cardinality(P \cup {w}) = Cardinality(P) + 1
    BY <1>2, <1>5, FS_AddElement
  <2>3. Cardinality(P \cup {w}) <= Cardinality(Q)
    BY <1>2, <2>1, FS_Subset
  <2> QED BY <1>3, <2>2, <2>3
<1> QED BY <1>3, <1>4, <1>5

LEMMA CountsStart == BuildsInit => CountsInv
<1> SUFFICES ASSUME BuildsInit, NEW b \in Builds PROVE Counts(b)
  BY LeasesStart DEF CountsInv, RunsTyped, BuildsInit
<1>1. \A w \in Workers : job[b][w].pc = "none"
  BY DEF BuildsInit, NoJob
<1>2. runs[b] \in [Transforms -> Nat] /\ \A t \in Transforms : runs[b][t] = 0
  BY DEF BuildsInit
<1>3. ASSUME NEW i \in 1..Len(Plan) PROVE runs[b][Plan[i]] <= Cardinality(Passed(b, i))
  <2>1. Passed(b, i) \subseteq Workers
    BY DEF Passed
  <2>2. Cardinality(Passed(b, i)) \in Nat
    BY <2>1, WorkersAssumption, FS_Subset, FS_CardinalityType
  <2> QED BY <1>2, <1>3, <2>2, PlanFacts
<1> QED BY <1>1, <1>2, <1>3 DEF Counts, JobsBegin, RunsArePassed, ThroughAlone, Through, Steps

\* A step that does not touch the build.
LEMMA OtherBuild ==
    ASSUME NEW c \in Builds, Counts(c), build'[c] = build[c], job'[c] = job[c],
           runs'[c] = runs[c], lost'[c] = lost[c]
    PROVE  Counts(c)'
<1>1. \A i : Passed(c, i)' = Passed(c, i)
  BY DEF Passed, Stopped
<1> QED BY <1>1 DEF Counts, JobsBegin, RunsArePassed, ThroughAlone, Through, Ended, Executing

\* A replica goes on with a build that was asked for.
LEMMA CountsStep ==
    ASSUME LeasesInv, NEW b \in Builds, Counts(b), NEW w \in Workers, Engaged(b, w),
           NEW to \in AskedType, job'[b][w] = to,
           \A v \in Workers : v # w => job'[b][v] = job[b][v],
           to.pc \in Steps \cup {"done", "raised"}, to.at >= job[b][w].at,
           build'[b].status # "none", to.pc = "begin" => to.at = 1,
           to.pc \in {"heartbeat", "transform"} => to.at <= Len(Plan),
           to.pc \in {"release", "done"} => to.at = job[b][w].at,
           to.pc \in {"release", "done"} /\ job[b][w].pc # "release" /\ to.at > 1 => Ended(b)',
           build'[b].status = build[b].status \/ (Executing(b, w) /\ job[b][w].pc # "release"),
           Executing(b, w) \/ to.pc = "done" \/ Active(build[b]),
           runs'[b] \in [Transforms -> Nat],
           \A i \in 1..Len(Plan) :
               \/ runs'[b][Plan[i]] = runs[b][Plan[i]]
               \/ /\ runs'[b][Plan[i]] = runs[b][Plan[i]] + 1 /\ job[b][w].at = i
                  /\ to.at > i /\ to.pc \in Steps,
           lost'[b] = lost[b]
    PROVE  Counts(b)'
<1>1. job[b][w] \in AskedType
  BY EngagedJob DEF LeasesInv
<1>2. JobsBegin(b)'
  <2>1. to.pc # "queued"
    BY DEF Steps
  <2>2. job[b][w].at >= 1 /\ to.at \in Nat /\ job[b][w].at \in Nat
    BY <1>1 DEF Counts, JobsBegin, Engaged, AskedType
  <2> QED BY <2>1, <2>2 DEF Counts, JobsBegin
<1>3. RunsArePassed(b)'
  <2> SUFFICES ASSUME NEW i \in 1..Len(Plan)
               PROVE  runs'[b][Plan[i]] <= Cardinality(Passed(b, i)')
    BY DEF RunsArePassed
  <2>0. i \in Nat /\ i >= 1 /\ to.at \in Nat /\ job[b][w].at \in Nat
    BY <1>1, PlanFacts DEF AskedType
  <2>1. w \notin Stopped(b)
    BY DEF Stopped, Engaged, Steps
  <2>2. Passed(b, i) \subseteq Passed(b, i)'
    BY <2>0, <2>1 DEF Passed, Stopped
  <2>3. runs[b][Plan[i]] <= Cardinality(Passed(b, i)) /\ runs[b][Plan[i]] \in Nat
        /\ runs'[b][Plan[i]] \in Nat
    BY PlanFacts DEF Counts, RunsArePassed
  <2>4. CASE runs'[b][Plan[i]] = runs[b][Plan[i]]
    BY <2>2, <2>3, <2>4, PassedGrows
  <2>5. CASE runs'[b][Plan[i]] # runs[b][Plan[i]]
    <3>1. job[b][w].at = i /\ to.at > i /\ to.pc \in Steps /\ runs'[b][Plan[i]] = runs[b][Plan[i]] + 1
      BY <2>5
    <3>2. w \in Passed(b, i)' /\ w \notin Passed(b, i)
      BY <2>0, <2>1, <3>1 DEF Passed
    <3>3. Cardinality(Passed(b, i)') >= Cardinality(Passed(b, i)) + 1
      BY <2>2, <3>2, PassedGrows
    <3> QED BY <2>2, <2>3, <3>1, <3>3, PassedGrows
  <2> QED BY <2>4, <2>5
<1>4. ThroughAlone(b)'
  <2> SUFFICES ASSUME lost[b] = {}, NEW u \in Workers, NEW v \in Workers, Through(b, u)'
               PROVE  Ended(b)' /\ (v # u => ~Executing(b, v)' /\ ~Through(b, v)')
    BY DEF ThroughAlone
  <2>1. to.at \in Nat /\ job[b][w].at \in Nat
    BY <1>1 DEF AskedType
  <2>2. \A x, y \in Workers : Executing(b, x) /\ Executing(b, y) => x = y
    <3> SUFFICES ASSUME NEW x \in Workers, NEW y \in Workers, Executing(b, x), Executing(b, y)
                 PROVE  x = y
      OBVIOUS
    <3>1. Engaged(b, x) /\ Engaged(b, y) /\ x \in Workers \ lost[b] /\ y \in Workers \ lost[b]
      BY DEF Executing, Engaged
    <3> QED BY <3>1 DEF LeasesInv, LeaseIsHeld, UnleasedIsAlone
  <2>3. ASSUME NEW x \in Workers, x # w
        PROVE  /\ Executing(b, x)' = Executing(b, x)
               /\ Through(b, x)' = Through(b, x)
    <3>1. job'[b][x] = job[b][x]
      BY <2>3
    <3> QED BY <3>1 DEF Executing, Through
  <2>4. \A x, y \in Workers : Through(b, x) =>
            Ended(b) /\ (x # y => ~Executing(b, y) /\ ~Through(b, y))
    BY DEF Counts, ThroughAlone
  <2>5. CASE u # w
    <3>1. Through(b, u) /\ Ended(b) /\ ~Executing(b, w)
      BY <2>3, <2>4, <2>5
    <3>2. job[b][w].pc = "queued" /\ to.pc = "done"
      BY <3>1 DEF Engaged, Executing, Active, Ended
    <3>3. job[b][w].at = 1
      BY <3>2 DEF Counts, JobsBegin
    <3>4. ~Executing(b, w)' /\ ~Through(b, w)'
      BY <3>2, <3>3 DEF Executing, Through, Steps
    <3>5. Ended(b)'
      BY <3>1 DEF Ended
    <3> QED BY <2>3, <2>4, <3>1, <3>4, <3>5
  <2>6. CASE u = w
    <3>1. to.pc \in {"release", "done"} /\ to.at > 1 /\ job[b][w].at > 1
      BY <2>1, <2>6 DEF Through
    <3>2. Executing(b, w)
      BY <3>1 DEF Engaged, Executing, Counts, JobsBegin
    <3>3. \A x \in Workers : x # w => ~Executing(b, x) /\ ~Through(b, x)
      BY <2>2, <2>4, <3>2
    <3>4. Ended(b)'
      <4>1. CASE job[b][w].pc = "release"
        <5>1. Through(b, w)
          BY <3>1, <4>1 DEF Through
        <5> QED BY <2>4, <4>1, <5>1 DEF Ended
      <4>2. CASE job[b][w].pc # "release"
        BY <3>1, <4>2
      <4> QED BY <4>1, <4>2
    <3> QED BY <2>3, <2>6, <3>3, <3>4
  <2> QED BY <2>5, <2>6
<1> QED BY <1>2, <1>3, <1>4 DEF Counts

\* A replica goes to another step, and knows of its job what it knew.
LEMMA GotoOnly ==
    ASSUME LeasesInv, NEW b \in Builds, NEW w \in Workers, Engaged(b, w),
           NEW pc \in Steps \cup {"done", "raised"}, Goto(b, w, pc)
    PROVE  \E to \in AskedType :
             /\ job' = [job EXCEPT ![b][w] = to] /\ to.pc = pc /\ to.leased = job[b][w].leased
             /\ to.at = job[b][w].at /\ to.failed = job[b][w].failed
<1> DEFINE to == [job[b][w] EXCEPT !.pc = pc]
<1>1. job' = [job EXCEPT ![b][w] = to]
  BY DEF Goto
<1>2. job[b][w] \in AskedType
  BY EngagedJob DEF LeasesInv
<1>3. /\ to \in AskedType /\ to.pc = pc /\ to.leased = job[b][w].leased
      /\ to.at = job[b][w].at /\ to.failed = job[b][w].failed
  BY <1>2 DEF AskedType
<1> HIDE DEF to
<1> QED BY <1>1, <1>3

\* Where a step of execute leads, and what it does to the build's row.
GoesOn(b, w, to) ==
    /\ to.at = job[b][w].at /\ to.failed = job[b][w].failed /\ runs' = runs
    /\ UNCHANGED task \/ StartTask(b, w)
    /\ \/ build'[b].status = build[b].status
       \/ PlanFails(b, w) \/ Begin(b, w) \/ Finish(b, w)

EndsTask(b, w, to) ==
    /\ to.at = job[b][w].at + 1 /\ to.pc = "work" /\ build' = build
    /\ \/ BlockTask(b, w) /\ to.failed = job[b][w].failed \cup {NextTask(b, w)}
       \/ \E ok \in BOOLEAN :
             /\ RunTask(b, w, ok)
             /\ to.failed = job[b][w].failed \cup IF ok THEN {} ELSE {NextTask(b, w)}

LeadsTo(b, w, to) ==
    /\ job' = [job EXCEPT ![b][w] = to] /\ to.leased = job[b][w].leased
    /\ to.pc \in Steps \cup {"done", "raised"}
    /\ GoesOn(b, w, to) \/ EndsTask(b, w, to)
    /\ to.pc = "begin" => Claim(b, w) /\ Claimable(build[b], w)
    /\ to.pc = "release" => Finish(b, w)
    /\ to.pc \in {"heartbeat", "transform"} => StartTask(b, w) \/ Heartbeat(b, w)
    /\ to.pc = "done" => Claim(b, w) \/ PlanFails(b, w) \/ Finish(b, w) \/ Release(b, w)
    /\ to.pc \in Steps /\ job[b][w].pc = "queued" => Claimable(build[b], w)
    /\ \A c \in Builds : c # b => build'[c] = build[c]
    /\ lost' = lost /\ reaping' = reaping

LEMMA ExecuteLeads ==
    ASSUME LeasesInv, NEW b \in Builds, NEW w \in Workers, Execute(b, w) \/ Raise(b, w)
    PROVE  \E to \in AskedType : LeadsTo(b, w, to)
<1>1. build \in [Builds -> BuildType]
  BY DEF LeasesInv, LeasesTyped
<1>2. Engaged(b, w)
  BY DEF Execute, Raise, Claim, PlanFails, Begin, BlockTask, StartTask, MoreToDo, Heartbeat,
     RunTask, Finish, Release, Engaged, Steps
<1>3. job[b][w] \in AskedType
  BY <1>2, EngagedJob DEF LeasesInv
<1>4. ASSUME NEW pc \in Steps \cup {"done", "raised"}, Goto(b, w, pc), runs' = runs,
             UNCHANGED task \/ StartTask(b, w),
             \/ build'[b].status = build[b].status
             \/ PlanFails(b, w) \/ Begin(b, w) \/ Finish(b, w),
             pc = "begin" => Claim(b, w) /\ Claimable(build[b], w),
             pc = "release" => Finish(b, w),
             pc \in {"heartbeat", "transform"} => StartTask(b, w) \/ Heartbeat(b, w),
             pc = "done" => Claim(b, w) \/ PlanFails(b, w) \/ Finish(b, w) \/ Release(b, w),
             pc \in Steps /\ job[b][w].pc = "queued" => Claimable(build[b], w),
             \A c \in Builds : c # b => build'[c] = build[c], lost' = lost, reaping' = reaping
      PROVE  \E to \in AskedType : LeadsTo(b, w, to)
  <2>1. PICK to \in AskedType :
           /\ job' = [job EXCEPT ![b][w] = to] /\ to.pc = pc /\ to.leased = job[b][w].leased
           /\ to.at = job[b][w].at /\ to.failed = job[b][w].failed
    BY <1>2, <1>4, GotoOnly
  <2>2. GoesOn(b, w, to)
    BY <1>4, <2>1 DEF GoesOn
  <2>3. LeadsTo(b, w, to)
    BY <1>4, <2>1, <2>2 DEF LeadsTo
  <2> QED BY <2>3
<1>5. CASE Claim(b, w)
  <2>1. CASE Claimable(build[b], w)
    <3>1. build'[b].status = build[b].status /\ \A c \in Builds : c # b => build'[c] = build[c]
      BY <1>1, <1>5, <2>1 DEF Claim, BuildType
    <3> QED BY <1>4, <1>5, <2>1, <3>1 DEF Claim, Steps
  <2>2. CASE ~Claimable(build[b], w)
    BY <1>4, <1>5, <2>2 DEF Claim, Steps
  <2> QED BY <2>1, <2>2
<1>6. CASE PlanFails(b, w)
  <2>1. \A c \in Builds : c # b => build'[c] = build[c]
    BY <1>1, <1>6 DEF PlanFails
  <2> QED BY <1>4, <1>6, <2>1 DEF PlanFails, Steps
<1>7. CASE Begin(b, w)
  <2>1. \A c \in Builds : c # b => build'[c] = build[c]
    BY <1>1, <1>7 DEF Begin
  <2> QED BY <1>4, <1>7, <2>1 DEF Begin, Steps
<1>8. CASE Finish(b, w)
  <2>1. \A c \in Builds : c # b => build'[c] = build[c]
    BY <1>1, <1>8 DEF Finish
  <2>2. PICK pc \in {"release", "done"} : Goto(b, w, pc)
    BY <1>8 DEF Finish
  <2> QED BY <1>4, <1>8, <2>1, <2>2 DEF Finish, Steps
<1>9. CASE Heartbeat(b, w)
  <2>1. build'[b].status = build[b].status /\ \A c \in Builds : c # b => build'[c] = build[c]
    BY <1>1, <1>9 DEF Heartbeat, BuildType
  <2> QED BY <1>4, <1>9, <2>1 DEF Heartbeat, Steps
<1>10. CASE Release(b, w)
  <2>1. build'[b].status = build[b].status /\ \A c \in Builds : c # b => build'[c] = build[c]
    BY <1>1, <1>10 DEF Release, BuildType
  <2> QED BY <1>4, <1>10, <2>1 DEF Release, Steps
<1>11. CASE StartTask(b, w)
  <2>1. PICK pc \in {"heartbeat", "transform"} : Goto(b, w, pc)
    BY <1>11 DEF StartTask
  <2> QED BY <1>4, <1>11, <2>1 DEF StartTask, MoreToDo, Steps
<1>12. CASE Raise(b, w)
  BY <1>4, <1>12 DEF Raise, Steps
<1> DEFINE t == NextTask(b, w)
<1>13. t \in Entries
  BY <1>3 DEF NextTask, Entries, AskedType
<1>14. CASE BlockTask(b, w)
  <2> DEFINE to == SkipBlocked(job[b][w], t)
  <2>1. to \in AskedType /\ to.pc = job[b][w].pc /\ to.leased = job[b][w].leased
    BY <1>3, <1>13, OutcomesTyped
  <2>2. to.at = job[b][w].at + 1 /\ to.failed = job[b][w].failed \cup {t}
    BY <1>3 DEF SkipBlocked, AskedType
  <2>3. job[b][w].pc = "work" /\ job' = [job EXCEPT ![b][w] = to] /\ UNCHANGED <<build, reaping, lost>>
    BY <1>14 DEF BlockTask, MoreToDo
  <2> HIDE DEF to
  <2>4. EndsTask(b, w, to)
    BY <1>14, <2>1, <2>2, <2>3 DEF EndsTask
  <2>5. LeadsTo(b, w, to)
    BY <2>1, <2>3, <2>4 DEF LeadsTo, Steps
  <2> QED BY <2>1, <2>5
<1>15. ASSUME NEW ok \in BOOLEAN, RunTask(b, w, ok)
       PROVE  \E to \in AskedType : LeadsTo(b, w, to)
  <2> DEFINE to == Outcome(job[b][w], t, ok)
  <2>1. to \in AskedType /\ to.pc = "work" /\ to.leased = job[b][w].leased
    BY <1>3, <1>13, OutcomesTyped
  <2>2. to.at = job[b][w].at + 1 /\ to.failed = job[b][w].failed \cup IF ok THEN {} ELSE {t}
    BY <1>3 DEF Outcome, AskedType
  <2>3. job[b][w].pc = "transform" /\ job' = [job EXCEPT ![b][w] = to] /\ UNCHANGED <<build, reaping, lost>>
    BY <1>15 DEF RunTask
  <2> HIDE DEF to
  <2>4. EndsTask(b, w, to)
    BY <1>15, <2>1, <2>2, <2>3 DEF EndsTask
  <2>5. LeadsTo(b, w, to)
    BY <2>1, <2>3, <2>4 DEF LeadsTo, Steps
  <2> QED BY <2>1, <2>5
<1> QED BY <1>5, <1>6, <1>7, <1>8, <1>9, <1>10, <1>11, <1>12, <1>14, <1>15 DEF Execute

\* The three ways a job changes: one replica's, for one build.
LEMMA OneJob ==
    ASSUME LeasesInv, NEW b \in Builds, NEW w \in Workers, NEW to \in JobType,
           job' = [job EXCEPT ![b][w] = to]
    PROVE  /\ job'[b][w] = to /\ \A v \in Workers : v # w => job'[b][v] = job[b][v]
           /\ \A c \in Builds : c # b => job'[c] = job[c]
<1>1. /\ job' \in [Builds -> [Workers -> JobType]] /\ job'[b][w] = to
      /\ \A c \in Builds, v \in Workers : c # b \/ v # w => job'[c][v] = job[c][v]
  BY JobMoves, ZenonT(60) DEF LeasesInv
<1>2. job \in [Builds -> [Workers -> JobType]]
  BY DEF LeasesInv, LeasesTyped
<1>3. ASSUME NEW c \in Builds, c # b PROVE job'[c] = job[c]
  BY <1>2, <1>3
<1> QED BY <1>1, <1>3

LEMMA ExecuteCounts ==
    ASSUME LeasesInv, RunsTyped, NEW b \in Builds, Counts(b), NEW w \in Workers,
           Execute(b, w) \/ Raise(b, w)
    PROVE  RunsTyped' /\ Counts(b)' /\ \A c \in Builds : c # b /\ Counts(c) => Counts(c)'
<1>1. PICK to \in AskedType : LeadsTo(b, w, to)
  BY ExecuteLeads
<1>2. Engaged(b, w)
  BY DEF Execute, Raise, Claim, PlanFails, Begin, BlockTask, StartTask, MoreToDo, Heartbeat,
     RunTask, Finish, Release, Engaged, Steps
<1>3. /\ job'[b][w] = to /\ \A v \in Workers : v # w => job'[b][v] = job[b][v]
      /\ \A c \in Builds : c # b => job'[c] = job[c]
  BY <1>1, OneJob DEF LeadsTo, JobType
<1>4. /\ job[b][w] \in AskedType /\ build[b].status # "none" /\ to.at \in Nat /\ job[b][w].at \in Nat
      /\ runs[b] \in [Transforms -> Nat]
  BY <1>2, EngagedJob DEF LeasesInv, NobodyBeforeTheRequest, Counts, RunsArePassed, AskedType
<1>5. LeasesInv'
  BY ExecuteKeeps
<1>6. build'[b].status # "none"
  <2>1. CASE build'[b].status = build[b].status
    BY <1>4, <2>1
  <2>2. CASE PlanFails(b, w) \/ Begin(b, w) \/ Finish(b, w)
    <3>1. build \in [Builds -> BuildType]
      BY DEF LeasesInv, LeasesTyped
    <3> QED BY <2>2, <3>1 DEF PlanFails, Begin, Finish, BuildType
  <2> QED BY <1>1, <2>1, <2>2 DEF LeadsTo, GoesOn, EndsTask
<1>7. build \in [Builds -> BuildType]
  BY DEF LeasesInv, LeasesTyped
<1>8. job[b][w].pc = "release" => build'[b].status = build[b].status
  BY <1>1 DEF LeadsTo, GoesOn, EndsTask, PlanFails, Begin, Finish
<1>9. build'[b].status = build[b].status \/ (Executing(b, w) /\ job[b][w].pc # "release")
  BY <1>1 DEF LeadsTo, GoesOn, EndsTask, PlanFails, Begin, Finish, Executing, Steps
<1>10. Executing(b, w) \/ to.pc = "done" \/ Active(build[b])
  <2>1. job[b][w].pc = "queued" => to.pc # "raised"
    <3>1. ASSUME job[b][w].pc = "queued" PROVE Claim(b, w)
      BY <3>1 DEF Execute, Raise, Claim, PlanFails, Begin, BlockTask, StartTask, MoreToDo,
         Heartbeat, RunTask, Finish, Release, Steps
    <3>2. Claim(b, w) => job'[b][w].pc \in {"begin", "done"}
      <4>1. ASSUME NEW pc \in {"begin", "done"}, Goto(b, w, pc) PROVE job'[b][w].pc = pc
        BY <1>2, <1>3, <4>1, GotoOnly, OneJob DEF Steps, JobType
      <4> QED BY <4>1 DEF Claim
    <3> QED BY <1>3, <3>1, <3>2
  <2> QED BY <1>1, <1>2, <2>1 DEF LeadsTo, Engaged, Executing, Claimable
<1>11. to.pc = "begin" => to.at = 1
  BY <1>1, <1>4 DEF LeadsTo, GoesOn, EndsTask, Claim, Counts, JobsBegin
<1>12. to.pc \in {"release", "done"} => to.at = job[b][w].at
  BY <1>1 DEF LeadsTo, GoesOn, EndsTask
<1>13. to.pc \in {"release", "done"} /\ job[b][w].pc # "release" /\ to.at > 1 => Ended(b)'
  <2>1. PlanFails(b, w) \/ Finish(b, w) => Ended(b)'
    BY <1>7 DEF PlanFails, Finish, Ended, BuildType
  <2>2. Claim(b, w) /\ to.at = job[b][w].at => to.at = 1
    BY DEF Claim, Counts, JobsBegin
  <2> QED BY <1>1, <1>12, <2>1, <2>2 DEF LeadsTo, Release
<1>14. CASE GoesOn(b, w, to)
  <2>1. runs' = runs /\ to.at = job[b][w].at
    BY <1>14 DEF GoesOn
  <2>2. to.pc \in {"heartbeat", "transform"} => to.at <= Len(Plan)
    <3>1. to.pc \in {"heartbeat", "transform"} => StartTask(b, w) \/ job[b][w].pc = "heartbeat"
      BY <1>1 DEF LeadsTo, Heartbeat
    <3> QED BY <2>1, <3>1 DEF StartTask, MoreToDo, Counts, JobsBegin
  <2>3. Counts(b)'
    BY <1>1, <1>2, <1>3, <1>4, <1>6, <1>9, <1>10, <1>11, <1>12, <1>13, <2>1, <2>2, CountsStep DEF LeadsTo
  <2> QED BY <1>1, <1>3, <2>1, <2>3, OtherBuild DEF LeadsTo, RunsTyped
<1>15. CASE EndsTask(b, w, to)
  <2>1. to.pc = "work" /\ to.at = job[b][w].at + 1 /\ job[b][w].at >= 1
    BY <1>2, <1>4, <1>15 DEF EndsTask, Counts, JobsBegin, Engaged
  <2>2. \/ runs' = runs
        \/ /\ job[b][w].pc = "transform"
           /\ \E n \in Nat : /\ runs' = [runs EXCEPT ![b][NextTask(b, w)] = n]
                             /\ n \in {runs[b][NextTask(b, w)], runs[b][NextTask(b, w)] + 1}
    <3>1. ASSUME NEW ok \in BOOLEAN, RunTask(b, w, ok)
          PROVE  /\ job[b][w].pc = "transform"
                 /\ \E n \in Nat : /\ runs' = [runs EXCEPT ![b][NextTask(b, w)] = n]
                                   /\ n \in {runs[b][NextTask(b, w)], runs[b][NextTask(b, w)] + 1}
      <4> DEFINE t == NextTask(b, w)
                 n == IF runs[b][t] < Handed THEN runs[b][t] + 1 ELSE runs[b][t]
      <4>1. job[b][w].pc = "transform" /\ runs' = [runs EXCEPT ![b][t] = n]
        BY <3>1 DEF RunTask
      <4>2. job[b][w].at \in 1..Len(Plan)
        BY <1>4, <4>1, PlanFacts DEF Counts, JobsBegin, Steps
      <4>3. t \in Transforms
        BY <4>2, PlanFacts DEF NextTask
      <4>4. n \in Nat /\ n \in {runs[b][t], runs[b][t] + 1}
        BY <1>4, <4>3
      <4> HIDE DEF n, t
      <4> QED BY <4>1, <4>4 DEF t
    <3> QED BY <1>15, <3>1 DEF EndsTask, BlockTask
  <2>3. /\ RunsTyped' /\ runs'[b] \in [Transforms -> Nat]
        /\ \A i \in 1..Len(Plan) :
               \/ runs'[b][Plan[i]] = runs[b][Plan[i]]
               \/ /\ runs'[b][Plan[i]] = runs[b][Plan[i]] + 1 /\ job[b][w].at = i
                  /\ to.at > i /\ to.pc \in Steps
        /\ \A c \in Builds : c # b => runs'[c] = runs[c]
    <3>1. CASE runs' = runs
      BY <1>4, <3>1 DEF RunsTyped
    <3>2. CASE runs' # runs
      <4> DEFINE t == NextTask(b, w)
      <4>1. PICK n \in Nat : runs' = [runs EXCEPT ![b][t] = n] /\ n \in {runs[b][t], runs[b][t] + 1}
        BY <2>2, <3>2
      <4>2. job[b][w].at \in 1..Len(Plan)
        BY <1>4, <2>2, <3>2, PlanFacts DEF Counts, JobsBegin, Steps
      <4>3. t = Plan[job[b][w].at] /\ t \in Transforms
        BY <4>2, PlanFacts DEF NextTask
      <4> HIDE DEF t
      <4>4. /\ runs' \in [Builds -> [Transforms -> Nat]] /\ runs'[b][t] = n
            /\ \A u \in Transforms : u # t => runs'[b][u] = runs[b][u]
            /\ \A c \in Builds : c # b => runs'[c] = runs[c]
        <5> DEFINE row == [runs[b] EXCEPT ![t] = n]
        <5>1. row \in [Transforms -> Nat] /\ row[t] = n /\ \A u \in Transforms : u # t => row[u] = runs[b][u]
          BY <1>4, <4>3
        <5>2. runs' = [runs EXCEPT ![b] = row]
          BY <4>1
        <5> HIDE DEF row
        <5> QED BY <5>1, <5>2 DEF RunsTyped
      <4>5. ASSUME NEW i \in 1..Len(Plan)
            PROVE  \/ runs'[b][Plan[i]] = runs[b][Plan[i]]
                   \/ /\ runs'[b][Plan[i]] = runs[b][Plan[i]] + 1 /\ job[b][w].at = i
                      /\ to.at > i /\ to.pc \in Steps
        <5>1. CASE i = job[b][w].at
          BY <1>4, <2>1, <4>1, <4>3, <4>4, <5>1 DEF Steps
        <5>2. CASE i # job[b][w].at
          BY <4>2, <4>3, <4>4, <5>2, PlanFacts
        <5> QED BY <5>1, <5>2
      <4> QED BY <4>4, <4>5 DEF RunsTyped
    <3> QED BY <3>1, <3>2
  <2>4. Counts(b)'
    <3>1. to.at >= job[b][w].at
      BY <1>4, <2>1
    <3>2. ~(to.pc \in {"heartbeat", "transform"})
      BY <2>1
    <3> QED BY <1>1, <1>2, <1>3, <1>4, <1>6, <1>9, <1>10, <1>11, <1>12, <1>13, <2>3, <3>1, <3>2,
               CountsStep DEF LeadsTo
  <2> QED BY <1>1, <1>3, <2>3, <2>4, OtherBuild DEF LeadsTo
<1> QED BY <1>1, <1>14, <1>15 DEF LeadsTo

\* A replica that was not asked before is asked.
LEMMA AskedCounts ==
    ASSUME LeasesInv, RunsTyped, NEW b \in Builds, Counts(b), NEW w \in Workers,
           job[b][w].pc = "none", NEW to \in AskedType, to.at = 1,
           to.pc \in {"queued", "begin"}, job' = [job EXCEPT ![b][w] = to],
           to.pc = "queued" \/ build[b].status = "none",
           build'[b].status # "none", Ended(b) => Ended(b)',
           \A c \in Builds : c # b => build'[c] = build[c],
           UNCHANGED <<runs, lost>>
    PROVE  RunsTyped' /\ Counts(b)' /\ \A c \in Builds : c # b /\ Counts(c) => Counts(c)'
<1>1. /\ job'[b][w] = to /\ \A v \in Workers : v # w => job'[b][v] = job[b][v]
      /\ \A c \in Builds : c # b => job'[c] = job[c]
  BY OneJob DEF JobType
<1>2. JobsBegin(b)'
  BY <1>1 DEF Counts, JobsBegin
<1>3. ASSUME NEW i \in 1..Len(Plan) PROVE Passed(b, i)' = Passed(b, i)
  <2>1. i \in Nat /\ i >= 1
    BY PlanFacts
  <2>2. w \notin Passed(b, i)
    BY DEF Passed, Stopped, Steps
  <2>3. w \notin Passed(b, i)'
    BY <1>1, <2>1 DEF Passed, Stopped, Steps
  <2>4. \A v \in Workers : v # w => (v \in Passed(b, i)' <=> v \in Passed(b, i))
    BY <1>1 DEF Passed, Stopped
  <2> QED BY <2>2, <2>3, <2>4 DEF Passed
<1>4. RunsArePassed(b)'
  BY <1>3 DEF Counts, RunsArePassed
<1>5. ThroughAlone(b)'
  <2> SUFFICES ASSUME lost[b] = {}, NEW u \in Workers, NEW v \in Workers, Through(b, u)'
               PROVE  Ended(b)' /\ (v # u => ~Executing(b, v)' /\ ~Through(b, v)')
    BY DEF ThroughAlone
  <2>1. ASSUME NEW x \in Workers, x # w
        PROVE  /\ Executing(b, x)' = Executing(b, x)
               /\ Through(b, x)' = Through(b, x)
    <3>1. job'[b][x] = job[b][x]
      BY <1>1, <2>1
    <3> QED BY <3>1 DEF Executing, Through
  <2>2. ~Through(b, w)'
    BY <1>1 DEF Through
  <2>3. u # w /\ Through(b, u)
    BY <2>1, <2>2
  <2>4. build[b].status # "none" /\ to.pc = "queued"
    BY <2>3 DEF Through, Counts, JobsBegin
  <2>5. ~Executing(b, w)'
    BY <1>1, <2>4 DEF Executing, Steps
  <2> QED BY <2>1, <2>2, <2>3, <2>5 DEF Counts, ThroughAlone
<1> QED BY <1>1, <1>2, <1>4, <1>5, OtherBuild DEF Counts, RunsTyped

LEMMA RequestCounts ==
    ASSUME LeasesInv, RunsTyped, NEW b \in Builds, Counts(b), NEW w \in Workers,
           NEW wait \in BOOLEAN, Request(b, w, wait) \/ HandOver(b, w)
    PROVE  RunsTyped' /\ Counts(b)' /\ \A c \in Builds : c # b /\ Counts(c) => Counts(c)'
<1>1. build \in [Builds -> BuildType]
  BY DEF LeasesInv, LeasesTyped
<1>2. CASE Request(b, w, wait)
  <2> DEFINE to == IF wait THEN Job("begin", FALSE) ELSE Job("queued", TRUE)
  <2>1. to \in AskedType /\ to.at = 1 /\ to.pc \in {"queued", "begin"}
    BY DEF Job, AskedType, Steps
  <2>2. job' = [job EXCEPT ![b][w] = to] /\ build[b].status = "none" /\ UNCHANGED <<runs, lost>>
    BY <1>2 DEF Request
  <2>3. build'[b].status = "pending" /\ \A c \in Builds : c # b => build'[c] = build[c]
    BY <1>1, <1>2 DEF Request, BuildType
  <2>4. job[b][w].pc = "none"
    BY <1>2, <2>2 DEF Request, Counts, JobsBegin, Alive
  <2> HIDE DEF to
  <2> QED BY <2>1, <2>2, <2>3, <2>4, AskedCounts DEF Ended
<1>3. CASE HandOver(b, w)
  <2> DEFINE to == Job("queued", TRUE)
  <2>1. to \in AskedType /\ to.at = 1 /\ to.pc = "queued"
    BY DEF Job, AskedType, Steps
  <2>2. job' = [job EXCEPT ![b][w] = to] /\ build' = build /\ UNCHANGED <<runs, lost>>
        /\ build[b].status # "none" /\ job[b][w].pc = "none"
    BY <1>3 DEF HandOver, NoJob
  <2> HIDE DEF to
  <2> QED BY <2>1, <2>2, AskedCounts DEF Ended
<1> QED BY <1>2, <1>3

\* A lease that ends, by the clock or by a reaper, changes no job.
LEMMA RowsCount ==
    ASSUME RunsTyped, NEW b \in Builds, Counts(b), UNCHANGED <<job, runs>>,
           lost[b] \subseteq lost'[b],
           build'[b].status \in {build[b].status, "failed"}
    PROVE  Counts(b)'
<1>1. \A i : Passed(b, i)' = Passed(b, i)
  BY DEF Passed, Stopped
<1>2. Ended(b) => Ended(b)'
  BY DEF Ended
<1> QED BY <1>1, <1>2 DEF Counts, JobsBegin, RunsArePassed, ThroughAlone, Through, Executing

LEMMA LeaseEndsCounts ==
    ASSUME CountsInv, (\E b \in Builds : LeaseExpires(b)) \/ \E w \in Workers : Reap(w)
    PROVE  RunsTyped' /\ \A b \in Builds : Counts(b)'
<1>1. build \in [Builds -> BuildType] /\ lost \in [Builds -> SUBSET Workers]
  BY DEF CountsInv, LeasesInv, LeasesTyped
<1>2. ASSUME NEW b \in Builds, LeaseExpires(b)
      PROVE  /\ UNCHANGED <<job, runs>>
             /\ \A c \in Builds : lost[c] \subseteq lost'[c] /\ build'[c].status = build[c].status
  BY <1>1, <1>2 DEF LeaseExpires, BuildType
<1>3. ASSUME NEW w \in Workers, Reap(w)
      PROVE  /\ UNCHANGED <<job, runs>>
             /\ \A c \in Builds : lost[c] \subseteq lost'[c] /\ build'[c].status \in {build[c].status, "failed"}
  <2>1. \A c \in Builds : Reaped(build[c]).status = "failed"
    BY DEF Reaped, NoBuild
  <2> QED BY <1>1, <1>3, <2>1 DEF Reap, ReapSelect, ReapFail
<1>4. /\ UNCHANGED <<job, runs>>
      /\ \A c \in Builds : lost[c] \subseteq lost'[c] /\ build'[c].status \in {build[c].status, "failed"}
  BY <1>2, <1>3
<1> QED BY <1>4, RowsCount DEF CountsInv, RunsTyped

LEMMA DieCounts ==
    ASSUME CountsInv, NEW w \in Workers, Die(w)
    PROVE  RunsTyped' /\ \A b \in Builds : Counts(b)'
<1> SUFFICES ASSUME NEW b \in Builds PROVE Counts(b)'
  BY DEF Die, RunsTyped, CountsInv
<1>1. Counts(b) /\ job \in [Builds -> [Workers -> JobType]]
  BY DEF CountsInv, LeasesInv, LeasesTyped
<1>2. /\ job'[b][w].pc = "dead" /\ \A v \in Workers : v # w => job'[b][v] = job[b][v]
      /\ UNCHANGED <<build, runs, lost>>
  BY <1>1 DEF Die
<1>3. ASSUME NEW v \in Workers
      PROVE  /\ Executing(b, v)' => Executing(b, v) /\ v # w
             /\ Through(b, v)' => Through(b, v) /\ v # w
  <2>1. CASE v = w
    BY <1>2, <2>1 DEF Executing, Through, Steps
  <2>2. CASE v # w
    <3>1. job'[b][v] = job[b][v]
      BY <1>2, <2>2
    <3> QED BY <2>2, <3>1 DEF Executing, Through
  <2> QED BY <2>1, <2>2
<1>4. JobsBegin(b)'
  BY <1>1, <1>2 DEF Counts, JobsBegin, Steps
<1>5. ASSUME NEW i \in 1..Len(Plan)
      PROVE  runs'[b][Plan[i]] <= Cardinality(Passed(b, i)')
  <2>1. Passed(b, i) \subseteq Passed(b, i)'
    BY <1>2 DEF Passed, Stopped
  <2>2. runs[b][Plan[i]] <= Cardinality(Passed(b, i)) /\ runs[b][Plan[i]] \in Nat
    BY <1>1, PlanFacts DEF Counts, RunsArePassed
  <2> QED BY <1>2, <2>1, <2>2, PassedGrows
<1>6. RunsArePassed(b)'
  BY <1>1, <1>2, <1>5 DEF Counts, RunsArePassed
<1>7. ThroughAlone(b)'
  BY <1>1, <1>2, <1>3 DEF Counts, ThroughAlone, Ended
<1> QED BY <1>4, <1>6, <1>7 DEF Counts

LEMMA CountsKeep == CountsInv /\ [BuildsNext]_vars => CountsInv'
<1> SUFFICES ASSUME CountsInv, [BuildsNext]_vars PROVE RunsTyped' /\ \A b \in Builds : Counts(b)'
  BY LeasesKeep DEF CountsInv
<1>0. LeasesInv /\ RunsTyped /\ \A b \in Builds : Counts(b)
  BY DEF CountsInv
<1>1. CASE UNCHANGED vars
  BY <1>0, <1>1, OtherBuild DEF RunsTyped, vars
<1>2. ASSUME NEW b \in Builds, NEW w \in Workers,
             \/ Request(b, w, FALSE)
             \/ Waits /\ Request(b, w, TRUE)
             \/ HandOver(b, w)
      PROVE  RunsTyped' /\ \A c \in Builds : Counts(c)'
  BY <1>0, <1>2, RequestCounts
<1>3. ASSUME NEW b \in Builds, NEW w \in Workers, Execute(b, w) \/ Raise(b, w)
      PROVE  RunsTyped' /\ \A c \in Builds : Counts(c)'
  BY <1>0, <1>3, ExecuteCounts
<1>4. ASSUME (\E b \in Builds : LeaseExpires(b)) \/ \E w \in Workers : Reap(w) \/ Die(w)
      PROVE  RunsTyped' /\ \A c \in Builds : Counts(c)'
  BY <1>4, LeaseEndsCounts, DieCounts
<1> QED BY <1>1, <1>2, <1>3, <1>4 DEF BuildsNext

\* "Must not build twice": a transform of a build runs once, and once more for
\* each replica that died or raised, however many replicas are asked to
\* execute it, as long as no lease ended under a replica at work.
THEOREM ExecutesOnce == BuildsSpec => []ExecutedOnce
<1>1. CountsInv => ExecutedOnce
  <2> SUFFICES ASSUME CountsInv, NEW b \in Builds, NEW t \in Transforms, lost[b] = {}
               PROVE  runs[b][t] <= 1 + Cardinality(Stopped(b))
    BY DEF ExecutedOnce
  <2>0. LeasesInv /\ Counts(b)
    BY DEF CountsInv
  <2>1. PICK i \in 1..Len(Plan) : Plan[i] = t
    BY PlanFacts
  <2>2. i \in Nat /\ i >= 1
    BY PlanFacts
  <2> DEFINE S == Stopped(b)
             L == Passed(b, i) \ S
  <2>3. S \subseteq Workers /\ L \subseteq Workers
    BY DEF Stopped, Passed
  <2>4. IsFiniteSet(S) /\ IsFiniteSet(L) /\ IsFiniteSet(Passed(b, i))
    BY <2>3, WorkersAssumption, FS_Subset DEF Passed
  <2>5. ASSUME NEW v \in L, NEW w \in L PROVE v = w
    <3>1. ASSUME NEW x \in L PROVE x \in Workers \ lost[b] /\ (Executing(b, x) \/ Through(b, x))
      <4>1. job[b][x].pc \in Steps \cup {"done"} /\ job[b][x].at > i /\ x \in Workers
        BY <3>1 DEF Passed
      <4>2. job[b][x].at \in Nat
        <5>1. job[b][x] \in JobType
          BY <2>0, <4>1 DEF LeasesInv, LeasesTyped
        <5> QED BY <4>1, <5>1 DEF JobType, AskedType, Steps
      <4> QED BY <2>2, <4>1, <4>2 DEF Executing, Through
    <3>2. CASE Executing(b, v) /\ Executing(b, w)
      <4>1. Engaged(b, v) /\ Engaged(b, w)
        BY <3>2 DEF Executing, Engaged
      <4> QED BY <2>0, <3>1, <3>2, <4>1 DEF LeasesInv, LeaseIsHeld, UnleasedIsAlone
    <3>3. CASE Through(b, v) \/ Through(b, w)
      BY <2>0, <3>1, <3>3 DEF Counts, ThroughAlone
    <3> QED BY <3>1, <3>2, <3>3
  <2>6. Cardinality(L) <= 1
    <3> HIDE DEF L
    <3>1. CASE L = {}
      <4>1. Cardinality({}) = 0
        BY FS_EmptySet
      <4> QED BY <3>1, <4>1
    <3>2. CASE L # {}
      <4>1. PICK x : x \in L
        BY <3>2
      <4>2. L = {x}
        BY <2>5, <4>1
      <4>3. Cardinality({x}) = 1
        BY FS_Singleton
      <4> QED BY <4>2, <4>3
    <3> QED BY <3>1, <3>2
  <2>7. Cardinality(Passed(b, i)) <= Cardinality(L) + Cardinality(S)
    <3>1. Passed(b, i) \subseteq L \cup S
      OBVIOUS
    <3>2. IsFiniteSet(L \cup S) /\ Cardinality(L \cup S) = Cardinality(L) + Cardinality(S) - Cardinality(L \cap S)
      BY <2>4, FS_Union
    <3>3. L \cap S = {}
      OBVIOUS
    <3>4. Cardinality(Passed(b, i)) <= Cardinality(L \cup S)
      BY <3>1, <3>2, FS_Subset
    <3>5. Cardinality(L) \in Nat /\ Cardinality(S) \in Nat /\ Cardinality(Passed(b, i)) \in Nat
      BY <2>4, FS_CardinalityType
    <3>6. Cardinality(L \cap S) = 0
      BY <3>3, FS_EmptySet
    <3> QED BY <3>2, <3>4, <3>5, <3>6
  <2>8. Cardinality(L) \in Nat /\ Cardinality(S) \in Nat /\ Cardinality(Passed(b, i)) \in Nat
    BY <2>4, FS_CardinalityType
  <2>9. runs[b][t] <= Cardinality(Passed(b, i)) /\ runs[b][t] \in Nat
    BY <2>0, <2>1 DEF Counts, RunsArePassed
  <2> QED BY <2>6, <2>7, <2>8, <2>9
<1> QED BY <1>1, CountsStart, CountsKeep, PTL DEF BuildsSpec

-----------------------------------------------------------------------------
(* One replica per build, which is what the web application does: the        *)
(* executor pool of the replica that took the request, and no other.         *)

OneHanded == Handed = 1

Statuses == {"none", "running", "succeeded", "failed"}

TasksTyped == task \in [Builds -> [Transforms -> Statuses]]

\* A build that was asked for has its one replica.
Single(b) ==
    /\ build[b].status # "none" => \E w \in Workers : job[b][w] # NoJob
    /\ \A w \in Workers : b \in reaping[w] => build[b].status # "none"
    /\ \A v, w \in Workers : Engaged(b, v) /\ Engaged(b, w) => v = w

\* What the replica knows of its tasks: before at they succeeded unless they
\* are in failed, and from at on none has; what it runs has its inputs.
Knows(b, w) ==
    /\ job[b][w].at \in 1..(Len(Plan) + 1)
    /\ \A i \in 1..Len(Plan) :
           /\ i < job[b][w].at /\ Plan[i] \notin job[b][w].failed => task[b][Plan[i]] = "succeeded"
           /\ i >= job[b][w].at => task[b][Plan[i]] # "succeeded"
    /\ job[b][w].pc \in {"heartbeat", "transform"} =>
           job[b][w].at <= Len(Plan) /\ Inputs[NextTask(b, w)] \cap job[b][w].failed = {}

InputsBuilt(b) ==
    \A t \in Transforms : task[b][t] = "succeeded" => \A u \in Inputs[t] : task[b][u] = "succeeded"

TasksMatch(b) ==
    /\ build[b].status = "none" => \A t \in Transforms : task[b][t] # "succeeded"
    /\ build[b].status = "succeeded" =>
           /\ \A t \in Transforms : task[b][t] = "succeeded"
           /\ \A w \in Workers : Engaged(b, w) => job[b][w].pc = "release"
    /\ \A w \in Workers : Engaged(b, w) => Knows(b, w)
    /\ InputsBuilt(b)

Alone(b) == Single(b) /\ TasksMatch(b)

AloneInv == CountsInv /\ TasksTyped /\ \A b \in Builds : Alone(b)

LEMMA AloneStart == BuildsInit => AloneInv
<1> SUFFICES ASSUME BuildsInit PROVE AloneInv
  OBVIOUS
<1>1. CountsInv /\ TasksTyped
  BY CountsStart DEF BuildsInit, TasksTyped, Statuses
<1>2. ASSUME NEW b \in Builds PROVE Alone(b)
  <2>1. build[b].status = "none" /\ \A t \in Transforms : task[b][t] = "none"
    BY DEF BuildsInit, NoBuild
  <2>2. \A w \in Workers : ~Engaged(b, w) /\ b \notin reaping[w]
    BY DEF BuildsInit, NoJob, Engaged, Steps
  <2> QED BY <2>1, <2>2 DEF Alone, Single, TasksMatch, InputsBuilt
<1> QED BY <1>1, <1>2 DEF AloneInv

\* A build whose row, jobs and tasks stay.
LEMMA AloneStays ==
    ASSUME NEW c \in Builds, Alone(c), build'[c].status = build[c].status,
           job'[c] = job[c], task'[c] = task[c],
           \A w \in Workers : c \in reaping'[w] => c \in reaping[w] \/ build[c].status # "none"
    PROVE  Alone(c)'
BY DEF Alone, Single, TasksMatch, Knows, InputsBuilt, NextTask, Engaged

LEMMA NoHandOver ==
    ASSUME OneHanded, AloneInv, NEW b \in Builds, NEW w \in Workers
    PROVE  ~HandOver(b, w)
<1> SUFFICES ASSUME HandOver(b, w) PROVE FALSE
  OBVIOUS
<1> DEFINE A == {v \in Workers : job[b][v] # NoJob}
<1>1. A # {}
  BY DEF AloneInv, Alone, Single, HandOver
<1>2. IsFiniteSet(A) /\ Cardinality(A) \in Nat
  BY WorkersAssumption, FS_Subset, FS_CardinalityType
<1>3. Cardinality(A) # 0
  BY <1>1, <1>2, FS_EmptySet
<1>4. Cardinality(A) < 1
  BY DEF HandOver, OneHanded
<1> QED BY <1>2, <1>3, <1>4

LEMMA RequestAlone ==
    ASSUME AloneInv, NEW b \in Builds, NEW w \in Workers, NEW wait \in BOOLEAN, Request(b, w, wait)
    PROVE  TasksTyped' /\ \A c \in Builds : Alone(c)'
<1> DEFINE to == IF wait THEN Job("begin", FALSE) ELSE Job("queued", TRUE)
<1>0. LeasesInv /\ TasksTyped /\ (\A c \in Builds : Alone(c)) /\ Counts(b)
  BY DEF AloneInv, CountsInv
<1>1. to \in AskedType /\ to.at = 1 /\ to.pc \in {"queued", "begin"}
  BY DEF Job, AskedType, Steps
<1>2. job' = [job EXCEPT ![b][w] = to] /\ build[b].status = "none" /\ task' = task
  BY DEF Request
<1>3. build'[b].status = "pending" /\ \A c \in Builds : c # b => build'[c] = build[c]
  BY <1>0 DEF Request, LeasesInv, LeasesTyped, BuildType
<1> HIDE DEF to
<1>4. /\ job'[b][w] = to /\ \A v \in Workers : v # w => job'[b][v] = job[b][v]
      /\ \A c \in Builds : c # b => job'[c] = job[c]
  BY <1>0, <1>1, <1>2, OneJob DEF JobType
<1>5. \A v \in Workers : Engaged(b, v)' => v = w
  BY <1>0, <1>2, <1>4 DEF Counts, JobsBegin, Engaged, Steps
<1>6. to # NoJob
  BY <1>1 DEF NoJob
<1>7. \A t \in Transforms : task[b][t] # "succeeded"
  BY <1>0, <1>2 DEF Alone, TasksMatch
<1>8. ASSUME NEW v \in Workers, Engaged(b, v)' PROVE Knows(b, v)'
  <2>1. v = w
    BY <1>5, <1>8
  <2> QED BY <1>1, <1>2, <1>4, <1>7, <2>1, PlanFacts DEF Knows
<1>9. Alone(b)'
  <2>1. Single(b)'
    BY <1>3, <1>4, <1>5, <1>6 DEF Single
  <2>2. TasksMatch(b)'
    BY <1>2, <1>3, <1>7, <1>8 DEF TasksMatch, InputsBuilt
  <2> QED BY <2>1, <2>2 DEF Alone
<1>10. ASSUME NEW c \in Builds, c # b PROVE Alone(c)'
  BY <1>0, <1>2, <1>3, <1>4, <1>10, AloneStays DEF Request
<1> QED BY <1>0, <1>2, <1>9, <1>10 DEF TasksTyped

\* The one replica goes on: what it writes of its tasks it knows.
LEMMA KnowsOn ==
    ASSUME AloneInv, NEW b \in Builds, NEW w \in Workers, NEW to \in AskedType,
           Engaged(b, w), LeadsTo(b, w, to)
    PROVE  /\ task' \in [Builds -> [Transforms -> Statuses]]
           /\ \A c \in Builds : c # b => task'[c] = task[c]
           /\ job'[b][w] = to
           /\ Engaged(b, w)' => Knows(b, w)'
           /\ InputsBuilt(b)'
           /\ job[b][w].pc = "release" => task' = task
           /\ Finish(b, w) => task' = task
<1>0. LeasesInv /\ TasksTyped /\ Alone(b) /\ Counts(b) /\ Knows(b, w) /\ InputsBuilt(b)
  BY DEF AloneInv, CountsInv, Alone, TasksMatch
<1>1. job'[b][w] = to
  <2>1. job' = [job EXCEPT ![b][w] = to] /\ to \in JobType
    BY DEF LeadsTo, JobType
  <2> QED BY <1>0, <2>1, OneJob, ZenonT(60)
<1>2. job[b][w] \in AskedType /\ job[b][w].at \in 1..(Len(Plan) + 1) /\ Len(Plan) \in Nat
  BY <1>0, EngagedJob, PlanFacts DEF LeasesInv, Knows
<1>3. Inputs \in [Transforms -> SUBSET Transforms]
  BY PlanAssumption
<1>4. CASE GoesOn(b, w, to) /\ task' = task
  <2>1. to.at = job[b][w].at /\ to.failed = job[b][w].failed
    BY <1>4 DEF GoesOn
  <2>2. to.pc \in {"heartbeat", "transform"} => StartTask(b, w) \/ Heartbeat(b, w)
    BY DEF LeadsTo
  <2>3. to.pc \in {"heartbeat", "transform"} =>
            to.at <= Len(Plan) /\ Inputs[Plan[to.at]] \cap to.failed = {}
    BY <1>0, <2>1, <2>2 DEF StartTask, MoreToDo, Blocked, Heartbeat, Knows, NextTask
  <2>4. Knows(b, w)'
    BY <1>0, <1>1, <1>4, <2>1, <2>3 DEF Knows, NextTask
  <2>5. InputsBuilt(b)'
    BY <1>0, <1>4 DEF InputsBuilt
  <2> QED BY <1>0, <1>1, <1>4, <2>4, <2>5 DEF TasksTyped
<1>5. ASSUME NEW s \in Statuses, job[b][w].at <= Len(Plan), job[b][w].pc \in {"work", "transform"},
             task' = [task EXCEPT ![b][NextTask(b, w)] = s],
             \/ /\ to.at = job[b][w].at /\ to.failed = job[b][w].failed /\ s = "running"
                /\ Inputs[NextTask(b, w)] \cap to.failed = {}
             \/ /\ to.at = job[b][w].at + 1 /\ to.pc = "work"
                /\ \/ to.failed = job[b][w].failed \cup {NextTask(b, w)} /\ s # "succeeded"
                   \/ /\ to.failed = job[b][w].failed /\ s = "succeeded"
                      /\ Inputs[NextTask(b, w)] \cap to.failed = {}
      PROVE  /\ task' \in [Builds -> [Transforms -> Statuses]]
             /\ \A c \in Builds : c # b => task'[c] = task[c]
             /\ Knows(b, w)' /\ InputsBuilt(b)'
  <2> DEFINE t == NextTask(b, w)
             n == job[b][w].at
             row == [task[b] EXCEPT ![t] = s]
  <2>1. n \in 1..Len(Plan) /\ t = Plan[n] /\ t \in Transforms
    BY <1>2, <1>5, PlanFacts DEF NextTask
  <2>2. row \in [Transforms -> Statuses] /\ row[t] = s /\ \A u \in Transforms : u # t => row[u] = task[b][u]
    BY <1>0, <2>1 DEF TasksTyped
  <2>3. task' = [task EXCEPT ![b] = row]
    BY <1>5
  <2> HIDE DEF row
  <2>4. /\ task' \in [Builds -> [Transforms -> Statuses]] /\ task'[b] = row
        /\ \A c \in Builds : c # b => task'[c] = task[c]
    BY <1>0, <2>2, <2>3 DEF TasksTyped
  <2>5. task[b][t] # "succeeded"
    BY <1>0, <1>2, <2>1 DEF Knows
  <2>6. \A i \in 1..Len(Plan) : /\ Plan[i] \in Transforms
                                /\ i # n => Plan[i] # t /\ task'[b][Plan[i]] = task[b][Plan[i]]
                                /\ i = n => task'[b][Plan[i]] = s
    BY <2>1, <2>2, <2>4, PlanFacts
  <2>7. ASSUME NEW i \in 1..Len(Plan)
        PROVE  /\ i < to.at /\ Plan[i] \notin to.failed => task'[b][Plan[i]] = "succeeded"
               /\ i >= to.at => task'[b][Plan[i]] # "succeeded"
    <3>0. i \in Nat /\ n \in Nat
      BY <1>2, <2>1
    <3>1. /\ i < n /\ Plan[i] \notin job[b][w].failed => task[b][Plan[i]] = "succeeded"
          /\ i >= n => task[b][Plan[i]] # "succeeded"
      BY <1>0 DEF Knows
    <3>2. CASE i = n
      <4>1. t = Plan[i] /\ task'[b][Plan[i]] = s
        BY <2>1, <2>6, <3>2
      <4> QED BY <1>5, <3>0, <3>2, <4>1
    <3>3. CASE i # n
      <4>1. task'[b][Plan[i]] = task[b][Plan[i]] /\ Plan[i] # t
        BY <2>6, <3>3
      <4>2. Plan[i] \in to.failed <=> Plan[i] \in job[b][w].failed
        BY <1>5, <4>1
      <4> QED BY <1>5, <3>0, <3>1, <3>3, <4>1, <4>2
    <3> QED BY <3>2, <3>3
  <2>8. to.at \in 1..(Len(Plan) + 1)
    BY <1>2, <1>5, <2>1
  <2>9. to.pc \in {"heartbeat", "transform"} =>
            to.at <= Len(Plan) /\ Inputs[Plan[to.at]] \cap to.failed = {}
    BY <1>5, <2>1
  <2>10. Knows(b, w)'
    BY <1>1, <2>7, <2>8, <2>9 DEF Knows, NextTask
  <2>11. ASSUME s = "succeeded", NEW u \in Inputs[t] PROVE task[b][u] = "succeeded"
    <3>1. PICK j \in 1..(n - 1) : u = Plan[j]
      BY <2>1, <2>11, PlanAssumption DEF Planned
    <3>2. j \in 1..Len(Plan) /\ j < n
      BY <1>2, <2>1
    <3>3. Plan[j] \notin job[b][w].failed
      BY <1>5, <2>11, <3>1
    <3> QED BY <1>0, <3>1, <3>2, <3>3 DEF Knows
  <2>12. InputsBuilt(b)'
    <3> SUFFICES ASSUME NEW u \in Transforms, task'[b][u] = "succeeded", NEW v \in Inputs[u]
                 PROVE  task'[b][v] = "succeeded"
      BY DEF InputsBuilt
    <3>1. v \in Transforms
      BY <1>3
    <3>2. task[b][v] = "succeeded"
      <4>1. CASE u = t
        BY <2>2, <2>4, <2>11, <4>1
      <4>2. CASE u # t
        BY <1>0, <2>2, <2>4, <4>2 DEF InputsBuilt
      <4> QED BY <4>1, <4>2
    <3>3. v # t
      BY <2>5, <3>2
    <3> QED BY <2>2, <2>4, <3>1, <3>2, <3>3
  <2> QED BY <2>4, <2>10, <2>12
<1>6. CASE StartTask(b, w) /\ GoesOn(b, w, to)
  <2>1. /\ to.at = job[b][w].at /\ to.failed = job[b][w].failed
        /\ job[b][w].at <= Len(Plan) /\ job[b][w].pc = "work"
        /\ Inputs[NextTask(b, w)] \cap job[b][w].failed = {}
        /\ task' = [task EXCEPT ![b][NextTask(b, w)] = "running"]
    BY <1>6 DEF StartTask, MoreToDo, Blocked, GoesOn
  <2> QED BY <1>1, <1>5, <1>6, <2>1 DEF Statuses, Finish, MoreToDo, StartTask
<1>7. CASE EndsTask(b, w, to)
  <2>1. CASE BlockTask(b, w) /\ to.failed = job[b][w].failed \cup {NextTask(b, w)}
    <3>1. /\ job[b][w].at <= Len(Plan) /\ job[b][w].pc = "work"
          /\ task' = [task EXCEPT ![b][NextTask(b, w)] = "failed"]
      BY <2>1 DEF BlockTask, MoreToDo
    <3>2. ~Finish(b, w)
      BY <1>2, <3>1 DEF Finish, AskedType
    <3> QED BY <1>1, <1>5, <1>7, <2>1, <3>1, <3>2 DEF EndsTask, Statuses
  <2>2. ASSUME NEW ok \in BOOLEAN, RunTask(b, w, ok),
               to.failed = job[b][w].failed \cup IF ok THEN {} ELSE {NextTask(b, w)}
        PROVE  /\ task' \in [Builds -> [Transforms -> Statuses]]
               /\ \A c \in Builds : c # b => task'[c] = task[c]
               /\ Knows(b, w)' /\ InputsBuilt(b)' /\ job[b][w].pc = "transform"
    <3> DEFINE s == IF ok THEN "succeeded" ELSE "failed"
    <3>1. /\ job[b][w].pc = "transform" /\ s \in Statuses
          /\ task' = [task EXCEPT ![b][NextTask(b, w)] = s]
      BY <2>2 DEF RunTask, Statuses
    <3>2. job[b][w].at <= Len(Plan) /\ Inputs[NextTask(b, w)] \cap job[b][w].failed = {}
      BY <1>0, <3>1 DEF Knows
    <3>3. CASE ok
      BY <1>5, <1>7, <2>2, <3>1, <3>2, <3>3 DEF EndsTask
    <3>4. CASE ~ok
      BY <1>5, <1>7, <2>2, <3>1, <3>2, <3>4 DEF EndsTask
    <3> QED BY <3>1, <3>3, <3>4
  <2> QED BY <1>1, <1>7, <2>1, <2>2 DEF EndsTask, Finish
<1> QED BY <1>4, <1>6, <1>7 DEF LeadsTo, GoesOn

LEMMA ExecuteAlone ==
    ASSUME AloneInv, NEW b \in Builds, NEW w \in Workers, Execute(b, w) \/ Raise(b, w)
    PROVE  TasksTyped' /\ \A c \in Builds : Alone(c)'
<1>00. LeasesInv
  BY DEF AloneInv, CountsInv
<1>0. LeasesInv /\ TasksTyped /\ (\A c \in Builds : Alone(c)) /\ Counts(b)
  BY DEF AloneInv, CountsInv
<1>1. PICK to \in AskedType : LeadsTo(b, w, to)
  BY <1>0, ExecuteLeads
<1>2. Engaged(b, w)
  BY DEF Execute, Raise, Claim, PlanFails, Begin, BlockTask, StartTask, MoreToDo, Heartbeat,
     RunTask, Finish, Release, Engaged, Steps
<1>3. /\ job'[b][w] = to /\ \A v \in Workers : v # w => job'[b][v] = job[b][v]
      /\ \A c \in Builds : c # b => job'[c] = job[c] /\ build'[c] = build[c]
  <2>1. to \in JobType
    BY DEF JobType
  <2> QED BY <1>0, <1>1, <2>1, OneJob, ZenonT(60) DEF LeadsTo
<1>4. /\ task' \in [Builds -> [Transforms -> Statuses]]
      /\ \A c \in Builds : c # b => task'[c] = task[c]
      /\ Engaged(b, w)' => Knows(b, w)'
      /\ InputsBuilt(b)'
      /\ job[b][w].pc = "release" => task' = task
      /\ Finish(b, w) => task' = task
  BY <1>1, <1>2, KnowsOn
<1>5. ASSUME NEW v \in Workers, Engaged(b, v)' PROVE v = w
  <2>1. v # w => Engaged(b, v)
    BY <1>3, <1>5 DEF Engaged
  <2> QED BY <1>0, <1>2, <2>1 DEF Alone, Single
<1>6. build'[b].status # "none" => Single(b)'
  <2>1. to # NoJob
    BY <1>1 DEF LeadsTo, NoJob, Steps
  <2> QED BY <1>0, <1>1, <1>3, <1>5, <2>1 DEF Single, LeadsTo
<1>7. build[b] \in BuildType /\ build \in [Builds -> BuildType] /\ build[b].status # "none"
  BY <1>0, <1>2 DEF LeasesInv, LeasesTyped, NobodyBeforeTheRequest
<1>8. build'[b].status # "none"
  BY <1>1, <1>7 DEF LeadsTo, GoesOn, EndsTask, PlanFails, Begin, Finish, BuildType
<1>9. ASSUME build'[b].status = "succeeded"
      PROVE  /\ \A t \in Transforms : task'[b][t] = "succeeded"
             /\ Engaged(b, w)' => job'[b][w].pc = "release"
  <2>1. CASE Finish(b, w)
    <3>1. job[b][w].at > Len(Plan) /\ job[b][w].failed = {} /\ task' = task
      BY <1>4, <1>7, <1>9, <2>1 DEF Finish, BuildType
    <3>2. Knows(b, w)
      BY <1>0, <1>2 DEF Alone, TasksMatch
    <3>3. \A t \in Transforms : task'[b][t] = "succeeded"
      <4> SUFFICES ASSUME NEW t \in Transforms PROVE task[b][t] = "succeeded"
        BY <3>1
      <4>1. PICK n \in 1..Len(Plan) : Plan[n] = t
        BY PlanFacts
      <4>2. n < job[b][w].at
        BY <3>1, <3>2, PlanFacts DEF Knows
      <4> QED BY <3>1, <3>2, <4>1, <4>2 DEF Knows
    <3>4. to.pc \in {"release", "done"}
      <4>1. ASSUME NEW pc \in {"release", "done"}, Goto(b, w, pc) PROVE to.pc = pc
        <5>1. PICK x \in AskedType : job' = [job EXCEPT ![b][w] = x] /\ x.pc = pc
          BY <1>0, <1>2, <4>1, GotoOnly DEF Steps
        <5>2. x \in JobType
          BY DEF JobType
        <5>3. job'[b][w] = x
          BY <1>00, <5>1, <5>2, OneJob, ZenonT(60)
        <5> QED BY <1>3, <5>1, <5>3
      <4> QED BY <2>1, <4>1 DEF Finish
    <3> QED BY <1>3, <3>3, <3>4 DEF Engaged, Steps
  <2>2. CASE ~Finish(b, w)
    <3>1. build[b].status = "succeeded"
      BY <1>1, <1>7, <1>9, <2>2 DEF LeadsTo, GoesOn, EndsTask, PlanFails, Begin, BuildType
    <3>2. job[b][w].pc = "release" /\ \A t \in Transforms : task[b][t] = "succeeded"
      BY <1>0, <1>2, <3>1 DEF Alone, TasksMatch
    <3>3. task' = task
      BY <1>4, <3>2
    <3>4. to.pc \in {"done", "raised"}
      <4>1. to.pc \notin {"begin", "heartbeat", "transform", "release"}
        BY <1>1, <2>2, <3>2 DEF LeadsTo, Claim, StartTask, MoreToDo, Heartbeat
      <4>2. to.pc # "work"
        <5>1. Release(b, w) \/ Raise(b, w)
          BY <3>2 DEF Execute, Claim, PlanFails, Begin, BlockTask, StartTask, MoreToDo, Heartbeat,
             RunTask, Finish
        <5>2. PICK pc \in {"done", "raised"} : Goto(b, w, pc)
          BY <5>1 DEF Release, Raise
        <5>3. PICK x \in AskedType : job' = [job EXCEPT ![b][w] = x] /\ x.pc = pc
          BY <1>0, <1>2, <5>2, GotoOnly
        <5>4. x \in JobType
          BY DEF JobType
        <5>5. job'[b][w] = x
          BY <1>00, <5>3, <5>4, OneJob, ZenonT(60)
        <5> QED BY <1>3, <5>3, <5>5
      <4> QED BY <1>1, <4>1, <4>2 DEF LeadsTo, Steps
    <3> QED BY <1>3, <3>2, <3>3, <3>4 DEF Engaged, Steps
  <2> QED BY <2>1, <2>2
<1>10. TasksMatch(b)'
  <2>1. \A v \in Workers : Engaged(b, v)' => v = w
    BY <1>5
  <2> QED BY <1>4, <1>8, <1>9, <2>1 DEF TasksMatch
<1>11. ASSUME NEW c \in Builds, c # b PROVE Alone(c)'
  BY <1>0, <1>1, <1>3, <1>4, <1>11, AloneStays DEF LeadsTo
<1> QED BY <1>4, <1>6, <1>8, <1>10, <1>11 DEF Alone, TasksTyped

\* A reaper fails what was asked for, and that is all it does to the tasks.
LEMMA LeaseEndsAlone ==
    ASSUME AloneInv, (\E b \in Builds : LeaseExpires(b)) \/ \E w \in Workers : Reap(w)
    PROVE  TasksTyped' /\ \A c \in Builds : Alone(c)'
<1>0. build \in [Builds -> BuildType] /\ TasksTyped
  BY DEF AloneInv, CountsInv, LeasesInv, LeasesTyped
<1>1. UNCHANGED <<job, task>>
  BY DEF LeaseExpires, Reap, ReapSelect, ReapFail
<1>2. \A c \in Builds : build'[c].status \in {build[c].status, "failed"}
  <2>1. \A c \in Builds : Reaped(build[c]).status = "failed"
    BY DEF Reaped, NoBuild
  <2> QED BY <1>0, <2>1 DEF LeaseExpires, Reap, ReapSelect, ReapFail, BuildType
<1>3. \A c \in Builds, w \in Workers : c \in reaping'[w] => build[c].status # "none"
  <2>0. reaping \in [Workers -> SUBSET Builds]
    BY DEF AloneInv, CountsInv, LeasesInv, LeasesTyped
  <2>1. ASSUME NEW v \in Workers, ReapSelect(v), NEW c \in Builds, NEW w \in Workers, c \in reaping'[w]
        PROVE  c \in reaping[w] \/ Reapable(build[c])
    BY <2>0, <2>1 DEF ReapSelect
  <2>2. ASSUME NEW v \in Workers, ReapFail(v), NEW c \in Builds, NEW w \in Workers, c \in reaping'[w]
        PROVE  c \in reaping[w]
    BY <2>0, <2>2 DEF ReapFail
  <2>3. \A c \in Builds, w \in Workers : c \in reaping'[w] => c \in reaping[w] \/ Reapable(build[c])
    BY <2>1, <2>2 DEF Reap, LeaseExpires
  <2> QED BY <2>3 DEF AloneInv, Alone, Single, Reapable, Active
<1>4. \A c \in Builds : build[c].status = "none" => build'[c].status = "none"
  BY <1>0 DEF AloneInv, Alone, Single, LeaseExpires, Reap, ReapSelect, ReapFail, BuildType
<1>5. ASSUME NEW c \in Builds PROVE Alone(c)'
  <2>1. Alone(c)
    BY DEF AloneInv
  <2>2. CASE build'[c].status = build[c].status
    BY <1>1, <1>3, <2>1, <2>2, AloneStays
  <2>3. CASE build'[c].status = "failed" /\ build[c].status # "none"
    BY <1>1, <1>3, <2>1, <2>3 DEF Alone, Single, TasksMatch, Knows, InputsBuilt, NextTask, Engaged
  <2> QED BY <1>2, <1>4, <2>2, <2>3
<1> QED BY <1>0, <1>1, <1>5 DEF TasksTyped

LEMMA DieAlone ==
    ASSUME AloneInv, NEW w \in Workers, Die(w)
    PROVE  TasksTyped' /\ \A c \in Builds : Alone(c)'
<1>1. job \in [Builds -> [Workers -> JobType]] /\ reaping \in [Workers -> SUBSET Builds]
  BY DEF AloneInv, CountsInv, LeasesInv, LeasesTyped
<1>2. UNCHANGED <<build, task>>
  BY DEF Die
<1>3. ASSUME NEW c \in Builds PROVE Alone(c)'
  <2>0. /\ job'[c][w] # NoJob /\ ~Engaged(c, w)'
        /\ \A v \in Workers : v # w => job'[c][v] = job[c][v]
    BY <1>1 DEF Die, NoJob, Engaged, Steps
  <2>1. Alone(c)
    BY DEF AloneInv
  <2>2. ASSUME NEW v \in Workers, Engaged(c, v)'
        PROVE  v # w /\ Engaged(c, v) /\ job'[c][v] = job[c][v]
    BY <2>0, <2>2 DEF Engaged
  <2>3. \A v \in Workers : reaping'[v] \subseteq reaping[v]
    BY <1>1 DEF Die
  <2>4. Single(c)'
    BY <1>2, <2>0, <2>1, <2>2, <2>3 DEF Alone, Single
  <2>5. TasksMatch(c)'
    BY <1>2, <2>1, <2>2 DEF Alone, TasksMatch, Knows, InputsBuilt, NextTask
  <2> QED BY <2>4, <2>5 DEF Alone
<1> QED BY <1>2, <1>3 DEF AloneInv, TasksTyped

LEMMA AloneKeeps ==
    ASSUME OneHanded
    PROVE  AloneInv /\ [BuildsNext]_vars => AloneInv'
<1> SUFFICES ASSUME AloneInv, [BuildsNext]_vars PROVE TasksTyped' /\ \A c \in Builds : Alone(c)'
  BY CountsKeep DEF AloneInv
<1>1. CASE UNCHANGED vars
  BY <1>1, AloneStays DEF AloneInv, TasksTyped, vars
<1>2. ASSUME NEW b \in Builds, NEW w \in Workers,
             \/ Request(b, w, FALSE)
             \/ Waits /\ Request(b, w, TRUE)
             \/ HandOver(b, w) \/ Execute(b, w) \/ Raise(b, w)
      PROVE  TasksTyped' /\ \A c \in Builds : Alone(c)'
  BY <1>2, RequestAlone, NoHandOver, ExecuteAlone
<1>3. ASSUME (\E b \in Builds : LeaseExpires(b)) \/ \E w \in Workers : Reap(w) \/ Die(w)
      PROVE  TasksTyped' /\ \A c \in Builds : Alone(c)'
  BY <1>3, LeaseEndsAlone, DieAlone
<1> QED BY <1>1, <1>2, <1>3 DEF BuildsNext

\* A build that reads succeeded has succeeded in all of its plan, and a
\* transform that succeeded had its inputs built before it, when one replica
\* is asked to execute a build, however slow it is and whatever is reaped.
THEOREM StatusIsTrue == ASSUME OneHanded PROVE BuildsSpec => []StatusMatchesTasks
<1>1. AloneInv => StatusMatchesTasks
  BY DEF AloneInv, Alone, TasksMatch, InputsBuilt, StatusMatchesTasks
<1> QED BY <1>1, AloneStart, AloneKeeps, PTL DEF BuildsSpec

-----------------------------------------------------------------------------
(* And if no replica outlives its lease while it works, nobody reaps a build *)
(* that has an end coming: the outcome of a build is written once.           *)

Undisturbed(b) ==
    /\ lost[b] = {}
    /\ build[b].status = "none" => build[b].lease = "none"
    /\ \A w \in Workers : Engaged(b, w) =>
           /\ build[b].lease # "expired"
           /\ job[b][w].pc = "queued" \/ ~job[b][w].leased => build[b].lease = "none"
           /\ job[b][w].pc # "release" => Active(build[b])
           /\ job[b][w].pc = "heartbeat" => job[b][w].leased
    /\ \A v \in Workers : b \in reaping[v] =>
           /\ \A w \in Workers : ~Engaged(b, w)
           /\ build[b].status \notin {"none", "succeeded"}

QuietInv == AloneInv /\ \A b \in Builds : Undisturbed(b)

LEMMA QuietStart == BuildsInit => QuietInv
<1> SUFFICES ASSUME BuildsInit, NEW b \in Builds PROVE Undisturbed(b)
  BY AloneStart DEF QuietInv
<1>1. \A w \in Workers : ~Engaged(b, w)
  BY DEF BuildsInit, NoJob, Engaged, Steps
<1> QED BY <1>1 DEF BuildsInit, Undisturbed, NoBuild

LEMMA QuietStays ==
    ASSUME NEW c \in Builds, Undisturbed(c), build'[c] = build[c], lost'[c] = lost[c],
           \A w \in Workers : /\ Engaged(c, w)' => Engaged(c, w) /\ job'[c][w] = job[c][w]
                              /\ c \in reaping'[w] => c \in reaping[w]
    PROVE  Undisturbed(c)'
BY DEF Undisturbed, Active

LEMMA RequestQuiet ==
    ASSUME QuietInv, NEW b \in Builds, NEW w \in Workers, NEW wait \in BOOLEAN, Request(b, w, wait)
    PROVE  \A c \in Builds : Undisturbed(c)'
<1> DEFINE to == IF wait THEN Job("begin", FALSE) ELSE Job("queued", TRUE)
<1>00. LeasesInv
  BY DEF QuietInv, AloneInv, CountsInv
<1>0. (\A c \in Builds : Undisturbed(c)) /\ Counts(b)
  BY DEF QuietInv, AloneInv, CountsInv
<1>1. to \in JobType /\ to.pc \in {"queued", "begin"}
  BY DEF Job, JobType, AskedType, Steps
<1>2. job' = [job EXCEPT ![b][w] = to] /\ build[b].status = "none" /\ UNCHANGED <<reaping, lost>>
  BY DEF Request
<1>3. build'[b].status = "pending" /\ build'[b].lease = build[b].lease
      /\ \A c \in Builds : c # b => build'[c] = build[c]
  BY <1>00 DEF Request, LeasesInv, LeasesTyped, BuildType
<1> HIDE DEF to
<1>4. /\ job'[b][w] = to /\ \A v \in Workers : v # w => job'[b][v] = job[b][v]
      /\ \A c \in Builds : c # b => job'[c] = job[c]
  BY <1>00, <1>1, <1>2, OneJob
<1>5. \A v \in Workers : Engaged(b, v)' => v = w
  BY <1>0, <1>2, <1>4 DEF Counts, JobsBegin, Engaged, Steps
<1>6. Undisturbed(b)'
  BY <1>0, <1>1, <1>2, <1>3, <1>4, <1>5 DEF Undisturbed, Active
<1>7. ASSUME NEW c \in Builds, c # b PROVE Undisturbed(c)'
  <2>1. job'[c] = job[c] /\ build'[c] = build[c]
    BY <1>3, <1>4, <1>7
  <2> QED BY <1>0, <1>2, <2>1, QuietStays DEF Engaged
<1> QED BY <1>6, <1>7

LEMMA ExecuteQuiet ==
    ASSUME QuietInv, NEW b \in Builds, NEW w \in Workers, Execute(b, w) \/ Raise(b, w)
    PROVE  \A c \in Builds : Undisturbed(c)'
<1>00. LeasesInv
  BY DEF QuietInv, AloneInv, CountsInv
<1>0. (\A c \in Builds : Undisturbed(c)) /\ Single(b)
  BY DEF QuietInv, AloneInv, Alone
<1>1. PICK to \in AskedType : LeadsTo(b, w, to)
  BY <1>00, ExecuteLeads
<1>2. Engaged(b, w)
  BY DEF Execute, Raise, Claim, PlanFails, Begin, BlockTask, StartTask, MoreToDo, Heartbeat,
     RunTask, Finish, Release, Engaged, Steps
<1>3. /\ job'[b][w] = to /\ \A v \in Workers : v # w => job'[b][v] = job[b][v]
      /\ \A c \in Builds : c # b => job'[c] = job[c] /\ build'[c] = build[c]
  <2>1. to \in JobType
    BY DEF JobType
  <2> QED BY <1>00, <1>1, <2>1, OneJob, ZenonT(60) DEF LeadsTo
<1>4. lost' = lost /\ reaping' = reaping /\ to.leased = job[b][w].leased
      /\ \A v \in Workers : b \notin reaping[v]
  BY <1>0, <1>1, <1>2 DEF LeadsTo, Undisturbed
<1>5. ASSUME NEW v \in Workers, Engaged(b, v)' PROVE v = w
  <2>1. v # w => Engaged(b, v)
    BY <1>3, <1>5 DEF Engaged
  <2> QED BY <1>0, <1>2, <2>1 DEF Single
<1>6. /\ build[b].lease # "expired" /\ build[b].status # "none"
      /\ job[b][w].pc = "queued" \/ ~job[b][w].leased => build[b].lease = "none"
      /\ job[b][w].pc # "release" => Active(build[b])
      /\ job[b][w].pc = "heartbeat" => job[b][w].leased
  BY <1>00, <1>0, <1>2 DEF Undisturbed, LeasesInv, NobodyBeforeTheRequest
<1>7. build \in [Builds -> BuildType] /\ (job[b][w].pc = "queued" => job[b][w].leased)
  BY <1>00 DEF LeasesInv, LeasesTyped, QueuedIsLeased
<1>8. build'[b].status # "none"
  BY <1>1, <1>6, <1>7 DEF LeadsTo, GoesOn, EndsTask, PlanFails, Begin, Finish, BuildType
<1>9. \/ build'[b].lease = build[b].lease
      \/ build'[b].lease = "live" /\ job[b][w].leased
      \/ Release(b, w)
  BY <1>6, <1>7 DEF Execute, Raise, Claim, PlanFails, Begin, BlockTask, StartTask, Heartbeat,
     RunTask, Finish, BuildType
<1>10. ASSUME Engaged(b, w)'
       PROVE  /\ build'[b].lease # "expired"
              /\ job'[b][w].pc = "queued" \/ ~job'[b][w].leased => build'[b].lease = "none"
              /\ job'[b][w].pc # "release" => Active(build'[b])
              /\ job'[b][w].pc = "heartbeat" => job'[b][w].leased
  <2>1. to.pc \in Steps
    BY <1>1, <1>3, <1>10 DEF LeadsTo, Engaged
  <2>2. ~Release(b, w) /\ ~PlanFails(b, w)
    <3>1. ASSUME Goto(b, w, "done") PROVE to.pc = "done"
      <4>1. PICK x \in AskedType : job' = [job EXCEPT ![b][w] = x] /\ x.pc = "done"
        BY <1>00, <1>2, <3>1, GotoOnly
      <4>2. x \in JobType
        BY DEF JobType
      <4>3. job'[b][w] = x
        BY <1>00, <4>1, <4>2, OneJob, ZenonT(60)
      <4> QED BY <1>3, <4>1, <4>3
    <3> QED BY <2>1, <3>1 DEF Release, PlanFails, Steps
  <2>3. /\ build'[b].lease # "expired"
        /\ ~to.leased => build'[b].lease = "none"
    BY <1>4, <1>6, <1>9, <2>2
  <2>4. to.pc # "release" => Active(build'[b])
    <3>1. ~Finish(b, w) \/ to.pc = "release"
      <4>1. ASSUME NEW pc \in {"release", "done"}, Goto(b, w, pc) PROVE to.pc = pc
        <5>1. PICK x \in AskedType : job' = [job EXCEPT ![b][w] = x] /\ x.pc = pc
          BY <1>00, <1>2, <4>1, GotoOnly DEF Steps
        <5>2. x \in JobType
          BY DEF JobType
        <5>3. job'[b][w] = x
          BY <1>00, <5>1, <5>2, OneJob, ZenonT(60)
        <5> QED BY <1>3, <5>1, <5>3
      <4> QED BY <2>1, <4>1 DEF Finish, Steps
    <3>2. job[b][w].pc = "release" => Release(b, w) \/ Raise(b, w)
      BY DEF Execute, Claim, PlanFails, Begin, BlockTask, StartTask, MoreToDo, Heartbeat,
         RunTask, Finish
    <3>3. ~Raise(b, w)
      <4>1. ASSUME Goto(b, w, "raised") PROVE to.pc = "raised"
        <5>1. PICK x \in AskedType : job' = [job EXCEPT ![b][w] = x] /\ x.pc = "raised"
          BY <1>00, <1>2, <4>1, GotoOnly
        <5>2. x \in JobType
          BY DEF JobType
        <5>3. job'[b][w] = x
          BY <1>00, <5>1, <5>2, OneJob, ZenonT(60)
        <5> QED BY <1>3, <5>1, <5>3
      <4> QED BY <2>1, <4>1 DEF Raise, Steps
    <3>4. job[b][w].pc # "release" /\ Active(build[b])
      BY <1>6, <2>2, <3>2, <3>3
    <3>5. build'[b].status = build[b].status \/ Begin(b, w) \/ Finish(b, w)
      BY <1>1, <2>2 DEF LeadsTo, GoesOn, EndsTask
    <3> QED BY <1>7, <3>1, <3>4, <3>5 DEF Active, Begin, BuildType
  <2>5. to.pc = "heartbeat" => to.leased
    <3>1. to.pc = "heartbeat" => StartTask(b, w) \/ Heartbeat(b, w)
      BY <1>1 DEF LeadsTo
    <3>2. ASSUME NEW pc \in {"heartbeat", "transform"}, Goto(b, w, pc) PROVE to.pc = pc
      <4>1. PICK x \in AskedType : job' = [job EXCEPT ![b][w] = x] /\ x.pc = pc
        BY <1>00, <1>2, <3>2, GotoOnly DEF Steps
      <4>2. x \in JobType
        BY DEF JobType
      <4>3. job'[b][w] = x
        BY <1>00, <4>1, <4>2, OneJob, ZenonT(60)
      <4> QED BY <1>3, <4>1, <4>3
    <3> QED BY <1>4, <3>1, <3>2 DEF StartTask, Heartbeat
  <2> QED BY <1>3, <2>1, <2>3, <2>4, <2>5 DEF Steps
<1>11. Undisturbed(b)'
  BY <1>0, <1>4, <1>5, <1>8, <1>10 DEF Undisturbed
<1>12. ASSUME NEW c \in Builds, c # b PROVE Undisturbed(c)'
  <2>1. job'[c] = job[c] /\ build'[c] = build[c]
    BY <1>3, <1>12
  <2> QED BY <1>0, <1>4, <2>1, QuietStays DEF Engaged
<1> QED BY <1>11, <1>12

\* A lease that runs out has nobody at work, so a reaper takes nobody's build.
LEMMA LeaseEndsQuiet ==
    ASSUME ~Slow, QuietInv, (\E b \in Builds : LeaseExpires(b)) \/ \E w \in Workers : Reap(w)
    PROVE  \A c \in Builds : Undisturbed(c)'
<1>00. LeasesInv
  BY DEF QuietInv, AloneInv, CountsInv
<1>0. /\ \A c \in Builds : Undisturbed(c)
      /\ build \in [Builds -> BuildType] /\ lost \in [Builds -> SUBSET Workers]
      /\ reaping \in [Workers -> SUBSET Builds]
  BY <1>00 DEF QuietInv, LeasesInv, LeasesTyped
<1>1. job' = job
  BY DEF LeaseExpires, Reap, ReapSelect, ReapFail
<1>2. ASSUME NEW b \in Builds, LeaseExpires(b) PROVE \A c \in Builds : Undisturbed(c)'
  <2>1. ASSUME NEW w \in Workers, Engaged(b, w) PROVE FALSE
    <3>1. build[b].lease = "live" /\ ~Executing(b, build[b].owner)
      BY <1>2 DEF LeaseExpires
    <3>2. job[b][w].pc # "queued" /\ job[b][w].leased
      BY <1>0, <2>1, <3>1 DEF Undisturbed
    <3>3. Executing(b, w) /\ w \in Workers \ lost[b]
      BY <1>0, <2>1, <3>2 DEF Engaged, Executing, Undisturbed
    <3>4. build[b].owner = w
      BY <1>00, <3>2, <3>3 DEF LeasesInv, LeaseIsHeld
    <3> QED BY <3>1, <3>3, <3>4
  <2>2. AtWork(b) = {}
    BY <2>1 DEF AtWork, Executing, Engaged
  <2>3. /\ build'[b].status = build[b].status /\ build'[b].lease = "expired"
        /\ lost'[b] = lost[b] /\ reaping' = reaping
        /\ \A c \in Builds : c # b => build'[c] = build[c] /\ lost'[c] = lost[c]
    BY <1>0, <1>2, <2>2 DEF LeaseExpires, BuildType
  <2>4. build[b].status # "none"
    BY <1>0, <1>2 DEF LeaseExpires, Undisturbed
  <2>5. \A w \in Workers : ~Engaged(b, w)'
    BY <1>1, <2>1 DEF Engaged
  <2>6. Undisturbed(b)'
    BY <1>0, <2>3, <2>4, <2>5 DEF Undisturbed
  <2>7. ASSUME NEW c \in Builds, c # b PROVE Undisturbed(c)'
    BY <1>0, <1>1, <2>3, <2>7, QuietStays DEF Engaged
  <2> QED BY <2>6, <2>7
<1>3. ASSUME NEW v \in Workers, ReapSelect(v), NEW c \in Builds PROVE Undisturbed(c)'
  <2>1. /\ UNCHANGED <<build, lost>> /\ reaping'[v] = {b \in Builds : Reapable(build[b])}
        /\ \A w \in Workers : w # v => reaping'[w] = reaping[w]
    BY <1>0, <1>3 DEF ReapSelect
  <2>2. CASE Reapable(build[c])
    <3>1. \A w \in Workers : ~Engaged(c, w)
      BY <1>0, <2>2 DEF Undisturbed, Reapable
    <3>2. \A w \in Workers : ~Engaged(c, w)'
      BY <1>1, <3>1 DEF Engaged
    <3>3. build[c].status \notin {"none", "succeeded"}
      BY <2>2 DEF Reapable, Active
    <3> QED BY <1>0, <2>1, <3>2, <3>3 DEF Undisturbed
  <2>3. CASE ~Reapable(build[c])
    <3>1. \A w \in Workers : c \in reaping'[w] => c \in reaping[w]
      BY <2>1, <2>3
    <3> QED BY <1>0, <1>1, <2>1, <3>1, QuietStays DEF Engaged
  <2> QED BY <2>2, <2>3
<1>4. ASSUME NEW v \in Workers, ReapFail(v), NEW c \in Builds PROVE Undisturbed(c)'
  <2>1. /\ \A w \in Workers : reaping'[w] \subseteq reaping[w]
        /\ build'[c] = IF c \in reaping[v] THEN Reaped(build[c]) ELSE build[c]
        /\ lost'[c] = lost[c] \cup IF c \in reaping[v] THEN AtWork(c) ELSE {}
    BY <1>0, <1>4 DEF ReapFail
  <2>2. CASE c \in reaping[v]
    <3>1. \A w \in Workers : ~Engaged(c, w)
      BY <1>0, <2>2 DEF Undisturbed
    <3>2. AtWork(c) = {}
      BY <3>1 DEF AtWork, Executing, Engaged
    <3>3. \A w \in Workers : ~Engaged(c, w)'
      BY <1>1, <3>1 DEF Engaged
    <3>4. build'[c].status = "failed"
      BY <2>1, <2>2 DEF Reaped, NoBuild
    <3> QED BY <1>0, <2>1, <2>2, <3>2, <3>3, <3>4 DEF Undisturbed
  <2>3. CASE c \notin reaping[v]
    BY <1>0, <1>1, <2>1, <2>3, QuietStays DEF Engaged
  <2> QED BY <2>2, <2>3
<1> QED BY <1>2, <1>3, <1>4 DEF Reap

LEMMA DieQuiet ==
    ASSUME QuietInv, NEW w \in Workers, Die(w)
    PROVE  \A c \in Builds : Undisturbed(c)'
<1>1. job \in [Builds -> [Workers -> JobType]] /\ reaping \in [Workers -> SUBSET Builds]
  BY DEF QuietInv, AloneInv, CountsInv, LeasesInv, LeasesTyped
<1>2. ASSUME NEW c \in Builds PROVE Undisturbed(c)'
  <2>1. Undisturbed(c) /\ build' = build /\ lost' = lost
    BY DEF QuietInv, Die
  <2>2. ~Engaged(c, w)' /\ \A v \in Workers : v # w => job'[c][v] = job[c][v]
    BY <1>1 DEF Die, Engaged, Steps
  <2>3. \A v \in Workers : /\ Engaged(c, v)' => Engaged(c, v) /\ job'[c][v] = job[c][v]
                           /\ c \in reaping'[v] => c \in reaping[v]
    BY <1>1, <2>2 DEF Die, Engaged
  <2> QED BY <2>1, <2>3, QuietStays
<1> QED BY <1>2

LEMMA QuietKeeps ==
    ASSUME OneHanded, ~Slow
    PROVE  QuietInv /\ [BuildsNext]_vars => QuietInv'
<1> SUFFICES ASSUME QuietInv, [BuildsNext]_vars PROVE \A c \in Builds : Undisturbed(c)'
  BY AloneKeeps DEF QuietInv
<1>1. CASE UNCHANGED vars
  BY <1>1, QuietStays DEF QuietInv, Engaged, vars
<1>2. ASSUME NEW b \in Builds, NEW w \in Workers,
             \/ Request(b, w, FALSE)
             \/ Waits /\ Request(b, w, TRUE)
             \/ HandOver(b, w) \/ Execute(b, w) \/ Raise(b, w)
      PROVE  \A c \in Builds : Undisturbed(c)'
  BY <1>2, RequestQuiet, NoHandOver, ExecuteQuiet DEF QuietInv
<1>3. ASSUME (\E b \in Builds : LeaseExpires(b)) \/ \E w \in Workers : Reap(w) \/ Die(w)
      PROVE  \A c \in Builds : Undisturbed(c)'
  BY <1>3, LeaseEndsQuiet, DieQuiet
<1> QED BY <1>1, <1>2, <1>3 DEF BuildsNext

\* A build that has ended keeps its outcome, although a crash or a failed plan
\* leaves a lease behind that a reaper may find later.
THEOREM OutcomesStay == ASSUME OneHanded, ~Slow PROVE BuildsSpec => TerminalStays
<1>1. QuietInv /\ [BuildsNext]_vars =>
          [\A b \in Builds : Ended(b) => build'[b].status = build[b].status]_vars
  <2> SUFFICES ASSUME QuietInv, BuildsNext, NEW b \in Builds, Ended(b)
               PROVE  build'[b].status = build[b].status
    OBVIOUS
  <2>00. LeasesInv
    BY DEF QuietInv, AloneInv, CountsInv
  <2>0. Undisturbed(b) /\ build \in [Builds -> BuildType]
    BY <2>00 DEF QuietInv, LeasesInv, LeasesTyped
  <2>1. ASSUME NEW c \in Builds, NEW w \in Workers, NEW wait \in BOOLEAN, Request(c, w, wait)
        PROVE  build'[b].status = build[b].status
    BY <2>0, <2>1 DEF Request, Ended
  <2>2. ASSUME NEW c \in Builds, NEW w \in Workers, Execute(c, w) \/ Raise(c, w)
        PROVE  build'[b].status = build[b].status
    <3>1. PICK to \in AskedType : LeadsTo(c, w, to)
      BY <2>00, <2>2, ExecuteLeads
    <3>2. CASE c # b
      BY <3>1, <3>2 DEF LeadsTo
    <3>3. CASE c = b
      <4>1. Engaged(b, w) => job[b][w].pc = "release"
        BY <2>0 DEF Undisturbed, Active, Ended
      <4>2. ~(PlanFails(b, w) \/ Begin(b, w) \/ Finish(b, w))
        BY <4>1 DEF PlanFails, Begin, Finish, Engaged, Steps
      <4> QED BY <3>1, <3>3, <4>2 DEF LeadsTo, GoesOn, EndsTask
    <3> QED BY <3>2, <3>3
  <2>3. ASSUME NEW c \in Builds, LeaseExpires(c) PROVE build'[b].status = build[b].status
    BY <2>0, <2>3 DEF LeaseExpires, BuildType
  <2>4. ASSUME NEW w \in Workers, Reap(w) \/ Die(w) PROVE build'[b].status = build[b].status
    <3>1. Reaped(build[b]).status = "failed"
      BY DEF Reaped, NoBuild
    <3> QED BY <2>0, <2>4, <3>1 DEF Reap, ReapSelect, ReapFail, Die, Undisturbed, Ended
  <2>5. ASSUME NEW c \in Builds, NEW w \in Workers, HandOver(c, w)
        PROVE  build'[b].status = build[b].status
    BY <2>5 DEF HandOver
  <2> QED BY <2>1, <2>2, <2>3, <2>4, <2>5 DEF BuildsNext
<1> QED BY <1>1, QuietStart, QuietKeeps, PTL DEF BuildsSpec, TerminalStays
=============================================================================
