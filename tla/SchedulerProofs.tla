-------------------------- MODULE SchedulerProofs ---------------------------
(***************************************************************************)
(* Theorems about Scheduler, for every number of jobs and callers, every   *)
(* set of job specifications and every bound on time and requests.         *)
(***************************************************************************)
EXTENDS Scheduler, WellFoundedInduction, TLAPS

-----------------------------------------------------------------------------
(* The pure helpers                                                        *)

\* A non-empty set of instants has an earliest one, and Earliest is it.
LEMMA EarliestProperties ==
  ASSUME NEW S \in SUBSET Nat, S # {}
  PROVE  Earliest(S) \in S /\ \A e \in S : Earliest(S) <= e
<1>. DEFINE R == OpToRel(<, Nat)
<1>1. IsWellFoundedOn(R, Nat)
  BY NatLessThanWellFounded
<1>2. \A x, y \in Nat : y < x => <<y, x>> \in R
  BY DEF OpToRel
<1>. HIDE DEF R
<1>3. PICK d \in S : \A e \in S : ~(<<e, d>> \in R)
  BY <1>1, WFMin
<1>4. \A e \in S : d <= e
  <2>1. TAKE e \in S
  <2>2. d \in Nat /\ e \in Nat /\ ~(<<e, d>> \in R)
    BY <1>3
  <2>3. ~(e < d)
    BY <2>2, <1>2
  <2>. QED
    BY <2>2, <2>3
<1>. QED
  BY <1>4 DEF Earliest

\* nextCronOccurrence is undefined or strictly in the future.
LEMMA NextOccurrenceFuture ==
  ASSUME NEW cron \in SUBSET Nat, NEW t \in Nat,
         NextOccurrence(cron, t) # Undefined
  PROVE  NextOccurrence(cron, t) \in Nat /\ NextOccurrence(cron, t) > t
<1>. DEFINE later == {s \in cron : s > t}
<1>1. later # {} /\ NextOccurrence(cron, t) = Earliest(later)
  BY DEF NextOccurrence
<1>2. Earliest(later) \in later
  BY <1>1, EarliestProperties
<1>. QED
  BY <1>1, <1>2

\* What a job is rescheduled to is an instant in the future, or dormancy; only
\* a chain-only job goes dormant.
LEMMA RescheduleProperties ==
  ASSUME NEW cron \in SUBSET Nat, NEW t \in Nat
  PROVE  LET r == RescheduleFromCron(cron, t)
         IN  /\ r.tag \in {"dormant", "exhausted", "cron"}
             /\ r.next \in Nat
             /\ r.tag = "cron" => r.next > t
             /\ r.tag = "dormant" <=> cron = {}
             /\ cron # {} /\ NextOccurrence(cron, t) # Undefined => r.tag = "cron"
<1>1. CASE cron = {}
  BY <1>1 DEF RescheduleFromCron
<1>2. CASE cron # {} /\ NextOccurrence(cron, t) = Undefined
  BY <1>2 DEF RescheduleFromCron
<1>3. CASE cron # {} /\ NextOccurrence(cron, t) # Undefined
  BY <1>3, NextOccurrenceFuture DEF RescheduleFromCron
<1>. QED
  BY <1>1, <1>2, <1>3

\* #rearmAlarm sets the alarm no later than any job that holds an alarm slot.
LEMMA RearmedProperties ==
  ASSUME NEW rows \in [Jobs -> RowType], NEW reap \in Deadline
  PROVE  /\ Rearmed(rows, reap) \in Deadline
         /\ \A j \in Jobs : ActiveRow(rows[j]) =>
              /\ Rearmed(rows, reap) \in Nat
              /\ Rearmed(rows, reap) <= rows[j].next
<1>. DEFINE S == {rows[j].next : j \in {i \in Jobs : ActiveRow(rows[i])}}
<1>1. S \in SUBSET Nat
  BY DEF RowType
<1>2. CASE ~AnyRow(rows)
  BY <1>2 DEF Rearmed, AnyRow, ActiveRow
<1>3. CASE AnyRow(rows) /\ S = {}
  BY <1>3 DEF Rearmed, SoonestDeadline, Deadline
<1>4. CASE AnyRow(rows) /\ S # {}
  <2>1. Rearmed(rows, reap) = Earliest(S)
    BY <1>4 DEF Rearmed, SoonestDeadline
  <2>2. Earliest(S) \in S /\ \A e \in S : Earliest(S) <= e
    BY <1>1, <1>4, EarliestProperties
  <2>. QED
    BY <1>1, <2>1, <2>2 DEF Deadline
<1>. QED
  BY <1>2, <1>3, <1>4

-----------------------------------------------------------------------------
(* Type correctness                                                        *)

\* A call that is running a job knows which, holds its guard, and remembers the
\* job it was called for; any other call holds nothing.
CallShape ==
  \A t \in Threads :
    /\ act[t].pc \in RunPCs =>
         /\ act[t].job \in Jobs
         /\ act[t].base \in Jobs
         /\ act[t].job \in act[t].holds
    /\ act[t].pc \in OtherPCs => act[t].holds = {}

TypeInv == TypeOK /\ CallShape

\* The idle record of a call, in each of the places it is put.
LEMMA IdleType ==
  /\ Idle \in ActType
  /\ Idle.pc \notin RunPCs /\ Idle.holds = {}
  /\ [Idle EXCEPT !.pc = "loop"] \in ActType
  /\ [Idle EXCEPT !.pc = "loop"].pc \notin RunPCs
  /\ [Idle EXCEPT !.pc = "loop"].holds = {}
BY DEF Idle, ActType, RunPCs, OtherPCs, Origins, NoJob

\* Re-arming yields a deadline.
LEMMA RearmType ==
  ASSUME job' \in [Jobs -> RowType], reapAt' \in Deadline, Rearm
  PROVE  alarm' \in Deadline
BY RearmedProperties DEF Rearm

LEMMA TouchActivityType ==
  ASSUME TypeOK, job' \in [Jobs -> RowType], TouchActivity
  PROVE  reapAt' \in Deadline /\ alarm' \in Deadline
<1>1. reapAt' \in Deadline
  BY SchedulerAssumption DEF TouchActivity, TypeOK, Deadline
<1>. QED
  BY <1>1, RearmType DEF TouchActivity

LEMMA StartRunType ==
  ASSUME TypeOK, NEW t \in Threads, NEW j \in Jobs, NEW o \in Origins,
         NEW base \in Jobs, NEW held \in SUBSET Jobs,
         StartRun(t, j, o, base, held)
  PROVE  /\ runningJobs' \subseteq Jobs
         /\ alarmBatchRan' \subseteq Jobs
         /\ starts' \in [Jobs -> Nat]
         /\ act' \in [Threads -> ActType]
         /\ CallShape => CallShape'
<1>. DEFINE run == [Idle EXCEPT !.pc = "fetch", !.job = j, !.base = base,
                                !.origin = o, !.holds = held \cup {j}]
<1>1. run \in ActType
  BY DEF Idle, ActType, RunPCs, OtherPCs, NoJob
<1>2. /\ run.pc \in RunPCs /\ run.pc \notin OtherPCs
      /\ run.job \in Jobs /\ run.base \in Jobs /\ run.job \in run.holds
  BY DEF Idle, RunPCs, OtherPCs
<1>3. act' = [act EXCEPT ![t] = run]
  BY DEF StartRun
<1>. HIDE DEF run
<1>4. CallShape => CallShape'
  BY <1>2, <1>3 DEF CallShape, TypeOK
<1>. QED
  BY <1>1, <1>3, <1>4 DEF StartRun, TypeOK

LEMMA ReturnType ==
  ASSUME TypeInv, NEW t \in Threads, NEW rowExists \in BOOLEAN,
         act[t].pc \in RunPCs, job' \in [Jobs -> RowType], reapAt' \in Deadline,
         Return(t, rowExists)
  PROVE  /\ runningJobs' \subseteq Jobs
         /\ alarm' \in Deadline
         /\ alarmBatchRan' \subseteq Jobs
         /\ starts' \in [Jobs -> Nat]
         /\ act' \in [Threads -> ActType]
         /\ reply' \in [Callers -> Threads \cup {NoRun, Refused}]
         /\ CallShape'
<1>. USE DEF TypeInv
<1>1. alarm' \in Deadline
  BY RearmType DEF Return, TypeOK
<1>2. PICK idle \in {Idle, [Idle EXCEPT !.pc = "loop"]} :
         act' = [act EXCEPT ![t] = idle]
  BY DEF Return
<1>3. act' \in [Threads -> ActType]
  BY <1>2, IdleType DEF TypeOK
<1>4. idle.pc \notin RunPCs /\ idle.holds = {}
  BY <1>2, IdleType
<1>5. CallShape'
  BY <1>2, <1>4 DEF CallShape, TypeOK
<1>6. reply' \in [Callers -> Threads \cup {NoRun, Refused}]
  <2>1. lastRun[act[t].base] \in Threads \cup {NoRun}
    BY DEF TypeOK, CallShape
  <2>. QED
    BY <2>1 DEF Return, TypeOK
<1>. QED
  BY <1>1, <1>3, <1>5, <1>6 DEF Return, TypeOK

LEMMA ChainType ==
  ASSUME TypeInv, NEW t \in Threads, act[t].pc \in RunPCs,
         UNCHANGED <<job, reapAt>>, Chain(t)
  PROVE  /\ runningJobs' \subseteq Jobs
         /\ alarm' \in Deadline
         /\ alarmBatchRan' \subseteq Jobs
         /\ starts' \in [Jobs -> Nat]
         /\ act' \in [Threads -> ActType]
         /\ reply' \in [Callers -> Threads \cup {NoRun, Refused}]
         /\ CallShape'
<1>1. act[t] \in ActType
  BY DEF TypeInv, TypeOK
<1>2. CASE Return(t, TRUE)
  BY <1>2, ReturnType DEF TypeInv, TypeOK
<1>3. CASE /\ act[t].target # NoJob
           /\ StartRun(t, act[t].target, "chain", act[t].base, act[t].holds)
           /\ UNCHANGED <<alarm, reply>>
  <2>1. /\ act[t].target \in Jobs /\ act[t].base \in Jobs
        /\ act[t].holds \in SUBSET Jobs /\ "chain" \in Origins
    BY <1>1, <1>3 DEF ActType, Origins, TypeInv, CallShape
  <2>. QED
    BY <1>3, <2>1, StartRunType DEF TypeInv, TypeOK
<1>. QED
  BY <1>2, <1>3 DEF Chain

\* Client requests, and what follows them.
LEMMA ClientStepType == TypeInv /\ ClientStep => TypeInv'
<1>. SUFFICES ASSUME TypeInv, ClientStep
              PROVE  TypeInv'
  OBVIOUS
<1>. USE DEF TypeInv
<1>1. ASSUME NEW j \in Jobs, NEW s \in JobSpecs, CreateJob(j, s)
      PROVE  TypeInv'
  <2>1. s \in SpecType /\ s.cron \in SUBSET Nat
    BY SchedulerAssumption DEF SpecType
  <2>2. (IF s.cron = {} THEN 0 ELSE NextOccurrence(s.cron, now)) \in Nat
    BY <1>1, <2>1, NextOccurrenceFuture DEF CreateJob, TypeOK
  <2>3. job' \in [Jobs -> RowType]
    BY <1>1, <2>1, <2>2 DEF CreateJob, TypeOK, RowType
  <2>. QED
    BY <1>1, <2>3 DEF CreateJob, Request, TypeOK, CallShape
<1>2. ASSUME NEW j \in Jobs, InsertJob(j)
      PROVE  TypeInv'
  <2>1. job' \in [Jobs -> RowType]
    BY <1>2 DEF InsertJob, TypeOK, RowType
  <2>. QED
    BY <1>2, <2>1, TouchActivityType DEF InsertJob, TypeOK, CallShape
<1>3. ASSUME NEW j \in Jobs, PromoteFails(j)
      PROVE  TypeInv'
  BY <1>3 DEF PromoteFails, TypeOK, RowType, CallShape
<1>4. ASSUME NEW j \in Jobs, PauseJob(j)
      PROVE  TypeInv'
  <2>1. job' \in [Jobs -> RowType]
    BY <1>4, ZenonT(60) DEF PauseJob, TypeOK, RowType
  <2>. QED
    BY <1>4, <2>1, RearmType DEF PauseJob, Request, TypeOK, CallShape
<1>5. ASSUME NEW j \in Jobs, ResumeJob(j)
      PROVE  TypeInv'
  <2>1. job[j].spec.cron \in SUBSET Nat
    BY DEF TypeOK, RowType, SpecType
  <2>2. RescheduleFromCron(job[j].spec.cron, now).next \in Nat
    BY <2>1, RescheduleProperties DEF TypeOK
  <2>. DEFINE row == [job[j] EXCEPT !.paused = FALSE, !.attempts = 0,
                        !.next = RescheduleFromCron(job[j].spec.cron, now).next]
  <2>3. row \in RowType
    BY ZenonT(30), <2>2 DEF TypeOK, RowType
  <2>4. job' = [job EXCEPT ![j] = row]
    BY <1>5 DEF ResumeJob, TypeOK
  <2>5. job' \in [Jobs -> RowType]
    BY <2>3, <2>4 DEF TypeOK
  <2>. QED
    BY <1>5, <2>5, RearmType DEF ResumeJob, Request, TypeOK, CallShape
<1>6. ASSUME NEW j \in Jobs, DeleteJob(j)
      PROVE  TypeInv'
  BY <1>6 DEF DeleteJob, Request, TypeOK, RowType, CallShape
<1>7. ASSUME NEW j \in Jobs, FinishDelete(j)
      PROVE  TypeInv'
  BY <1>7, TouchActivityType DEF FinishDelete, TypeOK, CallShape
<1>8. ASSUME NEW j \in Jobs, NEW c \in Callers, RunNow(c, j)
      PROVE  TypeInv'
  <2>1. c \in Threads /\ "manual" \in Origins /\ {} \in SUBSET Jobs
    BY DEF Threads, Origins
  <2>. QED
    BY <1>8, <2>1, StartRunType DEF RunNow, Request, TypeOK
<1>9. ASSUME NEW j \in Jobs, NEW c \in Callers, RunNowRefused(c, j)
      PROVE  TypeInv'
  BY <1>9 DEF RunNowRefused, Request, TypeOK, CallShape
<1>10. ASSUME UserActivity
       PROVE  TypeInv'
  BY <1>10, TouchActivityType DEF UserActivity, Request, TypeOK, CallShape
<1>11. ASSUME Reset
       PROVE  TypeInv'
  BY <1>11, SMTT(30) DEF Reset, WipeStorage, Request, TypeOK, RowType, Deadline, CallShape
<1>. QED
  BY <1>1, <1>2, <1>3, <1>4, <1>5, <1>6, <1>7, <1>8, <1>9, <1>10, <1>11
     DEF ClientStep

\* A run that moves on within its call keeps what the call holds.
LEMMA RunMovesType ==
  ASSUME TypeInv, NEW t \in Threads, act[t].pc \in RunPCs,
         NEW run, run.pc \in RunPCs \ OtherPCs, run.job = act[t].job,
         run.base = act[t].base, run.holds = act[t].holds,
         act' = [act EXCEPT ![t] = run]
  PROVE  CallShape'
BY DEF TypeInv, TypeOK, CallShape

\* Steps of a run.
LEMMA RunStepType ==
  ASSUME TypeInv, NEW t \in Threads, RunStep(t)
  PROVE  TypeInv'
<1>. USE DEF TypeInv
<1>0. act[t] \in ActType
  BY DEF TypeOK
<1>1. CASE SnapshotFetched(t)
  <2>. DEFINE found == act[t].job \in snapshots
              run == [act[t] EXCEPT !.pc = "exec", !.restored = found]
  <2>0. act' = [act EXCEPT ![t] = run]
    BY <1>1 DEF SnapshotFetched, TypeOK
  <2>1. act' \in [Threads -> ActType]
    <3>1. found \in BOOLEAN
      OBVIOUS
    <3>. HIDE DEF found
    <3>2. run \in ActType
      BY <1>0, <3>1 DEF ActType, RunPCs
    <3>. QED
      BY <2>0, <3>2 DEF TypeOK
  <2>2. CallShape'
    BY <1>1 DEF SnapshotFetched, TypeOK, CallShape, RunPCs, OtherPCs
  <2>. QED
    BY <1>1, <2>1, <2>2 DEF SnapshotFetched, TypeOK
<1>2. CASE RunRecorded(t)
  <2>1. act' \in [Threads -> ActType]
    <3>1. PICK exit \in {0, 1} :
            act' = [act EXCEPT ![t] = [act[t] EXCEPT !.pc = "destroy", !.exit = exit]]
      BY <1>2 DEF RunRecorded, Recorded, TypeOK
    <3>2. [act[t] EXCEPT !.pc = "destroy", !.exit = exit] \in ActType
      BY <1>0 DEF ActType, RunPCs
    <3>. QED
      BY <3>1, <3>2 DEF TypeOK
  <2>2. CallShape'
    BY <1>2 DEF RunRecorded, Recorded, TypeOK, CallShape, RunPCs, OtherPCs
  <2>. QED
    BY <1>2, <2>1, <2>2 DEF RunRecorded, Recorded, TypeOK
<1>3. CASE PostRunGone(t)
  <2>1. act[t].pc \in RunPCs
    BY <1>3 DEF PostRunGone, RunPCs
  <2>. QED
    BY <1>3, <2>1, ReturnType DEF PostRunGone, TypeOK
<1>4. CASE PostRunRetry(t)
  <2>1. act[t].pc \in RunPCs
    BY <1>4 DEF PostRunRetry, RunPCs
  <2>2. job[act[t].job] \in RowType
    BY <2>1 DEF TypeOK, CallShape
  <2>3. job' \in [Jobs -> RowType]
    <3>. DEFINE row == [job[act[t].job] EXCEPT
                          !.attempts = job[act[t].job].attempts + 1,
                          !.next = now + job[act[t].job].spec.backoff]
    <3>1. job' = [job EXCEPT ![act[t].job] = row]
      BY <1>4, <2>2 DEF PostRunRetry, TypeOK, RowType
    <3>2. now + job[act[t].job].spec.backoff \in Nat
      BY <2>2 DEF TypeOK, RowType, SpecType
    <3>3. job[act[t].job].attempts + 1 \in Nat
      BY <2>2 DEF RowType
    <3>4. row \in RowType
      BY <2>2, <3>2, <3>3 DEF RowType
    <3>. HIDE DEF row
    <3>. QED
      BY <3>1, <3>4 DEF TypeOK
  <2>. QED
    BY <1>4, <2>1, <2>3, ReturnType DEF PostRunRetry, TypeOK
<1>5. CASE PostRunFinal(t)
  <2>. DEFINE j == act[t].job
              spec == job[j].spec
              resched == Reschedule(act[t].origin, spec.cron, now)
  <2>1. j \in Jobs /\ job[j] \in RowType /\ spec.cron \in SUBSET Nat
    BY <1>5 DEF PostRunFinal, RunPCs, TypeOK, CallShape, RowType, SpecType
  <2>2. resched.next \in Nat
    BY <2>1, RescheduleProperties DEF Reschedule, TypeOK
  <2>3. Finalized(job[j], resched) \in RowType
    BY <2>1, <2>2 DEF Finalized, RowType
  <2>4. job' \in [Jobs -> RowType]
    BY <1>5, <2>3 DEF PostRunFinal, TypeOK
  <2>5. ChainTarget(act[t].exit, spec.onOk, spec.onFail) \in Jobs \cup {NoJob}
    BY <2>1 DEF ChainTarget, RowType, SpecType
  <2>6. act' \in [Threads -> ActType]
    <3>. DEFINE k == ChainTarget(act[t].exit, spec.onOk, spec.onFail)
                over == resched.tag = "exhausted"
                run == [act[t] EXCEPT !.pc = "notify", !.exhausted = over,
                                      !.target = k]
    <3>1. act' = [act EXCEPT ![t] = run]
      BY <1>5 DEF PostRunFinal, TypeOK
    <3>2. over \in BOOLEAN /\ k \in Jobs \cup {NoJob}
      BY <2>5
    <3>. HIDE DEF over, k
    <3>3. run \in ActType
      BY <1>0, <3>2 DEF ActType, RunPCs
    <3>. HIDE DEF run
    <3>. QED
      BY <3>1, <3>3 DEF TypeOK
  <2>7. CallShape'
    <3>. DEFINE k == ChainTarget(act[t].exit, spec.onOk, spec.onFail)
                over == resched.tag = "exhausted"
                run == [act[t] EXCEPT !.pc = "notify", !.exhausted = over,
                                      !.target = k]
    <3>1. act' = [act EXCEPT ![t] = run] /\ act[t].pc \in RunPCs
      BY <1>5 DEF PostRunFinal, TypeOK, RunPCs
    <3>. HIDE DEF over, k
    <3>2. /\ run.pc \in RunPCs \ OtherPCs /\ run.job = act[t].job
          /\ run.base = act[t].base /\ run.holds = act[t].holds
      BY <1>0 DEF ActType, RunPCs, OtherPCs
    <3>. HIDE DEF run
    <3>. QED
      BY <3>1, <3>2, RunMovesType
  <2>. QED
    BY <1>5, <2>4, <2>6, <2>7 DEF PostRunFinal, TypeOK
<1>6. CASE NotifiedExhausted(t)
  <2>1. job' \in [Jobs -> RowType]
    BY ZenonT(30), <1>6 DEF NotifiedExhausted, TypeOK, RowType
  <2>2. act' \in [Threads -> ActType]
    BY <1>6 DEF NotifiedExhausted, TypeOK, ActType, RunPCs
  <2>3. CallShape'
    BY <1>6 DEF NotifiedExhausted, TypeOK, CallShape, RunPCs, OtherPCs
  <2>. QED
    BY <1>6, <2>1, <2>2, <2>3 DEF NotifiedExhausted, TypeOK
<1>7. CASE Notified(t)
  <2>1. act[t].pc \in RunPCs
    BY <1>7 DEF Notified, RunPCs
  <2>. QED
    BY <1>7, <2>1, ChainType DEF Notified, TypeOK
<1>8. CASE Reclaimed(t)
  <2>1. act[t].pc \in RunPCs
    BY <1>8 DEF Reclaimed, RunPCs
  <2>. QED
    BY <1>8, <2>1, ChainType DEF Reclaimed, TypeOK
<1>. QED
  BY <1>1, <1>2, <1>3, <1>4, <1>5, <1>6, <1>7, <1>8 DEF RunStep

\* Steps of alarm().
LEMMA AlarmStepType == TypeInv /\ AlarmStep => TypeInv'
<1>. SUFFICES ASSUME TypeInv, AlarmStep
              PROVE  TypeInv'
  OBVIOUS
<1>. USE DEF TypeInv
<1>0. Alarm \in Threads /\ act[Alarm] \in ActType
  BY DEF Threads, TypeOK
<1>1. CASE AlarmFires
  <2>1. batch' \in [Jobs -> Nat]
    BY <1>1 DEF AlarmFires, TypeOK, RowType
  <2>2. act' \in [Threads -> ActType] /\ CallShape'
    BY <1>0, <1>1, IdleType DEF AlarmFires, TypeOK, CallShape
  <2>. QED
    BY <1>1, <2>1, <2>2 DEF AlarmFires, TypeOK, Deadline
<1>2. CASE AlarmRearms
  BY <1>2, RearmType DEF AlarmRearms, TypeOK, CallShape
<1>3. CASE AlarmReaps
  <2>1. act' \in [Threads -> ActType]
    BY <1>0, <1>3 DEF AlarmReaps, TypeOK, ActType, OtherPCs
  <2>2. CallShape'
    BY <1>0, <1>3 DEF AlarmReaps, AlarmDelivered, TypeOK, CallShape, RunPCs, OtherPCs
  <2>. QED
    BY <1>3, <2>1, <2>2 DEF AlarmReaps, TypeOK, Deadline
<1>4. CASE ReapWipes
  <2>1. act' \in [Threads -> ActType] /\ CallShape'
    BY <1>0, <1>4, IdleType DEF ReapWipes, TypeOK, CallShape
  <2>. QED
    BY <1>4, <2>1 DEF ReapWipes, WipeStorage, TypeOK, RowType, Deadline
<1>5. ASSUME NEW j \in Jobs, LoopSkips(j)
      PROVE  TypeInv'
  BY <1>5 DEF LoopSkips, TypeOK, CallShape
<1>6. ASSUME NEW j \in Jobs, LoopRuns(j)
      PROVE  TypeInv'
  <2>1. "schedule" \in Origins /\ {} \in SUBSET Jobs
    BY DEF Origins
  <2>. QED
    BY <1>0, <1>6, <2>1, StartRunType DEF LoopRuns, TypeOK
<1>7. ASSUME NEW j \in Jobs, LoopBusy(j)
      PROVE  TypeInv'
  <2>. DEFINE resched == RescheduleFromCron(job[j].spec.cron, now)
  <2>1. resched.next \in Nat
    BY RescheduleProperties DEF TypeOK, RowType, SpecType
  <2>. HIDE DEF resched
  <2>2. BusySkipped(job[j], resched) \in RowType
    BY <2>1, ZenonT(60) DEF BusySkipped, TypeOK, RowType
  <2>3. job' = [job EXCEPT ![j] = BusySkipped(job[j], resched)]
    BY <1>7 DEF LoopBusy, resched
  <2>. QED
    BY <1>7, <2>2, <2>3 DEF LoopBusy, TypeOK, CallShape
<1>8. ASSUME NEW j \in Jobs, LoopBusyExhausted(j)
      PROVE  TypeInv'
  <2>1. job' \in [Jobs -> RowType]
    BY <1>8 DEF LoopBusyExhausted, TypeOK, RowType
  <2>2. act' \in [Threads -> ActType]
    BY <1>0, <1>8 DEF LoopBusyExhausted, TypeOK, ActType, OtherPCs
  <2>3. CallShape'
    BY <1>0, <1>8 DEF LoopBusyExhausted, LoopAt, TypeOK, CallShape, RunPCs, OtherPCs
  <2>. QED
    BY <1>8, <2>1, <2>2, <2>3 DEF LoopBusyExhausted, TypeOK
<1>9. CASE BusyReclaimed
  <2>1. act' \in [Threads -> ActType] /\ CallShape'
    BY <1>0, <1>9, IdleType DEF BusyReclaimed, TypeOK, CallShape
  <2>. QED
    BY <1>9, <2>1 DEF BusyReclaimed, TypeOK
<1>10. CASE LoopEnds
  <2>1. act' \in [Threads -> ActType] /\ CallShape'
    BY <1>0, <1>10, IdleType DEF LoopEnds, TypeOK, CallShape
  <2>. QED
    BY <1>10, <2>1, RearmType DEF LoopEnds, TypeOK
<1>. QED
  BY <1>1, <1>2, <1>3, <1>4, <1>5, <1>6, <1>7, <1>8, <1>9, <1>10 DEF AlarmStep

LEMMA EvictType == TypeInv /\ Evict => TypeInv'
<1>. SUFFICES ASSUME TypeInv, Evict
              PROVE  TypeInv'
  OBVIOUS
<1>1. act' \in [Threads -> ActType] /\ CallShape'
  BY IdleType DEF Evict, CallShape
<1>2. job' \in [Jobs -> RowType]
  BY DEF Evict, TypeInv, TypeOK, RowType
<1>. QED
  BY <1>1, <1>2 DEF Evict, Request, TypeInv, TypeOK, Deadline

LEMMA TypeInvInductive ==
  /\ Init => TypeInv
  /\ TypeInv /\ [Next]_vars => TypeInv'
<1>1. Init => TypeInv
  <2>. SUFFICES ASSUME Init PROVE TypeInv
    OBVIOUS
  <2>1. NoRow \in RowType
    BY SchedulerAssumption DEF NoRow, RowType, Blank, SpecType, NoJob
  <2>2. act \in [Threads -> ActType] /\ CallShape
    BY IdleType DEF Init, CallShape
  <2>. QED
    BY <2>1, <2>2 DEF Init, TypeInv, TypeOK, Deadline
<1>2. TypeInv /\ Next => TypeInv'
  <2>1. TypeInv /\ ClockTicks => TypeInv'
    BY DEF ClockTicks, TypeInv, TypeOK, CallShape
  <2>. QED
    BY <2>1, ClientStepType, AlarmStepType, RunStepType, EvictType DEF Next
<1>3. TypeInv /\ UNCHANGED vars => TypeInv'
  BY DEF vars, TypeInv, TypeOK, CallShape
<1>. QED
  BY <1>1, <1>2, <1>3

\* The tables, the guards and the calls in flight keep the values their
\* declarations in Agent.ts give them.
THEOREM TypeCorrect == Spec => []TypeOK
<1>1. TypeInv => TypeOK
  BY DEF TypeInv
<1>. QED
  BY <1>1, TypeInvInductive, PTL DEF Spec

-----------------------------------------------------------------------------
(* At most one run of a job in flight                                      *)

\* Nothing changes hands when no call's holdings change.
LEMMA SameHoldings ==
  ASSUME OneRunPerJob, UNCHANGED runningJobs,
         \A t \in Threads : act'[t].holds = act[t].holds
  PROVE  OneRunPerJob'
BY DEF OneRunPerJob

\* Starting a job that is not running adds it to one call's holdings.
LEMMA StartRunExclusive ==
  ASSUME TypeInv, OneRunPerJob, NEW t \in Threads, NEW j \in Jobs,
         NEW o, NEW base, j \notin runningJobs,
         StartRun(t, j, o, base, act[t].holds)
  PROVE  OneRunPerJob'
<1>1. act'[t].holds = act[t].holds \cup {j}
  BY DEF StartRun, TypeInv, TypeOK, ActType, Idle
<1>2. \A u \in Threads \ {t} : act'[u].holds = act[u].holds
  BY DEF StartRun, TypeInv, TypeOK
<1>3. \A u \in Threads : j \notin act[u].holds
  BY DEF OneRunPerJob
<1>4. runningJobs' = runningJobs \cup {j}
  BY DEF StartRun
<1>5. \A u, v \in Threads : u # v => act'[u].holds \cap act'[v].holds = {}
  BY <1>1, <1>2, <1>3 DEF OneRunPerJob
<1>6. runningJobs' = UNION {act'[u].holds : u \in Threads}
  BY <1>1, <1>2, <1>4 DEF OneRunPerJob
<1>. QED
  BY <1>5, <1>6 DEF OneRunPerJob

\* A call that returns gives back what it held and nothing else.
LEMMA ReturnExclusive ==
  ASSUME TypeInv, OneRunPerJob, NEW t \in Threads, NEW rowExists,
         Return(t, rowExists)
  PROVE  OneRunPerJob'
<1>1. act'[t].holds = {}
  BY IdleType DEF Return, TypeInv, TypeOK
<1>2. \A u \in Threads \ {t} : act'[u].holds = act[u].holds
  BY DEF Return, TypeInv, TypeOK
<1>3. runningJobs' = runningJobs \ act[t].holds
  BY DEF Return
<1>4. \A u, v \in Threads : u # v => act'[u].holds \cap act'[v].holds = {}
  BY <1>1, <1>2 DEF OneRunPerJob
<1>5. runningJobs' = UNION {act'[u].holds : u \in Threads}
  BY <1>1, <1>2, <1>3 DEF OneRunPerJob
<1>. QED
  BY <1>4, <1>5 DEF OneRunPerJob

LEMMA ChainExclusive ==
  ASSUME TypeInv, OneRunPerJob, NEW t \in Threads, Chain(t)
  PROVE  OneRunPerJob'
<1>1. CASE Return(t, TRUE)
  BY <1>1, ReturnExclusive
<1>2. CASE /\ act[t].target # NoJob
           /\ ~Declines(act[t].target)
           /\ StartRun(t, act[t].target, "chain", act[t].base, act[t].holds)
  <2>1. act[t].target \in Jobs /\ act[t].target \notin runningJobs
    BY <1>2 DEF Declines, TypeInv, TypeOK, ActType
  <2>. QED
    BY <1>2, <2>1, StartRunExclusive
<1>. QED
  BY <1>1, <1>2 DEF Chain

LEMMA ExclusiveInductive ==
  TypeInv /\ OneRunPerJob /\ [Next]_vars => OneRunPerJob'
<1>. SUFFICES ASSUME TypeInv, OneRunPerJob, [Next]_vars
              PROVE  OneRunPerJob'
  OBVIOUS
<1>0. Alarm \in Threads /\ Callers \subseteq Threads
  BY DEF Threads
<1>1. ASSUME NEW j \in Jobs, NEW c \in Callers, RunNow(c, j)
      PROVE  OneRunPerJob'
  <2>1. act[c].holds = {}
    BY <1>0, <1>1 DEF RunNow, TypeInv, CallShape, OtherPCs
  <2>. QED
    BY <1>0, <1>1, <2>1, StartRunExclusive DEF RunNow, Declines
<1>2. CASE \/ \E j \in Jobs :
                \/ \E s \in JobSpecs : CreateJob(j, s)
                \/ InsertJob(j) \/ PromoteFails(j) \/ PauseJob(j)
                \/ ResumeJob(j) \/ DeleteJob(j) \/ FinishDelete(j)
                \/ \E c \in Callers : RunNowRefused(c, j)
           \/ UserActivity \/ Reset \/ ClockTicks
  BY <1>2, SameHoldings
     DEF CreateJob, InsertJob, PromoteFails, PauseJob, ResumeJob, DeleteJob,
         FinishDelete, RunNowRefused, UserActivity, Reset, ClockTicks
<1>3. CASE AlarmStep
  <2>1. ASSUME NEW j \in Jobs, LoopRuns(j)
        PROVE  OneRunPerJob'
    <3>1. act[Alarm].holds = {}
      BY <1>0, <2>1 DEF LoopRuns, LoopAt, TypeInv, CallShape, OtherPCs
    <3>. QED
      BY <1>0, <2>1, <3>1, StartRunExclusive DEF LoopRuns
  <2>2. CASE AlarmRearms \/ \E j \in Jobs : LoopSkips(j) \/ LoopBusy(j)
    BY <2>2, SameHoldings DEF AlarmRearms, LoopSkips, LoopBusy
  <2>3. CASE \/ AlarmFires \/ AlarmReaps \/ ReapWipes \/ BusyReclaimed
             \/ LoopEnds \/ \E j \in Jobs : LoopBusyExhausted(j)
    <3>1. act[Alarm].holds = {}
      BY <1>0, <2>3
         DEF AlarmFires, AlarmReaps, AlarmDelivered, ReapWipes, BusyReclaimed,
             LoopEnds, LoopBusyExhausted, LoopAt, TypeInv, CallShape, OtherPCs
    <3>2. act'[Alarm].holds = {} /\ UNCHANGED runningJobs
      BY <1>0, <2>3, <3>1, IdleType
         DEF AlarmFires, AlarmReaps, ReapWipes, BusyReclaimed, LoopEnds,
             LoopBusyExhausted, TypeInv, TypeOK, ActType
    <3>3. \A u \in Threads \ {Alarm} : act'[u] = act[u]
      BY <1>0, <2>3
         DEF AlarmFires, AlarmReaps, ReapWipes, BusyReclaimed, LoopEnds,
             LoopBusyExhausted, TypeInv, TypeOK
    <3>. QED
      BY <3>1, <3>2, <3>3, SameHoldings
  <2>. QED
    BY <1>3, <2>1, <2>2, <2>3 DEF AlarmStep
<1>4. ASSUME NEW t \in Threads, RunStep(t)
      PROVE  OneRunPerJob'
  <2>1. CASE PostRunGone(t) \/ PostRunRetry(t)
    BY <2>1, ReturnExclusive DEF PostRunGone, PostRunRetry
  <2>2. CASE Notified(t) \/ Reclaimed(t)
    BY <2>2, ChainExclusive DEF Notified, Reclaimed
  <2>3. CASE SnapshotFetched(t) \/ RunRecorded(t) \/ NotifiedExhausted(t)
             \/ PostRunFinal(t)
    <3>1. \A u \in Threads : act'[u].holds = act[u].holds
      BY <2>3, SMTT(30) DEF SnapshotFetched, RunRecorded, NotifiedExhausted,
                  PostRunFinal, TypeInv, TypeOK, ActType
    <3>. QED
      BY <2>3, <3>1, SameHoldings
         DEF SnapshotFetched, RunRecorded, NotifiedExhausted, PostRunFinal
  <2>. QED
    BY <1>4, <2>1, <2>2, <2>3 DEF RunStep
<1>5. CASE Evict
  BY <1>5, IdleType DEF Evict, OneRunPerJob
<1>6. CASE UNCHANGED vars
  BY <1>6 DEF vars, OneRunPerJob
<1>. QED
  BY <1>1, <1>2, <1>3, <1>4, <1>5, <1>6 DEF Next, ClientStep

\* However run-now calls, alarm batches, cascades, deletes, resets and
\* evictions interleave, no job has two runs in flight (#runningJobs).
THEOREM RunsAreExclusive == Spec => []OneRunPerJob
<1>1. Init => OneRunPerJob
  BY IdleType DEF Init, OneRunPerJob
<1>. QED
  BY <1>1, TypeInvInductive, ExclusiveInductive, PTL DEF Spec

-----------------------------------------------------------------------------
(* What a step can do to a row of scheduled_jobs                           *)

\* The new row of j, when a step reschedules it: an expression gets a deadline,
\* only a chain-only job goes dormant.
NewDeadline(j, n) == n \in Nat /\ (job[j].spec.cron # {} => n > 0)

\* Everything that may happen to the row of j in one step.
RowStep(j) ==
  \/ job'[j] = job[j]
  \/ /\ job[j].st = "new" /\ job'[j].st = "promoting"
     /\ job'[j].attempts = 0
     /\ job'[j].spec.cron # {} => job'[j].next > 0
  \/ /\ job[j].st = "promoting" /\ j \in snapshots'
     /\ job'[j] = [job[j] EXCEPT !.st = "live"]
  \/ job'[j] = [job[j] EXCEPT !.st = "gone"]
  \/ job'[j] = [job[j] EXCEPT !.paused = TRUE]
  \/ \E n \in Nat : /\ Live(j) /\ NewDeadline(j, n)
                    /\ \/ job'[j] = [job[j] EXCEPT !.paused = FALSE,
                                       !.attempts = 0, !.next = n]
                       \/ job'[j] = [job[j] EXCEPT !.next = n, !.attempts = 0]
  \/ \E n \in Nat \ {0} : /\ Live(j)
                          /\ job[j].attempts + 1 < job[j].spec.max
                          /\ job'[j] = [job[j] EXCEPT !.next = n,
                                          !.attempts = job[j].attempts + 1]

LEMMA RowSteps ==
  ASSUME TypeInv, [Next]_vars
  PROVE  \A j \in Jobs : RowStep(j)
<1>0. /\ job \in [Jobs -> RowType] /\ now \in Nat
      /\ \A j \in Jobs : job[j] \in RowType /\ job[j].spec.cron \in SUBSET Nat
  BY DEF TypeInv, TypeOK, RowType, SpecType
<1>. DEFINE Goal == \A j \in Jobs : RowStep(j)
<1>1. ASSUME NEW j \in Jobs, RowStep(j), NEW row, job' = [job EXCEPT ![j] = row]
      PROVE  Goal
  <2>1. \A k \in Jobs \ {j} : job'[k] = job[k]
    BY <1>0, <1>1
  <2>. QED
    BY <1>1, <2>1, ZenonT(60) DEF RowStep
<1>2. ASSUME UNCHANGED job
      PROVE  Goal
  BY <1>2 DEF RowStep
<1>. HIDE DEF Goal
<1>3. ASSUME NEW j \in Jobs, NEW s \in JobSpecs, CreateJob(j, s)
      PROVE  Goal
  <2>. DEFINE row == [st |-> "promoting", spec |-> s, paused |-> FALSE,
                      attempts |-> 0,
                      next |-> IF s.cron = {} THEN 0 ELSE NextOccurrence(s.cron, now)]
  <2>1. s.cron \in SUBSET Nat
    BY SchedulerAssumption DEF SpecType
  <2>2. s.cron # {} => NextOccurrence(s.cron, now) > 0
    BY <1>0, <1>3, <2>1, NextOccurrenceFuture DEF CreateJob
  <2>3. job' = [job EXCEPT ![j] = row] /\ job[j].st = "new"
    BY <1>3 DEF CreateJob
  <2>4. job'[j] = row
    BY <1>0, <2>3
  <2>5. /\ job'[j].st = "promoting" /\ job'[j].attempts = 0
        /\ job'[j].spec.cron # {} => job'[j].next > 0
    BY <2>2, <2>4
  <2>6. RowStep(j)
    BY <2>3, <2>5 DEF RowStep
  <2>. HIDE DEF row
  <2>. QED
    BY <1>1, <2>3, <2>6
<1>4. ASSUME NEW j \in Jobs, InsertJob(j)
      PROVE  Goal
  <2>1. job' = [job EXCEPT ![j] = [job[j] EXCEPT !.st = "live"]]
    BY <1>0, <1>4 DEF InsertJob
  <2>2. job[j].st = "promoting" /\ j \in snapshots'
    BY <1>4 DEF InsertJob
  <2>3. RowStep(j)
    BY <1>0, <2>1, <2>2 DEF RowStep
  <2>. QED
    BY <1>1, <2>1, <2>3
<1>5. ASSUME NEW j \in Jobs, job' = [job EXCEPT ![j].st = "gone"]
      PROVE  Goal
  <2>1. job' = [job EXCEPT ![j] = [job[j] EXCEPT !.st = "gone"]]
    BY <1>0, <1>5
  <2>2. RowStep(j)
    BY <1>0, <2>1 DEF RowStep
  <2>. QED
    BY <1>1, <2>1, <2>2
<1>6. ASSUME NEW j \in Jobs, PauseJob(j)
      PROVE  Goal
  <2>1. job' = [job EXCEPT ![j] = [job[j] EXCEPT !.paused = TRUE]]
    BY <1>0, <1>6 DEF PauseJob
  <2>2. RowStep(j)
    BY <1>0, <2>1 DEF RowStep
  <2>. QED
    BY <1>1, <2>1, <2>2
<1>7. ASSUME NEW j \in Jobs, ResumeJob(j)
      PROVE  Goal
  <2>. DEFINE n == RescheduleFromCron(job[j].spec.cron, now).next
  <2>1. n \in Nat /\ NewDeadline(j, n)
    BY <1>0, <1>7, RescheduleProperties DEF ResumeJob, NewDeadline
  <2>2. Live(j) /\ job' = [job EXCEPT ![j].paused = FALSE, ![j].attempts = 0,
                                      ![j].next = n]
    BY <1>7 DEF ResumeJob
  <2>. HIDE DEF n
  <2>3. job' = [job EXCEPT ![j] = [job[j] EXCEPT !.paused = FALSE,
                                     !.attempts = 0, !.next = n]]
    BY <1>0, <2>2
  <2>4. job'[j] = [job[j] EXCEPT !.paused = FALSE, !.attempts = 0, !.next = n]
    BY <1>0, <2>3
  <2>5. RowStep(j)
    BY <2>1, <2>2, <2>4 DEF RowStep
  <2>. QED
    BY <1>1, <2>3, <2>5
<1>8. ASSUME NEW j \in Jobs, LoopBusy(j)
      PROVE  Goal
  <2>. DEFINE r == RescheduleFromCron(job[j].spec.cron, now)
              n == r.next
  <2>1. r.tag # "exhausted"
    BY <1>8 DEF LoopBusy
  <2>2. n \in Nat /\ NewDeadline(j, n)
    <3>1. /\ r.tag \in {"dormant", "exhausted", "cron"} /\ r.next \in Nat
          /\ r.tag = "cron" => r.next > now
          /\ r.tag = "dormant" => job[j].spec.cron = {}
      BY <1>0, RescheduleProperties
    <3>. HIDE DEF r
    <3>. QED
      BY <1>0, <2>1, <3>1 DEF NewDeadline
  <2>3. Live(j)
    BY <1>8 DEF LoopBusy, StillDispatchable, DueRow, ActiveRow, Live
  <2>4. job' = [job EXCEPT ![j] = [job[j] EXCEPT !.next = n, !.attempts = 0]]
    BY <1>8 DEF LoopBusy, BusySkipped
  <2>. HIDE DEF n, r
  <2>5. job'[j] = [job[j] EXCEPT !.next = n, !.attempts = 0]
    BY <1>0, <2>4
  <2>6. RowStep(j)
    BY <2>2, <2>3, <2>5 DEF RowStep
  <2>. QED
    BY <1>1, <2>4, <2>6
<1>9. ASSUME NEW t \in Threads, PostRunRetry(t)
      PROVE  Goal
  <2>. DEFINE j == act[t].job
              n == now + job[j].spec.backoff
  <2>1. j \in Jobs
    BY <1>9 DEF PostRunRetry, RunPCs, TypeInv, CallShape
  <2>2. n \in Nat \ {0}
    BY <1>0, <2>1 DEF RowType, SpecType
  <2>3. Live(j) /\ job[j].attempts + 1 < job[j].spec.max
    BY <1>9 DEF PostRunRetry, WillRetry, Retries
  <2>4. job' = [job EXCEPT ![j].attempts = job[j].attempts + 1, ![j].next = n]
    BY <1>0, <2>1, <1>9 DEF PostRunRetry
  <2>. HIDE DEF j, n
  <2>5. job' = [job EXCEPT ![j] = [job[j] EXCEPT !.next = n,
                                     !.attempts = job[j].attempts + 1]]
    BY <1>0, <2>1, <2>4 DEF RowType
  <2>6. job'[j] = [job[j] EXCEPT !.next = n, !.attempts = job[j].attempts + 1]
    BY <1>0, <2>1, <2>5
  <2>7. RowStep(j)
    BY <2>2, <2>3, <2>6 DEF RowStep
  <2>. QED
    BY <1>1, <2>1, <2>5, <2>7
<1>10. ASSUME NEW t \in Threads, PostRunFinal(t)
       PROVE  Goal
  <2>. DEFINE j == act[t].job
              r == Reschedule(act[t].origin, job[j].spec.cron, now)
              n == r.next
  <2>1. j \in Jobs
    BY <1>10 DEF PostRunFinal, RunPCs, TypeInv, CallShape
  <2>2. Live(j) /\ job' = [job EXCEPT ![j] = Finalized(job[j], r)]
    BY <1>10 DEF PostRunFinal
  <2>3. r.tag \in {"cron", "dormant"} => n \in Nat /\ NewDeadline(j, n)
    <3>1. CASE act[t].origin = "manual"
      BY <3>1 DEF Reschedule
    <3>2. CASE act[t].origin # "manual"
      <4>. DEFINE q == RescheduleFromCron(job[j].spec.cron, now)
      <4>1. /\ q.next \in Nat
            /\ q.tag = "cron" => q.next > now
            /\ q.tag = "dormant" => job[j].spec.cron = {}
        BY <1>0, <2>1, RescheduleProperties
      <4>2. r = q
        BY <3>2 DEF Reschedule
      <4>. HIDE DEF q, r, j
      <4>. QED
        BY <1>0, <4>1, <4>2 DEF NewDeadline
    <3>. QED
      BY <3>1, <3>2
  <2>. HIDE DEF j, n
  <2>4. CASE r.tag \in {"cron", "dormant"}
    <3>1. job'[j] = [job[j] EXCEPT !.next = n, !.attempts = 0]
      BY <1>0, <2>1, <2>2, <2>4 DEF Finalized, n
    <3>2. RowStep(j)
      BY <2>2, <2>3, <2>4, <3>1 DEF RowStep
    <3>. QED
      BY <1>1, <2>1, <2>2, <3>2
  <2>5. CASE r.tag \notin {"cron", "dormant"}
    <3>1. job'[j] = job[j]
      BY <1>0, <2>1, <2>2, <2>5 DEF Finalized
    <3>2. RowStep(j)
      BY <3>1, SMTT(30) DEF RowStep
    <3>. QED
      BY <1>1, <2>1, <2>2, <3>2
  <2>. QED
    BY <2>4, <2>5
<1>11. ASSUME Reset \/ ReapWipes \/ Evict
       PROVE  Goal
  BY <1>0, <1>11 DEF Reset, ReapWipes, WipeStorage, Evict, Goal, RowStep
<1>12. ASSUME NEW t \in Threads, NotifiedExhausted(t)
       PROVE  Goal
  <2>1. act[t].job \in Jobs
    BY <1>12 DEF NotifiedExhausted, RunPCs, TypeInv, CallShape
  <2>. QED
    BY <1>5, <1>12, <2>1 DEF NotifiedExhausted
<1>13. ASSUME NEW t \in Threads, RunStep(t)
       PROVE  Goal
  <2>1. CASE \/ SnapshotFetched(t) \/ RunRecorded(t) \/ PostRunGone(t)
             \/ Notified(t) \/ Reclaimed(t)
    BY <1>2, <2>1 DEF SnapshotFetched, RunRecorded, PostRunGone, Notified,
                      Reclaimed
  <2>. QED
    BY <1>9, <1>10, <1>12, <1>13, <2>1 DEF RunStep
<1>14. ASSUME AlarmStep
       PROVE  Goal
  <2>1. ASSUME NEW j \in Jobs, LoopSkips(j) \/ LoopRuns(j)
        PROVE  Goal
    BY <1>2, <2>1 DEF LoopSkips, LoopRuns
  <2>2. ASSUME NEW j \in Jobs, LoopBusyExhausted(j)
        PROVE  Goal
    BY <1>5, <2>2 DEF LoopBusyExhausted
  <2>3. CASE AlarmFires \/ AlarmRearms \/ AlarmReaps \/ BusyReclaimed \/ LoopEnds
    BY <1>2, <2>3 DEF AlarmFires, AlarmRearms, AlarmReaps, BusyReclaimed, LoopEnds
  <2>. QED
    BY <1>8, <1>11, <1>14, <2>1, <2>2, <2>3 DEF AlarmStep
<1>15. ASSUME ClientStep
       PROVE  Goal
  <2>1. ASSUME NEW j \in Jobs, PromoteFails(j) \/ DeleteJob(j)
        PROVE  Goal
    BY <1>5, <2>1 DEF PromoteFails, DeleteJob
  <2>2. ASSUME NEW j \in Jobs, NEW c \in Callers,
               RunNow(c, j) \/ RunNowRefused(c, j)
        PROVE  Goal
    BY <1>2, <2>2 DEF RunNow, RunNowRefused
  <2>3. ASSUME NEW j \in Jobs, FinishDelete(j)
        PROVE  Goal
    BY <1>2, <2>3 DEF FinishDelete
  <2>4. ASSUME UserActivity
        PROVE  Goal
    BY <1>2, <2>4 DEF UserActivity
  <2>. QED
    BY <1>3, <1>4, <1>6, <1>7, <1>11, <1>15, <2>1, <2>2, <2>3, <2>4 DEF ClientStep
<1>16. ASSUME ClockTicks \/ UNCHANGED vars
       PROVE  Goal
  BY <1>2, <1>16 DEF ClockTicks, vars
<1>17. Goal
  BY <1>11, <1>13, <1>14, <1>15, <1>16, SMTT(30) DEF Next
<1>. QED
  BY <1>17 DEF Goal

\* A job with a cron expression always has a deadline: only a chain-only job is
\* ever dormant.
CronHasDeadline ==
  \A j \in Jobs : job[j].spec.cron # {} /\ job[j].st \in {"promoting", "live"}
                    => job[j].next > 0

\* A row that is being created has not been retried.
CreatedWithoutAttempts ==
  \A j \in Jobs : job[j].st = "promoting" => job[j].attempts = 0

RowInv == CronHasDeadline /\ CreatedWithoutAttempts /\ PendingRetryHasDeadline

LEMMA RowInvInductive ==
  ASSUME TypeInv, RowInv, [Next]_vars
  PROVE  RowInv'
<1>. DEFINE Kept(j) ==
              /\ job'[j].spec.cron # {} /\ job'[j].st \in {"promoting", "live"}
                   => job'[j].next > 0
              /\ job'[j].st = "promoting" => job'[j].attempts = 0
              /\ job'[j].st = "live" /\ job'[j].attempts > 0 =>
                   /\ job'[j].next > 0
                   /\ job'[j].attempts < job'[j].spec.max
<1>. SUFFICES ASSUME NEW j \in Jobs
              PROVE  Kept(j)
  BY DEF RowInv, CronHasDeadline, CreatedWithoutAttempts,
         PendingRetryHasDeadline, Live
<1>1. job[j] \in RowType
  BY DEF TypeInv, TypeOK
<1>2. /\ job[j].spec.cron # {} /\ job[j].st \in {"promoting", "live"}
           => job[j].next > 0
      /\ job[j].st = "promoting" => job[j].attempts = 0
      /\ job[j].st = "live" /\ job[j].attempts > 0 =>
           /\ job[j].next > 0
           /\ job[j].attempts < job[j].spec.max
  BY DEF RowInv, CronHasDeadline, CreatedWithoutAttempts,
         PendingRetryHasDeadline, Live
<1>3. RowStep(j)
  BY RowSteps
<1>. HIDE DEF Kept
<1>4. CASE job'[j] = job[j]
  BY <1>2, <1>4 DEF Kept
<1>5. CASE /\ job'[j].st = "promoting" /\ job'[j].attempts = 0
           /\ job'[j].spec.cron # {} => job'[j].next > 0
  BY <1>5 DEF Kept
<1>6. CASE /\ job[j].st = "promoting"
           /\ job'[j] = [job[j] EXCEPT !.st = "live"]
  BY <1>1, <1>2, <1>6 DEF RowType, Kept
<1>7. CASE job'[j] = [job[j] EXCEPT !.st = "gone"]
  BY <1>1, <1>7 DEF RowType, Kept
<1>8. CASE job'[j] = [job[j] EXCEPT !.paused = TRUE]
  BY <1>1, <1>2, <1>8 DEF RowType, Kept
<1>9. ASSUME NEW n \in Nat, Live(j), NewDeadline(j, n),
             \/ job'[j] = [job[j] EXCEPT !.paused = FALSE, !.attempts = 0, !.next = n]
             \/ job'[j] = [job[j] EXCEPT !.next = n, !.attempts = 0]
      PROVE  Kept(j)
  <2>1. job'[j].attempts = 0 /\ job'[j].next = n /\ job'[j].spec = job[j].spec
    BY <1>1, <1>9 DEF RowType
  <2>. QED
    BY <1>9, <2>1 DEF NewDeadline, Kept
<1>10. ASSUME NEW n \in Nat \ {0}, Live(j),
              job[j].attempts + 1 < job[j].spec.max,
              job'[j] = [job[j] EXCEPT !.next = n,
                           !.attempts = job[j].attempts + 1]
       PROVE  Kept(j)
  <2>1. /\ job'[j].st = "live" /\ job'[j].next > 0
        /\ job'[j].attempts < job'[j].spec.max
    BY <1>1, <1>10 DEF RowType, Live
  <2>. QED
    BY <2>1 DEF Kept
<1>. QED
  BY <1>3, <1>4, <1>5, <1>6, <1>7, <1>8, <1>9, <1>10, ZenonT(60) DEF RowStep

\* A retry cycle is pending only with a deadline to fire it and tries left: no
\* final decision, busy-skip or resume takes the deadline away and leaves the
\* attempts (decideAfterRun and its callers in #runScheduledJob).
THEOREM RetriesHaveDeadlines == Spec => []PendingRetryHasDeadline
<1>1. Init => RowInv
  BY DEF Init, RowInv, CronHasDeadline, CreatedWithoutAttempts,
         PendingRetryHasDeadline, Live, NoRow, Blank
<1>2. TypeInv /\ RowInv /\ [Next]_vars => RowInv'
  BY RowInvInductive
<1>3. RowInv => PendingRetryHasDeadline
  BY DEF RowInv
<1>. QED
  BY <1>1, <1>2, <1>3, TypeInvInductive, PTL DEF Spec

-----------------------------------------------------------------------------
(* No job waits for an alarm nobody set                                    *)

\* Where a step re-arms, the alarm covers every job that could fire.
LEMMA RearmCovers ==
  ASSUME TypeInv', Rearm
  PROVE  AlarmNeverLost'
<1>1. job' \in [Jobs -> RowType] /\ reapAt' \in Deadline
  BY DEF TypeInv, TypeOK
<1>2. \A j \in Jobs : ActiveRow(job'[j]) => alarm' \in Nat
  BY <1>1, RearmedProperties DEF Rearm
<1>. QED
  BY <1>2 DEF AlarmNeverLost, Undefined

\* Where it does not, no job may become able to fire, nor alarm() end.
LEMMA NothingToRearm ==
  ASSUME AlarmNeverLost, UNCHANGED alarm,
         act'[Alarm].pc = "idle" => act[Alarm].pc = "idle",
         \A j \in Jobs : ActiveRow(job'[j]) => ActiveRow(job[j])
  PROVE  AlarmNeverLost'
BY DEF AlarmNeverLost

\* While alarm() runs there is nothing to show: it re-arms when it ends.
LEMMA AlarmStillRuns ==
  ASSUME act'[Alarm].pc # "idle"
  PROVE  AlarmNeverLost'
BY DEF AlarmNeverLost

\* Wiped or withdrawn rows do not fire.
LEMMA GoneRows ==
  ASSUME TypeInv, NEW j \in Jobs, job' = [job EXCEPT ![j].st = "gone"]
  PROVE  \A k \in Jobs : ActiveRow(job'[k]) => ActiveRow(job[k])
BY DEF TypeInv, TypeOK, RowType, ActiveRow

LEMMA WipedRows ==
  ASSUME TypeInv, WipeStorage
  PROVE  \A k \in Jobs : ~ActiveRow(job'[k])
BY DEF TypeInv, TypeOK, RowType, ActiveRow, WipeStorage, Live

\* A final decision reschedules a job that already had a deadline.
LEMMA FinalKeepsActive ==
  ASSUME TypeInv, CronHasDeadline, NEW t \in Threads, PostRunFinal(t)
  PROVE  \A k \in Jobs : ActiveRow(job'[k]) => ActiveRow(job[k])
<1>. DEFINE j == act[t].job
            r == Reschedule(act[t].origin, job[j].spec.cron, now)
<1>1. j \in Jobs /\ job[j] \in RowType /\ Live(j)
  BY DEF PostRunFinal, RunPCs, TypeInv, TypeOK, CallShape
<1>2. r.tag = "dormant" => r.next = 0
  BY DEF Reschedule, RescheduleFromCron
<1>3. r.tag = "cron" => job[j].spec.cron # {}
  BY DEF Reschedule, RescheduleFromCron
<1>4. job' = [job EXCEPT ![j] = Finalized(job[j], r)]
  BY DEF PostRunFinal
<1>. HIDE DEF j, r
<1>5. ActiveRow(Finalized(job[j], r)) => ActiveRow(job[j])
  BY <1>1, <1>2, <1>3
     DEF ActiveRow, Finalized, RowType, CronHasDeadline, Live
<1>. QED
  BY <1>1, <1>4, <1>5 DEF TypeInv, TypeOK

LEMMA AlarmClientStep ==
  ASSUME TypeInv, TypeInv', AlarmNeverLost, ClientStep
  PROVE  AlarmNeverLost'
<1>0. Alarm \in Threads /\ Callers \subseteq Threads /\ Alarm \notin Callers
  BY SchedulerAssumption DEF Threads
<1>1. ASSUME NEW j \in Jobs, NEW s \in JobSpecs, CreateJob(j, s)
      PROVE  AlarmNeverLost'
  BY <1>1, NothingToRearm DEF CreateJob, ActiveRow, TypeInv, TypeOK
<1>2. ASSUME NEW j \in Jobs,
             InsertJob(j) \/ PauseJob(j) \/ ResumeJob(j) \/ FinishDelete(j)
      PROVE  AlarmNeverLost'
  BY <1>2, RearmCovers DEF InsertJob, PauseJob, ResumeJob, FinishDelete,
                           TouchActivity
<1>3. ASSUME NEW j \in Jobs, PromoteFails(j) \/ DeleteJob(j)
      PROVE  AlarmNeverLost'
  BY <1>3, GoneRows, NothingToRearm DEF PromoteFails, DeleteJob
<1>4. ASSUME NEW j \in Jobs, NEW c \in Callers, RunNow(c, j)
      PROVE  AlarmNeverLost'
  <2>1. act'[Alarm] = act[Alarm]
    BY <1>0, <1>4 DEF RunNow, StartRun, TypeInv, TypeOK
  <2>. QED
    BY <1>4, <2>1, NothingToRearm DEF RunNow
<1>5. ASSUME NEW j \in Jobs, NEW c \in Callers, RunNowRefused(c, j)
      PROVE  AlarmNeverLost'
  BY <1>5, NothingToRearm DEF RunNowRefused
<1>6. ASSUME UserActivity
      PROVE  AlarmNeverLost'
  BY <1>6, RearmCovers DEF UserActivity, TouchActivity
<1>7. ASSUME Reset
      PROVE  AlarmNeverLost'
  BY <1>7, WipedRows DEF Reset, AlarmNeverLost
<1>. QED
  BY <1>1, <1>2, <1>3, <1>4, <1>5, <1>6, <1>7 DEF ClientStep

LEMMA AlarmAlarmStep ==
  ASSUME TypeInv, TypeInv', AlarmNeverLost, AlarmStep
  PROVE  AlarmNeverLost'
<1>0. Alarm \in Threads
  BY DEF Threads
<1>1. CASE AlarmRearms \/ LoopEnds
  BY <1>1, RearmCovers DEF AlarmRearms, LoopEnds
<1>2. CASE ReapWipes
  BY <1>2, WipedRows DEF ReapWipes, AlarmNeverLost
<1>3. CASE AlarmFires \/ AlarmReaps \/ BusyReclaimed
  <2>1. act'[Alarm].pc \in {"loop", "closing"}
    BY <1>0, <1>3
       DEF AlarmFires, AlarmReaps, BusyReclaimed, Idle, TypeInv, TypeOK, ActType
  <2>. QED
    BY <2>1, AlarmStillRuns
<1>4. ASSUME NEW j \in Jobs, LoopSkips(j) \/ LoopBusy(j)
      PROVE  AlarmNeverLost'
  <2>1. act'[Alarm].pc = "loop"
    BY <1>4 DEF LoopSkips, LoopBusy, LoopAt
  <2>. QED
    BY <2>1, AlarmStillRuns
<1>5. ASSUME NEW j \in Jobs, LoopRuns(j) \/ LoopBusyExhausted(j)
      PROVE  AlarmNeverLost'
  <2>0. act \in [Threads -> ActType]
    BY DEF TypeInv, TypeOK
  <2>1. LoopRuns(j) => act'[Alarm].pc = "fetch"
    BY <1>0, <2>0 DEF LoopRuns, StartRun, Idle
  <2>2. LoopBusyExhausted(j) => act'[Alarm].pc = "busyReclaim"
    BY <1>0, <2>0 DEF LoopBusyExhausted, ActType
  <2>. QED
    BY <1>5, <2>1, <2>2, AlarmStillRuns
<1>. QED
  BY <1>1, <1>2, <1>3, <1>4, <1>5 DEF AlarmStep

\* A call that is not idle stays so unless it returns, and alarm() returns from
\* a run to its loop.
LEMMA AlarmRunStep ==
  ASSUME TypeInv, TypeInv', CronHasDeadline, AlarmNeverLost,
         NEW t \in Threads, RunStep(t)
  PROVE  AlarmNeverLost'
<1>0. Alarm \in Threads /\ act \in [Threads -> ActType]
  BY SMTT(30) DEF Threads, TypeInv, TypeOK
<1>1. act[t].pc \in RunPCs /\ "idle" \notin RunPCs
  BY DEF RunStep, SnapshotFetched, RunRecorded, PostRunGone, PostRunRetry,
         PostRunFinal, NotifiedExhausted, Notified, Reclaimed, RunPCs
<1>2. ASSUME Return(t, TRUE) \/ (Return(t, FALSE) /\ UNCHANGED job)
      PROVE  AlarmNeverLost'
  <2>1. CASE t = Alarm
    <3>1. act'[Alarm].pc = "loop"
      BY <1>0, <1>2, <2>1 DEF Return, Idle
    <3>. QED
      BY <3>1, AlarmStillRuns
  <2>2. CASE Rearm
    BY <2>2, RearmCovers
  <2>3. CASE t # Alarm /\ ~Rearm
    <3>1. act'[Alarm] = act[Alarm] /\ UNCHANGED alarm
      BY <1>0, <1>2, <2>3 DEF Return
    <3>2. UNCHANGED job
      BY <1>2, <2>3 DEF Return, RearmsOnReturn
    <3>. QED
      BY <3>1, <3>2, NothingToRearm
  <2>. QED
    BY <2>1, <2>2, <2>3
<1>3. ASSUME UNCHANGED alarm, act'[Alarm].pc = "idle" => act[Alarm].pc = "idle",
             \A k \in Jobs : ActiveRow(job'[k]) => ActiveRow(job[k])
      PROVE  AlarmNeverLost'
  BY <1>3, NothingToRearm
<1>4. CASE SnapshotFetched(t) \/ RunRecorded(t)
  BY <1>0, <1>1, <1>3, <1>4 DEF SnapshotFetched, RunRecorded, ActType
<1>5. CASE PostRunFinal(t)
  <2>1. act'[Alarm].pc = "idle" => act[Alarm].pc = "idle"
    BY <1>0, <1>5 DEF PostRunFinal, ActType
  <2>2. \A k \in Jobs : ActiveRow(job'[k]) => ActiveRow(job[k])
    BY <1>5, FinalKeepsActive
  <2>. QED
    BY <1>3, <1>5, <2>1, <2>2 DEF PostRunFinal
<1>6. CASE NotifiedExhausted(t)
  <2>1. act'[Alarm].pc = "idle" => act[Alarm].pc = "idle"
    BY <1>0, <1>6 DEF NotifiedExhausted, ActType
  <2>2. \A k \in Jobs : ActiveRow(job'[k]) => ActiveRow(job[k])
    BY <1>1, <1>6, GoneRows DEF NotifiedExhausted, TypeInv, CallShape
  <2>. QED
    BY <1>3, <1>6, <2>1, <2>2 DEF NotifiedExhausted
<1>7. CASE Notified(t) \/ Reclaimed(t)
  <2>1. CASE Return(t, TRUE)
    BY <1>2, <2>1
  <2>2. CASE ~Return(t, TRUE)
    <3>1. PICK k, base, held :
            StartRun(t, k, "chain", base, held) /\ UNCHANGED alarm
      BY <1>7, <2>2 DEF Notified, Reclaimed, Chain
    <3>2. act'[Alarm].pc = "idle" => act[Alarm].pc = "idle"
      BY <1>0, <3>1 DEF StartRun, Idle
    <3>. QED
      BY <1>3, <1>7, <3>1, <3>2 DEF Notified, Reclaimed
  <2>. QED
    BY <2>1, <2>2
<1>8. CASE PostRunGone(t) \/ PostRunRetry(t)
  BY <1>2, <1>8 DEF PostRunGone, PostRunRetry
<1>. QED
  BY <1>4, <1>5, <1>6, <1>7, <1>8 DEF RunStep

LEMMA AlarmEvict ==
  ASSUME TypeInv, AlarmNeverLost, Evict
  PROVE  AlarmNeverLost'
<1>1. \A k \in Jobs : ActiveRow(job'[k]) => ActiveRow(job[k])
  BY DEF Evict, ActiveRow, TypeInv, TypeOK, RowType
<1>2. act[Alarm].pc # "idle" => alarm' # Undefined
  BY DEF Evict, Undefined
<1>3. act[Alarm].pc = "idle" => UNCHANGED alarm
  BY DEF Evict
<1>. QED
  BY <1>1, <1>2, <1>3 DEF AlarmNeverLost

\* Whenever alarm() is not running and some job is neither paused nor dormant,
\* an alarm is set.  The invariant needs CronHasDeadline: the final decision of
\* a run gives the job a new deadline and only re-arms awaits later, which is
\* harmless because a job with an expression had a deadline before.
THEOREM AlarmIsNeverLost == Spec => []AlarmNeverLost
<1>. DEFINE AlarmInv == RowInv /\ AlarmNeverLost
<1>1. Init => AlarmInv
  BY DEF Init, RowInv, CronHasDeadline, CreatedWithoutAttempts, ActiveRow,
         PendingRetryHasDeadline, Live, NoRow, Blank, AlarmNeverLost
<1>2. TypeInv /\ TypeInv' /\ AlarmInv /\ [Next]_vars => AlarmInv'
  <2>. SUFFICES ASSUME TypeInv, TypeInv', RowInv, AlarmNeverLost, [Next]_vars
                PROVE  AlarmNeverLost'
    BY RowInvInductive
  <2>1. CronHasDeadline
    BY DEF RowInv
  <2>2. CASE ClockTicks \/ UNCHANGED vars
    BY <2>2 DEF ClockTicks, vars, AlarmNeverLost
  <2>. QED
    BY <2>1, <2>2, AlarmClientStep, AlarmAlarmStep, AlarmRunStep, AlarmEvict
       DEF Next
<1>3. AlarmInv => AlarmNeverLost
  OBVIOUS
<1>. HIDE DEF AlarmInv
<1>. QED
  BY <1>1, <1>2, <1>3, TypeInvInductive, PTL DEF Spec

-----------------------------------------------------------------------------
(* No live job loses its workspace                                         *)

\* A call is on its way to reclaim the snapshot of j.
Reclaiming(j) ==
  \/ j \in deletes
  \/ \E t \in Threads : act[t].pc = "reclaim" /\ act[t].job = j
  \/ act[Alarm].pc = "busyReclaim" /\ act[Alarm].base = j

OnlyGoneReclaimed == \A j \in Jobs : Reclaiming(j) => job[j].st = "gone"

\* A step removes a snapshot only on behalf of a call that was reclaiming it,
\* and a call starts to reclaim in the step that deletes the row.
ReclaimStep(j) ==
  /\ j \in snapshots => j \in snapshots' \/ Reclaiming(j)
  /\ Reclaiming(j)' => Reclaiming(j) \/ job'[j].st = "gone"

\* Calls that are not reclaiming after the step, or already were.
LEMMA NoNewReclaim ==
  ASSUME NEW j \in Jobs, deletes' \subseteq deletes,
         \A t \in Threads : act'[t] = act[t]
                              \/ act'[t].pc \notin {"reclaim", "busyReclaim"}
  PROVE  Reclaiming(j)' => Reclaiming(j)
BY DEF Reclaiming, Threads

LEMMA ReclaimSteps ==
  ASSUME TypeInv, [Next]_vars, NEW j \in Jobs
  PROVE  ReclaimStep(j)
<1>0. /\ act \in [Threads -> ActType] /\ job \in [Jobs -> RowType]
      /\ Alarm \in Threads /\ Callers \subseteq Threads
  BY DEF TypeInv, TypeOK, Threads
<1>1. ASSUME snapshots \subseteq snapshots', deletes' \subseteq deletes,
             \A t \in Threads : act'[t] = act[t]
                                  \/ act'[t].pc \notin {"reclaim", "busyReclaim"}
      PROVE  ReclaimStep(j)
  BY <1>1, NoNewReclaim DEF ReclaimStep
<1>. DEFINE Moves(t, pcs) == /\ \A u \in Threads \ {t} : act'[u] = act[u]
                             /\ act'[t].pc \in pcs
            Quiet == {"fetch", "exec", "destroy", "notify", "loop", "closing", "idle"}
<1>2. ASSUME NEW t \in Threads, Moves(t, Quiet)
      PROVE  \A u \in Threads : act'[u] = act[u]
                                  \/ act'[u].pc \notin {"reclaim", "busyReclaim"}
  BY <1>2
<1>3. ASSUME ClientStep
      PROVE  ReclaimStep(j)
  <2>1. ASSUME NEW k \in Jobs, DeleteJob(k)
        PROVE  ReclaimStep(j)
    BY <1>0, <2>1 DEF DeleteJob, ReclaimStep, Reclaiming
  <2>2. ASSUME NEW k \in Jobs, FinishDelete(k)
        PROVE  ReclaimStep(j)
    BY <2>2 DEF FinishDelete, ReclaimStep, Reclaiming
  <2>3. ASSUME NEW k \in Jobs, NEW c \in Callers, RunNow(c, k)
        PROVE  ReclaimStep(j)
    <3>1. Moves(c, Quiet)
      BY <1>0, <2>3 DEF RunNow, StartRun, Idle
    <3>. QED
      BY <1>0, <1>1, <1>2, <2>3, <3>1 DEF RunNow
  <2>4. ASSUME NEW k \in Jobs, NEW c \in Callers, RunNowRefused(c, k)
        PROVE  ReclaimStep(j)
    BY <1>1, <2>4 DEF RunNowRefused
  <2>5. ASSUME NEW k \in Jobs, NEW s \in JobSpecs, CreateJob(k, s)
        PROVE  ReclaimStep(j)
    BY <1>1, <2>5 DEF CreateJob
  <2>6. ASSUME NEW k \in Jobs,
               InsertJob(k) \/ PromoteFails(k) \/ PauseJob(k) \/ ResumeJob(k)
        PROVE  ReclaimStep(j)
    BY <1>1, <2>6 DEF InsertJob, PromoteFails, PauseJob, ResumeJob
  <2>7. ASSUME UserActivity \/ Reset
        PROVE  ReclaimStep(j)
    BY <1>1, <2>7 DEF UserActivity, Reset
  <2>. QED
    BY <1>3, <2>1, <2>2, <2>3, <2>4, <2>5, <2>6, <2>7 DEF ClientStep
<1>4. ASSUME AlarmStep
      PROVE  ReclaimStep(j)
  <2>1. ASSUME NEW k \in Jobs, LoopBusyExhausted(k)
        PROVE  ReclaimStep(j)
    BY <1>0, <2>1 DEF LoopBusyExhausted, ReclaimStep, Reclaiming, ActType
  <2>2. ASSUME BusyReclaimed
        PROVE  ReclaimStep(j)
    <3>1. j \in snapshots => j \in snapshots' \/ Reclaiming(j)
      BY <2>2 DEF BusyReclaimed, Reclaiming
    <3>2. Moves(Alarm, Quiet)
      BY <1>0, <2>2 DEF BusyReclaimed, Idle
    <3>3. Reclaiming(j)' => Reclaiming(j)
      BY <1>0, <1>2, <2>2, <3>2, NoNewReclaim DEF BusyReclaimed
    <3>. QED
      BY <3>1, <3>3 DEF ReclaimStep
  <2>3. ASSUME NEW k \in Jobs, LoopRuns(k)
        PROVE  ReclaimStep(j)
    <3>1. Moves(Alarm, Quiet)
      BY <1>0, <2>3 DEF LoopRuns, StartRun, Idle
    <3>. QED
      BY <1>0, <1>1, <1>2, <2>3, <3>1 DEF LoopRuns
  <2>4. ASSUME NEW k \in Jobs, LoopSkips(k) \/ LoopBusy(k)
        PROVE  ReclaimStep(j)
    BY <1>1, <2>4 DEF LoopSkips, LoopBusy
  <2>5. ASSUME AlarmFires \/ AlarmReaps \/ ReapWipes \/ LoopEnds
        PROVE  ReclaimStep(j)
    <3>1. Moves(Alarm, Quiet)
      BY <1>0, <2>5 DEF AlarmFires, AlarmReaps, ReapWipes, LoopEnds, Idle, ActType
    <3>. QED
      BY <1>0, <1>1, <1>2, <2>5, <3>1
         DEF AlarmFires, AlarmReaps, ReapWipes, LoopEnds
  <2>6. ASSUME AlarmRearms
        PROVE  ReclaimStep(j)
    BY <1>1, <2>6 DEF AlarmRearms
  <2>. QED
    BY <1>4, <2>1, <2>2, <2>3, <2>4, <2>5, <2>6 DEF AlarmStep
<1>5. ASSUME NEW t \in Threads, RunStep(t)
      PROVE  ReclaimStep(j)
  <2>1. ASSUME NotifiedExhausted(t)
        PROVE  ReclaimStep(j)
    <3>1. \A u \in Threads :
            act'[u] = IF u = t THEN [act[t] EXCEPT !.pc = "reclaim"] ELSE act[u]
      BY <1>0, <2>1 DEF NotifiedExhausted
    <3>2. act'[t].pc = "reclaim" /\ act'[t].job = act[t].job
      BY <1>0, <3>1 DEF ActType
    <3>3. j = act[t].job => job'[j].st = "gone"
      BY <1>0, <2>1 DEF NotifiedExhausted
    <3>. QED
      BY <1>0, <2>1, <3>1, <3>2, <3>3 DEF NotifiedExhausted, ReclaimStep, Reclaiming
  <2>2. ASSUME Moves(t, Quiet), UNCHANGED deletes,
               snapshots' \in {snapshots, snapshots \ {act[t].job}},
               snapshots' = snapshots \/ act[t].pc = "reclaim"
        PROVE  ReclaimStep(j)
    <3>1. Reclaiming(j)' => Reclaiming(j)
      BY <1>2, <2>2, NoNewReclaim
    <3>. QED
      BY <2>2, <3>1 DEF ReclaimStep, Reclaiming
  <2>3. ASSUME SnapshotFetched(t) \/ RunRecorded(t) \/ PostRunFinal(t)
        PROVE  ReclaimStep(j)
    <3>1. Moves(t, Quiet)
      <4>1. \A u \in Threads \ {t} : act'[u] = act[u]
        BY <1>0, <2>3 DEF SnapshotFetched, RunRecorded, PostRunFinal
      <4>2. SnapshotFetched(t) => act'[t].pc = "exec"
        BY <1>0 DEF SnapshotFetched, ActType
      <4>3. RunRecorded(t) => act'[t].pc = "destroy"
        BY <1>0 DEF RunRecorded, ActType
      <4>4. PostRunFinal(t) => act'[t].pc = "notify"
        BY <1>0 DEF PostRunFinal, ActType
      <4>. QED
        BY <2>3, <4>1, <4>2, <4>3, <4>4
    <3>. QED
      BY <2>2, <2>3, <3>1 DEF SnapshotFetched, RunRecorded, PostRunFinal
  <2>4. ASSUME Return(t, TRUE) \/ Return(t, FALSE)
        PROVE  Moves(t, Quiet)
    <3>1. CASE t = Alarm
      <4>1. act' = [act EXCEPT ![t] = [Idle EXCEPT !.pc = "loop"]]
        BY <2>4, <3>1 DEF Return
      <4>. QED
        BY <1>0, <4>1 DEF Idle
    <3>2. CASE t # Alarm
      <4>1. act' = [act EXCEPT ![t] = Idle]
        BY <2>4, <3>2 DEF Return
      <4>. QED
        BY <1>0, <4>1 DEF Idle
    <3>. QED
      BY <3>1, <3>2
  <2>5. ASSUME PostRunGone(t) \/ PostRunRetry(t)
        PROVE  ReclaimStep(j)
    BY <2>2, <2>4, <2>5 DEF PostRunGone, PostRunRetry
  <2>6. ASSUME Notified(t) \/ Reclaimed(t)
        PROVE  ReclaimStep(j)
    <3>1. ASSUME NEW k, NEW base, NEW held, StartRun(t, k, "chain", base, held)
          PROVE  Moves(t, Quiet)
      BY <1>0, <3>1 DEF StartRun, Idle
    <3>2. Moves(t, Quiet)
      BY <2>4, <2>6, <3>1 DEF Notified, Reclaimed, Chain
    <3>. QED
      BY <2>2, <2>6, <3>2 DEF Notified, Reclaimed
  <2>. QED
    BY <1>5, <2>1, <2>3, <2>5, <2>6 DEF RunStep
<1>6. ASSUME Evict
      PROVE  ReclaimStep(j)
  BY <1>1, <1>6 DEF Evict, Idle
<1>7. ASSUME ClockTicks \/ UNCHANGED vars
      PROVE  ReclaimStep(j)
  BY <1>1, <1>7 DEF ClockTicks, vars
<1>. QED
  BY <1>3, <1>4, <1>5, <1>6, <1>7 DEF Next

\* Whatever awaits interleave, a snapshot is reclaimed only once its row is gone
\* for good: the strengthening is that every call on its way to reclaim a
\* snapshot (deleteScheduledJob, and both deletions of an exhausted job) has
\* already deleted the row.
THEOREM LiveJobsKeepTheirSnapshot == Spec => []LiveJobHasSnapshot
<1>. DEFINE SnapInv == LiveJobHasSnapshot /\ OnlyGoneReclaimed
<1>1. Init => SnapInv
  BY DEF Init, LiveJobHasSnapshot, OnlyGoneReclaimed, Reclaiming, Live, NoRow,
         Idle, Threads
<1>2. TypeInv /\ SnapInv /\ [Next]_vars => SnapInv'
  <2>. SUFFICES ASSUME TypeInv, SnapInv, [Next]_vars, NEW j \in Jobs
                PROVE  /\ job'[j].st = "live" => j \in snapshots'
                       /\ Reclaiming(j)' => job'[j].st = "gone"
    BY DEF LiveJobHasSnapshot, OnlyGoneReclaimed, Live
  <2>1. /\ job[j].st = "live" => j \in snapshots
        /\ Reclaiming(j) => job[j].st = "gone"
    BY DEF LiveJobHasSnapshot, OnlyGoneReclaimed, Live
  <2>2. ReclaimStep(j)
    BY ReclaimSteps
  <2>3. /\ job[j].st = "gone" => job'[j].st = "gone"
        /\ job'[j].st = "live" => job[j].st = "live" \/ j \in snapshots'
    <3>1. job[j] \in RowType /\ RowStep(j)
      BY RowSteps, SMTT(30) DEF TypeInv, TypeOK
    <3>2. \/ job'[j].st = job[j].st \/ job'[j].st = "gone"
          \/ job[j].st = "new" /\ job'[j].st = "promoting"
          \/ job[j].st = "promoting" /\ j \in snapshots'
      BY <3>1 DEF RowStep, RowType
    <3>. QED
      BY <3>2
  <2>. QED
    BY <2>1, <2>2, <2>3 DEF ReclaimStep
<1>3. SnapInv => LiveJobHasSnapshot
  OBVIOUS
<1>. HIDE DEF SnapInv
<1>. QED
  BY <1>1, <1>2, <1>3, TypeInvInductive, PTL DEF Spec

-----------------------------------------------------------------------------
(* A tick starts a job at most once                                        *)

\* What the batch has started it has also put into alarmBatchRan.
StartsAreRemembered ==
  BatchLive => \A j \in Jobs : starts[j] <= 1 /\ (starts[j] = 1 => j \in alarmBatchRan)

\* A start during a batch is of a job the batch has not run.
LEMMA StartRunOnce ==
  ASSUME TypeInv, StartsAreRemembered, NEW t \in Threads, NEW j \in Jobs,
         NEW o, NEW base, NEW held, j \notin alarmBatchRan,
         t = Alarm => BatchLive,
         StartRun(t, j, o, base, held)
  PROVE  StartsAreRemembered'
<1>1. SUFFICES ASSUME BatchLive', NEW k \in Jobs
               PROVE  starts'[k] <= 1 /\ (starts'[k] = 1 => k \in alarmBatchRan')
  BY DEF StartsAreRemembered
<1>2. BatchLive
  <2>1. CASE t = Alarm
    BY <2>1
  <2>2. CASE t # Alarm
    <3>1. act'[Alarm] = act[Alarm]
      BY <2>2 DEF StartRun, TypeInv, TypeOK, Threads
    <3>. QED
      BY <1>1, <3>1 DEF BatchLive
  <2>. QED
    BY <2>1, <2>2
<1>3. starts \in [Jobs -> Nat]
  BY DEF TypeInv, TypeOK
<1>4. starts[k] <= 1 /\ (starts[k] = 1 => k \in alarmBatchRan)
  BY <1>2 DEF StartsAreRemembered
<1>5. /\ alarmBatchRan' = alarmBatchRan \cup {j}
      /\ starts' = [starts EXCEPT ![j] = starts[j] + 1]
  BY <1>2 DEF StartRun
<1>6. CASE k = j
  <2>1. starts[j] = 0
    BY <1>3, <1>4, <1>6
  <2>. QED
    BY <1>3, <1>5, <1>6, <2>1
<1>7. CASE k # j
  BY <1>3, <1>4, <1>5, <1>7
<1>. QED
  BY <1>6, <1>7

\* A step that starts nothing, forgets nothing and begins no batch.
LEMMA NothingStarted ==
  ASSUME StartsAreRemembered, UNCHANGED <<starts, alarmBatchRan>>,
         BatchLive' => BatchLive
  PROVE  StartsAreRemembered'
BY DEF StartsAreRemembered

\* Outside a batch there is nothing to show.
LEMMA NoBatch ==
  ASSUME act'[Alarm].pc \in {"idle", "closing"}
  PROVE  StartsAreRemembered'
BY DEF StartsAreRemembered, BatchLive

LEMMA StartsInductive ==
  TypeInv /\ StartsAreRemembered /\ [Next]_vars => StartsAreRemembered'
<1>. SUFFICES ASSUME TypeInv, StartsAreRemembered, [Next]_vars
              PROVE  StartsAreRemembered'
  OBVIOUS
<1>0. /\ Alarm \in Threads /\ Callers \subseteq Threads /\ Alarm \notin Callers
      /\ act \in [Threads -> ActType]
  BY SchedulerAssumption DEF Threads, TypeInv, TypeOK
<1>1. ASSUME NEW j \in Jobs, NEW c \in Callers, RunNow(c, j)
      PROVE  StartsAreRemembered'
  BY <1>0, <1>1, StartRunOnce DEF RunNow, Declines
<1>2. CASE \/ \E j \in Jobs :
                \/ \E s \in JobSpecs : CreateJob(j, s)
                \/ InsertJob(j) \/ PromoteFails(j) \/ PauseJob(j)
                \/ ResumeJob(j) \/ DeleteJob(j) \/ FinishDelete(j)
                \/ \E c \in Callers : RunNowRefused(c, j)
           \/ UserActivity \/ Reset \/ ClockTicks
  <2>1. UNCHANGED <<starts, alarmBatchRan, act>>
    BY <1>2, ZenonT(60) DEF CreateJob, InsertJob, PromoteFails, PauseJob, ResumeJob,
         DeleteJob, FinishDelete, RunNowRefused, UserActivity, Reset, ClockTicks
  <2>. QED
    BY <2>1, NothingStarted DEF BatchLive
<1>3. CASE AlarmStep
  <2>1. ASSUME NEW j \in Jobs, LoopRuns(j)
        PROVE  StartsAreRemembered'
    BY <1>0, <2>1, StartRunOnce
       DEF LoopRuns, LoopAt, StillDispatchable, BatchLive
  <2>2. CASE AlarmRearms \/ \E j \in Jobs : LoopSkips(j) \/ LoopBusy(j)
    BY <2>2, NothingStarted DEF AlarmRearms, LoopSkips, LoopBusy, BatchLive
  <2>3. CASE AlarmFires
    BY <2>3 DEF AlarmFires, StartsAreRemembered
  <2>4. CASE AlarmReaps \/ ReapWipes \/ LoopEnds
    <3>1. act'[Alarm].pc \in {"idle", "closing"}
      BY <1>0, <2>4 DEF AlarmReaps, ReapWipes, LoopEnds, Idle, ActType
    <3>. QED
      BY <3>1, NoBatch
  <2>5. CASE BusyReclaimed \/ \E j \in Jobs : LoopBusyExhausted(j)
    BY <2>5, NothingStarted DEF BusyReclaimed, LoopBusyExhausted, LoopAt, BatchLive
  <2>. QED
    BY <1>3, <2>1, <2>2, <2>3, <2>4, <2>5 DEF AlarmStep
<1>4. ASSUME NEW t \in Threads, RunStep(t)
      PROVE  StartsAreRemembered'
  <2>0. act[t].pc \in RunPCs
    BY <1>4
       DEF RunStep, SnapshotFetched, RunRecorded, PostRunGone, PostRunRetry,
           PostRunFinal, NotifiedExhausted, Notified, Reclaimed, RunPCs
  <2>1. t = Alarm => BatchLive
    BY <2>0 DEF RunPCs, BatchLive
  <2>2. ASSUME UNCHANGED <<starts, alarmBatchRan>>,
               \A u \in Threads \ {t} : act'[u] = act[u]
        PROVE  StartsAreRemembered'
    <3>1. BatchLive' => BatchLive
      BY <1>0, <2>1, <2>2 DEF BatchLive
    <3>. QED
      BY <2>2, <3>1, NothingStarted
  <2>3. ASSUME NEW exists, Return(t, exists)
        PROVE  StartsAreRemembered'
    BY <1>0, <2>2, <2>3 DEF Return
  <2>4. CASE SnapshotFetched(t) \/ RunRecorded(t) \/ NotifiedExhausted(t)
             \/ PostRunFinal(t)
    BY <1>0, <2>2, <2>4
       DEF SnapshotFetched, RunRecorded, NotifiedExhausted, PostRunFinal
  <2>5. CASE PostRunGone(t) \/ PostRunRetry(t)
    BY <2>3, <2>5 DEF PostRunGone, PostRunRetry
  <2>6. CASE Notified(t) \/ Reclaimed(t)
    <3>1. Chain(t)
      BY <2>6 DEF Notified, Reclaimed
    <3>2. CASE Return(t, TRUE)
      BY <2>3, <3>2
    <3>3. CASE /\ act[t].target # NoJob
               /\ ~Declines(act[t].target)
               /\ StartRun(t, act[t].target, "chain", act[t].base, act[t].holds)
      <4>1. act[t].target \in Jobs /\ act[t].target \notin alarmBatchRan
        BY <3>3 DEF Declines, TypeInv, TypeOK, ActType
      <4>. QED
        BY <2>1, <3>3, <4>1, StartRunOnce
    <3>. QED
      BY <3>1, <3>2, <3>3 DEF Chain
  <2>. QED
    BY <1>4, <2>4, <2>5, <2>6 DEF RunStep
<1>5. CASE Evict
  <2>1. act'[Alarm].pc = "idle"
    BY <1>0, <1>5 DEF Evict, Idle
  <2>. QED
    BY <2>1, NoBatch
<1>6. CASE UNCHANGED vars
  BY <1>6, NothingStarted DEF vars, BatchLive
<1>. QED
  BY <1>1, <1>2, <1>3, <1>4, <1>5, <1>6 DEF Next, ClientStep

\* One alarm tick starts no job twice, though it is due itself, the target of
\* several chains and asked for by run-now while the batch goes on: every start
\* of the batch is in alarmBatchRan, which all three ways to start a job check.
THEOREM ATickStartsAJobOnce == Spec => []OncePerTick
<1>1. Init => StartsAreRemembered
  BY DEF Init, StartsAreRemembered
<1>2. StartsAreRemembered => OncePerTick
  BY DEF StartsAreRemembered, OncePerTick
<1>. QED
  BY <1>1, <1>2, TypeInvInductive, StartsInductive, PTL DEF Spec

-----------------------------------------------------------------------------
(* A run executes in the workspace of its job                              *)

\* The job of a run in flight had a row when the run started, and a row only
\* ever goes away.
RunsHaveRows ==
  \A t \in Threads :
    act[t].pc \in RunPCs => job[act[t].job].st \in {"live", "gone"}

\* What a step may do to a call: start a run of a live job or keep the one in
\* flight, and execute it with its snapshot unless there is none.
CallStep(t) ==
  /\ act'[t].pc \in RunPCs =>
       \/ act[t].pc \in RunPCs /\ act'[t].job = act[t].job
       \/ act'[t].job \in Jobs /\ Live(act'[t].job)
  /\ act'[t].pc = "exec" =>
       \/ act[t].pc = "exec" /\ act'[t].job = act[t].job
            /\ act'[t].restored = act[t].restored
       \/ /\ act[t].pc = "fetch" /\ act'[t].job = act[t].job
          /\ act'[t].restored \/ act[t].job \notin snapshots
          /\ UNCHANGED job

\* What every step does to the run of every call.
LEMMA CallSteps ==
  ASSUME TypeInv, [Next]_vars, NEW t \in Threads
  PROVE  CallStep(t)
<1>0. /\ Alarm \in Threads /\ Callers \subseteq Threads
      /\ act \in [Threads -> ActType]
  BY DEF Threads, TypeInv, TypeOK
<1>1. ASSUME act'[t] = act[t]
      PROVE  CallStep(t)
  BY <1>1 DEF CallStep
<1>2. ASSUME act'[t].pc \in OtherPCs
      PROVE  CallStep(t)
  BY <1>2 DEF CallStep, RunPCs, OtherPCs
<1>3. ASSUME NEW u \in Threads, NEW k \in Jobs, NEW o, NEW base, NEW held,
             StartRun(u, k, o, base, held), Live(k)
      PROVE  CallStep(t)
  <2>1. CASE u = t
    <3>1. act'[t].pc = "fetch" /\ act'[t].job = k
      BY <1>0, <1>3, <2>1 DEF StartRun, Idle
    <3>. QED
      BY <1>3, <3>1 DEF CallStep
  <2>2. CASE u # t
    BY <1>0, <1>1, <1>3, <2>2 DEF StartRun
  <2>. QED
    BY <2>1, <2>2
<1>4. ASSUME NEW u \in Threads, NEW exists, Return(u, exists)
      PROVE  CallStep(t)
  <2>1. CASE u # t
    <3>1. act'[t] = act[t]
      BY <1>0, <1>4, <2>1 DEF Return
    <3>. QED
      BY <1>1, <3>1
  <2>2. CASE u = t /\ t = Alarm
    <3>1. act' = [act EXCEPT ![t] = [Idle EXCEPT !.pc = "loop"]]
      BY <1>4, <2>2 DEF Return
    <3>2. act'[t].pc = "loop"
      BY <1>0, <3>1 DEF Idle
    <3>. QED
      BY <1>2, <3>2 DEF OtherPCs
  <2>3. CASE u = t /\ t # Alarm
    <3>1. act'[t].pc = "idle"
      BY <1>0, <1>4, <2>3 DEF Return, Idle
    <3>. QED
      BY <1>2, <3>1 DEF OtherPCs
  <2>. QED
    BY <2>1, <2>2, <2>3
<1>5. ASSUME NEW u \in Threads, NEW rec, act' = [act EXCEPT ![u] = rec],
             rec.job = act[u].job, rec.pc # "exec",
             act[u].pc \in RunPCs \/ rec.pc \in OtherPCs
      PROVE  CallStep(t)
  <2>1. CASE u # t
    BY <1>0, <1>1, <1>5, <2>1
  <2>2. CASE u = t
    <3>1. act'[t] = rec
      BY <1>0, <1>5, <2>2
    <3>. QED
      BY <1>5, <2>2, <3>1 DEF CallStep, RunPCs, OtherPCs
  <2>. QED
    BY <2>1, <2>2
<1>6. CASE ClientStep
  <2>1. ASSUME NEW j \in Jobs, NEW c \in Callers, RunNow(c, j)
        PROVE  CallStep(t)
    BY <1>0, <1>3, <2>1 DEF RunNow
  <2>2. CASE ~\E j \in Jobs : \E c \in Callers : RunNow(c, j)
    <3>1. UNCHANGED act
      BY <1>6, <2>2
         DEF ClientStep, CreateJob, InsertJob, PromoteFails, PauseJob, ResumeJob,
             DeleteJob, FinishDelete, RunNowRefused, UserActivity, Reset
    <3>. QED
      BY <1>1, <3>1
  <2>. QED
    BY <2>1, <2>2
<1>7. CASE AlarmStep
  <2>1. ASSUME NEW j \in Jobs, LoopRuns(j)
        PROVE  CallStep(t)
    BY <1>0, <1>3, <2>1 DEF LoopRuns, StillDispatchable, DueRow, ActiveRow, Live
  <2>2. CASE AlarmRearms \/ \E j \in Jobs : LoopSkips(j) \/ LoopBusy(j)
    BY <1>1, <2>2 DEF AlarmRearms, LoopSkips, LoopBusy
  <2>3. CASE \/ AlarmFires \/ AlarmReaps \/ ReapWipes \/ BusyReclaimed
             \/ LoopEnds \/ \E j \in Jobs : LoopBusyExhausted(j)
    <3>1. \A u \in Threads \ {Alarm} : act'[u] = act[u]
      BY <1>0, <2>3
         DEF AlarmFires, AlarmReaps, ReapWipes, BusyReclaimed, LoopEnds,
             LoopBusyExhausted
    <3>2. act'[Alarm].pc \in OtherPCs
      BY <1>0, <2>3, IdleType
         DEF AlarmFires, AlarmReaps, ReapWipes, BusyReclaimed, LoopEnds,
             LoopBusyExhausted, ActType, OtherPCs, Idle
    <3>. QED
      BY <1>1, <1>2, <3>1, <3>2
  <2>. QED
    BY <1>7, <2>1, <2>2, <2>3 DEF AlarmStep
<1>8. ASSUME NEW u \in Threads, RunStep(u)
      PROVE  CallStep(t)
  <2>1. CASE PostRunGone(u) \/ PostRunRetry(u)
    BY <1>4, <2>1 DEF PostRunGone, PostRunRetry
  <2>2. CASE Notified(u) \/ Reclaimed(u)
    <3>1. Chain(u)
      BY <2>2 DEF Notified, Reclaimed
    <3>2. act[u].target # NoJob => act[u].target \in Jobs
      BY <1>0 DEF ActType
    <3>. QED
      BY <1>3, <1>4, <3>1, <3>2 DEF Chain
  <2>3. CASE SnapshotFetched(u)
    <3>1. CASE u # t
      BY <1>0, <1>1, <2>3, <3>1 DEF SnapshotFetched
    <3>2. CASE u = t
      <4>. DEFINE rec == [act[t] EXCEPT !.pc = "exec", !.restored = act[t].job \in snapshots]
      <4>1. /\ rec.job = act[t].job /\ rec.pc = "exec"
            /\ rec.restored <=> act[t].job \in snapshots
        BY <1>0 DEF ActType
      <4>2. act'[t] = rec /\ act[t].pc = "fetch" /\ UNCHANGED job
        BY <1>0, <2>3, <3>2 DEF SnapshotFetched
      <4>. HIDE DEF rec
      <4>. QED
        BY <4>1, <4>2 DEF CallStep, RunPCs
    <3>. QED
      BY <3>1, <3>2
  <2>4. CASE RunRecorded(u)
    <3>1. PICK exit \in {0, 1} :
            /\ act[u].pc = "exec" \/ (act[u].pc = "fetch" /\ exit = 1)
            /\ act' = [act EXCEPT ![u].pc = "destroy", ![u].exit = exit]
      BY <2>4 DEF RunRecorded
    <3>. DEFINE rec == [act[u] EXCEPT !.pc = "destroy", !.exit = exit]
    <3>2. rec.job = act[u].job /\ rec.pc = "destroy"
      BY <1>0 DEF ActType
    <3>3. act' = [act EXCEPT ![u] = rec] /\ act[u].pc \in RunPCs
      BY <1>0, <3>1 DEF RunPCs
    <3>. HIDE DEF rec
    <3>. QED
      BY <1>5, <3>2, <3>3
  <2>5. CASE PostRunFinal(u)
    <3>1. PICK ex, target :
            act' = [act EXCEPT ![u].pc = "notify", ![u].exhausted = ex,
                               ![u].target = target]
      BY <2>5 DEF PostRunFinal
    <3>. DEFINE rec == [act[u] EXCEPT !.pc = "notify", !.exhausted = ex, !.target = target]
    <3>2. rec.job = act[u].job /\ rec.pc = "notify"
      BY <1>0 DEF ActType
    <3>3. act' = [act EXCEPT ![u] = rec] /\ act[u].pc \in RunPCs
      BY <1>0, <2>5, <3>1 DEF PostRunFinal, RunPCs
    <3>. HIDE DEF rec
    <3>. QED
      BY <1>5, <3>2, <3>3
  <2>6. CASE NotifiedExhausted(u)
    <3>. DEFINE rec == [act[u] EXCEPT !.pc = "reclaim"]
    <3>1. rec.job = act[u].job /\ rec.pc = "reclaim"
      BY <1>0 DEF ActType
    <3>2. act' = [act EXCEPT ![u] = rec] /\ act[u].pc \in RunPCs
      BY <1>0, <2>6 DEF NotifiedExhausted, RunPCs
    <3>. HIDE DEF rec
    <3>. QED
      BY <1>5, <3>1, <3>2
  <2>. QED
    BY <1>8, <2>1, <2>2, <2>3, <2>4, <2>5, <2>6 DEF RunStep
<1>9. CASE Evict
  <2>1. act'[t].pc = "idle"
    BY <1>9 DEF Evict, Idle
  <2>. QED
    BY <1>2, <2>1 DEF OtherPCs
<1>10. CASE ClockTicks \/ UNCHANGED vars
  BY <1>1, <1>10 DEF ClockTicks, vars
<1>. QED
  BY <1>6, <1>7, <1>8, <1>9, <1>10 DEF Next

\* A row that exists stays or goes, and one that is gone stays gone.
LEMMA RowsGoForGood ==
  ASSUME TypeInv, [Next]_vars, NEW j \in Jobs
  PROVE  /\ job[j].st \in {"live", "gone"} => job'[j].st \in {"live", "gone"}
         /\ job[j].st = "gone" => job'[j].st = "gone"
<1>1. job[j] \in RowType /\ RowStep(j)
  BY RowSteps, SMTT(30) DEF TypeInv, TypeOK
<1>2. \/ job'[j].st = job[j].st \/ job'[j].st = "gone"
      \/ job[j].st \in {"new", "promoting"}
  BY <1>1 DEF RowStep, RowType
<1>. QED
  BY <1>2

LEMMA WorkspaceInductive ==
  ASSUME TypeInv, TypeInv', LiveJobHasSnapshot, RunsHaveRows,
         RunsInItsWorkspace, [Next]_vars
  PROVE  RunsHaveRows' /\ RunsInItsWorkspace'
<1>. SUFFICES ASSUME NEW t \in Threads
              PROVE  /\ act'[t].pc \in RunPCs => job'[act'[t].job].st \in {"live", "gone"}
                     /\ act'[t].pc = "exec" /\ ~act'[t].restored =>
                          job'[act'[t].job].st # "live"
  BY DEF RunsHaveRows, RunsInItsWorkspace, Live
<1>1. CallStep(t)
  BY CallSteps
<1>2. /\ act[t].pc \in RunPCs => act[t].job \in Jobs
      /\ "exec" \in RunPCs /\ "fetch" \in RunPCs
  BY DEF TypeInv, CallShape, RunPCs
<1>3. ASSUME act'[t].pc \in RunPCs
      PROVE  job'[act'[t].job].st \in {"live", "gone"}
  <2>1. PICK j \in Jobs : j = act'[t].job /\ job[j].st \in {"live", "gone"}
    BY <1>1, <1>2, <1>3 DEF CallStep, RunsHaveRows, Live
  <2>. QED
    BY <2>1, RowsGoForGood
<1>4. ASSUME act'[t].pc = "exec", ~act'[t].restored
      PROVE  job'[act'[t].job].st # "live"
  <2>1. CASE /\ act[t].pc = "exec" /\ act'[t].job = act[t].job
             /\ act'[t].restored = act[t].restored
    <3>1. act[t].job \in Jobs /\ job[act[t].job].st = "gone"
      BY <1>2, <1>4, <2>1 DEF RunsHaveRows, RunsInItsWorkspace, Live
    <3>. QED
      BY <2>1, <3>1, RowsGoForGood
  <2>2. CASE /\ act[t].pc = "fetch" /\ act'[t].job = act[t].job
             /\ act'[t].restored \/ act[t].job \notin snapshots
             /\ UNCHANGED job
    <3>1. act[t].job \in Jobs /\ ~Live(act[t].job)
      BY <1>2, <1>4, <2>2 DEF LiveJobHasSnapshot
    <3>. QED
      BY <2>2, <3>1 DEF Live
  <2>. QED
    BY <1>1, <1>4, <2>1, <2>2 DEF CallStep
<1>. QED
  BY <1>3, <1>4

\* A run never executes in an empty workspace while its job has a row: the
\* snapshot is fetched after an await in which the job may be deleted, wiped or
\* found exhausted, but each of those deletes the row first, and for good.
THEOREM RunsExecuteInTheirWorkspace == Spec => []RunsInItsWorkspace
<1>1. Init => RunsHaveRows /\ RunsInItsWorkspace
  BY DEF Init, RunsHaveRows, RunsInItsWorkspace, Idle, RunPCs
<1>2. TypeInv /\ TypeInv' /\ LiveJobHasSnapshot /\ RunsHaveRows
        /\ RunsInItsWorkspace /\ [Next]_vars
          => RunsHaveRows' /\ RunsInItsWorkspace'
  BY WorkspaceInductive
<1>. QED
  BY <1>1, <1>2, TypeInvInductive, LiveJobsKeepTheirSnapshot, PTL
     DEF Spec

-----------------------------------------------------------------------------
(* run-now answers with its own run                                        *)

\* A call keeps the guard of the job it was called for.  Once that job's run is
\* recorded, the newest run of its log is the call's own until the call returns:
\* a cascade never comes back to the job, and no other call may run it.
OwnRun(c) ==
  act[c].pc \in RunPCs =>
    /\ act[c].base \in act[c].holds
    /\ act[c].job # act[c].base \/ act[c].pc \in {"destroy", "notify", "reclaim"}
         => lastRun[act[c].base] \in {c, NoRun}

OwnRuns == RunNowAnswersOwnRun /\ \A c \in Callers : OwnRun(c)

\* A step of another call leaves this one's run alone.
LEMMA OthersRun ==
  ASSUME OneRunPerJob, NEW c \in Callers, OwnRun(c), act'[c] = act[c],
         \/ UNCHANGED lastRun
         \/ \A j \in Jobs : lastRun'[j] = NoRun
         \/ \E t \in Threads \ {c} :
              /\ act[t].job \in act[t].holds
              /\ lastRun' = Recorded(act[t].job, t)
         ,
         TypeInv
  PROVE  OwnRun(c)'
<1>1. SUFFICES ASSUME act[c].pc \in RunPCs
               PROVE  /\ act[c].base \in act[c].holds
                      /\ act[c].job # act[c].base \/ act[c].pc \in {"destroy", "notify", "reclaim"}
                           => lastRun'[act[c].base] \in {c, NoRun}
  BY DEF OwnRun
<1>2. /\ act[c].base \in act[c].holds
      /\ act[c].job # act[c].base \/ act[c].pc \in {"destroy", "notify", "reclaim"}
           => lastRun[act[c].base] \in {c, NoRun}
  BY <1>1 DEF OwnRun
<1>3. act[c].base \in Jobs /\ c \in Threads
  BY <1>1 DEF TypeInv, CallShape, Threads
<1>4. CASE UNCHANGED lastRun
  BY <1>2, <1>4
<1>5. CASE \A j \in Jobs : lastRun'[j] = NoRun
  BY <1>2, <1>3, <1>5
<1>6. CASE \E t \in Threads \ {c} :
             /\ act[t].job \in act[t].holds
             /\ lastRun' = Recorded(act[t].job, t)
  <2>1. PICK t \in Threads \ {c} :
          /\ act[t].job \in act[t].holds
          /\ lastRun' = Recorded(act[t].job, t)
    BY <1>6
  <2>2. act[t].job # act[c].base
    BY <1>2, <1>3, <2>1 DEF OneRunPerJob
  <2>3. lastRun'[act[c].base] = lastRun[act[c].base]
    BY <1>3, <2>1, <2>2 DEF Recorded, TypeInv, TypeOK
  <2>. QED
    BY <1>2, <2>3
<1>. QED
  BY <1>4, <1>5, <1>6

\* Steps that neither answer a caller nor move one, but for the calls they end.
LEMMA CallersStay ==
  ASSUME TypeInv, OneRunPerJob, OwnRuns,
         \A c \in Callers : act'[c] = act[c],
         UNCHANGED reply,
         UNCHANGED lastRun \/ \A j \in Jobs : lastRun'[j] = NoRun
  PROVE  OwnRuns'
BY OthersRun DEF OwnRuns, RunNowAnswersOwnRun

\* A call that moves on without starting or ending a run keeps its own.
LEMMA OwnRunMoves ==
  ASSUME TypeInv, OneRunPerJob, OwnRuns, NEW t \in Threads,
         UNCHANGED reply,
         \A u \in Threads \ {t} : act'[u] = act[u],
         act[t].pc \in RunPCs,
         /\ act'[t].job = act[t].job
         /\ act'[t].base = act[t].base
         /\ act'[t].holds = act[t].holds,
         \/ UNCHANGED lastRun /\ act[t].pc \in {"destroy", "notify", "reclaim"}
         \/ UNCHANGED lastRun /\ act'[t].pc = "exec" /\ act[t].pc = "fetch"
         \/ lastRun' = Recorded(act[t].job, t)
  PROVE  OwnRuns'
<1>0. Callers \subseteq Threads
  BY DEF Threads
<1>1. /\ act[t].job \in act[t].holds /\ act[t].job \in Jobs /\ act[t].base \in Jobs
      /\ lastRun \in [Jobs -> Threads \cup {NoRun}]
  BY DEF TypeInv, TypeOK, CallShape
<1>2. ASSUME NEW c \in Callers, c # t
      PROVE  OwnRun(c)'
  <2>1. act'[c] = act[c] /\ OwnRun(c)
    BY <1>0, <1>2 DEF OwnRuns
  <2>2. UNCHANGED lastRun \/ lastRun' = Recorded(act[t].job, t)
    OBVIOUS
  <2>. QED
    BY <1>1, <1>2, <2>1, <2>2, OthersRun
<1>3. ASSUME t \in Callers
      PROVE  OwnRun(t)'
  <2>1. OwnRun(t)
    BY <1>3 DEF OwnRuns
  <2>2. CASE UNCHANGED lastRun /\ act[t].pc \in {"destroy", "notify", "reclaim"}
    BY <2>1, <2>2 DEF OwnRun
  <2>4. CASE UNCHANGED lastRun /\ act'[t].pc = "exec" /\ act[t].pc = "fetch"
    BY <2>1, <2>4 DEF OwnRun
  <2>3. CASE lastRun' = Recorded(act[t].job, t)
    <3>1. act[t].job = act[t].base => lastRun'[act[t].base] = t
      BY <1>1, <2>3 DEF Recorded
    <3>2. act[t].job # act[t].base => lastRun'[act[t].base] = lastRun[act[t].base]
      BY <1>1, <2>3 DEF Recorded
    <3>. QED
      BY <2>1, <3>1, <3>2 DEF OwnRun
  <2>. QED
    BY <2>2, <2>3, <2>4
<1>. QED
  BY <1>2, <1>3 DEF OwnRuns, RunNowAnswersOwnRun

\* A call that returns answers with its own run, if a client made it.
LEMMA OwnRunReturns ==
  ASSUME TypeInv, OneRunPerJob, OwnRuns, NEW t \in Threads, NEW exists,
         Return(t, exists), act[t].pc \in {"destroy", "notify", "reclaim"},
         UNCHANGED lastRun
  PROVE  OwnRuns'
<1>0. Callers \subseteq Threads /\ act \in [Threads -> ActType]
  BY DEF Threads, TypeInv, TypeOK
<1>1. act[t].pc \in RunPCs
  BY DEF RunPCs
<1>2. t \in Callers => lastRun[act[t].base] \in {t, NoRun}
  BY <1>1 DEF OwnRuns, OwnRun
<1>3. \A u \in Threads \ {t} : act'[u] = act[u]
  BY <1>0 DEF Return
<1>4. ASSUME t \in Callers
      PROVE  act'[t].pc = "idle"
  <2>1. t # Alarm
    BY <1>4, SchedulerAssumption
  <2>. QED
    BY <1>0, <2>1 DEF Return, Idle
<1>5. ASSUME NEW c \in Callers
      PROVE  OwnRun(c)'
  <2>1. CASE c = t
    BY <1>4, <2>1 DEF OwnRun, RunPCs
  <2>2. CASE c # t
    BY <1>0, <1>3, <2>2, OthersRun DEF OwnRuns
  <2>. QED
    BY <2>1, <2>2
<1>6. ASSUME NEW c \in Callers
      PROVE  reply'[c] \in {c, NoRun, Refused}
  BY <1>2, <1>6, SchedulerAssumption
     DEF Return, OwnRuns, RunNowAnswersOwnRun, TypeInv, TypeOK
<1>. QED
  BY <1>5, <1>6 DEF OwnRuns, RunNowAnswersOwnRun

\* A cascade that goes on never comes back to the job the call was made for.
LEMMA OwnRunChains ==
  ASSUME TypeInv, OneRunPerJob, OwnRuns, NEW t \in Threads, Chain(t),
         act[t].pc \in {"notify", "reclaim"}, UNCHANGED lastRun
  PROVE  OwnRuns'
<1>0. Callers \subseteq Threads /\ act \in [Threads -> ActType]
  BY DEF Threads, TypeInv, TypeOK
<1>1. act[t].pc \in RunPCs
  BY DEF RunPCs
<1>2. t \in Callers => /\ act[t].base \in act[t].holds
                       /\ lastRun[act[t].base] \in {t, NoRun}
  BY <1>1 DEF OwnRuns, OwnRun
<1>3. CASE Return(t, TRUE)
  BY <1>3, OwnRunReturns
<1>4. CASE /\ StartRun(t, act[t].target, "chain", act[t].base, act[t].holds)
           /\ UNCHANGED reply
  <2>1. \A u \in Threads \ {t} : act'[u] = act[u]
    BY <1>0, <1>4 DEF StartRun
  <2>2. /\ act'[t].base = act[t].base
        /\ act'[t].holds = act[t].holds \cup {act[t].target}
    BY <1>0, <1>4 DEF StartRun, Idle
  <2>3. ASSUME NEW c \in Callers
        PROVE  OwnRun(c)'
    <3>1. CASE c = t
      BY <1>2, <2>2, <3>1 DEF OwnRun
    <3>2. CASE c # t
      BY <1>0, <2>1, <3>2, OthersRun DEF OwnRuns
    <3>. QED
      BY <3>1, <3>2
  <2>. QED
    BY <1>4, <2>3 DEF OwnRuns, RunNowAnswersOwnRun
<1>. QED
  BY <1>3, <1>4 DEF Chain

LEMMA OwnRunsInductive ==
  TypeInv /\ OneRunPerJob /\ OwnRuns /\ [Next]_vars => OwnRuns'
<1>. SUFFICES ASSUME TypeInv, OneRunPerJob, OwnRuns, [Next]_vars
              PROVE  OwnRuns'
  OBVIOUS
<1>0. /\ Alarm \in Threads /\ Callers \subseteq Threads /\ Alarm \notin Callers
      /\ act \in [Threads -> ActType]
  BY SchedulerAssumption DEF Threads, TypeInv, TypeOK
<1>1. ASSUME NEW j \in Jobs, NEW c \in Callers, RunNow(c, j)
      PROVE  OwnRuns'
  <2>1. \A u \in Threads \ {c} : act'[u] = act[u]
    BY <1>0, <1>1 DEF RunNow, StartRun
  <2>2. /\ act'[c].pc = "fetch" /\ act'[c].job = j /\ act'[c].base = j
        /\ j \in act'[c].holds
    BY <1>0, <1>1 DEF RunNow, StartRun, Idle
  <2>3. ASSUME NEW d \in Callers
        PROVE  OwnRun(d)'
    <3>1. CASE d = c
      BY <2>2, <3>1 DEF OwnRun
    <3>2. CASE d # c
      BY <1>0, <1>1, <2>1, <3>2, OthersRun DEF OwnRuns, RunNow
    <3>. QED
      BY <3>1, <3>2
  <2>4. RunNowAnswersOwnRun'
    BY <1>1 DEF RunNow, OwnRuns, RunNowAnswersOwnRun, TypeInv, TypeOK
  <2>. QED
    BY <2>3, <2>4 DEF OwnRuns
<1>2. ASSUME NEW j \in Jobs, NEW c \in Callers, RunNowRefused(c, j)
      PROVE  OwnRuns'
  <2>1. \A d \in Callers : OwnRun(d)'
    BY <1>0, <1>2, OthersRun DEF OwnRuns, RunNowRefused
  <2>2. RunNowAnswersOwnRun'
    BY <1>2 DEF RunNowRefused, OwnRuns, RunNowAnswersOwnRun, TypeInv, TypeOK
  <2>. QED
    BY <2>1, <2>2 DEF OwnRuns
<1>3. CASE \/ \E j \in Jobs :
                \/ \E s \in JobSpecs : CreateJob(j, s)
                \/ InsertJob(j) \/ PromoteFails(j) \/ PauseJob(j)
                \/ ResumeJob(j) \/ DeleteJob(j) \/ FinishDelete(j)
           \/ UserActivity \/ Reset \/ ClockTicks
  <2>1. UNCHANGED <<act, reply>>
    BY <1>3 DEF CreateJob, InsertJob, PromoteFails, PauseJob, ResumeJob,
         DeleteJob, FinishDelete, UserActivity, Reset, ClockTicks
  <2>2. UNCHANGED lastRun \/ \A j \in Jobs : lastRun'[j] = NoRun
    BY <1>3 DEF CreateJob, InsertJob, PromoteFails, PauseJob, ResumeJob,
         DeleteJob, FinishDelete, UserActivity, Reset, WipeStorage, ClockTicks
  <2>. QED
    BY <2>1, <2>2, CallersStay
<1>4. CASE AlarmStep
  <2>1. \A c \in Callers : act'[c] = act[c]
    BY <1>0, <1>4
       DEF AlarmStep, AlarmFires, AlarmRearms, AlarmReaps, ReapWipes, LoopSkips,
           LoopRuns, StartRun, LoopBusy, LoopBusyExhausted, BusyReclaimed, LoopEnds
  <2>2. UNCHANGED reply /\ (UNCHANGED lastRun \/ \A j \in Jobs : lastRun'[j] = NoRun)
    BY <1>4
       DEF AlarmStep, AlarmFires, AlarmRearms, AlarmReaps, ReapWipes, LoopSkips,
           LoopRuns, LoopBusy, LoopBusyExhausted, BusyReclaimed, LoopEnds,
           WipeStorage
  <2>. QED
    BY <2>1, <2>2, CallersStay
<1>5. ASSUME NEW t \in Threads, RunStep(t)
      PROVE  OwnRuns'
  <2>1. CASE PostRunGone(t) \/ PostRunRetry(t)
    BY <2>1, OwnRunReturns DEF PostRunGone, PostRunRetry
  <2>2. CASE Notified(t) \/ Reclaimed(t)
    BY <2>2, OwnRunChains DEF Notified, Reclaimed
  <2>3. ASSUME NEW k, act' = [act EXCEPT ![t] = k],
               k.job = act[t].job, k.base = act[t].base, k.holds = act[t].holds
        PROVE  /\ \A u \in Threads \ {t} : act'[u] = act[u]
               /\ act'[t].job = act[t].job
               /\ act'[t].base = act[t].base
               /\ act'[t].holds = act[t].holds
               /\ act'[t].pc = k.pc
    BY <1>0, <2>3
  <2>4. CASE SnapshotFetched(t)
    <3>. DEFINE k == [act[t] EXCEPT !.pc = "exec", !.restored = act[t].job \in snapshots]
    <3>1. /\ k.job = act[t].job /\ k.base = act[t].base /\ k.holds = act[t].holds
          /\ k.pc = "exec"
      BY <1>0 DEF ActType
    <3>2. act' = [act EXCEPT ![t] = k] /\ act[t].pc = "fetch"
          /\ UNCHANGED <<reply, lastRun>>
      BY <1>0, <2>4 DEF SnapshotFetched
    <3>. HIDE DEF k
    <3>. QED
      BY <2>3, <3>1, <3>2, OwnRunMoves DEF RunPCs
  <2>5. CASE RunRecorded(t)
    <3>1. PICK exit \in {0, 1} :
            /\ act[t].pc = "exec" \/ (act[t].pc = "fetch" /\ exit = 1)
            /\ act' = [act EXCEPT ![t].pc = "destroy", ![t].exit = exit]
      BY <2>5 DEF RunRecorded
    <3>. DEFINE k == [act[t] EXCEPT !.pc = "destroy", !.exit = exit]
    <3>2. k.job = act[t].job /\ k.base = act[t].base /\ k.holds = act[t].holds
      BY <1>0 DEF ActType
    <3>3. /\ act' = [act EXCEPT ![t] = k] /\ UNCHANGED reply
          /\ lastRun' = Recorded(act[t].job, t)
      BY <1>0, <2>5, <3>1 DEF RunRecorded
    <3>. HIDE DEF k
    <3>. QED
      BY <2>3, <3>1, <3>2, <3>3, OwnRunMoves DEF RunPCs
  <2>6. CASE PostRunFinal(t)
    <3>1. PICK ex, target :
            act' = [act EXCEPT ![t].pc = "notify", ![t].exhausted = ex,
                               ![t].target = target]
      BY <2>6 DEF PostRunFinal
    <3>. DEFINE k == [act[t] EXCEPT !.pc = "notify", !.exhausted = ex, !.target = target]
    <3>2. k.job = act[t].job /\ k.base = act[t].base /\ k.holds = act[t].holds
      BY <1>0 DEF ActType
    <3>3. /\ act' = [act EXCEPT ![t] = k] /\ act[t].pc = "destroy"
          /\ UNCHANGED <<reply, lastRun>>
      BY <1>0, <2>6, <3>1 DEF PostRunFinal
    <3>. HIDE DEF k
    <3>. QED
      BY <2>3, <3>2, <3>3, OwnRunMoves DEF RunPCs
  <2>7. CASE NotifiedExhausted(t)
    <3>. DEFINE k == [act[t] EXCEPT !.pc = "reclaim"]
    <3>1. k.job = act[t].job /\ k.base = act[t].base /\ k.holds = act[t].holds
      BY <1>0 DEF ActType
    <3>2. /\ act' = [act EXCEPT ![t] = k] /\ act[t].pc = "notify"
          /\ UNCHANGED <<reply, lastRun>>
      BY <1>0, <2>7 DEF NotifiedExhausted
    <3>. HIDE DEF k
    <3>. QED
      BY <2>3, <3>1, <3>2, OwnRunMoves DEF RunPCs
  <2>. QED
    BY <1>5, <2>1, <2>2, <2>4, <2>5, <2>6, <2>7 DEF RunStep
<1>6. CASE Evict
  <2>1. \A c \in Callers : act'[c].pc = "idle"
    BY <1>0, <1>6 DEF Evict, Idle
  <2>2. \A c \in Callers : reply'[c] = NoRun
    BY <1>6 DEF Evict
  <2>. QED
    BY <2>1, <2>2 DEF OwnRuns, OwnRun, RunNowAnswersOwnRun, RunPCs
<1>7. CASE UNCHANGED vars
  BY <1>7, CallersStay DEF vars
<1>. QED
  BY <1>1, <1>2, <1>3, <1>4, <1>5, <1>6, <1>7 DEF Next, ClientStep

\* runScheduledJobNow reads its answer from the log only after the post-run
\* sequence and the whole cascade, many awaits after it recorded the run; it is
\* nevertheless never the run of another call.  What makes it so is the guard:
\* the call keeps the job it was made for in runningJobs until it returns.
THEOREM RunNowIsAnsweredWithItsRun == Spec => []RunNowAnswersOwnRun
<1>1. Init => OneRunPerJob /\ OwnRuns
  BY IdleType
     DEF Init, OneRunPerJob, OwnRuns, OwnRun, RunNowAnswersOwnRun, Threads
<1>2. OwnRuns => RunNowAnswersOwnRun
  BY DEF OwnRuns
<1>. QED
  BY <1>1, <1>2, TypeInvInductive, ExclusiveInductive, OwnRunsInductive, PTL DEF Spec

-----------------------------------------------------------------------------
(* The alarm is in time                                                    *)

\* Where a step re-arms, the alarm is not late for any job.
LEMMA RearmInTime ==
  ASSUME TypeInv', Rearm
  PROVE  AlarmNotLate'
<1>1. job' \in [Jobs -> RowType] /\ reapAt' \in Deadline
  BY DEF TypeInv, TypeOK
<1>2. \A j \in Jobs : ActiveRow(job'[j]) => alarm' \in Nat /\ alarm' <= job'[j].next
  BY <1>1, RearmedProperties DEF Rearm
<1>. QED
  BY <1>2 DEF AlarmNotLate, Undefined

\* Where it does not, the jobs that no run holds may neither gain a deadline nor
\* move it, and none that could fire may be let go.
LEMMA NothingSooner ==
  ASSUME AlarmNotLate, UNCHANGED alarm,
         act'[Alarm].pc = "idle" => act[Alarm].pc = "idle",
         \A j \in Jobs \ runningJobs' : ActiveRow(job'[j]) =>
            j \notin runningJobs /\ ActiveRow(job[j]) /\ job'[j].next = job[j].next
  PROVE  AlarmNotLate'
BY DEF AlarmNotLate

LEMMA AlarmBusy ==
  ASSUME act'[Alarm].pc # "idle"
  PROVE  AlarmNotLate'
BY DEF AlarmNotLate

\* A row that is withdrawn holds no deadline.
LEMMA Withdrawn ==
  ASSUME TypeInv, NEW j \in Jobs, job' = [job EXCEPT ![j].st = "gone"]
  PROVE  \A k \in Jobs : ActiveRow(job'[k]) =>
            ActiveRow(job[k]) /\ job'[k].next = job[k].next
BY DEF TypeInv, TypeOK, RowType, ActiveRow

LEMMA InTimeClientStep ==
  ASSUME TypeInv, TypeInv', AlarmNotLate, ClientStep
  PROVE  AlarmNotLate'
<1>0. Alarm \in Threads /\ Callers \subseteq Threads /\ Alarm \notin Callers
  BY SchedulerAssumption DEF Threads
<1>1. ASSUME NEW j \in Jobs, NEW s \in JobSpecs, CreateJob(j, s)
      PROVE  AlarmNotLate'
  BY <1>1, NothingSooner DEF CreateJob, ActiveRow, TypeInv, TypeOK
<1>2. ASSUME NEW j \in Jobs,
             InsertJob(j) \/ PauseJob(j) \/ ResumeJob(j) \/ FinishDelete(j)
      PROVE  AlarmNotLate'
  BY <1>2, RearmInTime DEF InsertJob, PauseJob, ResumeJob, FinishDelete,
                           TouchActivity
<1>3. ASSUME NEW j \in Jobs, PromoteFails(j) \/ DeleteJob(j)
      PROVE  AlarmNotLate'
  BY <1>3, Withdrawn, NothingSooner DEF PromoteFails, DeleteJob
<1>4. ASSUME NEW j \in Jobs, NEW c \in Callers, RunNow(c, j)
      PROVE  AlarmNotLate'
  <2>1. act'[Alarm] = act[Alarm]
    BY <1>0, <1>4 DEF RunNow, StartRun, TypeInv, TypeOK
  <2>2. runningJobs' = runningJobs \cup {j} /\ UNCHANGED <<job, alarm>>
    BY <1>4 DEF RunNow, StartRun
  <2>. QED
    BY <2>1, <2>2, NothingSooner
<1>5. ASSUME NEW j \in Jobs, NEW c \in Callers, RunNowRefused(c, j)
      PROVE  AlarmNotLate'
  BY <1>5, NothingSooner DEF RunNowRefused
<1>6. ASSUME UserActivity
      PROVE  AlarmNotLate'
  BY <1>6, RearmInTime DEF UserActivity, TouchActivity
<1>7. ASSUME Reset
      PROVE  AlarmNotLate'
  BY <1>7, WipedRows DEF Reset, AlarmNotLate
<1>. QED
  BY <1>1, <1>2, <1>3, <1>4, <1>5, <1>6, <1>7 DEF ClientStep

LEMMA InTimeAlarmStep ==
  ASSUME TypeInv, TypeInv', AlarmNotLate, AlarmStep
  PROVE  AlarmNotLate'
<1>0. Alarm \in Threads
  BY DEF Threads
<1>1. CASE AlarmRearms \/ LoopEnds
  BY <1>1, RearmInTime DEF AlarmRearms, LoopEnds
<1>2. CASE ReapWipes
  BY <1>2, WipedRows DEF ReapWipes, AlarmNotLate
<1>3. CASE AlarmFires \/ AlarmReaps \/ BusyReclaimed
  <2>1. act'[Alarm].pc \in {"loop", "closing"}
    BY <1>0, <1>3
       DEF AlarmFires, AlarmReaps, BusyReclaimed, Idle, TypeInv, TypeOK, ActType
  <2>. QED
    BY <2>1, AlarmBusy
<1>4. ASSUME NEW j \in Jobs, LoopSkips(j) \/ LoopBusy(j)
      PROVE  AlarmNotLate'
  <2>1. act'[Alarm].pc = "loop"
    BY <1>4 DEF LoopSkips, LoopBusy, LoopAt
  <2>. QED
    BY <2>1, AlarmBusy
<1>5. ASSUME NEW j \in Jobs, LoopRuns(j) \/ LoopBusyExhausted(j)
      PROVE  AlarmNotLate'
  <2>0. act \in [Threads -> ActType]
    BY DEF TypeInv, TypeOK
  <2>1. LoopRuns(j) => act'[Alarm].pc = "fetch"
    BY <1>0, <2>0 DEF LoopRuns, StartRun, Idle
  <2>2. LoopBusyExhausted(j) => act'[Alarm].pc = "busyReclaim"
    BY <1>0, <2>0 DEF LoopBusyExhausted, ActType
  <2>. QED
    BY <1>5, <2>1, <2>2, AlarmBusy
<1>. QED
  BY <1>1, <1>2, <1>3, <1>4, <1>5 DEF AlarmStep

\* A run may move the deadline of its own job only, which is not let go before
\* the alarm is re-armed.
LEMMA InTimeRunStep ==
  ASSUME TypeInv, TypeInv', OneRunPerJob, AlarmNotLate,
         NEW t \in Threads, RunStep(t)
  PROVE  AlarmNotLate'
<1>0. Alarm \in Threads /\ act \in [Threads -> ActType] /\ job \in [Jobs -> RowType]
  BY SMTT(30) DEF Threads, TypeInv, TypeOK
<1>1. act[t].pc \in RunPCs /\ "idle" \notin RunPCs
  BY DEF RunStep, SnapshotFetched, RunRecorded, PostRunGone, PostRunRetry,
         PostRunFinal, NotifiedExhausted, Notified, Reclaimed, RunPCs
<1>2. act[t].job \in Jobs /\ act[t].job \in runningJobs
  BY <1>1 DEF TypeInv, CallShape, OneRunPerJob
<1>3. ASSUME NEW exists, Return(t, exists),
             exists \/ (UNCHANGED job /\ ~Live(act[t].job))
      PROVE  AlarmNotLate'
  <2>1. CASE t = Alarm
    <3>1. act'[Alarm].pc = "loop"
      BY <1>0, <1>3, <2>1 DEF Return, Idle
    <3>. QED
      BY <3>1, AlarmBusy
  <2>2. CASE Rearm
    BY <2>2, RearmInTime
  <2>3. CASE t # Alarm /\ ~Rearm
    <3>1. act'[Alarm] = act[Alarm] /\ UNCHANGED alarm
      BY <1>0, <1>3, <2>3 DEF Return
    <3>2. ~exists /\ act[t].holds = {act[t].job}
      BY <1>3, <2>3 DEF Return, RearmsOnReturn
    <3>3. runningJobs' = runningJobs \ {act[t].job} /\ UNCHANGED job
      BY <1>3, <3>2 DEF Return
    <3>4. ~ActiveRow(job[act[t].job])
      BY <1>3, <3>2 DEF ActiveRow, Live
    <3>. QED
      BY <3>1, <3>3, <3>4, NothingSooner
  <2>. QED
    BY <2>1, <2>2, <2>3
<1>4. CASE SnapshotFetched(t) \/ RunRecorded(t)
  <2>1. act'[Alarm].pc = "idle" => act[Alarm].pc = "idle"
    BY <1>0, <1>4, SMTT(30) DEF SnapshotFetched, RunRecorded, ActType
  <2>. QED
    BY <1>4, <2>1, NothingSooner DEF SnapshotFetched, RunRecorded
<1>5. CASE PostRunFinal(t)
  <2>1. act'[Alarm].pc = "idle" => act[Alarm].pc = "idle"
    BY <1>0, <1>5 DEF PostRunFinal, ActType
  <2>2. \A k \in Jobs \ runningJobs : job'[k] = job[k]
    BY <1>0, <1>2, <1>5 DEF PostRunFinal
  <2>. QED
    BY <1>5, <2>1, <2>2, NothingSooner DEF PostRunFinal
<1>6. CASE NotifiedExhausted(t)
  <2>1. act'[Alarm].pc = "idle" => act[Alarm].pc = "idle"
    BY <1>0, <1>6 DEF NotifiedExhausted, ActType
  <2>2. \A k \in Jobs : ActiveRow(job'[k]) =>
          ActiveRow(job[k]) /\ job'[k].next = job[k].next
    BY <1>2, <1>6, Withdrawn DEF NotifiedExhausted
  <2>. QED
    BY <1>6, <2>1, <2>2, NothingSooner DEF NotifiedExhausted
<1>7. CASE Notified(t) \/ Reclaimed(t)
  <2>1. CASE Return(t, TRUE)
    BY <1>3, <2>1
  <2>2. CASE ~Return(t, TRUE)
    <3>1. PICK k, base, held :
            StartRun(t, k, "chain", base, held) /\ UNCHANGED alarm
      BY <1>7, <2>2 DEF Notified, Reclaimed, Chain
    <3>2. act'[Alarm].pc = "idle" => act[Alarm].pc = "idle"
      BY <1>0, <3>1 DEF StartRun, Idle
    <3>3. runningJobs' = runningJobs \cup {k} /\ UNCHANGED job
      BY <1>7, <3>1 DEF StartRun, Notified, Reclaimed
    <3>. QED
      BY <3>1, <3>2, <3>3, NothingSooner
  <2>. QED
    BY <2>1, <2>2
<1>8. CASE PostRunGone(t) \/ PostRunRetry(t)
  BY <1>3, <1>8 DEF PostRunGone, PostRunRetry
<1>. QED
  BY <1>4, <1>5, <1>6, <1>7, <1>8 DEF RunStep

\* Unless the object is evicted, the alarm is never set later than the next
\* deadline of a job that is not running.  The hypothesis is needed: the final
\* decision of a chained run may bring forward a deadline that a retry had put
\* off, and re-arms only awaits later; an eviction in between leaves the alarm
\* where the retry had set it (set, by AlarmIsNeverLost, but late).
THEOREM AlarmIsInTime ==
  ASSUME "evict" \notin Requests
  PROVE  Spec => []AlarmNotLate
<1>1. Init => OneRunPerJob /\ AlarmNotLate
  BY IdleType DEF Init, OneRunPerJob, AlarmNotLate, ActiveRow, NoRow
<1>2. TypeInv /\ TypeInv' /\ OneRunPerJob /\ AlarmNotLate /\ [Next]_vars => AlarmNotLate'
  <2>. SUFFICES ASSUME TypeInv, TypeInv', OneRunPerJob, AlarmNotLate, [Next]_vars
                PROVE  AlarmNotLate'
    OBVIOUS
  <2>1. ~Evict
    BY DEF Evict, Request
  <2>2. CASE ClockTicks \/ UNCHANGED vars
    BY <2>2 DEF ClockTicks, vars, AlarmNotLate
  <2>. QED
    BY <2>1, <2>2, InTimeClientStep, InTimeAlarmStep, InTimeRunStep DEF Next
<1>. QED
  BY <1>1, <1>2, TypeInvInductive, ExclusiveInductive, PTL DEF Spec
=============================================================================
