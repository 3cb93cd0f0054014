----------------------------- MODULE Scheduler ------------------------------
(***************************************************************************)
(* The scheduled jobs of one session: the part of the Agent durable object *)
(* (apps/api/src/Agent.ts) that creates, pauses, resumes, deletes and runs *)
(* jobs, and the one alarm that both fires them and reaps an idle session. *)
(*                                                                         *)
(* The durable object is single-threaded.  A request keeps the event loop  *)
(* until it awaits something outside the object (R2, a Runner container,   *)
(* a notification); SQL and storage calls do not let another request in.   *)
(* So each action below is the code between two such awaits.  The alarm    *)
(* loop, which may handle several jobs between awaits, is the one such     *)
(* stretch split into several steps; EventLoopFree keeps everything else   *)
(* out of it.                                                              *)
(*                                                                         *)
(* Every job has a notification configured, so every run that ends its     *)
(* cycle has the await of the delivery.                                    *)
(***************************************************************************)
EXTENDS JobOutcome

CONSTANTS
  MaxJobs,    \* bound on the jobs ever created
  JobSpecs,   \* what a client may ask createScheduledJob for
  Callers,    \* clients that call runScheduledJobNow, one call at a time
  Alarm,      \* the thread of alarm(), of which the platform runs only one
  Ttl,        \* the idle time-to-live, in ticks
  MaxTime,    \* bound on the clock
  MaxOps,     \* bound on client requests and evictions
  Requests    \* the kinds of request and fault a run explores

Jobs == 1 .. MaxJobs      \* ids, in the order the jobs were asked for
NoJob == 0
Threads == Callers \cup {Alarm}

SpecType == [cron: SUBSET Nat, max: Nat, backoff: Nat \ {0},
             onOk: Jobs \cup {NoJob}, onFail: Jobs \cup {NoJob}]

ASSUME SchedulerAssumption ==
  /\ MaxJobs \in Nat
  /\ JobSpecs \subseteq SpecType
  /\ Alarm \notin Callers
  /\ Ttl \in Nat \ {0}
  /\ MaxTime \in Nat
  /\ MaxOps \in Nat

VARIABLES
  now,           \* Date.now()
  job,           \* scheduled_jobs: one row per id
  snapshots,     \* the jobs whose promoted workspace is in R2
  lastRun,       \* the newest scheduled_job_runs row of each job, as its runner
  alarm,         \* the durable object's alarm
  reapAt,        \* the idle-reap deadline
  runningJobs,   \* #runningJobs, in memory
  alarmBatchRan, \* #alarmBatchRan, in memory; {} outside a batch
  act,           \* the in-flight alarm() and runScheduledJobNow calls
  batch,         \* dueIds not handled yet, with the deadline they sort by
  tick,          \* the instant alarm() captured
  deletes,       \* deleteScheduledJob calls awaiting the R2 delete
  reply,         \* what each caller's last runScheduledJobNow answered
  starts,        \* observed: starts of each job during the current batch
  ops            \* requests and faults so far

vars == <<now, job, snapshots, lastRun, alarm, reapAt, runningJobs,
          alarmBatchRan, act, batch, tick, deletes, reply, starts, ops>>

Blank == [cron |-> {}, max |-> 0, backoff |-> 1,
          onOk |-> NoJob, onFail |-> NoJob]

NoRow == [st |-> "new", spec |-> Blank, next |-> 0, paused |-> FALSE,
          attempts |-> 0]

Idle == [pc |-> "idle", job |-> NoJob, base |-> NoJob, origin |-> "manual",
         exit |-> 0, exhausted |-> FALSE, target |-> NoJob, holds |-> {},
         restored |-> TRUE]

NoRun == "none"
Refused == "refused"

RowType == [st: {"new", "promoting", "live", "gone"}, spec: SpecType,
            next: Nat, paused: BOOLEAN, attempts: Nat]

\* Where a run awaits; "loop" is not an await but alarm()'s loop.
RunPCs == {"fetch", "exec", "destroy", "notify", "reclaim"}
OtherPCs == {"idle", "loop", "busyReclaim", "closing"}

ActType == [pc: RunPCs \cup OtherPCs, job: Jobs \cup {NoJob},
            base: Jobs \cup {NoJob}, origin: Origins, exit: {0, 1},
            exhausted: BOOLEAN, target: Jobs \cup {NoJob},
            holds: SUBSET Jobs, restored: BOOLEAN]

Deadline == Nat \cup {Undefined}

-----------------------------------------------------------------------------
(* Reading the tables                                                      *)

Live(j) == job[j].st = "live"

\* The rows that hold an alarm slot: not paused and not dormant.
ActiveRow(row) == row.st = "live" /\ ~row.paused /\ row.next > 0

DueRow(row, t) == ActiveRow(row) /\ row.next <= t

AnyRow(rows) == \E j \in Jobs : rows[j].st = "live"

\* What #rearmAlarm sets the alarm to.
Rearmed(rows, reap) ==
  IF AnyRow(rows)
  THEN SoonestDeadline({rows[j].next : j \in {i \in Jobs : ActiveRow(rows[i])}})
  ELSE reap

Rearm == alarm' = Rearmed(job', reapAt')

\* Mutant: activity slides the reap deadline and arms nothing.
TouchWithoutRearm ==
  /\ reapAt' = now + Ttl
  /\ UNCHANGED alarm

\* #touchActivity
TouchActivity ==
  /\ reapAt' = now + Ttl
  /\ Rearm

BatchLive == act[Alarm].pc \notin {"idle", "closing"}

\* Mutant: no check of the guard.
DeclinesBatchOnly(j) == j \in alarmBatchRan

\* Mutant: no check of the batch.
DeclinesBusyOnly(j) == j \in runningJobs

\* #runScheduledJob declines j without running it.
Declines(j) == j \in alarmBatchRan \/ j \in runningJobs

EventLoopFree == act[Alarm].pc # "loop"

\* One more request of kind r (or fault), within the bound.
Request(r) ==
  /\ r \in Requests
  /\ EventLoopFree
  /\ ops < MaxOps
  /\ ops' = ops + 1

TypeOK ==
  /\ now \in Nat
  /\ job \in [Jobs -> RowType]
  /\ snapshots \subseteq Jobs
  /\ lastRun \in [Jobs -> Threads \cup {NoRun}]
  /\ alarm \in Deadline
  /\ reapAt \in Deadline
  /\ runningJobs \subseteq Jobs
  /\ alarmBatchRan \subseteq Jobs
  /\ act \in [Threads -> ActType]
  /\ batch \in [Jobs -> Nat]
  /\ tick \in Nat
  /\ deletes \subseteq Jobs
  /\ reply \in [Callers -> Threads \cup {NoRun, Refused}]
  /\ starts \in [Jobs -> Nat]
  /\ ops \in Nat

\* A session that has seen no request yet; time starts at 1.
Init ==
  /\ now = 1
  /\ job = [j \in Jobs |-> NoRow]
  /\ snapshots = {}
  /\ lastRun = [j \in Jobs |-> NoRun]
  /\ alarm = Undefined
  /\ reapAt = Undefined
  /\ runningJobs = {}
  /\ alarmBatchRan = {}
  /\ act = [t \in Threads |-> Idle]
  /\ batch = [j \in Jobs |-> 0]
  /\ tick = 0
  /\ deletes = {}
  /\ reply = [c \in Callers |-> NoRun]
  /\ starts = [j \in Jobs |-> 0]
  /\ ops = 0

-----------------------------------------------------------------------------
(* createScheduledJob: validate, await the promotion, insert               *)

\* Checks up to the await of #promoteToScheduled.  "promoting" is a request in
\* flight, not yet a row.
CreateJob(j, s) ==
  /\ Request("create")
  /\ job[j].st = "new"
  /\ \A k \in Jobs : k < j => job[k].st # "new"
  /\ s.cron # {} => NextOccurrence(s.cron, now) # Undefined
  /\ \A k \in {s.onOk, s.onFail} \ {NoJob} : Live(k)
  /\ job' = [job EXCEPT ![j] =
       [st |-> "promoting", spec |-> s, paused |-> FALSE, attempts |-> 0,
        next |-> IF s.cron = {} THEN 0 ELSE NextOccurrence(s.cron, now)]]
  /\ UNCHANGED <<now, snapshots, lastRun, alarm, reapAt, runningJobs,
                 alarmBatchRan, act, batch, tick, deletes, reply, starts>>

\* The workspace is in R2: insert the row.
InsertJob(j) ==
  /\ EventLoopFree
  /\ job[j].st = "promoting"
  /\ job' = [job EXCEPT ![j].st = "live"]
  /\ snapshots' = snapshots \cup {j}
  /\ TouchActivity
  /\ UNCHANGED <<now, lastRun, runningJobs, alarmBatchRan, act, batch, tick,
                 deletes, reply, starts, ops>>

\* Mutant: a failed promotion is logged and the row is inserted all the same.
PromoteErrorIgnored(j) ==
  /\ EventLoopFree
  /\ job[j].st = "promoting"
  /\ job' = [job EXCEPT ![j].st = "live"]
  /\ TouchActivity
  /\ UNCHANGED <<now, snapshots, lastRun, runningJobs, alarmBatchRan, act,
                 batch, tick, deletes, reply, starts, ops>>

\* R2 fails: the call rejects and nothing is inserted.
PromoteFails(j) ==
  /\ EventLoopFree
  /\ job[j].st = "promoting"
  /\ job' = [job EXCEPT ![j].st = "gone"]
  /\ UNCHANGED <<now, snapshots, lastRun, alarm, reapAt, runningJobs,
                 alarmBatchRan, act, batch, tick, deletes, reply, starts, ops>>

-----------------------------------------------------------------------------
(* The other client requests                                               *)

PauseJob(j) ==
  /\ Request("pause")
  /\ Live(j)
  /\ job' = [job EXCEPT ![j].paused = TRUE]
  /\ UNCHANGED reapAt
  /\ Rearm
  /\ UNCHANGED <<now, snapshots, lastRun, runningJobs, alarmBatchRan, act,
                 batch, tick, deletes, reply, starts>>

\* A schedule with no future occurrence leaves the job paused.
ResumeJob(j) ==
  LET cron == job[j].spec.cron
  IN  /\ Request("resume")
      /\ Live(j) /\ job[j].paused
      /\ cron # {} => NextOccurrence(cron, now) # Undefined
      /\ job' = [job EXCEPT ![j].paused = FALSE, ![j].attempts = 0,
                   ![j].next = RescheduleFromCron(cron, now).next]
      /\ UNCHANGED reapAt
      /\ Rearm
      /\ UNCHANGED <<now, snapshots, lastRun, runningJobs, alarmBatchRan, act,
                     batch, tick, deletes, reply, starts>>

\* Mutant: the snapshot is reclaimed before the row is deleted.
DeleteSnapshotFirst(j) ==
  /\ Request("delete")
  /\ Live(j)
  /\ snapshots' = snapshots \ {j}
  /\ UNCHANGED <<now, job, lastRun, alarm, reapAt, runningJobs,
                 alarmBatchRan, act, batch, tick, deletes, reply, starts>>

\* deleteScheduledJob up to its await: the row is gone, its snapshot is not.
DeleteJob(j) ==
  /\ Request("delete")
  /\ Live(j)
  /\ job' = [job EXCEPT ![j].st = "gone"]
  /\ deletes' = deletes \cup {j}
  /\ UNCHANGED <<now, snapshots, lastRun, alarm, reapAt, runningJobs,
                 alarmBatchRan, act, batch, tick, reply, starts>>

\* The reclaim is best-effort; either way the delete counts as activity.
FinishDelete(j) ==
  /\ EventLoopFree
  /\ j \in deletes
  /\ deletes' = deletes \ {j}
  /\ snapshots' \in {snapshots, snapshots \ {j}}
  /\ UNCHANGED job
  /\ TouchActivity
  /\ UNCHANGED <<now, lastRun, runningJobs, alarmBatchRan, act, batch, tick,
                 reply, starts, ops>>

\* A user message, an approval, or a delete of an unknown id.
UserActivity ==
  /\ Request("activity")
  /\ UNCHANGED job
  /\ TouchActivity
  /\ UNCHANGED <<now, snapshots, lastRun, runningJobs, alarmBatchRan, act,
                 batch, tick, deletes, reply, starts>>

\* #wipeStorage: rows, run log, reap deadline and alarm; not the in-memory
\* guards, and not the promoted snapshots.
WipeStorage ==
  /\ job' = [j \in Jobs |-> IF Live(j) THEN [job[j] EXCEPT !.st = "gone"]
                                       ELSE job[j]]
  /\ lastRun' = [j \in Jobs |-> NoRun]
  /\ reapAt' = Undefined
  /\ alarm' = Undefined

\* reset(), and a client's close() once it reaches the wipe.
Reset ==
  /\ Request("reset")
  /\ WipeStorage
  /\ UNCHANGED <<now, snapshots, runningJobs, alarmBatchRan, act, batch, tick,
                 deletes, reply, starts>>

-----------------------------------------------------------------------------
(* #runScheduledJob, from its start to its return                          *)

\* Take the guard and ask R2 for the snapshot.  `holds` is the cascade: the
\* job and, when a chain started it, the jobs awaiting it.
StartRun(t, j, o, base, held) ==
  /\ runningJobs' = runningJobs \cup {j}
  /\ alarmBatchRan' = IF BatchLive THEN alarmBatchRan \cup {j} ELSE alarmBatchRan
  /\ starts' = IF BatchLive THEN [starts EXCEPT ![j] = @ + 1] ELSE starts
  /\ act' = [act EXCEPT ![t] =
       [Idle EXCEPT !.pc = "fetch", !.job = j, !.base = base, !.origin = o,
                    !.holds = held \cup {j}]]

\* Mutant: the run leaves re-arming to alarm().
NoRearmOnReturn(t, rowExists) == t = Alarm

\* Every job that waited on a chain re-arms the alarm; the innermost does when
\* its row still exists.
RearmsOnReturn(t, rowExists) == rowExists \/ act[t].holds # {act[t].job}

\* The innermost run returns and, with no await left between them, so does the
\* whole cascade.
Return(t, rowExists) ==
  /\ runningJobs' = runningJobs \ act[t].holds
  /\ IF RearmsOnReturn(t, rowExists) THEN Rearm ELSE UNCHANGED alarm
  /\ IF t = Alarm
     THEN /\ act' = [act EXCEPT ![t] = [Idle EXCEPT !.pc = "loop"]]
          /\ UNCHANGED reply
     ELSE /\ act' = [act EXCEPT ![t] = Idle]
          /\ reply' = [reply EXCEPT ![t] = lastRun[act[t].base]]
  /\ UNCHANGED <<alarmBatchRan, starts>>

\* The outcome chain: start the target, or skip it and return.
Chain(t) ==
  LET k == act[t].target
  IN  IF k # NoJob /\ Live(k) /\ ~job[k].paused /\ ~Declines(k)
      THEN /\ StartRun(t, k, "chain", act[t].base, act[t].holds)
           /\ UNCHANGED <<alarm, reply>>
      ELSE Return(t, TRUE)

\* R2 answers; a missing object restores an empty workspace.
SnapshotFetched(t) ==
  /\ EventLoopFree
  /\ act[t].pc = "fetch"
  /\ act' = [act EXCEPT ![t].pc = "exec",
                        ![t].restored = act[t].job \in snapshots]
  /\ UNCHANGED <<now, job, snapshots, lastRun, alarm, reapAt, runningJobs,
                 alarmBatchRan, batch, tick, deletes, reply, starts, ops>>

\* #recordJobRun: the run becomes the newest of the job's log, from which only
\* the oldest are pruned, whether or not the job's row is still there.
Recorded(j, t) == [lastRun EXCEPT ![j] = t]

\* Mutant: the guard is released as soon as the run is recorded.
RunRecordedGuardFree(t) ==
  /\ EventLoopFree
  /\ act[t].pc = "exec"
  /\ act' = [act EXCEPT ![t].pc = "destroy"]
  /\ lastRun' = Recorded(act[t].job, t)
  /\ runningJobs' = runningJobs \ {act[t].job}
  /\ UNCHANGED <<now, job, snapshots, alarm, reapAt, alarmBatchRan, batch,
                 tick, deletes, reply, starts, ops>>

\* The command has run, or fetch, restore or exec has failed (exit 1): record
\* the run and destroy the Runner.
RunRecorded(t) ==
  /\ EventLoopFree
  /\ \E exit \in {0, 1} :
       /\ act[t].pc = "exec" \/ (act[t].pc = "fetch" /\ exit = 1)
       /\ act' = [act EXCEPT ![t].pc = "destroy", ![t].exit = exit]
  /\ lastRun' = Recorded(act[t].job, t)
  /\ UNCHANGED <<now, job, snapshots, alarm, reapAt, runningJobs,
                 alarmBatchRan, batch, tick, deletes, reply, starts, ops>>

\* Post-run with the row deleted meanwhile: nothing left to do.
PostRunGone(t) ==
  /\ EventLoopFree
  /\ act[t].pc = "destroy"
  /\ ~Live(act[t].job)
  /\ UNCHANGED <<job, reapAt, lastRun>>
  /\ Return(t, FALSE)
  /\ UNCHANGED <<now, snapshots, batch, tick, deletes, ops>>

\* The decision decideAfterRun makes on the row as it is now.
WillRetry(t) ==
  LET row == job[act[t].job]
  IN  Retries(act[t].exit, act[t].origin, row.spec.max, row.attempts)

PostRunRetry(t) ==
  LET j == act[t].job
  IN  /\ EventLoopFree
      /\ act[t].pc = "destroy"
      /\ Live(j)
      /\ WillRetry(t)
      /\ job' = [job EXCEPT ![j].attempts = @ + 1,
                            ![j].next = now + job[j].spec.backoff]
      /\ UNCHANGED <<reapAt, lastRun>>
      /\ Return(t, TRUE)
      /\ UNCHANGED <<now, snapshots, batch, tick, deletes, ops>>

\* The row after a final decision: "keep" and "exhausted" leave it alone.
Finalized(row, resched) ==
  IF resched.tag \in {"cron", "dormant"}
  THEN [row EXCEPT !.next = resched.next, !.attempts = 0]
  ELSE row

PostRunFinal(t) ==
  LET j == act[t].job
      spec == job[j].spec
      resched == Reschedule(act[t].origin, spec.cron, now)
  IN  /\ EventLoopFree
      /\ act[t].pc = "destroy"
      /\ Live(j)
      /\ ~WillRetry(t)
      /\ job' = [job EXCEPT ![j] = Finalized(job[j], resched)]
      /\ act' = [act EXCEPT
           ![t].pc = "notify",
           ![t].exhausted = (resched.tag = "exhausted"),
           ![t].target = ChainTarget(act[t].exit, spec.onOk, spec.onFail)]
      /\ UNCHANGED <<now, snapshots, lastRun, alarm, reapAt, runningJobs,
                     alarmBatchRan, batch, tick, deletes, reply, starts, ops>>

\* The notification is out (or failed): an exhausted job is deleted, any other
\* goes on to its chain.
NotifiedExhausted(t) ==
  /\ EventLoopFree
  /\ act[t].pc = "notify" /\ act[t].exhausted
  /\ job' = [job EXCEPT ![act[t].job].st = "gone"]
  /\ act' = [act EXCEPT ![t].pc = "reclaim"]
  /\ UNCHANGED <<now, snapshots, lastRun, alarm, reapAt, runningJobs,
                 alarmBatchRan, batch, tick, deletes, reply, starts, ops>>

Notified(t) ==
  /\ EventLoopFree
  /\ act[t].pc = "notify" /\ ~act[t].exhausted
  /\ UNCHANGED <<job, reapAt, lastRun>>
  /\ Chain(t)
  /\ UNCHANGED <<now, snapshots, batch, tick, deletes, ops>>

Reclaimed(t) ==
  /\ EventLoopFree
  /\ act[t].pc = "reclaim"
  /\ snapshots' \in {snapshots, snapshots \ {act[t].job}}
  /\ UNCHANGED <<job, reapAt, lastRun>>
  /\ Chain(t)
  /\ UNCHANGED <<now, batch, tick, deletes, ops>>

RunStep(t) ==
  \/ SnapshotFetched(t)
  \/ RunRecorded(t)
  \/ PostRunGone(t)
  \/ PostRunRetry(t)
  \/ PostRunFinal(t)
  \/ NotifiedExhausted(t)
  \/ Notified(t)
  \/ Reclaimed(t)

\* runScheduledJobNow: the answer is null when the run is declined.
RunNow(c, j) ==
  /\ Request("runNow")
  /\ act[c].pc = "idle"
  /\ Live(j)
  /\ ~Declines(j)
  /\ StartRun(c, j, "manual", j, {})
  /\ reply' = [reply EXCEPT ![c] = NoRun]
  /\ UNCHANGED <<now, job, snapshots, lastRun, alarm, reapAt, batch, tick,
                 deletes>>

RunNowRefused(c, j) ==
  /\ Request("runNow")
  /\ act[c].pc = "idle"
  /\ Live(j)
  /\ Declines(j)
  /\ reply' = [reply EXCEPT ![c] = Refused]
  /\ UNCHANGED <<now, job, snapshots, lastRun, alarm, reapAt, runningJobs,
                 alarmBatchRan, act, batch, tick, deletes, starts>>

-----------------------------------------------------------------------------
(* alarm()                                                                 *)

AlarmDelivered ==
  /\ act[Alarm].pc = "idle"
  /\ alarm # Undefined
  /\ alarm <= now

DueJobs == {j \in Jobs : DueRow(job[j], now)}

\* Jobs are due: snapshot their ids and start the loop.  Delivery consumes the
\* alarm.
AlarmFires ==
  /\ AlarmDelivered
  /\ DueJobs # {}
  /\ alarm' = Undefined
  /\ tick' = now
  /\ batch' = [j \in Jobs |-> IF j \in DueJobs THEN job[j].next ELSE 0]
  /\ act' = [act EXCEPT ![Alarm] = [Idle EXCEPT !.pc = "loop"]]
  /\ starts' = [j \in Jobs |-> 0]
  /\ UNCHANGED <<now, job, snapshots, lastRun, reapAt, runningJobs,
                 alarmBatchRan, deletes, reply, ops>>

\* Nothing due, but the session holds jobs.
AlarmRearms ==
  /\ AlarmDelivered
  /\ DueJobs = {}
  /\ AnyRow(job)
  /\ UNCHANGED <<job, reapAt>>
  /\ Rearm
  /\ UNCHANGED <<now, snapshots, lastRun, runningJobs, alarmBatchRan, act,
                 batch, tick, deletes, reply, starts, ops>>

\* Nothing due and no job: close the session.  close() awaits the archive and
\* the container before it wipes.
AlarmReaps ==
  /\ AlarmDelivered
  /\ DueJobs = {}
  /\ ~AnyRow(job)
  /\ alarm' = Undefined
  /\ act' = [act EXCEPT ![Alarm].pc = "closing"]
  /\ UNCHANGED <<now, job, snapshots, lastRun, reapAt, runningJobs,
                 alarmBatchRan, batch, tick, deletes, reply, starts, ops>>

ReapWipes ==
  /\ act[Alarm].pc = "closing"
  /\ WipeStorage
  /\ act' = [act EXCEPT ![Alarm] = Idle]
  /\ UNCHANGED <<now, snapshots, runningJobs, alarmBatchRan, batch, tick,
                 deletes, reply, starts, ops>>

\* The loop is at j, in the order of the deadlines snapshotted.
LoopAt(j) ==
  /\ act[Alarm].pc = "loop"
  /\ batch[j] > 0
  /\ \A k \in Jobs : batch[k] > 0 => batch[j] <= batch[k]

\* Re-validation: the job already ran in this batch, or its row is not due any
\* more at the instant the batch started.
StillDispatchable(j) ==
  /\ j \notin alarmBatchRan
  /\ DueRow(job[j], tick)

LoopSkips(j) ==
  /\ LoopAt(j)
  /\ ~StillDispatchable(j)
  /\ batch' = [batch EXCEPT ![j] = 0]
  /\ UNCHANGED <<now, job, snapshots, lastRun, alarm, reapAt, runningJobs,
                 alarmBatchRan, act, tick, deletes, reply, starts, ops>>

LoopRuns(j) ==
  /\ LoopAt(j)
  /\ StillDispatchable(j)
  /\ j \notin runningJobs
  /\ StartRun(Alarm, j, "schedule", j, {})
  /\ batch' = [batch EXCEPT ![j] = 0]
  /\ UNCHANGED <<now, job, snapshots, lastRun, alarm, reapAt, tick, deletes,
                 reply, ops>>

\* Mutant: the interrupted retry cycle keeps its attempts.
BusySkippedKeepsAttempts(row, resched) == [row EXCEPT !.next = resched.next]

\* The busy-skip's new schedule, which abandons a pending retry.
BusySkipped(row, resched) ==
  [row EXCEPT !.next = resched.next, !.attempts = 0]

LoopBusy(j) ==
  LET resched == RescheduleFromCron(job[j].spec.cron, now)
  IN  /\ LoopAt(j)
      /\ StillDispatchable(j)
      /\ j \in runningJobs
      /\ resched.tag # "exhausted"
      /\ job' = [job EXCEPT ![j] = BusySkipped(job[j], resched)]
      /\ batch' = [batch EXCEPT ![j] = 0]
      /\ UNCHANGED <<now, snapshots, lastRun, alarm, reapAt, runningJobs,
                     alarmBatchRan, act, tick, deletes, reply, starts, ops>>

\* The busy job has no further occurrence: delete it and await the reclaim.
LoopBusyExhausted(j) ==
  /\ LoopAt(j)
  /\ StillDispatchable(j)
  /\ j \in runningJobs
  /\ RescheduleFromCron(job[j].spec.cron, now).tag = "exhausted"
  /\ job' = [job EXCEPT ![j].st = "gone"]
  /\ batch' = [batch EXCEPT ![j] = 0]
  /\ act' = [act EXCEPT ![Alarm].pc = "busyReclaim", ![Alarm].base = j]
  /\ UNCHANGED <<now, snapshots, lastRun, alarm, reapAt, runningJobs,
                 alarmBatchRan, tick, deletes, reply, starts, ops>>

BusyReclaimed ==
  /\ act[Alarm].pc = "busyReclaim"
  /\ snapshots' \in {snapshots, snapshots \ {act[Alarm].base}}
  /\ act' = [act EXCEPT ![Alarm] = [Idle EXCEPT !.pc = "loop"]]
  /\ UNCHANGED <<now, job, lastRun, alarm, reapAt, runningJobs, alarmBatchRan,
                 batch, tick, deletes, reply, starts, ops>>

LoopEnds ==
  /\ act[Alarm].pc = "loop"
  /\ \A j \in Jobs : batch[j] = 0
  /\ alarmBatchRan' = {}
  /\ act' = [act EXCEPT ![Alarm] = Idle]
  /\ UNCHANGED <<job, reapAt>>
  /\ Rearm
  /\ UNCHANGED <<now, snapshots, lastRun, runningJobs, batch, tick, deletes,
                 reply, starts, ops>>

AlarmStep ==
  \/ AlarmFires
  \/ AlarmRearms
  \/ AlarmReaps
  \/ ReapWipes
  \/ \E j \in Jobs : \/ LoopSkips(j)
                     \/ LoopRuns(j)
                     \/ LoopBusy(j)
                     \/ LoopBusyExhausted(j)
  \/ BusyReclaimed
  \/ LoopEnds

-----------------------------------------------------------------------------
(* The environment and the specification                                   *)

ClockTicks ==
  /\ EventLoopFree
  /\ now < MaxTime
  /\ now' = now + 1
  /\ UNCHANGED <<job, snapshots, lastRun, alarm, reapAt, runningJobs,
                 alarmBatchRan, act, batch, tick, deletes, reply, starts, ops>>

\* The object is evicted: what was in memory and every call in flight is lost.
\* An alarm whose handler had not returned is delivered again (it is overdue:
\* instant 0), unless another was set meanwhile.
Evict ==
  /\ Request("evict")
  /\ act' = [t \in Threads |-> Idle]
  /\ runningJobs' = {}
  /\ alarmBatchRan' = {}
  /\ batch' = [j \in Jobs |-> 0]
  /\ starts' = [j \in Jobs |-> 0]
  /\ deletes' = {}
  /\ reply' = [c \in Callers |-> NoRun]
  /\ job' = [j \in Jobs |-> IF job[j].st = "promoting"
                            THEN [job[j] EXCEPT !.st = "gone"] ELSE job[j]]
  /\ alarm' = IF act[Alarm].pc # "idle" /\ alarm = Undefined THEN 0 ELSE alarm
  /\ UNCHANGED <<now, snapshots, lastRun, reapAt, tick>>

ClientStep ==
  \/ \E j \in Jobs : \/ \E s \in JobSpecs : CreateJob(j, s)
                     \/ InsertJob(j)
                     \/ PromoteFails(j)
                     \/ PauseJob(j)
                     \/ ResumeJob(j)
                     \/ DeleteJob(j)
                     \/ FinishDelete(j)
                     \/ \E c \in Callers : RunNow(c, j) \/ RunNowRefused(c, j)
  \/ UserActivity
  \/ Reset

Next ==
  \/ ClientStep
  \/ AlarmStep
  \/ \E t \in Threads : RunStep(t)
  \/ ClockTicks
  \/ Evict

\* The object's own code runs on, R2 and the Runner answer or fail, and the
\* platform delivers the alarm.  Clients owe nothing.
Fairness ==
  /\ WF_vars(AlarmStep)
  /\ \A t \in Threads : WF_vars(RunStep(t))

Spec == Init /\ [][Next]_vars
FairSpec == Spec /\ Fairness

-----------------------------------------------------------------------------
(* Safety                                                                  *)

\* At most one run of a job is in flight, whoever started it: no two calls
\* hold the same job's guard, and the guard set is what the calls hold, through
\* the post-run sequence and the whole cascade (#runningJobs, GUARD LIFETIME).
OneRunPerJob ==
  /\ \A t, u \in Threads : t # u => act[t].holds \cap act[u].holds = {}
  /\ runningJobs = UNION {act[t].holds : t \in Threads}

\* While any job could fire there is an alarm set, whenever alarm() is not
\* itself running: no retry, resume, cascade or eviction leaves a job waiting
\* for an alarm nobody set (#rearmAlarm, LOAD-BEARING in #runScheduledJob).
AlarmNeverLost ==
  act[Alarm].pc = "idle" /\ (\E j \in Jobs : ActiveRow(job[j]))
    => alarm # Undefined

\* Nor is it set too late for a job that is not running at the moment.
AlarmNotLate ==
  act[Alarm].pc = "idle" =>
    \A j \in Jobs \ runningJobs :
      ActiveRow(job[j]) => alarm # Undefined /\ alarm <= job[j].next

\* A pending retry cycle has a deadline and tries left: nothing that takes the
\* deadline away (final decision, busy-skip, resume) forgets to end the cycle,
\* which would make the next failure burn tries it never used.
PendingRetryHasDeadline ==
  \A j \in Jobs : Live(j) /\ job[j].attempts > 0 =>
    /\ job[j].next > 0
    /\ job[j].attempts < job[j].spec.max

\* One alarm tick starts a job at most once, though it be due itself and the
\* target of others (#alarmBatchRan).
OncePerTick == \A j \in Jobs : BatchLive => starts[j] <= 1

\* A job of the session has its promoted workspace in R2.
LiveJobHasSnapshot == \A j \in Jobs : Live(j) => j \in snapshots

\* run-now answers with the run it started, or with none once a reset has
\* cleared the log; never with somebody else's (runScheduledJobNow).
RunNowAnswersOwnRun ==
  \A c \in Callers : reply[c] \in {c, NoRun, Refused}

\* A run executes in its job's dedicated workspace, never in an empty one
\* (#runScheduledJob), unless the job was deleted or wiped since it started.
RunsInItsWorkspace ==
  \A t \in Threads :
    act[t].pc = "exec" /\ ~act[t].restored => ~Live(act[t].job)

-----------------------------------------------------------------------------
(* Liveness                                                                *)

\* A job that falls due is fired, rescheduled or withdrawn: it does not stay
\* due for ever.
DueJobIsHandled ==
  \A j \in Jobs : DueRow(job[j], now) ~> ~DueRow(job[j], now)
=============================================================================
