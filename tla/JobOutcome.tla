----------------------------- MODULE JobOutcome -----------------------------
(***************************************************************************)
(* The pure decision engine a scheduled-job run ends with                  *)
(* (apps/api/src/JobOutcome.ts), and the two pure helpers its caller uses: *)
(* the next occurrence of a cron expression and the soonest deadline       *)
(* (AlarmSchedule.ts).                                                     *)
(*                                                                         *)
(* A cron expression is abstracted to the set of instants at which it      *)
(* occurs.  The empty-string sentinel of a chain-only job is the empty     *)
(* set: a real expression that never occurs is rejected when the job is    *)
(* created, so the two are never confused.                                 *)
(***************************************************************************)
EXTENDS Integers

Origins == {"schedule", "manual", "chain"}

\* `undefined`, for the results that are instants.
Undefined == -1

Earliest(S) == CHOOSE d \in S : \A e \in S : d <= e

\* nextCronOccurrence: the first occurrence strictly after t.
NextOccurrence(cron, t) ==
  LET later == {s \in cron : s > t}
  IN  IF later = {} THEN Undefined ELSE Earliest(later)

\* soonestDeadline
SoonestDeadline(deadlines) ==
  IF deadlines = {} THEN Undefined ELSE Earliest(deadlines)

\* A failed schedule- or chain-origin run with tries left is retried; max = 0
\* stands for a job without a retry policy.
Retries(exit, origin, max, attempts) ==
  /\ exit # 0
  /\ max # 0
  /\ origin # "manual"
  /\ attempts + 1 < max

\* rescheduleFromCron
RescheduleFromCron(cron, t) ==
  CASE cron = {} -> [tag |-> "dormant", next |-> 0]
    [] cron # {} /\ NextOccurrence(cron, t) = Undefined ->
         [tag |-> "exhausted", next |-> 0]
    [] OTHER -> [tag |-> "cron", next |-> NextOccurrence(cron, t)]

\* A run-now keeps the deadline it finds; a schedule or chain run consumes it.
Reschedule(origin, cron, t) ==
  IF origin = "manual" THEN [tag |-> "keep", next |-> 0]
                       ELSE RescheduleFromCron(cron, t)

ChainTarget(exit, onSuccess, onFailure) ==
  IF exit = 0 THEN onSuccess ELSE onFailure
=============================================================================
