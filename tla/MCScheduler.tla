---------------------------- MODULE MCScheduler -----------------------------
(* Small instances of Scheduler for TLC.  Time runs to MaxTime; every cron   *)
(* but OneShot has an occurrence beyond it, so that it never runs out.       *)
EXTENDS Scheduler, TLC

CONSTANTS c1, c2, al

\* A job that only a chain starts, tried twice.
Step == [cron |-> {}, max |-> 2, backoff |-> 1, onOk |-> NoJob, onFail |-> NoJob]

\* A job that fires by itself, tried twice, and starts nothing.
Leaf == [cron |-> {2, 4, 9}, max |-> 2, backoff |-> 1, onOk |-> NoJob,
         onFail |-> NoJob]

\* A job that fires at the same instants and then starts job 1.
Head1 == [cron |-> {2, 4, 9}, max |-> 0, backoff |-> 1, onOk |-> 1, onFail |-> 1]

\* The same with a cron that runs out.
OneShot == [cron |-> {2}, max |-> 0, backoff |-> 1, onOk |-> 1, onFail |-> NoJob]

\* A retry deadline further away than the next occurrence of its cron.
LongRetry == [cron |-> {2, 3, 9}, max |-> 2, backoff |-> 4, onOk |-> NoJob,
              onFail |-> NoJob]

ChainSpecs == {Step, Leaf, Head1}
MixedSpecs == {Step, OneShot, LongRetry}

AllRequests == {"create", "runNow", "pause", "resume", "delete", "activity",
                "reset", "evict"}
NoEvict == AllRequests \ {"evict"}
=============================================================================
