--------------------------- MODULE QueueConsumers ---------------------------
(***************************************************************************)
(* The consumers of one queue (apps/api/src/queue/processors): process of  *)
(* NotificationsProcessor, which WebhooksProcessor and SyncJobsProcessor   *)
(* repeat word for word, with QueueIdempotencyService.runOnce and          *)
(* QueueDlqService.moveToDlq, in several worker processes.                 *)
(*                                                                         *)
(* The jobs in Job \ (Keyless \cup Immediate \cup RetryThenDlq) carry one  *)
(* and the same outboxEventId (different events have different keys in     *)
(* Redis and do not meet): a row that was dispatched twice, or redriven    *)
(* from the dead-letter queue.                                             *)
(*                                                                         *)
(* BullMQ is external: it gives a waiting job to an idle worker, puts a    *)
(* failed one off with exponential backoff until its attempts are used up, *)
(* and takes a job back from a worker whose claim on it has expired -- the *)
(* worker may be dead, or only late and still at it.                       *)
(***************************************************************************)
EXTENDS Integers

CONSTANTS
  Job,
  Keyless,       \* jobs without outboxEventId
  Immediate,     \* jobs that ask for the dead-letter queue at once
  RetryThenDlq,  \* jobs that ask for it after their attempts
  Worker,
  Attempts,      \* attempts of QUEUE_DEFAULTS
  Delay,         \* backoff delay of QUEUE_DEFAULTS, in ticks
  LockTtl,       \* QUEUE_IDEMPOTENCY_LOCK_MS, in ticks
  MaxStalled,    \* how often BullMQ takes a job back before it fails it
  MaxFaults,     \* bound on crashes, expired claims and failed calls
  NULL

ASSUME QueueAssumption ==
  /\ Keyless \subseteq Job /\ Immediate \subseteq Job /\ RetryThenDlq \subseteq Job
  /\ Attempts \in Nat \ {0}
  /\ Delay \in Nat /\ LockTtl \in Nat \ {0}
  /\ MaxStalled \in Nat /\ MaxFaults \in Nat
  /\ NULL \notin Worker /\ NULL \notin Job

Keyed == Job \ (Keyless \cup Immediate \cup RetryThenDlq)

VARIABLES
  job,      \* BullMQ: state of a job, failed attempts, backoff left, stalls, worker
  dlq,      \* jobs with an entry in the dead-letter queue
  done,     \* the done key of the event exists
  lock,     \* ticks left of the lock key of the event, 0 if there is none
  lockedBy, \* history: the run that set the lock and has not lost it
  run,      \* what a worker is awaiting, for which job, and with what outcome
  writes,   \* lines a job has written to the sink
  unsure,   \* history: jobs of which a run lost its lock, or a call its effect
  faults

vars == <<job, dlq, done, lock, lockedBy, run, writes, unsure, faults>>

Idle == [at |-> "idle", job |-> NULL, attempt |-> 1, ok |-> TRUE]
Run  == [at : {"idle", "route", "check", "lock", "busy", "recheck", "handler",
               "record", "unlock", "end"},
         job : Job \cup {NULL}, attempt : 1..Attempts, ok : BOOLEAN]

\* BullMQ's exponential backoff after n failed attempts.
Backoff(n) == Delay * 2 ^ (n - 1)

BullJob == [state : {"wait", "active", "delayed", "completed", "failed"},
            made : 0..Attempts, left : Int, stalls : 0..MaxStalled + 1,
            by : Worker \cup {NULL}]

TypeOK ==
  /\ job \in [Job -> BullJob]
  /\ dlq \subseteq Job
  /\ done \in BOOLEAN
  /\ lock \in 0..LockTtl
  /\ lockedBy \in Worker \cup {NULL}
  /\ run \in [Worker -> Run]
  /\ \A w \in Worker : run[w].at = "idle" <=> run[w].job = NULL
  /\ writes \in [Job -> Nat]
  /\ unsure \subseteq Job
  /\ faults \in 0..MaxFaults

Init ==
  /\ job = [j \in Job |-> [state |-> "wait", made |-> 0, left |-> 0, stalls |-> 0,
                           by |-> NULL]]
  /\ dlq = {}
  /\ done = FALSE
  /\ lock = 0
  /\ lockedBy = NULL
  /\ run = [w \in Worker |-> Idle]
  /\ writes = [j \in Job |-> 0]
  /\ unsure = {}
  /\ faults = 0

At(w, a)     == run[w].at = a
Goto(w, a)   == run' = [run EXCEPT ![w].at = a]
End(w, a, b) == run' = [run EXCEPT ![w].at = a, ![w].ok = b]
Fault        == faults < MaxFaults /\ faults' = faults + 1
redis        == <<done, lock, lockedBy>>

-----------------------------------------------------------------------------
(* process.                                                                *)

Pick(w, j) ==
  /\ At(w, "idle")
  /\ job[j].state = "wait"
  /\ job' = [job EXCEPT ![j].state = "active", ![j].by = w]
  /\ run' = [run EXCEPT ![w] = [at |-> "route", job |-> j, attempt |-> job[j].made + 1,
                                ok |-> TRUE]]
  /\ UNCHANGED <<dlq, redis, writes, unsure, faults>>

\* Mutated form of WantsDlq: the last attempt is taken for one too few.
WantsDlqLate(w) ==
  run[w].job \in Immediate \/ (run[w].job \in RetryThenDlq /\ run[w].attempt > Attempts)

WantsDlq(w) ==
  run[w].job \in Immediate \/ (run[w].job \in RetryThenDlq /\ run[w].attempt >= Attempts)

\* The branches of process: moveToDlq and throw, throw, or on to runOnce.  The
\* job id of the entry is made from the job's, so that an entry there is kept.
Route(w) ==
  LET j == run[w].job IN
  /\ At(w, "route")
  /\ IF j \in Immediate \cup RetryThenDlq
       THEN /\ dlq' = IF WantsDlq(w) THEN dlq \cup {j} ELSE dlq
            /\ End(w, "end", FALSE)
       ELSE Goto(w, IF j \in Keyless THEN "handler" ELSE "check") /\ UNCHANGED dlq
  /\ UNCHANGED <<job, redis, writes, unsure, faults>>

-----------------------------------------------------------------------------
(* runOnce.                                                                *)

\* Mutated form of Check: EXISTS of the lock key, so that a run under way, or
\* only its lock, passes for a duplicate.
CheckLockKey(w) ==
  /\ At(w, "check")
  /\ Goto(w, IF done \/ lock > 0 THEN "end" ELSE "lock")
  /\ UNCHANGED <<job, dlq, redis, writes, unsure, faults>>

\* EXISTS done: a duplicate, or on to the lock.
Check(w) ==
  /\ At(w, "check")
  /\ Goto(w, IF done THEN "end" ELSE "lock")
  /\ UNCHANGED <<job, dlq, redis, writes, unsure, faults>>

\* Mutated form of Lock: EX instead of PX, the time to live taken for seconds.
LockInSeconds(w) ==
  /\ At(w, "lock")
  /\ IF lock = 0
       THEN lock' = 1000 * LockTtl /\ lockedBy' = w /\ Goto(w, "recheck")
       ELSE UNCHANGED <<lock, lockedBy>> /\ Goto(w, "busy")
  /\ UNCHANGED <<job, dlq, done, writes, unsure, faults>>

\* SET lock NX PX.
Lock(w) ==
  /\ At(w, "lock")
  /\ IF lock = 0
       THEN lock' = LockTtl /\ lockedBy' = w /\ Goto(w, "recheck")
       ELSE UNCHANGED <<lock, lockedBy>> /\ Goto(w, "busy")
  /\ UNCHANGED <<job, dlq, done, writes, unsure, faults>>

\* Mutated form of Busy: whoever has the lock will do it.
BusyIsDuplicate(w) ==
  /\ At(w, "busy")
  /\ End(w, "end", TRUE)
  /\ UNCHANGED <<job, dlq, redis, writes, unsure, faults>>

\* EXISTS done again: a duplicate by now, or 'idempotency lock busy'.
Busy(w) ==
  /\ At(w, "busy")
  /\ End(w, "end", done)
  /\ UNCHANGED <<job, dlq, redis, writes, unsure, faults>>

\* Mutated form of Recheck: the done key is not looked at under the lock.
RecheckNot(w) ==
  /\ At(w, "recheck")
  /\ Goto(w, "handler")
  /\ UNCHANGED <<job, dlq, redis, writes, unsure, faults>>

\* EXISTS done under the lock.
Recheck(w) ==
  /\ At(w, "recheck")
  /\ Goto(w, IF done THEN "unlock" ELSE "handler")
  /\ UNCHANGED <<job, dlq, redis, writes, unsure, faults>>

\* sink.write.
Handle(w) ==
  LET j == run[w].job IN
  /\ At(w, "handler")
  /\ writes' = [writes EXCEPT ![j] = writes[j] + 1]
  /\ Goto(w, IF j \in Keyless THEN "end" ELSE "record")
  /\ UNCHANGED <<job, dlq, redis, unsure, faults>>

\* SET done EX.
Record(w) ==
  /\ At(w, "record")
  /\ done' = TRUE
  /\ Goto(w, "unlock")
  /\ UNCHANGED <<job, dlq, lock, lockedBy, writes, unsure, faults>>

\* finally: DEL lock, whoever has set it.
Unlock(w) ==
  /\ At(w, "unlock")
  /\ lock' = 0
  /\ lockedBy' = NULL
  /\ Goto(w, "end")
  /\ UNCHANGED <<job, dlq, done, writes, unsure, faults>>

\* A call throws, before or after its effect.  Under the lock that leads to the
\* finally, elsewhere out of process.
Throws(w) ==
  LET j == run[w].job IN
  /\ Fault
  /\ \/ /\ At(w, "route") /\ WantsDlq(w)
        /\ dlq' \in {dlq, dlq \cup {j}}
        /\ unsure' = unsure \cup {j}
        /\ End(w, "end", FALSE)
        /\ UNCHANGED <<redis, writes>>
     \/ /\ At(w, "check") \/ At(w, "busy")
        /\ End(w, "end", FALSE)
        /\ UNCHANGED <<dlq, redis, writes, unsure>>
     \/ /\ At(w, "lock")
        /\ lock' \in IF lock = 0 THEN {0, LockTtl} ELSE {lock}
        /\ End(w, "end", FALSE)
        /\ UNCHANGED <<dlq, done, lockedBy, writes, unsure>>
     \/ /\ At(w, "recheck")
        /\ End(w, "unlock", FALSE)
        /\ UNCHANGED <<dlq, redis, writes, unsure>>
     \/ /\ At(w, "handler")
        /\ \/ UNCHANGED <<writes, unsure>>
           \/ /\ writes' = [writes EXCEPT ![j] = writes[j] + 1]
              /\ unsure' = unsure \cup {j}
        /\ End(w, IF j \in Keyless THEN "end" ELSE "unlock", FALSE)
        /\ UNCHANGED <<dlq, redis>>
     \/ /\ At(w, "record")
        /\ done' \in {done, TRUE}
        /\ unsure' = IF done' THEN unsure ELSE unsure \cup {j}
        /\ End(w, "unlock", FALSE)
        /\ UNCHANGED <<dlq, lock, lockedBy, writes>>
     \/ /\ At(w, "unlock")
        /\ UNCHANGED lock \/ lock' = 0
        /\ lockedBy' = IF lockedBy = w \/ lock' = 0 THEN NULL ELSE lockedBy
        /\ End(w, "end", FALSE)
        /\ UNCHANGED <<dlq, done, writes, unsure>>
  /\ UNCHANGED job

-----------------------------------------------------------------------------
(* BullMQ, the processes and time.                                         *)

\* The outcome of process, if the job is still this worker's.
Finish(w) ==
  LET j == run[w].job  made == job[j].made + 1 IN
  /\ At(w, "end")
  /\ run' = [run EXCEPT ![w] = Idle]
  /\ job' = IF job[j].by # w THEN job
            ELSE [job EXCEPT ![j] =
              [state |-> IF run[w].ok THEN "completed"
                         ELSE IF made >= Attempts THEN "failed" ELSE "delayed",
               made |-> IF run[w].ok THEN job[j].made ELSE made,
               left |-> IF run[w].ok \/ made >= Attempts THEN 0 ELSE Backoff(made),
               stalls |-> job[j].stalls, by |-> NULL]]
  /\ UNCHANGED <<dlq, redis, writes, unsure, faults>>

\* The claim of a worker on its job expires although the worker is alive.
ClaimExpires(j) ==
  /\ job[j].by # NULL
  /\ Fault
  /\ job' = [job EXCEPT ![j].by = NULL]
  /\ UNCHANGED <<dlq, redis, run, writes, unsure>>

\* The check for stalled jobs.
TakeBack(j) ==
  /\ job[j].state = "active" /\ job[j].by = NULL
  /\ job' = [job EXCEPT ![j].stalls = job[j].stalls + 1,
               ![j].state = IF job[j].stalls >= MaxStalled THEN "failed" ELSE "wait"]
  /\ UNCHANGED <<dlq, redis, run, writes, unsure, faults>>

Crash(w) ==
  LET j == run[w].job IN
  /\ ~At(w, "idle")
  /\ Fault
  /\ run' = [run EXCEPT ![w] = Idle]
  /\ job' = [job EXCEPT ![j].by = IF job[j].by = w THEN NULL ELSE job[j].by]
  /\ lockedBy' = IF lockedBy = w THEN NULL ELSE lockedBy
  /\ unsure' = IF At(w, "record") THEN unsure \cup {j} ELSE unsure
  /\ UNCHANGED <<dlq, done, lock, writes>>

\* The lock runs out; a run that set it, and is not through, has lost it.
Tick ==
  /\ lock > 0 \/ \E j \in Job : job[j].state = "delayed"
  /\ lock' = IF lock > 0 THEN lock - 1 ELSE 0
  /\ lockedBy' = IF lock' = 0 THEN NULL ELSE lockedBy
  /\ unsure' = IF lock' = 0 /\ lockedBy # NULL /\ ~done THEN unsure \cup {run[lockedBy].job}
               ELSE unsure
  /\ job' = [j \in Job |->
       IF job[j].state # "delayed" THEN job[j]
       ELSE IF job[j].left <= 1 THEN [job[j] EXCEPT !.left = 0, !.state = "wait"]
       ELSE [job[j] EXCEPT !.left = job[j].left - 1]]
  /\ UNCHANGED <<dlq, done, run, writes, faults>>

Process(w) ==
  \/ Route(w) \/ Check(w) \/ Lock(w) \/ Busy(w) \/ Recheck(w)
  \/ Handle(w) \/ Record(w) \/ Unlock(w) \/ Finish(w)

Next ==
  \/ \E w \in Worker : Process(w) \/ Throws(w) \/ Crash(w) \/ \E j \in Job : Pick(w, j)
  \/ \E j \in Job : ClaimExpires(j) \/ TakeBack(j)
  \/ Tick

Spec == Init /\ [][Next]_vars

\* BullMQ gives out waiting jobs, takes stalled ones back and the clock goes on;
\* a handler that is not killed goes on.  Faults need not happen.
FairSpec ==
  /\ Spec
  /\ WF_vars(Tick)
  /\ WF_vars(\E w \in Worker, j \in Job : Pick(w, j))
  /\ \A w \in Worker : WF_vars(Process(w))
  /\ WF_vars(\E j \in Job : TakeBack(j))

-----------------------------------------------------------------------------
(* Properties.                                                             *)

\* The event is written to the sink at most once, whatever number of jobs carry
\* it and however often they are retried or taken back from a worker that is
\* still at it, unless a run overran its lock or ended between a write and its
\* record.
WrittenOnce ==
  unsure \cap Keyed = {} =>
    \A i, j \in Keyed : writes[i] + (IF i = j THEN 0 ELSE writes[j]) <= 1

\* A job is acknowledged only when its effect is in the sink: one that is
\* skipped as a duplicate relies on another run, which must have written.
CompletedWasWritten ==
  \A j \in Job : job[j].state = "completed" =>
    IF j \in Keyless THEN writes[j] > 0 ELSE \E i \in Keyed : writes[i] > 0

\* A job that asks for the dead-letter queue and has failed is there, also when
\* workers died or lost their claim on it, unless moveToDlq itself reported an
\* error or BullMQ gave the job up as stalled.
FailedIsDeadLettered ==
  \A j \in (Immediate \cup RetryThenDlq) \ unsure :
    job[j].state = "failed" /\ job[j].stalls <= MaxStalled => j \in dlq

\* A lock of the event that no run will delete: its run died, or lost the answer
\* of the SET or the DEL.
LockLeft == lock > 0 /\ lockedBy = NULL

\* The event is written, whoever dies or fails at whatever step, unless a run has
\* left its lock behind: then, as the lock outlasts all the backoffs, every job of
\* the event may end in BullMQ's failed set, but there it does end.  No run is
\* stuck, and no job is acknowledged for an event that nobody will write.  One
\* fault is assumed: with a second, a job may use its attempts up on a lock that
\* another run still has, and that run's job be given up as stalled.
EventIsWritten ==
  \/ <>(\E j \in Keyed : writes[j] > 0)
  \/ <>LockLeft /\ <>[](\A j \in Keyed : job[j].state = "failed")

=============================================================================
