-------------------------- MODULE OutboxDispatcher --------------------------
(***************************************************************************)
(* OutboxDispatcherService.drainOnce                                       *)
(* (apps/api/src/outbox/outbox-dispatcher.service.ts), run by several      *)
(* dispatcher processes against one table OutboxEvent and the BullMQ       *)
(* queues.  A run revives stale locks, claims a batch of pending rows      *)
(* under row locks, and then, row by row, adds a job to a queue and writes *)
(* the outcome back BY ID: whether the row is still its own is not asked.  *)
(*                                                                         *)
(* A run is split at its awaits.  Every call may fail, also after its      *)
(* effect was applied (the reply is lost), and a process may stop between  *)
(* any two steps and start again.  Time is kept relative to the row: the   *)
(* age of its lock, and the ticks until it is available again.             *)
(***************************************************************************)
EXTENDS Integers, FiniteSets

CONSTANTS
  Row,          \* outbox rows, numbered in the order of createdAt
  Unknown,      \* rows whose eventType no queue is known for
  Worker,       \* dispatcher processes
  Limit,        \* rows a run claims at most
  MaxAttempts,  \* OUTBOX_DISPATCH_MAX_ATTEMPTS
  StaleLock,    \* OUTBOX_STALE_LOCK_MS, in ticks
  RetryDelay,   \* how long a failed row is put off, in ticks
  MaxFaults,    \* bound on crashes and failed database calls
  NULL

ASSUME OutboxAssumption ==
  /\ Row \subseteq Nat
  /\ Unknown \subseteq Row
  /\ NULL \notin Worker
  /\ Limit \in Nat \ {0}
  /\ MaxAttempts \in Nat \ {0}
  /\ StaleLock \in Nat
  /\ RetryDelay \in Nat
  /\ MaxFaults \in Nat

VARIABLES
  outbox,    \* table OutboxEvent
  queued,    \* rows for which a queue has accepted a job (jobId = row id)
  pc,        \* where the run of a worker is
  batch,     \* the claimed rows a run has still to handle
  snap,      \* attempts of the claimed rows, as the claim returned them
  late,      \* history: rows revived while a run was still holding them
  unsure,    \* history: rows marked SENT in a call that reported an error
  faults     \* number of faults so far

vars == <<outbox, queued, pc, batch, snap, late, unsure, faults>>

Status == {"PENDING", "PROCESSING", "SENT", "FAILED"}
OutboxRow == [status: Status, attempts: Nat, wait: 0..RetryDelay,
              age: 0..StaleLock + 1, lockedBy: Worker \cup {NULL}]

NewRow == [status |-> "PENDING", attempts |-> 0, wait |-> 0, age |-> 0,
           lockedBy |-> NULL]

TypeOK ==
  /\ outbox \in [Row -> OutboxRow]
  /\ queued \subseteq Row
  /\ pc \in [Worker -> {"idle", "claim", "claimed", "add", "mark", "retry"}]
  /\ batch \in [Worker -> SUBSET Row]
  /\ snap \in [Worker -> [Row -> Nat]]
  /\ late \subseteq Row
  /\ unsure \subseteq Row
  /\ faults \in 0..MaxFaults

Init ==
  /\ outbox = [r \in Row |-> NewRow]
  /\ queued = {}
  /\ pc = [w \in Worker |-> "idle"]
  /\ batch = [w \in Worker |-> {}]
  /\ snap = [w \in Worker |-> [r \in Row |-> 0]]
  /\ late = {}
  /\ unsure = {}
  /\ faults = 0

\* The rows a run will still write to.
Held(w) == IF pc[w] = "claimed" THEN {} ELSE batch[w]

\* Rows under the row lock of a claim that has not committed.
Locked == UNION {batch[w] : w \in {v \in Worker : pc[v] = "claimed"}}

\* The run handles its rows in the order it selected them.
IsNext(w, r) == r \in batch[w] /\ \A q \in batch[w] : r <= q

-----------------------------------------------------------------------------
(* The claim.                                                              *)

\* Mutated form of Stale: the age of the lock alone.
StaleByAge(r) == outbox[r].age > StaleLock

Stale(r) == outbox[r].status = "PROCESSING" /\ outbox[r].age > StaleLock

\* reviveStaleLocks: one UPDATE over all rows.
Revive(w) ==
  /\ pc[w] = "idle"
  /\ pc' = [pc EXCEPT ![w] = "claim"]
  /\ outbox' = [r \in Row |-> IF Stale(r)
                  THEN [outbox[r] EXCEPT !.status = "PENDING", !.lockedBy = NULL]
                  ELSE outbox[r]]
  /\ late' = late \cup {r \in Row : Stale(r) /\ \E v \in Worker : r \in Held(v)}
  /\ UNCHANGED <<queued, batch, snap, unsure, faults>>

\* Mutated form of Claimable: SELECT without FOR UPDATE SKIP LOCKED.
ClaimableUnlocked == {r \in Row : outbox[r].status = "PENDING" /\ outbox[r].wait = 0}

Claimable == {r \in Row : outbox[r].status = "PENDING" /\ outbox[r].wait = 0} \ Locked

\* claimBatch, SELECT ... ORDER BY createdAt LIMIT FOR UPDATE SKIP LOCKED.
ClaimSelect(w) ==
  /\ pc[w] = "claim"
  /\ \E S \in SUBSET Claimable :
       /\ Cardinality(S) <= Limit
       /\ S # Claimable => Cardinality(S) = Limit
       /\ \A r \in S, q \in Claimable \ S : r < q
       /\ batch' = [batch EXCEPT ![w] = S]
       /\ snap' = [snap EXCEPT ![w] = [r \in Row |-> IF r \in S THEN outbox[r].attempts ELSE 0]]
       /\ pc' = [pc EXCEPT ![w] = IF S = {} THEN "idle" ELSE "claimed"]
  /\ UNCHANGED <<outbox, queued, late, unsure, faults>>

\* claimBatch, the UPDATE by id, and COMMIT.
ClaimUpdate(w) ==
  /\ pc[w] = "claimed"
  /\ pc' = [pc EXCEPT ![w] = "add"]
  /\ outbox' = [r \in Row |-> IF r \in batch[w]
                  THEN [outbox[r] EXCEPT !.status = "PROCESSING", !.age = 0, !.lockedBy = w]
                  ELSE outbox[r]]
  /\ UNCHANGED <<queued, batch, snap, late, unsure, faults>>

-----------------------------------------------------------------------------
(* The loop over the claimed rows.                                         *)

\* Mutated form of Dispatch: an error of the queue is logged and passed over.
DispatchSwallows(w, r) ==
  /\ pc[w] = "add"
  /\ IsNext(w, r)
  /\ queued' \in {queued} \cup {queued \cup {q} : q \in {r} \ Unknown}
  /\ pc' = [pc EXCEPT ![w] = "mark"]
  /\ UNCHANGED <<outbox, batch, snap, late, unsure, faults>>

\* dispatchOne: route throws for an unknown type; a queue add may fail, with
\* or without having created the job.
Dispatch(w, r) ==
  /\ pc[w] = "add"
  /\ IsNext(w, r)
  /\ \/ /\ r \notin Unknown
        /\ queued' = queued \cup {r}
        /\ pc' = [pc EXCEPT ![w] = "mark"]
     \/ /\ queued' \in {queued} \cup {queued \cup {q} : q \in {r} \ Unknown}
        /\ pc' = [pc EXCEPT ![w] = "retry"]
  /\ UNCHANGED <<outbox, batch, snap, late, unsure, faults>>

\* On to the next row, or back to the caller.
Advance(w, r) ==
  /\ batch' = [batch EXCEPT ![w] = batch[w] \ {r}]
  /\ pc' = [pc EXCEPT ![w] = IF batch[w] = {r} THEN "idle" ELSE "add"]

Sent(row)     == [row EXCEPT !.status = "SENT", !.lockedBy = NULL]
Failed(row)   == [row EXCEPT !.status = "FAILED", !.attempts = row.attempts + 1,
                             !.lockedBy = NULL]
\* Mutated form of PutOff: nextAvailableAt without its cap of 300 seconds.
PutOffUncapped(row) == [row EXCEPT !.status = "PENDING", !.attempts = row.attempts + 1,
                                   !.wait = RetryDelay + row.attempts, !.lockedBy = NULL]

\* Mutated form of PutOff: the attempt is not counted.
PutOffUncounted(row) == [row EXCEPT !.status = "PENDING", !.wait = RetryDelay,
                                    !.lockedBy = NULL]

PutOff(row)   == [row EXCEPT !.status = "PENDING", !.attempts = row.attempts + 1,
                             !.wait = RetryDelay, !.lockedBy = NULL]

\* markSent, an UPDATE by id; a row lock of another run's claim is waited for.
MarkSent(w, r) ==
  /\ pc[w] = "mark"
  /\ IsNext(w, r)
  /\ r \notin Locked
  /\ outbox' = [outbox EXCEPT ![r] = Sent(outbox[r])]
  /\ Advance(w, r)
  /\ UNCHANGED <<queued, snap, late, unsure, faults>>

\* markSent throws: to the catch branch, the update applied or not.
MarkSentFails(w, r) ==
  /\ pc[w] = "mark"
  /\ IsNext(w, r)
  /\ faults < MaxFaults
  /\ faults' = faults + 1
  /\ pc' = [pc EXCEPT ![w] = "retry"]
  /\ \/ UNCHANGED <<outbox, unsure>>
     \/ /\ r \notin Locked
        /\ outbox' = [outbox EXCEPT ![r] = Sent(outbox[r])]
        /\ unsure' = unsure \cup {r}
  /\ UNCHANGED <<queued, batch, snap, late>>

\* Mutated form of AfterFailure: gives up one attempt early.
AfterFailureEarly(row, seen) ==
  IF seen + 2 >= MaxAttempts THEN Failed(row) ELSE PutOff(row)

\* markRetryOrFailed decides on the attempts the claim returned.
AfterFailure(row, seen) ==
  IF seen + 1 >= MaxAttempts THEN Failed(row) ELSE PutOff(row)

MarkRetryOrFailed(w, r) ==
  /\ pc[w] = "retry"
  /\ IsNext(w, r)
  /\ r \notin Locked
  /\ outbox' = [outbox EXCEPT ![r] = AfterFailure(outbox[r], snap[w][r])]
  /\ Advance(w, r)
  /\ UNCHANGED <<queued, snap, late, unsure, faults>>

\* The process stops, or a database call outside the try throws: the rows that
\* are left stay as they are.
Abort(w) ==
  /\ pc[w] # "idle"
  /\ faults < MaxFaults
  /\ faults' = faults + 1
  /\ pc' = [pc EXCEPT ![w] = "idle"]
  /\ batch' = [batch EXCEPT ![w] = {}]
  /\ UNCHANGED <<outbox, queued, snap, late, unsure>>

Older(row) ==
  [row EXCEPT !.wait = IF row.wait > 0 THEN row.wait - 1 ELSE 0,
              !.age = IF row.status = "PROCESSING" /\ row.age <= StaleLock
                        THEN row.age + 1 ELSE row.age]

Tick ==
  /\ outbox' = [r \in Row |-> Older(outbox[r])]
  /\ outbox' # outbox
  /\ UNCHANGED <<queued, pc, batch, snap, late, unsure, faults>>

\* A run of drainOnce that has been called goes on.
Continue(w) ==
  \/ ClaimSelect(w) \/ ClaimUpdate(w)
  \/ \E r \in Row : Dispatch(w, r) \/ MarkSent(w, r) \/ MarkRetryOrFailed(w, r)

Next ==
  \/ \E w \in Worker : Revive(w) \/ Continue(w) \/ Abort(w) \/ \E r \in Row : MarkSentFails(w, r)
  \/ Tick

Spec == Init /\ [][Next]_vars

\* A run that was called, and the clock, go on.  Nobody need call drainOnce: no
\* fairness of Revive.
FairSpec == Spec /\ WF_vars(Tick) /\ \A w \in Worker : WF_vars(Continue(w))

-----------------------------------------------------------------------------
(* What the dispatcher promises.                                           *)

\* A row that says SENT has been accepted by its queue: whatever failed or was
\* overtaken, no event is written off as sent without a job.
SentWasQueued == \A r \in Row : outbox[r].status = "SENT" => r \in queued

\* A row is given up (FAILED) only when it has used all its attempts, although
\* the decision is taken on a count read when the row was claimed.
FailedUsedAllAttempts ==
  \A r \in Row : outbox[r].status = "FAILED" => outbox[r].attempts >= MaxAttempts

\* Two runs never handle the same row, unless its lock was revived under a run
\* that was still alive: row locks keep claims apart, and an aborted run, a
\* failed call or a retry does not break that.
SoleClaim ==
  \A r \in Row \ late : \A v, w \in Worker :
    r \in Held(v) /\ r \in Held(w) => v = w

\* A row stays SENT, and so is not dispatched again, unless its lock was revived
\* under a live run or the mark itself reported an error.
SentStays ==
  [][\A r \in Row : outbox[r].status = "SENT" /\ outbox'[r].status # "SENT"
       => r \in late \cup unsure]_vars

\* A row on its way, whoever has it, is OPEN.
Outcome(row) == IF row.status \in {"SENT", "FAILED"} THEN row.status ELSE "OPEN"

\* The runs implement the outbox as OutboxDelivery promises it: whatever a run has
\* read of a row some awaits before, what it writes is a step of the row as it is
\* by now, and a settled row is left alone unless it is late or unsure.
Delivery == INSTANCE OutboxDelivery WITH
  status   <- [r \in Row |-> Outcome(outbox[r])],
  attempts <- [r \in Row |-> outbox[r].attempts],
  doubted  <- late \cup unsure

DeliverySpec == Delivery!Spec

\* If only calls of drainOnce keep coming, from whichever process, every row ends
\* SENT or FAILED, although runs are cut short (a bounded number of times), queues
\* refuse jobs and some events have no queue: either the calls cease or the rows
\* settle, and no row is left behind by calls that go on.
EveryRowSettles ==
  \/ <>[](\A w \in Worker : pc[w] = "idle")
  \/ \A r \in Row : <>[](outbox[r].status \in {"SENT", "FAILED"})

=============================================================================
