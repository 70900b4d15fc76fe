--------------------------- MODULE OutboxDelivery ---------------------------
(***************************************************************************)
(* What the outbox promises about its rows, without runs, claims, locks    *)
(* and clocks: a row is tried until a queue has accepted it or its         *)
(* attempts are used up, and is then left alone.  OutboxDispatcher         *)
(* implements it.                                                          *)
(*                                                                         *)
(* The promise has an exception, and says of which rows: doubted are those *)
(* whose lock was revived under a live run, or whose mark reported an      *)
(* error.  Such a row may be delivered, retried and given up again, but    *)
(* even then it is not called sent without a job, and not given up early.  *)
(***************************************************************************)
EXTENDS Integers

CONSTANTS
  Row,          \* outbox rows
  Unknown,      \* rows whose eventType no queue is known for
  MaxAttempts   \* OUTBOX_DISPATCH_MAX_ATTEMPTS

VARIABLES
  status,    \* OPEN, SENT or FAILED
  attempts,  \* attempts that failed
  queued,    \* rows for which a queue has accepted a job
  doubted    \* rows that may have been settled already

vars == <<status, attempts, queued, doubted>>

Init ==
  /\ status = [r \in Row |-> "OPEN"]
  /\ attempts = [r \in Row |-> 0]
  /\ queued = {}
  /\ doubted = {}

\* Only these rows are worked on.
Unsettled(r) == status[r] = "OPEN" \/ r \in doubted

-----------------------------------------------------------------------------
\* A queue takes a job for r; a second one is the same job.
Accept(r) ==
  /\ Unsettled(r) /\ r \notin Unknown
  /\ queued' = queued \cup {r}
  /\ UNCHANGED <<status, attempts, doubted>>

\* r has a job, and the row says so; whether that was written may be in doubt.
Deliver(r) ==
  /\ Unsettled(r) /\ r \in queued
  /\ status' = [status EXCEPT ![r] = "SENT"]
  /\ doubted' \in {doubted, doubted \cup {r}}
  /\ UNCHANGED <<attempts, queued>>

\* An attempt for r has failed; the row is to be settled, or is out of attempts.
Miss(r, outcome) ==
  /\ Unsettled(r)
  /\ status' = [status EXCEPT ![r] = outcome]
  /\ attempts' = [attempts EXCEPT ![r] = @ + 1]
  /\ UNCHANGED <<queued, doubted>>

Retry(r)  == Miss(r, "OPEN") /\ (attempts[r] + 1 < MaxAttempts \/ r \in doubted)
GiveUp(r) == Miss(r, "FAILED") /\ attempts[r] + 1 >= MaxAttempts

\* Open rows become doubted, a settled one never does.
Doubt ==
  /\ doubted \subseteq doubted'
  /\ \A r \in doubted' \ doubted : r \in Row /\ status[r] = "OPEN"
  /\ UNCHANGED <<status, attempts, queued>>

Next ==
  \/ \E r \in Row : Accept(r) \/ Deliver(r) \/ Retry(r) \/ GiveUp(r)
  \/ Doubt

Spec == Init /\ [][Next]_vars

=============================================================================
