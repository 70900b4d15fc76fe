----------------------- MODULE OutboxDispatcherProofs -----------------------
(***************************************************************************)
(* What OutboxDispatcher promises, proved for any number of rows, workers  *)
(* and attempts.  The invariant Claims says what a run may rely on between *)
(* its steps; everything else follows from it.                             *)
(***************************************************************************)
EXTENDS OutboxDispatcher, TLAPS

\* Runs that have no claim hold no rows.
IdleHoldsNothing == \A w \in Worker : pc[w] \in {"idle", "claim"} => batch[w] = {}

\* A row about to be marked SENT has been accepted by a queue.
MarkedIsQueued ==
  \A w \in Worker, r \in Row : pc[w] = "mark" /\ IsNext(w, r) => r \in queued

\* The count a run decides on is never ahead of the row's.
SnapNotAhead ==
  \A w \in Worker : \A r \in batch[w] : snap[w][r] <= outbox[r].attempts

\* A claim that has not committed keeps its rows PENDING and to itself.
ClaimedIsPending ==
  \A w \in Worker : pc[w] = "claimed" =>
    \A r \in batch[w] : outbox[r].status = "PENDING"

ClaimsDisjoint ==
  \A v, w \in Worker : pc[v] = "claimed" /\ pc[w] = "claimed" /\ v # w
    => batch[v] \cap batch[w] = {}

\* A held row is PROCESSING, or SENT by a mark that reported an error.
HeldStatus ==
  \A w \in Worker : \A r \in Held(w) \ late :
    \/ outbox[r].status = "PROCESSING"
    \/ outbox[r].status = "SENT" /\ pc[w] = "retry" /\ IsNext(w, r) /\ r \in unsure

Claims ==
  /\ IdleHoldsNothing /\ MarkedIsQueued /\ SnapNotAhead
  /\ ClaimedIsPending /\ ClaimsDisjoint /\ HeldStatus
  /\ SentWasQueued /\ FailedUsedAllAttempts /\ SoleClaim

-----------------------------------------------------------------------------
(* Types.                                                                  *)

LEMMA RowForms ==
  ASSUME NEW row \in OutboxRow, OutboxAssumption
  PROVE  /\ Sent(row) \in OutboxRow
         /\ Failed(row) \in OutboxRow
         /\ PutOff(row) \in OutboxRow
         /\ Older(row) \in OutboxRow
         /\ [row EXCEPT !.status = "PENDING", !.lockedBy = NULL] \in OutboxRow
         /\ \A w \in Worker :
              [row EXCEPT !.status = "PROCESSING", !.age = 0, !.lockedBy = w] \in OutboxRow
<1> USE OutboxAssumption DEF OutboxAssumption
<1> DEFINE ages == IF row.status = "PROCESSING" /\ row.age <= StaleLock
                     THEN row.age + 1 ELSE row.age
           waits == IF row.wait > 0 THEN row.wait - 1 ELSE 0
<1>1. /\ row.attempts \in Nat /\ row.attempts + 1 \in Nat
      /\ row.wait \in 0..RetryDelay /\ row.age \in 0..StaleLock + 1
      /\ 0 \in 0..StaleLock + 1 /\ RetryDelay \in 0..RetryDelay
  BY DEF OutboxRow
<1>2. ages \in 0..StaleLock + 1 /\ waits \in 0..RetryDelay
  BY <1>1
<1>3. Sent(row) \in OutboxRow /\ Failed(row) \in OutboxRow
  BY <1>1 DEF OutboxRow, Status, Sent, Failed
<1>4. PutOff(row) \in OutboxRow
  BY <1>1 DEF OutboxRow, Status, PutOff
<1>5. Older(row) \in OutboxRow
  <2>1. Older(row) = [row EXCEPT !.wait = waits, !.age = ages]
    BY DEF Older
  <2> HIDE DEF ages, waits
  <2> QED BY <1>2, <2>1 DEF OutboxRow
<1>6. [row EXCEPT !.status = "PENDING", !.lockedBy = NULL] \in OutboxRow
  BY DEF OutboxRow, Status
<1>7. \A w \in Worker :
        [row EXCEPT !.status = "PROCESSING", !.age = 0, !.lockedBy = w] \in OutboxRow
  BY <1>1 DEF OutboxRow, Status
<1> QED BY <1>3, <1>4, <1>5, <1>6, <1>7

LEMMA TypeInit == ASSUME OutboxAssumption, Init PROVE TypeOK
BY DEF Init, TypeOK, OutboxRow, Status, NewRow, OutboxAssumption

LEMMA TypeStep == ASSUME OutboxAssumption, TypeOK, [Next]_vars PROVE TypeOK'
<1> USE OutboxAssumption DEF OutboxAssumption, TypeOK
<1>0. \A r \in Row : outbox[r] \in OutboxRow
  OBVIOUS
<1>1. ASSUME NEW w \in Worker, Revive(w) PROVE TypeOK'
  <2>1. \A r \in Row : outbox'[r] \in OutboxRow
    BY <1>0, <1>1, RowForms DEF Revive
  <2>2. pc' \in [Worker -> {"idle", "claim", "claimed", "add", "mark", "retry"}]
    BY <1>1 DEF Revive
  <2> QED BY <1>1, <2>1, <2>2 DEF Revive
<1>2. ASSUME NEW w \in Worker, ClaimSelect(w) PROVE TypeOK'
  <2>1. \A r \in Row : outbox[r].attempts \in Nat
    BY <1>0 DEF OutboxRow
  <2>2. PICK S \in SUBSET Claimable :
          /\ batch' = [batch EXCEPT ![w] = S]
          /\ snap' = [snap EXCEPT ![w] = [r \in Row |-> IF r \in S THEN outbox[r].attempts ELSE 0]]
          /\ pc' = [pc EXCEPT ![w] = IF S = {} THEN "idle" ELSE "claimed"]
    BY <1>2 DEF ClaimSelect
  <2>3. S \subseteq Row
    BY DEF Claimable
  <2> QED BY <1>2, <2>1, <2>2, <2>3 DEF ClaimSelect
<1>3. ASSUME NEW w \in Worker, ClaimUpdate(w) PROVE TypeOK'
  BY <1>0, <1>3, RowForms DEF ClaimUpdate
<1>4. ASSUME NEW w \in Worker, NEW r \in Row, Dispatch(w, r) PROVE TypeOK'
  BY <1>4 DEF Dispatch
<1>5. ASSUME NEW w \in Worker, NEW r \in Row, MarkSent(w, r) PROVE TypeOK'
  BY <1>0, <1>5, RowForms DEF MarkSent, Advance
<1>6. ASSUME NEW w \in Worker, NEW r \in Row, MarkRetryOrFailed(w, r) PROVE TypeOK'
  BY <1>0, <1>6, RowForms DEF MarkRetryOrFailed, Advance, AfterFailure
<1>7. ASSUME NEW w \in Worker, NEW r \in Row, MarkSentFails(w, r) PROVE TypeOK'
  <2>1. faults' \in 0..MaxFaults
    BY <1>7 DEF MarkSentFails
  <2>2. outbox' \in [Row -> OutboxRow] /\ unsure' \subseteq Row
    <3>1. [outbox EXCEPT ![r] = Sent(outbox[r])] \in [Row -> OutboxRow]
      BY <1>0, RowForms
    <3> QED BY <1>7, <3>1 DEF MarkSentFails
  <2> QED BY <1>7, <2>1, <2>2 DEF MarkSentFails
<1>8. ASSUME NEW w \in Worker, Abort(w) PROVE TypeOK'
  BY <1>8 DEF Abort
<1>9. CASE Tick
  BY <1>0, <1>9, RowForms DEF Tick
<1>10. CASE UNCHANGED vars
  BY <1>10 DEF vars
<1> QED BY <1>1, <1>2, <1>3, <1>4, <1>5, <1>6, <1>7, <1>8, <1>9, <1>10 DEF Next, Continue

-----------------------------------------------------------------------------
(* The invariant.                                                          *)

LEMMA ClaimsInit == ASSUME OutboxAssumption, Init PROVE Claims
BY DEF Init, Claims, IdleHoldsNothing, MarkedIsQueued, SnapNotAhead,
   ClaimedIsPending, ClaimsDisjoint, HeldStatus, SentWasQueued,
   FailedUsedAllAttempts, SoleClaim, Held, IsNext, NewRow, OutboxAssumption

LEMMA NextIsUnique ==
  ASSUME OutboxAssumption, TypeOK, NEW w \in Worker, NEW q \in Row, NEW r \in Row,
         IsNext(w, q), IsNext(w, r)
  PROVE  q = r
BY DEF IsNext, OutboxAssumption, TypeOK

\* A run that holds a row nobody revived under it holds it alone.
LEMMA HeldAlone ==
  ASSUME OutboxAssumption, TypeOK, Claims, NEW w \in Worker, NEW r \in Held(w)
  PROVE  /\ r \in Row /\ r \in batch[w] /\ pc[w] \in {"add", "mark", "retry"}
         /\ \A v \in Worker : pc[v] = "claimed" /\ r \in batch[v] => r \in late
         /\ \A v \in Worker : r \in Held(v) => v = w \/ r \in late
<1>1. r \in Row /\ r \in batch[w] /\ pc[w] \in {"add", "mark", "retry"}
  BY DEF Held, TypeOK, Claims, IdleHoldsNothing
<1>2. \A v \in Worker : pc[v] = "claimed" /\ r \in batch[v] => r \in late
  BY <1>1 DEF Claims, HeldStatus, ClaimedIsPending
<1>3. \A v \in Worker : r \in Held(v) => v = w \/ r \in late
  BY <1>1 DEF Claims, SoleClaim
<1> QED BY <1>1, <1>2, <1>3

LEMMA ReviveKeeps ==
  ASSUME OutboxAssumption, TypeOK, Claims, NEW w \in Worker, Revive(w)
  PROVE  Claims'
<1> USE DEF OutboxAssumption, TypeOK
<1>1. /\ \A v \in Worker : Held(v)' = Held(v) /\ (pc[v] = "claimed" <=> pc'[v] = "claimed")
      /\ \A v \in Worker, r \in Row : IsNext(v, r)' <=> IsNext(v, r)
      /\ batch' = batch /\ snap' = snap /\ queued' = queued /\ unsure' = unsure
      /\ \A v \in Worker : v # w => pc'[v] = pc[v]
      /\ pc[w] = "idle" /\ pc'[w] = "claim"
  BY DEF Revive, Held, IsNext
<1>2. \A r \in Row : /\ outbox'[r].attempts = outbox[r].attempts
                     /\ outbox'[r].status # outbox[r].status =>
                          Stale(r) /\ outbox'[r].status = "PENDING"
  <2> TAKE r \in Row
  <2>1. outbox[r] \in OutboxRow
    OBVIOUS
  <2>2. CASE Stale(r)
    <3>1. outbox'[r] = [outbox[r] EXCEPT !.status = "PENDING", !.lockedBy = NULL]
      BY <2>2 DEF Revive
    <3> QED BY <2>1, <2>2, <3>1 DEF OutboxRow
  <2>3. CASE ~Stale(r)
    BY <2>3 DEF Revive
  <2> QED BY <2>2, <2>3
<1>3. \A r \in Row : /\ r \in late => r \in late'
                     /\ Stale(r) /\ (\E v \in Worker : r \in Held(v)) => r \in late'
  BY DEF Revive
<1>4. (IdleHoldsNothing /\ MarkedIsQueued /\ SnapNotAhead)'
  BY <1>1, <1>2 DEF Claims, IdleHoldsNothing, MarkedIsQueued, SnapNotAhead
<1>5. (ClaimedIsPending /\ ClaimsDisjoint)'
  BY <1>1, <1>2 DEF Claims, ClaimedIsPending, ClaimsDisjoint
<1>6. HeldStatus'
  <2> SUFFICES ASSUME NEW v \in Worker, NEW r \in Held(v), r \notin late'
               PROVE  \/ outbox'[r].status = "PROCESSING"
                      \/ /\ outbox'[r].status = "SENT" /\ pc'[v] = "retry"
                         /\ IsNext(v, r)' /\ r \in unsure'
    BY <1>1 DEF HeldStatus
  <2>1. r \in Row /\ r \notin late /\ v # w
    BY <1>1, <1>3, HeldAlone
  <2>2. outbox'[r].status = outbox[r].status
    BY <1>2, <1>3, <2>1
  <2> QED BY <1>1, <2>1, <2>2 DEF Claims, HeldStatus
<1>7. SentWasQueued' /\ FailedUsedAllAttempts'
  BY <1>1, <1>2 DEF Claims, SentWasQueued, FailedUsedAllAttempts
<1>8. SoleClaim'
  BY <1>1, <1>3 DEF Claims, SoleClaim
<1> QED BY <1>4, <1>5, <1>6, <1>7, <1>8 DEF Claims

LEMMA ClaimSelectKeeps ==
  ASSUME OutboxAssumption, TypeOK, Claims, NEW w \in Worker, ClaimSelect(w)
  PROVE  Claims'
<1> USE DEF OutboxAssumption, TypeOK
<1>1. PICK S \in SUBSET Claimable :
        /\ batch' = [batch EXCEPT ![w] = S]
        /\ snap' = [snap EXCEPT ![w] = [r \in Row |-> IF r \in S THEN outbox[r].attempts ELSE 0]]
        /\ pc' = [pc EXCEPT ![w] = IF S = {} THEN "idle" ELSE "claimed"]
  BY DEF ClaimSelect
<1>2. /\ outbox' = outbox /\ queued' = queued /\ late' = late /\ unsure' = unsure
      /\ pc[w] = "claim" /\ batch[w] = {}
      /\ batch'[w] = S /\ pc'[w] = (IF S = {} THEN "idle" ELSE "claimed")
      /\ \A v \in Worker : v # w => batch'[v] = batch[v] /\ pc'[v] = pc[v] /\ snap'[v] = snap[v]
  BY <1>1 DEF ClaimSelect, Claims, IdleHoldsNothing
<1>3. \A r \in S : /\ r \in Row /\ outbox[r].status = "PENDING"
                  /\ snap'[w][r] = outbox[r].attempts /\ outbox[r].attempts \in Nat
                  /\ \A v \in Worker : pc[v] = "claimed" => r \notin batch[v]
  <2> TAKE r \in S
  <2>1. r \in Row /\ outbox[r].status = "PENDING" /\ r \notin Locked
    BY DEF Claimable
  <2>2. \A v \in Worker : pc[v] = "claimed" => r \notin batch[v]
    BY <2>1 DEF Locked
  <2>3. snap'[w][r] = outbox[r].attempts
    BY <1>1, <2>1
  <2>4. outbox[r].attempts \in Nat
    BY <2>1 DEF OutboxRow
  <2> QED BY <2>1, <2>2, <2>3, <2>4
<1>4. \A v \in Worker : Held(v)' = Held(v)
  BY <1>2 DEF Held
<1>5. \A v \in Worker : v # w => \A r \in Row : IsNext(v, r)' <=> IsNext(v, r)
  BY <1>2 DEF IsNext
<1>6. (IdleHoldsNothing /\ MarkedIsQueued)'
  BY <1>2, <1>5 DEF Claims, IdleHoldsNothing, MarkedIsQueued
<1>7. SnapNotAhead'
  <2> SUFFICES ASSUME NEW v \in Worker, NEW r \in batch'[v]
               PROVE  snap'[v][r] <= outbox[r].attempts
    BY <1>2 DEF SnapNotAhead
  <2>1. CASE v = w
    BY <1>2, <1>3, <2>1
  <2>2. CASE v # w
    BY <1>2, <2>2 DEF Claims, SnapNotAhead
  <2> QED BY <2>1, <2>2
<1>8. (ClaimedIsPending /\ ClaimsDisjoint)'
  <2>1. ClaimedIsPending'
    BY <1>2, <1>3 DEF Claims, ClaimedIsPending
  <2>2. ClaimsDisjoint'
    BY <1>2, <1>3 DEF Claims, ClaimsDisjoint
  <2> QED BY <2>1, <2>2
<1>9. HeldStatus'
  <2> SUFFICES ASSUME NEW v \in Worker, NEW r \in Held(v), r \notin late
               PROVE  \/ outbox[r].status = "PROCESSING"
                      \/ /\ outbox[r].status = "SENT" /\ pc'[v] = "retry"
                         /\ IsNext(v, r)' /\ r \in unsure
    BY <1>2, <1>4 DEF HeldStatus
  <2>1. r \in Row /\ v # w
    BY <1>2, HeldAlone
  <2> QED BY <1>2, <1>5, <2>1 DEF Claims, HeldStatus
<1>10. (SentWasQueued /\ FailedUsedAllAttempts /\ SoleClaim)'
  BY <1>2, <1>4 DEF Claims, SentWasQueued, FailedUsedAllAttempts, SoleClaim
<1> QED BY <1>6, <1>7, <1>8, <1>9, <1>10 DEF Claims

LEMMA ClaimUpdateKeeps ==
  ASSUME OutboxAssumption, TypeOK, Claims, NEW w \in Worker, ClaimUpdate(w)
  PROVE  Claims'
<1> USE DEF OutboxAssumption, TypeOK
<1>1. /\ queued' = queued /\ late' = late /\ unsure' = unsure /\ batch' = batch /\ snap' = snap
      /\ pc[w] = "claimed" /\ pc'[w] = "add"
      /\ \A v \in Worker : v # w => pc'[v] = pc[v]
  BY DEF ClaimUpdate
<1>2. \A r \in Row : /\ outbox'[r].attempts = outbox[r].attempts
                     /\ r \in batch[w] => outbox'[r].status = "PROCESSING"
                     /\ r \notin batch[w] => outbox'[r].status = outbox[r].status
  <2> TAKE r \in Row
  <2>1. outbox[r] \in OutboxRow
    OBVIOUS
  <2>2. CASE r \in batch[w]
    <3>1. outbox'[r] = [outbox[r] EXCEPT !.status = "PROCESSING", !.age = 0, !.lockedBy = w]
      BY <2>2 DEF ClaimUpdate
    <3> QED BY <2>1, <2>2, <3>1 DEF OutboxRow
  <2>3. CASE r \notin batch[w]
    BY <2>3 DEF ClaimUpdate
  <2> QED BY <2>2, <2>3
<1>3. /\ Held(w)' = batch[w]
      /\ \A v \in Worker : v # w => Held(v)' = Held(v)
      /\ \A v \in Worker, r \in Row : IsNext(v, r)' <=> IsNext(v, r)
  BY <1>1 DEF Held, IsNext
<1>4. \A v \in Worker : \A r \in Held(v) : r \in batch[w] => r \in late
  BY <1>1, HeldAlone
<1>5. (IdleHoldsNothing /\ MarkedIsQueued /\ SnapNotAhead)'
  BY <1>1, <1>2, <1>3 DEF Claims, IdleHoldsNothing, MarkedIsQueued, SnapNotAhead
<1>6. (ClaimedIsPending /\ ClaimsDisjoint)'
  BY <1>1, <1>2 DEF Claims, ClaimedIsPending, ClaimsDisjoint
<1>7. HeldStatus'
  <2> SUFFICES ASSUME NEW v \in Worker, NEW r \in Held(v)', r \notin late
               PROVE  \/ outbox'[r].status = "PROCESSING"
                      \/ /\ outbox'[r].status = "SENT" /\ pc'[v] = "retry"
                         /\ IsNext(v, r)' /\ r \in unsure
    BY <1>1 DEF HeldStatus
  <2>1. CASE v = w
    <3>1. r \in batch[w]
      BY <1>3, <2>1
    <3> QED BY <1>2, <3>1
  <2>2. CASE v # w
    <3>1. r \in Held(v) /\ r \in Row /\ r \notin batch[w]
      BY <1>3, <1>4, <2>2, HeldAlone
    <3> QED BY <1>1, <1>2, <1>3, <2>2, <3>1 DEF Claims, HeldStatus
  <2> QED BY <2>1, <2>2
<1>8. (SentWasQueued /\ FailedUsedAllAttempts)'
  BY <1>1, <1>2 DEF Claims, SentWasQueued, FailedUsedAllAttempts
<1>9. SoleClaim'
  BY <1>1, <1>3, <1>4 DEF Claims, SoleClaim
<1> QED BY <1>5, <1>6, <1>7, <1>8, <1>9 DEF Claims

LEMMA DispatchKeeps ==
  ASSUME OutboxAssumption, TypeOK, Claims, NEW w \in Worker, NEW r \in Row, Dispatch(w, r)
  PROVE  Claims'
<1> USE DEF OutboxAssumption, TypeOK
<1>1. /\ outbox' = outbox /\ batch' = batch /\ snap' = snap /\ late' = late /\ unsure' = unsure
      /\ pc[w] = "add" /\ pc'[w] \in {"mark", "retry"}
      /\ \A v \in Worker : v # w => pc'[v] = pc[v]
      /\ queued \subseteq queued'
      /\ IsNext(w, r) /\ (pc'[w] = "mark" => r \in queued')
  BY DEF Dispatch
<1>2. /\ \A v \in Worker : Held(v)' = Held(v)
      /\ \A v \in Worker, q \in Row : IsNext(v, q)' <=> IsNext(v, q)
  BY <1>1 DEF Held, IsNext
<1>3. MarkedIsQueued'
  <2> SUFFICES ASSUME NEW v \in Worker, NEW q \in Row, pc'[v] = "mark", IsNext(v, q)
               PROVE  q \in queued'
    BY <1>2 DEF MarkedIsQueued
  <2>1. CASE v = w
    BY <1>1, <2>1, NextIsUnique
  <2>2. CASE v # w
    BY <1>1, <2>2 DEF Claims, MarkedIsQueued
  <2> QED BY <2>1, <2>2
<1>4. (IdleHoldsNothing /\ SnapNotAhead /\ ClaimedIsPending /\ ClaimsDisjoint)'
  BY <1>1 DEF Claims, IdleHoldsNothing, SnapNotAhead, ClaimedIsPending, ClaimsDisjoint
<1>5. HeldStatus'
  <2> SUFFICES ASSUME NEW v \in Worker, NEW q \in Held(v), q \notin late
               PROVE  \/ outbox[q].status = "PROCESSING"
                      \/ /\ outbox[q].status = "SENT" /\ pc'[v] = "retry"
                         /\ IsNext(v, q)' /\ q \in unsure
    BY <1>1, <1>2 DEF HeldStatus
  <2>1. q \in Row
    BY HeldAlone
  <2> QED BY <1>1, <1>2, <2>1 DEF Claims, HeldStatus
<1>6. (SentWasQueued /\ FailedUsedAllAttempts /\ SoleClaim)'
  BY <1>1, <1>2 DEF Claims, SentWasQueued, FailedUsedAllAttempts, SoleClaim
<1> QED BY <1>3, <1>4, <1>5, <1>6 DEF Claims

\* A run writes the outcome of its next row: what the write must satisfy.
LEMMA OutcomeKeeps ==
  ASSUME OutboxAssumption, TypeOK, Claims, NEW w \in Worker, NEW r \in Row,
         pc[w] \in {"mark", "retry"}, IsNext(w, r), r \notin Locked,
         NEW row \in OutboxRow, outbox' = [outbox EXCEPT ![r] = row],
         row.attempts >= outbox[r].attempts,
         row.status = "SENT" => r \in queued,
         row.status = "FAILED" => row.attempts >= MaxAttempts,
         Advance(w, r), UNCHANGED <<queued, snap, late, unsure>>
  PROVE  Claims'
<1> USE DEF OutboxAssumption, TypeOK
<1>1. /\ outbox'[r] = row
      /\ \A q \in Row : q # r => outbox'[q] = outbox[q]
      /\ \A q \in Row : outbox[q].attempts \in Nat /\ outbox'[q].attempts \in Nat
      /\ \A q \in Row : outbox'[q].attempts >= outbox[q].attempts
  BY DEF OutboxRow
<1>2. /\ batch'[w] = batch[w] \ {r} /\ r \in batch[w]
      /\ pc'[w] = (IF batch[w] = {r} THEN "idle" ELSE "add")
      /\ \A v \in Worker : v # w => batch'[v] = batch[v] /\ pc'[v] = pc[v]
  BY DEF Advance, IsNext
<1>3. /\ Held(w)' = Held(w) \ {r} /\ r \in Held(w)
      /\ \A v \in Worker : v # w => Held(v)' = Held(v)
      /\ \A v \in Worker : v # w => \A q \in Row : IsNext(v, q)' <=> IsNext(v, q)
  BY <1>2 DEF Held, IsNext
<1>4. \A v \in Worker : pc[v] = "claimed" => r \notin batch[v]
  BY DEF Locked
<1>5. (IdleHoldsNothing /\ MarkedIsQueued)'
  BY <1>2, <1>3 DEF Claims, IdleHoldsNothing, MarkedIsQueued
<1>6. SnapNotAhead'
  <2> SUFFICES ASSUME NEW v \in Worker, NEW q \in batch'[v]
               PROVE  snap[v][q] <= outbox'[q].attempts
    BY DEF SnapNotAhead
  <2>1. q \in batch[v]
    BY <1>2
  <2>4. q \in Row /\ snap[v][q] \in Nat
    <3>1. batch[v] \subseteq Row /\ snap[v] \in [Row -> Nat]
      OBVIOUS
    <3> HIDE DEF TypeOK
    <3> QED BY <2>1, <3>1
  <2>2. snap[v][q] <= outbox[q].attempts
    BY <2>1 DEF Claims, SnapNotAhead
  <2>3. outbox'[q].attempts >= outbox[q].attempts
        /\ outbox[q].attempts \in Nat /\ outbox'[q].attempts \in Nat
    BY <1>1, <2>4
  <2> HIDE DEF TypeOK
  <2> QED BY <2>4, <2>2, <2>3
<1>7. (ClaimedIsPending /\ ClaimsDisjoint)'
  <2>1. \A v \in Worker : pc'[v] = "claimed" => v # w /\ pc[v] = "claimed" /\ batch'[v] = batch[v]
    BY <1>2
  <2>2. ClaimsDisjoint'
    BY <2>1 DEF Claims, ClaimsDisjoint
  <2>3. ASSUME NEW v \in Worker, pc'[v] = "claimed", NEW q \in batch'[v]
        PROVE  outbox'[q].status = "PENDING"
    <3>1. q \in batch[v] /\ q \in Row /\ q # r
      BY <1>4, <2>1, <2>3
    <3> QED BY <1>1, <2>1, <2>3, <3>1 DEF Claims, ClaimedIsPending
  <2> QED BY <2>2, <2>3 DEF ClaimedIsPending
<1>8. HeldStatus'
  <2> SUFFICES ASSUME NEW v \in Worker, NEW q \in Held(v)', q \notin late
               PROVE  \/ outbox'[q].status = "PROCESSING"
                      \/ /\ outbox'[q].status = "SENT" /\ pc'[v] = "retry"
                         /\ IsNext(v, q)' /\ q \in unsure
    BY DEF HeldStatus
  <2>1. q \in Held(v) /\ q \in Row /\ q # r
    <3>1. q \in Held(v)
      BY <1>3
    <3>2. q \in Row
      BY <3>1, HeldAlone
    <3>3. q # r
      BY <1>3, <3>1, HeldAlone
    <3> QED BY <3>1, <3>2, <3>3
  <2>2. CASE v = w
    <3>1. ~IsNext(w, q)
      BY <2>1, NextIsUnique
    <3> QED BY <1>1, <2>1, <2>2, <3>1 DEF Claims, HeldStatus
  <2>3. CASE v # w
    BY <1>1, <1>2, <1>3, <2>1, <2>3 DEF Claims, HeldStatus
  <2> QED BY <2>2, <2>3
<1>9. SentWasQueued'
  BY <1>1 DEF Claims, SentWasQueued
<1>10. FailedUsedAllAttempts'
  BY <1>1 DEF Claims, FailedUsedAllAttempts
<1>11. SoleClaim'
  BY <1>3 DEF Claims, SoleClaim
<1> QED BY <1>5, <1>6, <1>7, <1>8, <1>9, <1>10, <1>11 DEF Claims

LEMMA MarkSentKeeps ==
  ASSUME OutboxAssumption, TypeOK, Claims, NEW w \in Worker, NEW r \in Row, MarkSent(w, r)
  PROVE  Claims'
<1>1. outbox[r] \in OutboxRow
  BY DEF TypeOK
<1>2. /\ Sent(outbox[r]) \in OutboxRow
      /\ Sent(outbox[r]).status = "SENT"
      /\ Sent(outbox[r]).attempts = outbox[r].attempts
      /\ outbox[r].attempts \in Nat
  BY <1>1, RowForms DEF Sent, OutboxRow
<1>3. Sent(outbox[r]).attempts >= outbox[r].attempts
  BY <1>2
<1>4. r \in queued
  BY DEF MarkSent, Claims, MarkedIsQueued
<1> QED BY <1>2, <1>3, <1>4, OutcomeKeeps DEF MarkSent

LEMMA MarkRetryOrFailedKeeps ==
  ASSUME OutboxAssumption, TypeOK, Claims, NEW w \in Worker, NEW r \in Row,
         MarkRetryOrFailed(w, r)
  PROVE  Claims'
<1> DEFINE row == AfterFailure(outbox[r], snap[w][r])
<1>1. outbox[r] \in OutboxRow /\ outbox[r].attempts \in Nat
  BY DEF TypeOK, OutboxRow
<1>2. /\ row \in OutboxRow
      /\ row.attempts = outbox[r].attempts + 1
      /\ row.status = (IF snap[w][r] + 1 >= MaxAttempts THEN "FAILED" ELSE "PENDING")
  BY <1>1, RowForms DEF AfterFailure, Failed, PutOff, OutboxRow
<1>3. snap[w][r] \in Nat /\ snap[w][r] <= outbox[r].attempts
  BY DEF TypeOK, Claims, SnapNotAhead, MarkRetryOrFailed, IsNext
<1>4. row.attempts >= outbox[r].attempts
  BY <1>1, <1>2
<1>5. row.status = "FAILED" => row.attempts >= MaxAttempts
  BY <1>1, <1>2, <1>3 DEF OutboxAssumption
<1>6. row.status # "SENT"
  BY <1>2
<1>7. outbox' = [outbox EXCEPT ![r] = row]
  BY DEF MarkRetryOrFailed
<1> HIDE DEF row
<1> QED BY <1>2, <1>4, <1>5, <1>6, <1>7, OutcomeKeeps DEF MarkRetryOrFailed

LEMMA MarkSentFailsKeeps ==
  ASSUME OutboxAssumption, TypeOK, Claims, NEW w \in Worker, NEW r \in Row,
         MarkSentFails(w, r)
  PROVE  Claims'
<1> USE DEF OutboxAssumption, TypeOK
<1>1. /\ queued' = queued /\ batch' = batch /\ snap' = snap /\ late' = late
      /\ pc[w] = "mark" /\ pc'[w] = "retry" /\ IsNext(w, r)
      /\ \A v \in Worker : v # w => pc'[v] = pc[v]
      /\ unsure \subseteq unsure'
  BY DEF MarkSentFails
<1>2. /\ \A v \in Worker : Held(v)' = Held(v)
      /\ \A v \in Worker, q \in Row : IsNext(v, q)' <=> IsNext(v, q)
  BY <1>1 DEF Held, IsNext
<1>3. r \in queued /\ r \in Held(w)
  BY <1>1 DEF Claims, MarkedIsQueued, Held, IsNext
<1>4. \A q \in Row : /\ outbox'[q].attempts = outbox[q].attempts
                     /\ \/ outbox'[q].status = outbox[q].status
                        \/ /\ q = r /\ outbox'[r].status = "SENT" /\ r \in unsure'
                           /\ r \notin Locked
  <2>1. CASE outbox' = outbox
    BY <2>1
  <2>2. CASE /\ r \notin Locked
             /\ outbox' = [outbox EXCEPT ![r] = Sent(outbox[r])]
             /\ unsure' = unsure \cup {r}
    <3>1. outbox[r] \in OutboxRow
      OBVIOUS
    <3>2. outbox'[r].status = "SENT" /\ outbox'[r].attempts = outbox[r].attempts
      BY <2>2, <3>1 DEF Sent, OutboxRow
    <3> QED BY <2>2, <3>2
  <2> QED BY <2>1, <2>2 DEF MarkSentFails
<1>5. (IdleHoldsNothing /\ SnapNotAhead /\ ClaimsDisjoint)'
  BY <1>1, <1>4 DEF Claims, IdleHoldsNothing, SnapNotAhead, ClaimsDisjoint
<1>6. MarkedIsQueued'
  BY <1>1, <1>2 DEF Claims, MarkedIsQueued
<1>7. ClaimedIsPending'
  <2> SUFFICES ASSUME NEW v \in Worker, pc'[v] = "claimed", NEW q \in batch[v]
               PROVE  outbox'[q].status = "PENDING"
    BY <1>1 DEF ClaimedIsPending
  <2>1. pc[v] = "claimed" /\ q \in Row /\ q \in Locked
    BY <1>1 DEF Locked
  <2> QED BY <1>4, <2>1 DEF Claims, ClaimedIsPending
<1>8. HeldStatus'
  <2> SUFFICES ASSUME NEW v \in Worker, NEW q \in Held(v), q \notin late
               PROVE  \/ outbox'[q].status = "PROCESSING"
                      \/ /\ outbox'[q].status = "SENT" /\ pc'[v] = "retry"
                         /\ IsNext(v, q)' /\ q \in unsure'
    BY <1>1, <1>2 DEF HeldStatus
  <2>1. q \in Row /\ (q = r => v = w)
    BY <1>3, HeldAlone
  <2>2. CASE outbox'[q].status = outbox[q].status
    BY <1>1, <1>2, <2>1, <2>2 DEF Claims, HeldStatus
  <2>3. CASE outbox'[q].status # outbox[q].status
    BY <1>1, <1>2, <1>4, <2>1, <2>3
  <2> QED BY <2>2, <2>3
<1>9. (SentWasQueued /\ FailedUsedAllAttempts)'
  BY <1>1, <1>3, <1>4 DEF Claims, SentWasQueued, FailedUsedAllAttempts
<1>10. SoleClaim'
  BY <1>1, <1>2 DEF Claims, SoleClaim
<1> QED BY <1>5, <1>6, <1>7, <1>8, <1>9, <1>10 DEF Claims

LEMMA AbortKeeps ==
  ASSUME OutboxAssumption, TypeOK, Claims, NEW w \in Worker, Abort(w)
  PROVE  Claims'
<1> USE DEF OutboxAssumption, TypeOK
<1>1. /\ outbox' = outbox /\ queued' = queued /\ snap' = snap /\ late' = late
      /\ unsure' = unsure /\ pc'[w] = "idle" /\ batch'[w] = {}
      /\ \A v \in Worker : v # w => pc'[v] = pc[v] /\ batch'[v] = batch[v]
  BY DEF Abort
<1>2. /\ Held(w)' = {}
      /\ \A v \in Worker : v # w => Held(v)' = Held(v)
      /\ \A v \in Worker : v # w => \A q \in Row : IsNext(v, q)' <=> IsNext(v, q)
  BY <1>1 DEF Held, IsNext
<1>3. (IdleHoldsNothing /\ MarkedIsQueued)'
  BY <1>1, <1>2 DEF Claims, IdleHoldsNothing, MarkedIsQueued
<1>4. (SnapNotAhead /\ ClaimedIsPending /\ ClaimsDisjoint)'
  BY <1>1 DEF Claims, SnapNotAhead, ClaimedIsPending, ClaimsDisjoint
<1>5. HeldStatus'
  <2> SUFFICES ASSUME NEW v \in Worker, NEW q \in Held(v)', q \notin late
               PROVE  \/ outbox[q].status = "PROCESSING"
                      \/ /\ outbox[q].status = "SENT" /\ pc'[v] = "retry"
                         /\ IsNext(v, q)' /\ q \in unsure
    BY <1>1 DEF HeldStatus
  <2>1. v # w /\ q \in Held(v)
    BY <1>2
  <2>2. q \in Row
    BY <2>1, HeldAlone
  <2> QED BY <1>1, <1>2, <2>1, <2>2 DEF Claims, HeldStatus
<1>6. (SentWasQueued /\ FailedUsedAllAttempts /\ SoleClaim)'
  BY <1>1, <1>2 DEF Claims, SentWasQueued, FailedUsedAllAttempts, SoleClaim
<1> QED BY <1>3, <1>4, <1>5, <1>6 DEF Claims

LEMMA TickKeeps == ASSUME OutboxAssumption, TypeOK, Claims, Tick PROVE Claims'
<1> USE DEF OutboxAssumption, TypeOK
<1>1. /\ queued' = queued /\ pc' = pc /\ batch' = batch /\ snap' = snap
      /\ late' = late /\ unsure' = unsure
  BY DEF Tick
<1>2. \A r \in Row : /\ outbox'[r].status = outbox[r].status
                     /\ outbox'[r].attempts = outbox[r].attempts
  <2> TAKE r \in Row
  <2>1. outbox[r] \in OutboxRow /\ outbox'[r] = Older(outbox[r])
    BY DEF Tick
  <2> QED BY <2>1 DEF Older, OutboxRow
<1>3. /\ \A v \in Worker : Held(v)' = Held(v) /\ Held(v) \subseteq Row /\ batch[v] \subseteq Row
      /\ \A v \in Worker, q \in Row : IsNext(v, q)' <=> IsNext(v, q)
  BY <1>1 DEF Held, IsNext
<1>4. (IdleHoldsNothing /\ MarkedIsQueued /\ SnapNotAhead)'
  BY <1>1, <1>2, <1>3 DEF Claims, IdleHoldsNothing, MarkedIsQueued, SnapNotAhead
<1>5. (ClaimedIsPending /\ ClaimsDisjoint)'
  BY <1>1, <1>2, <1>3 DEF Claims, ClaimedIsPending, ClaimsDisjoint
<1>6. HeldStatus'
  <2> SUFFICES ASSUME NEW v \in Worker, NEW q \in Held(v), q \notin late
               PROVE  \/ outbox'[q].status = "PROCESSING"
                      \/ /\ outbox'[q].status = "SENT" /\ pc[v] = "retry"
                         /\ IsNext(v, q)' /\ q \in unsure
    BY <1>1, <1>3 DEF HeldStatus
  <2>1. q \in Row
    BY <1>3
  <2> QED BY <1>2, <1>3, <2>1 DEF Claims, HeldStatus
<1>7. (SentWasQueued /\ FailedUsedAllAttempts /\ SoleClaim)'
  BY <1>1, <1>2, <1>3 DEF Claims, SentWasQueued, FailedUsedAllAttempts, SoleClaim
<1> QED BY <1>4, <1>5, <1>6, <1>7 DEF Claims

LEMMA ClaimsStep == ASSUME OutboxAssumption, TypeOK, Claims, [Next]_vars PROVE Claims'
<1>1. CASE UNCHANGED vars
  BY <1>1 DEF vars, Claims, IdleHoldsNothing, MarkedIsQueued, SnapNotAhead,
     ClaimedIsPending, ClaimsDisjoint, HeldStatus, SentWasQueued,
     FailedUsedAllAttempts, SoleClaim, Held, IsNext
<1> QED BY <1>1, ReviveKeeps, ClaimSelectKeeps, ClaimUpdateKeeps, DispatchKeeps,
           MarkSentKeeps, MarkRetryOrFailedKeeps, MarkSentFailsKeeps, AbortKeeps,
           TickKeeps DEF Next, Continue

LEMMA SentStaysStep ==
  ASSUME OutboxAssumption, TypeOK, Claims, [Next]_vars, NEW r \in Row,
         outbox[r].status = "SENT", outbox'[r].status # "SENT"
  PROVE  r \in late \cup unsure
<1> USE DEF OutboxAssumption, TypeOK
<1>1. outbox[r] \in OutboxRow /\ outbox'[r] # outbox[r]
  OBVIOUS
<1>2. ASSUME NEW w \in Worker, ClaimUpdate(w) PROVE FALSE
  <2>1. r \in batch[w] /\ pc[w] = "claimed"
    BY <1>1, <1>2 DEF ClaimUpdate
  <2> QED BY <2>1 DEF Claims, ClaimedIsPending
<1>3. ASSUME NEW w \in Worker, NEW q \in Row, MarkRetryOrFailed(w, q)
      PROVE  r \in late \cup unsure
  <2>1. r = q
    BY <1>1, <1>3 DEF MarkRetryOrFailed
  <2>2. r \in Held(w)
    BY <1>3, <2>1 DEF MarkRetryOrFailed, IsNext, Held
  <2> QED BY <2>2 DEF Claims, HeldStatus
<1>4. ASSUME NEW w \in Worker, Revive(w) PROVE FALSE
  BY <1>1, <1>4 DEF Revive, Stale
<1>5. ASSUME NEW w \in Worker, NEW q \in Row, MarkSent(w, q) \/ MarkSentFails(w, q)
      PROVE  FALSE
  <2>1. outbox' = [outbox EXCEPT ![q] = Sent(outbox[q])]
    BY <1>1, <1>5 DEF MarkSent, MarkSentFails
  <2>2. outbox'[r] = Sent(outbox[r])
    BY <1>1, <2>1
  <2> QED BY <1>1, <2>2 DEF Sent, OutboxRow
<1>6. CASE Tick
  <2>1. outbox'[r] = Older(outbox[r])
    BY <1>6 DEF Tick
  <2> QED BY <1>1, <2>1 DEF Older, OutboxRow
<1>7. ASSUME NEW w \in Worker, ClaimSelect(w) \/ Abort(w) \/ \E q \in Row : Dispatch(w, q)
      PROVE  FALSE
  BY <1>1, <1>7 DEF ClaimSelect, Abort, Dispatch
<1>8. CASE UNCHANGED vars
  BY <1>1, <1>8 DEF vars
<1> QED BY <1>2, <1>3, <1>4, <1>5, <1>6, <1>7, <1>8 DEF Next, Continue

-----------------------------------------------------------------------------
(* The delivery.                                                           *)

\* The count a run decides on is the row's, unless the row was revived under it.
CountsExact ==
  \A w \in Worker : \A r \in batch[w] \ late : snap[w][r] = outbox[r].attempts

\* Taking a row on, ageing it, or working elsewhere is no outcome.
LEMMA QuietRows ==
  ASSUME OutboxAssumption, TypeOK, Claims,
         \/ Tick \/ UNCHANGED vars
         \/ \E w \in Worker : \/ Revive(w) \/ ClaimSelect(w) \/ ClaimUpdate(w) \/ Abort(w)
                              \/ \E r \in Row : Dispatch(w, r)
  PROVE  \A q \in Row : /\ Outcome(outbox'[q]) = Outcome(outbox[q])
                        /\ outbox'[q].attempts = outbox[q].attempts
<1> TAKE q \in Row
<1>0. outbox[q] \in OutboxRow
  BY DEF TypeOK
<1>1. CASE Tick
  <2>1. outbox'[q] = Older(outbox[q])
    BY <1>1 DEF Tick
  <2> QED BY <1>0, <2>1 DEF Older, Outcome, OutboxRow
<1>2. ASSUME NEW w \in Worker, Revive(w)
      PROVE  /\ Outcome(outbox'[q]) = Outcome(outbox[q])
             /\ outbox'[q].attempts = outbox[q].attempts
  <2>1. CASE Stale(q)
    <3>1. outbox'[q] = [outbox[q] EXCEPT !.status = "PENDING", !.lockedBy = NULL]
      BY <1>2, <2>1 DEF Revive
    <3> QED BY <1>0, <2>1, <3>1 DEF Stale, Outcome, OutboxRow
  <2>2. CASE ~Stale(q)
    BY <1>2, <2>2 DEF Revive
  <2> QED BY <2>1, <2>2
<1>3. ASSUME NEW w \in Worker, ClaimUpdate(w)
      PROVE  /\ Outcome(outbox'[q]) = Outcome(outbox[q])
             /\ outbox'[q].attempts = outbox[q].attempts
  <2>1. CASE q \in batch[w]
    <3>1. outbox[q].status = "PENDING"
      BY <1>3, <2>1 DEF ClaimUpdate, Claims, ClaimedIsPending
    <3>2. outbox'[q] = [outbox[q] EXCEPT !.status = "PROCESSING", !.age = 0, !.lockedBy = w]
      BY <1>3, <2>1 DEF ClaimUpdate
    <3> QED BY <1>0, <3>1, <3>2 DEF Outcome, OutboxRow
  <2>2. CASE q \notin batch[w]
    BY <1>3, <2>2 DEF ClaimUpdate
  <2> QED BY <2>1, <2>2
<1>4. CASE outbox' = outbox
  BY <1>4
<1> QED BY <1>1, <1>2, <1>3, <1>4 DEF ClaimSelect, Abort, Dispatch, vars

\* A run that marks its row SENT, whatever it is told about that.
LEMMA SentRow ==
  ASSUME TypeOK, NEW r \in Row, outbox' = [outbox EXCEPT ![r] = Sent(outbox[r])]
  PROVE  \A q \in Row : /\ Outcome(outbox'[q]) = IF q = r THEN "SENT" ELSE Outcome(outbox[q])
                        /\ outbox'[q].attempts = outbox[q].attempts
<1> TAKE q \in Row
<1>1. outbox[q] \in OutboxRow
  BY DEF TypeOK
<1>2. CASE q = r
  <2>1. outbox'[q] = Sent(outbox[q])
    BY <1>2 DEF TypeOK
  <2>2. Sent(outbox[q]).status = "SENT" /\ Sent(outbox[q]).attempts = outbox[q].attempts
    BY <1>1 DEF Sent, OutboxRow
  <2> QED BY <1>2, <2>1, <2>2 DEF Outcome
<1>3. CASE q # r
  BY <1>3 DEF TypeOK
<1> QED BY <1>2, <1>3

\* A run that counts a failed attempt: the one row, by one.
LEMMA MissedRow ==
  ASSUME OutboxAssumption, TypeOK, NEW w \in Worker, NEW r \in Row, MarkRetryOrFailed(w, r)
  PROVE  \A q \in Row :
           /\ Outcome(outbox'[q]) =
                IF q # r THEN Outcome(outbox[q])
                ELSE IF snap[w][r] + 1 >= MaxAttempts THEN "FAILED" ELSE "OPEN"
           /\ outbox'[q].attempts = IF q = r THEN outbox[q].attempts + 1 ELSE outbox[q].attempts
<1> TAKE q \in Row
<1>1. outbox[q] \in OutboxRow
  BY DEF TypeOK
<1>2. CASE q = r
  <2>1. outbox'[q] = AfterFailure(outbox[q], snap[w][r])
    BY <1>2 DEF MarkRetryOrFailed, TypeOK
  <2> QED BY <1>1, <1>2, <2>1 DEF AfterFailure, Failed, PutOff, Outcome, OutboxRow
<1>3. CASE q # r
  BY <1>3 DEF MarkRetryOrFailed, TypeOK
<1> QED BY <1>2, <1>3

LEMMA CountsStep ==
  ASSUME OutboxAssumption, TypeOK, Claims, CountsExact, [Next]_vars
  PROVE  CountsExact'
<1>1. ASSUME NEW w \in Worker, ClaimSelect(w) PROVE CountsExact'
  <2>1. PICK S \in SUBSET Claimable :
          /\ batch' = [batch EXCEPT ![w] = S]
          /\ snap' = [snap EXCEPT ![w] = [r \in Row |-> IF r \in S THEN outbox[r].attempts ELSE 0]]
    BY <1>1 DEF ClaimSelect
  <2>2. S \subseteq Row
    BY DEF Claimable
  <2>3. /\ outbox' = outbox /\ late' = late
        /\ batch'[w] = S /\ \A r \in S : snap'[w][r] = outbox[r].attempts
        /\ \A v \in Worker : v # w => batch'[v] = batch[v] /\ snap'[v] = snap[v]
    BY <1>1, <2>1, <2>2 DEF ClaimSelect, TypeOK
  <2> QED BY <2>3 DEF CountsExact
<1>2. ASSUME snap' = snap, late \subseteq late', \A v \in Worker : batch'[v] \subseteq batch[v],
             \A q \in Row : outbox'[q].attempts = outbox[q].attempts
      PROVE  CountsExact'
  <2>1. \A v \in Worker : batch[v] \subseteq Row
    BY DEF TypeOK
  <2> QED BY <1>2, <2>1 DEF CountsExact
<1>3. ASSUME NEW w \in Worker, NEW r \in Row, MarkRetryOrFailed(w, r) PROVE CountsExact'
  <2>1. /\ r \in Held(w) /\ r \notin Locked /\ snap' = snap /\ late' = late
        /\ batch' = [batch EXCEPT ![w] = batch[w] \ {r}]
    BY <1>3 DEF MarkRetryOrFailed, Advance, IsNext, Held
  <2> SUFFICES ASSUME NEW v \in Worker, NEW q \in batch'[v], q \notin late
               PROVE  snap[v][q] = outbox'[q].attempts
    BY <2>1 DEF CountsExact
  <2>2. q \in batch[v] /\ (v = w => q # r) /\ q \in Row
    BY <2>1 DEF TypeOK
  <2>3. q # r
    <3>1. CASE pc[v] = "claimed"
      BY <2>1, <2>2, <3>1 DEF Locked
    <3>2. CASE pc[v] # "claimed"
      BY <2>1, <2>2, <3>2 DEF Held, Claims, SoleClaim
    <3> QED BY <3>1, <3>2
  <2> QED BY <1>3, <2>2, <2>3, MissedRow DEF CountsExact
<1>4. ASSUME NEW w \in Worker, NEW r \in Row, MarkSent(w, r) \/ MarkSentFails(w, r)
      PROVE  CountsExact'
  <2>1. outbox' = outbox \/ outbox' = [outbox EXCEPT ![r] = Sent(outbox[r])]
    BY <1>4 DEF MarkSent, MarkSentFails
  <2>2. \A q \in Row : outbox'[q].attempts = outbox[q].attempts
    BY <2>1, SentRow
  <2>3. snap' = snap /\ late' = late /\ \A v \in Worker : batch'[v] \subseteq batch[v]
    BY <1>4 DEF MarkSent, MarkSentFails, Advance, TypeOK
  <2> QED BY <1>2, <2>2, <2>3
<1>5. ASSUME \/ Tick \/ UNCHANGED vars
             \/ \E w \in Worker : \/ Revive(w) \/ ClaimUpdate(w) \/ Abort(w)
                                  \/ \E r \in Row : Dispatch(w, r)
      PROVE  CountsExact'
  <2>1. snap' = snap /\ late \subseteq late' /\ \A v \in Worker : batch'[v] \subseteq batch[v]
    BY <1>5 DEF Tick, vars, Revive, ClaimUpdate, Abort, Dispatch, TypeOK
  <2>2. \A q \in Row : outbox'[q].attempts = outbox[q].attempts
    BY <1>5, QuietRows
  <2> QED BY <1>2, <2>1, <2>2
<1> QED BY <1>1, <1>3, <1>4, <1>5 DEF Next, Continue

\* The row a run works on is not settled, unless that is in doubt.
LEMMA HeldUnsettled ==
  ASSUME OutboxAssumption, TypeOK, Claims, NEW w \in Worker, NEW r \in Row, r \in Held(w)
  PROVE  Delivery!Unsettled(r)
<1>1. outbox[r].status = "PROCESSING" \/ r \in late \cup unsure
  BY DEF Claims, HeldStatus
<1> QED BY <1>1 DEF Delivery!Unsettled, Outcome

LEMMA DeliveryInit == ASSUME Init PROVE Delivery!Init
<1>1. \A r \in Row : Outcome(outbox[r]) = "OPEN" /\ outbox[r].attempts = 0
  BY DEF Init, NewRow, Outcome
<1> QED BY <1>1 DEF Init, Delivery!Init

LEMMA QuietDelivery ==
  ASSUME OutboxAssumption, TypeOK, Claims,
         \/ Tick \/ UNCHANGED vars
         \/ \E w \in Worker : ClaimSelect(w) \/ ClaimUpdate(w) \/ Abort(w)
  PROVE  UNCHANGED Delivery!vars
<1>1. \A q \in Row : /\ Outcome(outbox'[q]) = Outcome(outbox[q])
                     /\ outbox'[q].attempts = outbox[q].attempts
  BY QuietRows
<1>2. queued' = queued /\ late' = late /\ unsure' = unsure
  BY DEF Tick, vars, ClaimSelect, ClaimUpdate, Abort
<1> QED BY <1>1, <1>2 DEF Delivery!vars

LEMMA ReviveDoubts ==
  ASSUME OutboxAssumption, TypeOK, Claims, NEW w \in Worker, Revive(w)
  PROVE  Delivery!Doubt
<1>1. \A q \in Row : /\ Outcome(outbox'[q]) = Outcome(outbox[q])
                     /\ outbox'[q].attempts = outbox[q].attempts
  BY QuietRows
<1>2. /\ queued' = queued /\ unsure' = unsure /\ late \subseteq late'
      /\ \A r \in late' \ late : r \in Row /\ Outcome(outbox[r]) = "OPEN"
  BY DEF Revive, Stale, Outcome
<1> QED BY <1>1, <1>2 DEF Delivery!Doubt

LEMMA DispatchAccepts ==
  ASSUME OutboxAssumption, TypeOK, Claims, NEW w \in Worker, NEW r \in Row, Dispatch(w, r)
  PROVE  Delivery!Accept(r) \/ UNCHANGED Delivery!vars
<1>1. /\ outbox' = outbox /\ late' = late /\ unsure' = unsure /\ r \in Held(w)
      /\ queued' = queued \/ (r \notin Unknown /\ queued' = queued \cup {r})
  BY DEF Dispatch, IsNext, Held
<1> QED BY <1>1, HeldUnsettled DEF Delivery!Accept, Delivery!vars

\* Both marks, the one that is reported and the one that is not.
LEMMA MarkDelivers ==
  ASSUME OutboxAssumption, TypeOK, Claims, NEW w \in Worker, NEW r \in Row,
         MarkSent(w, r) \/ MarkSentFails(w, r)
  PROVE  Delivery!Deliver(r) \/ UNCHANGED Delivery!vars
<1>1. r \in Held(w) /\ r \in queued /\ queued' = queued /\ late' = late
  BY DEF MarkSent, MarkSentFails, IsNext, Held, Claims, MarkedIsQueued
<1>2. CASE outbox' = outbox /\ unsure' = unsure
  BY <1>1, <1>2 DEF Delivery!vars
<1>3. CASE /\ outbox' = [outbox EXCEPT ![r] = Sent(outbox[r])]
           /\ unsure' \in {unsure, unsure \cup {r}}
  <2>1. \A q \in Row : /\ Outcome(outbox'[q]) = IF q = r THEN "SENT" ELSE Outcome(outbox[q])
                       /\ outbox'[q].attempts = outbox[q].attempts
    BY <1>3, SentRow
  <2>2. (late \cup unsure)' \in {late \cup unsure, (late \cup unsure) \cup {r}}
    BY <1>1, <1>3
  <2> QED BY <1>1, <2>1, <2>2, HeldUnsettled DEF Delivery!Deliver
<1> QED BY <1>2, <1>3 DEF MarkSent, MarkSentFails

LEMMA MissCounts ==
  ASSUME OutboxAssumption, TypeOK, Claims, CountsExact, NEW w \in Worker, NEW r \in Row,
         MarkRetryOrFailed(w, r)
  PROVE  Delivery!Retry(r) \/ Delivery!GiveUp(r)
<1>1. /\ r \in Held(w) /\ r \in batch[w]
      /\ queued' = queued /\ late' = late /\ unsure' = unsure
  BY DEF MarkRetryOrFailed, IsNext, Held
<1>2. /\ snap[w][r] \in Nat /\ outbox[r].attempts \in Nat
      /\ snap[w][r] <= outbox[r].attempts
      /\ r \notin late => snap[w][r] = outbox[r].attempts
  BY <1>1 DEF TypeOK, OutboxRow, Claims, SnapNotAhead, CountsExact
<1>3. ASSUME NEW outcome \in {"OPEN", "FAILED"},
             outcome = IF snap[w][r] + 1 >= MaxAttempts THEN "FAILED" ELSE "OPEN"
      PROVE  Delivery!Miss(r, outcome)
  <2>1. \A q \in Row :
          /\ Outcome(outbox'[q]) = IF q = r THEN outcome ELSE Outcome(outbox[q])
          /\ outbox'[q].attempts = IF q = r THEN outbox[q].attempts + 1 ELSE outbox[q].attempts
    BY <1>3, MissedRow
  <2> QED BY <1>1, <2>1, HeldUnsettled DEF Delivery!Miss
<1>4. CASE snap[w][r] + 1 >= MaxAttempts
  <2>1. outbox[r].attempts + 1 >= MaxAttempts
    BY <1>2, <1>4 DEF OutboxAssumption
  <2>2. Delivery!Miss(r, "FAILED")
    BY <1>3, <1>4
  <2> QED BY <2>1, <2>2 DEF Delivery!GiveUp
<1>5. CASE ~(snap[w][r] + 1 >= MaxAttempts)
  <2>1. outbox[r].attempts + 1 < MaxAttempts \/ r \in late
    BY <1>2, <1>5 DEF OutboxAssumption
  <2>2. Delivery!Miss(r, "OPEN")
    BY <1>3, <1>5
  <2> QED BY <2>1, <2>2 DEF Delivery!Retry
<1> QED BY <1>4, <1>5

LEMMA DeliveryStep ==
  ASSUME OutboxAssumption, TypeOK, Claims, CountsExact, [Next]_vars
  PROVE  [Delivery!Next]_Delivery!vars
<1>1. ASSUME NEW w \in Worker, NEW r \in Row,
             \/ Dispatch(w, r) \/ MarkSent(w, r) \/ MarkSentFails(w, r)
             \/ MarkRetryOrFailed(w, r)
      PROVE  [Delivery!Next]_Delivery!vars
  BY <1>1, DispatchAccepts, MarkDelivers, MissCounts DEF Delivery!Next
<1>2. ASSUME NEW w \in Worker, Revive(w) PROVE [Delivery!Next]_Delivery!vars
  BY <1>2, ReviveDoubts DEF Delivery!Next
<1> QED BY <1>1, <1>2, QuietDelivery DEF Next, Continue

-----------------------------------------------------------------------------
(* The theorems.                                                           *)

\* The table, the queues and the runs' locals are well-formed, for any number
\* of rows and workers: no status outside the enum, no negative delay.
THEOREM TypeCorrect == ASSUME OutboxAssumption PROVE Spec => []TypeOK
<1>1. Init => TypeOK
  BY TypeInit
<1>2. TypeOK /\ [Next]_vars => TypeOK'
  BY TypeStep
<1> QED BY <1>1, <1>2, PTL DEF Spec

\* The inductive invariant behind the three safety properties below.
THEOREM ClaimsHold == ASSUME OutboxAssumption PROVE Spec => []Claims
<1>1. Init => Claims
  BY ClaimsInit
<1>2. TypeOK /\ Claims /\ [Next]_vars => Claims'
  BY ClaimsStep
<1> QED BY <1>1, <1>2, TypeCorrect, PTL DEF Spec

\* drainOnce never marks a row SENT that no queue has accepted.
THEOREM SentHaveJobs == ASSUME OutboxAssumption PROVE Spec => []SentWasQueued
<1>1. Claims => SentWasQueued
  BY DEF Claims
<1> QED BY <1>1, ClaimsHold, PTL

\* markRetryOrFailed gives a row up only after all its attempts, although it
\* decides on the count of the claim.
THEOREM FailedAreExhausted == ASSUME OutboxAssumption PROVE Spec => []FailedUsedAllAttempts
<1>1. Claims => FailedUsedAllAttempts
  BY DEF Claims
<1> QED BY <1>1, ClaimsHold, PTL

\* claimBatch gives a row to one run at a time, until a lock is revived under a
\* live run.
THEOREM ClaimsAreExclusive == ASSUME OutboxAssumption PROVE Spec => []SoleClaim
<1>1. Claims => SoleClaim
  BY DEF Claims
<1> QED BY <1>1, ClaimsHold, PTL

\* A row that is SENT is not dispatched again, except after a revival under a
\* live run or a mark that reported an error.
THEOREM SentRowsStay == ASSUME OutboxAssumption PROVE Spec => SentStays
<1>1. TypeOK /\ Claims /\ [Next]_vars =>
        [\A r \in Row : outbox[r].status = "SENT" /\ outbox'[r].status # "SENT"
           => r \in late \cup unsure]_vars
  BY SentStaysStep
<1> QED BY <1>1, TypeCorrect, ClaimsHold, PTL DEF Spec, SentStays

\* The dispatcher runs, with their claims, locks, crashes and lost replies,
\* implement the outbox as a table of rows that are tried until they are sent or
\* out of attempts, and then left alone, except for rows in doubt.
THEOREM RunsDeliver == ASSUME OutboxAssumption PROVE Spec => DeliverySpec
<1>1. Init => Delivery!Init
  BY DeliveryInit
<1>2. Init => CountsExact
  BY DEF Init, CountsExact
<1>3. TypeOK /\ Claims /\ CountsExact /\ [Next]_vars => CountsExact'
  BY CountsStep
<1>4. TypeOK /\ Claims /\ CountsExact /\ [Next]_vars => [Delivery!Next]_Delivery!vars
  BY DeliveryStep
<1> QED BY <1>1, <1>2, <1>3, <1>4, TypeCorrect, ClaimsHold, PTL DEF Spec, DeliverySpec, Delivery!Spec

-----------------------------------------------------------------------------
(* What follows from the delivery alone.                                   *)

\* No more than MaxAttempts attempts are made for a row, and the last of them
\* settles it; rows in doubt excepted.
TriesBounded ==
  \A r \in Row \ (late \cup unsure) :
    /\ outbox[r].attempts <= MaxAttempts
    /\ outbox[r].status # "FAILED" => outbox[r].attempts < MaxAttempts

LEMMA TriesStep ==
  ASSUME OutboxAssumption, TypeOK, TypeOK', TriesBounded, [Delivery!Next]_Delivery!vars
  PROVE  TriesBounded'
<1> SUFFICES ASSUME NEW q \in Row, q \notin (late \cup unsure)'
             PROVE  /\ outbox'[q].attempts <= MaxAttempts
                    /\ outbox'[q].status # "FAILED" => outbox'[q].attempts < MaxAttempts
  BY DEF TriesBounded
<1>1. /\ outbox[q].attempts \in Nat /\ outbox'[q].attempts \in Nat /\ MaxAttempts \in Nat
      /\ outbox[q].status \in Status /\ outbox'[q].status \in Status
  BY DEF TypeOK, OutboxRow, OutboxAssumption
<1>2. /\ Outcome(outbox[q]) = "FAILED" <=> outbox[q].status = "FAILED"
      /\ Outcome(outbox'[q]) = "FAILED" <=> outbox'[q].status = "FAILED"
  BY <1>1 DEF Outcome, Status
<1>3. CASE q \notin late \cup unsure /\ Outcome(outbox'[q]) = Outcome(outbox[q])
           /\ outbox'[q].attempts = outbox[q].attempts
  BY <1>1, <1>2, <1>3 DEF TriesBounded
<1>4. CASE UNCHANGED Delivery!vars \/ Delivery!Doubt
  <2>1. /\ q \notin late \cup unsure
        /\ \A r \in Row : Outcome(outbox'[r]) = Outcome(outbox[r])
                          /\ outbox'[r].attempts = outbox[r].attempts
    BY <1>4 DEF Delivery!vars, Delivery!Doubt
  <2> QED BY <1>3, <2>1
<1>5. ASSUME NEW r \in Row, Delivery!Accept(r) \/ Delivery!Deliver(r)
      PROVE  /\ outbox'[q].attempts <= MaxAttempts
             /\ outbox'[q].status # "FAILED" => outbox'[q].attempts < MaxAttempts
  <2>1. q \notin late \cup unsure /\ outbox'[q].attempts = outbox[q].attempts
    BY <1>5 DEF Delivery!Accept, Delivery!Deliver
  <2>2. Delivery!Accept(r) => Outcome(outbox'[q]) = Outcome(outbox[q])
    BY DEF Delivery!Accept
  <2>3. /\ Delivery!Deliver(r) /\ r = q => Delivery!Unsettled(q)
        /\ Delivery!Deliver(r) /\ r # q => Outcome(outbox'[q]) = Outcome(outbox[q])
    BY DEF Delivery!Deliver
  <2>4. /\ q \notin late \cup unsure
        /\ outbox'[q].attempts = outbox[q].attempts
        /\ \/ Outcome(outbox'[q]) = Outcome(outbox[q])
           \/ r = q /\ Delivery!Unsettled(q)
    BY <1>5, <2>1, <2>2, <2>3
  <2>5. CASE r = q /\ Delivery!Unsettled(q)
    <3>1. outbox[q].status # "FAILED"
      BY <2>4, <2>5 DEF Delivery!Unsettled, Outcome
    <3> QED BY <1>1, <2>4, <3>1 DEF TriesBounded
  <2> QED BY <1>3, <2>4, <2>5
<1>6. ASSUME NEW r \in Row, Delivery!Retry(r) \/ Delivery!GiveUp(r)
      PROVE  /\ outbox'[q].attempts <= MaxAttempts
             /\ outbox'[q].status # "FAILED" => outbox'[q].attempts < MaxAttempts
  <2>1. q \notin late \cup unsure
    BY <1>6 DEF Delivery!Retry, Delivery!GiveUp, Delivery!Miss
  <2>2. CASE q # r
    <3>1. Outcome(outbox'[q]) = Outcome(outbox[q]) /\ outbox'[q].attempts = outbox[q].attempts
      BY <1>6, <2>2 DEF Delivery!Retry, Delivery!GiveUp, Delivery!Miss
    <3> QED BY <1>3, <2>1, <3>1
  <2>3. CASE q = r
    <3>1. outbox[q].status # "FAILED" /\ outbox'[q].attempts = outbox[q].attempts + 1
      BY <1>6, <2>1, <2>3 DEF Delivery!Retry, Delivery!GiveUp, Delivery!Miss,
         Delivery!Unsettled, Outcome
    <3>2. outbox'[q].status = "FAILED" \/ outbox[q].attempts + 1 < MaxAttempts
      BY <1>2, <1>6, <2>1, <2>3 DEF Delivery!Retry, Delivery!GiveUp, Delivery!Miss
    <3> QED BY <1>1, <2>1, <3>1, <3>2 DEF TriesBounded
  <2> QED BY <2>2, <2>3
<1> QED BY <1>4, <1>5, <1>6 DEF Delivery!Next

\* OUTBOX_DISPATCH_MAX_ATTEMPTS bounds the attempts for a row that was neither
\* revived under a live run nor marked in a call that reported an error.
THEOREM TriesAreBounded == ASSUME OutboxAssumption PROVE Spec => []TriesBounded
<1>1. Init => TriesBounded
  BY DEF Init, TriesBounded, NewRow, OutboxAssumption
<1>2. TypeOK /\ TypeOK' /\ TriesBounded /\ [Delivery!Next]_Delivery!vars => TriesBounded'
  BY TriesStep
<1> QED BY <1>1, <1>2, TypeCorrect, RunsDeliver, PTL DEF DeliverySpec, Delivery!Spec, Spec

=============================================================================
