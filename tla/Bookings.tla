------------------------------ MODULE Bookings ------------------------------
(***************************************************************************)
(* The write side of the booking API: BookingsService.create, reschedule,  *)
(* cancel and confirm (apps/api/src/bookings/bookings.service.ts), run by  *)
(* concurrent requests against one PostgreSQL database, together with the  *)
(* two things the database does by itself: the exclusion constraint        *)
(* Booking_no_overlap_per_staff and the trigger that writes the outbox.    *)
(*                                                                         *)
(* A request is a process that is split at its awaits: looking the         *)
(* idempotency key up, reading inside the transaction, writing, committing,*)
(* saving the key and invalidating the availability cache.  Transactions   *)
(* run at READ COMMITTED (the Prisma default), so a read sees the last     *)
(* committed row and nothing keeps that row from changing before the       *)
(* write.  A process that crashes is one that takes no further step; its   *)
(* open transaction is then rolled back (Fail).                            *)
(***************************************************************************)
EXTENDS Integers, Sequences

CONSTANTS
  Request,      \* HTTP requests, one handler run each
  Booking,      \* booking ids
  Staff,
  Service,
  Key,          \* idempotency keys of one business
  Start,        \* start times the requests may ask for
  Total,        \* service lengths: duration, buffers and add-ons, in minutes
  Legacy,       \* ids of rows written before totalMinSnapshot existed
  Notice,       \* customer notice window, for cancel and for reschedule
  MaxNow,       \* bound of the clock
  NULL

ASSUME BookingsAssumption ==
  /\ Start \subseteq Nat
  /\ Total \subseteq Nat \ {0}
  /\ Legacy \subseteq Booking
  /\ Notice \in Nat
  /\ MaxNow \in Nat

VARIABLES
  bookings,   \* table Booking: the committed row of an id, or NULL
  history,    \* table BookingHistory, per booking in commit order
  outbox,     \* table OutboxEvent, per booking in commit order
  idem,       \* table IdempotencyKey
  now,        \* Date.now()
  pc,         \* where the handler of a request is
  input,      \* what the request asks for
  seen,       \* create: the row to insert; others: the row the tx has read
  tx,         \* the update a reschedule has made and not yet committed
  reply       \* the answer the handler is about to give, or has given

db   == <<bookings, history, outbox>>
vars == <<bookings, history, outbox, idem, now, pc, input, seen, tx, reply>>

-----------------------------------------------------------------------------
(* Rows, requests and answers.                                             *)

Status == {"PENDING", "CONFIRMED", "CANCELLED", "COMPLETED", "NO_SHOW"}
Active == {"PENDING", "CONFIRMED"}

Row == [status : Status, staff : Staff, service : Service,
        start : Nat, end : Nat, total : Total \cup {NULL}]

HistoryEntry == [action : {"CREATE", "RESCHEDULE", "CANCEL", "CONFIRM"},
                 status : Status, from : Nat \cup {NULL}, to : Nat]

Event == [type : {"created", "rescheduled", "confirmed", "cancelled"},
          status : Status, start : Nat, end : Nat]

\* The actor, relative to the booking the request names.
Actor == {"operator", "customer", "stranger"}

Ask(op, b, svc, staff, start, actor, key) ==
  [op |-> op, booking |-> b, service |-> svc, staff |-> staff,
   start |-> start, actor |-> actor, key |-> key]

Input ==
       {Ask("create", NULL, v, s, t, "customer", k) :
          v \in Service, s \in Staff, t \in Start, k \in Key \cup {NULL}}
  \cup {Ask("reschedule", b, NULL, NULL, t, a, k) :
          b \in Booking, t \in Start, a \in Actor, k \in Key \cup {NULL}}
  \cup {Ask(op, b, NULL, NULL, NULL, a, k) :
          op \in {"cancel", "confirm"}, b \in Booking, a \in Actor,
          k \in Key \cup {NULL}}

\* requestHash: everything the request asks for, without actor and key.
Hash(i) == [i EXCEPT !.actor = NULL, !.key = NULL]

\* The body of a successful answer.  The early returns of cancel and confirm
\* carry id and status only.
Body(b, row)   == [id |-> b, status |-> row.status, start |-> row.start]
Bare(b, s)     == [id |-> b, status |-> s, start |-> NULL]
Bodies         == [id : Booking, status : Status, start : Nat \cup {NULL}]

Ok(body)   == [code |-> "ok", body |-> body]
Err(code)  == [code |-> code, body |-> NULL]
NoReply    == Err("none")
Replies    == [code : {"ok"}, body : Bodies]
         \cup [code : {"none", "conflict", "badRequest", "forbidden", "error"},
               body : {NULL}]

Stored == [hash : {Hash(i) : i \in Input}, response : Bodies]
Update == [row : Row, aborted : BOOLEAN]

\* NULL is the SQL null: no id, no number and no record.
ASSUME NullAssumption ==
  /\ NULL \notin Booking \cup Staff \cup Service \cup Key
  /\ NULL \notin Nat
  /\ NULL \notin Row /\ NULL \notin Update /\ NULL \notin Stored
  /\ NULL \notin Input

-----------------------------------------------------------------------------
(* What the database does: constraint, locks, trigger.                     *)

\* EXCLUDE USING gist (staffId WITH =, tsrange(startAt, endAt, '[)') WITH &&)
\* WHERE status IN ('PENDING', 'CONFIRMED')
Conflict(x, y) ==
  /\ x.status \in Active /\ y.status \in Active
  /\ x.staff = y.staff
  /\ x.start < y.end /\ y.start < x.end

\* Mutated form of Free: WHERE status = 'CONFIRMED', so that a booking waiting
\* for its confirmation does not hold its time.
FreeOfConfirmed(b, row) ==
  \A c \in Booking \ {b} :
    (bookings[c] # NULL /\ bookings[c].status = "CONFIRMED")
      => ~Conflict(row, bookings[c])

\* The constraint lets row become the version of b.
Free(b, row) ==
  \A c \in Booking \ {b} : bookings[c] # NULL => ~Conflict(row, bookings[c])

\* The write of row as b waits for another open transaction: it has locked b,
\* or the constraint check meets a version that may still be rolled back.
Waits(r, b, row) ==
  \E q \in Request \ {r} :
    /\ tx[q] # NULL
    /\ \/ input[q].booking = b
       \/ Conflict(row, tx[q].row)
       \/ Conflict(row, bookings[input[q].booking])

\* An insert of key k waits for an open transaction that has inserted it.
KeyWaits(r, k) ==
  \E q \in Request \ {r} : tx[q] # NULL /\ ~tx[q].aborted /\ input[q].key = k

\* enqueue_booking_outbox_event, AFTER UPDATE OF status, "startAt", "endAt".
UpdateEvents(old, new) ==
  LET event(type) == [type |-> type, status |-> new.status,
                      start |-> new.start, end |-> new.end]
      when(cond, type) == IF cond THEN <<event(type)>> ELSE <<>>
  IN  when(new.start # old.start \/ new.end # old.end, "rescheduled")
      \o when(new.status # old.status /\ new.status = "CONFIRMED", "confirmed")
      \o when(new.status # old.status /\ new.status = "CANCELLED", "cancelled")

\* The commit of an INSERT into Booking and of its history row.
CommitInsert(b, row) ==
  /\ bookings' = [bookings EXCEPT ![b] = row]
  /\ history' = [history EXCEPT ![b] =
       Append(@, [action |-> "CREATE", status |-> row.status,
                  from |-> NULL, to |-> row.start])]
  /\ outbox' = [outbox EXCEPT ![b] =
       Append(@, [type |-> "created", status |-> row.status,
                  start |-> row.start, end |-> row.end])]

\* Mutated form of CommitUpdate: the history row is filled from the row read.
CommitStaleHistory(b, row, action, fromStart) ==
  /\ bookings' = [bookings EXCEPT ![b] = row]
  /\ history' = [history EXCEPT ![b] =
       Append(@, [action |-> action, status |-> row.status, from |-> fromStart,
                  to |-> IF action = "RESCHEDULE" THEN row.start ELSE fromStart])]
  /\ outbox' = [outbox EXCEPT ![b] = @ \o UpdateEvents(bookings[b], row)]

\* The commit of an UPDATE of b and of its history row.  fromStart is what the
\* handler read before, row what the UPDATE returned.
CommitUpdate(b, row, action, fromStart) ==
  /\ bookings' = [bookings EXCEPT ![b] = row]
  /\ history' = [history EXCEPT ![b] =
       Append(@, [action |-> action, status |-> row.status,
                  from |-> fromStart, to |-> row.start])]
  /\ outbox' = [outbox EXCEPT ![b] = @ \o UpdateEvents(bookings[b], row)]

-----------------------------------------------------------------------------
(* The handlers.                                                           *)

Goto(r, label) == pc' = [pc EXCEPT ![r] = label]

\* The handler of r returns or throws; nothing else changes.
Answer(r, a) ==
  /\ Goto(r, "done")
  /\ reply' = [reply EXCEPT ![r] = a]

\* enforceCustomerNoticeWindow lets the actor pass.
NoticeOk(actor, start) ==
  \/ actor = "operator"
  \/ Notice = 0
  \/ start - now >= Notice

\* A request arrives; idemGet, and the replay of a stored answer.
Begin(r) ==
  /\ pc[r] = "idle"
  /\ \E i \in Input :
       LET stored == IF i.key = NULL THEN NULL ELSE idem[i.key] IN
       /\ input' = [input EXCEPT ![r] = i]
       /\ IF stored = NULL
            THEN /\ Goto(r, IF i.op = "create" THEN "resolve" ELSE "read")
                 /\ UNCHANGED reply
            ELSE Answer(r, IF stored.hash = Hash(i)
                             THEN Ok(stored.response) ELSE Err("conflict"))
  /\ UNCHANGED <<db, idem, now, seen, tx>>

\* create: ServiceProfileService.resolveForSelection yields the length of the
\* selection, or rejects it; the row is put together from it.
CreateResolve(r) ==
  /\ pc[r] = "resolve"
  /\ \/ \E t \in Total :
          /\ seen' = [seen EXCEPT ![r] =
               [status |-> "PENDING", staff |-> input[r].staff,
                service |-> input[r].service, start |-> input[r].start,
                end |-> input[r].start + t, total |-> t]]
          /\ Goto(r, "write")
          /\ UNCHANGED reply
     \/ Answer(r, Err("badRequest")) /\ UNCHANGED seen
  /\ UNCHANGED <<db, idem, now, input, tx>>

\* After the transaction: save the key if there is one, then invalidate.
AfterCommit(r, body) ==
  /\ Goto(r, IF input[r].key = NULL THEN "invalidate" ELSE "save")
  /\ reply' = [reply EXCEPT ![r] = Ok(body)]

\* create: the transaction (INSERT Booking, INSERT BookingHistory, COMMIT), or
\* the exclusion violation that becomes 'Slot not available'.
CreateCommit(r) ==
  /\ pc[r] = "write" /\ input[r].op = "create"
  /\ \E b \in {c \in Booking : bookings[c] = NULL} :
       /\ ~Waits(r, b, seen[r])
       /\ \/ /\ Free(b, seen[r])
             /\ CommitInsert(b, seen[r])
             /\ AfterCommit(r, Body(b, seen[r]))
          \/ /\ ~Free(b, seen[r])
             /\ Answer(r, Err("conflict"))
             /\ UNCHANGED db
  /\ UNCHANGED <<idem, now, input, seen, tx>>

\* reschedule: the reads of the transaction and the checks on what they saw.
RescheduleRead(r) ==
  LET b == input[r].booking  row == bookings[b]  actor == input[r].actor IN
  /\ pc[r] = "read" /\ input[r].op = "reschedule"
  /\ IF row = NULL \/ (row # NULL /\ row.status \notin Active)
       THEN Answer(r, Err("badRequest")) /\ UNCHANGED seen
     ELSE IF actor = "stranger"
       THEN Answer(r, Err("forbidden")) /\ UNCHANGED seen
     ELSE IF ~NoticeOk(actor, row.start)
       THEN Answer(r, Err("badRequest")) /\ UNCHANGED seen
     ELSE \/ /\ \E t \in IF row.total = NULL THEN Total ELSE {row.total} :
                  seen' = [seen EXCEPT ![r] = [row EXCEPT !.total = t]]
             /\ Goto(r, "write")
             /\ UNCHANGED reply
          \/ /\ row.total = NULL  \* resolveLegacyTotalMin: no active service
             /\ Answer(r, Err("badRequest"))
             /\ UNCHANGED seen
  /\ UNCHANGED <<db, idem, now, input, tx>>

\* Mutated form of RescheduleUpdate: overlap is looked for on insert only.
RescheduleUpdateUnchecked(r) ==
  LET b == input[r].booking
      row == [bookings[b] EXCEPT !.start = input[r].start,
                                 !.end = input[r].start + seen[r].total] IN
  /\ pc[r] = "write" /\ input[r].op = "reschedule"
  /\ ~Waits(r, b, row)
  /\ tx' = [tx EXCEPT ![r] = [row |-> row, aborted |-> FALSE]]
  /\ Goto(r, "inTxInvalidate")
  /\ UNCHANGED <<db, idem, now, input, seen, reply>>

\* Mutated form of RescheduleUpdate: the key is saved outside the transaction.
RescheduleUpdateKeyFirst(r) ==
  LET b == input[r].booking
      k == input[r].key
      row == [bookings[b] EXCEPT !.start = input[r].start,
                                 !.end = input[r].start + seen[r].total] IN
  /\ pc[r] = "write" /\ input[r].op = "reschedule"
  /\ ~Waits(r, b, row) /\ Free(b, row)
  /\ tx' = [tx EXCEPT ![r] = [row |-> row, aborted |-> FALSE]]
  /\ idem' = IF k = NULL \/ (k # NULL /\ idem[k] # NULL) THEN idem
             ELSE [idem EXCEPT ![k] = [hash |-> Hash(input[r]),
                                       response |-> Body(b, row)]]
  /\ Goto(r, "inTxInvalidate")
  /\ UNCHANGED <<db, now, input, seen, reply>>

\* reschedule: UPDATE by id, history row and key, all uncommitted.  A key that
\* exists already makes its INSERT fail; the handler swallows the error, but
\* PostgreSQL has put the transaction in the aborted state.
RescheduleUpdate(r) ==
  LET b == input[r].booking
      k == input[r].key
      row == [bookings[b] EXCEPT !.start = input[r].start,
                                 !.end = input[r].start + seen[r].total] IN
  /\ pc[r] = "write" /\ input[r].op = "reschedule"
  /\ ~Waits(r, b, row)
  /\ k # NULL => ~KeyWaits(r, k)
  /\ IF Free(b, row)
       THEN /\ tx' = [tx EXCEPT ![r] =
                 [row |-> row, aborted |-> k # NULL /\ idem[k] # NULL]]
            /\ Goto(r, "inTxInvalidate")
            /\ UNCHANGED reply
       ELSE Answer(r, Err("conflict")) /\ UNCHANGED tx
  /\ UNCHANGED <<db, idem, now, input, seen>>

\* reschedule: invalidateAvailabilityCacheForBooking, inside the transaction,
\* which stays open until Redis has answered or failed.
RescheduleInvalidate(r) ==
  /\ pc[r] = "inTxInvalidate"
  /\ Goto(r, "commit")
  /\ UNCHANGED <<db, idem, now, input, seen, tx, reply>>

\* reschedule: COMMIT, which rolls an aborted transaction back and reports no
\* error, and the answer.
RescheduleCommit(r) ==
  LET b == input[r].booking  k == input[r].key  row == tx[r].row IN
  /\ pc[r] = "commit"
  /\ IF tx[r].aborted
       THEN UNCHANGED <<db, idem>>
       ELSE /\ CommitUpdate(b, row, "RESCHEDULE", seen[r].start)
            /\ idem' = IF k = NULL THEN idem
                       ELSE [idem EXCEPT ![k] = [hash |-> Hash(input[r]),
                                                 response |-> Body(b, row)]]
  /\ tx' = [tx EXCEPT ![r] = NULL]
  /\ Answer(r, Ok(Body(b, row)))
  /\ UNCHANGED <<now, input, seen>>

\* Mutated form of CancelRead: whatever is not cancelled can be.
CancelReadAny(r) ==
  LET b == input[r].booking  row == bookings[b] IN
  /\ pc[r] = "read" /\ input[r].op = "cancel"
  /\ row # NULL /\ input[r].actor # "stranger"
  /\ IF row.status = "CANCELLED"
       THEN AfterCommit(r, Bare(b, "CANCELLED")) /\ UNCHANGED seen
       ELSE /\ NoticeOk(input[r].actor, row.start)
            /\ seen' = [seen EXCEPT ![r] = row]
            /\ Goto(r, "write")
            /\ UNCHANGED reply
  /\ UNCHANGED <<db, idem, now, input, tx>>

\* cancel: the reads of the transaction, the checks, the early return.
CancelRead(r) ==
  LET b == input[r].booking  row == bookings[b]  actor == input[r].actor IN
  /\ pc[r] = "read" /\ input[r].op = "cancel"
  /\ IF row = NULL THEN Answer(r, Err("badRequest")) /\ UNCHANGED seen
     ELSE IF actor = "stranger"
       THEN Answer(r, Err("forbidden")) /\ UNCHANGED seen
     ELSE IF row.status = "CANCELLED"
       THEN AfterCommit(r, Bare(b, "CANCELLED")) /\ UNCHANGED seen
     ELSE IF row.status \notin Active \/ ~NoticeOk(actor, row.start)
       THEN Answer(r, Err("badRequest")) /\ UNCHANGED seen
     ELSE /\ seen' = [seen EXCEPT ![r] = row]
          /\ Goto(r, "write")
          /\ UNCHANGED reply
  /\ UNCHANGED <<db, idem, now, input, tx>>

\* cancel: UPDATE by id, whatever the status is by now; history row; COMMIT.
CancelCommit(r) ==
  LET b == input[r].booking
      row == [bookings[b] EXCEPT !.status = "CANCELLED"] IN
  /\ pc[r] = "write" /\ input[r].op = "cancel"
  /\ ~Waits(r, b, row)
  /\ CommitUpdate(b, row, "CANCEL", seen[r].start)
  /\ AfterCommit(r, Body(b, row))
  /\ UNCHANGED <<idem, now, input, seen, tx>>

\* confirm: the reads of the transaction, the checks, the early return.
ConfirmRead(r) ==
  LET b == input[r].booking  row == bookings[b] IN
  /\ pc[r] = "read" /\ input[r].op = "confirm"
  /\ IF row = NULL THEN Answer(r, Err("badRequest")) /\ UNCHANGED seen
     ELSE IF input[r].actor # "operator"
       THEN Answer(r, Err("forbidden")) /\ UNCHANGED seen
     ELSE IF row.status = "CONFIRMED"
       THEN AfterCommit(r, Bare(b, "CONFIRMED")) /\ UNCHANGED seen
     ELSE IF row.status # "PENDING"
       THEN Answer(r, Err("badRequest")) /\ UNCHANGED seen
     ELSE /\ seen' = [seen EXCEPT ![r] = row]
          /\ Goto(r, "write")
          /\ UNCHANGED reply
  /\ UNCHANGED <<db, idem, now, input, tx>>

\* confirm: UPDATE by id, whatever the status is by now; history row; COMMIT.
\* The constraint is checked again: the row may have been cancelled and its
\* time taken since the read.
ConfirmCommit(r) ==
  LET b == input[r].booking
      row == [bookings[b] EXCEPT !.status = "CONFIRMED"] IN
  /\ pc[r] = "write" /\ input[r].op = "confirm"
  /\ ~Waits(r, b, row)
  /\ IF Free(b, row)
       THEN /\ CommitUpdate(b, row, "CONFIRM", seen[r].start)
            /\ AfterCommit(r, Body(b, row))
       ELSE Answer(r, Err("error")) /\ UNCHANGED db
  /\ UNCHANGED <<idem, now, input, seen, tx>>

\* Mutated form of IdemSave: the upsert overwrites.
IdemSaveLast(r) ==
  LET k == input[r].key IN
  /\ pc[r] = "save"
  /\ ~KeyWaits(r, k)
  /\ idem' = [idem EXCEPT ![k] = [hash |-> Hash(input[r]),
                                  response |-> reply[r].body]]
  /\ Goto(r, "invalidate")
  /\ UNCHANGED <<db, now, input, seen, tx, reply>>

\* idemSave after the transaction: an upsert that leaves a stored key alone.
IdemSave(r) ==
  LET k == input[r].key IN
  /\ pc[r] = "save"
  /\ ~KeyWaits(r, k)
  /\ idem' = IF idem[k] # NULL THEN idem
             ELSE [idem EXCEPT ![k] = [hash |-> Hash(input[r]),
                                       response |-> reply[r].body]]
  /\ Goto(r, "invalidate")
  /\ UNCHANGED <<db, now, input, seen, tx, reply>>

\* invalidateAvailabilityCacheForBooking after the transaction.  What becomes of
\* the pages is the module Availability's.
Invalidate(r) ==
  /\ pc[r] = "invalidate"
  /\ Goto(r, "done")
  /\ UNCHANGED <<db, idem, now, input, seen, tx, reply>>

\* Mutated form of Fail: no rollback.
FailOpen(r) ==
  /\ pc[r] \in {"resolve", "read", "write", "inTxInvalidate", "commit", "save"}
  /\ Answer(r, Err(IF input[r].op = "create" THEN "badRequest" ELSE "error"))
  /\ UNCHANGED <<db, idem, now, input, seen, tx>>

\* A database error, or the end of the process: an open transaction is rolled
\* back.  After the commit of create the same catch block answers, although
\* the booking is there.
Fail(r) ==
  /\ pc[r] \in {"resolve", "read", "write", "inTxInvalidate", "commit", "save"}
  /\ tx' = [tx EXCEPT ![r] = NULL]
  /\ Answer(r, Err(IF input[r].op = "create" THEN "badRequest" ELSE "error"))
  /\ UNCHANGED <<db, idem, now, input, seen>>

Tick ==
  /\ now < MaxNow
  /\ now' = now + 1
  /\ UNCHANGED <<db, idem, pc, input, seen, tx, reply>>

-----------------------------------------------------------------------------
Step(r) ==
  \/ CreateResolve(r) \/ CreateCommit(r)
  \/ RescheduleRead(r) \/ RescheduleUpdate(r)
  \/ RescheduleInvalidate(r) \/ RescheduleCommit(r)
  \/ CancelRead(r) \/ CancelCommit(r)
  \/ ConfirmRead(r) \/ ConfirmCommit(r)
  \/ IdemSave(r) \/ Invalidate(r)

Next ==
  \/ \E r \in Request : Begin(r) \/ Step(r) \/ Fail(r)
  \/ Tick

\* A legacy row: any status, no totalMinSnapshot.
LegacyRow ==
  {row \in [status : Status, staff : Staff, service : Service,
            start : Start, end : {t + d : t \in Start, d \in Total},
            total : {NULL}] : row.start < row.end}

Init ==
  /\ \E old \in [Legacy -> LegacyRow] :
       /\ \A b, c \in Legacy : b # c => ~Conflict(old[b], old[c])
       /\ bookings = [b \in Booking |-> IF b \in Legacy THEN old[b] ELSE NULL]
  /\ history = [b \in Booking |-> <<>>]
  /\ outbox = [b \in Booking |-> <<>>]
  /\ idem = [k \in Key |-> NULL]
  /\ now = 0
  /\ pc = [r \in Request |-> "idle"]
  /\ input = [r \in Request |-> NULL]
  /\ seen = [r \in Request |-> NULL]
  /\ tx = [r \in Request |-> NULL]
  /\ reply = [r \in Request |-> NoReply]

Spec == Init /\ [][Next]_vars

\* Once a request is accepted the Node event loop runs its handler to the end.
FairSpec == Spec /\ \A r \in Request : WF_vars(Step(r))

-----------------------------------------------------------------------------
(* Properties.                                                             *)

Labels == {"idle", "resolve", "read", "write", "inTxInvalidate", "commit",
           "save", "invalidate", "done"}

\* The locals of r at each label.  Rows are never deleted.
LocalsOK(r) ==
  /\ pc[r] # "idle" => input[r] \in Input
  /\ pc[r] \in {"write", "inTxInvalidate", "commit"} => seen[r] \in Row
  /\ pc[r] = "resolve" => input[r].op = "create"
  /\ pc[r] = "read" => input[r].op # "create"
  /\ (pc[r] = "write" /\ input[r].op # "create") =>
       /\ bookings[input[r].booking] # NULL
       /\ input[r].op = "reschedule" => seen[r].total \in Total
  /\ tx[r] # NULL <=> pc[r] \in {"inTxInvalidate", "commit"}
  /\ tx[r] # NULL => input[r].op = "reschedule"
  /\ tx[r] # NULL => bookings[input[r].booking] # NULL
  /\ pc[r] \in {"save", "invalidate"} => reply[r].code = "ok"
  /\ pc[r] = "save" => input[r].key \in Key

\* The tables and the handlers' locals hold what schema.prisma and
\* bookings.service.ts declare, and each local is set where it is used.
TypeOK ==
  /\ bookings \in [Booking -> Row \cup {NULL}]
  /\ history \in [Booking -> Seq(HistoryEntry)]
  /\ outbox \in [Booking -> Seq(Event)]
  /\ idem \in [Key -> Stored \cup {NULL}]
  /\ now \in 0..MaxNow
  /\ pc \in [Request -> Labels]
  /\ input \in [Request -> Input \cup {NULL}]
  /\ seen \in [Request -> Row \cup {NULL}]
  /\ tx \in [Request -> Update \cup {NULL}]
  /\ reply \in [Request -> Replies]
  /\ \A r \in Request : LocalsOK(r)

\* No member of staff has two active bookings at the same time: whatever
\* order creates, reschedules, cancels and confirms commit in, and also when a
\* confirm revives a row that was cancelled and whose time was given away.
NoDoubleBooking ==
  \A b, c \in Booking :
    (b # c /\ bookings[b] # NULL /\ bookings[c] # NULL)
      => ~Conflict(bookings[b], bookings[c])

\* A move that is made and not yet committed fits: it will not collide with a
\* committed booking nor with another open move, whatever others commit in the
\* meantime, and no two transactions hold the same booking.  This is what lets
\* RescheduleCommit commit without looking again.
OpenMovesFit ==
  \A r \in Request : tx[r] # NULL =>
    /\ Free(input[r].booking, tx[r].row)
    /\ \A q \in Request \ {r} : tx[q] # NULL =>
         /\ input[q].booking # input[r].booking
         /\ ~Conflict(tx[r].row, tx[q].row)

Final(s) == s[Len(s)]

\* The end of a booking is its start plus the length it was sold with.
LengthTracks(b) ==
  bookings[b].total # NULL => bookings[b].end = bookings[b].start + bookings[b].total

\* The last BookingHistory entry (in commit order) is where the row is.
HistoryTracks(b) ==
  history[b] # <<>> =>
    /\ Final(history[b]).status = bookings[b].status
    /\ Final(history[b]).to = bookings[b].start

\* The last outbox event of a booking is the committed row.
OutboxTracks(b) ==
  b \notin Legacy =>
    /\ outbox[b] # <<>>
    /\ LET e == Final(outbox[b]) IN
       /\ e.status = bookings[b].status
       /\ e.start = bookings[b].start
       /\ e.end = bookings[b].end

\* What is recorded about a booking agrees with its row, although every handler
\* decides what to record on a row that another handler may have changed since:
\* the audit trail and the events end in the committed row, no committed change
\* is without event, and however often a booking is moved, and whatever the
\* service's length has become since, it keeps the length it was sold with.
RecordsTrackRow ==
  \A b \in Booking :
    IF bookings[b] = NULL THEN history[b] = <<>> /\ outbox[b] = <<>>
    ELSE LengthTracks(b) /\ HistoryTracks(b) /\ OutboxTracks(b)

\* body describes a state its booking was committed in.
Happened(body) ==
  \/ \E n \in 1..Len(history[body.id]) :
       LET h == history[body.id][n] IN
       h.status = body.status /\ body.start \in {h.to, NULL}
  \/ body.id \in Legacy /\ body.start = NULL

\* What an idempotency key will be answered with really happened: no stored
\* answer describes a change that was rolled back.
StoredAnswersHappened ==
  \A k \in Key : idem[k] # NULL => Happened(idem[k].response)

\* A stored answer is never replaced: all later requests with the key get the
\* same answer, whichever concurrent first request wins.
KeysAreWrittenOnce ==
  [][\A k \in Key : idem[k] # NULL => idem'[k] = idem[k]]_vars

\* A COMPLETED or NO_SHOW booking is never written again: the updates go by
\* id alone, so this rests on the checks made before, on what was read.
FinishedIsFinal ==
  [][\A b \in Booking :
       (bookings[b] # NULL /\ bookings[b].status \in {"COMPLETED", "NO_SHOW"})
         => bookings'[b] = bookings[b]]_vars

\* To anyone who reads the tables, concurrent handlers with their awaits and
\* transactions are the diary: every commit is one whole create, move, cancel or
\* confirm of a booking that is not over and fits, and is recorded once, though
\* each handler decides on rows that others may have changed since it read them.
Diary     == INSTANCE BookingDiary
DiarySpec == Diary!Spec

\* Every accepted request is answered: waiting for another request's open
\* transaction never turns into waiting for ever.
EveryRequestAnswered ==
  \A r \in Request : pc[r] # "idle" ~> pc[r] = "done"

-----------------------------------------------------------------------------
(* What the repository's proof scripts assert, and interleavings break.    *)

\* policy_confirm_strategy.sh: "OWNER CONFIRM CANCELLED MUST FAIL".
CancelledNeverConfirmed ==
  [][\A b \in Booking :
       (bookings[b] # NULL /\ bookings[b].status = "CANCELLED")
         => bookings'[b].status # "CONFIRMED"]_vars

\* A reschedule that was answered with the moved booking did move it.
RescheduleAnswerHappened ==
  \A r \in Request :
    (pc[r] = "done" /\ reply[r].code = "ok" /\ input[r].op = "reschedule")
      => Happened(reply[r].body)

=============================================================================
