---------------------------- MODULE BookingDiary ----------------------------
(***************************************************************************)
(* What the booking API promises about the tables it writes, without       *)
(* requests, awaits and transactions: bookings change one at a time, by a  *)
(* whole create, move, cancel or confirm, and every change leaves one line *)
(* of history and, if the row is another one, one event.  An idempotency   *)
(* key gets one answer, about a state its booking was in.  Bookings        *)
(* implements it.                                                          *)
(*                                                                         *)
(* What the API does not promise is not here either: a cancelled booking   *)
(* may be moved, and confirmed; the start a change is said to come from    *)
(* may be an older one; and a change need not be answered.                 *)
(***************************************************************************)
EXTENDS Integers, Sequences

CONSTANTS
  Booking,   \* booking ids
  Staff,
  Service,
  Key,       \* idempotency keys
  Start,     \* start times that are asked for
  Total,     \* service lengths
  Legacy,    \* bookings that are there from the start, their length unknown
  NULL

VARIABLES bookings, history, outbox, idem

tables == <<bookings, history, outbox>>

-----------------------------------------------------------------------------
Taken    == {"PENDING", "CONFIRMED"}    \* a booking that holds its time
Finished == {"COMPLETED", "NO_SHOW"}    \* a booking that is over

Minutes(row) == row.start .. (row.end - 1)

\* Nobody is asked to do two things in the same minute.
Fits(b, row) ==
  row.status \in Taken =>
    \A c \in Booking \ {b} :
      (bookings[c] # NULL /\ bookings[c].status \in Taken /\ bookings[c].staff = row.staff)
        => Minutes(row) \cap Minutes(bookings[c]) = {}

Lines(b) == {history[b][n] : n \in 1..Len(history[b])}

\* The starts that b has or has had, as its history tells them.
Starts(b) ==
  {bookings[b].start} \cup {h.to : h \in Lines(b)} \cup ({h.from : h \in Lines(b)} \ {NULL})

\* row is b from now on; action says how and type how it is told.
Enter(b, row, action, from, type) ==
  /\ bookings' = [bookings EXCEPT ![b] = row]
  /\ history' = [history EXCEPT ![b] =
       Append(@, [action |-> action, status |-> row.status, from |-> from, to |-> row.start])]
  /\ outbox' = [outbox EXCEPT ![b] =
       @ \o IF row = bookings[b] THEN <<>>
            ELSE <<[type |-> type, status |-> row.status, start |-> row.start, end |-> row.end]>>]
  /\ Fits(b, row)

-----------------------------------------------------------------------------
Create(b, staff, service, start, total) ==
  /\ bookings[b] = NULL
  /\ Enter(b, [status |-> "PENDING", staff |-> staff, service |-> service,
               start |-> start, end |-> start + total, total |-> total],
           "CREATE", NULL, "created")

\* Only a booking that is there and not over changes.
Change(b, row, action, type) ==
  /\ bookings[b] # NULL /\ bookings[b].status \notin Finished
  /\ \E from \in Starts(b) : Enter(b, row, action, from, type)

\* The booking moves as a whole: it keeps the length it was sold with.
Move(b, start, total) ==
  /\ bookings[b] # NULL => bookings[b].total \in {NULL, total}
  /\ Change(b, [bookings[b] EXCEPT !.start = start, !.end = start + total],
            "RESCHEDULE", "rescheduled")

Cancel(b)  == Change(b, [bookings[b] EXCEPT !.status = "CANCELLED"], "CANCEL", "cancelled")
Confirm(b) == Change(b, [bookings[b] EXCEPT !.status = "CONFIRMED"], "CONFIRM", "confirmed")

Entry(b) ==
  \/ \E s \in Staff, v \in Service, t \in Start, d \in Total : Create(b, s, v, t, d)
  \/ \E t \in Start, d \in Total : Move(b, t, d)
  \/ Cancel(b) \/ Confirm(b)

\* The booking of the answer was once as it says.  An answer without a start may
\* be about the status an old booking already had.
Told(answer) ==
  \/ \E h \in Lines(answer.id) : h.status = answer.status /\ answer.start \in {h.to, NULL}
  \/ answer.id \in Legacy /\ answer.start = NULL

\* Key k gets its answer.
Keep(k) ==
  /\ idem[k] = NULL /\ idem'[k] # NULL
  /\ idem' = [idem EXCEPT ![k] = idem'[k]]
  /\ Told(idem[k].response)'

\* A change may come with the answer to a key, or the answer later.
Next ==
  /\ UNCHANGED tables \/ \E b \in Booking : Entry(b)
  /\ UNCHANGED idem \/ \E k \in Key : Keep(k)

\* Only the bookings of before are there, nothing is recorded yet.
Init ==
  /\ \A b \in Booking : bookings[b] # NULL <=> b \in Legacy
  /\ \A b \in Legacy : Fits(b, bookings[b])
  /\ history = [b \in Booking |-> <<>>]
  /\ outbox = [b \in Booking |-> <<>>]
  /\ idem = [k \in Key |-> NULL]

Spec == Init /\ [][Next]_<<tables, idem>>

=============================================================================
