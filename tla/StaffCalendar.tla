---------------------------- MODULE StaffCalendar ----------------------------
(***************************************************************************)
(* When a member of staff works: the weekly hours                          *)
(* (apps/api/src/working-hours), time off (apps/api/src/time-off) and the  *)
(* bookings that take their time (apps/api/src/bookings, whose own         *)
(* protocol is the module Bookings).  Changes delete cached pages, hours   *)
(* and time off all of them, a booking those of its own service: after the *)
(* commit, except that a reschedule does it inside its transaction.  One   *)
(* day stands for the week; times are its ticks.                           *)
(***************************************************************************)
EXTENDS ServiceCatalog

CONSTANTS
  EndOfDay,   \* the last tick of the day
  TimeOffId,
  PageKey     \* cache keys of availability pages

VARIABLES hours, timeOff, booked

calendar == <<hours, timeOff, booked>>

Window == [start: 0..EndOfDay, end: 0..EndOfDay]
HoursRow == [start: 0..EndOfDay, end: 0..EndOfDay, by: 0..MaxRequests]
OffRow == [staff: Staff, start: 0..EndOfDay, end: 0..EndOfDay]
BookedRow == [staff: Staff, service: Service, start: 0..EndOfDay, end: Int]

Ordered(row) == row.start < row.end
Overlaps(x, y) == x.start < y.end /\ y.start < x.end

\* STAFF may edit only their own row (SELF): "STAFF" is one who may not.
MayEdit(a) == a.role \in {"OWNER", "ADMIN", "SELF"}

\* What requests may carry.
WorkingHourItemDto == Window
UpdateTimeOffDto(put) == Part(put, [start |-> 0..EndOfDay, end |-> 0..EndOfDay])
CreateTimeOffDto(put) == put \in Window
SelectionDto(a) ==
  /\ a.service \in Service
  /\ a.variant \in Variant \cup {NONE}
  /\ a.addons \subseteq Addon /\ IsFiniteSet(a.addons)
CreateBookingDto(a) == SelectionDto(a) /\ a.start \in 0..EndOfDay

CalendarInput(a) ==
  /\ a.staff \in Staff
  /\ \/ a.op = "replaceHours" /\ a.items \subseteq WorkingHourItemDto
     \/ a.op = "createTimeOff" /\ a.id \in TimeOffId /\ CreateTimeOffDto(a.put)
     \/ a.op = "updateTimeOff" /\ a.id \in TimeOffId /\ UpdateTimeOffDto(a.put)
     \/ a.op = "removeTimeOff" /\ a.id \in TimeOffId
     \/ a.op = "book" /\ CreateBookingDto(a)
     \/ a.op \in {"cancel", "confirm"} /\ a.service \in Service
     \/ a.op = "move" /\ a.service \in Service /\ a.start \in 0..EndOfDay

\* Ranges end after they start, and bookings of one member of staff are apart.
Sound(off, bookings) ==
  /\ \A i \in TimeOffId : off[i] # NONE => Ordered(off[i])
  /\ \A b \in bookings :
       /\ Ordered(b)
       /\ \A c \in bookings \ {b} : b.staff = c.staff => ~Overlaps(b, c)

-----------------------------------------------------------------------------
(* Working hours: replace is one transaction at READ COMMITTED.            *)

ValidItems(items) ==
  /\ \A i \in items : i.start < i.end /\ i.end <= EndOfDay
  /\ \A i, j \in items : i # j => ~Overlaps(i, j)

\* Mutated form of BeginReplace: the items are not validated.
BeginUnvalidated(r, a) ==
  /\ a.op = "replaceHours" /\ MayEdit(a)
  /\ Begin(r, a, "delete")
  /\ UNCHANGED <<catalogue, calendar, job, seen, cacheVars>>

BeginReplace(r, a) ==
  /\ a.op = "replaceHours" /\ MayEdit(a)
  /\ ValidItems(a.items)
  /\ Begin(r, a, "delete")
  /\ UNCHANGED <<catalogue, calendar, job, seen, cacheVars>>

Blocked(r, rows) ==
  \E q \in Request \ {r} :
    At(q, "insert") /\ ask[q].staff = ask[r].staff /\ rows \cap seen[q] # {}

\* Mutated form of DeleteHours: the old rows are not deleted.
DeleteNoHours(r) ==
  /\ At(r, "delete")
  /\ seen' = [seen EXCEPT ![r] = {}]
  /\ Goto(r, "insert")
  /\ UNCHANGED <<catalogue, calendar, job, cacheVars>>

\* deleteMany works on the statement's snapshot.  It waits for rows another
\* transaction has deleted, and does not see what that one inserts.
DeleteHours(r) ==
  /\ At(r, "delete")
  /\ seen' = [seen EXCEPT ![r] = hours[ask[r].staff]]
  /\ Goto(r, IF Blocked(r, hours[ask[r].staff]) THEN "deleteWait" ELSE "insert")
  /\ UNCHANGED <<catalogue, calendar, job, cacheVars>>

DeleteResumes(r) ==
  /\ At(r, "deleteWait")
  /\ ~Blocked(r, seen[r])
  /\ Goto(r, "insert")
  /\ UNCHANGED <<catalogue, calendar, job, seen, cacheVars>>

\* createMany and the commit.
InsertHours(r) ==
  /\ At(r, "insert")
  /\ LET a == ask[r] IN
       hours' = [hours EXCEPT ![a.staff] = (@ \ seen[r]) \cup
                   {[start |-> i.start, end |-> i.end, by |-> r] : i \in a.items}]
  /\ seen' = [seen EXCEPT ![r] = NONE]
  /\ Goto(r, "scan")
  /\ UNCHANGED <<catalogue, timeOff, booked, job, cacheVars>>

-----------------------------------------------------------------------------
(* Time off.                                                               *)

CreateTimeOff(r, a) ==
  /\ a.op = "createTimeOff" /\ MayEdit(a)
  /\ timeOff[a.id] = NONE
  /\ Ordered(a.put)
  /\ Begin(r, a, "scan")
  /\ timeOff' = [timeOff EXCEPT ![a.id] =
                   [staff |-> a.staff, start |-> a.put.start, end |-> a.put.end]]
  /\ UNCHANGED <<catalogue, hours, booked, job, seen, cacheVars>>

\* update and remove look for the row of that member of staff first.  The
\* new range is the given ends and the ends just read.
FindTimeOff(r, a) ==
  /\ a.op \in {"updateTimeOff", "removeTimeOff"} /\ MayEdit(a)
  /\ timeOff[a.id] # NONE
  /\ timeOff[a.id].staff = a.staff
  /\ a.op = "updateTimeOff" => Ordered(Patched(timeOff[a.id], a.put))
  /\ Begin(r, a, "timeOff")
  /\ seen' = [seen EXCEPT ![r] = timeOff[a.id]]
  /\ UNCHANGED <<catalogue, calendar, job, cacheVars>>

\* Mutated form of WriteTimeOff: only the given ends are written.
WriteGivenEnds(r) ==
  /\ At(r, "timeOff") /\ ask[r].op = "updateTimeOff"
  /\ timeOff[ask[r].id] # NONE
  /\ timeOff' = [timeOff EXCEPT ![ask[r].id] = Patched(@, ask[r].put)]
  /\ seen' = [seen EXCEPT ![r] = NONE]
  /\ Goto(r, "scan")
  /\ UNCHANGED <<catalogue, hours, booked, job, cacheVars>>

\* The write goes by id and sets both ends.
WriteTimeOff(r) ==
  /\ At(r, "timeOff") /\ ask[r].op = "updateTimeOff"
  /\ timeOff[ask[r].id] # NONE
  /\ timeOff' = [timeOff EXCEPT ![ask[r].id] = Patched(seen[r], ask[r].put)]
  /\ seen' = [seen EXCEPT ![r] = NONE]
  /\ Goto(r, "scan")
  /\ UNCHANGED <<catalogue, hours, booked, job, cacheVars>>

RemoveTimeOff(r) ==
  /\ At(r, "timeOff") /\ ask[r].op = "removeTimeOff"
  /\ timeOff[ask[r].id] # NONE
  /\ timeOff' = [timeOff EXCEPT ![ask[r].id] = NONE]
  /\ seen' = [seen EXCEPT ![r] = NONE]
  /\ Goto(r, "scan")
  /\ UNCHANGED <<catalogue, hours, booked, job, cacheVars>>

\* A row that is gone makes the client throw: no page is deleted.
TimeOffGone(r) ==
  /\ At(r, "timeOff")
  /\ timeOff[ask[r].id] = NONE
  /\ End(r)
  /\ UNCHANGED <<catalogue, calendar, cacheVars>>

-----------------------------------------------------------------------------
(* Bookings, as far as pages depend on them.                               *)

BeginBooking(r, a) ==
  /\ a.op = "book"
  /\ Begin(r, a, "service")
  /\ job' = [job EXCEPT ![r].staff = a.staff]
  /\ UNCHANGED <<catalogue, calendar, seen, cacheVars>>

Taken(t) == {b \in booked : b.staff = t}

\* Reschedules that have written and not committed; seen holds the row as it
\* is committed and as it will be.
Moving(q) == ask[q] # NONE /\ ask[q].op = "move"

\* Rows an open reschedule of another request locks or has written.
Held(r, t) ==
  {b \in UNION {{seen[q].old, seen[q].new} :
                   q \in {q \in Request \ {r} : Moving(q)}} : b.staff = t}

\* Booking_no_overlap_per_staff: it waits for rows that are held.
Excluded(rows, new) == \E b \in rows : Overlaps(b, new)

\* The row is inserted with the length resolved earlier.  The constraints
\* refuse an overlap and an end that is not after the start; hours and time
\* off are not asked.
CommitBooking(r) ==
  /\ At(r, "commit")
  /\ LET a == ask[r]
         new == [staff |-> a.staff, service |-> a.service, start |-> a.start,
                 end |-> a.start + job[r].total]
     IN /\ ~Excluded(Held(r, a.staff), new)
        /\ IF ~Ordered(new) \/ Excluded(Taken(a.staff), new)
             THEN End(r) /\ UNCHANGED <<catalogue, calendar, cacheVars>>
             ELSE /\ booked' = booked \cup {new}
                  /\ Goto(r, "scan")
                  /\ UNCHANGED <<catalogue, hours, timeOff, job, seen, cacheVars>>

\* A cancellation releases the time of a booking of the service; a
\* confirmation changes nothing a page shows.  Both delete pages.
CancelBooking(r, a) ==
  /\ a.op = "cancel"
  /\ \E b \in booked \ Held(r, a.staff) :
       b.staff = a.staff /\ b.service = a.service /\ booked' = booked \ {b}
  /\ Begin(r, a, "scan")
  /\ UNCHANGED <<catalogue, hours, timeOff, job, seen, cacheVars>>

ConfirmBooking(r, a) ==
  /\ a.op = "confirm"
  /\ \E b \in booked \ Held(r, a.staff) : b.staff = a.staff /\ b.service = a.service
  /\ Begin(r, a, "scan")
  /\ UNCHANGED <<catalogue, calendar, job, seen, cacheVars>>

\* A reschedule writes the new times, at the length the row was booked with,
\* under the same constraints...
MoveBooking(r, a) ==
  /\ a.op = "move"
  /\ \E b \in Taken(a.staff) \ Held(r, a.staff) :
       LET new == [b EXCEPT !.start = a.start, !.end = a.start + (b.end - b.start)]
       IN /\ b.service = a.service
          /\ Ordered(new)
          /\ ~Excluded(Held(r, a.staff) \cup (Taken(a.staff) \ {b}), new)
          /\ seen' = [seen EXCEPT ![r] = [old |-> b, new |-> new]]
  /\ Begin(r, a, "scan")
  /\ UNCHANGED <<catalogue, calendar, job, cacheVars>>

\* ...and commits them after it has deleted the pages.
CommitMove(r) ==
  /\ At(r, "move")
  /\ booked' = (booked \ {seen[r].old}) \cup {seen[r].new}
  /\ End(r)
  /\ UNCHANGED <<catalogue, hours, timeOff, cacheVars>>

-----------------------------------------------------------------------------
(* Deleting the pages.                                                     *)

\* The pages a request deletes.
Prefix(r) ==
  IF ask[r].op \in {"book", "cancel", "confirm", "move"}
    THEN {k \in PageKey : k.service = ask[r].service}
    ELSE PageKey

\* Mutated form of ScanPages: the prefix of time off names no page.
ScanNoPages(r) ==
  /\ At(r, "scan")
  /\ Scan(r, IF ask[r].op = "updateTimeOff" THEN {} ELSE Prefix(r))
  /\ Goto(r, "del")
  /\ UNCHANGED <<catalogue, calendar, job, seen>>

ScanPages(r) ==
  /\ At(r, "scan")
  /\ Scan(r, Prefix(r))
  /\ Goto(r, "del")
  /\ UNCHANGED <<catalogue, calendar, job, seen>>

DelPages(r) ==
  /\ At(r, "del")
  /\ Del(r, Prefix(r))
  /\ IF Moving(r) THEN Goto(r, "move") /\ UNCHANGED <<job, seen>> ELSE End(r)
  /\ UNCHANGED <<catalogue, calendar>>

\* A booking's handler catches what Redis throws: the reschedule goes on.
DelFails(r) ==
  /\ At(r, "scan") \/ At(r, "del")
  /\ Moving(r)
  /\ Goto(r, "move")
  /\ scanned' = [scanned EXCEPT ![r] = {}]
  /\ UNCHANGED <<catalogue, calendar, job, seen, cached>>

=============================================================================
