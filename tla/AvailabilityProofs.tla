------------------------- MODULE AvailabilityProofs -------------------------
(***************************************************************************)
(* The catalogue and the calendar, proved for any staff, services, ranges  *)
(* and requests.  Writers are apart from their checks, so the invariant    *)
(* says for each step of a request what it may still rely on: its own row  *)
(* locks, the constraints of the database, or that nobody has committed.   *)
(* The second part is about the cached pages and lists, the third about    *)
(* the shapes of the state and the slots of a page.                        *)
(***************************************************************************)
EXTENDS Availability, FiniteSetTheorems, TLAPS

\* The steps that rely on something that was read.
Relying ==
  {"insert", "deleteWait", "relink", "unlinkWait", "write", "timeOff",
   "link", "variant", "addons", "commit"}

\* The steps of a replacement of a member of staff's rows.
Replacing == {"delete", "deleteWait", "insert", "unlink", "unlinkWait", "relink"}

Domains ==
  /\ DOMAIN at = Request /\ DOMAIN ask = Request /\ DOMAIN seen = Request
  /\ DOMAIN hours = Staff /\ DOMAIN link = Staff
  /\ DOMAIN service = Service /\ DOMAIN timeOff = TimeOffId

\* Rows that a replacement of hours or services will leave come from requests
\* that committed during it.
HoursLeft(r) ==
  At(r, "insert") \/ At(r, "deleteWait") =>
    \A row \in hours[ask[r].staff] \ seen[r] : row.by \in overtaken[r]

LinksLeft(r) ==
  At(r, "relink") \/ At(r, "unlinkWait") =>
    \A s \in Linked(ask[r].staff) \ (DOMAIN ask[r].items \cup seen[r]) :
      link[ask[r].staff][s].by \in overtaken[r]

\* What was found live or bookable still is if nobody has committed.
ReadLive(r) ==
  /\ At(r, "write") /\ ask[r].op \in ServiceOps /\ overtaken[r] = {} =>
       Live(service[ask[r].id])
  /\ At(r, "commit") => ask[r].op # "page"
  /\ /\ at[r] \in {"link", "variant", "addons", "commit"}
     /\ ask[r].op # "page" /\ overtaken[r] = {}
     => Bookable(service[ask[r].service])

\* An update of time off writes an ordered range.
WritesOrdered(r) ==
  At(r, "timeOff") /\ ask[r].op = "updateTimeOff" =>
    Ordered(Patched(seen[r], ask[r].put))

InStaff(r) == at[r] \in Replacing => ask[r].staff \in Staff

Own(r) ==
  HoursLeft(r) /\ LinksLeft(r) /\ ReadLive(r) /\ WritesOrdered(r) /\ InStaff(r)

\* Two open reschedules move different bookings, to times that are apart.
Apart(p, q) ==
  /\ seen[p].old # seen[q].old
  /\ seen[p].new.staff = seen[q].new.staff => ~Overlaps(seen[p].new, seen[q].new)

\* An open reschedule holds a booking, and its new time fits the others.
Fits(q) ==
  /\ seen[q].old \in booked
  /\ seen[q].new.staff = seen[q].old.staff
  /\ Ordered(seen[q].new)
  /\ \A b \in booked \ {seen[q].old} :
       b.staff = seen[q].new.staff => ~Overlaps(b, seen[q].new)

MovesInv ==
  /\ \A q \in Request : Moving(q) => at[q] \in {"scan", "del", "move"} /\ Fits(q)
  /\ \A q \in Request : At(q, "move") => Moving(q)
  /\ \A p, q \in Request : Moving(p) /\ Moving(q) /\ p # q => Apart(p, q)

Inv ==
  /\ Domains
  /\ \A q \in Request : Own(q)
  /\ MovesInv
  /\ TimesStaySound

-----------------------------------------------------------------------------
(* A step of one request.                                                  *)

OnlyMoves(r) ==
  \A q \in Request \ {r} : at'[q] = at[q] /\ ask'[q] = ask[q] /\ seen'[q] = seen[q]

Moves(r) == Domains' /\ OnlyMoves(r)

\* Rows that were not there are r's.
HoursBy(r) ==
  \A t \in Staff : \A row \in hours'[t] : row \in hours[t] \/ row.by = r

LinksBy(r) ==
  \A t \in Staff, s \in Service :
    link'[t][s] # NONE => link'[t][s] = link[t][s] \/ link'[t][s].by = r

SeenOf(r) == seen' = seen \/ \E x : seen' = [seen EXCEPT ![r] = x]

SameRows ==
  DOMAIN hours' = Staff /\ DOMAIN link' = Staff /\ DOMAIN service' = Service
    /\ DOMAIN timeOff' = TimeOffId

LEMMA BeginMoves ==
  ASSUME Domains, NEW r \in Request, NEW a, NEW first, Begin(r, a, first),
         SeenOf(r), SameRows
  PROVE  /\ Moves(r) /\ at[r] = "idle" /\ at'[r] = first /\ ask'[r] = a
         /\ a \in Asked[r]
BY DEF Begin, Domains, SeenOf, SameRows, Moves, OnlyMoves

LEMMA GotoMoves ==
  ASSUME Domains, NEW r \in Request, NEW step, Goto(r, step), SeenOf(r), SameRows
  PROVE  Moves(r) /\ at'[r] = step /\ ask'[r] = ask[r]
BY DEF Goto, Domains, SeenOf, SameRows, Moves, OnlyMoves

LEMMA EndMoves ==
  ASSUME Domains, NEW r \in Request, End(r), SameRows
  PROVE  Moves(r) /\ at'[r] = "done" /\ ask'[r] = NONE
BY DEF End, Domains, SameRows, Moves, OnlyMoves

\* What the others rely on is theirs, or a commit of r is on their record.
LEMMA OthersRely ==
  ASSUME Domains, NEW r \in Request, NEW q \in Request \ {r}, Own(q),
         OnlyMoves(r), Remember(r), HoursBy(r), LinksBy(r)
  PROVE  Own(q)'
<1>1. at'[q] = at[q] /\ ask'[q] = ask[q] /\ seen'[q] = seen[q]
  BY DEF OnlyMoves
<1>2. CASE at[q] \in {"idle", "done"}
  BY <1>1, <1>2
     DEF Own, HoursLeft, LinksLeft, ReadLive, WritesOrdered, InStaff, At, Replacing
<1>3. CASE at[q] \notin {"idle", "done"}
  <2>1. overtaken'[q] = IF tables' # tables THEN overtaken[q] \cup {r} ELSE overtaken[q]
    BY <1>1, <1>3 DEF Remember, InFlight
  <2>2. InStaff(q)' /\ WritesOrdered(q)'
    BY <1>1 DEF Own, InStaff, WritesOrdered, At
  <2> DEFINE t == ask[q].staff
  <2>3. HoursLeft(q)'
    <3>1. SUFFICES ASSUME At(q, "insert") \/ At(q, "deleteWait"),
                          NEW row \in hours'[t] \ seen[q]
                   PROVE  row.by \in overtaken'[q]
      BY <1>1 DEF HoursLeft, At
    <3>2. t \in Staff
      BY <3>1 DEF Own, InStaff, Replacing, At
    <3>3. CASE row \in hours[t]
      BY <2>1, <3>1, <3>3 DEF Own, HoursLeft
    <3>4. CASE row \notin hours[t]
      <4>1. row.by = r /\ tables' # tables
        BY <3>1, <3>2, <3>4 DEF HoursBy, tables, calendar
      <4>2. QED
        BY <2>1, <4>1
    <3>5. QED
      BY <3>3, <3>4
  <2>4. LinksLeft(q)'
    <3>1. SUFFICES ASSUME At(q, "relink") \/ At(q, "unlinkWait"), NEW s \in Service,
                          s \notin DOMAIN ask[q].items \cup seen[q], link'[t][s] # NONE
                   PROVE  link'[t][s].by \in overtaken'[q]
      BY <1>1 DEF LinksLeft, At, Linked
    <3>2. t \in Staff
      BY <3>1 DEF Own, InStaff, Replacing, At
    <3>3. CASE link'[t][s] = link[t][s]
      BY <2>1, <3>1, <3>3 DEF Own, LinksLeft, Linked
    <3>4. CASE link'[t][s] # link[t][s]
      <4>1. link'[t][s].by = r /\ tables' # tables
        BY <3>1, <3>2, <3>4 DEF LinksBy, tables, catalogue
      <4>2. QED
        BY <2>1, <4>1
    <3>5. QED
      BY <3>3, <3>4
  <2>5. ReadLive(q)'
    <3>1. CASE tables' # tables
      BY <1>1, <2>1, <3>1 DEF Own, ReadLive, At
    <3>2. CASE tables' = tables
      BY <1>1, <2>1, <3>2 DEF Own, ReadLive, At, tables, catalogue
    <3>3. QED
      BY <3>1, <3>2
  <2>6. QED
    BY <2>2, <2>3, <2>4, <2>5 DEF Own
<1>4. QED
  BY <1>2, <1>3

LEMMA Assemble ==
  ASSUME Inv, NEW r \in Request, Moves(r), Remember(r), HoursBy(r), LinksBy(r),
         Own(r)', MovesInv', TimesStaySound'
  PROVE  Inv'
BY OthersRely DEF Inv, Moves

LEMMA NotRelying ==
  ASSUME NEW r \in Request, at[r] \notin Relying \cup Replacing
  PROVE  Own(r)
BY DEF Own, HoursLeft, LinksLeft, ReadLive, WritesOrdered, InStaff, At, Relying, Replacing

\* A request that is not moving a booking, or goes on moving it.
LEMMA MovesKept ==
  ASSUME Inv, NEW r \in Request, Moves(r), booked' = booked, At(r, "move")' => Moving(r)',
         Moving(r)' => Moving(r) /\ seen'[r] = seen[r] /\ at'[r] \in {"scan", "del", "move"}
  PROVE  MovesInv'
<1>1. \A q \in Request : Moving(q)' => Moving(q) /\ seen'[q] = seen[q]
  BY DEF Moves, OnlyMoves, Moving
<1>2. \A q \in Request : Moving(q)' => at'[q] \in {"scan", "del", "move"} /\ Fits(q)'
  BY <1>1 DEF Inv, MovesInv, Moves, OnlyMoves, Fits
<1>3. \A q \in Request : At(q, "move")' => Moving(q)'
  BY DEF Inv, MovesInv, Moves, OnlyMoves, At, Moving
<1>4. \A p, q \in Request : Moving(p)' /\ Moving(q)' /\ p # q => Apart(p, q)'
  BY <1>1 DEF Inv, MovesInv, Apart
<1>5. QED
  BY <1>2, <1>3, <1>4 DEF MovesInv

\* Steps that leave hours, links, time off and bookings alone.
LEMMA QuietStep ==
  ASSUME Inv, NEW r \in Request, Moves(r), Remember(r),
         UNCHANGED <<hours, link, timeOff, booked>>,
         At(r, "move")' => Moving(r)',
         Moving(r)' => Moving(r) /\ seen'[r] = seen[r]
                       /\ at'[r] \in {"scan", "del", "move"},
         Own(r)'
  PROVE  Inv'
<1>1. HoursBy(r) /\ LinksBy(r)
  BY DEF HoursBy, LinksBy
<1>2. TimesStaySound'
  BY DEF Inv, TimesStaySound, Sound, Ordered, Overlaps
<1>3. QED
  BY <1>1, <1>2, MovesKept, Assemble

\* The same for a request that begins, goes on or ends.
LEMMA QuietBegin ==
  ASSUME Inv, NEW r \in Request, NEW a, NEW first, Begin(r, a, first), Remember(r),
         SeenOf(r), SameRows, UNCHANGED <<hours, link, timeOff, booked>>,
         a.op # "move", first # "move", Own(r)'
  PROVE  Inv'
<1>1. Moves(r) /\ at'[r] = first /\ ask'[r] = a
  BY BeginMoves DEF Inv
<1>2. QED
  BY <1>1, QuietStep DEF Moving, At

LEMMA QuietGoto ==
  ASSUME Inv, NEW r \in Request, NEW step, Goto(r, step), Remember(r),
         SeenOf(r), SameRows, UNCHANGED <<hours, link, timeOff, booked>>,
         at[r] \notin {"scan", "del", "move"}, step # "move", Own(r)'
  PROVE  Inv'
<1>1. Moves(r) /\ at'[r] = step /\ ask'[r] = ask[r]
  BY GotoMoves DEF Inv
<1>2. ~Moving(r)
  BY DEF Inv, MovesInv
<1>3. QED
  BY <1>1, <1>2, QuietStep DEF Moving, At

LEMMA QuietEnd ==
  ASSUME Inv, NEW r \in Request, End(r), Remember(r), SameRows,
         UNCHANGED <<hours, link, timeOff, booked>>
  PROVE  Inv'
<1>1. Moves(r) /\ at'[r] = "done" /\ ask'[r] = NONE
  BY EndMoves DEF Inv
<1>2. Own(r)'
  BY <1>1
     DEF Own, HoursLeft, LinksLeft, ReadLive, WritesOrdered, InStaff, At, Replacing
<1>3. QED
  BY <1>1, <1>2, QuietStep DEF Moving, At

LEMMA NotRelyingNext ==
  ASSUME NEW r \in Request, at'[r] \notin Relying \cup Replacing
  PROVE  Own(r)'
BY DEF Own, HoursLeft, LinksLeft, ReadLive, WritesOrdered, InStaff, At, Relying, Replacing

LEMMA InputStaff ==
  ASSUME NEW r \in Request, NEW a \in Asked[r],
         a.op \in {"replaceHours", "replaceStaffServices"}
  PROVE  a.staff \in Staff
BY AvailabilityAssumption
   DEF AvailabilityAssumption, CatalogueInput, AvailabilityQueryDto, CalendarInput

-----------------------------------------------------------------------------
(* The catalogue.                                                          *)

LEMMA CategoryStep ==
  ASSUME Inv, NEW r \in Request, ServiceCategories(r), UNCHANGED calendar, Remember(r)
  PROVE  Inv'
<1> USE DEF calendar, SameRows, SeenOf
<1>1. Domains
  BY DEF Inv
<1>2. ASSUME NEW a \in Asked[r], CreateCategory(r, a)
      PROVE  Inv'
  <2>1. /\ Begin(r, a, "bust") /\ a.op # "move" /\ SameRows /\ SeenOf(r)
        /\ link' = link
    BY <1>1, <1>2 DEF CreateCategory, Domains
  <2>2. at'[r] = "bust"
    BY <1>1, <2>1, BeginMoves
  <2>3. QED
    BY <2>1, <2>2, NotRelyingNext, QuietBegin DEF Relying, Replacing
<1>3. ASSUME NEW a \in Asked[r], CheckCategory(r, a)
      PROVE  Inv'
  <2>1. /\ Begin(r, a, "write") /\ a.op \in {"updateCategory", "archiveCategory"}
        /\ SameRows /\ SeenOf(r) /\ link' = link
    BY <1>1, <1>3 DEF CheckCategory, Domains, catalogue
  <2>2. at'[r] = "write" /\ ask'[r] = a
    BY <1>1, <2>1, BeginMoves
  <2>3. Own(r)'
    BY <2>1, <2>2
       DEF Own, HoursLeft, LinksLeft, ReadLive, WritesOrdered, InStaff, At, Replacing,
           ServiceOps
  <2>4. QED
    BY <2>1, <2>2, <2>3, QuietBegin
<1>4. ASSUME WriteCategory(r)
      PROVE  Inv'
  <2>1. /\ Goto(r, "bust") /\ at[r] = "write" /\ SameRows /\ SeenOf(r) /\ link' = link
    BY <1>1, <1>4 DEF WriteCategory, Domains, At
  <2>2. at'[r] = "bust"
    BY <1>1, <2>1, GotoMoves
  <2>3. QED
    BY <2>1, <2>2, NotRelyingNext, QuietGoto DEF Relying, Replacing
<1>5. QED
  BY <1>2, <1>3, <1>4 DEF ServiceCategories

LEMMA ServiceWrites ==
  ASSUME Inv, NEW r \in Request, NEW a \in Asked[r], UNCHANGED calendar, Remember(r),
         CreateService(r, a) \/ CheckService(r, a) \/ CheckItems(r, a) \/ BeginList(r, a)
  PROVE  Inv'
<1> USE DEF calendar, SameRows, SeenOf
<1>1. Domains
  BY DEF Inv
<1>2. CASE CreateService(r, a)
  <2>1. /\ Begin(r, a, "bust") /\ a.op # "move" /\ SameRows /\ SeenOf(r)
        /\ link' = link
    BY <1>1, <1>2 DEF CreateService, Domains
  <2>2. at'[r] = "bust"
    BY <1>1, <2>1, BeginMoves
  <2>3. QED
    BY <2>1, <2>2, NotRelyingNext, QuietBegin DEF Relying, Replacing
<1>3. CASE CheckService(r, a)
  <2>1. /\ Begin(r, a, "write") /\ a.op \in ServiceOps /\ Live(service[a.id])
        /\ SameRows /\ SeenOf(r) /\ UNCHANGED <<service, link>>
    BY <1>1, <1>3 DEF CheckService, Domains, catalogue
  <2>2. at'[r] = "write" /\ ask'[r] = a
    BY <1>1, <2>1, BeginMoves
  <2>3. Own(r)'
    BY <2>1, <2>2
       DEF Own, HoursLeft, LinksLeft, ReadLive, WritesOrdered, InStaff, At, Replacing,
           Live
  <2>4. QED
    BY <2>1, <2>2, <2>3, QuietBegin DEF ServiceOps
<1>4. CASE CheckItems(r, a)
  <2>1. /\ Begin(r, a, "unlink") /\ a.op = "replaceStaffServices"
        /\ SameRows /\ SeenOf(r) /\ UNCHANGED <<service, link>>
    BY <1>1, <1>4 DEF CheckItems, Domains, catalogue
  <2>2. at'[r] = "unlink" /\ ask'[r] = a
    BY <1>1, <2>1, BeginMoves
  <2>3. Own(r)'
    BY <2>1, <2>2, InputStaff
       DEF Own, HoursLeft, LinksLeft, ReadLive, WritesOrdered, InStaff, At
  <2>4. QED
    BY <2>1, <2>2, <2>3, QuietBegin
<1>5. CASE BeginList(r, a)
  <2>1. PICK first \in {"services", "categories"} : Begin(r, a, first)
    BY <1>5 DEF BeginList
  <2>2. /\ a.op # "move" /\ SameRows /\ SeenOf(r) /\ UNCHANGED <<service, link>>
    BY <1>1, <1>5 DEF BeginList, Domains, catalogue
  <2>3. at'[r] = first
    BY <1>1, <2>1, <2>2, BeginMoves
  <2>4. QED
    BY <2>1, <2>2, <2>3, NotRelyingNext, QuietBegin DEF Relying, Replacing
<1>6. QED
  BY <1>2, <1>3, <1>4, <1>5

\* The rows of a member of staff's services are replaced.
LEMMA LinkStep ==
  ASSUME Inv, NEW r \in Request, UNCHANGED calendar, Remember(r),
         Unlink(r) \/ UnlinkResumes(r) \/ Relink(r) \/ AbortRelink(r)
  PROVE  Inv'
<1> USE DEF calendar, SameRows, SeenOf
<1>1. Domains /\ Own(r)
  BY DEF Inv
<1> DEFINE t == ask[r].staff
<1>2. CASE Unlink(r)
  <2> DEFINE gone == Linked(t) \ DOMAIN ask[r].items
  <2>1. PICK step \in {"unlinkWait", "relink"} : Goto(r, step)
    BY <1>2 DEF Unlink
  <2>2. /\ at[r] = "unlink" /\ seen' = [seen EXCEPT ![r] = gone]
        /\ SameRows /\ SeenOf(r) /\ UNCHANGED <<service, link>>
    BY <1>1, <1>2 DEF Unlink, Domains, catalogue, At
  <2>3. at'[r] = step /\ ask'[r] = ask[r] /\ seen'[r] = gone
    BY <1>1, <2>1, <2>2, GotoMoves DEF Domains
  <2>4. Own(r)'
    <3>1. t \in Staff
      BY <1>1, <2>2 DEF Own, InStaff, Replacing
    <3>2. LinksLeft(r)'
      BY <2>2, <2>3 DEF LinksLeft, At, Linked
    <3>3. QED
      BY <2>1, <2>3, <3>1, <3>2 DEF Own, HoursLeft, ReadLive, WritesOrdered, InStaff, At
  <2>5. QED
    BY <2>1, <2>2, <2>3, <2>4, QuietGoto
<1>3. CASE UnlinkResumes(r)
  <2>1. /\ Goto(r, "relink") /\ at[r] = "unlinkWait" /\ seen' = seen
        /\ SameRows /\ SeenOf(r) /\ UNCHANGED <<service, link>>
    BY <1>1, <1>3 DEF UnlinkResumes, Domains, catalogue, At
  <2>2. at'[r] = "relink" /\ ask'[r] = ask[r] /\ seen'[r] = seen[r]
    BY <1>1, <2>1, GotoMoves
  <2>3. overtaken'[r] = overtaken[r]
    BY <2>1, <2>2 DEF Remember, InFlight
  <2>4. Own(r)'
    <3>1. t \in Staff
      BY <1>1, <2>1 DEF Own, InStaff, Replacing
    <3>2. LinksLeft(r)'
      BY <1>1, <2>1, <2>2, <2>3 DEF Own, LinksLeft, At, Linked
    <3>3. QED
      BY <2>1, <2>2, <3>1, <3>2 DEF Own, HoursLeft, ReadLive, WritesOrdered, InStaff, At
  <2>5. QED
    BY <2>1, <2>2, <2>4, QuietGoto
<1>4. CASE Relink(r)
  <2>1. /\ Goto(r, "bust") /\ at[r] = "relink" /\ seen' = seen /\ service' = service
        /\ link' = [link EXCEPT ![t] = [s \in Service |->
             IF s \in DOMAIN ask[r].items
               THEN [active |-> ask[r].items[s].active, online |-> ask[r].items[s].online,
                     len |-> ask[r].items[s].len, by |-> r]
               ELSE IF s \in seen[r] THEN NONE ELSE link[t][s]]]
    BY <1>4 DEF Relink, At
  <2>2. SameRows /\ SeenOf(r)
    BY <1>1, <2>1 DEF Domains
  <2>3. Moves(r) /\ at'[r] = "bust" /\ ask'[r] = ask[r]
    BY <1>1, <2>1, <2>2, GotoMoves
  <2>4. LinksBy(r) /\ HoursBy(r)
    BY <1>1, <2>1 DEF LinksBy, HoursBy, Domains
  <2>5. ~Moving(r) /\ ~Moving(r)'
    BY <2>1, <2>3 DEF Inv, MovesInv, Moving
  <2>6. MovesInv'
    BY <2>3, <2>5, MovesKept DEF At
  <2>7. TimesStaySound'
    BY DEF Inv, TimesStaySound, Sound, Ordered, Overlaps
  <2>8. Own(r)'
    BY <2>3, NotRelyingNext DEF Relying, Replacing
  <2>9. QED
    BY <2>3, <2>4, <2>6, <2>7, <2>8, Assemble
<1>5. CASE AbortRelink(r)
  <2>1. End(r) /\ SameRows /\ UNCHANGED <<service, link>>
    BY <1>1, <1>5 DEF AbortRelink, catalogue, Domains
  <2>2. QED
    BY <2>1, QuietEnd
<1>6. QED
  BY <1>2, <1>3, <1>4, <1>5

\* A step that goes on or ends, to where nothing is relied on.
LEMMA PlainStep ==
  ASSUME Inv, NEW r \in Request, Remember(r), SeenOf(r), SameRows,
         UNCHANGED <<hours, link, timeOff, booked>>,
         at[r] \notin {"scan", "del", "move"},
         \/ End(r)
         \/ \E step : /\ Goto(r, step)
                      /\ step \notin {"move"} \cup Relying \cup Replacing
  PROVE  Inv'
<1>1. CASE End(r)
  BY <1>1, QuietEnd
<1>2. ASSUME NEW step, Goto(r, step), step \notin {"move"} \cup Relying \cup Replacing
      PROVE  Inv'
  <2>1. at'[r] = step
    BY <1>2, GotoMoves DEF Inv
  <2>2. Own(r)'
    BY <1>2, <2>1, NotRelyingNext
  <2>3. QED
    BY <1>2, <2>2, QuietGoto
<1>3. QED
  BY <1>1, <1>2

LEMMA ServiceStep ==
  ASSUME Inv, NEW r \in Request, Services(r), UNCHANGED calendar, Remember(r)
  PROVE  Inv'
<1> USE DEF calendar, SameRows, SeenOf, At, catalogue, Domains
<1>1. Domains
  BY DEF Inv
<1>2. CASE WriteService(r)
  <2>1. /\ Goto(r, "bust") /\ at[r] = "write" /\ SameRows /\ SeenOf(r) /\ link' = link
    BY <1>1, <1>2 DEF WriteService
  <2>2. QED
    BY <2>1, PlainStep DEF Relying, Replacing
<1>3. CASE BustPublicCache(r) \/ StoreList(r)
  <2>1. End(r) /\ SameRows /\ link' = link
    BY <1>1, <1>3 DEF BustPublicCache, StoreList
  <2>2. QED
    BY <2>1, QuietEnd
<1>4. CASE ReadCategories(r) \/ ReadServices(r) \/ ReadIncluded(r)
  <2>1. PICK step \in {"setList", "included"} : Goto(r, step)
    BY <1>4 DEF ReadCategories, ReadServices, ReadIncluded
  <2>2. /\ at[r] \in {"categories", "services", "included"}
        /\ SameRows /\ SeenOf(r) /\ link' = link
    BY <1>1, <1>4 DEF ReadCategories, ReadServices, ReadIncluded
  <2>3. QED
    BY <2>1, <2>2, PlainStep DEF Relying, Replacing
<1>5. QED
  BY <1>2, <1>3, <1>4, ServiceWrites, LinkStep DEF Services

LEMMA ChildStep ==
  ASSUME Inv, NEW r \in Request, ServiceChildren(r), UNCHANGED calendar, Remember(r)
  PROVE  Inv'
<1> USE DEF calendar, SameRows, SeenOf, At, catalogue, Domains
<1>1. Domains
  BY DEF Inv
<1>2. ASSUME NEW a \in Asked[r], CheckParent(r, a)
      PROVE  Inv'
  <2>1. PICK first \in {"create", "child"} : Begin(r, a, first)
    BY <1>2 DEF CheckParent
  <2>2. /\ a.op # "move" /\ SameRows /\ SeenOf(r) /\ link' = link
    BY <1>1, <1>2 DEF CheckParent, ChildOps
  <2>3. at'[r] = first
    BY <1>1, <2>1, <2>2, BeginMoves
  <2>4. QED
    BY <2>1, <2>2, <2>3, NotRelyingNext, QuietBegin DEF Relying, Replacing
<1>3. CASE CreateChild(r) \/ WriteChild(r)
  <2>1. End(r) /\ SameRows /\ link' = link
    BY <1>1, <1>3 DEF CreateChild, WriteChild
  <2>2. QED
    BY <2>1, QuietEnd
<1>4. CASE CheckChild(r)
  <2>1. SameRows /\ link' = link /\ at[r] = "child"
    BY <1>1, <1>4 DEF CheckChild
  <2>2. CASE End(r)
    BY <2>1, <2>2, QuietEnd
  <2>3. CASE Goto(r, "writeChild") /\ SeenOf(r)
    BY <2>1, <2>3, PlainStep DEF Relying, Replacing
  <2>4. QED
    BY <1>4, <2>2, <2>3 DEF CheckChild
<1>5. QED
  BY <1>2, <1>3, <1>4 DEF ServiceChildren

\* resolveForSelection: what was found bookable is, unless somebody commits.
LEMMA ResolveStep ==
  ASSUME Inv, NEW r \in Request, Resolve(r), UNCHANGED calendar, Remember(r)
  PROVE  Inv'
<1> USE DEF calendar, SameRows, SeenOf, At, catalogue, Domains
<1>1. Domains /\ Own(r)
  BY DEF Inv
<1> DEFINE Where == {"service", "link", "variant", "addons"}
           Next2 == {"link", "variant", "addons", "commit", "hours"}
           bookable == Bookable(service[Selection(r).service])
<1>2. /\ SameRows /\ UNCHANGED <<link, service>> /\ at[r] \in Where
      /\ \/ End(r)
         \/ \E step \in Next2 :
              /\ Goto(r, step) /\ SeenOf(r)
              /\ at[r] = "service" => bookable
              /\ step = "commit" => ask[r].op # "page"
  <2>1. CASE ReadService(r)
    BY <1>1, <2>1 DEF ReadService, Next1
  <2>2. CASE ReadLink(r)
    BY <1>1, <2>2 DEF ReadLink, Next1, AfterLink, AfterVariant, Resolved
  <2>3. CASE ReadVariant(r)
    BY <1>1, <2>3 DEF ReadVariant, Next1, AfterVariant, Resolved
  <2>4. CASE ReadAddons(r)
    BY <1>1, <2>4 DEF ReadAddons, Next1, Resolved
  <2>5. QED
    BY <2>1, <2>2, <2>3, <2>4 DEF Resolve
<1>3. CASE End(r)
  BY <1>2, <1>3, QuietEnd
<1>4. ASSUME NEW step \in Next2, Goto(r, step), SeenOf(r), at[r] = "service" => bookable,
             step = "commit" => ask[r].op # "page"
      PROVE  Inv'
  <2>1. at'[r] = step /\ ask'[r] = ask[r]
    BY <1>1, <1>2, <1>4, GotoMoves
  <2>2. overtaken'[r] = overtaken[r]
    BY <1>2, <2>1 DEF Remember, InFlight
  <2>3. ask[r].op # "page" /\ overtaken[r] = {} => Bookable(service[ask[r].service])
    <3>1. CASE at[r] = "service"
      BY <1>4, <3>1 DEF Selection
    <3>2. CASE at[r] # "service"
      BY <1>1, <1>2, <3>2 DEF Own, ReadLive
    <3>3. QED
      BY <3>1, <3>2
  <2>4. ReadLive(r)'
    BY <1>2, <1>4, <2>1, <2>2, <2>3 DEF ReadLive, Bookable, Live
  <2>5. Own(r)'
    BY <2>1, <2>4
       DEF Own, HoursLeft, LinksLeft, WritesOrdered, InStaff, Replacing
  <2>6. QED
    BY <1>2, <1>4, <2>5, QuietGoto
<1>5. QED
  BY <1>2, <1>3, <1>4

-----------------------------------------------------------------------------
(* The calendar.                                                           *)

LEMMA HoursStep ==
  ASSUME Inv, NEW r \in Request, WorkingHours(r), Remember(r)
  PROVE  Inv'
<1> USE DEF calendar, SameRows, SeenOf, At, catalogue, Domains
<1>1. Domains /\ Own(r)
  BY DEF Inv
<1> DEFINE t == ask[r].staff
<1>2. ASSUME NEW a \in Asked[r], BeginReplace(r, a)
      PROVE  Inv'
  <2>1. /\ Begin(r, a, "delete") /\ a.op = "replaceHours" /\ SameRows /\ SeenOf(r)
        /\ UNCHANGED <<hours, link, timeOff, booked>>
    BY <1>1, <1>2 DEF BeginReplace
  <2>2. at'[r] = "delete" /\ ask'[r] = a
    BY <1>1, <2>1, BeginMoves
  <2>3. Own(r)'
    BY <2>1, <2>2, InputStaff
       DEF Own, HoursLeft, LinksLeft, ReadLive, WritesOrdered, InStaff
  <2>4. QED
    BY <2>1, <2>3, QuietBegin
<1>3. CASE DeleteHours(r)
  <2>1. PICK step \in {"deleteWait", "insert"} : Goto(r, step)
    BY <1>3 DEF DeleteHours
  <2>2. /\ at[r] = "delete" /\ seen' = [seen EXCEPT ![r] = hours[t]]
        /\ SameRows /\ SeenOf(r) /\ UNCHANGED <<hours, link, timeOff, booked>>
    BY <1>1, <1>3 DEF DeleteHours
  <2>3. at'[r] = step /\ ask'[r] = ask[r] /\ seen'[r] = hours[t]
    BY <1>1, <2>1, <2>2, GotoMoves
  <2>4. Own(r)'
    <3>1. t \in Staff
      BY <1>1, <2>2 DEF Own, InStaff, Replacing
    <3>2. HoursLeft(r)'
      BY <2>2, <2>3 DEF HoursLeft
    <3>3. QED
      BY <2>1, <2>3, <3>1, <3>2 DEF Own, LinksLeft, ReadLive, WritesOrdered, InStaff
  <2>5. QED
    BY <2>1, <2>2, <2>4, QuietGoto
<1>4. CASE DeleteResumes(r)
  <2>1. /\ Goto(r, "insert") /\ at[r] = "deleteWait" /\ seen' = seen
        /\ SameRows /\ SeenOf(r) /\ UNCHANGED <<hours, link, timeOff, booked>>
    BY <1>1, <1>4 DEF DeleteResumes
  <2>2. at'[r] = "insert" /\ ask'[r] = ask[r] /\ seen'[r] = seen[r]
    BY <1>1, <2>1, GotoMoves
  <2>3. overtaken'[r] = overtaken[r]
    BY <2>1, <2>2 DEF Remember, InFlight
  <2>4. Own(r)'
    <3>1. t \in Staff
      BY <1>1, <2>1 DEF Own, InStaff, Replacing
    <3>2. HoursLeft(r)'
      BY <1>1, <2>1, <2>2, <2>3 DEF Own, HoursLeft
    <3>3. QED
      BY <2>1, <2>2, <3>1, <3>2 DEF Own, LinksLeft, ReadLive, WritesOrdered, InStaff
  <2>5. QED
    BY <2>1, <2>4, QuietGoto
<1>5. CASE InsertHours(r)
  <2>1. /\ Goto(r, "scan") /\ at[r] = "insert" /\ seen' = [seen EXCEPT ![r] = NONE]
        /\ UNCHANGED <<service, link, timeOff, booked>>
        /\ hours' = [hours EXCEPT ![t] = (hours[t] \ seen[r]) \cup
             {[start |-> i.start, end |-> i.end, by |-> r] : i \in ask[r].items}]
    BY <1>5 DEF InsertHours
  <2>2. SameRows /\ SeenOf(r)
    BY <1>1, <2>1
  <2>3. Moves(r) /\ at'[r] = "scan" /\ ask'[r] = ask[r]
    BY <1>1, <2>1, <2>2, GotoMoves
  <2>4. LinksBy(r) /\ HoursBy(r)
    BY <1>1, <2>1 DEF LinksBy, HoursBy
  <2>5. ~Moving(r) /\ ~Moving(r)'
    BY <2>1, <2>3 DEF Inv, MovesInv, Moving
  <2>6. MovesInv'
    BY <2>1, <2>3, <2>5, MovesKept
  <2>7. TimesStaySound'
    BY <2>1 DEF Inv, TimesStaySound, Sound, Ordered, Overlaps
  <2>8. Own(r)'
    BY <2>3, NotRelyingNext DEF Relying, Replacing
  <2>9. QED
    BY <2>3, <2>4, <2>6, <2>7, <2>8, Assemble
<1>6. QED
  BY <1>2, <1>3, <1>4, <1>5 DEF WorkingHours

\* Steps that write time off.
LEMMA OffWritten ==
  ASSUME Inv, NEW r \in Request, Moves(r), Remember(r),
         UNCHANGED <<hours, link, booked>>, at'[r] = "scan", ~Moving(r)',
         \A i \in TimeOffId : timeOff'[i] = timeOff[i] \/ timeOff'[i] = NONE
                                \/ Ordered(timeOff'[i])
  PROVE  Inv'
<1>1. LinksBy(r) /\ HoursBy(r)
  BY DEF LinksBy, HoursBy
<1>2. MovesInv'
  BY MovesKept DEF At
<1>3. TimesStaySound'
  BY DEF Inv, TimesStaySound, Sound, Ordered, Overlaps
<1>4. Own(r)'
  BY NotRelyingNext DEF Relying, Replacing
<1>5. QED
  BY <1>1, <1>2, <1>3, <1>4, Assemble

LEMMA OffStep ==
  ASSUME Inv, NEW r \in Request, TimeOff(r), Remember(r)
  PROVE  Inv'
<1> USE DEF calendar, SameRows, SeenOf, At, catalogue, Domains
<1>1. Domains /\ Own(r)
  BY DEF Inv
<1>2. ASSUME NEW a \in Asked[r], CreateTimeOff(r, a)
      PROVE  Inv'
  <2> DEFINE row == [staff |-> a.staff, start |-> a.put.start, end |-> a.put.end]
  <2>1. /\ Begin(r, a, "scan") /\ a.op = "createTimeOff" /\ seen' = seen
        /\ UNCHANGED <<service, hours, link, booked>> /\ Ordered(a.put)
        /\ timeOff' = [timeOff EXCEPT ![a.id] = row]
    BY <1>2 DEF CreateTimeOff
  <2>2. SameRows /\ SeenOf(r)
    BY <1>1, <2>1
  <2>3. Moves(r) /\ at'[r] = "scan" /\ ask'[r] = a
    BY <1>1, <2>1, <2>2, BeginMoves
  <2>4. Ordered(row)
    BY <2>1 DEF Ordered
  <2>5. \A i \in TimeOffId : timeOff'[i] = timeOff[i] \/ Ordered(timeOff'[i])
    BY <1>1, <2>1, <2>4
  <2>6. QED
    BY <2>1, <2>3, <2>5, OffWritten DEF Moving
<1>3. ASSUME NEW a \in Asked[r], FindTimeOff(r, a)
      PROVE  Inv'
  <2>1. /\ Begin(r, a, "timeOff") /\ a.op \in {"updateTimeOff", "removeTimeOff"}
        /\ UNCHANGED <<service, hours, link, timeOff, booked>>
        /\ seen' = [seen EXCEPT ![r] = timeOff[a.id]]
        /\ a.op = "updateTimeOff" => Ordered(Patched(timeOff[a.id], a.put))
    BY <1>3 DEF FindTimeOff
  <2>2. SameRows /\ SeenOf(r)
    BY <1>1, <2>1
  <2>3. /\ Moves(r) /\ at'[r] = "timeOff" /\ ask'[r] = a /\ seen'[r] = timeOff[a.id]
    BY <1>1, <2>1, <2>2, BeginMoves
  <2>4. WritesOrdered(r)'
    BY <2>1, <2>3 DEF WritesOrdered, Ordered, Patched
  <2>5. Own(r)'
    BY <2>3, <2>4 DEF Own, HoursLeft, LinksLeft, ReadLive, InStaff, Replacing
  <2>6. QED
    BY <2>1, <2>2, <2>5, QuietBegin
<1>4. CASE WriteTimeOff(r) \/ RemoveTimeOff(r)
  <2>1. /\ Goto(r, "scan") /\ at[r] = "timeOff" /\ seen' = [seen EXCEPT ![r] = NONE]
        /\ UNCHANGED <<service, hours, link, booked>>
        /\ \/ /\ ask[r].op = "updateTimeOff"
              /\ timeOff' = [timeOff EXCEPT ![ask[r].id] = Patched(seen[r], ask[r].put)]
           \/ timeOff' = [timeOff EXCEPT ![ask[r].id] = NONE]
    BY <1>4 DEF WriteTimeOff, RemoveTimeOff
  <2>2. SameRows /\ SeenOf(r)
    BY <1>1, <2>1
  <2>3. Moves(r) /\ at'[r] = "scan" /\ ask'[r] = ask[r]
    BY <1>1, <2>1, <2>2, GotoMoves
  <2>4. ask[r].op = "updateTimeOff" => Ordered(Patched(seen[r], ask[r].put))
    BY <1>1, <2>1 DEF Own, WritesOrdered
  <2>5. \A i \in TimeOffId : timeOff'[i] = timeOff[i] \/ timeOff'[i] = NONE
                               \/ Ordered(timeOff'[i])
    BY <1>1, <2>1, <2>4
  <2>6. ~Moving(r)'
    BY <2>1, <2>3 DEF Inv, MovesInv, Moving
  <2>7. QED
    BY <2>1, <2>3, <2>5, <2>6, OffWritten
<1>5. CASE TimeOffGone(r)
  <2>1. End(r) /\ SameRows /\ UNCHANGED <<hours, link, timeOff, booked>>
    BY <1>1, <1>5 DEF TimeOffGone
  <2>2. QED
    BY <2>1, QuietEnd
<1>6. QED
  BY <1>2, <1>3, <1>4, <1>5 DEF TimeOff

\* The rows an open reschedule of another request holds.
LEMMA HeldBy ==
  ASSUME NEW r \in Request, NEW q \in Request \ {r}, Moving(q), NEW t
  PROVE  /\ seen[q].old.staff = t => seen[q].old \in Held(r, t)
         /\ seen[q].new.staff = t => seen[q].new \in Held(r, t)
BY DEF Held

LEMMA OverlapsSymmetric == \A x, y : Overlaps(x, y) <=> Overlaps(y, x)
BY DEF Overlaps

LEMMA BookStep ==
  ASSUME Inv, NEW r \in Request, CommitBooking(r), Remember(r)
  PROVE  Inv'
<1> USE DEF calendar, SameRows, SeenOf, At, catalogue, Domains
<1>1. Domains /\ at[r] = "commit"
  BY DEF Inv, CommitBooking
<1> DEFINE a == ask[r]
           new == [staff |-> a.staff, service |-> a.service, start |-> a.start,
                   end |-> a.start + job[r].total]
<1>2. CASE End(r) /\ UNCHANGED <<catalogue, calendar>>
  BY <1>1, <1>2, QuietEnd
<1>3. CASE /\ ~Excluded(Held(r, a.staff), new)
           /\ Ordered(new) /\ ~Excluded(Taken(a.staff), new)
           /\ booked' = booked \cup {new} /\ Goto(r, "scan")
           /\ UNCHANGED <<catalogue, hours, timeOff, seen>>
  <2>1. SameRows /\ SeenOf(r) /\ UNCHANGED <<service, hours, link, timeOff>>
    BY <1>1, <1>3
  <2>2. Moves(r) /\ at'[r] = "scan" /\ ask'[r] = ask[r]
    BY <1>1, <1>3, <2>1, GotoMoves
  <2>3. ~Moving(r) /\ ~Moving(r)'
    BY <1>1, <2>2 DEF Inv, MovesInv, Moving
  <2>4. new.staff = a.staff
    OBVIOUS
  <2> PICK b : b = new
    OBVIOUS
  <2>5. /\ Ordered(b) /\ booked' = booked \cup {b}
        /\ \A c \in booked : c.staff = b.staff => ~Overlaps(c, b)
        /\ \A c \in Held(r, b.staff) : ~Overlaps(c, b)
    BY <1>3, <2>4 DEF Excluded, Taken
  <2>6. TimesStaySound'
    <3>1. \A i \in TimeOffId : timeOff'[i] # NONE => Ordered(timeOff'[i])
      BY <2>1 DEF Inv, TimesStaySound, Sound
    <3>2. \A c, d \in booked' : /\ Ordered(c)
                                /\ c # d /\ c.staff = d.staff => ~Overlaps(c, d)
      BY <2>5, OverlapsSymmetric DEF Inv, TimesStaySound, Sound
    <3>3. QED
      BY <3>1, <3>2 DEF TimesStaySound, Sound, Ordered, Overlaps
  <2>7. MovesInv'
    <3>1. \A q \in Request : Moving(q)' => q # r /\ Moving(q) /\ seen'[q] = seen[q]
                                           /\ at'[q] = at[q]
      BY <2>2, <2>3 DEF Moves, OnlyMoves, Moving
    <3>2. ASSUME NEW q \in Request, Moving(q)'
          PROVE  at'[q] \in {"scan", "del", "move"} /\ Fits(q)'
      <4>1. Fits(q) /\ at[q] \in {"scan", "del", "move"}
        BY <3>1, <3>2 DEF Inv, MovesInv
      <4>2. b.staff = seen[q].new.staff => ~Overlaps(b, seen[q].new)
        BY <2>5, <3>1, <3>2, HeldBy, OverlapsSymmetric
      <4>3. QED
        BY <2>5, <3>1, <3>2, <4>1, <4>2 DEF Fits, Ordered, Overlaps
    <3>3. \A q \in Request : At(q, "move")' => Moving(q)'
      BY <2>2 DEF Inv, MovesInv, Moves, OnlyMoves, Moving
    <3>4. \A p, q \in Request : Moving(p)' /\ Moving(q)' /\ p # q => Apart(p, q)'
      BY <3>1 DEF Inv, MovesInv, Apart, Overlaps
    <3>5. QED
      BY <3>2, <3>3, <3>4 DEF MovesInv
  <2>8. Own(r)'
    BY <2>2, NotRelyingNext DEF Relying, Replacing
  <2>9. LinksBy(r) /\ HoursBy(r)
    BY <2>1 DEF LinksBy, HoursBy
  <2>10. QED
    BY <2>2, <2>6, <2>7, <2>8, <2>9, Assemble
<1>4. QED
  BY <1>2, <1>3 DEF CommitBooking

LEMMA CancelStep ==
  ASSUME Inv, NEW r \in Request, NEW a \in Asked[r], CancelBooking(r, a), Remember(r)
  PROVE  Inv'
<1> USE DEF calendar, SameRows, SeenOf, At, catalogue, Domains
<1>1. Domains
  BY DEF Inv
<1>2. /\ a.op = "cancel" /\ Begin(r, a, "scan") /\ SameRows /\ SeenOf(r)
      /\ UNCHANGED <<service, hours, link, timeOff, seen>>
  BY <1>1 DEF CancelBooking
<1>3. PICK b \in booked \ Held(r, a.staff) :
        b.staff = a.staff /\ booked' = booked \ {b}
  BY DEF CancelBooking
<1>4. Moves(r) /\ at'[r] = "scan" /\ ask'[r] = a
  BY <1>1, <1>2, BeginMoves
<1>5. TimesStaySound'
  BY <1>2, <1>3 DEF Inv, TimesStaySound, Sound, Ordered, Overlaps
<1>6. \A q \in Request : Moving(q)' => q # r /\ Moving(q) /\ seen'[q] = seen[q]
                                       /\ at'[q] = at[q]
  BY <1>2, <1>4 DEF Moves, OnlyMoves, Moving
<1>7. ASSUME NEW q \in Request, Moving(q)'
      PROVE  at'[q] \in {"scan", "del", "move"} /\ Fits(q)'
  <2>1. Fits(q) /\ at[q] \in {"scan", "del", "move"}
    BY <1>6, <1>7 DEF Inv, MovesInv
  <2>2. seen[q].old # b
    BY <1>3, <1>6, <1>7, HeldBy
  <2>3. QED
    BY <1>3, <1>6, <1>7, <2>1, <2>2 DEF Fits, Ordered, Overlaps
<1>8. \A q \in Request : At(q, "move")' => Moving(q)'
  BY <1>4 DEF Inv, MovesInv, Moves, OnlyMoves, Moving
<1>9. \A p, q \in Request : Moving(p)' /\ Moving(q)' /\ p # q => Apart(p, q)'
  BY <1>6 DEF Inv, MovesInv, Apart, Overlaps
<1>10. MovesInv'
  BY <1>7, <1>8, <1>9 DEF MovesInv
<1>11. Own(r)' /\ LinksBy(r) /\ HoursBy(r)
  BY <1>2, <1>4, NotRelyingNext DEF Relying, Replacing, LinksBy, HoursBy
<1>12. QED
  BY <1>4, <1>5, <1>10, <1>11, Assemble

LEMMA MoveStep ==
  ASSUME Inv, NEW r \in Request, NEW a \in Asked[r], MoveBooking(r, a), Remember(r)
  PROVE  Inv'
<1> USE DEF calendar, SameRows, SeenOf, At, catalogue, Domains
<1>1. Domains
  BY DEF Inv
<1> DEFINE moved(b) == [b EXCEPT !.start = a.start, !.end = a.start + (b.end - b.start)]
<1>2. PICK b \in Taken(a.staff) \ Held(r, a.staff) :
        /\ Ordered(moved(b))
        /\ ~Excluded(Held(r, a.staff) \cup (Taken(a.staff) \ {b}), moved(b))
        /\ seen' = [seen EXCEPT ![r] = [old |-> b, new |-> moved(b)]]
  BY DEF MoveBooking
<1>3. /\ a.op = "move" /\ Begin(r, a, "scan") /\ SameRows /\ SeenOf(r)
      /\ UNCHANGED <<service, hours, link, timeOff, booked>>
  BY <1>1, <1>2 DEF MoveBooking
<1>4. moved(b).staff = b.staff
  OBVIOUS
<1> PICK new : new = moved(b)
  OBVIOUS
<1>5. /\ b \in booked /\ b.staff = a.staff /\ new.staff = a.staff /\ Ordered(new)
      /\ \A c \in booked \ {b} : c.staff = a.staff => ~Overlaps(c, new)
      /\ \A c \in Held(r, a.staff) : ~Overlaps(c, new)
  BY <1>2, <1>4 DEF Excluded, Taken
<1>6. Moves(r) /\ at[r] = "idle" /\ at'[r] = "scan" /\ ask'[r] = a
  BY <1>1, <1>3, BeginMoves
<1>7. seen'[r].old = b /\ seen'[r].new = new
  BY <1>1, <1>2
<1>8. \A q \in Request \ {r} : Moving(q)' => /\ Moving(q) /\ seen'[q] = seen[q]
                                             /\ at'[q] = at[q]
  BY <1>6 DEF Moves, OnlyMoves, Moving
<1>9. TimesStaySound'
  BY <1>3 DEF Inv, TimesStaySound, Sound, Ordered, Overlaps
<1>10. ASSUME NEW q \in Request, Moving(q)'
       PROVE  at'[q] \in {"scan", "del", "move"} /\ Fits(q)'
  <2>1. CASE q = r
    BY <1>3, <1>5, <1>6, <1>7, <2>1 DEF Fits, Ordered, Overlaps
  <2>2. CASE q # r
    BY <1>3, <1>8, <1>10, <2>2 DEF Inv, MovesInv, Fits, Ordered, Overlaps
  <2>3. QED
    BY <2>1, <2>2
<1>11. \A q \in Request : At(q, "move")' => Moving(q)'
  BY <1>6 DEF Inv, MovesInv, Moves, OnlyMoves, Moving
<1>12. ASSUME NEW q \in Request \ {r}, Moving(q)
       PROVE  /\ seen[q].old # b
              /\ seen[q].new.staff = new.staff => ~Overlaps(seen[q].new, new)
  BY <1>2, <1>5, <1>12, HeldBy
<1>13. \A p, q \in Request : Moving(p)' /\ Moving(q)' /\ p # q => Apart(p, q)'
  <2> SUFFICES ASSUME NEW p \in Request, NEW q \in Request, Moving(p)', Moving(q)', p # q
               PROVE  Apart(p, q)'
    OBVIOUS
  <2>1. CASE p = r
    BY <1>7, <1>8, <1>12, <2>1, OverlapsSymmetric DEF Apart, Overlaps
  <2>2. CASE q = r
    BY <1>7, <1>8, <1>12, <2>2, OverlapsSymmetric DEF Apart, Overlaps
  <2>3. CASE p # r /\ q # r
    BY <1>8, <2>3 DEF Inv, MovesInv, Apart, Overlaps
  <2>4. QED
    BY <2>1, <2>2, <2>3
<1>14. MovesInv'
  BY <1>10, <1>11, <1>13 DEF MovesInv
<1>15. Own(r)' /\ LinksBy(r) /\ HoursBy(r)
  BY <1>3, <1>6, NotRelyingNext DEF Relying, Replacing, LinksBy, HoursBy
<1>16. QED
  BY <1>6, <1>9, <1>14, <1>15, Assemble

LEMMA CommitMoveStep ==
  ASSUME Inv, NEW r \in Request, CommitMove(r), Remember(r)
  PROVE  Inv'
<1> USE DEF calendar, SameRows, SeenOf, At, catalogue, Domains
<1>1. Domains /\ Moving(r)
  BY DEF Inv, MovesInv, CommitMove
<1>2. /\ End(r) /\ SameRows /\ UNCHANGED <<service, hours, link, timeOff>>
  BY <1>1 DEF CommitMove
<1> PICK old, new : old = seen[r].old /\ new = seen[r].new
  OBVIOUS
<1>3. booked' = (booked \ {old}) \cup {new}
  BY DEF CommitMove
<1>4. /\ Ordered(new)
      /\ \A b \in booked \ {old} : b.staff = new.staff => ~Overlaps(b, new)
  BY <1>1 DEF Inv, MovesInv, Fits
<1>5. Moves(r) /\ at'[r] = "done" /\ ask'[r] = NONE
  BY <1>1, <1>2, EndMoves
<1>6. TimesStaySound'
  <2>1. \A i \in TimeOffId : timeOff'[i] # NONE => Ordered(timeOff'[i])
    BY <1>2 DEF Inv, TimesStaySound, Sound
  <2>2. \A c, d \in booked' : /\ Ordered(c)
                              /\ c # d /\ c.staff = d.staff => ~Overlaps(c, d)
    BY <1>3, <1>4, OverlapsSymmetric DEF Inv, TimesStaySound, Sound
  <2>3. QED
    BY <2>1, <2>2 DEF TimesStaySound, Sound, Ordered, Overlaps
<1>7. \A q \in Request : Moving(q)' => q # r /\ Moving(q) /\ seen'[q] = seen[q]
                                       /\ at'[q] = at[q]
  BY <1>5 DEF Moves, OnlyMoves, Moving
<1>8. ASSUME NEW q \in Request, Moving(q)'
      PROVE  at'[q] \in {"scan", "del", "move"} /\ Fits(q)'
  <2>1. Fits(q) /\ at[q] \in {"scan", "del", "move"} /\ Apart(q, r)
    BY <1>1, <1>7, <1>8 DEF Inv, MovesInv
  <2>2. /\ seen[q].old # old
        /\ new.staff = seen[q].new.staff => ~Overlaps(new, seen[q].new)
    BY <2>1, OverlapsSymmetric DEF Apart
  <2>3. QED
    BY <1>3, <1>7, <1>8, <2>1, <2>2 DEF Fits, Ordered, Overlaps
<1>9. \A q \in Request : At(q, "move")' => Moving(q)'
  BY <1>5 DEF Inv, MovesInv, Moves, OnlyMoves, Moving
<1>10. \A p, q \in Request : Moving(p)' /\ Moving(q)' /\ p # q => Apart(p, q)'
  BY <1>7 DEF Inv, MovesInv, Apart, Overlaps
<1>11. MovesInv'
  BY <1>8, <1>9, <1>10 DEF MovesInv
<1>12. Own(r)' /\ LinksBy(r) /\ HoursBy(r)
  BY <1>2, <1>5, NotRelyingNext DEF Relying, Replacing, LinksBy, HoursBy
<1>13. QED
  BY <1>5, <1>6, <1>11, <1>12, Assemble

LEMMA BookingsStep ==
  ASSUME Inv, NEW r \in Request, Bookings(r), Remember(r)
  PROVE  Inv'
<1> USE DEF calendar, SameRows, SeenOf, At, catalogue, Domains
<1>1. Domains
  BY DEF Inv
<1>2. ASSUME NEW a \in Asked[r], BeginBooking(r, a) \/ ConfirmBooking(r, a)
      PROVE  Inv'
  <2>1. PICK first \in {"service", "scan"} : Begin(r, a, first)
    BY <1>2 DEF BeginBooking, ConfirmBooking
  <2>2. /\ a.op # "move" /\ SameRows /\ SeenOf(r)
        /\ UNCHANGED <<hours, link, timeOff, booked>>
    BY <1>1, <1>2 DEF BeginBooking, ConfirmBooking
  <2>3. at'[r] = first
    BY <1>1, <2>1, <2>2, BeginMoves
  <2>4. QED
    BY <2>1, <2>2, <2>3, NotRelyingNext, QuietBegin DEF Relying, Replacing
<1>3. QED
  BY <1>2, BookStep, CancelStep, MoveStep, CommitMoveStep DEF Bookings

\* Deleting pages: a reschedule goes on holding its booking.
LEMMA DeletionStep ==
  ASSUME Inv, NEW r \in Request, ScanPages(r) \/ DelPages(r) \/ DelFails(r), Remember(r)
  PROVE  Inv'
<1> USE DEF calendar, SameRows, SeenOf, At, catalogue, Domains
<1>1. Domains
  BY DEF Inv
<1>2. SameRows /\ UNCHANGED <<hours, link, timeOff, booked>>
  BY <1>1 DEF ScanPages, DelPages, DelFails
<1>3. CASE End(r)
  BY <1>2, <1>3, QuietEnd
<1>4. ASSUME NEW step \in {"del", "move"}, Goto(r, step), seen' = seen,
             step = "move" => Moving(r)
      PROVE  Inv'
  <2>1. Moves(r) /\ at'[r] = step /\ ask'[r] = ask[r]
    BY <1>1, <1>2, <1>4, GotoMoves
  <2>2. Own(r)'
    BY <2>1, NotRelyingNext DEF Relying, Replacing
  <2>3. Moving(r)' <=> Moving(r)
    BY <2>1 DEF Moving
  <2>4. QED
    BY <1>2, <1>4, <2>1, <2>2, <2>3, QuietStep
<1>5. End(r) \/ \E step \in {"del", "move"} :
                  Goto(r, step) /\ seen' = seen /\ (step = "move" => Moving(r))
  BY DEF ScanPages, DelPages, DelFails
<1>6. QED
  BY <1>3, <1>4, <1>5

-----------------------------------------------------------------------------
(* Pages and failures.                                                     *)

LEMMA PagesStep ==
  ASSUME Inv, NEW r \in Request, Pages(r), Remember(r)
  PROVE  Inv'
<1> USE DEF calendar, SameRows, SeenOf, At, catalogue, Domains, tables
<1>1. Domains
  BY DEF Inv
<1>2. ASSUME NEW a \in Asked[r], BeginPage(r, a)
      PROVE  Inv'
  <2>1. /\ Begin(r, a, "staff") /\ a.op # "move" /\ SameRows /\ SeenOf(r)
        /\ UNCHANGED <<hours, link, timeOff, booked>>
    BY <1>1, <1>2 DEF BeginPage
  <2>2. at'[r] = "staff"
    BY <1>1, <2>1, BeginMoves
  <2>3. QED
    BY <2>1, <2>2, NotRelyingNext, QuietBegin DEF Relying, Replacing
<1>3. CASE StorePage(r)
  <2>1. End(r) /\ SameRows /\ UNCHANGED <<hours, link, timeOff, booked>>
    BY <1>1, <1>3 DEF StorePage
  <2>2. QED
    BY <2>1, QuietEnd
<1>4. CASE ReadStaff(r) \/ ReadHours(r) \/ ReadBookings(r) \/ ReadTimeOff(r)
  <2>1. /\ SameRows /\ SeenOf(r) /\ UNCHANGED <<hours, link, timeOff, booked>>
        /\ at[r] \in {"staff", "hours", "bookings", "off"}
    BY <1>1, <1>4 DEF ReadStaff, ReadHours, ReadBookings, ReadTimeOff
  <2>2. \E step \in {"setPage", "service", "bookings", "off"} : Goto(r, step)
    BY <1>4 DEF ReadStaff, ReadHours, ReadBookings, ReadTimeOff, TurnAfter, Turn
  <2>3. QED
    BY <2>1, <2>2, PlainStep DEF Relying, Replacing
<1>5. QED
  BY <1>2, <1>3, <1>4 DEF Pages

LEMMA HandleStep ==
  ASSUME Inv, NEW r \in Request, Handle(r), Remember(r)
  PROVE  Inv'
<1>1. CASE Fail(r)
  <2>1. End(r) /\ SameRows /\ UNCHANGED <<hours, link, timeOff, booked>>
    BY <1>1 DEF Fail, tables, catalogue, calendar, Inv, Domains, SameRows
  <2>2. QED
    BY <2>1, QuietEnd
<1>2. QED
  BY <1>1, CategoryStep, ServiceStep, ChildStep, ResolveStep, HoursStep, OffStep,
     BookingsStep, DeletionStep, PagesStep
     DEF Handle

LEMMA NextInv == Inv /\ [Next]_vars => Inv'
<1> SUFFICES ASSUME Inv, [Next]_vars PROVE Inv'
  OBVIOUS
<1>1. ASSUME NEW r \in Request, Handle(r), Remember(r)
      PROVE  Inv'
  BY <1>1, HandleStep
<1>2. CASE UNCHANGED <<tables, at, ask, seen, overtaken>>
  <2>1. Domains' /\ TimesStaySound'
    BY <1>2 DEF tables, catalogue, calendar, Inv, Domains, TimesStaySound, Sound,
                Ordered, Overlaps
  <2>2. \A q \in Request : Own(q)'
    BY <1>2
       DEF tables, catalogue, calendar, Inv, Own, HoursLeft, LinksLeft, Linked, ReadLive,
           Live, Bookable, WritesOrdered, Ordered, Patched, InStaff, At
  <2>3. MovesInv'
    BY <1>2 DEF tables, calendar, Inv, MovesInv, Moving, At, Fits, Apart, Ordered, Overlaps
  <2>4. QED
    BY <2>1, <2>2, <2>3 DEF Inv
<1>3. (\E k \in Key : Lapse(k)) \/ UNCHANGED vars =>
        UNCHANGED <<tables, at, ask, seen, overtaken>>
  BY DEF Lapse, vars, progress
<1>4. QED
  BY <1>1, <1>2, <1>3 DEF Next, Finished

LEMMA InitInv == Init => Inv
<1> SUFFICES ASSUME Init PROVE Inv
  OBVIOUS
<1> PICK t \in Start :
      /\ category = t.category /\ service = t.service
      /\ child = t.child /\ link = t.link
      /\ hours = t.hours /\ timeOff = t.timeOff /\ booked = t.booked
  BY DEF Init
<1>1. /\ DOMAIN hours = Staff /\ DOMAIN link = Staff /\ DOMAIN service = Service
      /\ DOMAIN timeOff = TimeOffId
      /\ TimesStaySound
  BY AvailabilityAssumption DEF AvailabilityAssumption, TimesStaySound
<1>2. /\ DOMAIN at = Request /\ DOMAIN ask = Request /\ DOMAIN seen = Request
      /\ \A q \in Request : at[q] = "idle" /\ ask[q] = NONE
  BY DEF Init
<1>3. \A q \in Request : Own(q)
  BY <1>2, NotRelying DEF Relying, Replacing
<1>4. MovesInv
  BY <1>2 DEF MovesInv, Moving, At
<1>5. QED
  BY <1>1, <1>2, <1>3, <1>4 DEF Inv, Domains

LEMMA Invariance == Spec => []Inv
BY InitInv, NextInv, PTL DEF Spec

\* Kept ranges end after they start and bookings of one member of staff are
\* apart, whatever the requests do to each other.
THEOREM TimesSound == Spec => []TimesStaySound
<1>1. Inv => TimesStaySound
  BY DEF Inv
<1>2. QED
  BY <1>1, Invariance, PTL

-----------------------------------------------------------------------------
(* What a step of a request may do.                                        *)

\* A step of one request moves no other.
LEMMA HandleMoves ==
  ASSUME Domains, NEW q \in Request, Handle(q)
  PROVE  \A r \in Request \ {q} : at'[r] = at[r] /\ ask'[r] = ask[r]
<1>1. CASE (\E a, first : Begin(q, a, first)) \/ (\E step : Goto(q, step)) \/ End(q)
  BY <1>1 DEF Domains, Begin, Goto, End
<1>2. CASE ServiceCategories(q) \/ ServiceChildren(q)
  BY <1>1, <1>2
     DEF ServiceCategories, ServiceChildren, CreateCategory, CheckCategory,
         WriteCategory, CheckParent, CreateChild, CheckChild, WriteChild
<1>3. CASE Services(q)
  BY <1>1, <1>3, SMTT(30)
     DEF Services, CreateService, CheckService, CheckItems, BeginList, WriteService,
         BustPublicCache, Unlink, UnlinkResumes, Relink, AbortRelink, ReadCategories,
         ReadServices, ReadIncluded, StoreList
<1>4. CASE Resolve(q)
  BY <1>1, <1>4 DEF Resolve, ReadService, ReadLink, ReadVariant, ReadAddons, Next1
<1>5. CASE WorkingHours(q) \/ TimeOff(q)
  BY <1>1, <1>5
     DEF WorkingHours, TimeOff, BeginReplace, DeleteHours, DeleteResumes, InsertHours,
         CreateTimeOff, FindTimeOff, WriteTimeOff, RemoveTimeOff, TimeOffGone
<1>6. CASE Bookings(q) \/ ScanPages(q) \/ DelPages(q)
  BY <1>1, <1>6
     DEF Bookings, BeginBooking, CancelBooking, ConfirmBooking, MoveBooking,
         CommitBooking, CommitMove, ScanPages, DelPages
<1>7. CASE Pages(q)
  BY <1>1, <1>7
     DEF Pages, BeginPage, ReadStaff, ReadHours, ReadBookings, ReadTimeOff, StorePage,
         TurnAfter, Turn
<1>8. CASE Fail(q) \/ DelFails(q)
  BY <1>1, <1>8 DEF Fail, DelFails
<1>9. QED
  BY <1>2, <1>3, <1>4, <1>5, <1>6, <1>7, <1>8 DEF Handle

\* Where a request is says which of its steps is next.
LEMMA OwnSteps ==
  ASSUME Domains, NEW r \in Request, Handle(r)
  PROVE  /\ At(r, "insert") /\ At(r, "scan")' => InsertHours(r)
         /\ At(r, "relink") /\ At(r, "bust")' => Relink(r)
         /\ At(r, "write") /\ At(r, "bust")' => WriteService(r) \/ service' = service
         /\ At(r, "commit") /\ At(r, "scan")' => CommitBooking(r)
<1> DEFINE Here == {"insert", "relink", "write", "commit"}
<1> SUFFICES ASSUME at[r] \in Here, at'[r] # "done"
             PROVE  \/ at[r] = "insert" /\ InsertHours(r)
                    \/ at[r] = "relink" /\ Relink(r)
                    \/ at[r] = "write" /\ (WriteService(r) \/ service' = service)
                    \/ at[r] = "commit" /\ CommitBooking(r)
  BY DEF At
<1> USE DEF At
<1>1. ~End(r) /\ \A a, first : ~Begin(r, a, first)
  BY DEF End, Begin, Domains
<1>2. CASE ServiceCategories(r) \/ ServiceChildren(r)
  BY <1>1, <1>2
     DEF ServiceCategories, ServiceChildren, CreateCategory, CheckCategory,
         WriteCategory, CheckParent, CreateChild, CheckChild, WriteChild
<1>3. CASE Services(r)
  BY <1>1, <1>3
     DEF Services, CreateService, CheckService, CheckItems, BeginList, WriteService,
         BustPublicCache, Unlink, UnlinkResumes, Relink, AbortRelink, ReadCategories,
         ReadServices, ReadIncluded, StoreList
<1>4. CASE Resolve(r)
  BY <1>4 DEF Resolve, ReadService, ReadLink, ReadVariant, ReadAddons
<1>5. CASE WorkingHours(r) \/ TimeOff(r)
  BY <1>1, <1>5
     DEF WorkingHours, TimeOff, BeginReplace, DeleteHours, DeleteResumes, InsertHours,
         CreateTimeOff, FindTimeOff, WriteTimeOff, RemoveTimeOff, TimeOffGone
<1>6. CASE Bookings(r) \/ ScanPages(r) \/ DelPages(r)
  BY <1>1, <1>6
     DEF Bookings, BeginBooking, CancelBooking, ConfirmBooking, MoveBooking,
         CommitBooking, CommitMove, ScanPages, DelPages
<1>7. CASE Pages(r)
  BY <1>1, <1>7
     DEF Pages, BeginPage, ReadStaff, ReadHours, ReadBookings, ReadTimeOff, StorePage
<1>8. CASE Fail(r) \/ DelFails(r)
  BY <1>1, <1>8 DEF Fail, DelFails
<1>9. QED
  BY <1>2, <1>3, <1>4, <1>5, <1>6, <1>7, <1>8 DEF Handle

LEMMA NextOwnSteps ==
  ASSUME Inv, Next, NEW r \in Request
  PROVE  /\ At(r, "insert") /\ At(r, "scan")' => InsertHours(r)
         /\ At(r, "relink") /\ At(r, "bust")' => Relink(r)
         /\ At(r, "write") /\ At(r, "bust")' => WriteService(r) \/ service' = service
         /\ At(r, "commit") /\ At(r, "scan")' => CommitBooking(r)
<1>1. CASE Handle(r)
  BY <1>1, OwnSteps DEF Inv
<1>2. CASE at'[r] = at[r]
  BY <1>2 DEF At
<1>3. ASSUME NEW q \in Request \ {r}, Handle(q)
      PROVE  at'[r] = at[r]
  BY <1>3, HandleMoves DEF Inv
<1>4. (\E k \in Key : Lapse(k)) \/ Finished => at'[r] = at[r]
  BY DEF Lapse, Finished, vars, progress
<1>5. QED
  BY <1>1, <1>2, <1>3, <1>4 DEF Next

\* A replacement of hours or of services leaves only rows of requests that
\* committed during it.
THEOREM RowsMix == Spec => RowsMixOnlyInARace
<1>1. ASSUME Inv, Next, NEW r \in Request
      PROVE  /\ At(r, "insert") /\ At(r, "scan")' =>
                  \A row \in hours[ask[r].staff]' : row.by \in {r} \cup overtaken[r]
             /\ At(r, "relink") /\ At(r, "bust")' =>
                  \A s \in Linked(ask[r].staff)' :
                    link[ask[r].staff][s]'.by \in {r} \cup overtaken[r]
  <2>1. CASE At(r, "insert") /\ At(r, "scan")'
    <3>1. /\ Goto(r, "scan") /\ ask' = ask
          /\ hours' = [hours EXCEPT ![ask[r].staff] = (hours[ask[r].staff] \ seen[r]) \cup
               {[start |-> i.start, end |-> i.end, by |-> r] : i \in ask[r].items}]
      BY <1>1, <2>1, NextOwnSteps DEF InsertHours, Goto
    <3>2. /\ ask[r].staff \in Staff /\ DOMAIN hours = Staff
          /\ \A row \in hours[ask[r].staff] \ seen[r] : row.by \in overtaken[r]
      BY <1>1, <2>1 DEF Inv, Domains, Own, InStaff, Replacing, HoursLeft, At
    <3>3. \A row \in hours'[ask[r].staff] : row.by \in {r} \cup overtaken[r]
      BY <3>1, <3>2
    <3>4. QED
      BY <2>1, <3>1, <3>3 DEF At
  <2>2. CASE At(r, "relink") /\ At(r, "bust")'
    <3> DEFINE t == ask[r].staff
    <3>1. /\ ask' = ask
          /\ link' = [link EXCEPT ![t] = [s \in Service |->
               IF s \in DOMAIN ask[r].items
                 THEN [active |-> ask[r].items[s].active,
                       online |-> ask[r].items[s].online,
                       len |-> ask[r].items[s].len, by |-> r]
                 ELSE IF s \in seen[r] THEN NONE ELSE link[t][s]]]
      BY <1>1, <2>2, NextOwnSteps DEF Relink, Goto
    <3>2. /\ t \in Staff /\ DOMAIN link = Staff
          /\ \A s \in Service : s \notin DOMAIN ask[r].items \cup seen[r] /\ link[t][s] # NONE
                                  => link[t][s].by \in overtaken[r]
      BY <1>1, <2>2 DEF Inv, Domains, Own, InStaff, Replacing, LinksLeft, Linked, At
    <3>3. \A s \in Service : link'[t][s] # NONE => link'[t][s].by \in {r} \cup overtaken[r]
      BY <3>1, <3>2
    <3>4. QED
      BY <2>2, <3>1, <3>3 DEF At, Linked
  <2>3. QED
    BY <2>1, <2>2
<1>2. Inv /\ [Next]_vars =>
        [\A r \in Request :
           /\ At(r, "insert") /\ At(r, "scan")' =>
                \A row \in hours[ask[r].staff]' : row.by \in {r} \cup overtaken[r]
           /\ At(r, "relink") /\ At(r, "bust")' =>
                \A s \in Linked(ask[r].staff)' :
                  link[ask[r].staff][s]'.by \in {r} \cup overtaken[r]]_vars
  BY <1>1
<1>3. QED
  BY <1>2, Invariance, PTL DEF Spec, RowsMixOnlyInARace

\* What is archived or closed is acted on only by a request that another one
\* has overtaken.
THEOREM ArchivedActs == Spec => ArchivedActsOnlyInARace
<1>1. ASSUME Inv, Next, NEW r \in Request
      PROVE  /\ At(r, "write") /\ At(r, "bust")' =>
                  \A s \in Service :
                    Live(service[s])' /\ service[s] # NONE /\ ~Live(service[s])
                      => overtaken[r] # {}
             /\ At(r, "commit") /\ At(r, "scan")' /\ ~Bookable(service[ask[r].service])
                  => overtaken[r] # {}
  <2>1. ASSUME At(r, "write"), At(r, "bust")', overtaken[r] = {}, NEW s \in Service,
               service'[s] # service[s]
        PROVE  Live(service[s])
    <3>1. WriteService(r)
      BY <1>1, <2>1, NextOwnSteps
    <3>2. /\ ask[r].op \in ServiceOps
          /\ \E row : service' = [service EXCEPT ![ask[r].id] = row]
      BY <3>1 DEF WriteService, ServiceOps
    <3>3. s = ask[r].id
      BY <1>1, <2>1, <3>2 DEF Inv, Domains
    <3>4. QED
      BY <1>1, <2>1, <3>2, <3>3 DEF Inv, Own, ReadLive
  <2>2. ASSUME At(r, "commit"), At(r, "scan")', overtaken[r] = {}
        PROVE  Bookable(service[ask[r].service])
    BY <1>1, <2>2 DEF Inv, Own, ReadLive, At
  <2>3. ASSUME NEW s \in Service, Live(service[s])', ~Live(service[s])
        PROVE  service'[s] # service[s]
    BY <2>3 DEF Live
  <2>4. QED
    BY <2>1, <2>2, <2>3
<1>2. Inv /\ [Next]_vars =>
        [\A r \in Request :
           /\ At(r, "write") /\ At(r, "bust")' =>
                \A s \in Service :
                  Live(service[s])' /\ service[s] # NONE /\ ~Live(service[s])
                    => overtaken[r] # {}
           /\ At(r, "commit") /\ At(r, "scan")' /\ ~Bookable(service[ask[r].service])
                => overtaken[r] # {}]_vars
  BY <1>1
<1>3. QED
  BY <1>2, Invariance, PTL DEF Spec, ArchivedActsOnlyInARace

-----------------------------------------------------------------------------
(***************************************************************************)
(* Why a cached value may be stale, proved for any tables and requests.    *)
(* The invariant says what the computation of a page or a list has read so *)
(* far, which is what it would read now unless somebody committed; and     *)
(* that a cached value is what would be computed now unless its deletion   *)
(* is still to come or an event has excused it.                            *)
(***************************************************************************)

BookingOps == {"book", "cancel", "confirm", "move"}
OffOps == {"replaceHours", "createTimeOff", "updateTimeOff", "removeTimeOff"}
CategoryOps == {"updateCategory", "archiveCategory"}
CatalogueOps ==
  {"createCategory", "createService", "replaceStaffServices"}
    \cup CategoryOps \cup ServiceOps

\* The operations that may be at a step.
OpsAt(step) ==
  CASE step \in {"create", "child", "writeChild"} -> ChildOps
    [] step \in {"unlink", "unlinkWait", "relink"} -> {"replaceStaffServices"}
    [] step = "write" -> CategoryOps \cup ServiceOps
    [] step = "bust" -> CatalogueOps
    [] step \in {"delete", "deleteWait", "insert"} -> {"replaceHours"}
    [] step = "timeOff" -> {"updateTimeOff", "removeTimeOff"}
    [] step \in {"service", "link", "variant", "addons"} -> {"page", "book"}
    [] step = "commit" -> {"book"}
    [] step \in {"scan", "del"} -> OffOps \cup BookingOps
    [] step = "move" -> {"move"}
    [] step \in {"services", "included", "categories", "setList"} -> {"list"}
    [] step \in {"staff", "hours", "bookings", "off", "setPage"} -> {"page"}
    [] OTHER -> {}

OpOk(r) ==
  at[r] \in {"idle", "done"} \/ (ask[r] \in Asked[r] /\ ask[r].op \in OpsAt(at[r]))

\* Of the variables of requests.
MoreDomains ==
  /\ DOMAIN job = Request /\ DOMAIN page = Request /\ DOMAIN scanned = Request
  /\ DOMAIN cached = Key
  /\ faults \in Nat

Ops == Domains /\ MoreDomains /\ \A r \in Request : OpOk(r)

\* A step of r is of no other request.
OnlyOf(r) ==
  \A q \in Request \ {r} :
    /\ at'[q] = at[q] /\ ask'[q] = ask[q] /\ seen'[q] = seen[q]
    /\ job'[q] = job[q] /\ page'[q] = page[q] /\ scanned'[q] = scanned[q]

-----------------------------------------------------------------------------
(* Steps and operations.                                                   *)

LEMMA BeginOk ==
  ASSUME Ops, NEW r \in Request, NEW a \in Asked[r], NEW first, Begin(r, a, first),
         a.op \in OpsAt(first)
  PROVE  \A q \in Request : OpOk(q)'
BY DEF Ops, Domains, Begin, OpOk, OpsAt

LEMMA GotoOk ==
  ASSUME Ops, NEW r \in Request, NEW step, Goto(r, step), at[r] \notin {"idle", "done"},
         OpsAt(at[r]) \subseteq OpsAt(step) \/ ask[r].op \in OpsAt(step)
  PROVE  \A q \in Request : OpOk(q)'
<1>1. \A q \in Request \ {r} : at'[q] = at[q] /\ ask'[q] = ask[q]
  BY DEF Goto, Ops, Domains
<1>2. at'[r] = step /\ ask'[r] = ask[r]
  BY DEF Goto, Ops, Domains
<1>3. OpOk(r)'
  BY <1>2 DEF Ops, OpOk, OpsAt
<1>4. \A q \in Request \ {r} : OpOk(q)'
  BY <1>1 DEF Ops, OpOk, OpsAt
<1>5. QED
  BY <1>3, <1>4

LEMMA EndOk ==
  ASSUME Ops, NEW r \in Request, End(r)
  PROVE  \A q \in Request : OpOk(q)'
BY DEF End, Ops, Domains, OpOk, OpsAt

\* Every step that begins, begins with an operation that may be there; every
\* other step goes on with the same operation, or ends.
LEMMA HandleOk ==
  ASSUME Ops, NEW r \in Request, Handle(r)
  PROVE  \A q \in Request : OpOk(q)'
<1> USE DEF At
<1> DEFINE Begins == \E a \in Asked[r] : \E first :
                       Begin(r, a, first) /\ a.op \in OpsAt(first)
           Goes == \E step : /\ Goto(r, step) /\ at[r] \notin {"idle", "done"}
                             /\ OpsAt(at[r]) \subseteq OpsAt(step)
                                  \/ ask[r].op \in OpsAt(step)
<1>1. SUFFICES Begins \/ Goes \/ End(r)
  BY BeginOk, GotoOk, EndOk
<1>2. OpOk(r)
  BY DEF Ops
<1>3. CASE \E a \in Asked[r] : CreateCategory(r, a) \/ CheckCategory(r, a)
  <2>1. PICK a \in Asked[r] : CreateCategory(r, a) \/ CheckCategory(r, a)
    BY <1>3
  <2>2. \/ Begin(r, a, "bust") /\ a.op \in OpsAt("bust")
        \/ Begin(r, a, "write") /\ a.op \in OpsAt("write")
    BY <2>1 DEF OpsAt, CatalogueOps, CategoryOps, ServiceOps, ChildOps, OffOps, BookingOps,
                CreateCategory, CheckCategory
  <2>3. QED
    BY <2>2
<1>4. CASE \E a \in Asked[r] : \/ CreateService(r, a) \/ CheckService(r, a)
                               \/ CheckItems(r, a) \/ BeginList(r, a)
  <2>1. PICK a \in Asked[r] : \/ CreateService(r, a) \/ CheckService(r, a)
                              \/ CheckItems(r, a) \/ BeginList(r, a)
    BY <1>4
  <2>2. \/ Begin(r, a, "bust") /\ a.op \in OpsAt("bust")
        \/ Begin(r, a, "write") /\ a.op \in OpsAt("write")
        \/ Begin(r, a, "unlink") /\ a.op \in OpsAt("unlink")
        \/ Begin(r, a, "services") /\ a.op \in OpsAt("services")
        \/ Begin(r, a, "categories") /\ a.op \in OpsAt("categories")
    BY <2>1 DEF OpsAt, CatalogueOps, CategoryOps, ServiceOps, ChildOps, OffOps, BookingOps,
                CreateService, CheckService, CheckItems, BeginList
  <2>3. QED
    BY <2>2
<1>5. CASE \E a \in Asked[r] : \/ CheckParent(r, a) \/ BeginReplace(r, a)
                               \/ CreateTimeOff(r, a) \/ FindTimeOff(r, a)
  <2>1. PICK a \in Asked[r] : \/ CheckParent(r, a) \/ BeginReplace(r, a)
                              \/ CreateTimeOff(r, a) \/ FindTimeOff(r, a)
    BY <1>5
  <2>2. \/ Begin(r, a, "create") /\ a.op \in OpsAt("create")
        \/ Begin(r, a, "child") /\ a.op \in OpsAt("child")
        \/ Begin(r, a, "delete") /\ a.op \in OpsAt("delete")
        \/ Begin(r, a, "scan") /\ a.op \in OpsAt("scan")
        \/ Begin(r, a, "timeOff") /\ a.op \in OpsAt("timeOff")
    BY <2>1 DEF OpsAt, CatalogueOps, CategoryOps, ServiceOps, ChildOps, OffOps, BookingOps,
                CheckParent, BeginReplace, CreateTimeOff, FindTimeOff
  <2>3. QED
    BY <2>2
<1>6. CASE \E a \in Asked[r] :
             \/ BeginBooking(r, a) \/ CancelBooking(r, a) \/ ConfirmBooking(r, a)
             \/ MoveBooking(r, a) \/ BeginPage(r, a)
  <2>1. PICK a \in Asked[r] :
             \/ BeginBooking(r, a) \/ CancelBooking(r, a) \/ ConfirmBooking(r, a)
             \/ MoveBooking(r, a) \/ BeginPage(r, a)
    BY <1>6
  <2>2. \/ Begin(r, a, "service") /\ a.op \in OpsAt("service")
        \/ Begin(r, a, "scan") /\ a.op \in OpsAt("scan")
        \/ Begin(r, a, "staff") /\ a.op \in OpsAt("staff")
    BY <2>1 DEF OpsAt, CatalogueOps, CategoryOps, ServiceOps, ChildOps, OffOps, BookingOps,
                BeginBooking, CancelBooking, ConfirmBooking, MoveBooking, BeginPage
  <2>3. QED
    BY <2>2
<1>7. CASE \/ WriteCategory(r) \/ WriteService(r) \/ Unlink(r) \/ UnlinkResumes(r)
           \/ Relink(r)
  <2>1. \/ at[r] = "write" /\ Goto(r, "bust") /\ OpsAt("write") \subseteq OpsAt("bust")
        \/ /\ at[r] = "unlink" /\ (Goto(r, "unlinkWait") \/ Goto(r, "relink"))
           /\ OpsAt("unlink") = OpsAt("unlinkWait") /\ OpsAt("unlink") = OpsAt("relink")
        \/ /\ at[r] = "unlinkWait" /\ Goto(r, "relink")
           /\ OpsAt("unlinkWait") = OpsAt("relink")
        \/ at[r] = "relink" /\ Goto(r, "bust") /\ OpsAt("relink") \subseteq OpsAt("bust")
    BY <1>7 DEF OpsAt, CatalogueOps, CategoryOps, ServiceOps, ChildOps, OffOps, BookingOps,
                WriteCategory, WriteService, Unlink, UnlinkResumes, Relink
  <2>2. QED
    BY <2>1
<1>8. CASE ReadCategories(r) \/ ReadServices(r) \/ ReadIncluded(r) \/ CheckChild(r)
  <2>1. \/ End(r)
        \/ at[r] = "categories" /\ Goto(r, "setList") /\ OpsAt(at[r]) = OpsAt("setList")
        \/ at[r] = "services" /\ Goto(r, "included") /\ OpsAt(at[r]) = OpsAt("included")
        \/ at[r] = "included" /\ Goto(r, "setList") /\ OpsAt(at[r]) = OpsAt("setList")
        \/ at[r] = "child" /\ Goto(r, "writeChild") /\ OpsAt(at[r]) = OpsAt("writeChild")
    BY <1>8 DEF OpsAt, CatalogueOps, CategoryOps, ServiceOps, ChildOps, OffOps, BookingOps,
                ReadCategories, ReadServices, ReadIncluded, CheckChild
  <2>2. QED
    BY <2>1
<1>9. CASE Resolve(r)
  <2>1. /\ at[r] \in {"service", "link", "variant", "addons"}
        /\ \/ End(r)
           \/ \E step \in {"link", "variant", "addons"} : Goto(r, step)
           \/ Goto(r, "hours") /\ ask[r].op = "page"
           \/ Goto(r, "commit") /\ ask[r].op # "page"
    BY <1>9 DEF OpsAt, CatalogueOps, CategoryOps, ServiceOps, ChildOps, OffOps, BookingOps,
                Resolve, ReadService, ReadLink, ReadVariant, ReadAddons, Next1,
                AfterLink, AfterVariant, Resolved
  <2>2. ask[r].op \in {"page", "book"}
    BY <1>2, <2>1 DEF OpOk, OpsAt
  <2>3. \A step \in {"link", "variant", "addons"} : OpsAt(at[r]) = OpsAt(step)
    BY <2>1 DEF OpsAt
  <2>4. "page" \in OpsAt("hours") /\ "book" \in OpsAt("commit")
    BY DEF OpsAt
  <2>5. QED
    BY <2>1, <2>2, <2>3, <2>4, SMTT(30)
<1>10. CASE \/ DeleteHours(r) \/ DeleteResumes(r) \/ InsertHours(r) \/ WriteTimeOff(r)
            \/ RemoveTimeOff(r)
  <2>1. \/ /\ at[r] \in {"delete", "deleteWait"}
           /\ Goto(r, "deleteWait") \/ Goto(r, "insert")
           /\ OpsAt(at[r]) = OpsAt("deleteWait") /\ OpsAt(at[r]) = OpsAt("insert")
        \/ /\ at[r] \in {"insert", "timeOff"} /\ Goto(r, "scan")
           /\ OpsAt(at[r]) \subseteq OpsAt("scan")
    BY <1>10 DEF OpsAt, CatalogueOps, CategoryOps, ServiceOps, ChildOps, OffOps, BookingOps,
                DeleteHours, DeleteResumes, InsertHours, WriteTimeOff, RemoveTimeOff
  <2>2. QED
    BY <2>1
<1>11. CASE CommitBooking(r) \/ ScanPages(r) \/ DelPages(r) \/ DelFails(r)
  <2>1. \/ End(r)
        \/ at[r] = "commit" /\ Goto(r, "scan") /\ OpsAt(at[r]) \subseteq OpsAt("scan")
        \/ at[r] = "scan" /\ Goto(r, "del") /\ OpsAt(at[r]) = OpsAt("del")
        \/ /\ at[r] \in {"scan", "del"} /\ Goto(r, "move")
           /\ ask[r].op \in OpsAt("move")
    BY <1>11 DEF OpsAt, CatalogueOps, CategoryOps, ServiceOps, ChildOps, OffOps, BookingOps,
                CommitBooking, ScanPages, DelPages, DelFails, Moving
  <2>2. QED
    BY <2>1
<1>12. CASE ReadStaff(r) \/ ReadHours(r) \/ ReadBookings(r) \/ ReadTimeOff(r)
  <2>1. /\ at[r] \in {"staff", "hours", "bookings", "off"}
        /\ \E step \in {"setPage", "service", "bookings", "off"} : Goto(r, step)
    BY <1>12 DEF OpsAt, CatalogueOps, CategoryOps, ServiceOps, ChildOps, OffOps, BookingOps,
                ReadStaff, ReadHours, ReadBookings, ReadTimeOff, TurnAfter, Turn
  <2>2. \A step \in {"setPage", "service", "bookings", "off"} :
          OpsAt(at[r]) \subseteq OpsAt(step)
    BY <2>1 DEF OpsAt
  <2>3. QED
    BY <2>1, <2>2
<1>13. CASE \/ BustPublicCache(r) \/ StoreList(r) \/ AbortRelink(r) \/ CreateChild(r)
            \/ WriteChild(r) \/ TimeOffGone(r) \/ CommitMove(r) \/ StorePage(r)
            \/ Fail(r)
  BY <1>13 DEF BustPublicCache, StoreList, AbortRelink, CreateChild, WriteChild,
               TimeOffGone, CommitMove, StorePage, Fail
<1>14. QED
  BY <1>3, <1>4, <1>5, <1>6, <1>7, <1>8, <1>9, <1>10, <1>11, <1>12, <1>13
     DEF Handle, ServiceCategories, Services, ServiceChildren, WorkingHours, TimeOff,
         Bookings, Pages

-----------------------------------------------------------------------------
(* A step of one request is of no other one.                               *)

OnlyJob(r) == DOMAIN job' = Request /\ \A q \in Request \ {r} : job'[q] = job[q]
OnlyPage(r) == DOMAIN page' = Request /\ \A q \in Request \ {r} : page'[q] = page[q]
OnlyScanned(r) ==
  DOMAIN scanned' = Request /\ \A q \in Request \ {r} : scanned'[q] = scanned[q]
StoreKept == DOMAIN cached' = Key

OnlySeen(r) == \A q \in Request \ {r} : seen'[q] = seen[q]

LEMMA EndOnly ==
  ASSUME Ops, NEW r \in Request, End(r)
  PROVE  OnlyJob(r) /\ OnlySeen(r)
BY DEF Ops, Domains, MoreDomains, End, OnlyJob, OnlySeen

LEMMA SameOnly ==
  ASSUME Ops, NEW r \in Request
  PROVE  /\ UNCHANGED job => OnlyJob(r)
         /\ UNCHANGED seen => OnlySeen(r)
         /\ UNCHANGED page => OnlyPage(r)
         /\ UNCHANGED cacheVars => OnlyScanned(r) /\ StoreKept
BY DEF Ops, MoreDomains, OnlyJob, OnlySeen, OnlyPage, OnlyScanned, StoreKept, cacheVars

LEMMA Next1Only ==
  ASSUME Ops, NEW r \in Request, NEW found, NEW step, NEW total, NEW fixed,
         Next1(r, found, step, total, fixed)
  PROVE  OnlyJob(r) /\ OnlySeen(r) /\ OnlyScanned(r) /\ StoreKept
<1>1. OnlyScanned(r) /\ StoreKept
  BY SameOnly DEF Next1
<1>2. CASE found
  <2>1. /\ job' = [job EXCEPT ![r].total = total, ![r].fixed = fixed]
        /\ UNCHANGED seen
    BY <1>2 DEF Next1
  <2>2. OnlyJob(r)
    BY <2>1 DEF Ops, MoreDomains, OnlyJob
  <2>3. QED
    BY <1>1, <2>1, <2>2, SameOnly
<1>3. CASE ~found
  <2>1. End(r)
    BY <1>3 DEF Next1
  <2>2. QED
    BY <1>1, <2>1, EndOnly
<1>4. QED
  BY <1>1, <1>2, <1>3

LEMMA TurnOnly ==
  ASSUME Ops, NEW r \in Request, NEW todo, NEW done, Turn(r, todo, done)
  PROVE  OnlyJob(r) /\ OnlyPage(r)
<1>1. OnlyPage(r)
  BY DEF Turn, Ops, MoreDomains, OnlyPage
<1>2. CASE todo = {}
  BY <1>1, <1>2 DEF Turn, Ops, MoreDomains, OnlyJob
<1>3. CASE todo # {}
  <2>1. PICK t \in todo : job' = [job EXCEPT ![r] = [NoJob EXCEPT !.staff = t]]
    BY <1>3 DEF Turn
  <2>2. QED
    BY <1>1, <2>1 DEF Ops, MoreDomains, OnlyJob
<1>4. QED
  BY <1>2, <1>3

\* What the actions of r leave of the others' job and seen.
Only(r) == OnlyJob(r) /\ OnlySeen(r)

LEMMA EndOrNot ==
  ASSUME Ops, NEW r \in Request,
         \/ End(r)
         \/ UNCHANGED <<job, seen>>
         \/ UNCHANGED job /\ \E x : seen' = [seen EXCEPT ![r] = x]
  PROVE  Only(r)
<1>1. CASE UNCHANGED job /\ \E x : seen' = [seen EXCEPT ![r] = x]
  BY <1>1, SameOnly DEF Only, OnlySeen, Ops, Domains
<1>2. CASE UNCHANGED <<job, seen>>
  BY <1>2, SameOnly DEF Only
<1>3. QED
  BY <1>1, <1>2, EndOnly DEF Only

LEMMA HandleOnly ==
  ASSUME Ops, NEW r \in Request, Handle(r)
  PROVE  Only(r) /\ OnlyPage(r) /\ OnlyScanned(r) /\ StoreKept /\ faults' \in Nat
<1>1. faults' = faults \/ faults' = faults + 1
  BY DEF Handle, Fail
<1>2. faults' \in Nat
  BY <1>1 DEF Ops, MoreDomains
<1>3. SUFFICES Only(r) /\ OnlyPage(r) /\ OnlyScanned(r) /\ StoreKept
  BY <1>2
<1> DEFINE Plain == \/ End(r)
                    \/ UNCHANGED <<job, seen>>
                    \/ UNCHANGED job /\ \E x : seen' = [seen EXCEPT ![r] = x]
<1>4. CASE ServiceCategories(r) /\ UNCHANGED page
  <2>1. Plain /\ UNCHANGED cacheVars
    BY <1>4 DEF ServiceCategories, CreateCategory, CheckCategory, WriteCategory
  <2>2. QED
    BY <1>4, <2>1, EndOrNot, SameOnly
<1>5. CASE Services(r) /\ UNCHANGED page
  <2>1. CASE BustPublicCache(r) \/ StoreList(r)
    <3>1. End(r) /\ UNCHANGED scanned /\ StoreKept
      BY <2>1 DEF BustPublicCache, StoreList, DelKeys, SetJson, StoreKept, Ops, MoreDomains
    <3>2. QED
      BY <1>5, <3>1, EndOrNot, SameOnly DEF OnlyScanned, Ops, MoreDomains
  <2>2. CASE ~(BustPublicCache(r) \/ StoreList(r))
    <3>1. UNCHANGED cacheVars
      BY <1>5, <2>2 DEF Services, CreateService, CheckService, CheckItems, BeginList,
                  WriteService, Unlink, UnlinkResumes, Relink, AbortRelink,
                  ReadCategories, ReadServices, ReadIncluded
    <3>2. Plain
      BY <1>5, <2>2 DEF Services, CreateService, CheckService, CheckItems, BeginList,
                  WriteService, Unlink, UnlinkResumes, Relink, AbortRelink,
                  ReadCategories, ReadServices, ReadIncluded
    <3>3. QED
      BY <1>5, <3>1, <3>2, EndOrNot, SameOnly
  <2>3. QED
    BY <2>1, <2>2
<1>6. CASE ServiceChildren(r) /\ UNCHANGED page
  <2>1. UNCHANGED cacheVars /\ Plain
    BY <1>6 DEF ServiceChildren, CheckParent, CreateChild, CheckChild, WriteChild
  <2>2. QED
    BY <1>6, <2>1, EndOrNot, SameOnly
<1>7. CASE /\ Resolve(r)
           /\ page' = IF InFlight(r)' THEN page ELSE [page EXCEPT ![r] = NoPage]
  <2>1. OnlyPage(r)
    BY <1>7 DEF Ops, MoreDomains, OnlyPage
  <2>2. \E found, step, total, fixed : Next1(r, found, step, total, fixed)
    BY <1>7 DEF Resolve, ReadService, ReadLink, ReadVariant, ReadAddons
  <2>3. QED
    BY <2>1, <2>2, Next1Only DEF Only
<1>8. CASE (WorkingHours(r) \/ TimeOff(r)) /\ UNCHANGED page
  <2>1. UNCHANGED cacheVars /\ Plain
    BY <1>8 DEF WorkingHours, BeginReplace, DeleteHours, DeleteResumes, InsertHours,
                TimeOff, CreateTimeOff, FindTimeOff, WriteTimeOff, RemoveTimeOff,
                TimeOffGone
  <2>2. QED
    BY <1>8, <2>1, EndOrNot, SameOnly
<1>9. CASE Bookings(r) /\ UNCHANGED page
  <2>1. UNCHANGED cacheVars
    BY <1>9 DEF Bookings, BeginBooking, CancelBooking, ConfirmBooking, MoveBooking,
                CommitBooking, CommitMove
  <2>2. Plain \/ \E a \in Asked[r] : BeginBooking(r, a)
    BY <1>9 DEF Bookings, CancelBooking, ConfirmBooking, MoveBooking, CommitBooking,
                CommitMove
  <2>3. ASSUME NEW a \in Asked[r], BeginBooking(r, a)
        PROVE  Only(r)
    <3>1. job' = [job EXCEPT ![r].staff = a.staff] /\ UNCHANGED seen
      BY <2>3 DEF BeginBooking
    <3>2. OnlyJob(r)
      BY <3>1 DEF Ops, MoreDomains, OnlyJob
    <3>3. QED
      BY <3>1, <3>2, SameOnly DEF Only
  <2>4. QED
    BY <1>9, <2>1, <2>2, <2>3, EndOrNot, SameOnly
<1>10. CASE (ScanPages(r) \/ DelPages(r)) /\ UNCHANGED page
  <2>1. Plain
    BY <1>10 DEF ScanPages, DelPages
  <2>2. OnlyScanned(r) /\ StoreKept
    <3>1. CASE ScanPages(r)
      BY <3>1 DEF ScanPages, Scan, OnlyScanned, StoreKept, Ops, MoreDomains
    <3>2. CASE DelPages(r)
      BY <3>2 DEF DelPages, Del, OnlyScanned, StoreKept, Ops, MoreDomains
    <3>3. QED
      BY <1>10, <3>1, <3>2
  <2>3. QED
    BY <1>10, <2>1, <2>2, EndOrNot, SameOnly
<1>11. CASE Pages(r)
  <2>1. CASE \E a \in Asked[r] : BeginPage(r, a)
    BY <2>1, SameOnly DEF BeginPage, Only
  <2>2. CASE ReadStaff(r) \/ ReadHours(r) \/ ReadBookings(r) \/ ReadTimeOff(r)
    <3>1. OnlyScanned(r) /\ StoreKept /\ OnlySeen(r)
      BY <2>2, SameOnly DEF ReadStaff, ReadHours, ReadBookings, ReadTimeOff
    <3>2. \/ \E todo, done : Turn(r, todo, done)
          \/ UNCHANGED job /\ \E week : page' = [page EXCEPT ![r].week = week]
          \/ UNCHANGED job /\ \E taken : page' = [page EXCEPT ![r].taken = taken]
      BY <2>2 DEF ReadStaff, ReadHours, ReadBookings, ReadTimeOff, TurnAfter
    <3>3. (\E week : page' = [page EXCEPT ![r].week = week]) => OnlyPage(r)
      BY DEF OnlyPage, Ops, MoreDomains
    <3>4. (\E taken : page' = [page EXCEPT ![r].taken = taken]) => OnlyPage(r)
      BY DEF OnlyPage, Ops, MoreDomains
    <3>5. QED
      BY <3>1, <3>2, <3>3, <3>4, TurnOnly, SameOnly DEF Only
  <2>3. CASE StorePage(r)
    <3>1. OnlyPage(r)
      BY <2>3 DEF StorePage, OnlyPage, Ops, MoreDomains
    <3>2. End(r) /\ OnlyScanned(r) /\ StoreKept
      BY <2>3 DEF StorePage, SetJson, OnlyScanned, StoreKept, Ops, MoreDomains
    <3>3. QED
      BY <3>1, <3>2, EndOrNot
  <2>4. QED
    BY <1>11, <2>1, <2>2, <2>3 DEF Pages
<1>12. CASE Fail(r)
  <2>1. OnlyPage(r) /\ OnlyScanned(r) /\ StoreKept /\ End(r)
    BY <1>12 DEF Fail, OnlyPage, OnlyScanned, StoreKept, Ops, MoreDomains
  <2>2. QED
    BY <2>1, EndOrNot
<1>13. CASE DelFails(r) /\ UNCHANGED page
  <2>1. OnlyScanned(r) /\ StoreKept /\ UNCHANGED <<job, seen>>
    BY <1>13 DEF DelFails, OnlyScanned, StoreKept, Ops, MoreDomains
  <2>2. QED
    BY <1>13, <2>1, EndOrNot, SameOnly
<1>14. QED
  BY <1>4, <1>5, <1>6, <1>7, <1>8, <1>9, <1>10, <1>11, <1>12, <1>13 DEF Handle

LEMMA HandleOps ==
  ASSUME Ops, Domains', NEW r \in Request, Handle(r)
  PROVE  OnlyOf(r) /\ Ops'
<1>1. \A q \in Request \ {r} : at'[q] = at[q] /\ ask'[q] = ask[q]
  BY HandleMoves DEF Ops
<1>2. Only(r) /\ OnlyPage(r) /\ OnlyScanned(r) /\ StoreKept /\ faults' \in Nat
  BY HandleOnly
<1>3. OnlyOf(r)
  BY <1>1, <1>2 DEF OnlyOf, Only, OnlyJob, OnlySeen, OnlyPage, OnlyScanned
<1>4. Ops'
  BY <1>2, HandleOk DEF Ops, MoreDomains, Only, OnlyJob, OnlyPage, OnlyScanned, StoreKept
<1>5. QED
  BY <1>3, <1>4

-----------------------------------------------------------------------------
(* What is computed from the tables changes with them only.                *)

LEMMA SameParts ==
  ASSUME UNCHANGED tables, NEW sel, NEW t
  PROVE  /\ Online(sel)' = Online(sel)
         /\ Windows(t)' = Windows(t)
         /\ Off(t)' = Off(t)
         /\ Taken(t)' = Taken(t)
         /\ Resolves(sel, t)' = Resolves(sel, t)
         /\ OwnLength(sel, t)' = OwnLength(sel, t)
         /\ SumOfLengths(sel.addons)' = SumOfLengths(sel.addons)
<1> USE DEF tables, catalogue, calendar
<1>1. Online(sel)' = Online(sel)
  BY DEF Online
<1>2. Windows(t)' = Windows(t)
  BY DEF Windows
<1>3. Off(t)' = Off(t)
  BY DEF Off
<1>4. Taken(t)' = Taken(t)
  BY DEF Taken
<1>5. Resolves(sel, t)' = Resolves(sel, t)
  BY DEF Resolves, Bookable, Live, Offered
<1>6. OwnLength(sel, t)' = OwnLength(sel, t)
  BY DEF OwnLength
<1>7. SumOfLengths(sel.addons)' = SumOfLengths(sel.addons)
  BY DEF SumOfLengths
<1>8. QED
  BY <1>1, <1>2, <1>3, <1>4, <1>5, <1>6, <1>7

LEMMA SameOffer ==
  ASSUME UNCHANGED tables, NEW sel, NEW t
  PROVE  TotalMin(sel, t)' = TotalMin(sel, t) /\ Offer(sel, t)' = Offer(sel, t)
<1>1. TotalMin(sel, t)' = TotalMin(sel, t)
  BY SameParts DEF TotalMin
<1>2. QED
  BY <1>1, SameParts DEF Offer

LEMMA SamePage ==
  ASSUME UNCHANGED tables, NEW sel
  PROVE  PageNow(sel)' = PageNow(sel)
<1>1. Online(sel)' = Online(sel)
  BY SameParts
<1>2. \A t : Resolves(sel, t)' = Resolves(sel, t) /\ Offer(sel, t)' = Offer(sel, t)
  BY SameParts, SameOffer
<1>3. QED
  BY <1>1, <1>2 DEF PageNow

LEMMA SameLists ==
  ASSUME UNCHANGED tables
  PROVE  /\ PublicRows' = PublicRows
         /\ \A rows : Included(rows)' = Included(rows)
         /\ PublicServices' = PublicServices
         /\ PublicCategories' = PublicCategories
<1> USE DEF tables, catalogue
<1>1. PublicRows' = PublicRows
  BY DEF PublicRows, Bookable, Live
<1>2. \A rows : Included(rows)' = Included(rows)
  BY DEF Included, Bookable, Live
<1>3. PublicCategories' = PublicCategories
  BY DEF PublicCategories, Live
<1>4. PublicServices' = PublicServices
  BY <1>1, <1>2 DEF PublicServices, Included, Bookable, Live
<1>5. QED
  BY <1>1, <1>2, <1>3, <1>4

LEMMA SameNow ==
  ASSUME UNCHANGED tables, NEW k
  PROVE  Now(k)' = Now(k)
BY SamePage, SameLists DEF Now

-----------------------------------------------------------------------------
(* What a computation has read.                                            *)

\* A computation that nobody has overtaken has read what is still there.
ListRead(r) ==
  /\ At(r, "services") => ask[r].key = ServicesKey
  /\ At(r, "categories") => ask[r].key = CategoriesKey
  /\ At(r, "included") => ask[r].key = ServicesKey /\ seen[r] = PublicRows
  /\ At(r, "setList") => seen[r] = Now(ask[r].key)

PageSteps == {"service", "link", "variant", "addons", "hours", "bookings", "off"}

\* The members of staff a page is done with.
StaffDone(r) ==
  LET sel == ask[r].key
      todo == page[r].todo
  IN /\ DOMAIN page[r] = {"todo", "done", "week", "taken"}
     /\ DOMAIN job[r] = {"staff", "total", "fixed"}
     /\ job[r].staff \in todo
     /\ todo \subseteq Online(sel)
     /\ page[r].done = [t \in Online(sel) \ todo |-> Offer(sel, t)]
     /\ \A t \in Online(sel) \ todo : Resolves(sel, t)

LinkLength(sel, t) ==
  IF link[t][sel.service].len # NONE THEN link[t][sel.service].len
  ELSE service[sel.service].len

VariantOffered(sel) == sel.variant # NONE => Offered(sel.variant, sel)

\* What is known of member of staff t when a step of the selection is next.
Knows(sel, t, step, total, fixed) ==
  /\ step # "service" => Bookable(service[sel.service])
  /\ step = "link" => total = service[sel.service].len
  /\ step = "variant" =>
       /\ sel.variant # NONE
       /\ total = LinkLength(sel, t)
       /\ fixed = (link[t][sel.service].len # NONE)
  /\ step = "addons" =>
       sel.addons # {} /\ VariantOffered(sel) /\ total = OwnLength(sel, t)
  /\ step \in {"hours", "bookings", "off"} =>
       Resolves(sel, t) /\ total = TotalMin(sel, t)

\* The one at hand.
StaffAtHand(r) ==
  /\ Knows(ask[r].key, job[r].staff, at[r], job[r].total, job[r].fixed)
  /\ at[r] \in {"bookings", "off"} => page[r].week = Windows(job[r].staff)
  /\ At(r, "off") => page[r].taken = Taken(job[r].staff)

PageRead(r) ==
  /\ at[r] \in PageSteps /\ ask[r].op = "page" => StaffDone(r) /\ StaffAtHand(r)
  /\ At(r, "setPage") => page[r].done = Now(ask[r].key)

Reads(r) == overtaken[r] = {} => ListRead(r) /\ PageRead(r)

\* Elsewhere nothing is said.
Elsewhere(r) ==
  /\ at[r] \notin {"services", "categories", "included", "setList", "setPage"}
  /\ at[r] \in PageSteps => ask[r].op # "page"

LEMMA ElsewhereReads ==
  ASSUME NEW r \in Request
  PROVE  /\ Elsewhere(r) => ListRead(r) /\ PageRead(r)
         /\ Elsewhere(r)' => ListRead(r)' /\ PageRead(r)'
BY DEF Elsewhere, ListRead, PageRead, At

LEMMA SameKnows ==
  ASSUME UNCHANGED tables, NEW sel, NEW t, NEW step, NEW total, NEW fixed
  PROVE  Knows(sel, t, step, total, fixed)' = Knows(sel, t, step, total, fixed)
<1>1. /\ Resolves(sel, t)' = Resolves(sel, t)
      /\ TotalMin(sel, t)' = TotalMin(sel, t)
      /\ OwnLength(sel, t)' = OwnLength(sel, t)
  BY SameParts, SameOffer
<1>2. UNCHANGED <<service, link, child>>
  BY DEF tables, catalogue
<1>3. LinkLength(sel, t)' = LinkLength(sel, t) /\ VariantOffered(sel)' = VariantOffered(sel)
  BY <1>2 DEF LinkLength, VariantOffered, Offered, Bookable, Live
<1>4. QED
  BY <1>1, <1>2, <1>3 DEF Knows, Bookable, Live

LEMMA DoneStands ==
  ASSUME NEW r \in Request, UNCHANGED tables, StaffDone(r), ask'[r] = ask[r],
         DOMAIN page'[r] = DOMAIN page[r], DOMAIN job'[r] = DOMAIN job[r],
         page'[r].todo = page[r].todo, page'[r].done = page[r].done,
         job'[r].staff = job[r].staff
  PROVE  StaffDone(r)'
<1> DEFINE sel == ask[r].key
<1>1. Online(sel)' = Online(sel)
  BY SameParts
<1>2. \A u : Resolves(sel, u)' = Resolves(sel, u) /\ Offer(sel, u)' = Offer(sel, u)
  BY SameParts, SameOffer
<1>3. QED
  BY <1>1, <1>2 DEF StaffDone

\* What is said of a computation that does not move stays true as long as
\* the tables do.
LEMMA ReadsStand ==
  ASSUME NEW r \in Request, UNCHANGED tables, ListRead(r), PageRead(r),
         at'[r] = at[r], ask'[r] = ask[r], seen'[r] = seen[r], job'[r] = job[r],
         page'[r] = page[r]
  PROVE  ListRead(r)' /\ PageRead(r)'
<1>1. ListRead(r)'
  <2>1. PublicRows' = PublicRows /\ Now(ask[r].key)' = Now(ask[r].key)
    BY SameLists, SameNow
  <2>2. QED
    BY <2>1, SameNow DEF ListRead, At
<1>2. CASE at[r] \in PageSteps /\ ask[r].op = "page"
  <2>1. StaffDone(r) /\ StaffAtHand(r)
    BY <1>2 DEF PageRead
  <2>2. StaffDone(r)'
    BY <2>1, DoneStands
  <2>3. StaffAtHand(r)'
    <3>1. \A t : Windows(t)' = Windows(t) /\ Taken(t)' = Taken(t)
      BY SameParts
    <3>2. Knows(ask[r].key, job[r].staff, at[r], job[r].total, job[r].fixed)'
      BY <2>1, SameKnows DEF StaffAtHand
    <3>3. QED
      BY <2>1, <3>1, <3>2 DEF StaffAtHand, At
  <2>4. QED
    BY <1>1, <1>2, <2>2, <2>3 DEF PageRead, At, PageSteps
<1>3. CASE ~(at[r] \in PageSteps /\ ask[r].op = "page")
  <2>1. Now(ask[r].key)' = Now(ask[r].key)
    BY SameNow
  <2>2. QED
    BY <1>1, <1>3, <2>1 DEF PageRead, At
<1>4. QED
  BY <1>1, <1>2, <1>3

-----------------------------------------------------------------------------
(* What a step of a computation reads.                                     *)

LEMMA InputKeys ==
  ASSUME NEW r \in Request, NEW a \in Asked[r]
  PROVE  /\ a.op = "page" => a.key \in PageKey
         /\ a.op = "list" => a.key \in {ServicesKey, CategoriesKey}
BY AvailabilityAssumption
   DEF AvailabilityAssumption, CatalogueInput, AvailabilityQueryDto, CalendarInput,
       ServiceOps

LEMMA NowOf ==
  /\ Now(ServicesKey) = PublicServices
  /\ Now(CategoriesKey) = PublicCategories
  /\ \A k \in PageKey : Now(k) = PageNow(k)
BY AvailabilityAssumption DEF AvailabilityAssumption, Now

\* A page is complete, or goes on with a member of staff.
LEMMA TurnReads ==
  ASSUME Ops, NEW r \in Request, UNCHANGED tables, ask[r].key \in PageKey,
         NEW todo, NEW done, Turn(r, todo, done),
         todo \subseteq Online(ask[r].key),
         done = [t \in Online(ask[r].key) \ todo |-> Offer(ask[r].key, t)],
         \A t \in Online(ask[r].key) \ todo : Resolves(ask[r].key, t)
  PROVE  ListRead(r)' /\ PageRead(r)'
<1> DEFINE sel == ask[r].key
<1>1. /\ page'[r] = [NoPage EXCEPT !.todo = todo, !.done = done]
      /\ ask'[r] = ask[r]
  BY DEF Turn, Goto, Ops, MoreDomains
<1>2. /\ DOMAIN page'[r] = {"todo", "done", "week", "taken"}
      /\ page'[r].todo = todo /\ page'[r].done = done
  BY <1>1 DEF NoPage
<1>3. CASE todo = {}
  <2>1. at'[r] = "setPage"
    BY <1>3 DEF Turn, Goto, Ops, Domains
  <2>2. done = Now(sel)
    <3>1. done = PageNow(sel)
      BY <1>3 DEF PageNow
    <3>2. QED
      BY <3>1, NowOf
  <2>3. page'[r].done = Now(ask[r].key)'
    BY <1>1, <1>2, <2>2, SameNow
  <2>4. QED
    BY <2>1, <2>3 DEF ListRead, PageRead, At, PageSteps
<1>4. CASE todo # {}
  <2>1. PICK t \in todo : job' = [job EXCEPT ![r] = [NoJob EXCEPT !.staff = t]]
    BY <1>4 DEF Turn
  <2>2. at'[r] = "service"
    BY <1>4 DEF Turn, Goto, Ops, Domains
  <2>3. DOMAIN job'[r] = {"staff", "total", "fixed"} /\ job'[r].staff = t
    BY <2>1 DEF Ops, MoreDomains, NoJob
  <2>4. StaffDone(r)'
    <3>1. Online(ask[r].key)' = Online(ask[r].key)
      BY <1>1, SameParts
    <3>2. \A u : /\ Resolves(ask[r].key, u)' = Resolves(ask[r].key, u)
                 /\ Offer(ask[r].key, u)' = Offer(ask[r].key, u)
      BY <1>1, SameParts, SameOffer
    <3>3. QED
      BY <1>1, <1>2, <2>1, <2>3, <3>1, <3>2 DEF StaffDone
  <2>5. StaffAtHand(r)'
    BY <2>2 DEF StaffAtHand, Knows, At
  <2>6. QED
    BY <2>2, <2>4, <2>5 DEF ListRead, PageRead, At, PageSteps
<1>5. QED
  BY <1>3, <1>4

\* A query of the selection goes on with the next one.
LEMMA QueryReads ==
  ASSUME Ops, NEW r \in Request, UNCHANGED tables, StaffDone(r), UNCHANGED page,
         NEW step \in {"link", "variant", "addons", "hours"}, NEW total, NEW fixed,
         Goto(r, step), job' = [job EXCEPT ![r].total = total, ![r].fixed = fixed],
         Knows(ask[r].key, job[r].staff, step, total, fixed)
  PROVE  ListRead(r)' /\ PageRead(r)'
<1>1. at'[r] = step /\ ask'[r] = ask[r]
  BY DEF Goto, Ops, Domains
<1>2. /\ DOMAIN job'[r] = DOMAIN job[r] /\ job'[r].staff = job[r].staff
      /\ job'[r].total = total /\ job'[r].fixed = fixed
  BY DEF StaffDone, Ops, MoreDomains
<1>3. StaffDone(r)'
  BY <1>1, <1>2, DoneStands
<1>4. Knows(ask[r].key, job[r].staff, step, total, fixed)'
  BY SameKnows, <1>1, <1>2
<1>5. StaffAtHand(r)'
  BY <1>1, <1>2, <1>4 DEF StaffAtHand, At
<1>6. QED
  BY <1>1, <1>3, <1>5 DEF ListRead, PageRead, At, PageSteps

\* What the query of a selection leaves.
LEMMA Next1Reads ==
  ASSUME Ops, NEW r \in Request, UNCHANGED calendar, StaffDone(r),
         page' = IF InFlight(r)' THEN page ELSE [page EXCEPT ![r] = NoPage],
         NEW found, NEW step \in {"link", "variant", "addons", "hours"},
         NEW total, NEW fixed, Next1(r, found, step, total, fixed),
         found => Knows(ask[r].key, job[r].staff, step, total, fixed)
  PROVE  ListRead(r)' /\ PageRead(r)'
<1>1. CASE found
  <2>1. /\ Goto(r, step) /\ UNCHANGED tables
        /\ job' = [job EXCEPT ![r].total = total, ![r].fixed = fixed]
    BY <1>1 DEF Next1, tables
  <2>2. at'[r] = step
    BY <2>1 DEF Goto, Ops, Domains
  <2>3. UNCHANGED page
    BY <2>2 DEF InFlight
  <2>4. QED
    BY <1>1, <2>1, <2>3, QueryReads
<1>2. CASE ~found
  <2>1. at'[r] = "done"
    BY <1>2 DEF Next1, End, Ops, Domains
  <2>2. Elsewhere(r)'
    BY <2>1 DEF Elsewhere, PageSteps
  <2>3. QED
    BY <2>2, ElsewhereReads
<1>3. QED
  BY <1>1, <1>2

LEMMA ResolveReads ==
  ASSUME Ops, NEW r \in Request, Resolve(r), UNCHANGED calendar, ask[r].op = "page",
         page' = IF InFlight(r)' THEN page ELSE [page EXCEPT ![r] = NoPage],
         PageRead(r)
  PROVE  ListRead(r)' /\ PageRead(r)'
<1> DEFINE sel == ask[r].key
           t == job[r].staff
           mine == link[t][sel.service]
<1>1. /\ at[r] \in {"service", "link", "variant", "addons"}
      /\ Selection(r) = sel /\ Resolved(r) = "hours"
  BY DEF Resolve, ReadService, ReadLink, ReadVariant, ReadAddons, At, Selection, Resolved
<1>2. StaffDone(r) /\ Knows(sel, t, at[r], job[r].total, job[r].fixed)
  BY <1>1 DEF PageRead, PageSteps, StaffAtHand
<1>3. t \in Online(sel)
  BY <1>2 DEF StaffDone
<1>4. mine # NONE /\ mine.active /\ mine.online
  BY <1>3 DEF Online
<1>5. /\ AfterVariant(r) = IF sel.addons # {} THEN "addons" ELSE "hours"
      /\ AfterLink(r) = IF sel.variant # NONE THEN "variant" ELSE AfterVariant(r)
  BY <1>1 DEF AfterVariant, AfterLink
<1>6. CASE ReadService(r)
  <2>1. Next1(r, Bookable(service[sel.service]), "link", service[sel.service].len, FALSE)
    BY <1>1, <1>6 DEF ReadService
  <2>2. Bookable(service[sel.service]) =>
          Knows(sel, t, "link", service[sel.service].len, FALSE)
    BY DEF Knows
  <2>3. QED
    BY <1>2, <2>1, <2>2, Next1Reads
<1>7. CASE ReadLink(r)
  <2> DEFINE total == IF mine.len # NONE THEN mine.len ELSE job[r].total
  <2>1. Next1(r, mine # NONE /\ mine.active /\ mine.online, AfterLink(r), total,
              mine.len # NONE)
    BY <1>1, <1>7, ZenonT(40) DEF ReadLink
  <2>2. Bookable(service[sel.service]) /\ total = LinkLength(sel, t)
    BY <1>2, <1>7, ZenonT(40) DEF ReadLink, Knows, At, LinkLength
  <2>3. Knows(sel, t, AfterLink(r), total, mine.len # NONE)
    <3>1. CASE sel.variant # NONE
      BY <1>5, <2>2, <3>1, SMTT(30) DEF Knows
    <3>2. CASE sel.variant = NONE
      <4>1. OwnLength(sel, t) = LinkLength(sel, t) /\ VariantOffered(sel)
        BY <3>2, SMTT(30) DEF OwnLength, LinkLength, VariantOffered
      <4>2. CASE sel.addons # {}
        BY <1>5, <2>2, <3>2, <4>1, <4>2, SMTT(30) DEF Knows
      <4>3. CASE sel.addons = {}
        <5>1. Resolves(sel, t) /\ TotalMin(sel, t) = OwnLength(sel, t)
          BY <1>4, <2>2, <3>2, <4>3 DEF Resolves, TotalMin
        <5>2. QED
          BY <1>5, <2>2, <3>2, <4>1, <4>3, <5>1, SMTT(30) DEF Knows
      <4>4. QED
        BY <4>2, <4>3
    <3>3. QED
      BY <3>1, <3>2, SMTT(30)
  <2>4. AfterLink(r) \in {"link", "variant", "addons", "hours"}
    BY <1>5
  <2>5. QED
    BY <1>2, <2>1, <2>3, <2>4, Next1Reads, ZenonT(40)
<1>8. CASE ReadVariant(r)
  <2> DEFINE total == IF job[r].fixed THEN job[r].total ELSE child[sel.variant].len
  <2>1. Next1(r, Offered(sel.variant, sel), AfterVariant(r), total, job[r].fixed)
    BY <1>1, <1>8 DEF ReadVariant
  <2>2. /\ Bookable(service[sel.service]) /\ sel.variant # NONE
        /\ job[r].total = LinkLength(sel, t) /\ job[r].fixed = (mine.len # NONE)
    BY <1>2, <1>8, SMTT(30) DEF ReadVariant, Knows, At
  <2>3. total = OwnLength(sel, t)
    BY <2>2 DEF LinkLength, OwnLength
  <2>4. ASSUME Offered(sel.variant, sel)
        PROVE  Knows(sel, t, AfterVariant(r), total, job[r].fixed)
    <3>1. CASE sel.addons # {}
      BY <1>5, <2>2, <2>3, <2>4, <3>1 DEF Knows, VariantOffered
    <3>2. CASE sel.addons = {}
      <4>1. Resolves(sel, t) /\ TotalMin(sel, t) = OwnLength(sel, t)
        BY <1>4, <2>2, <2>4, <3>2 DEF Resolves, TotalMin
      <4>2. QED
        BY <1>5, <2>2, <2>3, <3>2, <4>1, SMTT(30) DEF Knows
    <3>3. QED
      BY <3>1, <3>2
  <2>5. AfterVariant(r) \in {"link", "variant", "addons", "hours"}
    BY <1>5
  <2>6. QED
    BY <1>2, <2>1, <2>4, <2>5, Next1Reads
<1>9. CASE ReadAddons(r)
  <2> DEFINE total == job[r].total + SumOfLengths(sel.addons)
  <2>1. Next1(r, \A x \in sel.addons : Offered(x, sel), "hours", total, job[r].fixed)
    BY <1>1, <1>9 DEF ReadAddons
  <2>2. /\ Bookable(service[sel.service]) /\ sel.addons # {} /\ VariantOffered(sel)
        /\ job[r].total = OwnLength(sel, t)
    BY <1>2, <1>9 DEF ReadAddons, Knows, At
  <2>3. total = TotalMin(sel, t)
    BY <2>2 DEF TotalMin
  <2>4. (\A x \in sel.addons : Offered(x, sel)) => Resolves(sel, t)
    BY <1>4, <2>2 DEF Resolves, VariantOffered
  <2>5. (\A x \in sel.addons : Offered(x, sel)) =>
          Knows(sel, t, "hours", total, job[r].fixed)
    BY <2>2, <2>3, <2>4 DEF Knows
  <2>6. QED
    BY <1>2, <2>1, <2>5, Next1Reads
<1>10. QED
  BY <1>6, <1>7, <1>8, <1>9, SMTT(30) DEF Resolve

\* The member of staff at hand is done, with the slots of now.
LEMMA ResultDone ==
  ASSUME NEW r \in Request, StaffDone(r), NEW slots,
         Resolves(ask[r].key, job[r].staff),
         job[r].total = TotalMin(ask[r].key, job[r].staff),
         slots = Offer(ask[r].key, job[r].staff).slots
  PROVE  LET sel == ask[r].key
             todo == page[r].todo \ {job[r].staff}
         IN /\ todo \subseteq Online(sel)
            /\ Result(r, slots) = [t \in Online(sel) \ todo |-> Offer(sel, t)]
            /\ \A t \in Online(sel) \ todo : Resolves(sel, t)
<1> DEFINE sel == ask[r].key
           mine == job[r].staff
           todo == page[r].todo \ {mine}
           old == [t \in Online(sel) \ page[r].todo |-> Offer(sel, t)]
<1>1. /\ mine \in page[r].todo /\ page[r].todo \subseteq Online(sel)
      /\ page[r].done = old
      /\ \A t \in Online(sel) \ page[r].todo : Resolves(sel, t)
  BY DEF StaffDone
<1>2. DOMAIN page[r].done \cup {mine} = Online(sel) \ todo
  BY <1>1
<1>3. [total |-> job[r].total, slots |-> slots] = Offer(sel, mine)
  BY DEF Offer
<1>4. \A t \in Online(sel) \ todo : t # mine => page[r].done[t] = Offer(sel, t)
  BY <1>1
<1>5. Result(r, slots) = [t \in Online(sel) \ todo |-> Offer(sel, t)]
  BY <1>2, <1>3, <1>4 DEF Result
<1>6. QED
  BY <1>1, <1>5

\* The steps about which something is said.
Said == {"services", "categories", "included", "setList", "setPage"} \cup PageSteps

LEMMA Leaves ==
  ASSUME Ops, NEW r \in Request,
         \/ End(r)
         \/ \E step : Goto(r, step) /\ step \notin Said
         \/ \E a, first : Begin(r, a, first) /\ first \notin Said
  PROVE  ListRead(r)' /\ PageRead(r)'
<1>1. at'[r] \notin Said
  BY DEF End, Goto, Begin, Ops, Domains, Said, PageSteps
<1>2. Elsewhere(r)'
  BY <1>1 DEF Elsewhere, Said
<1>3. QED
  BY <1>2, ElsewhereReads

LEMMA PagesReads ==
  ASSUME Ops, NEW r \in Request, Pages(r), PageRead(r)
  PROVE  ListRead(r)' /\ PageRead(r)'
<1> DEFINE sel == ask[r].key
           mine == job[r].staff
<1>1. at[r] \in {"staff", "hours", "bookings", "off"} =>
        ask[r].op = "page" /\ sel \in PageKey
  BY InputKeys DEF Ops, OpOk, OpsAt
<1>2. at[r] \in {"hours", "bookings", "off"} =>
        /\ StaffDone(r)
        /\ Resolves(sel, mine) /\ job[r].total = TotalMin(sel, mine)
        /\ at[r] # "hours" => page[r].week = Windows(mine)
        /\ at[r] = "off" => page[r].taken = Taken(mine)
  BY <1>1 DEF PageRead, StaffAtHand, Knows, PageSteps, At
<1>3. ASSUME NEW slots, at[r] \in {"hours", "off"}, TurnAfter(r, slots), UNCHANGED tables,
             slots = Offer(sel, mine).slots
      PROVE  ListRead(r)' /\ PageRead(r)'
  <2>1. /\ page[r].todo \ {mine} \subseteq Online(sel)
        /\ Result(r, slots) =
             [t \in Online(sel) \ (page[r].todo \ {mine}) |-> Offer(sel, t)]
        /\ \A t \in Online(sel) \ (page[r].todo \ {mine}) : Resolves(sel, t)
    BY <1>2, <1>3, ResultDone
  <2>2. QED
    BY <1>1, <1>3, <2>1, TurnReads DEF TurnAfter
<1>4. CASE \E a \in Asked[r] : BeginPage(r, a)
  <2>1. \E a, first : Begin(r, a, first) /\ first \notin Said
    BY <1>4 DEF BeginPage, Said, PageSteps
  <2>2. QED
    BY <2>1, Leaves
<1>5. CASE ReadStaff(r)
  <2>1. Turn(r, Online(sel), NoOffer) /\ UNCHANGED tables /\ sel \in PageKey
    BY <1>1, <1>5 DEF ReadStaff, At
  <2>2. NoOffer = [t \in Online(sel) \ Online(sel) |-> Offer(sel, t)]
    BY DEF NoOffer
  <2>3. QED
    BY <2>1, <2>2, TurnReads
<1>6. CASE ReadHours(r)
  <2> DEFINE week == Windows(mine)
  <2>1. CASE week = {}
    <3>1. TurnAfter(r, {}) /\ UNCHANGED tables /\ at[r] = "hours"
      BY <1>6, <2>1 DEF ReadHours, At
    <3>2. Slots(week, Taken(mine) \cup Off(mine), TotalMin(sel, mine)) = {}
      BY <2>1 DEF Slots
    <3>3. QED
      BY <1>3, <3>1, <3>2 DEF Offer
  <2>2. CASE week # {}
    <3>1. /\ at[r] = "hours" /\ page' = [page EXCEPT ![r].week = week]
          /\ Goto(r, "bookings") /\ UNCHANGED <<job, tables>>
      BY <1>6, <2>2 DEF ReadHours, At
    <3>2. /\ at'[r] = "bookings" /\ ask'[r] = ask[r]
          /\ DOMAIN page'[r] = DOMAIN page[r] /\ page'[r].week = week
          /\ page'[r].todo = page[r].todo /\ page'[r].done = page[r].done
      BY <1>2, <3>1 DEF Goto, Ops, Domains, MoreDomains, StaffDone
    <3>3. StaffDone(r)'
      BY <1>2, <3>1, <3>2, DoneStands, SMTT(30)
    <3>4. Knows(sel, mine, "bookings", job[r].total, job[r].fixed)
      BY <1>2, <3>1 DEF Knows, Resolves
    <3>5. Knows(sel, mine, "bookings", job[r].total, job[r].fixed)'
      BY <3>1, <3>2, <3>4, SameKnows
    <3>6. Windows(mine)' = Windows(mine)
      BY <3>1, SameParts
    <3>7. QED
      BY <3>1, <3>2, <3>3, <3>5, <3>6
         DEF ListRead, PageRead, StaffAtHand, At, PageSteps
  <2>3. QED
    BY <2>1, <2>2
<1>7. CASE ReadBookings(r)
  <2>1. /\ at[r] = "bookings" /\ page' = [page EXCEPT ![r].taken = Taken(mine)]
        /\ Goto(r, "off") /\ UNCHANGED <<job, tables>>
    BY <1>7 DEF ReadBookings, At
  <2>2. /\ at'[r] = "off" /\ ask'[r] = ask[r]
        /\ DOMAIN page'[r] = DOMAIN page[r]
        /\ page'[r].week = Windows(mine) /\ page'[r].taken = Taken(mine)
        /\ page'[r].todo = page[r].todo /\ page'[r].done = page[r].done
    BY <1>2, <2>1 DEF Goto, Ops, Domains, MoreDomains, StaffDone
  <2>3. StaffDone(r)'
    BY <1>2, <2>1, <2>2, DoneStands, SMTT(30)
  <2>4. Knows(sel, mine, "off", job[r].total, job[r].fixed)
    BY <1>2, <2>1 DEF Knows, Resolves
  <2>5. Knows(sel, mine, "off", job[r].total, job[r].fixed)'
    BY <2>1, <2>2, <2>4, SameKnows
  <2>6. Windows(mine)' = Windows(mine) /\ Taken(mine)' = Taken(mine)
    BY <2>1, SameParts
  <2>7. QED
    BY <2>1, <2>2, <2>3, <2>5, <2>6 DEF ListRead, PageRead, StaffAtHand, At, PageSteps
<1>8. CASE ReadTimeOff(r)
  <2>1. /\ at[r] = "off" /\ UNCHANGED tables
        /\ TurnAfter(r, Slots(page[r].week, page[r].taken \cup Off(mine), job[r].total))
    BY <1>8 DEF ReadTimeOff, At
  <2>2. Slots(page[r].week, page[r].taken \cup Off(mine), job[r].total)
          = Offer(sel, mine).slots
    BY <1>2, <2>1 DEF Offer
  <2>3. QED
    BY <1>3, <2>1, <2>2
<1>9. CASE StorePage(r)
  BY <1>9, Leaves DEF StorePage
<1>10. QED
  BY <1>4, <1>5, <1>6, <1>7, <1>8, <1>9 DEF Pages

LEMMA ListReads ==
  ASSUME Ops, NEW r \in Request, ListRead(r), UNCHANGED calendar,
         \/ \E a \in Asked[r] : BeginList(r, a)
         \/ ReadCategories(r) \/ ReadServices(r) \/ ReadIncluded(r) \/ StoreList(r)
  PROVE  ListRead(r)' /\ PageRead(r)'
<1>1. CASE \E a \in Asked[r] : BeginList(r, a)
  <2>1. PICK a \in Asked[r] : BeginList(r, a)
    BY <1>1
  <2>2. a.key \in {ServicesKey, CategoriesKey}
    BY <2>1, InputKeys DEF BeginList
  <2>3. /\ ask'[r] = a
        /\ at'[r] = IF a.key = ServicesKey THEN "services" ELSE "categories"
    BY <2>1 DEF BeginList, Begin, Ops, Domains
  <2>4. QED
    BY <2>2, <2>3 DEF ListRead, PageRead, At, PageSteps
<1>2. CASE ReadCategories(r) \/ ReadServices(r) \/ ReadIncluded(r)
  <2>1. UNCHANGED tables /\ ask'[r] = ask[r]
    BY <1>2 DEF ReadCategories, ReadServices, ReadIncluded, tables, Goto
  <2>2. /\ PublicRows' = PublicRows
        /\ Now(ServicesKey)' = PublicServices
        /\ Now(CategoriesKey)' = PublicCategories
    BY <2>1, SameLists, SameNow, NowOf
  <2>3. CASE ReadCategories(r)
    <3>1. /\ seen'[r] = PublicCategories /\ at'[r] = "setList"
          /\ ask[r].key = CategoriesKey
      BY <2>3 DEF ReadCategories, Goto, Ops, Domains, ListRead
    <3>2. QED
      BY <2>1, <2>2, <3>1 DEF ListRead, PageRead, At, PageSteps
  <2>4. CASE ReadServices(r)
    <3>1. seen'[r] = PublicRows /\ at'[r] = "included" /\ ask[r].key = ServicesKey
      BY <2>4 DEF ReadServices, Goto, Ops, Domains, ListRead
    <3>2. QED
      BY <2>1, <2>2, <3>1 DEF ListRead, PageRead, At, PageSteps
  <2>5. CASE ReadIncluded(r)
    <3>1. /\ seen'[r] = Included(PublicRows) /\ at'[r] = "setList"
          /\ ask[r].key = ServicesKey
      BY <2>5 DEF ReadIncluded, Goto, Ops, Domains, ListRead
    <3>2. QED
      BY <2>1, <2>2, <3>1 DEF ListRead, PageRead, At, PageSteps, PublicServices
  <2>6. QED
    BY <1>2, <2>3, <2>4, <2>5
<1>3. CASE StoreList(r)
  BY <1>3, Leaves DEF StoreList
<1>4. QED
  BY <1>1, <1>2, <1>3

\* What a request has read stands after its own step.
LEMMA HandleReads ==
  ASSUME Ops, NEW r \in Request, Handle(r), ListRead(r), PageRead(r)
  PROVE  ListRead(r)' /\ PageRead(r)'
<1> DEFINE Left == \/ End(r)
                   \/ \E step : Goto(r, step) /\ step \notin Said
                   \/ \E a, first : Begin(r, a, first) /\ first \notin Said
<1>1. CASE ServiceCategories(r) \/ ServiceChildren(r)
  <2>1. Left
    BY <1>1 DEF ServiceCategories, CreateCategory, CheckCategory, WriteCategory,
                ServiceChildren, CheckParent, CreateChild, CheckChild, WriteChild,
                Said, PageSteps
  <2>2. QED
    BY <2>1, Leaves
<1>2. CASE Services(r) /\ UNCHANGED calendar
  <2>1. \/ Left
        \/ \E a \in Asked[r] : BeginList(r, a)
        \/ ReadCategories(r) \/ ReadServices(r) \/ ReadIncluded(r) \/ StoreList(r)
    BY <1>2, SMTT(30) DEF Services, CreateService, CheckService, CheckItems, WriteService,
                BustPublicCache, Unlink, UnlinkResumes, Relink, AbortRelink,
                Said, PageSteps
  <2>2. QED
    BY <1>2, <2>1, Leaves, ListReads
<1>3. CASE /\ Resolve(r) /\ UNCHANGED calendar
           /\ page' = IF InFlight(r)' THEN page ELSE [page EXCEPT ![r] = NoPage]
  <2>1. CASE ask[r].op = "page"
    BY <1>3, <2>1, ResolveReads
  <2>2. CASE ask[r].op # "page"
    <3>1. \/ End(r)
          \/ \E step : Goto(r, step) /\ step \in {"link", "variant", "addons", "commit"}
      BY <1>3, <2>2
         DEF Resolve, ReadService, ReadLink, ReadVariant, ReadAddons, Next1,
             AfterLink, AfterVariant, Resolved
    <3>2. CASE \E step : /\ Goto(r, step)
                         /\ step \in {"link", "variant", "addons", "commit"}
      <4>1. /\ at'[r] \in {"link", "variant", "addons", "commit"}
            /\ ask'[r] = ask[r]
        BY <3>2 DEF Goto, Ops, Domains
      <4>2. Elsewhere(r)'
        BY <2>2, <4>1 DEF Elsewhere
      <4>3. QED
        BY <4>2, ElsewhereReads
    <3>3. QED
      BY <3>1, <3>2, Leaves
  <2>3. QED
    BY <2>1, <2>2
<1>4. CASE WorkingHours(r) \/ TimeOff(r) \/ ScanPages(r) \/ DelPages(r)
  <2>1. WorkingHours(r) => Left
    BY DEF WorkingHours, BeginReplace, DeleteHours, DeleteResumes, InsertHours,
           Said, PageSteps
  <2>2. TimeOff(r) => Left
    <3>1. TimeOff(r) => \/ End(r)
                        \/ Goto(r, "scan")
                        \/ \E a : Begin(r, a, "scan") \/ Begin(r, a, "timeOff")
      BY DEF TimeOff, CreateTimeOff, FindTimeOff, WriteTimeOff, RemoveTimeOff,
             TimeOffGone
    <3>2. "scan" \notin Said /\ "timeOff" \notin Said
      BY DEF Said, PageSteps
    <3>3. QED
      BY <3>1, <3>2
  <2>3. ScanPages(r) \/ DelPages(r) => Left
    BY DEF ScanPages, DelPages, Said, PageSteps
  <2>4. QED
    BY <1>4, <2>1, <2>2, <2>3, Leaves
<1>5. CASE Bookings(r)
  <2>1. CASE \E a \in Asked[r] : BeginBooking(r, a)
    <3>1. ask'[r].op = "book" /\ at'[r] = "service"
      BY <2>1 DEF BeginBooking, Begin, Ops, Domains
    <3>2. Elsewhere(r)'
      BY <3>1 DEF Elsewhere
    <3>3. QED
      BY <3>2, ElsewhereReads
  <2>2. CASE ~\E a \in Asked[r] : BeginBooking(r, a)
    <3>1. \A a \in Asked[r] :
            CancelBooking(r, a) \/ ConfirmBooking(r, a) \/ MoveBooking(r, a) => Left
      <4>1. \A a \in Asked[r] :
              CancelBooking(r, a) \/ ConfirmBooking(r, a) \/ MoveBooking(r, a)
                => Begin(r, a, "scan")
        BY DEF CancelBooking, ConfirmBooking, MoveBooking
      <4>2. "scan" \notin Said
        BY DEF Said, PageSteps
      <4>3. QED
        BY <4>1, <4>2
    <3>2. CommitBooking(r) \/ CommitMove(r) => Left
      BY DEF CommitBooking, CommitMove, Said, PageSteps
    <3>3. QED
      BY <1>5, <2>2, <3>1, <3>2, Leaves DEF Bookings
  <2>3. QED
    BY <2>1, <2>2
<1>6. CASE Pages(r)
  BY <1>6, PagesReads
<1>7. CASE Fail(r) \/ DelFails(r)
  <2>1. Left
    BY <1>7 DEF Fail, DelFails, Said, PageSteps
  <2>2. QED
    BY <2>1, Leaves
<1>8. QED
  BY <1>1, <1>2, <1>3, <1>4, <1>5, <1>6, <1>7 DEF Handle

\* A commit of somebody else is on the record of every computation.
LEMMA ReadsStep ==
  ASSUME Ops, Domains', NEW r \in Request, Handle(r), Remember(r),
         \A q \in Request : Reads(q)
  PROVE  \A q \in Request : Reads(q)'
<1> SUFFICES ASSUME NEW q \in Request, overtaken'[q] = {}
             PROVE  ListRead(q)' /\ PageRead(q)'
  BY DEF Reads
<1>1. overtaken'[q] = IF ~InFlight(q)' THEN {}
                      ELSE IF q # r /\ InFlight(q) /\ tables' # tables
                             THEN overtaken[q] \cup {r}
                      ELSE overtaken[q]
  BY DEF Remember
<1>2. CASE ~InFlight(q)'
  <2>1. Elsewhere(q)'
    BY <1>2 DEF InFlight, Elsewhere, PageSteps
  <2>2. QED
    BY <2>1, ElsewhereReads
<1>3. CASE InFlight(q)' /\ q = r
  <2>1. ListRead(r) /\ PageRead(r)
    BY <1>1, <1>3 DEF Reads
  <2>2. QED
    BY <1>3, <2>1, HandleReads
<1>4. CASE InFlight(q)' /\ q # r
  <2>1. /\ at'[q] = at[q] /\ ask'[q] = ask[q] /\ seen'[q] = seen[q]
        /\ job'[q] = job[q] /\ page'[q] = page[q]
    BY <1>4, HandleOps DEF OnlyOf
  <2>2. InFlight(q)
    BY <1>4, <2>1 DEF InFlight
  <2>3. UNCHANGED tables /\ overtaken[q] = {}
    BY <1>1, <1>4, <2>2
  <2>4. ListRead(q) /\ PageRead(q)
    BY <2>3 DEF Reads
  <2>5. QED
    BY <2>1, <2>3, <2>4, ReadsStand
<1>5. QED
  BY <1>2, <1>3, <1>4

-----------------------------------------------------------------------------
(* What is cached.                                                         *)

\* Request r will delete k, or fail to.
Deletes(r, k) ==
  /\ \/ At(r, "bust") \/ At(r, "scan")
     \/ At(r, "del") /\ k \in scanned[r]
  /\ k \in Covers(ask[r])

Explained(k) ==
  cached[k] # MISS =>
    \/ k \in excused
    \/ \E r \in Request : Deletes(r, k)
    \/ cached[k].json = Now(k)

\* A deletion deletes.
LEMMA DeletionDeletes ==
  ASSUME Ops, NEW r \in Request, Handle(r), NEW k \in Key, Deletes(r, k),
         cached'[k] # MISS, cached[k] # MISS
  PROVE  faults' # faults \/ Deletes(r, k)'
<1> USE DEF At
<1>1. at[r] \in {"bust", "scan", "del"} /\ k \in Covers(ask[r])
  BY DEF Deletes
<1>2. \/ BustPublicCache(r) \/ ScanPages(r) \/ DelPages(r)
      \/ Fail(r)
      \/ DelFails(r) /\ faults' = faults + 1
  <2>1. ~ServiceCategories(r) /\ ~ServiceChildren(r) /\ ~Resolve(r)
    BY <1>1 DEF ServiceCategories, CreateCategory, CheckCategory, WriteCategory, Begin,
                ServiceChildren, CheckParent, CreateChild, CheckChild, WriteChild,
                Resolve, ReadService, ReadLink, ReadVariant, ReadAddons
  <2>2. Services(r) => BustPublicCache(r)
    BY <1>1 DEF Services, CreateService, CheckService, CheckItems, BeginList, Begin,
                WriteService, Unlink, UnlinkResumes, Relink, AbortRelink,
                ReadCategories, ReadServices, ReadIncluded, StoreList
  <2>3. ~WorkingHours(r) /\ ~TimeOff(r)
    BY <1>1 DEF WorkingHours, BeginReplace, DeleteHours, DeleteResumes, InsertHours, Begin,
                TimeOff, CreateTimeOff, FindTimeOff, WriteTimeOff, RemoveTimeOff,
                TimeOffGone
  <2>4. ~Bookings(r) /\ ~Pages(r)
    BY <1>1 DEF Bookings, BeginBooking, CancelBooking, ConfirmBooking, MoveBooking, Begin,
                CommitBooking, CommitMove, Pages, BeginPage, ReadStaff, ReadHours,
                ReadBookings, ReadTimeOff, StorePage
  <2>5. QED
    BY <2>1, <2>2, <2>3, <2>4 DEF Handle
<1>3. CASE Fail(r) \/ (DelFails(r) /\ faults' = faults + 1)
  BY <1>3 DEF Fail, Ops, MoreDomains
<1>4. CASE BustPublicCache(r)
  <2>1. ask[r].op \in CatalogueOps
    BY <1>4 DEF BustPublicCache, Ops, OpOk, OpsAt
  <2>2. k \in {CategoriesKey, ServicesKey}
    BY <1>1, <2>1 DEF Covers, CatalogueOps, CategoryOps, ServiceOps
  <2>3. cached'[k] = MISS
    BY <1>4, <2>2 DEF BustPublicCache, DelKeys
  <2>4. QED
    BY <2>3
<1>5. CASE ScanPages(r)
  <2>1. ask[r].op \in OffOps \cup BookingOps
    BY <1>5 DEF ScanPages, Ops, OpOk, OpsAt
  <2>2. k \in Prefix(r)
    BY <1>1, <2>1 DEF Covers, Prefix, OffOps, BookingOps, ServiceOps
  <2>3. k \in scanned'[r] /\ at'[r] = "del" /\ ask'[r] = ask[r]
    BY <1>5, <2>2 DEF ScanPages, Scan, Present, Goto, Ops, Domains, MoreDomains
  <2>4. QED
    BY <1>1, <2>3 DEF Deletes, Covers
<1>6. CASE DelPages(r)
  <2>1. k \in scanned[r]
    BY <1>6 DEF DelPages, Deletes
  <2>2. cached'[k] = MISS
    BY <1>6, <2>1 DEF DelPages, Del
  <2>3. QED
    BY <2>2
<1>7. QED
  BY <1>2, <1>3, <1>4, <1>5, <1>6

\* The request a step of r is of.
Asking(r) == IF at[r] = "idle" THEN ask'[r] ELSE ask[r]

\* Whoever changes a table deletes afterwards what he covers.
LEMMA ChangeDeletes ==
  ASSUME Ops, NEW r \in Request, Handle(r), tables' # tables, NEW k,
         k \in Covers(Asking(r))
  PROVE  at'[r] \in {"bust", "scan"} /\ ask'[r] = Asking(r)
<1> USE DEF tables, catalogue, calendar
<1> DEFINE Then(step) == at'[r] = step /\ ask'[r] = Asking(r)
<1>1. \A step : Goto(r, step) /\ at[r] # "idle" => Then(step)
  BY DEF Goto, Ops, Domains, Asking
<1>2. \A a, first : Begin(r, a, first) => Then(first)
  BY DEF Begin, Ops, Domains, Asking
<1>3. at[r] \in {"create", "child", "writeChild", "move"} => Covers(ask[r]) = {}
  BY DEF Ops, OpOk, OpsAt, Covers, ChildOps, ServiceOps
<1>4. CASE ServiceCategories(r) /\ UNCHANGED calendar
  BY <1>1, <1>2, <1>4 DEF ServiceCategories, CreateCategory, CheckCategory,
                          WriteCategory, At
<1>5. CASE Services(r) /\ UNCHANGED calendar
  BY <1>1, <1>2, <1>5
     DEF Services, CreateService, CheckService, CheckItems, BeginList, WriteService,
         BustPublicCache, Unlink, UnlinkResumes, Relink, AbortRelink, ReadCategories,
         ReadServices, ReadIncluded, StoreList, At
<1>6. CASE ServiceChildren(r) /\ UNCHANGED calendar
  BY <1>3, <1>6, SMTT(30) DEF ServiceChildren, CheckParent, CreateChild, CheckChild, WriteChild,
                    At, Asking
<1>7. CASE Resolve(r) /\ UNCHANGED calendar
  BY <1>7 DEF Resolve, ReadService, ReadLink, ReadVariant, ReadAddons, Next1
<1>8. CASE WorkingHours(r) \/ TimeOff(r)
  BY <1>1, <1>2, <1>8
     DEF WorkingHours, BeginReplace, DeleteHours, DeleteResumes, InsertHours,
         TimeOff, CreateTimeOff, FindTimeOff, WriteTimeOff, RemoveTimeOff,
         TimeOffGone, At
<1>9. CASE Bookings(r)
  BY <1>1, <1>2, <1>3, <1>9
     DEF Bookings, BeginBooking, CancelBooking, ConfirmBooking, MoveBooking,
         CommitBooking, CommitMove, At, Asking
<1>10. CASE ScanPages(r) \/ DelPages(r) \/ Fail(r) \/ DelFails(r)
  BY <1>10 DEF ScanPages, DelPages, Fail, DelFails
<1>11. CASE Pages(r)
  BY <1>11 DEF Pages, BeginPage, ReadStaff, ReadHours, ReadBookings, ReadTimeOff,
               StorePage
<1>12. QED
  BY <1>4, <1>5, <1>6, <1>7, <1>8, <1>9, <1>10, <1>11 DEF Handle

Stores(r) == at[r] \in {"setList", "setPage"} /\ faults' = faults

\* What a step does to what is cached.
LEMMA CacheMoves ==
  ASSUME Ops, NEW r \in Request, Handle(r)
  PROVE  \/ /\ Stores(r) /\ UNCHANGED tables
            /\ \E expires :
                 cached' = [cached EXCEPT ![ask[r].key] =
                   [json |-> IF At(r, "setList") THEN seen[r] ELSE page[r].done,
                    expires |-> expires]]
         \/ /\ ~Stores(r)
            /\ \A k \in Key : cached'[k] \in {MISS, cached[k]}
<1> DEFINE Drops == \A k \in Key : cached'[k] \in {MISS, cached[k]}
           Sets == {"setList", "setPage"}
<1> USE DEF At
<1>1. UNCHANGED cached => Drops
  OBVIOUS
<1>2. CASE ServiceCategories(r) \/ ServiceChildren(r) \/ Resolve(r)
  <2>1. at[r] \notin Sets /\ UNCHANGED cached
    BY <1>2 DEF ServiceCategories, CreateCategory, CheckCategory, WriteCategory, Begin,
                ServiceChildren, CheckParent, CreateChild, CheckChild, WriteChild,
                Resolve, ReadService, ReadLink, ReadVariant, ReadAddons, Next1, cacheVars
  <2>2. QED
    BY <1>1, <2>1 DEF Stores
<1>3. CASE Services(r) /\ UNCHANGED <<calendar, faults>>
  <2>1. CASE StoreList(r)
    BY <1>3, <2>1 DEF StoreList, SetJson, Stores, tables
  <2>2. CASE BustPublicCache(r)
    BY <2>2 DEF BustPublicCache, DelKeys, Stores
  <2>3. CASE ~StoreList(r) /\ ~BustPublicCache(r)
    <3>1. at[r] \notin Sets /\ UNCHANGED cached
      BY <1>3, <2>3 DEF Services, CreateService, CheckService, CheckItems, BeginList, Begin,
                        WriteService, Unlink, UnlinkResumes, Relink, AbortRelink,
                        ReadCategories, ReadServices, ReadIncluded, cacheVars
    <3>2. QED
      BY <1>1, <3>1 DEF Stores
  <2>4. QED
    BY <2>1, <2>2, <2>3
<1>4. CASE WorkingHours(r) \/ TimeOff(r)
  <2>1. at[r] \notin Sets /\ UNCHANGED cached
    BY <1>4 DEF WorkingHours, BeginReplace, DeleteHours, DeleteResumes, InsertHours, Begin,
                TimeOff, CreateTimeOff, FindTimeOff, WriteTimeOff, RemoveTimeOff,
                TimeOffGone, cacheVars
  <2>2. QED
    BY <1>1, <2>1 DEF Stores
<1>5. CASE Bookings(r)
  <2>1. at[r] \notin Sets /\ UNCHANGED cached
    BY <1>5 DEF Bookings, BeginBooking, CancelBooking, ConfirmBooking, MoveBooking, Begin,
                CommitBooking, CommitMove, cacheVars
  <2>2. QED
    BY <1>1, <2>1 DEF Stores
<1>6. CASE ScanPages(r) \/ DelFails(r)
  <2>1. at[r] \notin Sets /\ UNCHANGED cached
    BY <1>6 DEF ScanPages, Scan, DelFails
  <2>2. QED
    BY <1>1, <2>1 DEF Stores
<1>7. CASE DelPages(r)
  <2>1. Drops
    <3>1. PICK later : cached' = [k \in Key |-> IF k \in scanned[r] \cup later
                                                THEN MISS ELSE cached[k]]
      BY <1>7 DEF DelPages, Del
    <3>2. QED
      BY <3>1
  <2>2. QED
    BY <1>7, <2>1 DEF DelPages, Stores
<1>8. CASE Pages(r) /\ UNCHANGED faults
  <2>1. CASE StorePage(r)
    BY <1>8, <2>1 DEF StorePage, SetJson, Stores
  <2>2. CASE ~StorePage(r)
    <3>1. at[r] \notin Sets /\ UNCHANGED cached
      BY <1>8, <2>2 DEF Pages, BeginPage, ReadStaff, ReadHours, ReadBookings, ReadTimeOff,
                        Begin, cacheVars
    <3>2. QED
      BY <1>1, <3>1 DEF Stores
  <2>3. QED
    BY <2>1, <2>2
<1>9. CASE Fail(r)
  <2>1. faults' # faults /\ UNCHANGED cached
    BY <1>9 DEF Fail, Ops, MoreDomains
  <2>2. QED
    BY <1>1, <2>1 DEF Stores
<1>10. QED
  BY <1>2, <1>3, <1>4, <1>5, <1>6, <1>7, <1>8, <1>9 DEF Handle

LEMMA CacheStep ==
  ASSUME Ops, Domains', NEW r \in Request, Handle(r), Remember(r),
         \A q \in Request : Reads(q), NEW k \in Key, Explained(k)
  PROVE  Explained(k)'
<1> SUFFICES ASSUME cached'[k] # MISS, k \notin excused'
             PROVE  (\E q \in Request : Deletes(q, k)') \/ cached'[k].json = Now(k)'
  BY DEF Explained
<1> DEFINE a == Asking(r)
<1>1. ~(IF Stores(r) /\ k = a.key THEN overtaken[r] # {}
        ELSE \/ k \in excused
             \/ tables' # tables /\ k \notin Covers(a) /\ Now(k)' # Now(k)
             \/ /\ faults' # faults /\ at[r] \in {"bust", "scan", "del"}
                /\ k \in Covers(a))
  BY DEF Remember, Stores, Asking
<1>2. at[r] # "idle" => a = ask[r]
  BY DEF Asking
<1>3. CASE Stores(r) /\ k = a.key
  <2>1. /\ overtaken[r] = {} /\ k = ask[r].key /\ UNCHANGED tables
        /\ cached'[k].json = IF At(r, "setList") THEN seen[r] ELSE page[r].done
    <3>1. overtaken[r] = {} /\ k = ask[r].key
      BY <1>1, <1>2, <1>3 DEF Stores
    <3>2. /\ UNCHANGED tables
          /\ \E expires :
               cached' = [cached EXCEPT ![ask[r].key] =
                 [json |-> IF At(r, "setList") THEN seen[r] ELSE page[r].done,
                  expires |-> expires]]
      BY <1>3, CacheMoves
    <3>3. QED
      BY <3>1, <3>2 DEF Ops, MoreDomains
  <2>2. ListRead(r) /\ PageRead(r)
    BY <2>1 DEF Reads
  <2>3. cached'[k].json = Now(k)
    BY <1>3, <2>1, <2>2 DEF ListRead, PageRead, At, Stores
  <2>4. QED
    BY <2>1, <2>3, SameNow
<1>4. CASE ~(Stores(r) /\ k = a.key)
  <2>1. cached'[k] = cached[k]
    BY <1>2, <1>4, CacheMoves DEF Stores, Ops, MoreDomains
  <2>2. k \notin excused
    BY <1>1, <1>4
  <2>3. CASE \E q \in Request : Deletes(q, k)
    <3>1. PICK q \in Request : Deletes(q, k)
      BY <2>3
    <3>2. CASE q = r
      <4>1. at[r] \in {"bust", "scan", "del"} /\ k \in Covers(a)
        BY <1>2, <3>1, <3>2 DEF Deletes, At
      <4>2. faults' = faults
        BY <1>1, <1>4, <4>1
      <4>3. QED
        BY <2>1, <3>1, <3>2, <4>2, DeletionDeletes
    <3>3. CASE q # r
      <4>1. at'[q] = at[q] /\ ask'[q] = ask[q] /\ scanned'[q] = scanned[q]
        BY <3>3, HandleOps DEF OnlyOf
      <4>2. Deletes(q, k)'
        BY <3>1, <4>1 DEF Deletes, At, Covers
      <4>3. QED
        BY <4>2
    <3>4. QED
      BY <3>2, <3>3
  <2>4. CASE cached[k].json = Now(k) /\ Now(k)' # Now(k)
    <3>1. tables' # tables
      BY <2>4, SameNow
    <3>2. k \in Covers(a)
      BY <1>1, <1>4, <2>4, <3>1
    <3>3. at'[r] \in {"bust", "scan"} /\ ask'[r] = a
      BY <3>1, <3>2, ChangeDeletes
    <3>4. Deletes(r, k)'
      BY <3>2, <3>3 DEF Deletes, At, Covers
    <3>5. QED
      BY <3>4
  <2>5. QED
    BY <2>1, <2>2, <2>3, <2>4 DEF Explained
<1>5. QED
  BY <1>3, <1>4

-----------------------------------------------------------------------------
(* The theorem.                                                            *)

CacheInv ==
  /\ Ops
  /\ \A r \in Request : Reads(r)
  /\ \A k \in Key : Explained(k)

LEMMA LapseInv ==
  ASSUME CacheInv, NEW j \in Key, Lapse(j)
  PROVE  CacheInv'
<1>1. /\ cached' = [cached EXCEPT ![j] = MISS] /\ excused' = excused \ {j}
      /\ UNCHANGED <<tables, scanned, at, ask, job, seen, page, faults, overtaken>>
  BY DEF Lapse, Expire, progress
<1>2. Ops'
  BY <1>1 DEF CacheInv, Ops, Domains, MoreDomains, OpOk, OpsAt, tables, catalogue, calendar
<1>3. \A r \in Request : Reads(r)'
  BY <1>1, ReadsStand DEF CacheInv, Reads
<1>4. ASSUME NEW k \in Key
      PROVE  Explained(k)'
  <2>1. CASE k = j
    BY <1>1, <2>1 DEF Explained, CacheInv, Ops, MoreDomains
  <2>2. CASE k # j
    <3>1. cached'[k] = cached[k] /\ (k \in excused => k \in excused')
      BY <1>1, <2>2 DEF CacheInv, Ops, MoreDomains
    <3>2. Now(k)' = Now(k) /\ \A r \in Request : Deletes(r, k) => Deletes(r, k)'
      BY <1>1, SameNow DEF Deletes, At, Covers
    <3>3. QED
      BY <3>1, <3>2 DEF CacheInv, Explained
  <2>3. QED
    BY <2>1, <2>2
<1>5. QED
  BY <1>2, <1>3, <1>4 DEF CacheInv

LEMMA StutterInv ==
  ASSUME CacheInv, UNCHANGED vars
  PROVE  CacheInv'
<1>1. UNCHANGED <<tables, cached, scanned, at, ask, job, seen, page, faults, overtaken,
                  excused>>
  BY DEF vars, cacheVars, progress
<1>2. Ops'
  BY <1>1 DEF CacheInv, Ops, Domains, MoreDomains, OpOk, OpsAt, tables, catalogue, calendar
<1>3. \A r \in Request : Reads(r)'
  BY <1>1, ReadsStand DEF CacheInv, Reads
<1>4. \A k \in Key : Explained(k)'
  BY <1>1, SameNow DEF CacheInv, Explained, Deletes, At, Covers
<1>5. QED
  BY <1>2, <1>3, <1>4 DEF CacheInv

LEMMA CacheNext == CacheInv /\ Inv' /\ [Next]_vars => CacheInv'
<1> SUFFICES ASSUME CacheInv, Inv', [Next]_vars PROVE CacheInv'
  OBVIOUS
<1>1. ASSUME NEW r \in Request, Handle(r), Remember(r)
      PROVE  CacheInv'
  <2>1. Domains'
    BY DEF Inv
  <2>2. Ops'
    BY <1>1, <2>1, HandleOps DEF CacheInv
  <2>3. \A q \in Request : Reads(q)'
    BY <1>1, <2>1, ReadsStep DEF CacheInv
  <2>4. \A k \in Key : Explained(k)'
    BY <1>1, <2>1, CacheStep DEF CacheInv
  <2>5. QED
    BY <2>2, <2>3, <2>4 DEF CacheInv
<1>2. QED
  BY <1>1, LapseInv, StutterInv DEF Next, Finished

LEMMA CacheInitInv == Init => CacheInv
<1> SUFFICES ASSUME Init PROVE CacheInv
  OBVIOUS
<1>1. Inv
  BY InitInv
<1>2. /\ at = [r \in Request |-> "idle"] /\ job = [r \in Request |-> NoJob]
      /\ page = [r \in Request |-> NoPage] /\ faults = 0
      /\ cached = [k \in Key |-> MISS] /\ scanned = [r \in Request |-> {}]
  BY DEF Init, CacheInit
<1>3. Ops
  BY <1>1, <1>2 DEF Inv, Ops, MoreDomains, OpOk
<1>4. \A r \in Request : Reads(r)
  BY <1>2, ElsewhereReads DEF Elsewhere, PageSteps, Reads
<1>5. \A k \in Key : Explained(k)
  BY <1>2 DEF Explained
<1>6. QED
  BY <1>3, <1>4, <1>5 DEF CacheInv

\* A page or public list that differs from what would be computed now is about
\* to be deleted, or one of the events that Remember names has excused it.
THEOREM StaleExplained == Spec => []StaleIsExplained
<1>1. Spec => []CacheInv
  BY CacheInitInv, CacheNext, Invariance, PTL DEF Spec
<1>2. CacheInv => StaleIsExplained
  BY DEF CacheInv, Explained, Deletes, StaleIsExplained, Stale, DeletionDue
<1>3. QED
  BY <1>1, <1>2, PTL

\* A slot of a page lies within the working hours it was computed from, and no
\* tick of it is in what was taken, also when lengths or ranges are not positive.
THEOREM SlotsAreFree ==
  ASSUME NEW week \in SUBSET Window, NEW taken,
         \A b \in taken : b.start \in Int /\ b.end \in Int,
         NEW total \in Int, NEW start \in Slots(week, taken, total)
  PROVE  /\ Ticks(start, start + total) \subseteq TicksOf(week)
         /\ Ticks(start, start + total) \cap TicksOf(taken) = {}
<1>1. PICK w \in week : w.start <= start /\ start + total <= w.end
  BY DEF Slots
<1>2. start \in Int /\ w.start \in Int /\ w.end \in Int
  BY AvailabilityAssumption DEF AvailabilityAssumption, Slots, Window
<1>3. ASSUME NEW x \in Ticks(start, start + total)
      PROVE  x \in Int /\ start <= x /\ x < start + total
  BY <1>2, <1>3 DEF Ticks
<1>4. ASSUME NEW x \in Ticks(start, start + total)
      PROVE  x \in TicksOf(week)
  <2>1. x \in Ticks(w.start, w.end)
    BY <1>1, <1>2, <1>3, <1>4 DEF Ticks
  <2>2. QED
    BY <2>1 DEF TicksOf
<1>5. ASSUME NEW x \in Ticks(start, start + total), NEW b \in taken,
             x \in Ticks(b.start, b.end)
      PROVE  FALSE
  <2>1. ~Overlaps([start |-> start, end |-> start + total], b)
    BY DEF Slots
  <2>2. b.start <= x /\ x < b.end
    BY <1>3, <1>5 DEF Ticks
  <2>3. QED
    BY <1>2, <1>3, <1>5, <2>1, <2>2 DEF Overlaps
<1>6. QED
  BY <1>4, <1>5 DEF TicksOf

-----------------------------------------------------------------------------
(***************************************************************************)
(* The shapes of the state.  A step writes into a table what an earlier    *)
(* step put into the request's own variables, a row it has found or a      *)
(* range it has validated, so the invariant says for each step what the    *)
(* request has.  The pages it computes and stores are functions of staff.  *)
(***************************************************************************)

\* A complete page, of some of the staff.
IsPage(p) == \E T \in SUBSET Staff : p \in [T -> OfferRow]

\* The tables hold what schema.prisma declares.
Rows ==
  /\ category \in [Category -> CategoryRow \cup {NONE}]
  /\ service \in [Service -> ServiceRow \cup {NONE}]
  /\ child \in [Child -> ChildRow \cup {NONE}]
  /\ link \in [Staff -> [Service -> LinkRow \cup {NONE}]]
  /\ hours \in [Staff -> SUBSET HoursRow]
  /\ \A t \in Staff : \A w \in hours[t] : Ordered(w)
  /\ timeOff \in [TimeOffId -> OffRow \cup {NONE}]
  /\ booked \subseteq BookedRow

\* The rows that steps write by id are never taken out of their tables.
RowsStay ==
  /\ \A c \in Category : category[c] \in CategoryRow => category'[c] \in CategoryRow
  /\ \A s \in Service : service[s] \in ServiceRow => service'[s] \in ServiceRow
  /\ \A c \in Child : child[c] \in ChildRow => child'[c] \in ChildRow

\* The variables of requests, at any step.
Shape(r) ==
  /\ at[r] \in {"idle", "done"} => ask[r] = NONE
  /\ DOMAIN job[r] = {"staff", "total", "fixed"}
  /\ DOMAIN page[r] = {"todo", "done", "week", "taken"}

HasRow(r) ==
  /\ At(r, "write") /\ ask[r].op \in CategoryOps => category[ask[r].id] \in CategoryRow
  /\ At(r, "write") /\ ask[r].op \in ServiceOps => service[ask[r].id] \in ServiceRow
  /\ At(r, "create") => ask[r].op = "createChild"
  /\ At(r, "child") \/ At(r, "writeChild") => ask[r].op # "createChild"
  /\ At(r, "writeChild") => child[ask[r].id] \in ChildRow

HasItems(r) == at[r] \in {"delete", "deleteWait", "insert"} => ValidItems(ask[r].items)

HasRange(r) ==
  /\ At(r, "timeOff") => seen[r] \in OffRow
  /\ Moving(r) => seen[r].new \in BookedRow

HasJob(r) ==
  /\ at[r] \in PageSteps \cup {"commit"} => job[r].staff \in Staff
  /\ at[r] \in (PageSteps \cup {"commit"}) \ {"service"} => job[r].total \in Int
  /\ At(r, "variant") => Selection(r).variant \in Variant

HasPage(r) ==
  /\ at[r] \in PageSteps /\ ask[r].op = "page" => page[r].todo \subseteq Staff
  /\ at[r] \in PageSteps \cup {"setPage"} /\ ask[r].op = "page" => IsPage(page[r].done)

\* What the step that is next works on.
Has(r) == HasRow(r) /\ HasItems(r) /\ HasRange(r) /\ HasJob(r) /\ HasPage(r)

LEMMA OthersHave ==
  ASSUME Ops, NEW r \in Request, NEW q \in Request \ {r}, OnlyOf(r), RowsStay, Has(q), Shape(q)
  PROVE  Has(q)' /\ Shape(q)'
<1>1. /\ at'[q] = at[q] /\ ask'[q] = ask[q] /\ seen'[q] = seen[q]
      /\ job'[q] = job[q] /\ page'[q] = page[q]
  BY DEF OnlyOf
<1>2. OpOk(q)
  BY DEF Ops
<1>3. HasRow(q)'
  <2>1. CASE At(q, "write") /\ ask[q].op \in CategoryOps
    <3>1. ask[q].id \in Category
      BY <1>2, <2>1, AvailabilityAssumption
         DEF OpOk, At, AvailabilityAssumption, CatalogueInput, AvailabilityQueryDto,
             CalendarInput, CategoryOps
    <3>2. QED
      BY <1>1, <2>1, <3>1 DEF Has, HasRow, At, RowsStay, CategoryOps, ServiceOps
  <2>2. CASE At(q, "write") /\ ask[q].op \in ServiceOps
    <3>1. ask[q].id \in Service
      BY <1>2, <2>2, AvailabilityAssumption
         DEF OpOk, At, AvailabilityAssumption, CatalogueInput, AvailabilityQueryDto,
             CalendarInput, ServiceOps
    <3>2. QED
      BY <1>1, <2>2, <3>1 DEF Has, HasRow, At, RowsStay, CategoryOps, ServiceOps
  <2>3. CASE At(q, "writeChild")
    <3>1. ask[q].id \in Child
      BY <1>2, <2>3, AvailabilityAssumption
         DEF OpOk, OpsAt, At, AvailabilityAssumption, CatalogueInput, AvailabilityQueryDto,
             CalendarInput, ChildOps
    <3>2. QED
      BY <1>1, <2>3, <3>1 DEF Has, HasRow, At, RowsStay
  <2>4. QED
    BY <1>1, <2>1, <2>2, <2>3 DEF Has, HasRow, At
<1>4. HasItems(q)' /\ HasRange(q)'
  BY <1>1 DEF Has, HasItems, HasRange, At, Moving, ValidItems, Overlaps
<1>5. HasJob(q)' /\ HasPage(q)'
  BY <1>1 DEF Has, HasJob, HasPage, At, Selection
<1>6. Shape(q)'
  BY <1>1 DEF Shape
<1>7. QED
  BY <1>3, <1>4, <1>5, <1>6 DEF Has

-----------------------------------------------------------------------------
(* Rows that are written.                                                  *)

LEMMA PatchedService ==
  ASSUME NEW row \in ServiceRow, NEW put,
         UpdateServiceDto(put) \/ SetServiceStatusDto(put)
  PROVE  Patched(row, put) \in ServiceRow
<1> DEFINE p == Patched(row, put)
<1>1. /\ DOMAIN row = {"open", "archived", "len", "category"}
      /\ row.open \in BOOLEAN /\ row.archived \in BOOLEAN /\ row.len \in Int
      /\ row.category \in Category \cup {NONE}
  BY DEF ServiceRow
<1>2. /\ "open" \in DOMAIN put => put["open"] \in BOOLEAN
      /\ "archived" \in DOMAIN put => put["archived"] \in BOOLEAN
      /\ "len" \in DOMAIN put => put["len"] \in Int
      /\ "category" \in DOMAIN put => put["category"] \in Category \cup {NONE}
  BY DEF UpdateServiceDto, SetServiceStatusDto, Part
<1>3. p = [open |-> p.open, archived |-> p.archived, len |-> p.len, category |-> p.category]
  BY <1>1 DEF Patched
<1>4. /\ p.open \in BOOLEAN /\ p.archived \in BOOLEAN /\ p.len \in Int
      /\ p.category \in Category \cup {NONE}
  BY <1>1, <1>2 DEF Patched
<1>5. QED
  BY <1>3, <1>4 DEF ServiceRow

LEMMA PatchedChild ==
  ASSUME NEW row \in ChildRow, NEW put, CreateServiceAddonDto(put)
  PROVE  Patched(row, put) \in ChildRow
<1> DEFINE p == Patched(row, put)
<1>1. /\ DOMAIN row = {"open", "archived", "len"}
      /\ row.open \in BOOLEAN /\ row.archived \in BOOLEAN /\ row.len \in Int
  BY DEF ChildRow
<1>2. /\ "open" \in DOMAIN put => put["open"] \in BOOLEAN
      /\ "archived" \notin DOMAIN put
      /\ "len" \in DOMAIN put => put["len"] \in Int
  BY DEF CreateServiceAddonDto, Part
<1>3. p = [open |-> p.open, archived |-> p.archived, len |-> p.len]
  BY <1>1 DEF Patched
<1>4. p.open \in BOOLEAN /\ p.archived \in BOOLEAN /\ p.len \in Int
  BY <1>1, <1>2 DEF Patched
<1>5. QED
  BY <1>3, <1>4 DEF ChildRow

LEMMA PatchedCategory ==
  ASSUME NEW row \in CategoryRow, NEW put, CreateServiceCategoryDto(put)
  PROVE  Patched(row, put) \in CategoryRow
<1> DEFINE p == Patched(row, put)
<1>1. /\ DOMAIN row = {"visible", "archived"}
      /\ row.visible \in BOOLEAN /\ row.archived \in BOOLEAN
  BY DEF CategoryRow
<1>2. /\ "visible" \in DOMAIN put => put["visible"] \in BOOLEAN
      /\ "archived" \notin DOMAIN put
  BY DEF CreateServiceCategoryDto, Part
<1>3. p = [visible |-> p.visible, archived |-> p.archived]
  BY <1>1 DEF Patched
<1>4. p.visible \in BOOLEAN /\ p.archived \in BOOLEAN
  BY <1>1, <1>2 DEF Patched
<1>5. QED
  BY <1>3, <1>4 DEF CategoryRow

LEMMA PatchedOff ==
  ASSUME NEW row \in OffRow, NEW put, UpdateTimeOffDto(put)
  PROVE  Patched(row, put) \in OffRow
<1> DEFINE p == Patched(row, put)
<1>1. /\ DOMAIN row = {"staff", "start", "end"}
      /\ row.staff \in Staff /\ row.start \in 0..EndOfDay /\ row.end \in 0..EndOfDay
  BY DEF OffRow
<1>2. /\ "staff" \notin DOMAIN put
      /\ "start" \in DOMAIN put => put["start"] \in 0..EndOfDay
      /\ "end" \in DOMAIN put => put["end"] \in 0..EndOfDay
  BY DEF UpdateTimeOffDto, Part
<1>3. p = [staff |-> p.staff, start |-> p.start, end |-> p.end]
  BY <1>1 DEF Patched
<1>4. p.staff \in Staff /\ p.start \in 0..EndOfDay /\ p.end \in 0..EndOfDay
  BY <1>1, <1>2 DEF Patched
<1>5. QED
  BY <1>3, <1>4 DEF OffRow

-----------------------------------------------------------------------------
(* Sums.                                                                   *)

\* A set of numbers has a least one: induction by the least counterexample.
LEMMA Least ==
  ASSUME NEW T, T \subseteq Nat, T # {}
  PROVE  \E n \in T : \A m \in T : n <= m
<1> DEFINE U == {0..n : n \in T}
           R == StrictSubsetOrdering(Nat)
<1>1. ASSUME NEW n \in Nat PROVE 0..n \in FiniteSubsetsOf(Nat)
  BY FS_Interval DEF FiniteSubsetsOf
<1>2. U \subseteq FiniteSubsetsOf(Nat) /\ U # {}
  BY <1>1
<1>3. PICK u \in U : \A v \in U : ~(<<v, u>> \in R)
  BY <1>2, WFMin, FS_StrictSubsetOrderingWellFounded
<1>4. PICK n \in T : u = 0..n
  BY <1>3
<1>5. ASSUME NEW m \in T, m < n PROVE FALSE
  <2>1. (0..m) \in U /\ (0..m) \subseteq 0..n /\ n \in 0..n /\ n \notin 0..m
    BY <1>5
  <2>2. <<0..m, 0..n>> \in R
    BY <2>1 DEF StrictSubsetOrdering
  <2> QED
    BY <1>3, <1>4, <2>1, <2>2
<1> QED
  BY <1>4, <1>5

\* The lengths of finitely many add-ons add up to a number.  The sum recurs on
\* its set: no smallest subset has a sum that is none.
LEMMA SumIsInt ==
  ASSUME NEW A, IsFiniteSet(A), NEW f \in [A -> Int]
  PROVE  SumFunctionOnSet(f, A) \in Int
<1> DEFINE pick(s) == CHOOSE x \in s : TRUE
           step(g, s) == IF s = {} THEN 0 ELSE f[pick(s)] + g[s \ {pick(s)}]
           P(n) == \E g \in [SUBSET A -> Int] : \A s \in SUBSET A :
                     Cardinality(s) <= n => g[s] = step(g, s)
<1>1. \A s \in SUBSET A : IsFiniteSet(s) /\ Cardinality(s) \in Nat /\ (Cardinality(s) = 0 <=> s = {})
  BY FS_Subset, FS_CardinalityType, FS_EmptySet
<1>2. \A s \in SUBSET A : s # {} =>
        /\ pick(s) \in s /\ s \ {pick(s)} \in SUBSET A
        /\ Cardinality(s \ {pick(s)}) = Cardinality(s) - 1
  BY <1>1, FS_RemoveElement
<1>3. P(0)
  <2> DEFINE zero == [s \in SUBSET A |-> 0]
  <2>1. zero \in [SUBSET A -> Int]
    OBVIOUS
  <2>2. ASSUME NEW s \in SUBSET A, Cardinality(s) <= 0 PROVE zero[s] = step(zero, s)
    BY <1>1, <2>2
  <2> QED
    BY <2>1, <2>2
<1>4. ASSUME NEW n \in Nat, P(n) PROVE P(n + 1)
  <2>1. PICK g \in [SUBSET A -> Int] : \A s \in SUBSET A :
          Cardinality(s) <= n => g[s] = step(g, s)
    BY <1>4
  <2> DEFINE h == [s \in SUBSET A |-> step(g, s)]
  <2>2. h \in [SUBSET A -> Int]
    BY <1>2
  <2>3. ASSUME NEW s \in SUBSET A, Cardinality(s) <= n + 1 PROVE h[s] = step(h, s)
    <3>1. CASE s = {}
      BY <3>1
    <3>2. CASE s # {}
      <4>1. Cardinality(s \ {pick(s)}) <= n /\ s \ {pick(s)} \in SUBSET A
        BY <1>1, <1>2, <2>3, <3>2
      <4>2. h[s \ {pick(s)}] = g[s \ {pick(s)}]
        BY <2>1, <4>1
      <4> QED
        BY <3>2, <4>2
    <3> QED
      BY <3>1, <3>2
  <2> QED
    BY <2>2, <2>3
<1> HIDE DEF P
<1>5. \A n \in Nat : P(n)
  <2> DEFINE T == {n \in Nat : ~P(n)}
  <2>1. SUFFICES ASSUME T # {} PROVE FALSE
    OBVIOUS
  <2>2. PICK n \in T : \A m \in T : n <= m
    BY <2>1, Least
  <2>3. n \in Nat /\ n # 0 /\ n - 1 \in Nat /\ n - 1 \notin T
    BY <1>3, <2>2
  <2>4. P(n - 1)
    BY <2>3
  <2> QED
    BY <1>4, <2>2, <2>3, <2>4
<1>6. PICK g \in [SUBSET A -> Int] : \A s \in SUBSET A : g[s] = step(g, s)
  <2>1. P(Cardinality(A))
    BY <1>1, <1>5
  <2>2. \A s \in SUBSET A : Cardinality(s) <= Cardinality(A)
    BY FS_Subset
  <2> QED
    BY <2>1, <2>2 DEF P
<1>7. g = [s \in SUBSET A |-> step(g, s)]
  BY <1>6
<1> DEFINE iter == CHOOSE i : i = [s \in SUBSET A |-> step(i, s)]
<1>8. iter = [s \in SUBSET A |-> step(iter, s)]
  BY <1>7
<1>9. SumFunctionOnSet(f, A) = iter[A]
  BY DEF SumFunctionOnSet, FoldFunctionOnSet, MapThenFoldSet
<1> HIDE DEF iter
<1>10. \A s \in SUBSET A : iter[s] \in Int
  <2> DEFINE T == {n \in Nat : \E s \in SUBSET A : Cardinality(s) = n /\ iter[s] \notin Int}
  <2>1. SUFFICES ASSUME T # {} PROVE FALSE
    BY <1>1
  <2>2. PICK n \in T : \A m \in T : n <= m
    BY <2>1, Least
  <2>3. PICK s \in SUBSET A : Cardinality(s) = n /\ iter[s] \notin Int
    BY <2>2
  <2>4. s # {}
    BY <1>8, <2>3
  <2>5. Cardinality(s \ {pick(s)}) \notin T
    BY <1>1, <1>2, <2>2, <2>3, <2>4
  <2>6. iter[s \ {pick(s)}] \in Int
    BY <1>1, <1>2, <2>4, <2>5
  <2>7. f[pick(s)] \in Int
    BY <1>2, <2>4
  <2>8. iter[s] = step(iter, s)
    BY <1>8
  <2> QED
    BY <2>3, <2>4, <2>6, <2>7, <2>8
<1> QED
  BY <1>9, <1>10

-----------------------------------------------------------------------------
(* The variables of a request.                                             *)

LEMMA ResolveNext ==
  ASSUME NEW r \in Request, Resolve(r)
  PROVE  \E found, step, total, fixed : Next1(r, found, step, total, fixed)
BY DEF Resolve, ReadService, ReadLink, ReadVariant, ReadAddons

LEMMA FieldsStay ==
  ASSUME Ops, NEW r \in Request, Shape(r), Handle(r)
  PROVE  /\ DOMAIN job'[r] = {"staff", "total", "fixed"}
         /\ DOMAIN page'[r] = {"todo", "done", "week", "taken"}
<1> DEFINE JobSame == UNCHANGED job \/ End(r)
           PageSame == UNCHANGED page \/ page' = [page EXCEPT ![r] = NoPage]
           JobOk == DOMAIN job'[r] = {"staff", "total", "fixed"}
           PageOk == DOMAIN page'[r] = {"todo", "done", "week", "taken"}
<1>1. JobSame => JobOk
  BY DEF End, Ops, MoreDomains, NoJob, Shape
<1>2. PageSame => PageOk
  BY SMTT(30) DEF Ops, MoreDomains, NoPage, Shape
<1> HIDE DEF JobSame, PageSame
<1>3. CASE /\ ServiceCategories(r) \/ Services(r) \/ ServiceChildren(r)
           /\ UNCHANGED page
  BY <1>1, <1>2, <1>3
     DEF JobSame, PageSame,
         ServiceCategories, CreateCategory, CheckCategory, WriteCategory,
         Services, CreateService, CheckService, CheckItems, BeginList,
         WriteService, BustPublicCache, Unlink, UnlinkResumes, Relink, AbortRelink,
         ReadCategories, ReadServices, ReadIncluded, StoreList,
         ServiceChildren, CheckParent, CreateChild, CheckChild, WriteChild
<1>4. CASE /\ Resolve(r)
           /\ page' = IF InFlight(r)' THEN page ELSE [page EXCEPT ![r] = NoPage]
  <2>1. PICK found, step, total, fixed : Next1(r, found, step, total, fixed)
    BY <1>4, ResolveNext
  <2>2. JobOk
    <3>1. CASE found
      BY <2>1, <3>1 DEF Next1, Shape, Ops, MoreDomains
    <3>2. CASE ~found
      BY <1>1, <2>1, <3>2 DEF Next1, JobSame
    <3>3. QED
      BY <3>1, <3>2
  <2>3. QED
    BY <1>2, <1>4, <2>2 DEF PageSame
<1>5. CASE WorkingHours(r) \/ TimeOff(r) \/ ScanPages(r) \/ DelPages(r) \/ DelFails(r)
  <2>1. JobSame
    BY <1>5
       DEF JobSame, WorkingHours, BeginReplace, DeleteHours, DeleteResumes, InsertHours,
           TimeOff, CreateTimeOff, FindTimeOff, WriteTimeOff, RemoveTimeOff, TimeOffGone,
           ScanPages, DelPages, DelFails
  <2>2. page' = page \/ Fail(r) \/ Pages(r) \/ (Resolve(r) /\ PageSame)
    BY DEF Handle, PageSame
  <2>3. at[r] \in {"idle", "delete", "deleteWait", "insert", "timeOff", "scan", "del"}
    BY <1>5
       DEF At, Begin, WorkingHours, BeginReplace, DeleteHours, DeleteResumes, InsertHours,
           TimeOff, CreateTimeOff, FindTimeOff, WriteTimeOff, RemoveTimeOff, TimeOffGone,
           ScanPages, DelPages, DelFails
  <2>4. Pages(r) => \E a \in Asked[r] : BeginPage(r, a)
    BY <2>3 DEF Pages, At, ReadStaff, ReadHours, ReadBookings, ReadTimeOff, StorePage
  <2>5. PageSame
    BY <2>2, <2>4 DEF PageSame, Fail, BeginPage
  <2>6. QED
    BY <1>1, <1>2, <2>1, <2>5
<1>6. CASE Bookings(r) /\ UNCHANGED page
  <2>1. CASE \E a \in Asked[r] : BeginBooking(r, a)
    BY <1>2, <1>6, <2>1 DEF BeginBooking, PageSame, Shape, Ops, MoreDomains
  <2>2. CASE ~\E a \in Asked[r] : BeginBooking(r, a)
    <3>1. JobSame
      BY <1>6, <2>2 DEF JobSame, Bookings, CancelBooking, ConfirmBooking, MoveBooking,
                        CommitBooking, CommitMove
    <3>2. QED
      BY <1>1, <1>2, <1>6, <3>1 DEF PageSame
  <2>3. QED
    BY <2>1, <2>2
<1>7. CASE Pages(r)
  <2>1. CASE \E todo, done : Turn(r, todo, done)
    <3>1. PICK todo, done : Turn(r, todo, done)
      BY <2>1
    <3>2. PageOk
      BY <3>1 DEF Turn, NoPage, Ops, MoreDomains
    <3>3. CASE todo = {}
      BY <3>1, <3>2, <3>3 DEF Turn, NoJob, Ops, MoreDomains
    <3>4. CASE todo # {}
      <4>1. PICK t \in todo : job' = [job EXCEPT ![r] = [NoJob EXCEPT !.staff = t]]
        BY <3>1, <3>4 DEF Turn
      <4>2. QED
        BY <3>2, <4>1 DEF NoJob, Ops, MoreDomains
    <3>5. QED
      BY <3>3, <3>4
  <2>2. CASE ~\E todo, done : Turn(r, todo, done)
    <3>1. JobSame
      BY <1>7, <2>2 DEF JobSame, Pages, BeginPage, ReadStaff, ReadHours, ReadBookings,
                        ReadTimeOff, TurnAfter, StorePage
    <3>2. \/ PageSame
          \/ \E x : page' = [page EXCEPT ![r].week = x] \/ page' = [page EXCEPT ![r].taken = x]
      BY <1>7, <2>2 DEF PageSame, Pages, BeginPage, ReadStaff, ReadHours, ReadBookings,
                        ReadTimeOff, TurnAfter, StorePage
    <3>3. (\E x : page' = [page EXCEPT ![r].week = x] \/ page' = [page EXCEPT ![r].taken = x])
            => PageOk
      BY DEF Ops, MoreDomains, Shape
    <3>4. QED
      BY <1>1, <1>2, <3>1, <3>2, <3>3
  <2>3. QED
    BY <2>1, <2>2
<1>8. CASE Fail(r)
  BY <1>1, <1>2, <1>8 DEF Fail, JobSame, PageSame
<1>9. QED
  BY <1>3, <1>4, <1>5, <1>6, <1>7, <1>8 DEF Handle

\* A request that is over, or has not begun, is of nothing.
LEMMA EndsIdle ==
  ASSUME Ops, NEW r \in Request, Handle(r), at'[r] \in {"idle", "done"}
  PROVE  ask'[r] = NONE
<1> DEFINE Goes == \E step : Goto(r, step) /\ step \in Steps
           Begins == \E a, step : Begin(r, a, step) /\ step \in Steps
<1>1. ~Goes /\ ~Begins
  BY DEF Goto, Begin, Ops, Domains, Steps
<1>2. End(r) => ask'[r] = NONE
  BY DEF End, Ops, Domains
<1>3. CASE ServiceCategories(r) \/ Services(r) \/ ServiceChildren(r)
  BY <1>1, <1>2, <1>3
     DEF Steps, ServiceCategories, CreateCategory, CheckCategory, WriteCategory,
         Services, CreateService, CheckService, CheckItems, BeginList,
         WriteService, BustPublicCache, Unlink, UnlinkResumes, Relink, AbortRelink,
         ReadCategories, ReadServices, ReadIncluded, StoreList,
         ServiceChildren, CheckParent, CreateChild, CheckChild, WriteChild
<1>4. CASE Resolve(r)
  BY <1>1, <1>2, <1>4
     DEF Steps, Resolve, ReadService, ReadLink, ReadVariant, ReadAddons, Next1,
         AfterLink, AfterVariant, Resolved
<1>5. CASE WorkingHours(r) \/ TimeOff(r) \/ ScanPages(r) \/ DelPages(r) \/ DelFails(r) \/ Fail(r)
  BY <1>1, <1>2, <1>5, ZenonT(40)
     DEF Steps, WorkingHours, BeginReplace, DeleteHours, DeleteResumes, InsertHours,
         TimeOff, CreateTimeOff, FindTimeOff, WriteTimeOff, RemoveTimeOff, TimeOffGone,
         ScanPages, DelPages, DelFails, Fail
<1>6. CASE Bookings(r)
  BY <1>1, <1>2, <1>6
     DEF Steps, Bookings, BeginBooking, CancelBooking, ConfirmBooking, MoveBooking,
         CommitBooking, CommitMove
<1>7. CASE Pages(r)
  <2>1. \A todo, done : ~Turn(r, todo, done)
    BY <1>1 DEF Turn, Steps
  <2>2. QED
    BY <1>1, <1>2, <1>7, <2>1
       DEF Steps, Pages, BeginPage, ReadStaff, ReadHours, ReadBookings, ReadTimeOff,
           TurnAfter, StorePage
<1>8. QED
  BY <1>3, <1>4, <1>5, <1>6, <1>7 DEF Handle

LEMMA ShapeStays ==
  ASSUME Ops, NEW r \in Request, Shape(r), Handle(r)
  PROVE  Shape(r)'
BY FieldsStay, EndsIdle DEF Shape

-----------------------------------------------------------------------------
(* What requests carry.                                                    *)

\* What a request carries.
LEMMA CatalogueInputs ==
  ASSUME NEW r \in Request, NEW a \in Asked[r]
  PROVE  /\ a.op \in {"createCategory", "updateCategory"} =>
              a.id \in Category /\ CreateServiceCategoryDto(a.put)
         /\ a.op = "archiveCategory" => a.id \in Category
         /\ a.op = "createService" => a.id \in Service /\ UpdateServiceDto(a.put)
         /\ a.op = "updateService" => a.id \in Service /\ UpdateServiceDto(a.put)
         /\ a.op = "setServiceStatus" => a.id \in Service /\ SetServiceStatusDto(a.put)
         /\ a.op = "archiveService" => a.id \in Service
         /\ a.op \in {"createChild", "updateChild"} =>
              a.id \in Child /\ CreateServiceAddonDto(a.put)
         /\ a.op = "archiveChild" => a.id \in Child
         /\ a.op = "replaceStaffServices" =>
              a.staff \in Staff /\ ReplaceStaffServicesDto(a.items)
<1>1. CatalogueInput(a) \/ AvailabilityQueryDto(a) \/ CalendarInput(a)
  BY AvailabilityAssumption DEF AvailabilityAssumption
<1>2. CreateServiceVariantDto(a.put) => CreateServiceAddonDto(a.put)
  BY DEF CreateServiceVariantDto, CreateServiceAddonDto
<1>3. QED
  BY <1>1, <1>2 DEF CatalogueInput, AvailabilityQueryDto, CalendarInput, CreateServiceDto

LEMMA CalendarInputs ==
  ASSUME NEW r \in Request, NEW a \in Asked[r]
  PROVE  /\ a.op \in OffOps \cup BookingOps => a.staff \in Staff
         /\ a.op = "replaceHours" => a.items \subseteq Window
         /\ a.op \in {"createTimeOff", "updateTimeOff", "removeTimeOff"} =>
              a.id \in TimeOffId
         /\ a.op = "createTimeOff" => a.put \in Window
         /\ a.op = "updateTimeOff" => UpdateTimeOffDto(a.put)
         /\ a.op = "book" => SelectionDto(a)
         /\ a.op \in BookingOps => a.service \in Service
         /\ a.op \in {"book", "move"} => a.start \in 0..EndOfDay
         /\ a.op = "page" => SelectionDto(a.key)
<1>1. CatalogueInput(a) \/ AvailabilityQueryDto(a) \/ CalendarInput(a)
  BY AvailabilityAssumption DEF AvailabilityAssumption
<1>2. QED
  BY <1>1 DEF CatalogueInput, AvailabilityQueryDto, CalendarInput, OffOps, BookingOps,
              CreateTimeOffDto, WorkingHourItemDto, CreateBookingDto, SelectionDto, ServiceOps

-----------------------------------------------------------------------------
(* What is written into the tables.                                        *)

LEMMA SameRowsStay ==
  ASSUME Rows, UNCHANGED tables
  PROVE  Rows' /\ RowsStay
BY DEF Rows, RowsStay, tables, catalogue, calendar, Ordered

LEMMA CategoryRows ==
  ASSUME Ops, Rows, NEW r \in Request, HasRow(r), UNCHANGED calendar,
         ServiceCategories(r)
  PROVE  Rows' /\ RowsStay
<1>1. ASSUME NEW c \in Category, NEW row \in CategoryRow,
             category' = [category EXCEPT ![c] = row],
             UNCHANGED <<service, child, link>>
      PROVE  Rows' /\ RowsStay
  BY <1>1 DEF Rows, RowsStay, calendar, Ordered
<1>2. ASSUME NEW a \in Asked[r], CreateCategory(r, a)
      PROVE  Rows' /\ RowsStay
  <2>1. [visible |-> TRUE, archived |-> FALSE] \in CategoryRow
    BY DEF CategoryRow
  <2>2. a.id \in Category /\ CreateServiceCategoryDto(a.put)
    BY <1>2, CatalogueInputs DEF CreateCategory
  <2>3. QED
    BY <1>1, <1>2, <2>1, <2>2, PatchedCategory DEF CreateCategory
<1>3. CASE WriteCategory(r)
  <2> DEFINE a == ask[r]
  <2>1. a \in Asked[r]
    BY <1>3 DEF WriteCategory, At, Ops, OpOk
  <2>2. a.op \in CategoryOps => a.id \in Category /\ category[a.id] \in CategoryRow
    BY <1>3, <2>1, CatalogueInputs DEF WriteCategory, HasRow, CategoryOps
  <2>3. CASE a.op = "updateCategory"
    <3>1. category' = [category EXCEPT ![a.id] = Patched(category[a.id], a.put)]
      BY <1>3, <2>3 DEF WriteCategory
    <3>2. CreateServiceCategoryDto(a.put)
      BY <2>1, <2>3, CatalogueInputs
    <3>3. QED
      BY <1>1, <1>3, <2>2, <2>3, <3>1, <3>2, PatchedCategory DEF WriteCategory, CategoryOps
  <2>4. CASE a.op = "archiveCategory"
    <3>1. category' = [category EXCEPT ![a.id] = [category[a.id] EXCEPT !.archived = TRUE]]
      BY <1>3, <2>4 DEF WriteCategory
    <3>2. [category[a.id] EXCEPT !.archived = TRUE] \in CategoryRow
      BY <2>2, <2>4 DEF CategoryRow, CategoryOps
    <3>3. QED
      BY <1>1, <1>3, <2>2, <2>4, <3>1, <3>2 DEF WriteCategory, CategoryOps
  <2>5. QED
    BY <1>3, <2>3, <2>4 DEF WriteCategory
<1>4. QED
  BY <1>2, <1>3, SameRowsStay DEF ServiceCategories, CheckCategory, tables

LEMMA ServiceRows ==
  ASSUME Ops, Rows, NEW r \in Request, HasRow(r), UNCHANGED calendar, Services(r)
  PROVE  Rows' /\ RowsStay
<1>1. ASSUME NEW s \in Service, NEW row \in ServiceRow,
             service' = [service EXCEPT ![s] = row],
             UNCHANGED <<category, child, link>>
      PROVE  Rows' /\ RowsStay
  BY <1>1 DEF Rows, RowsStay, calendar, Ordered
<1>2. ASSUME NEW a \in Asked[r], CreateService(r, a)
      PROVE  Rows' /\ RowsStay
  <2>1. [open |-> TRUE, archived |-> FALSE, len |-> 0, category |-> NONE] \in ServiceRow
    BY DEF ServiceRow
  <2>2. a.id \in Service /\ UpdateServiceDto(a.put)
    BY <1>2, CatalogueInputs DEF CreateService
  <2>3. QED
    BY <1>1, <1>2, <2>1, <2>2, PatchedService DEF CreateService
<1>3. CASE WriteService(r)
  <2> DEFINE a == ask[r]
  <2>1. a \in Asked[r]
    BY <1>3 DEF WriteService, At, Ops, OpOk
  <2>2. a.op \in ServiceOps => a.id \in Service /\ service[a.id] \in ServiceRow
    BY <1>3, <2>1, CatalogueInputs DEF WriteService, HasRow, ServiceOps
  <2>3. CASE a.op \in {"updateService", "setServiceStatus"}
    <3>1. service' = [service EXCEPT ![a.id] = Patched(service[a.id], a.put)]
      BY <1>3, <2>3 DEF WriteService
    <3>2. UpdateServiceDto(a.put) \/ SetServiceStatusDto(a.put)
      BY <2>1, <2>3, CatalogueInputs
    <3>3. QED
      BY <1>1, <1>3, <2>2, <2>3, <3>1, <3>2, PatchedService DEF WriteService, ServiceOps
  <2>4. CASE a.op = "archiveService"
    <3>1. service' = [service EXCEPT ![a.id] = [service[a.id] EXCEPT !.archived = TRUE]]
      BY <1>3, <2>4 DEF WriteService
    <3>2. [service[a.id] EXCEPT !.archived = TRUE] \in ServiceRow
      BY <2>2, <2>4 DEF ServiceRow, ServiceOps
    <3>3. QED
      BY <1>1, <1>3, <2>2, <2>4, <3>1, <3>2 DEF WriteService, ServiceOps
  <2>5. QED
    BY <1>3, <2>3, <2>4 DEF WriteService
<1>4. CASE Relink(r)
  <2> DEFINE a == ask[r]
             row(s) == [active |-> a.items[s].active, online |-> a.items[s].online,
                        len |-> a.items[s].len, by |-> r]
             new == [s \in Service |-> IF s \in DOMAIN a.items THEN row(s)
                       ELSE IF s \in seen[r] THEN NONE ELSE link[a.staff][s]]
  <2>1. a.staff \in Staff /\ ReplaceStaffServicesDto(a.items)
    <3>1. a \in Asked[r] /\ a.op = "replaceStaffServices"
      BY <1>4 DEF Relink, At, Ops, OpOk, OpsAt
    <3>2. QED
      BY <3>1, CatalogueInputs
  <2>2. \A s \in DOMAIN a.items : row(s) \in LinkRow
    <3>1. r \in 0..MaxRequests
      BY CacheAssumption DEF Request
    <3>2. QED
      BY <2>1, <3>1 DEF ReplaceStaffServicesDto, StaffServiceAssignmentItemDto, LinkRow
  <2>3. link' = [link EXCEPT ![a.staff] = new]
    BY <1>4 DEF Relink
  <2>4. new \in [Service -> LinkRow \cup {NONE}]
    <3> HIDE DEF row
    <3>1. \A s \in Service : link[a.staff][s] \in LinkRow \cup {NONE}
      BY <2>1 DEF Rows
    <3>2. QED
      BY <2>2, <3>1
  <2> HIDE DEF new
  <2>5. link' \in [Staff -> [Service -> LinkRow \cup {NONE}]]
    BY <2>1, <2>3, <2>4 DEF Rows
  <2>6. UNCHANGED <<category, service, child>>
    BY <1>4 DEF Relink
  <2>7. QED
    BY <2>5, <2>6 DEF Rows, RowsStay, calendar, Ordered
<1>5. CASE ~WriteService(r) /\ ~Relink(r) /\ ~\E a \in Asked[r] : CreateService(r, a)
  <2>1. UNCHANGED catalogue
    BY <1>5 DEF Services, CheckService, CheckItems, BeginList, BustPublicCache, Unlink,
                UnlinkResumes, AbortRelink, ReadCategories, ReadServices, ReadIncluded,
                StoreList
  <2>2. QED
    BY <2>1, SameRowsStay DEF tables
<1>6. QED
  BY <1>2, <1>3, <1>4, <1>5

LEMMA ChildRows ==
  ASSUME Ops, Rows, NEW r \in Request, HasRow(r), UNCHANGED calendar, ServiceChildren(r)
  PROVE  Rows' /\ RowsStay
<1> DEFINE a == ask[r]
<1>1. ASSUME NEW c \in Child, NEW row \in ChildRow,
             child' = [child EXCEPT ![c] = row],
             UNCHANGED <<category, service, link>>
      PROVE  Rows' /\ RowsStay
  BY <1>1 DEF Rows, RowsStay, calendar, Ordered
<1>2. at[r] \in {"create", "writeChild"} => a \in Asked[r] /\ a.op \in ChildOps
  BY DEF Ops, OpOk, OpsAt
<1>3. CASE CreateChild(r)
  <2>1. [open |-> TRUE, archived |-> FALSE, len |-> 0] \in ChildRow
    BY DEF ChildRow
  <2>2. a.id \in Child /\ CreateServiceAddonDto(a.put)
    BY <1>2, <1>3, CatalogueInputs DEF CreateChild, HasRow, At
  <2>3. QED
    BY <1>1, <1>3, <2>1, <2>2, PatchedChild DEF CreateChild
<1>4. CASE WriteChild(r)
  <2>1. child[a.id] \in ChildRow /\ a.op \in ChildOps /\ a.op # "createChild" /\ a \in Asked[r]
    BY <1>2, <1>4 DEF WriteChild, HasRow, At
  <2>2. a.id \in Child /\ (a.op = "archiveChild" \/ CreateServiceAddonDto(a.put))
    BY <2>1, CatalogueInputs DEF ChildOps
  <2> DEFINE row == IF a.op = "archiveChild" THEN [child[a.id] EXCEPT !.archived = TRUE]
                    ELSE Patched(child[a.id], a.put)
  <2>3. row \in ChildRow
    <3>1. CASE a.op = "archiveChild"
      BY <2>1, <3>1 DEF ChildRow
    <3>2. CASE a.op # "archiveChild"
      BY <2>1, <2>2, <3>2, PatchedChild
    <3>3. QED
      BY <3>1, <3>2
  <2>4. child' = [child EXCEPT ![a.id] = row] /\ UNCHANGED <<category, service, link>>
    BY <1>4 DEF WriteChild
  <2>5. QED
    BY <1>1, <2>2, <2>3, <2>4
<1>5. CASE ~CreateChild(r) /\ ~WriteChild(r)
  BY <1>5, SameRowsStay DEF ServiceChildren, CheckParent, CheckChild, tables
<1>6. QED
  BY <1>3, <1>4, <1>5

LEMMA HoursRows ==
  ASSUME Ops, Rows, NEW r \in Request, HasItems(r), WorkingHours(r)
  PROVE  Rows' /\ RowsStay
<1> DEFINE a == ask[r]
           new == {[start |-> i.start, end |-> i.end, by |-> r] : i \in a.items}
<1>1. CASE InsertHours(r)
  <2>1. a \in Asked[r] /\ a.op = "replaceHours"
    BY <1>1 DEF InsertHours, At, Ops, OpOk, OpsAt
  <2>2. a.staff \in Staff /\ a.items \subseteq Window
    BY <2>1, CalendarInputs DEF OffOps
  <2>3. ValidItems(a.items)
    BY <1>1 DEF InsertHours, At, HasItems
  <2>4. \A row \in new : row \in HoursRow /\ Ordered(row)
    <3>1. r \in 0..MaxRequests
      BY CacheAssumption DEF Request
    <3>2. QED
      BY <2>2, <2>3, <3>1 DEF Window, ValidItems, HoursRow, Ordered
  <2>5. /\ hours' = [hours EXCEPT ![a.staff] = (hours[a.staff] \ seen[r]) \cup new]
        /\ UNCHANGED <<catalogue, timeOff, booked>>
    BY <1>1 DEF InsertHours
  <2> HIDE DEF new
  <2>6. hours' \in [Staff -> SUBSET HoursRow]
    BY <2>2, <2>4, <2>5 DEF Rows
  <2>7. ASSUME NEW t \in Staff, NEW w \in hours'[t]
        PROVE  Ordered(w)
    BY <2>2, <2>4, <2>5, <2>7 DEF Rows
  <2>8. QED
    BY <2>5, <2>6, <2>7 DEF Rows, RowsStay, catalogue, Ordered
<1>2. CASE ~InsertHours(r)
  BY <1>2, SameRowsStay DEF WorkingHours, BeginReplace, DeleteHours, DeleteResumes, tables
<1>3. QED
  BY <1>1, <1>2

LEMMA OffRows ==
  ASSUME Ops, Rows, NEW r \in Request, HasRange(r), TimeOff(r)
  PROVE  Rows' /\ RowsStay
<1>1. ASSUME NEW i \in TimeOffId, NEW row \in OffRow \cup {NONE},
             timeOff' = [timeOff EXCEPT ![i] = row],
             UNCHANGED <<catalogue, hours, booked>>
      PROVE  Rows' /\ RowsStay
  BY <1>1 DEF Rows, RowsStay, catalogue, Ordered
<1>2. ASSUME NEW a \in Asked[r], CreateTimeOff(r, a)
      PROVE  Rows' /\ RowsStay
  <2>1. a.id \in TimeOffId /\ a.put \in Window /\ a.staff \in Staff
    BY <1>2, CalendarInputs DEF CreateTimeOff, OffOps
  <2>2. [staff |-> a.staff, start |-> a.put.start, end |-> a.put.end] \in OffRow
    BY <2>1 DEF Window, OffRow
  <2>3. QED
    BY <1>1, <1>2, <2>1, <2>2 DEF CreateTimeOff
<1>3. CASE WriteTimeOff(r) \/ RemoveTimeOff(r)
  <2> DEFINE a == ask[r]
  <2>1. a \in Asked[r] /\ a.op \in {"updateTimeOff", "removeTimeOff"} /\ seen[r] \in OffRow
    BY <1>3 DEF WriteTimeOff, RemoveTimeOff, At, Ops, OpOk, OpsAt, HasRange
  <2>2. a.id \in TimeOffId /\ (a.op = "updateTimeOff" => UpdateTimeOffDto(a.put))
    BY <2>1, CalendarInputs
  <2>3. CASE WriteTimeOff(r)
    BY <1>1, <2>1, <2>2, <2>3, PatchedOff DEF WriteTimeOff
  <2>4. CASE RemoveTimeOff(r)
    BY <1>1, <2>2, <2>4 DEF RemoveTimeOff
  <2>5. QED
    BY <1>3, <2>3, <2>4
<1>4. QED
  BY <1>2, <1>3, SameRowsStay DEF TimeOff, FindTimeOff, TimeOffGone, tables

LEMMA BookedRows ==
  ASSUME Ops, Rows, NEW r \in Request, HasRange(r), HasJob(r), MovesInv, Bookings(r)
  PROVE  Rows' /\ RowsStay
<1> DEFINE a == ask[r]
<1>1. ASSUME NEW new \in BookedRow, booked' \subseteq booked \cup {new},
             UNCHANGED <<catalogue, hours, timeOff>>
      PROVE  Rows' /\ RowsStay
  BY <1>1 DEF Rows, RowsStay, catalogue, Ordered
<1>2. CASE CommitBooking(r)
  <2> DEFINE new == [staff |-> a.staff, service |-> a.service, start |-> a.start,
                     end |-> a.start + job[r].total]
  <2>1. a \in Asked[r] /\ a.op = "book" /\ job[r].total \in Int
    BY <1>2 DEF CommitBooking, At, Ops, OpOk, OpsAt, HasJob, PageSteps
  <2>2. a.staff \in Staff /\ a.service \in Service /\ a.start \in 0..EndOfDay
    BY <2>1, CalendarInputs DEF BookingOps
  <2>3. new \in BookedRow
    BY <2>1, <2>2 DEF BookedRow
  <2>4. \/ UNCHANGED <<catalogue, calendar>>
        \/ booked' = booked \cup {new} /\ UNCHANGED <<catalogue, hours, timeOff>>
    BY <1>2 DEF CommitBooking
  <2>5. QED
    BY <1>1, <2>3, <2>4, SameRowsStay DEF tables
<1>3. CASE CommitMove(r)
  <2>1. seen[r].new \in BookedRow
    BY <1>3 DEF CommitMove, HasRange, MovesInv
  <2>2. QED
    BY <1>1, <1>3, <2>1 DEF CommitMove
<1>4. CASE \E x \in Asked[r] : CancelBooking(r, x)
  <2>1. booked' \subseteq booked /\ UNCHANGED <<catalogue, hours, timeOff>>
    BY <1>4 DEF CancelBooking
  <2>2. QED
    BY <2>1 DEF Rows, RowsStay, catalogue, Ordered
<1>5. CASE \E x \in Asked[r] : BeginBooking(r, x) \/ ConfirmBooking(r, x) \/ MoveBooking(r, x)
  BY <1>5, SameRowsStay DEF BeginBooking, ConfirmBooking, MoveBooking, tables
<1>6. QED
  BY <1>2, <1>3, <1>4, <1>5 DEF Bookings

LEMMA HandleRows ==
  ASSUME Ops, Rows, NEW r \in Request, Has(r), MovesInv, Handle(r)
  PROVE  Rows' /\ RowsStay
<1>1. CASE /\ ServiceCategories(r) \/ Services(r) \/ ServiceChildren(r)
           /\ UNCHANGED calendar
  BY <1>1, CategoryRows, ServiceRows, ChildRows DEF Has
<1>2. CASE WorkingHours(r) \/ TimeOff(r) \/ Bookings(r)
  BY <1>2, HoursRows, OffRows, BookedRows DEF Has
<1>3. CASE Resolve(r) /\ UNCHANGED calendar
  <2>1. PICK found, step, total, fixed : Next1(r, found, step, total, fixed)
    BY <1>3, ResolveNext
  <2>2. UNCHANGED tables
    BY <1>3, <2>1 DEF Next1, tables
  <2>3. QED
    BY <2>2, SameRowsStay
<1>4. CASE ScanPages(r) \/ DelPages(r) \/ DelFails(r) \/ Fail(r) \/ Pages(r)
  BY <1>4, SameRowsStay
     DEF ScanPages, DelPages, DelFails, Fail, Pages, BeginPage, ReadStaff, ReadHours,
         ReadBookings, ReadTimeOff, StorePage, tables
<1>5. QED
  BY <1>1, <1>2, <1>3, <1>4 DEF Handle

-----------------------------------------------------------------------------
(* What the next step of a request has.                                    *)

\* The steps that work on something.
Holding ==
  {"write", "create", "child", "writeChild", "delete", "deleteWait", "insert",
   "timeOff", "commit", "setPage"} \cup PageSteps

LEMMA BeginHas ==
  ASSUME Ops, NEW r \in Request, NEW a, NEW first, Begin(r, a, first), a.op # "move"
  PROVE  /\ at'[r] = first /\ ask'[r] = a /\ a \in Asked[r] /\ ~Moving(r)'
         /\ first \notin Holding => Has(r)'
<1>1. at'[r] = first /\ ask'[r] = a /\ a \in Asked[r]
  BY DEF Begin, Ops, Domains
<1>2. QED
  BY <1>1 DEF Moving, Has, HasRow, HasItems, HasRange, HasJob, HasPage, At, Holding, PageSteps

LEMMA GotoHas ==
  ASSUME Ops, MovesInv, NEW r \in Request, NEW step, Goto(r, step),
         at[r] \notin {"scan", "del", "move"}
  PROVE  /\ at'[r] = step /\ ask'[r] = ask[r] /\ ~Moving(r)'
         /\ step \notin Holding => Has(r)'
<1>1. at'[r] = step /\ ask'[r] = ask[r] /\ ~Moving(r)'
  BY DEF Goto, Ops, Domains, Moving, MovesInv
<1>2. QED
  BY <1>1 DEF Has, HasRow, HasItems, HasRange, HasJob, HasPage, At, Holding, PageSteps

LEMMA EndHas ==
  ASSUME Ops, NEW r \in Request, End(r)
  PROVE  Has(r)'
<1>1. at'[r] = "done" /\ ask'[r] = NONE
  BY DEF End, Ops, Domains
<1>2. QED
  BY <1>1 DEF Moving, Has, HasRow, HasItems, HasRange, HasJob, HasPage, At, PageSteps

LEMMA CategoryHas ==
  ASSUME Ops, Rows, MovesInv, NEW r \in Request, Has(r), ServiceCategories(r)
  PROVE  Has(r)'
<1>1. ASSUME NEW a \in Asked[r], CreateCategory(r, a)
      PROVE  Has(r)'
  BY <1>1, BeginHas DEF CreateCategory, Holding, PageSteps
<1>2. ASSUME NEW a \in Asked[r], CheckCategory(r, a)
      PROVE  Has(r)'
  <2>1. at'[r] = "write" /\ ask'[r] = a /\ ~Moving(r)'
    BY <1>2, BeginHas DEF CheckCategory
  <2>2. a.id \in Category /\ category'[a.id] \in CategoryRow /\ a.op \in CategoryOps
    <3>1. a.id \in Category
      BY <1>2, CatalogueInputs DEF CheckCategory
    <3>2. QED
      BY <1>2, <3>1 DEF CheckCategory, Live, Rows, catalogue, CategoryOps
  <2>3. QED
    BY <2>1, <2>2 DEF Has, HasRow, HasItems, HasRange, HasJob, HasPage, At, PageSteps,
                      CategoryOps, ServiceOps
<1>3. CASE WriteCategory(r)
  BY <1>3, GotoHas DEF WriteCategory, At, Holding, PageSteps
<1>4. QED
  BY <1>1, <1>2, <1>3 DEF ServiceCategories

LEMMA ServicesHave ==
  ASSUME Ops, Rows, MovesInv, NEW r \in Request, Has(r), Services(r)
  PROVE  Has(r)'
<1>1. ASSUME NEW a \in Asked[r],
             CreateService(r, a) \/ CheckItems(r, a) \/ BeginList(r, a)
      PROVE  Has(r)'
  BY <1>1, BeginHas DEF CreateService, CheckItems, BeginList, Holding, PageSteps
<1>2. ASSUME NEW a \in Asked[r], CheckService(r, a)
      PROVE  Has(r)'
  <2>1. at'[r] = "write" /\ ask'[r] = a /\ ~Moving(r)'
    BY <1>2, BeginHas DEF CheckService, ServiceOps
  <2>2. a.id \in Service /\ service'[a.id] \in ServiceRow /\ a.op \in ServiceOps
    <3>1. a.id \in Service
      BY <1>2, CatalogueInputs DEF CheckService, ServiceOps
    <3>2. QED
      BY <1>2, <3>1 DEF CheckService, Live, Rows, catalogue
  <2>3. QED
    BY <2>1, <2>2 DEF Has, HasRow, HasItems, HasRange, HasJob, HasPage, At, PageSteps,
                      CategoryOps, ServiceOps
<1>3. CASE \/ WriteService(r) \/ Unlink(r) \/ UnlinkResumes(r) \/ Relink(r)
           \/ ReadCategories(r) \/ ReadServices(r) \/ ReadIncluded(r)
  <2>1. \E step : Goto(r, step) /\ step \notin Holding
    BY <1>3 DEF WriteService, Unlink, UnlinkResumes, Relink, ReadCategories,
                ReadServices, ReadIncluded, Holding, PageSteps
  <2>2. at[r] \notin {"scan", "del", "move"}
    BY <1>3 DEF WriteService, Unlink, UnlinkResumes, Relink, ReadCategories,
                ReadServices, ReadIncluded, At
  <2>3. QED
    BY <2>1, <2>2, GotoHas
<1>4. CASE BustPublicCache(r) \/ AbortRelink(r) \/ StoreList(r)
  BY <1>4, EndHas DEF BustPublicCache, AbortRelink, StoreList
<1>5. QED
  BY <1>1, <1>2, <1>3, <1>4 DEF Services

LEMMA ChildrenHave ==
  ASSUME Ops, Rows, MovesInv, NEW r \in Request, Has(r), ServiceChildren(r)
  PROVE  Has(r)'
<1>1. ASSUME NEW a \in Asked[r], CheckParent(r, a)
      PROVE  Has(r)'
  <2>1. /\ at'[r] = IF a.op = "createChild" THEN "create" ELSE "child"
        /\ ask'[r] = a /\ ~Moving(r)'
    BY <1>1, BeginHas DEF CheckParent, ChildOps
  <2>2. QED
    BY <2>1 DEF Has, HasRow, HasItems, HasRange, HasJob, HasPage, At, PageSteps
<1>2. CASE CheckChild(r) /\ Live(child[ask[r].id])
  <2>1. at'[r] = "writeChild" /\ ask'[r] = ask[r] /\ ~Moving(r)'
    BY <1>2, GotoHas DEF CheckChild, At
  <2>2. ask[r].op # "createChild" /\ child'[ask[r].id] \in ChildRow
    <3>1. ask[r].op \in ChildOps /\ ask[r] \in Asked[r] /\ ask[r].op # "createChild"
      BY <1>2 DEF CheckChild, At, Ops, OpOk, OpsAt, Has, HasRow
    <3>2. ask[r].id \in Child
      BY <3>1, CatalogueInputs DEF ChildOps
    <3>3. QED
      BY <1>2, <3>1, <3>2 DEF CheckChild, Live, Rows, catalogue
  <2>3. QED
    BY <2>1, <2>2 DEF Has, HasRow, HasItems, HasRange, HasJob, HasPage, At, PageSteps
<1>3. CASE CreateChild(r) \/ WriteChild(r) \/ (CheckChild(r) /\ ~Live(child[ask[r].id]))
  BY <1>3, EndHas DEF CreateChild, WriteChild, CheckChild
<1>4. QED
  BY <1>1, <1>2, <1>3 DEF ServiceChildren

LEMMA HoursHave ==
  ASSUME Ops, MovesInv, NEW r \in Request, Has(r), WorkingHours(r)
  PROVE  Has(r)'
<1>1. ASSUME at'[r] \in {"delete", "deleteWait", "insert"}, ValidItems(ask'[r].items),
             ~Moving(r)'
      PROVE  Has(r)'
  BY <1>1 DEF Has, HasRow, HasItems, HasRange, HasJob, HasPage, At, PageSteps, ValidItems,
              Overlaps
<1>2. ASSUME NEW a \in Asked[r], BeginReplace(r, a)
      PROVE  Has(r)'
  <2>1. at'[r] = "delete" /\ ask'[r] = a /\ ~Moving(r)'
    BY <1>2, BeginHas DEF BeginReplace
  <2>2. QED
    BY <1>1, <1>2, <2>1 DEF BeginReplace
<1>3. CASE DeleteHours(r) \/ DeleteResumes(r)
  <2>1. at[r] \in {"delete", "deleteWait"} /\ \E step \in {"deleteWait", "insert"} : Goto(r, step)
    BY <1>3 DEF DeleteHours, DeleteResumes, At
  <2>2. at'[r] \in {"deleteWait", "insert"} /\ ask'[r] = ask[r] /\ ~Moving(r)'
    BY <2>1, GotoHas
  <2>3. QED
    BY <1>1, <2>1, <2>2 DEF Has, HasItems
<1>4. CASE InsertHours(r)
  BY <1>4, GotoHas DEF InsertHours, At, Holding, PageSteps
<1>5. QED
  BY <1>2, <1>3, <1>4 DEF WorkingHours

LEMMA OffHas ==
  ASSUME Ops, Rows, MovesInv, NEW r \in Request, Has(r), TimeOff(r)
  PROVE  Has(r)'
<1>1. ASSUME NEW a \in Asked[r], CreateTimeOff(r, a)
      PROVE  Has(r)'
  BY <1>1, BeginHas DEF CreateTimeOff, Holding, PageSteps
<1>2. ASSUME NEW a \in Asked[r], FindTimeOff(r, a)
      PROVE  Has(r)'
  <2>1. at'[r] = "timeOff" /\ ask'[r] = a /\ ~Moving(r)'
    BY <1>2, BeginHas DEF FindTimeOff
  <2>2. seen'[r] \in OffRow
    <3>1. a.id \in TimeOffId
      BY <1>2, CalendarInputs DEF FindTimeOff
    <3>2. QED
      BY <1>2, <3>1 DEF FindTimeOff, Rows, Ops, Domains
  <2>3. QED
    BY <2>1, <2>2 DEF Has, HasRow, HasItems, HasRange, HasJob, HasPage, At, PageSteps
<1>3. CASE WriteTimeOff(r) \/ RemoveTimeOff(r)
  BY <1>3, GotoHas DEF WriteTimeOff, RemoveTimeOff, At, Holding, PageSteps
<1>4. CASE TimeOffGone(r)
  BY <1>4, EndHas DEF TimeOffGone
<1>5. QED
  BY <1>1, <1>2, <1>3, <1>4 DEF TimeOff

LEMMA MovedRow ==
  ASSUME NEW row \in BookedRow, NEW start \in 0..EndOfDay, NEW end \in Int
  PROVE  [row EXCEPT !.start = start, !.end = end] \in BookedRow
BY DEF BookedRow

LEMMA BookingHas ==
  ASSUME Ops, Rows, MovesInv, NEW r \in Request, Has(r), Bookings(r)
  PROVE  Has(r)'
<1>1. ASSUME NEW a \in Asked[r], BeginBooking(r, a)
      PROVE  Has(r)'
  <2>1. at'[r] = "service" /\ ask'[r] = a /\ a.op = "book" /\ ~Moving(r)'
    BY <1>1, BeginHas DEF BeginBooking
  <2>2. job'[r].staff \in Staff
    <3>1. a.staff \in Staff
      BY <2>1, CalendarInputs DEF BookingOps
    <3>2. job'[r].staff = a.staff
      BY <1>1 DEF BeginBooking, Ops, MoreDomains
    <3>3. QED
      BY <3>1, <3>2
  <2>3. QED
    BY <2>1, <2>2 DEF Has, HasRow, HasItems, HasRange, HasJob, HasPage, At, PageSteps
<1>2. ASSUME NEW a \in Asked[r], CancelBooking(r, a) \/ ConfirmBooking(r, a)
      PROVE  Has(r)'
  BY <1>2, BeginHas DEF CancelBooking, ConfirmBooking, Holding, PageSteps
<1>3. ASSUME NEW a \in Asked[r], MoveBooking(r, a)
      PROVE  Has(r)'
  <2>1. at'[r] = "scan"
    BY <1>3 DEF MoveBooking, Begin, Ops, Domains
  <2> DEFINE new(b) == [b EXCEPT !.start = a.start, !.end = a.start + (b.end - b.start)]
  <2>2. PICK b \in booked : seen' = [seen EXCEPT ![r] = [old |-> b, new |-> new(b)]]
    BY <1>3 DEF MoveBooking, Taken
  <2>3. new(b) \in BookedRow
    <3>1. a.start \in 0..EndOfDay
      BY <1>3, CalendarInputs DEF MoveBooking
    <3>2. b \in BookedRow
      BY DEF Rows
    <3>3. a.start + (b.end - b.start) \in Int
      BY <3>1, <3>2 DEF BookedRow
    <3>4. QED
      BY <3>1, <3>2, <3>3, MovedRow
  <2>4. seen'[r].new \in BookedRow
    BY <2>2, <2>3 DEF Ops, Domains
  <2>5. QED
    BY <2>1, <2>4 DEF Has, HasRow, HasItems, HasRange, HasJob, HasPage, At, PageSteps
<1>4. CASE CommitBooking(r) \/ CommitMove(r)
  <2>1. End(r) \/ (Goto(r, "scan") /\ at[r] = "commit")
    BY <1>4 DEF CommitBooking, CommitMove, At
  <2>2. QED
    BY <2>1, EndHas, GotoHas DEF Holding, PageSteps
<1>5. QED
  BY <1>1, <1>2, <1>3, <1>4 DEF Bookings

LEMMA DeletionHas ==
  ASSUME Ops, MovesInv, NEW r \in Request, Has(r),
         ScanPages(r) \/ DelPages(r) \/ DelFails(r) \/ Fail(r)
  PROVE  Has(r)'
<1>1. CASE End(r)
  BY <1>1, EndHas
<1>2. CASE ~End(r)
  <2>1. /\ \E step \in {"del", "move"} : Goto(r, step)
        /\ UNCHANGED seen
    BY <1>2 DEF ScanPages, DelPages, DelFails, Fail
  <2>2. at'[r] \in {"del", "move"} /\ ask'[r] = ask[r] /\ seen'[r] = seen[r]
    BY <2>1 DEF Goto, Ops, Domains
  <2>3. QED
    BY <2>2 DEF Has, HasRow, HasItems, HasRange, HasJob, HasPage, At, PageSteps, Moving
<1>3. QED
  BY <1>1, <1>2

LEMMA QueryHas ==
  ASSUME Ops, MovesInv, NEW r \in Request, Has(r), Shape(r),
         at[r] \in {"service", "link", "variant", "addons"},
         NEW step \in (PageSteps \cup {"commit"}) \ {"service"}, NEW total \in Int, NEW fixed,
         Goto(r, step), job' = [job EXCEPT ![r].total = total, ![r].fixed = fixed],
         step = "variant" => Selection(r).variant \in Variant,
         UNCHANGED page
  PROVE  Has(r)'
<1>1. at'[r] = step /\ ask'[r] = ask[r] /\ ~Moving(r)'
  BY GotoHas
<1>2. job'[r].staff = job[r].staff /\ job'[r].total = total
  BY DEF Shape, Ops, MoreDomains
<1>3. HasRow(r)' /\ HasItems(r)' /\ HasRange(r)'
  BY <1>1 DEF HasRow, HasItems, HasRange, At, PageSteps
<1>4. HasJob(r)'
  BY <1>1, <1>2 DEF Has, HasJob, At, PageSteps, Selection
<1>5. HasPage(r)'
  BY <1>1 DEF Has, HasPage, PageSteps
<1>6. QED
  BY <1>3, <1>4, <1>5 DEF Has

LEMMA ResolveHas ==
  ASSUME Ops, Rows, MovesInv, NEW r \in Request, Has(r), Shape(r), Resolve(r),
         page' = IF InFlight(r)' THEN page ELSE [page EXCEPT ![r] = NoPage]
  PROVE  Has(r)'
<1> DEFINE sel == Selection(r)
           Mid == {"service", "link", "variant", "addons"}
           Ahead == (PageSteps \cup {"commit"}) \ {"service"}
<1>1. ASSUME NEW found, NEW step \in Ahead, NEW total, NEW fixed,
             Next1(r, found, step, total, fixed), at[r] \in Mid,
             found => total \in Int, step = "variant" => sel.variant \in Variant
      PROVE  Has(r)'
  <2>1. CASE ~found
    BY <1>1, <2>1, EndHas DEF Next1
  <2>2. CASE found
    <3>1. Goto(r, step) /\ job' = [job EXCEPT ![r].total = total, ![r].fixed = fixed]
      BY <1>1, <2>2 DEF Next1
    <3>2. UNCHANGED page
      BY <1>1, <3>1 DEF Goto, InFlight, Ops, Domains, PageSteps
    <3>3. QED
      BY <1>1, <2>2, <3>1, <3>2, QueryHas
  <2>3. QED
    BY <2>1, <2>2
<1>2. at[r] \in Mid
  BY DEF Resolve, ReadService, ReadLink, ReadVariant, ReadAddons, At
<1>3. SelectionDto(sel)
  <2>1. ask[r] \in Asked[r] /\ ask[r].op \in {"page", "book"}
    BY <1>2 DEF Ops, OpOk, OpsAt
  <2>2. QED
    BY <2>1, CalendarInputs DEF Selection
<1>4. Resolved(r) \in {"hours", "commit"}
  BY DEF Resolved
<1>5. AfterVariant(r) \in {"addons", "hours", "commit"}
  BY <1>4 DEF AfterVariant
<1>6. AfterLink(r) \in {"variant", "addons", "hours", "commit"}
      /\ (AfterLink(r) = "variant" => sel.variant \in Variant)
  BY <1>3, <1>5 DEF AfterLink, SelectionDto
<1>7. CASE ReadService(r)
  <2> DEFINE row == service[sel.service]
  <2>1. Bookable(row) => row.len \in Int
    BY <1>3 DEF SelectionDto, Rows, Bookable, Live, ServiceRow
  <2>2. Next1(r, Bookable(row), "link", row.len, FALSE)
    BY <1>7 DEF ReadService
  <2>3. "link" \in Ahead
    BY DEF PageSteps
  <2> HIDE DEF row
  <2>4. QED
    BY <1>1, <1>2, <2>1, <2>2, <2>3
<1>8. CASE ReadLink(r)
  <2> DEFINE row == link[job[r].staff][sel.service]
             found == row # NONE /\ row.active /\ row.online
             total == IF row.len # NONE THEN row.len ELSE job[r].total
  <2>1. job[r].staff \in Staff /\ job[r].total \in Int
    BY <1>8 DEF ReadLink, At, Has, HasJob, PageSteps
  <2>2. found => total \in Int
    BY <1>3, <2>1, SMTT(30) DEF SelectionDto, Rows, LinkRow
  <2>3. Next1(r, found, AfterLink(r), total, row.len # NONE)
    BY <1>8 DEF ReadLink
  <2>4. AfterLink(r) \in Ahead
    BY <1>6 DEF PageSteps
  <2> HIDE DEF found, total
  <2>5. QED
    BY <1>1, <1>2, <1>6, <2>2, <2>3, <2>4
<1>9. CASE ReadVariant(r)
  <2> DEFINE total == IF job[r].fixed THEN job[r].total ELSE child[sel.variant].len
  <2>1. job[r].total \in Int /\ sel.variant \in Variant
    BY <1>9 DEF ReadVariant, At, Has, HasJob, PageSteps
  <2>2. Offered(sel.variant, sel) => total \in Int
    BY <2>1 DEF Offered, Bookable, Live, Rows, Child, ChildRow
  <2>3. Next1(r, Offered(sel.variant, sel), AfterVariant(r), total, job[r].fixed)
    BY <1>9 DEF ReadVariant
  <2>4. AfterVariant(r) \in Ahead /\ AfterVariant(r) # "variant"
    BY <1>5 DEF PageSteps
  <2>5. QED
    BY <1>1, <1>2, <2>2, <2>3, <2>4
<1>10. CASE ReadAddons(r)
  <2> DEFINE found == \A x \in sel.addons : Offered(x, sel)
             total == job[r].total + SumOfLengths(sel.addons)
  <2>1. job[r].total \in Int
    BY <1>10 DEF ReadAddons, At, Has, HasJob, PageSteps
  <2>2. found => total \in Int
    <3>1. SUFFICES ASSUME found PROVE SumOfLengths(sel.addons) \in Int
      BY <2>1
    <3>2. \A x \in sel.addons : child[x].len \in Int
      BY <1>3, <3>1 DEF SelectionDto, Offered, Bookable, Live, Rows, Child, ChildRow
    <3>3. [x \in sel.addons |-> child[x].len] \in [sel.addons -> Int]
      BY <3>2
    <3>4. QED
      BY <1>3, <3>3, SumIsInt DEF SelectionDto, SumOfLengths
  <2>3. Next1(r, found, Resolved(r), total, job[r].fixed)
    BY <1>10 DEF ReadAddons
  <2>4. Resolved(r) \in Ahead /\ Resolved(r) # "variant"
    BY <1>4 DEF PageSteps
  <2>5. QED
    BY <1>1, <1>2, <2>2, <2>3, <2>4
<1>11. QED
  BY <1>7, <1>8, <1>9, <1>10 DEF Resolve

LEMMA TurnHas ==
  ASSUME Ops, MovesInv, NEW r \in Request, NEW todo \in SUBSET Staff, NEW done, IsPage(done),
         Turn(r, todo, done), at[r] \notin {"scan", "del", "move"}
  PROVE  Has(r)'
<1>1. page'[r].todo = todo /\ page'[r].done = done
  BY DEF Turn, NoPage, Ops, MoreDomains
<1>2. CASE todo = {}
  <2>1. at'[r] = "setPage" /\ ~Moving(r)'
    BY <1>2, GotoHas DEF Turn
  <2>2. QED
    BY <1>1, <2>1 DEF Has, HasRow, HasItems, HasRange, HasJob, HasPage, At, PageSteps
<1>3. CASE todo # {}
  <2>1. PICK t \in todo : job' = [job EXCEPT ![r] = [NoJob EXCEPT !.staff = t]]
    BY <1>3 DEF Turn
  <2>2. job'[r].staff \in Staff
    BY <2>1 DEF NoJob, Ops, MoreDomains
  <2>3. at'[r] = "service" /\ ~Moving(r)'
    BY <1>3, GotoHas DEF Turn
  <2>4. QED
    BY <1>1, <2>2, <2>3
       DEF Has, HasRow, HasItems, HasRange, HasJob, HasPage, At, PageSteps
<1>4. QED
  BY <1>2, <1>3

LEMMA ResultIsPage ==
  ASSUME NEW r \in Request, IsPage(page[r].done), job[r].staff \in Staff,
         job[r].total \in Int, NEW slots \in SUBSET Nat
  PROVE  IsPage(Result(r, slots))
<1>1. PICK T \in SUBSET Staff : page[r].done \in [T -> OfferRow]
  BY DEF IsPage
<1>2. [total |-> job[r].total, slots |-> slots] \in OfferRow
  BY DEF OfferRow
<1>3. Result(r, slots) \in [T \cup {job[r].staff} -> OfferRow]
  BY <1>1, <1>2 DEF Result
<1>4. QED
  BY <1>3 DEF IsPage

LEMMA SlotsAreNat ==
  ASSUME NEW week, NEW taken, NEW total \in Int
  PROVE  Slots(week, taken, total) \in SUBSET Nat
BY AvailabilityAssumption DEF AvailabilityAssumption, Slots

LEMMA PagesHave ==
  ASSUME Ops, MovesInv, NEW r \in Request, Has(r), Shape(r), Pages(r)
  PROVE  Has(r)'
<1> DEFINE Counts == {"hours", "bookings", "off"}
<1>1. at[r] \in Counts => /\ page[r].todo \subseteq Staff /\ IsPage(page[r].done)
                          /\ job[r].staff \in Staff /\ job[r].total \in Int
  <2>1. at[r] \in Counts => ask[r].op = "page"
    BY DEF Ops, OpOk, OpsAt
  <2>2. QED
    BY <2>1 DEF Has, HasJob, HasPage, PageSteps
<1>2. ASSUME NEW slots \in SUBSET Nat, TurnAfter(r, slots), at[r] \in Counts
      PROVE  Has(r)'
  <2>1. IsPage(Result(r, slots))
    BY <1>1, <1>2, ResultIsPage
  <2>2. page[r].todo \ {job[r].staff} \in SUBSET Staff
    BY <1>1, <1>2
  <2>3. QED
    BY <1>2, <2>1, <2>2, TurnHas DEF TurnAfter
<1>3. ASSUME NEW step \in {"bookings", "off"}, Goto(r, step), at[r] \in Counts,
             UNCHANGED job, page'[r].todo = page[r].todo, page'[r].done = page[r].done
      PROVE  Has(r)'
  <2>1. at'[r] = step /\ ask'[r] = ask[r] /\ ~Moving(r)'
    BY <1>3, GotoHas
  <2>2. QED
    BY <1>1, <1>3, <2>1
       DEF Has, HasRow, HasItems, HasRange, HasJob, HasPage, At, PageSteps
<1>4. ASSUME NEW a \in Asked[r], BeginPage(r, a)
      PROVE  Has(r)'
  BY <1>4, BeginHas DEF BeginPage, Holding, PageSteps
<1>5. CASE ReadStaff(r)
  <2>1. Online(ask[r].key) \in SUBSET Staff
    BY DEF Online
  <2>2. IsPage(NoOffer)
    <3>1. NoOffer \in [{} -> OfferRow]
      BY DEF NoOffer
    <3>2. QED
      BY <3>1 DEF IsPage
  <2>3. QED
    BY <1>5, <2>1, <2>2, TurnHas DEF ReadStaff, At
<1>6. CASE ReadHours(r)
  <2>1. CASE Windows(job[r].staff) = {}
    BY <1>2, <1>6, <2>1 DEF ReadHours, At
  <2>2. CASE Windows(job[r].staff) # {}
    <3>1. page' = [page EXCEPT ![r].week = Windows(job[r].staff)]
      BY <1>6, <2>2 DEF ReadHours
    <3>2. page'[r].todo = page[r].todo /\ page'[r].done = page[r].done
      BY <3>1 DEF Ops, MoreDomains, Shape
    <3>3. QED
      BY <1>3, <1>6, <2>2, <3>2 DEF ReadHours, At
  <2>3. QED
    BY <2>1, <2>2
<1>7. CASE ReadBookings(r)
  <2>1. page'[r].todo = page[r].todo /\ page'[r].done = page[r].done
    BY <1>7 DEF ReadBookings, Ops, MoreDomains, Shape
  <2>2. QED
    BY <1>3, <1>7, <2>1 DEF ReadBookings, At
<1>8. CASE ReadTimeOff(r)
  <2>1. at[r] = "off"
    BY <1>8 DEF ReadTimeOff, At
  <2>2. Slots(page[r].week, page[r].taken \cup Off(job[r].staff), job[r].total) \in SUBSET Nat
    BY <1>1, <2>1, SlotsAreNat
  <2>3. QED
    BY <1>2, <1>8, <2>1, <2>2 DEF ReadTimeOff
<1>9. CASE StorePage(r)
  BY <1>9, EndHas DEF StorePage
<1>10. QED
  BY <1>4, <1>5, <1>6, <1>7, <1>8, <1>9 DEF Pages

LEMMA HandleHas ==
  ASSUME Ops, Rows, MovesInv, NEW r \in Request, Has(r), Shape(r), Handle(r)
  PROVE  Has(r)'
BY CategoryHas, ServicesHave, ChildrenHave, ResolveHas, HoursHave, OffHas, BookingHas,
   DeletionHas, PagesHave DEF Handle

-----------------------------------------------------------------------------
(* The invariant.                                                          *)

OpenPages == \A k \in PageKey : cached[k] # MISS => IsPage(cached[k].json)

\* The variables of requests, and what history says, are functions and sets.
Variables ==
  /\ at \in [Request -> {"idle", "done"} \cup Steps]
  /\ scanned \in [Request -> SUBSET Key]
  /\ overtaken \in [Request -> SUBSET Request]
  /\ excused \subseteq Present

Typed ==
  /\ Rows
  /\ \A r \in Request : Has(r) /\ Shape(r)
  /\ OpenPages
  /\ Variables

LEMMA AtMoves ==
  ASSUME NEW r \in Request, Handle(r)
  PROVE  \E step : at' = [at EXCEPT ![r] = step]
<1> DEFINE Goes == \E step : Goto(r, step)
           Begins == \E a, step : Begin(r, a, step)
<1>1. SUFFICES Goes \/ Begins \/ End(r)
  BY DEF Goto, Begin, End
<1>2. CASE ServiceCategories(r) \/ Services(r) \/ ServiceChildren(r)
  BY <1>2
     DEF ServiceCategories, CreateCategory, CheckCategory, WriteCategory,
         Services, CreateService, CheckService, CheckItems, BeginList,
         WriteService, BustPublicCache, Unlink, UnlinkResumes, Relink, AbortRelink,
         ReadCategories, ReadServices, ReadIncluded, StoreList,
         ServiceChildren, CheckParent, CreateChild, CheckChild, WriteChild
<1>3. CASE Resolve(r)
  BY <1>3, ResolveNext DEF Next1
<1>4. CASE WorkingHours(r) \/ TimeOff(r) \/ ScanPages(r) \/ DelPages(r) \/ DelFails(r) \/ Fail(r)
  BY <1>4
     DEF WorkingHours, BeginReplace, DeleteHours, DeleteResumes, InsertHours,
         TimeOff, CreateTimeOff, FindTimeOff, WriteTimeOff, RemoveTimeOff, TimeOffGone,
         ScanPages, DelPages, DelFails, Fail
<1>5. CASE Bookings(r)
  BY <1>5
     DEF Bookings, BeginBooking, CancelBooking, ConfirmBooking, MoveBooking,
         CommitBooking, CommitMove
<1>6. CASE Pages(r)
  <2>1. \A todo, done : Turn(r, todo, done) => Goes
    BY DEF Turn
  <2>2. QED
    BY <1>6, <2>1
       DEF Pages, BeginPage, ReadStaff, ReadHours, ReadBookings, ReadTimeOff,
           TurnAfter, StorePage
<1>7. QED
  BY <1>2, <1>3, <1>4, <1>5, <1>6 DEF Handle

LEMMA ScannedMoves ==
  ASSUME NEW r \in Request, Handle(r)
  PROVE  \/ UNCHANGED scanned
         \/ \E keys \in SUBSET Key : scanned' = [scanned EXCEPT ![r] = keys]
<1> USE DEF cacheVars
<1>1. CASE ServiceCategories(r) \/ Services(r) \/ ServiceChildren(r)
  BY <1>1
     DEF ServiceCategories, CreateCategory, CheckCategory, WriteCategory,
         Services, CreateService, CheckService, CheckItems, BeginList,
         WriteService, BustPublicCache, DelKeys, Unlink, UnlinkResumes, Relink, AbortRelink,
         ReadCategories, ReadServices, ReadIncluded, StoreList, SetJson,
         ServiceChildren, CheckParent, CreateChild, CheckChild, WriteChild
<1>2. CASE Resolve(r)
  BY <1>2, ResolveNext DEF Next1
<1>3. CASE WorkingHours(r) \/ TimeOff(r) \/ Bookings(r)
  BY <1>3
     DEF WorkingHours, BeginReplace, DeleteHours, DeleteResumes, InsertHours,
         TimeOff, CreateTimeOff, FindTimeOff, WriteTimeOff, RemoveTimeOff, TimeOffGone,
         Bookings, BeginBooking, CancelBooking, ConfirmBooking, MoveBooking,
         CommitBooking, CommitMove
<1>4. CASE ScanPages(r) \/ DelPages(r) \/ DelFails(r) \/ Fail(r)
  <2>1. Present \cap Prefix(r) \in SUBSET Key
    BY DEF Present
  <2>2. QED
    BY <1>4, <2>1 DEF ScanPages, Scan, DelPages, Del, DelFails, Fail
<1>5. CASE Pages(r)
  BY <1>5 DEF Pages, BeginPage, ReadStaff, ReadHours, ReadBookings, ReadTimeOff, StorePage,
              SetJson
<1>6. QED
  BY <1>1, <1>2, <1>3, <1>4, <1>5, SMTT(30) DEF Handle

LEMMA PagesStay ==
  ASSUME Ops, OpenPages, NEW r \in Request, Has(r), Handle(r)
  PROVE  OpenPages'
<1> SUFFICES ASSUME NEW k \in PageKey, cached'[k] # MISS PROVE IsPage(cached'[k].json)
  BY DEF OpenPages, IsPage
<1>1. k \in Key
  BY AvailabilityAssumption DEF AvailabilityAssumption
<1>2. CASE Stores(r) /\ k = ask[r].key
  <2>1. at[r] = "setPage" /\ ask[r].op = "page"
    <3>1. at[r] \in {"setList", "setPage"} /\ ask[r] \in Asked[r] /\ ask[r].op \in OpsAt(at[r])
      BY <1>2 DEF Stores, Ops, OpOk
    <3>2. k \notin {ServicesKey, CategoriesKey}
      BY AvailabilityAssumption DEF AvailabilityAssumption
    <3>3. QED
      BY <1>2, <3>1, <3>2, InputKeys DEF OpsAt
  <2>2. IsPage(page[r].done)
    BY <2>1 DEF Has, HasPage
  <2>3. cached'[k].json = page[r].done
    <3>1. PICK expires : cached' = [cached EXCEPT ![ask[r].key] =
                           [json |-> page[r].done, expires |-> expires]]
      BY <1>2, <2>1, CacheMoves DEF At
    <3>2. QED
      BY <1>1, <1>2, <3>1 DEF Ops, MoreDomains
  <2>4. QED
    BY <2>2, <2>3
<1>3. CASE ~(Stores(r) /\ k = ask[r].key)
  BY <1>1, <1>3, CacheMoves DEF OpenPages, Ops, MoreDomains
<1>4. QED
  BY <1>2, <1>3

LEMMA VariablesStay ==
  ASSUME Ops, Variables, NEW r \in Request, Handle(r), Remember(r)
  PROVE  Variables'
<1>1. at' \in [Request -> {"idle", "done"} \cup Steps]
  <2>1. at'[r] \in {"idle", "done"} \cup Steps
    BY HandleOk DEF OpOk, OpsAt, Steps
  <2>2. QED
    BY <2>1, AtMoves DEF Variables
<1>2. scanned' \in [Request -> SUBSET Key]
  BY ScannedMoves DEF Variables
<1>3. overtaken' \in [Request -> SUBSET Request] /\ excused' \subseteq Present'
  BY DEF Remember, Variables, Present
<1>4. QED
  BY <1>1, <1>2, <1>3 DEF Variables

LEMMA TypedStep ==
  ASSUME Inv, Inv', Ops, Typed, NEW r \in Request, Handle(r), Remember(r)
  PROVE  Typed'
<1>1. MovesInv /\ Domains'
  BY DEF Inv
<1>2. Rows' /\ RowsStay
  BY <1>1, HandleRows DEF Typed
<1>3. Has(r)' /\ Shape(r)'
  BY <1>1, HandleHas, ShapeStays DEF Typed
<1>4. \A q \in Request \ {r} : Has(q)' /\ Shape(q)'
  BY <1>1, <1>2, HandleOps, OthersHave DEF Typed
<1>5. OpenPages' /\ Variables'
  BY PagesStay, VariablesStay DEF Typed
<1>6. QED
  BY <1>2, <1>3, <1>4, <1>5 DEF Typed

LEMMA SameHas ==
  ASSUME NEW r \in Request, UNCHANGED <<tables, progress, page>>, Has(r), Shape(r)
  PROVE  Has(r)' /\ Shape(r)'
BY DEF tables, catalogue, calendar, progress, Shape, Has, HasRow, HasItems, HasRange, HasJob,
       HasPage, At, Moving, Selection, ValidItems, Overlaps, IsPage

LEMMA TypedLapse ==
  ASSUME Ops, Typed, NEW j \in Key, Lapse(j)
  PROVE  Typed'
<1>1. /\ cached' = [cached EXCEPT ![j] = MISS] /\ excused' = excused \ {j}
      /\ UNCHANGED <<tables, progress, page, scanned, overtaken>>
  BY DEF Lapse, Expire
<1>2. Rows' /\ \A r \in Request : Has(r)' /\ Shape(r)'
  BY <1>1, SameRowsStay, SameHas DEF Typed
<1>3. OpenPages'
  <2>1. \A k \in Key : cached'[k] \in {MISS, cached[k]}
    BY <1>1 DEF Ops, MoreDomains
  <2>2. PageKey \subseteq Key
    BY AvailabilityAssumption DEF AvailabilityAssumption
  <2>3. QED
    BY <2>1, <2>2 DEF Typed, OpenPages, IsPage
<1>4. Variables'
  <2>1. Present' = Present \ {j}
    BY <1>1 DEF Present, Ops, MoreDomains
  <2>2. QED
    BY <1>1, <2>1 DEF Typed, Variables, progress
<1>5. QED
  BY <1>2, <1>3, <1>4 DEF Typed

LEMMA TypedStutter ==
  ASSUME Typed, UNCHANGED vars
  PROVE  Typed'
<1>1. UNCHANGED <<tables, progress, page, cached, scanned, overtaken, excused>>
  BY DEF vars, cacheVars
<1>2. Rows' /\ \A r \in Request : Has(r)' /\ Shape(r)'
  BY <1>1, SameRowsStay, SameHas DEF Typed
<1>3. OpenPages' /\ Variables'
  BY <1>1 DEF Typed, OpenPages, IsPage, Variables, Present, progress
<1>4. QED
  BY <1>2, <1>3 DEF Typed

LEMMA TypedNext == Inv /\ Inv' /\ CacheInv /\ Typed /\ [Next]_vars => Typed'
BY TypedStep, TypedLapse, TypedStutter DEF CacheInv, Next, Finished

LEMMA TypedInit == Init => Typed
<1> SUFFICES ASSUME Init PROVE Typed
  OBVIOUS
<1>1. Rows
  <2>1. PICK t \in Start : /\ category = t.category /\ service = t.service
                           /\ child = t.child /\ link = t.link
                           /\ hours = t.hours /\ timeOff = t.timeOff /\ booked = t.booked
    BY DEF Init
  <2>2. QED
    BY <2>1, AvailabilityAssumption DEF AvailabilityAssumption, Rows
<1>2. \A r \in Request : Has(r) /\ Shape(r)
  <2>1. \A r \in Request : at[r] = "idle" /\ ask[r] = NONE /\ job[r] = NoJob /\ page[r] = NoPage
    BY DEF Init
  <2>2. QED
    BY <2>1 DEF Shape, Has, HasRow, HasItems, HasRange, HasJob, HasPage, At, Moving, PageSteps,
                NoJob, NoPage
<1>3. OpenPages /\ Variables
  <2>1. PageKey \subseteq Key
    BY AvailabilityAssumption DEF AvailabilityAssumption
  <2>2. QED
    BY <2>1 DEF Init, CacheInit, OpenPages, Variables
<1>4. QED
  BY <1>1, <1>2, <1>3 DEF Typed

LEMMA TypedAlways == Spec => [](CacheInv /\ Typed)
<1>1. Init => CacheInv /\ Typed
  BY CacheInitInv, TypedInit
<1>2. Spec => []CacheInv
  BY CacheInitInv, CacheNext, Invariance, PTL DEF Spec
<1>3. QED
  BY <1>1, <1>2, TypedNext, Invariance, PTL DEF Spec

-----------------------------------------------------------------------------
(* The theorems.                                                           *)

\* Whatever requests do to each other's rows between a check and the write that
\* relies on it, the tables hold rows of their declared types, working hours end
\* after they start, and a request in flight is one that may have been asked.
THEOREM TypeCorrect == Spec => []TypeOK
<1>1. CacheInv /\ Typed => TypeOK
  <2> SUFFICES ASSUME CacheInv, Typed PROVE TypeOK
    OBVIOUS
  <2>1. \A r \in Request : /\ ask[r] = NONE \/ ask[r] \in Asked[r]
                           /\ InFlight(r) <=> ask[r] # NONE
    <3>1. \A r \in Request : NONE \notin Asked[r]
      BY AvailabilityAssumption DEF AvailabilityAssumption
    <3>2. QED
      BY <3>1 DEF CacheInv, Ops, OpOk, Typed, Shape, InFlight
  <2>2. QED
    BY <2>1 DEF Typed, Rows, Variables, TypeOK
<1>2. QED
  BY <1>1, TypedAlways, PTL

\* Every slot of a stored page that no event has made untrue lies in the working
\* hours of its member of staff and in nothing that is booked or off: the page
\* is what would be computed now, and the lengths in it are numbers.
THEOREM OfferedFree == Spec => []OfferedSlotsAreFree
<1>1. CacheInv /\ Typed => OfferedSlotsAreFree
  <2> SUFFICES ASSUME CacheInv, Typed, NEW k \in PageKey, cached[k] # MISS, k \notin excused,
                      ~DeletionDue(k), NEW t \in DOMAIN cached[k].json,
                      NEW start \in cached[k].json[t].slots
               PROVE  LET offer == cached[k].json[t] IN
                      /\ Ticks(start, start + offer.total) \subseteq TicksOf(Windows(t))
                      /\ Ticks(start, start + offer.total)
                           \cap TicksOf(Taken(t) \cup Off(t)) = {}
    BY DEF OfferedSlotsAreFree
  <2>1. k \in Key
    BY AvailabilityAssumption DEF AvailabilityAssumption
  <2>2. cached[k].json = PageNow(k)
    <3>1. cached[k].json = Now(k)
      BY <2>1 DEF CacheInv, Explained, Deletes, DeletionDue
    <3>2. QED
      BY <3>1, NowOf
  <2>3. PageNow(k) # REFUSED
    <3>1. PICK T \in SUBSET Staff : PageNow(k) \in [T -> OfferRow]
      BY <2>2 DEF Typed, OpenPages, IsPage
    <3>2. QED
      BY <3>1, AvailabilityAssumption DEF AvailabilityAssumption
  <2>4. PageNow(k) = [u \in Online(k) |-> Offer(k, u)]
    BY <2>3 DEF PageNow
  <2>5. /\ t \in Online(k)
        /\ cached[k].json[t].total = TotalMin(k, t)
        /\ cached[k].json[t].slots =
             Slots(Windows(t), Taken(t) \cup Off(t), TotalMin(k, t))
    BY <2>2, <2>4 DEF Offer
  <2>6. t \in Staff
    BY <2>5 DEF Online
  <2>7. TotalMin(k, t) \in Int
    <3>1. PICK T \in SUBSET Staff : cached[k].json \in [T -> OfferRow]
      BY DEF Typed, OpenPages, IsPage
    <3>2. cached[k].json[t] \in OfferRow
      BY <3>1
    <3>3. QED
      BY <2>5, <3>2 DEF OfferRow
  <2>8. Windows(t) \in SUBSET Window
    BY <2>6 DEF Typed, Rows, HoursRow, Window, Windows
  <2>9. EndOfDay \in Int
    BY AvailabilityAssumption DEF AvailabilityAssumption
  <2>10. ASSUME NEW b \in Taken(t) \cup Off(t)
         PROVE  b.start \in Int /\ b.end \in Int
    BY <2>9 DEF Typed, Rows, Taken, Off, BookedRow, OffRow
  <2> DEFINE taken == Taken(t) \cup Off(t)
  <2>11. start \in Slots(Windows(t), taken, TotalMin(k, t))
    BY <2>5
  <2>12. /\ Ticks(start, start + TotalMin(k, t)) \subseteq TicksOf(Windows(t))
         /\ Ticks(start, start + TotalMin(k, t)) \cap TicksOf(taken) = {}
    <3> HIDE DEF taken
    <3>1. \A b \in taken : b.start \in Int /\ b.end \in Int
      BY <2>10 DEF taken
    <3>2. QED
      BY <2>7, <2>8, <2>11, <3>1, SlotsAreFree
  <2>13. QED
    BY <2>5, <2>12
<1>2. QED
  BY <1>1, TypedAlways, PTL

=============================================================================
