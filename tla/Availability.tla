---------------------------- MODULE Availability ----------------------------
(***************************************************************************)
(* Availability pages (apps/api/src/availability): the slots in which a    *)
(* service can be booked.  A page that is not cached is computed from the  *)
(* tables, query by query and one member of staff after the other, and     *)
(* then stored, while catalogue and calendar change and other requests     *)
(* delete pages.  This module composes ServiceCatalog and StaffCalendar    *)
(* with the pages, and states what a cached value may differ by from what  *)
(* would be computed now.                                                  *)
(***************************************************************************)
EXTENDS StaffCalendar

CONSTANTS
  IntervalMin,  \* ticks between two slots
  MaxFaults,    \* bound on failures
  REFUSED,      \* what a page would be when the request for it fails
  Start         \* the tables a behaviour may start from

\* What a page has for a member of staff.
OfferRow == [total: Int, slots: SUBSET Nat]

\* A page is asked for by its key, which stands for the whole query.
AvailabilityQueryDto(a) ==
  a.op = "page" /\ a.key \in PageKey /\ SelectionDto(a.key)

ASSUME AvailabilityAssumption ==
  /\ Staff # {} /\ NONE \notin Staff
  /\ Key = PageKey \cup {ServicesKey, CategoriesKey}
  /\ ServicesKey # CategoriesKey
  /\ {ServicesKey, CategoriesKey} \cap PageKey = {}
  /\ IntervalMin \in Nat \ {0}
  /\ EndOfDay \in Nat
  /\ MaxFaults \in Nat
  /\ MaxOpen \in Nat
  /\ ServiceOf \in [Child -> Service]
  /\ \A r \in Request : NONE \notin Asked[r]
  /\ \A r \in Request : \A a \in Asked[r] :
       CatalogueInput(a) \/ AvailabilityQueryDto(a) \/ CalendarInput(a)
  /\ \A T \in SUBSET Staff : REFUSED \notin [T -> OfferRow]
  /\ Start \subseteq
       [category: [Category -> CategoryRow \cup {NONE}],
        service: [Service -> ServiceRow \cup {NONE}],
        child: [Child -> ChildRow \cup {NONE}],
        link: [Staff -> [Service -> LinkRow \cup {NONE}]],
        hours: [Staff -> SUBSET HoursRow],
        timeOff: [TimeOffId -> OffRow \cup {NONE}],
        booked: SUBSET BookedRow]
  /\ \A t \in Start : /\ \A m \in Staff : \A w \in t.hours[m] : Ordered(w)
                      /\ Sound(t.timeOff, t.booked)

VARIABLES
  page,       \* the staff a page request still has to do, and its results
  faults,
  overtaken,  \* the requests that committed since the first query of one
  excused     \* keys whose stored value a later event may have made untrue

tables == <<catalogue, calendar>>
vars == <<cacheVars, tables, progress, page, faults, overtaken, excused>>

NoOffer == [t \in {} |-> {}]
NoPage == [todo |-> {}, done |-> NoOffer, week |-> {}, taken |-> {}]

-----------------------------------------------------------------------------
(* The computation of a page.                                              *)

\* The staff a page is about.
Online(sel) ==
  {t \in Staff : LET l == link[t][sel.service] IN
                   l # NONE /\ l.active /\ l.online}

Windows(t) == {[start |-> w.start, end |-> w.end] : w \in hours[t]}

Off(t) ==
  {[start |-> timeOff[i].start, end |-> timeOff[i].end] :
     i \in {i \in TimeOffId : timeOff[i] # NONE /\ timeOff[i].staff = t}}

\* Mutated form of Slots: only the start of a slot must be free.
SlotsWithFreeStart(week, taken, total) ==
  {t \in 0..(EndOfDay - total) :
     /\ \E w \in week : /\ w.start <= t
                        /\ t + total <= w.end
                        /\ (t - w.start) % IntervalMin = 0
     /\ \A b \in taken : ~(b.start <= t /\ t < b.end)}

\* Every start on the grid of a window, once, whose end is in the window and
\* that overlaps nothing.
Slots(week, taken, total) ==
  {t \in 0..(EndOfDay - total) :
     LET slot == [start |-> t, end |-> t + total] IN
       /\ \E w \in week : /\ w.start <= t
                          /\ slot.end <= w.end
                          /\ (t - w.start) % IntervalMin = 0
       /\ \A b \in taken : ~Overlaps(slot, b)}

\* The page as the tables are now.
Offer(sel, t) ==
  [total |-> TotalMin(sel, t),
   slots |-> Slots(Windows(t), Taken(t) \cup Off(t), TotalMin(sel, t))]

PageNow(sel) ==
  IF \E t \in Online(sel) : ~Resolves(sel, t) THEN REFUSED
  ELSE [t \in Online(sel) |-> Offer(sel, t)]

BeginPage(r, a) ==
  /\ a.op = "page"
  /\ GetJson(a.key) = MISS
  /\ Begin(r, a, "staff")
  /\ UNCHANGED <<tables, job, seen, page, cacheVars>>

\* The next member of staff, or the page is complete.
Turn(r, todo, done) ==
  /\ page' = [page EXCEPT ![r] = [NoPage EXCEPT !.todo = todo, !.done = done]]
  /\ IF todo = {}
       THEN job' = [job EXCEPT ![r] = NoJob] /\ Goto(r, "setPage")
       ELSE /\ \E t \in todo : job' = [job EXCEPT ![r] = [NoJob EXCEPT !.staff = t]]
            /\ Goto(r, "service")

ReadStaff(r) ==
  /\ At(r, "staff")
  /\ Turn(r, Online(ask[r].key), NoOffer)
  /\ UNCHANGED <<tables, seen, cacheVars>>

\* The member of staff at hand is done.
Result(r, slots) ==
  [t \in DOMAIN page[r].done \cup {job[r].staff} |->
     IF t = job[r].staff THEN [total |-> job[r].total, slots |-> slots]
     ELSE page[r].done[t]]

TurnAfter(r, slots) == Turn(r, page[r].todo \ {job[r].staff}, Result(r, slots))

\* No working hours on the day: no slots, and no further query.
ReadHours(r) ==
  /\ At(r, "hours")
  /\ LET week == Windows(job[r].staff) IN
       IF week = {} THEN TurnAfter(r, {})
       ELSE /\ page' = [page EXCEPT ![r].week = week]
            /\ Goto(r, "bookings")
            /\ UNCHANGED job
  /\ UNCHANGED <<tables, seen, cacheVars>>

ReadBookings(r) ==
  /\ At(r, "bookings")
  /\ page' = [page EXCEPT ![r].taken = Taken(job[r].staff)]
  /\ Goto(r, "off")
  /\ UNCHANGED <<tables, job, seen, cacheVars>>

ReadTimeOff(r) ==
  /\ At(r, "off")
  /\ TurnAfter(r, Slots(page[r].week, page[r].taken \cup Off(job[r].staff),
                        job[r].total))
  /\ UNCHANGED <<tables, seen, cacheVars>>

StorePage(r) ==
  /\ At(r, "setPage")
  /\ SetJson(ask[r].key, page[r].done)
  /\ End(r)
  /\ page' = [page EXCEPT ![r] = NoPage]
  /\ UNCHANGED tables

-----------------------------------------------------------------------------
(* The system.                                                             *)

Steps ==
  {"write", "bust", "create", "child", "writeChild", "unlink", "unlinkWait",
   "relink", "services", "included", "categories", "setList",
   "service", "link", "variant", "addons", "commit", "move",
   "delete", "deleteWait", "insert", "timeOff", "scan", "del", "staff",
   "hours", "bookings", "off", "setPage"}

\* A call of the database or of Redis fails, or the process dies: what is
\* not committed is rolled back, and what should follow does not happen.
Fail(r) ==
  /\ InFlight(r)
  /\ faults < MaxFaults
  /\ faults' = faults + 1
  /\ End(r)
  /\ page' = [page EXCEPT ![r] = NoPage]
  /\ scanned' = [scanned EXCEPT ![r] = {}]
  /\ UNCHANGED <<tables, cached>>

ServiceCategories(r) ==
  \/ \E a \in Asked[r] : CreateCategory(r, a) \/ CheckCategory(r, a)
  \/ WriteCategory(r)

Services(r) ==
  \/ \E a \in Asked[r] :
       CreateService(r, a) \/ CheckService(r, a) \/ CheckItems(r, a) \/ BeginList(r, a)
  \/ WriteService(r) \/ BustPublicCache(r)
  \/ Unlink(r) \/ UnlinkResumes(r) \/ Relink(r) \/ AbortRelink(r)
  \/ ReadCategories(r) \/ ReadServices(r) \/ ReadIncluded(r) \/ StoreList(r)

ServiceChildren(r) ==
  \/ \E a \in Asked[r] : CheckParent(r, a)
  \/ CreateChild(r) \/ CheckChild(r) \/ WriteChild(r)

Resolve(r) == ReadService(r) \/ ReadLink(r) \/ ReadVariant(r) \/ ReadAddons(r)

WorkingHours(r) ==
  \/ \E a \in Asked[r] : BeginReplace(r, a)
  \/ DeleteHours(r) \/ DeleteResumes(r) \/ InsertHours(r)

TimeOff(r) ==
  \/ \E a \in Asked[r] : CreateTimeOff(r, a) \/ FindTimeOff(r, a)
  \/ WriteTimeOff(r) \/ RemoveTimeOff(r) \/ TimeOffGone(r)

Bookings(r) ==
  \/ \E a \in Asked[r] :
       \/ BeginBooking(r, a) \/ CancelBooking(r, a) \/ ConfirmBooking(r, a)
       \/ MoveBooking(r, a)
  \/ CommitBooking(r) \/ CommitMove(r)

Pages(r) ==
  \/ \E a \in Asked[r] : BeginPage(r, a)
  \/ ReadStaff(r) \/ ReadHours(r) \/ ReadBookings(r) \/ ReadTimeOff(r)
  \/ StorePage(r)

Handle(r) ==
  \/ /\ ServiceCategories(r) \/ Services(r) \/ ServiceChildren(r)
     /\ UNCHANGED <<calendar, page, faults>>
  \/ Resolve(r) /\ UNCHANGED <<calendar, faults>>
       /\ page' = IF InFlight(r)' THEN page ELSE [page EXCEPT ![r] = NoPage]
  \/ /\ WorkingHours(r) \/ TimeOff(r) \/ Bookings(r) \/ ScanPages(r) \/ DelPages(r)
     /\ UNCHANGED <<page, faults>>
  \/ Pages(r) /\ UNCHANGED faults
  \/ Fail(r)
  \/ DelFails(r) /\ faults < MaxFaults /\ faults' = faults + 1 /\ UNCHANGED page

-----------------------------------------------------------------------------
(* What a cached value may differ by from what would be computed now.      *)

Now(k) ==
  CASE k = ServicesKey -> PublicServices
    [] k = CategoriesKey -> PublicCategories
    [] OTHER -> PageNow(k)

\* The keys a request deletes once its change is committed: none, when it
\* reschedules.
Covers(a) ==
  CASE a.op \in {"replaceHours", "createTimeOff", "updateTimeOff",
                 "removeTimeOff"} -> PageKey
    [] a.op \in {"book", "cancel", "confirm"} ->
         {k \in PageKey : k.service = a.service}
    [] a.op \in {"createCategory", "updateCategory", "archiveCategory",
                 "createService", "replaceStaffServices"} \cup ServiceOps ->
         {ServicesKey, CategoriesKey}
    [] OTHER -> {}

\* The deletion of k is still to come: by name, by prefix, or by a scan
\* that has returned it.
DeletionDue(k) ==
  \E r \in Request :
    \/ (At(r, "bust") \/ At(r, "scan")) /\ k \in Covers(ask[r])
    \/ At(r, "del") /\ k \in scanned[r]

\* History of a step of r.  A stored value is excused when its computation
\* was overtaken; one that is there becomes so when a change to what it shows
\* is committed by a request that does not delete it, or does not get to.
Remember(r) ==
  LET a == IF at[r] = "idle" THEN ask'[r] ELSE ask[r]
      changed == tables' # tables
      failed == faults' # faults
      stores == at[r] \in {"setList", "setPage"} /\ ~failed
  IN /\ overtaken' = [q \in Request |->
          IF ~InFlight(q)' THEN {}
          ELSE IF q # r /\ InFlight(q) /\ changed THEN overtaken[q] \cup {r}
          ELSE overtaken[q]]
     /\ excused' = {k \in Key : cached'[k] # MISS /\
          IF stores /\ k = a.key THEN overtaken[r] # {}
          ELSE \/ k \in excused
               \/ changed /\ k \notin Covers(a) /\ Now(k)' # Now(k)
               \/ failed /\ at[r] \in {"bust", "scan", "del"} /\ k \in Covers(a)}

Lapse(k) ==
  /\ Expire(k)
  /\ excused' = excused \ {k}
  /\ UNCHANGED <<tables, progress, page, faults, overtaken>>

\* No request is in flight, and nothing in the cache will expire.
Finished ==
  /\ \A r \in Request : ~InFlight(r)
  /\ \A k \in Present : ~cached[k].expires
  /\ UNCHANGED vars

Init ==
  /\ CacheInit
  /\ \E t \in Start :
       /\ category = t.category /\ service = t.service
       /\ child = t.child /\ link = t.link
       /\ hours = t.hours /\ timeOff = t.timeOff /\ booked = t.booked
  /\ at = [r \in Request |-> "idle"]
  /\ ask = [r \in Request |-> NONE]
  /\ job = [r \in Request |-> NoJob]
  /\ seen = [r \in Request |-> NONE]
  /\ page = [r \in Request |-> NoPage]
  /\ faults = 0
  /\ overtaken = [r \in Request |-> {}]
  /\ excused = {}

Next ==
  \/ \E r \in Request : Handle(r) /\ Remember(r)
  \/ \E k \in Key : Lapse(k)
  \/ Finished

Spec == Init /\ [][Next]_vars

\* Redis drops what has expired.
FairSpec == Spec /\ \A k \in Key : WF_vars(Lapse(k))

-----------------------------------------------------------------------------
(* Properties.                                                             *)

\* The shapes of the state: a request has what its step works on, and only
\* ranges that end after they start are kept.
TypeOK ==
  /\ at \in [Request -> {"idle", "done"} \cup Steps]
  /\ \A r \in Request : ask[r] = NONE \/ ask[r] \in Asked[r]
  /\ \A r \in Request : InFlight(r) <=> ask[r] # NONE
  /\ category \in [Category -> CategoryRow \cup {NONE}]
  /\ service \in [Service -> ServiceRow \cup {NONE}]
  /\ child \in [Child -> ChildRow \cup {NONE}]
  /\ link \in [Staff -> [Service -> LinkRow \cup {NONE}]]
  /\ hours \in [Staff -> SUBSET HoursRow]
  /\ \A t \in Staff : \A w \in hours[t] : Ordered(w)
  /\ timeOff \in [TimeOffId -> OffRow \cup {NONE}]
  /\ booked \subseteq BookedRow
  /\ scanned \in [Request -> SUBSET Key]
  /\ overtaken \in [Request -> SUBSET Request]
  /\ excused \subseteq Present

Ticks(start, end) == start..(end - 1)
TicksOf(ranges) == UNION {Ticks(x.start, x.end) : x \in ranges}

\* Every slot of a stored page that no event has made untrue lies in the
\* working hours of its member of staff, and no part of it is booked or off as the
\* tables are by now.  (A reschedule that has not committed is in no table: its
\* time is still offered.)
OfferedSlotsAreFree ==
  \A k \in PageKey :
    cached[k] # MISS /\ k \notin excused /\ ~DeletionDue(k) =>
      \A t \in DOMAIN cached[k].json :
        LET offer == cached[k].json[t] IN
          \A start \in offer.slots :
            /\ Ticks(start, start + offer.total) \subseteq TicksOf(Windows(t))
            /\ Ticks(start, start + offer.total) \cap TicksOf(Taken(t) \cup Off(t)) = {}

Stale(k) == cached[k] # MISS /\ cached[k].json # Now(k)

\* A page or public list that differs from what would be computed now is
\* about to be deleted; or a change overtook its computation; or the change was
\* made by a handler that does not delete it afterwards (the catalogue's for
\* pages, those of variants and add-ons for the lists, a booking of another
\* service, a reschedule, which deletes first); or a failure kept its handler
\* from it.  Every other change of what it shows deletes it after the commit.
StaleIsExplained == \A k \in Key : Stale(k) => k \in excused \/ DeletionDue(k)

\* A range of time off ends after it starts, whatever two updates of its two
\* ends do to each other: each validates and writes both.  So does a booking,
\* whatever lengths the catalogue has, and no two of one member of staff overlap.
TimesStaySound == Sound(timeOff, booked)

\* A replacement of working hours, or of a member of staff's services, leaves
\* a row of another request only if that one committed during it.
RowsMixOnlyInARace ==
  [][\A r \in Request :
       /\ At(r, "insert") /\ At(r, "scan")' =>
            \A row \in hours[ask[r].staff]' : row.by \in {r} \cup overtaken[r]
       /\ At(r, "relink") /\ At(r, "bust")' =>
            \A s \in Linked(ask[r].staff)' :
              link[ask[r].staff][s]'.by \in {r} \cup overtaken[r]]_vars

\* An archived service comes back, and one that cannot be booked is booked,
\* only by a request that had read it before another one committed: the
\* check and the write are apart, and archived = false never finds its row.
ArchivedActsOnlyInARace ==
  [][\A r \in Request :
       /\ At(r, "write") /\ At(r, "bust")' =>
            \A s \in Service :
              Live(service[s])' /\ service[s] # NONE /\ ~Live(service[s])
                => overtaken[r] # {}
       /\ At(r, "commit") /\ At(r, "scan")' /\ ~Bookable(service[ask[r].service])
            => overtaken[r] # {}]_vars

\* A page or list that is not true becomes true again or is dropped.
StaleEnds == \A k \in Key : Stale(k) ~> ~Stale(k)

=============================================================================
