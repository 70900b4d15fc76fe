--------------------------- MODULE ServiceCatalog ---------------------------
(***************************************************************************)
(* The catalogue of one business (apps/api/src/services): categories,      *)
(* services, their variants and add-ons, and the services each member of   *)
(* staff gives.  A request checks the rows it is about (one await), writes *)
(* by id (another), and deletes the two cached public lists (a third);     *)
(* other requests run at each await.  resolveForSelection, which pages and *)
(* bookings share, reads the rows of a selection one await at a time.      *)
(* Business, staff and membership rows do not change here.                 *)
(***************************************************************************)
EXTENDS RedisCache, Integers, FiniteSetsExt

CONSTANTS
  Staff, Service, Category, Variant, Addon,
  ServiceOf,     \* the service of a variant's or an add-on's id
  Asked,         \* what each request may ask
  MaxOpen,       \* bound on the requests in flight at once
  ServicesKey, CategoriesKey,   \* keys of the public lists
  NONE           \* null, and a row that does not exist

Child == Variant \cup Addon

VARIABLES
  category, service, child, link,   \* the tables
  at,     \* what a request is awaiting
  ask,    \* what it was asked
  job,    \* what resolveForSelection has read for it
  seen    \* what the first query of a list or a transaction returned

catalogue == <<category, service, child, link>>
progress == <<at, ask, job, seen>>

\* A row, with visibility = PUBLIC /\ onlineBookingEnabled as open, and
\* duration and buffers as one length, of which no input has a minimum.
ServiceRow == [open: BOOLEAN, archived: BOOLEAN, len: Int,
               category: Category \cup {NONE}]
ChildRow == [open: BOOLEAN, archived: BOOLEAN, len: Int]
CategoryRow == [visible: BOOLEAN, archived: BOOLEAN]
LinkRow == [active: BOOLEAN, online: BOOLEAN, len: Int \cup {NONE}, by: 0..MaxRequests]

NoJob == [staff |-> NONE, total |-> 0, fixed |-> FALSE]

Live(row) == row # NONE /\ ~row.archived
Bookable(row) == Live(row) /\ row.open

\* An update writes the fields that are given.
Patched(row, put) ==
  [f \in DOMAIN row |-> IF f \in DOMAIN put THEN put[f] ELSE row[f]]

-----------------------------------------------------------------------------
(* Requests.                                                               *)

InFlight(r) == at[r] \notin {"idle", "done"}

\* A request refused by its first check changes nothing: it is no step.
Begin(r, a, first) ==
  /\ at[r] = "idle"
  /\ \A q \in Request : q < r => at[q] # "idle"
  /\ Cardinality({q \in Request : InFlight(q)}) < MaxOpen
  /\ a \in Asked[r]
  /\ at' = [at EXCEPT ![r] = first]
  /\ ask' = [ask EXCEPT ![r] = a]

At(r, step) == at[r] = step
Goto(r, step) == at' = [at EXCEPT ![r] = step] /\ UNCHANGED ask

End(r) ==
  /\ at' = [at EXCEPT ![r] = "done"]
  /\ ask' = [ask EXCEPT ![r] = NONE]
  /\ job' = [job EXCEPT ![r] = NoJob]
  /\ seen' = [seen EXCEPT ![r] = NONE]

\* assertBusinessAccess: the caller's role in the business.
MayManage(a) == a.role \in {"OWNER", "ADMIN"}

-----------------------------------------------------------------------------
(* What requests may carry: no length has a minimum.                       *)

\* Some of the fields of a type.
Part(put, type) ==
  /\ DOMAIN put \subseteq DOMAIN type
  /\ \A f \in DOMAIN put : put[f] \in type[f]

CreateServiceCategoryDto(put) == Part(put, [visible |-> BOOLEAN])
UpdateServiceDto(put) ==
  Part(put, [len |-> Int, open |-> BOOLEAN, category |-> Category \cup {NONE}])
CreateServiceDto(put) == UpdateServiceDto(put) /\ "len" \in DOMAIN put
SetServiceStatusDto(put) == Part(put, [open |-> BOOLEAN, archived |-> BOOLEAN])
CreateServiceVariantDto(put) ==
  Part(put, [len |-> Int, open |-> BOOLEAN]) /\ "len" \in DOMAIN put
CreateServiceAddonDto(put) == Part(put, [len |-> Int, open |-> BOOLEAN])
StaffServiceAssignmentItemDto ==
  [active: BOOLEAN, online: BOOLEAN, len: Int \cup {NONE}]

\* The items as a function: of two for one service the later one counts.
ReplaceStaffServicesDto(items) ==
  /\ DOMAIN items \subseteq Service
  /\ \A s \in DOMAIN items : items[s] \in StaffServiceAssignmentItemDto

CatalogueInput(a) ==
  \/ /\ a.op = "createCategory" \/ a.op = "updateCategory"
     /\ a.id \in Category /\ CreateServiceCategoryDto(a.put)
  \/ a.op = "archiveCategory" /\ a.id \in Category
  \/ a.op = "createService" /\ a.id \in Service /\ CreateServiceDto(a.put)
  \/ a.op = "updateService" /\ a.id \in Service /\ UpdateServiceDto(a.put)
  \/ a.op = "setServiceStatus" /\ a.id \in Service /\ SetServiceStatusDto(a.put)
  \/ a.op = "archiveService" /\ a.id \in Service
  \/ /\ a.op = "createChild" /\ a.id \in Child
     /\ IF a.id \in Variant THEN CreateServiceVariantDto(a.put)
                            ELSE CreateServiceAddonDto(a.put)
  \/ a.op = "updateChild" /\ a.id \in Child /\ CreateServiceAddonDto(a.put)
  \/ a.op = "archiveChild" /\ a.id \in Child
  \/ /\ a.op = "replaceStaffServices"
     /\ a.staff \in Staff /\ ReplaceStaffServicesDto(a.items)
  \/ a.op = "list" /\ a.key \in {ServicesKey, CategoriesKey}

-----------------------------------------------------------------------------
(* Categories and services.                                                *)

\* createCategory, createService: the row, with defaults for what is absent.
CreateCategory(r, a) ==
  /\ a.op = "createCategory" /\ MayManage(a)
  /\ category[a.id] = NONE
  /\ Begin(r, a, "bust")
  /\ category' = [category EXCEPT ![a.id] =
                    Patched([visible |-> TRUE, archived |-> FALSE], a.put)]
  /\ UNCHANGED <<service, child, link, job, seen, cacheVars>>

CreateService(r, a) ==
  /\ a.op = "createService" /\ MayManage(a)
  /\ service[a.id] = NONE
  /\ Begin(r, a, "bust")
  /\ service' = [service EXCEPT ![a.id] =
       Patched([open |-> TRUE, archived |-> FALSE, len |-> 0, category |-> NONE],
               a.put)]
  /\ UNCHANGED <<category, child, link, job, seen, cacheVars>>

\* updateCategory and archiveCategory read the row, then write it by id.
CheckCategory(r, a) ==
  /\ a.op \in {"updateCategory", "archiveCategory"} /\ MayManage(a)
  /\ Live(category[a.id])
  /\ Begin(r, a, "write")
  /\ UNCHANGED <<catalogue, job, seen, cacheVars>>

WriteCategory(r) ==
  /\ At(r, "write")
  /\ LET a == ask[r] IN
       \/ /\ a.op = "updateCategory"
          /\ category' = [category EXCEPT ![a.id] = Patched(@, a.put)]
       \/ /\ a.op = "archiveCategory"
          /\ category' = [category EXCEPT ![a.id].archived = TRUE]
  /\ Goto(r, "bust")
  /\ UNCHANGED <<service, child, link, job, seen, cacheVars>>

ServiceOps == {"updateService", "setServiceStatus", "archiveService"}

\* Mutated form of CheckService: an archived service is found.
CheckAnyService(r, a) ==
  /\ a.op \in ServiceOps /\ MayManage(a)
  /\ service[a.id] # NONE
  /\ Begin(r, a, "write")
  /\ UNCHANGED <<catalogue, job, seen, cacheVars>>

\* getServiceOrThrow, for the operations on one service.
CheckService(r, a) ==
  /\ a.op \in ServiceOps /\ MayManage(a)
  /\ Live(service[a.id])
  /\ Begin(r, a, "write")
  /\ UNCHANGED <<catalogue, job, seen, cacheVars>>

WriteService(r) ==
  /\ At(r, "write")
  /\ LET a == ask[r] IN
       \/ /\ a.op \in {"updateService", "setServiceStatus"}
          /\ service' = [service EXCEPT ![a.id] = Patched(@, a.put)]
       \/ /\ a.op = "archiveService"
          /\ service' = [service EXCEPT ![a.id].archived = TRUE]
  /\ Goto(r, "bust")
  /\ UNCHANGED <<category, child, link, job, seen, cacheVars>>

\* Mutated form of BustPublicCache: the list of services is left.
BustCategories(r) ==
  /\ At(r, "bust")
  /\ DelKeys({CategoriesKey})
  /\ End(r)
  /\ UNCHANGED catalogue

BustPublicCache(r) ==
  /\ At(r, "bust")
  /\ DelKeys({CategoriesKey, ServicesKey})
  /\ End(r)
  /\ UNCHANGED catalogue

-----------------------------------------------------------------------------
(* Variants and add-ons: no operation on them deletes a cached value.      *)

ChildOps == {"createChild", "updateChild", "archiveChild"}

\* No other request is creating a row of this id.
NewId(id) ==
  /\ child[id] = NONE
  /\ \A q \in Request : InFlight(q) => ~(ask[q].op = "createChild" /\ ask[q].id = id)

CheckParent(r, a) ==
  /\ a.op \in ChildOps /\ MayManage(a)
  /\ a.op = "createChild" => NewId(a.id)
  /\ Live(service[ServiceOf[a.id]])
  /\ Begin(r, a, IF a.op = "createChild" THEN "create" ELSE "child")
  /\ UNCHANGED <<catalogue, job, seen, cacheVars>>

CreateChild(r) ==
  /\ At(r, "create")
  /\ child' = [child EXCEPT ![ask[r].id] =
       Patched([open |-> TRUE, archived |-> FALSE, len |-> 0], ask[r].put)]
  /\ End(r)
  /\ UNCHANGED <<category, service, link, cacheVars>>

CheckChild(r) ==
  /\ At(r, "child")
  /\ IF Live(child[ask[r].id])
       THEN Goto(r, "writeChild") /\ UNCHANGED <<job, seen>>
       ELSE End(r)
  /\ UNCHANGED <<catalogue, cacheVars>>

WriteChild(r) ==
  /\ At(r, "writeChild")
  /\ child' = [child EXCEPT ![ask[r].id] =
       IF ask[r].op = "archiveChild" THEN [@ EXCEPT !.archived = TRUE]
       ELSE Patched(@, ask[r].put)]
  /\ End(r)
  /\ UNCHANGED <<category, service, link, cacheVars>>

-----------------------------------------------------------------------------
(* replaceStaffServices: one transaction at READ COMMITTED.                *)

CheckItems(r, a) ==
  /\ a.op = "replaceStaffServices" /\ MayManage(a)
  /\ \A s \in DOMAIN a.items : Live(service[s])
  /\ Begin(r, a, "unlink")
  /\ UNCHANGED <<catalogue, job, seen, cacheVars>>

Linked(t) == {s \in Service : link[t][s] # NONE}

\* Rows an open transaction on staff member t has deleted and still locks.
Unlinked(q, t) ==
  IF At(q, "relink") /\ ask[q].staff = t THEN seen[q] ELSE {}

Waits(r, q, rows) == q # r /\ rows \cap Unlinked(q, ask[r].staff) # {}

\* Mutated form of Unlink: nothing is deleted.
UnlinkNone(r) ==
  /\ At(r, "unlink")
  /\ Goto(r, "relink")
  /\ seen' = [seen EXCEPT ![r] = {}]
  /\ UNCHANGED <<catalogue, job, cacheVars>>

\* deleteMany of the rows not in the items, as the statement's snapshot has
\* them; it waits for a row that another transaction has deleted, and keeps
\* its snapshot while it waits.
Unlink(r) ==
  /\ At(r, "unlink")
  /\ LET gone == Linked(ask[r].staff) \ DOMAIN ask[r].items IN
       /\ seen' = [seen EXCEPT ![r] = gone]
       /\ Goto(r, IF \E q \in Request : Waits(r, q, gone)
                  THEN "unlinkWait" ELSE "relink")
  /\ UNCHANGED <<catalogue, job, cacheVars>>

UnlinkResumes(r) ==
  /\ At(r, "unlinkWait")
  /\ \A q \in Request : ~Waits(r, q, seen[r])
  /\ Goto(r, "relink")
  /\ UNCHANGED <<catalogue, job, seen, cacheVars>>

\* The upserts and the commit; an upsert waits for a deleted row too.
Relink(r) ==
  /\ At(r, "relink")
  /\ LET a == ask[r] IN
       /\ \A q \in Request : ~Waits(r, q, DOMAIN a.items)
       /\ link' = [link EXCEPT ![a.staff] = [s \in Service |->
            IF s \in DOMAIN a.items
              THEN [active |-> a.items[s].active, online |-> a.items[s].online,
                    len |-> a.items[s].len, by |-> r]
              ELSE IF s \in seen[r] THEN NONE ELSE @[s]]]
  /\ Goto(r, "bust")
  /\ UNCHANGED <<category, service, child, job, seen, cacheVars>>

\* Two transactions each upserting what the other deleted: PostgreSQL
\* aborts one, and its request fails.
AbortRelink(r) ==
  /\ At(r, "relink")
  /\ \E q \in Request : /\ Waits(r, q, DOMAIN ask[r].items)
                        /\ Waits(q, r, DOMAIN ask[q].items)
  /\ End(r)
  /\ UNCHANGED <<catalogue, cacheVars>>

-----------------------------------------------------------------------------
(* The public lists.                                                       *)

\* A list that is cached is returned as it is: no step.
BeginList(r, a) ==
  /\ a.op = "list"
  /\ GetJson(a.key) = MISS
  /\ Begin(r, a, IF a.key = ServicesKey THEN "services" ELSE "categories")
  /\ UNCHANGED <<catalogue, job, seen, cacheVars>>

PublicCategories == {c \in Category : Live(category[c]) /\ category[c].visible}

ReadCategories(r) ==
  /\ At(r, "categories")
  /\ seen' = [seen EXCEPT ![r] = PublicCategories]
  /\ Goto(r, "setList")
  /\ UNCHANGED <<catalogue, job, cacheVars>>

PublicRows == [s \in {s \in Service : Bookable(service[s])} |-> service[s]]

\* The included category, variants and add-ons of the services read.
Included(rows) ==
  [s \in DOMAIN rows |->
     [row |-> rows[s],
      category |-> IF rows[s].category = NONE THEN NONE
                   ELSE category[rows[s].category],
      children |-> [c \in {c \in Child : ServiceOf[c] = s /\ Bookable(child[c])}
                      |-> child[c]]]]

PublicServices == Included(PublicRows)

ReadServices(r) ==
  /\ At(r, "services")
  /\ seen' = [seen EXCEPT ![r] = PublicRows]
  /\ Goto(r, "included")
  /\ UNCHANGED <<catalogue, job, cacheVars>>

\* The client fetches the included rows with further queries.
ReadIncluded(r) ==
  /\ At(r, "included")
  /\ seen' = [seen EXCEPT ![r] = Included(@)]
  /\ Goto(r, "setList")
  /\ UNCHANGED <<catalogue, job, cacheVars>>

StoreList(r) ==
  /\ At(r, "setList")
  /\ SetJson(ask[r].key, seen[r])
  /\ End(r)
  /\ UNCHANGED catalogue

-----------------------------------------------------------------------------
(* resolveForSelection: what one member of staff would take for the        *)
(* selected service, variant and add-ons.                                  *)

Selection(r) == IF ask[r].op = "page" THEN ask[r].key ELSE ask[r]

Resolved(r) == IF ask[r].op = "page" THEN "hours" ELSE "commit"
AfterVariant(r) == IF Selection(r).addons # {} THEN "addons" ELSE Resolved(r)
AfterLink(r) ==
  IF Selection(r).variant # NONE THEN "variant" ELSE AfterVariant(r)

\* Each query either finds a usable row and the next one follows, or the
\* request ends with an error.
Next1(r, found, step, total, fixed) ==
  /\ IF found
       THEN /\ Goto(r, step)
            /\ job' = [job EXCEPT ![r].total = total, ![r].fixed = fixed]
            /\ UNCHANGED seen
       ELSE End(r)
  /\ UNCHANGED <<catalogue, cacheVars>>

\* Mutated form of ReadService: archivedAt is not asked about.
ReadServiceEvenArchived(r) ==
  /\ At(r, "service")
  /\ LET row == service[Selection(r).service] IN
       Next1(r, row # NONE /\ row.open, "link", row.len, FALSE)

ReadService(r) ==
  /\ At(r, "service")
  /\ LET row == service[Selection(r).service] IN
       Next1(r, Bookable(row), "link", row.len, FALSE)

\* An override of the member of staff replaces the length of the service,
\* and later that of the variant.
ReadLink(r) ==
  /\ At(r, "link")
  /\ LET row == link[job[r].staff][Selection(r).service] IN
       Next1(r, row # NONE /\ row.active /\ row.online, AfterLink(r),
             IF row.len # NONE THEN row.len ELSE job[r].total,
             row.len # NONE)

\* A variant or add-on of another service is not found.
Offered(c, sel) == Bookable(child[c]) /\ ServiceOf[c] = sel.service

ReadVariant(r) ==
  /\ At(r, "variant")
  /\ LET sel == Selection(r) IN
       Next1(r, Offered(sel.variant, sel), AfterVariant(r),
             IF job[r].fixed THEN job[r].total ELSE child[sel.variant].len,
             job[r].fixed)

SumOfLengths(addons) ==
  SumFunctionOnSet([x \in addons |-> child[x].len], addons)

ReadAddons(r) ==
  /\ At(r, "addons")
  /\ LET sel == Selection(r) IN
       Next1(r, \A x \in sel.addons : Offered(x, sel), Resolved(r),
             job[r].total + SumOfLengths(sel.addons), job[r].fixed)

\* The same in one go, over the tables as they are: whether every query finds
\* a usable row, and the length.
Resolves(sel, t) ==
  LET mine == link[t][sel.service] IN
    /\ Bookable(service[sel.service])
    /\ mine # NONE /\ mine.active /\ mine.online
    /\ sel.variant # NONE => Offered(sel.variant, sel)
    /\ \A x \in sel.addons : Offered(x, sel)

OwnLength(sel, t) ==
  IF link[t][sel.service].len # NONE THEN link[t][sel.service].len
  ELSE IF sel.variant # NONE THEN child[sel.variant].len
  ELSE service[sel.service].len

TotalMin(sel, t) ==
  IF sel.addons = {} THEN OwnLength(sel, t)
  ELSE OwnLength(sel, t) + SumOfLengths(sel.addons)

=============================================================================
