--------------------------- MODULE BookingsProofs ---------------------------
(***************************************************************************)
(* Theorems about Bookings, for any number of requests, bookings, staff,   *)
(* services, keys, times and lengths.                                      *)
(***************************************************************************)
EXTENDS Bookings, TLAPS

-----------------------------------------------------------------------------
(* Facts about the operators the actions are built from.                   *)

\* Overlapping is symmetric, so it does not matter which of two rows the
\* constraint check starts from.
LEMMA ConflictSymmetric ==
  ASSUME NEW x, NEW y, Conflict(x, y)
  PROVE  Conflict(y, x)
  BY DEF Conflict

\* What a request may ask for, operation by operation.
LEMMA InputTypes ==
  ASSUME NEW i \in Input
  PROVE  /\ i.op \in {"create", "reschedule", "cancel", "confirm"}
         /\ i.op = "create" =>
              i.service \in Service /\ i.staff \in Staff /\ i.start \in Nat
         /\ i.op # "create" => i.booking \in Booking
         /\ i.op = "reschedule" => i.start \in Nat
         /\ i.key \in Key \cup {NULL}
  BY BookingsAssumption DEF Input, Ask

\* The trigger writes well-formed events.
LEMMA UpdateEventsType ==
  ASSUME NEW old \in Row, NEW new \in Row
  PROVE  UpdateEvents(old, new) \in Seq(Event)
  <1> DEFINE event(type) == [type |-> type, status |-> new.status,
                             start |-> new.start, end |-> new.end]
             when(cond, type) == IF cond THEN <<event(type)>> ELSE <<>>
  <1>1. ASSUME NEW cond \in BOOLEAN,
               NEW type \in {"created", "rescheduled", "confirmed", "cancelled"}
        PROVE  when(cond, type) \in Seq(Event)
    <2>1. event(type) \in Event
      BY DEF Row, Event
    <2> QED
      BY <2>1
  <1>2. UpdateEvents(old, new) =
          when(new.start # old.start \/ new.end # old.end, "rescheduled")
          \o when(new.status # old.status /\ new.status = "CONFIRMED", "confirmed")
          \o when(new.status # old.status /\ new.status = "CANCELLED", "cancelled")
    BY DEF UpdateEvents
  <1> HIDE DEF when
  <1>3. when(new.start # old.start \/ new.end # old.end, "rescheduled") \in Seq(Event)
    BY <1>1
  <1>4. when(new.status # old.status /\ new.status = "CONFIRMED", "confirmed") \in Seq(Event)
    BY <1>1
  <1>5. when(new.status # old.status /\ new.status = "CANCELLED", "cancelled") \in Seq(Event)
    BY <1>1
  <1> QED
    BY <1>2, <1>3, <1>4, <1>5

\* A committed insert leaves well-formed tables.
LEMMA CommitInsertType ==
  ASSUME TypeOK, NEW b \in Booking, NEW row \in Row, CommitInsert(b, row)
  PROVE  /\ bookings' \in [Booking -> Row \cup {NULL}]
         /\ history' \in [Booking -> Seq(HistoryEntry)]
         /\ outbox' \in [Booking -> Seq(Event)]
         /\ \A c \in Booking : bookings[c] # NULL => bookings'[c] # NULL
  <1>1. [action |-> "CREATE", status |-> row.status,
         from |-> NULL, to |-> row.start] \in HistoryEntry
    BY DEF Row, HistoryEntry
  <1>2. [type |-> "created", status |-> row.status,
         start |-> row.start, end |-> row.end] \in Event
    BY DEF Row, Event
  <1> QED
    BY <1>1, <1>2, NullAssumption DEF CommitInsert, TypeOK

\* A committed update leaves well-formed tables.
LEMMA CommitUpdateType ==
  ASSUME TypeOK, NEW b \in Booking, bookings[b] # NULL, NEW row \in Row,
         NEW action \in {"RESCHEDULE", "CANCEL", "CONFIRM"},
         NEW from \in Nat, CommitUpdate(b, row, action, from)
  PROVE  /\ bookings' \in [Booking -> Row \cup {NULL}]
         /\ history' \in [Booking -> Seq(HistoryEntry)]
         /\ outbox' \in [Booking -> Seq(Event)]
         /\ \A c \in Booking : bookings[c] # NULL => bookings'[c] # NULL
  <1>1. [action |-> action, status |-> row.status,
         from |-> from, to |-> row.start] \in HistoryEntry
    BY DEF Row, HistoryEntry
  <1>2. UpdateEvents(bookings[b], row) \in Seq(Event)
    BY UpdateEventsType DEF TypeOK
  <1>3. outbox' \in [Booking -> Seq(Event)]
    BY <1>2 DEF CommitUpdate, TypeOK
  <1> QED
    BY <1>1, <1>3, NullAssumption DEF CommitUpdate, TypeOK

-----------------------------------------------------------------------------
(* Type correctness.  LocalsOK is the part of TypeOK that makes it         *)
(* inductive: it ties what a handler holds to where the handler is.        *)

\* What one handler does leaves the locals of another in order: its own
\* variables are untouched and no row disappears.
LEMMA OtherLocals ==
  ASSUME TypeOK, NEW q \in Request,
         pc'[q] = pc[q], reply'[q] = reply[q], tx'[q] = tx[q],
         input'[q] = input[q], seen'[q] = seen[q],
         \A c \in Booking : bookings[c] # NULL => bookings'[c] # NULL
  PROVE  LocalsOK(q)'
  <1>1. LocalsOK(q)
    BY DEF TypeOK
  <1>2. pc[q] \notin {"idle", "resolve"} /\ input[q].op # "create" =>
          input[q].booking \in Booking
    BY <1>1, InputTypes DEF LocalsOK
  <1>3. tx[q] # NULL => input[q].op # "create" /\ pc[q] \notin {"idle", "resolve"}
    BY <1>1 DEF LocalsOK
  <1> QED
    BY <1>1, <1>2, <1>3 DEF LocalsOK

\* The handler of r ends: only pc[r], reply[r] and tx[r] change.
LEMMA AnswerType ==
  ASSUME TypeOK, NEW r \in Request, pc[r] # "idle", NEW a \in Replies,
         Answer(r, a), UNCHANGED <<input, seen>>,
         tx' = [tx EXCEPT ![r] = NULL],
         \A c \in Booking : bookings[c] # NULL => bookings'[c] # NULL
  PROVE  /\ pc' \in [Request -> Labels]
         /\ reply' \in [Request -> Replies]
         /\ tx' \in [Request -> Update \cup {NULL}]
         /\ \A q \in Request : LocalsOK(q)'
  <1>1. /\ pc' = [pc EXCEPT ![r] = "done"]
        /\ reply' = [reply EXCEPT ![r] = a]
    BY DEF Answer, Goto
  <1>2. LocalsOK(r)'
    BY <1>1 DEF TypeOK, LocalsOK
  <1>3. ASSUME NEW q \in Request, q # r PROVE LocalsOK(q)'
    BY <1>1, <1>3, OtherLocals DEF TypeOK
  <1> QED
    BY <1>1, <1>2, <1>3 DEF TypeOK, Labels

\* A handler that only moves on leaves the tables alone.
LEMMA TablesUnchanged ==
  ASSUME TypeOK, UNCHANGED <<db, idem, now>>
  PROVE  /\ bookings' \in [Booking -> Row \cup {NULL}]
         /\ history' \in [Booking -> Seq(HistoryEntry)]
         /\ outbox' \in [Booking -> Seq(Event)]
         /\ idem' \in [Key -> Stored \cup {NULL}]
         /\ now' \in 0..MaxNow
         /\ \A c \in Booking : bookings[c] # NULL => bookings'[c] # NULL
  BY DEF TypeOK, db

\* Nothing happens to a tx that is not open.
LEMMA ClosedTx ==
  ASSUME TypeOK, NEW r \in Request, tx[r] = NULL, UNCHANGED tx
  PROVE  tx' = [tx EXCEPT ![r] = NULL]
  BY DEF TypeOK

\* Bodies and errors are answers.
LEMMA ReplyTypes ==
  /\ \A body \in Bodies : Ok(body) \in Replies
  /\ \A c \in {"none", "conflict", "badRequest", "forbidden", "error"} :
       Err(c) \in Replies
  /\ \A b \in Booking, row \in Row : Body(b, row) \in Bodies
  /\ \A b \in Booking, s \in Status : Bare(b, s) \in Bodies
  BY DEF Ok, Err, Replies, Body, Bare, Bodies, Row

\* Begin preserves TypeOK.
LEMMA BeginType ==
  ASSUME TypeOK, NEW r \in Request, Begin(r)
  PROVE  TypeOK'
  <1> PICK i \in Input :
        LET stored == IF i.key = NULL THEN NULL ELSE idem[i.key] IN
        /\ input' = [input EXCEPT ![r] = i]
        /\ IF stored = NULL
             THEN /\ Goto(r, IF i.op = "create" THEN "resolve" ELSE "read")
                  /\ UNCHANGED reply
             ELSE Answer(r, IF stored.hash = Hash(i)
                              THEN Ok(stored.response) ELSE Err("conflict"))
    BY DEF Begin
  <1>1. pc[r] = "idle" /\ UNCHANGED <<db, idem, now, seen, tx>>
    BY DEF Begin
  <1>2. tx[r] = NULL
    BY <1>1 DEF TypeOK, LocalsOK
  <1>3. \E a \in Replies, l \in {"resolve", "read", "done"} :
          /\ pc' = [pc EXCEPT ![r] = l]
          /\ reply' = [reply EXCEPT ![r] = a]
          /\ l = "resolve" => i.op = "create"
          /\ l = "read" => i.op # "create"
    <2> DEFINE stored == IF i.key = NULL THEN NULL ELSE idem[i.key]
    <2>1. CASE stored = NULL
      BY <2>1 DEF Goto, TypeOK
    <2>2. CASE stored # NULL
      <3>1. stored \in Stored
        BY <2>2, InputTypes DEF TypeOK
      <3>2. (IF stored.hash = Hash(i) THEN Ok(stored.response) ELSE Err("conflict"))
              \in Replies
        BY <3>1, ReplyTypes DEF Stored
      <3> QED
        BY <2>2, <3>2 DEF Answer, Goto
    <2> QED
      BY <2>1, <2>2
  <1>4. LocalsOK(r)'
    BY <1>1, <1>2, <1>3 DEF TypeOK, LocalsOK
  <1>5. ASSUME NEW q \in Request, q # r PROVE LocalsOK(q)'
    BY <1>1, <1>3, <1>5, OtherLocals DEF TypeOK, db
  <1>6. pc' \in [Request -> Labels] /\ reply' \in [Request -> Replies]
    BY <1>3 DEF TypeOK, Labels
  <1>7. /\ input' \in [Request -> Input \cup {NULL}]
        /\ seen' \in [Request -> Row \cup {NULL}]
        /\ tx' \in [Request -> Update \cup {NULL}]
    BY <1>1 DEF TypeOK
  <1> QED
    BY <1>1, <1>4, <1>5, <1>6, <1>7, TablesUnchanged DEF TypeOK

\* A step of r preserves TypeOK if the tables stay well-formed, no row
\* disappears, and what r holds afterwards fits where r is.
LEMMA MoveType ==
  ASSUME TypeOK, NEW r \in Request, NEW l \in Labels, NEW s \in Row \cup {NULL},
         NEW u \in Update \cup {NULL}, NEW a \in Replies,
         pc' = [pc EXCEPT ![r] = l], seen' = [seen EXCEPT ![r] = s],
         tx' = [tx EXCEPT ![r] = u], reply' = [reply EXCEPT ![r] = a],
         UNCHANGED input,
         bookings' \in [Booking -> Row \cup {NULL}],
         history' \in [Booking -> Seq(HistoryEntry)],
         outbox' \in [Booking -> Seq(Event)],
         idem' \in [Key -> Stored \cup {NULL}],
         now' \in 0..MaxNow,
         \A c \in Booking : bookings[c] # NULL => bookings'[c] # NULL,
         LocalsOK(r)'
  PROVE  TypeOK'
  <1>1. ASSUME NEW q \in Request, q # r PROVE LocalsOK(q)'
    BY <1>1, OtherLocals DEF TypeOK
  <1> QED
    BY <1>1 DEF TypeOK

\* A handler that answers without having written preserves TypeOK.
LEMMA AnswerKeepsType ==
  ASSUME TypeOK, NEW r \in Request, pc[r] # "idle", NEW a \in Replies,
         Answer(r, a), UNCHANGED <<db, idem, now, input, seen>>,
         tx' = [tx EXCEPT ![r] = NULL]
  PROVE  TypeOK'
  BY AnswerType, TablesUnchanged DEF TypeOK

\* The error answers of a handler with no open transaction preserve TypeOK.
LEMMA RefusalType ==
  ASSUME TypeOK, NEW r \in Request, pc[r] \in {"resolve", "read", "write"},
         NEW c \in {"none", "conflict", "badRequest", "forbidden", "error"},
         Answer(r, Err(c)), UNCHANGED <<db, idem, now, input, seen, tx>>
  PROVE  TypeOK'
  <1>1. tx' = [tx EXCEPT ![r] = NULL]
    BY DEF TypeOK, LocalsOK
  <1> QED
    BY <1>1, AnswerKeepsType, ReplyTypes

\* Going on to the transaction's write preserves TypeOK.
LEMMA ReadType ==
  ASSUME TypeOK, NEW r \in Request, pc[r] \in {"resolve", "read"},
         NEW row \in Row, seen' = [seen EXCEPT ![r] = row],
         input[r].op # "create" =>
           /\ bookings[input[r].booking] # NULL
           /\ input[r].op = "reschedule" => row.total \in Total,
         Goto(r, "write"), UNCHANGED <<db, idem, now, input, tx, reply>>
  PROVE  TypeOK'
  <1>1. tx[r] = NULL /\ input[r] \in Input
    BY DEF TypeOK, LocalsOK
  <1>2. /\ pc' = [pc EXCEPT ![r] = "write"]
        /\ tx' = [tx EXCEPT ![r] = NULL]
        /\ reply' = [reply EXCEPT ![r] = reply[r]]
        /\ reply[r] \in Replies
    BY <1>1 DEF Goto, TypeOK
  <1>3. LocalsOK(r)'
    BY <1>1, <1>2 DEF LocalsOK, TypeOK, db
  <1> QED
    BY <1>2, <1>3, TablesUnchanged, MoveType DEF Labels

\* Going on after a commit, or after the early return of cancel and confirm,
\* preserves TypeOK.
LEMMA AfterCommitType ==
  ASSUME TypeOK, NEW r \in Request, pc[r] \in {"read", "write"},
         NEW body \in Bodies, AfterCommit(r, body),
         UNCHANGED <<idem, now, input, seen, tx>>,
         bookings' \in [Booking -> Row \cup {NULL}],
         history' \in [Booking -> Seq(HistoryEntry)],
         outbox' \in [Booking -> Seq(Event)],
         \A c \in Booking : bookings[c] # NULL => bookings'[c] # NULL
  PROVE  TypeOK'
  <1>1. tx[r] = NULL /\ input[r] \in Input
    BY DEF TypeOK, LocalsOK
  <1>2. \E l \in {"invalidate", "save"} :
          /\ pc' = [pc EXCEPT ![r] = l]
          /\ l = "save" => input[r].key # NULL
    BY DEF AfterCommit, Goto
  <1>3. /\ reply' = [reply EXCEPT ![r] = Ok(body)]
        /\ Ok(body) \in Replies /\ Ok(body).code = "ok"
    BY ReplyTypes DEF AfterCommit, Ok
  <1>4. /\ tx' = [tx EXCEPT ![r] = NULL]
        /\ seen' = [seen EXCEPT ![r] = seen[r]]
        /\ seen[r] \in Row \cup {NULL}
    BY <1>1 DEF TypeOK
  <1>5. /\ idem' \in [Key -> Stored \cup {NULL}]
        /\ now' \in 0..MaxNow
    BY DEF TypeOK
  <1>6. LocalsOK(r)'
    BY <1>1, <1>2, <1>3, <1>4, InputTypes DEF LocalsOK, TypeOK
  <1>7. PICK l \in {"invalidate", "save"} : pc' = [pc EXCEPT ![r] = l]
    BY <1>2
  <1>8. l \in Labels
    BY DEF Labels
  <1> QED
    BY <1>3, <1>4, <1>5, <1>6, <1>7, <1>8, MoveType

\* create preserves TypeOK.
LEMMA CreateType ==
  ASSUME TypeOK, NEW r \in Request, CreateResolve(r) \/ CreateCommit(r)
  PROVE  TypeOK'
  <1>1. pc[r] # "idle" /\ input[r] \in Input
    BY DEF TypeOK, LocalsOK, CreateResolve, CreateCommit
  <1>2. CASE CreateResolve(r)
    <2>1. pc[r] = "resolve" /\ input[r].op = "create"
          /\ UNCHANGED <<db, idem, now, input, tx>>
      BY <1>2 DEF CreateResolve, TypeOK, LocalsOK
    <2>2. CASE Answer(r, Err("badRequest")) /\ UNCHANGED seen
      BY <2>1, <2>2, RefusalType
    <2>3. ASSUME NEW t \in Total,
                 seen' = [seen EXCEPT ![r] =
                   [status |-> "PENDING", staff |-> input[r].staff,
                    service |-> input[r].service, start |-> input[r].start,
                    end |-> input[r].start + t, total |-> t]],
                 Goto(r, "write"), UNCHANGED reply
          PROVE  TypeOK'
      <3>1. [status |-> "PENDING", staff |-> input[r].staff,
             service |-> input[r].service, start |-> input[r].start,
             end |-> input[r].start + t, total |-> t] \in Row
        BY <1>1, <2>1, InputTypes, BookingsAssumption DEF Row, Status
      <3> QED
        BY <2>1, <2>3, <3>1, ReadType
    <2> QED
      BY <1>2, <2>2, <2>3 DEF CreateResolve
  <1>3. CASE CreateCommit(r)
    <2>1. pc[r] = "write" /\ seen[r] \in Row
          /\ UNCHANGED <<idem, now, input, seen, tx>>
      BY <1>3 DEF CreateCommit, TypeOK, LocalsOK
    <2>2. PICK b \in Booking :
            \/ CommitInsert(b, seen[r]) /\ AfterCommit(r, Body(b, seen[r]))
            \/ Answer(r, Err("conflict")) /\ UNCHANGED db
      BY <1>3 DEF CreateCommit
    <2>3. CASE CommitInsert(b, seen[r]) /\ AfterCommit(r, Body(b, seen[r]))
      BY <2>1, <2>3, CommitInsertType, AfterCommitType, ReplyTypes
    <2>4. CASE Answer(r, Err("conflict")) /\ UNCHANGED db
      BY <2>1, <2>4, RefusalType
    <2> QED
      BY <2>2, <2>3, <2>4
  <1> QED
    BY <1>2, <1>3

\* The reads of reschedule, cancel and confirm preserve TypeOK.
LEMMA TxReadType ==
  ASSUME TypeOK, NEW r \in Request,
         RescheduleRead(r) \/ CancelRead(r) \/ ConfirmRead(r)
  PROVE  TypeOK'
  <1> DEFINE b == input[r].booking
             row == bookings[b]
  <1>1. /\ pc[r] = "read" /\ input[r] \in Input /\ input[r].op # "create"
        /\ UNCHANGED <<db, idem, now, input, tx>>
        /\ b \in Booking
    BY InputTypes DEF TypeOK, LocalsOK, RescheduleRead, CancelRead, ConfirmRead
  <1>2. row \in Row \cup {NULL} /\ UNCHANGED bookings
    BY <1>1 DEF TypeOK, db
  <1> HIDE DEF b, row
  <1>3. ASSUME NEW c \in {"badRequest", "forbidden"},
               Answer(r, Err(c)) /\ UNCHANGED seen
        PROVE  TypeOK'
    BY <1>1, <1>3, RefusalType
  <1>4. ASSUME NEW s \in Status, AfterCommit(r, Bare(b, s)) /\ UNCHANGED seen
        PROVE  TypeOK'
    BY <1>1, <1>4, AfterCommitType, TablesUnchanged, ReplyTypes
  <1>5. CASE RescheduleRead(r)
    <2>1. ASSUME row # NULL,
                 NEW t \in IF row.total = NULL THEN Total ELSE {row.total},
                 seen' = [seen EXCEPT ![r] = [row EXCEPT !.total = t]],
                 Goto(r, "write"), UNCHANGED reply
          PROVE  TypeOK'
      <3>1. t \in Total
        BY <1>2, <2>1 DEF Row
      <3>2. [row EXCEPT !.total = t] \in Row /\ [row EXCEPT !.total = t].total = t
        BY <1>2, <2>1, <3>1 DEF Row
      <3> QED
        BY <1>1, <2>1, <3>1, <3>2, ReadType DEF b, row
    <2> QED
      BY <1>3, <1>5, <2>1 DEF RescheduleRead, b, row
  <1>6. ASSUME row # NULL, seen' = [seen EXCEPT ![r] = row],
               Goto(r, "write"), UNCHANGED reply, input[r].op # "reschedule"
        PROVE  TypeOK'
    BY <1>1, <1>2, <1>6, ReadType DEF b, row
  <1>7. CASE CancelRead(r)
    BY <1>3, <1>4, <1>6, <1>7 DEF CancelRead, b, row, Status
  <1>8. CASE ConfirmRead(r)
    BY <1>3, <1>4, <1>6, <1>8 DEF ConfirmRead, b, row, Status
  <1> QED
    BY <1>5, <1>7, <1>8

\* The commits of cancel and confirm preserve TypeOK.
LEMMA DecideType ==
  ASSUME TypeOK, NEW r \in Request, CancelCommit(r) \/ ConfirmCommit(r)
  PROVE  TypeOK'
  <1> DEFINE b == input[r].booking
             row(s) == [bookings[b] EXCEPT !.status = s]
  <1>1. /\ pc[r] = "write" /\ input[r] \in Input /\ input[r].op # "create"
        /\ UNCHANGED <<idem, now, input, seen, tx>>
        /\ b \in Booking /\ bookings[b] \in Row /\ bookings[b] # NULL
        /\ seen[r] \in Row /\ seen[r].start \in Nat
    BY InputTypes DEF TypeOK, LocalsOK, CancelCommit, ConfirmCommit, Row
  <1>2. \A s \in Status : row(s) \in Row
    BY <1>1 DEF Row
  <1> HIDE DEF b, row
  <1>3. ASSUME NEW s \in Status, NEW action \in {"CANCEL", "CONFIRM"},
               CommitUpdate(b, row(s), action, seen[r].start),
               AfterCommit(r, Body(b, row(s)))
        PROVE  TypeOK'
    BY <1>1, <1>2, <1>3, CommitUpdateType, AfterCommitType, ReplyTypes
  <1>4. CASE CancelCommit(r)
    BY <1>3, <1>4 DEF CancelCommit, Status, b, row
  <1>5. CASE ConfirmCommit(r)
    <2>1. CASE Answer(r, Err("error")) /\ UNCHANGED db
      BY <1>1, <2>1, RefusalType
    <2> QED
      BY <1>3, <1>5, <2>1 DEF ConfirmCommit, Status, b, row
  <1> QED
    BY <1>4, <1>5

\* The open transaction of a reschedule, from its update to its commit,
\* preserves TypeOK.
LEMMA RescheduleTxType ==
  ASSUME TypeOK, NEW r \in Request,
         RescheduleUpdate(r) \/ RescheduleInvalidate(r) \/ RescheduleCommit(r)
  PROVE  TypeOK'
  <1> DEFINE b == input[r].booking
             k == input[r].key
  <1>1. /\ pc[r] \in {"write", "inTxInvalidate", "commit"}
        /\ input[r] \in Input /\ input[r].op = "reschedule"
        /\ b \in Booking /\ bookings[b] \in Row /\ bookings[b] # NULL
        /\ input[r].start \in Nat /\ k \in Key \cup {NULL}
        /\ seen[r] \in Row /\ seen[r].start \in Nat
        /\ UNCHANGED <<now, input, seen>>
    BY InputTypes
    DEF TypeOK, LocalsOK, RescheduleUpdate, RescheduleInvalidate, RescheduleCommit, Row
  <1>2. seen' = [seen EXCEPT ![r] = seen[r]] /\ now' \in 0..MaxNow
    BY <1>1 DEF TypeOK
  <1>3. CASE RescheduleUpdate(r)
    <2> DEFINE row == [bookings[b] EXCEPT !.start = input[r].start,
                                          !.end = input[r].start + seen[r].total]
               u == [row |-> row, aborted |-> k # NULL /\ idem[k] # NULL]
    <2>1. /\ pc[r] = "write" /\ tx[r] = NULL
          /\ UNCHANGED <<db, idem, now, input, seen>>
      BY <1>3 DEF RescheduleUpdate, TypeOK, LocalsOK
    <2>2. seen[r].total \in Total
      BY <1>1, <2>1 DEF TypeOK, LocalsOK
    <2>3. row \in Row
      <3>1. seen[r].total \in Nat
        BY <2>2, BookingsAssumption
      <3>2. input[r].start + seen[r].total \in Nat
        BY <1>1, <3>1
      <3> QED
        BY <1>1, <3>2 DEF Row
    <2>4. u \in Update
      BY <2>3 DEF Update
    <2> HIDE DEF u
    <2>5. CASE /\ tx' = [tx EXCEPT ![r] = u]
               /\ Goto(r, "inTxInvalidate") /\ UNCHANGED reply
      <3>1. /\ pc' = [pc EXCEPT ![r] = "inTxInvalidate"]
            /\ reply' = [reply EXCEPT ![r] = reply[r]] /\ reply[r] \in Replies
        BY <2>5 DEF Goto, TypeOK
      <3>2. LocalsOK(r)'
        BY <1>1, <2>1, <2>4, <2>5, <3>1, NullAssumption DEF LocalsOK, TypeOK, db
      <3> QED
        BY <1>1, <1>2, <2>1, <2>4, <2>5, <3>1, <3>2, TablesUnchanged, MoveType DEF Labels
    <2>6. CASE Answer(r, Err("conflict")) /\ UNCHANGED tx
      BY <2>1, <2>6, RefusalType
    <2> QED
      BY <1>3, <2>5, <2>6 DEF RescheduleUpdate, u
  <1>4. CASE RescheduleInvalidate(r)
    <2>1. /\ pc' = [pc EXCEPT ![r] = "commit"]
          /\ tx' = [tx EXCEPT ![r] = tx[r]] /\ tx[r] \in Update
          /\ reply' = [reply EXCEPT ![r] = reply[r]] /\ reply[r] \in Replies
          /\ UNCHANGED <<db, idem>>
      BY <1>4 DEF RescheduleInvalidate, Goto, TypeOK, LocalsOK
    <2>2. LocalsOK(r)'
      BY <1>1, <1>4, <2>1, NullAssumption
      DEF RescheduleInvalidate, LocalsOK, TypeOK, db
    <2>3. /\ bookings' \in [Booking -> Row \cup {NULL}]
          /\ history' \in [Booking -> Seq(HistoryEntry)]
          /\ outbox' \in [Booking -> Seq(Event)]
          /\ idem' \in [Key -> Stored \cup {NULL}]
          /\ \A c \in Booking : bookings[c] # NULL => bookings'[c] # NULL
      BY <2>1 DEF TypeOK, db
    <2> QED
      BY <1>1, <1>2, <2>1, <2>2, <2>3, MoveType DEF Labels
  <1>5. CASE RescheduleCommit(r)
    <2> DEFINE row == tx[r].row
    <2>1. /\ tx[r] \in Update /\ row \in Row
          /\ tx' = [tx EXCEPT ![r] = NULL]
          /\ Answer(r, Ok(Body(b, row))) /\ Ok(Body(b, row)) \in Replies
          /\ UNCHANGED <<now, input, seen>>
      BY <1>1, <1>5, ReplyTypes DEF RescheduleCommit, TypeOK, LocalsOK, Update
    <2>2. CASE UNCHANGED <<db, idem>>
      BY <1>1, <2>1, <2>2, AnswerKeepsType
    <2>3. CASE /\ CommitUpdate(b, row, "RESCHEDULE", seen[r].start)
               /\ idem' = IF k = NULL THEN idem
                          ELSE [idem EXCEPT ![k] = [hash |-> Hash(input[r]),
                                                    response |-> Body(b, row)]]
      <3>1. idem' \in [Key -> Stored \cup {NULL}]
        <4>1. [hash |-> Hash(input[r]), response |-> Body(b, row)] \in Stored
          BY <1>1, <2>1, ReplyTypes DEF Stored
        <4> QED
          BY <1>1, <2>3, <4>1 DEF TypeOK
      <3>2. /\ bookings' \in [Booking -> Row \cup {NULL}]
            /\ history' \in [Booking -> Seq(HistoryEntry)]
            /\ outbox' \in [Booking -> Seq(Event)]
            /\ \A c \in Booking : bookings[c] # NULL => bookings'[c] # NULL
        BY <1>1, <2>1, <2>3, CommitUpdateType
      <3>3. /\ pc' \in [Request -> Labels]
            /\ reply' \in [Request -> Replies]
            /\ tx' \in [Request -> Update \cup {NULL}]
            /\ \A q \in Request : LocalsOK(q)'
        BY <1>1, <2>1, <3>2, AnswerType
      <3> QED
        BY <2>1, <3>1, <3>2, <3>3 DEF TypeOK
    <2> QED
      BY <1>5, <2>2, <2>3 DEF RescheduleCommit
  <1> QED
    BY <1>3, <1>4, <1>5

\* Saving the key and invalidating the cache after the commit preserve TypeOK.
LEMMA AfterTxType ==
  ASSUME TypeOK, NEW r \in Request, IdemSave(r) \/ Invalidate(r)
  PROVE  TypeOK'
  <1>1. /\ pc[r] \in {"save", "invalidate"} /\ input[r] \in Input
        /\ reply[r] \in Replies /\ reply[r].code = "ok"
        /\ tx[r] = NULL
        /\ UNCHANGED <<db, now, input, seen, tx, reply>>
    BY DEF TypeOK, LocalsOK, IdemSave, Invalidate
  <1>2. reply[r].body \in Bodies
    BY <1>1 DEF Replies
  <1>3. /\ seen' = [seen EXCEPT ![r] = seen[r]] /\ seen[r] \in Row \cup {NULL}
        /\ tx' = [tx EXCEPT ![r] = NULL]
        /\ reply' = [reply EXCEPT ![r] = reply[r]]
        /\ now' \in 0..MaxNow
    BY <1>1 DEF TypeOK
  <1>4. /\ bookings' \in [Booking -> Row \cup {NULL}]
        /\ history' \in [Booking -> Seq(HistoryEntry)]
        /\ outbox' \in [Booking -> Seq(Event)]
        /\ \A c \in Booking : bookings[c] # NULL => bookings'[c] # NULL
    BY <1>1 DEF TypeOK, db
  <1>5. CASE IdemSave(r)
    <2> DEFINE k == input[r].key
    <2>1. pc' = [pc EXCEPT ![r] = "invalidate"] /\ k \in Key
      BY <1>5 DEF IdemSave, Goto, TypeOK, LocalsOK
    <2>2. [hash |-> Hash(input[r]), response |-> reply[r].body] \in Stored
      BY <1>1, <1>2 DEF Stored
    <2>3. idem' \in [Key -> Stored \cup {NULL}]
       BY <1>5, <2>1, <2>2 DEF IdemSave, TypeOK
    <2>4. LocalsOK(r)'
      BY <1>1, <1>3, <2>1 DEF LocalsOK, TypeOK
    <2> QED
      BY <1>1, <1>3, <1>4, <2>1, <2>3, <2>4, MoveType, ZenonT(40) DEF Labels
  <1>6. CASE Invalidate(r)
    <2>1. pc' = [pc EXCEPT ![r] = "done"] /\ UNCHANGED idem
      BY <1>6 DEF Invalidate, Goto
    <2>2. idem' \in [Key -> Stored \cup {NULL}]
      BY <1>6, <2>1 DEF Invalidate, TypeOK
    <2>3. LocalsOK(r)'
      BY <1>1, <1>3, <2>1 DEF LocalsOK, TypeOK
    <2> QED
      BY <1>1, <1>3, <1>4, <2>1, <2>2, <2>3, MoveType, ZenonT(40) DEF Labels
  <1> QED
    BY <1>5, <1>6

\* Errors, crashes and the clock preserve TypeOK.
LEMMA FailTickType ==
  ASSUME TypeOK, (\E r \in Request : Fail(r)) \/ Tick
  PROVE  TypeOK'
  <1>1. ASSUME NEW r \in Request, Fail(r) PROVE TypeOK'
    <2>1. PICK c \in {"badRequest", "error"} : Answer(r, Err(c))
      BY <1>1 DEF Fail
    <2> QED
      BY <1>1, <2>1, AnswerKeepsType, ReplyTypes DEF Fail
  <1>2. CASE Tick
    <2>1. now' \in 0..MaxNow
      BY <1>2, BookingsAssumption DEF Tick, TypeOK
    <2>2. UNCHANGED <<db, idem, pc, input, seen, tx, reply>>
      BY <1>2 DEF Tick
    <2>3. \A q \in Request : LocalsOK(q)'
      BY <2>2 DEF TypeOK, LocalsOK, db
    <2> QED
      BY <2>1, <2>2, <2>3 DEF TypeOK, db
  <1> QED
    BY <1>1, <1>2

LEMMA LegacyRows == LegacyRow \subseteq Row
  <1> DEFINE Ends == {t + d : t \in Start, d \in Total}
  <1>1. Ends \subseteq Nat
    BY BookingsAssumption
  <1>2. \A row \in LegacyRow :
          row \in [status : Status, staff : Staff, service : Service,
                  start : Start, end : Ends, total : {NULL}]
    BY DEF LegacyRow
  <1> HIDE DEF Ends
  <1> QED
    BY <1>1, <1>2, BookingsAssumption DEF Row

LEMMA TypeInit == Init => TypeOK
  <1> SUFFICES ASSUME Init PROVE TypeOK
    OBVIOUS
  <1>1. PICK old \in [Legacy -> LegacyRow] :
          bookings = [b \in Booking |-> IF b \in Legacy THEN old[b] ELSE NULL]
    BY DEF Init
  <1>2. bookings \in [Booking -> Row \cup {NULL}]
    BY <1>1, LegacyRows, BookingsAssumption
  <1>3. NoReply \in Replies
    BY DEF NoReply, Err, Replies
  <1>4. \A r \in Request : LocalsOK(r)
    BY DEF Init, LocalsOK
  <1> QED
    BY <1>2, <1>3, <1>4, BookingsAssumption DEF Init, TypeOK, Labels

LEMMA TypeStep == TypeOK /\ [Next]_vars => TypeOK'
  <1> SUFFICES ASSUME TypeOK, [Next]_vars PROVE TypeOK'
    OBVIOUS
  <1>1. CASE UNCHANGED vars
    <2>1. \A q \in Request : LocalsOK(q)'
      BY <1>1 DEF vars, TypeOK, LocalsOK
    <2> QED
      BY <1>1, <2>1 DEF vars, TypeOK
  <1>2. ASSUME NEW r \in Request, Begin(r) PROVE TypeOK'
    BY <1>2, BeginType
  <1>3. ASSUME NEW r \in Request, Step(r) PROVE TypeOK'
    BY <1>3, CreateType, TxReadType, DecideType, RescheduleTxType, AfterTxType
    DEF Step
  <1> QED
    BY <1>1, <1>2, <1>3, FailTickType DEF Next

\* The tables and the handlers' locals stay well-formed, and what a handler
\* holds always fits where it is: an answer about to be sent is a success, an
\* open transaction belongs to a reschedule of an existing booking.
THEOREM TypeCorrect == Spec => []TypeOK
  BY TypeInit, TypeStep, PTL DEF Spec

-----------------------------------------------------------------------------
(* No double booking.  The invariant alone is not inductive: a reschedule  *)
(* commits without checking again, so the open updates must be known to    *)
(* fit (OpenMovesFit), and every other writer must be known to have        *)
(* waited for them.                                                        *)

FitInv == NoDoubleBooking /\ OpenMovesFit

\* A writer that did not wait and was let through by the constraint keeps
\* every booking apart from every other one and from every open update.
LEMMA WriteFits ==
  ASSUME TypeOK, FitInv, NEW r \in Request, tx[r] = NULL,
         NEW b \in Booking, NEW row \in Row,
         bookings' = [bookings EXCEPT ![b] = row],
         Free(b, row), ~Waits(r, b, row), UNCHANGED <<input, tx>>
  PROVE  FitInv'
  <1>1. NoDoubleBooking'
    <2> SUFFICES ASSUME NEW c \in Booking, NEW d \in Booking, c # d,
                        bookings'[c] # NULL, bookings'[d] # NULL,
                        Conflict(bookings'[c], bookings'[d])
                 PROVE  FALSE
      BY DEF NoDoubleBooking, Conflict
    <2>1. CASE c = b
      BY <2>1 DEF Free, TypeOK
    <2>2. CASE d = b
      BY <2>2, ConflictSymmetric DEF Free, TypeOK
    <2>3. CASE c # b /\ d # b
      BY <2>3 DEF FitInv, NoDoubleBooking, TypeOK
    <2> QED
      BY <2>1, <2>2, <2>3
  <1>2. OpenMovesFit'
    <2> SUFFICES ASSUME NEW q \in Request, tx[q] # NULL
                 PROVE  /\ Free(input[q].booking, tx[q].row)'
                        /\ \A p \in Request \ {q} : tx[p] # NULL =>
                             /\ input[p].booking # input[q].booking
                             /\ ~Conflict(tx[q].row, tx[p].row)
      BY DEF OpenMovesFit, Conflict
    <2>1. input[q].booking # b /\ ~Conflict(tx[q].row, row)
      BY ConflictSymmetric DEF Waits
    <2>2. Free(input[q].booking, tx[q].row)
      BY DEF FitInv, OpenMovesFit
    <2>3. ASSUME NEW c \in Booking \ {input[q].booking}, bookings'[c] # NULL
          PROVE  ~Conflict(tx[q].row, bookings'[c])
      BY <2>1, <2>2, <2>3 DEF Free, TypeOK
    <2>4. Free(input[q].booking, tx[q].row)'
      BY <2>3 DEF Free, Conflict
    <2> QED
      BY <2>4 DEF FitInv, OpenMovesFit
  <1> QED
    BY <1>1, <1>2 DEF FitInv

\* Steps that commit nothing and open no update keep both invariants; closing
\* an update (a rollback) does too.
LEMMA NoWriteFits ==
  ASSUME TypeOK, FitInv, UNCHANGED bookings,
         \A q \in Request : tx'[q] # NULL =>
           tx'[q] = tx[q] /\ input'[q].booking = input[q].booking
  PROVE  FitInv'
  <1>1. NoDoubleBooking'
    BY DEF FitInv, NoDoubleBooking, Conflict
  <1>2. ASSUME NEW q \in Request, tx'[q] # NULL
        PROVE  /\ Free(input[q].booking, tx[q].row)'
               /\ \A p \in Request \ {q} : tx'[p] # NULL =>
                    /\ input'[p].booking # input'[q].booking
                    /\ ~Conflict(tx'[q].row, tx'[p].row)
    BY <1>2 DEF FitInv, OpenMovesFit, Free, Conflict
  <1> QED
    BY <1>1, <1>2 DEF FitInv, OpenMovesFit, Conflict

\* The step that opens an update: the constraint let it through and it waited.
LEMMA UpdateFits ==
  ASSUME TypeOK, FitInv, NEW r \in Request, RescheduleUpdate(r)
  PROVE  FitInv'
  <1> DEFINE b == input[r].booking
             k == input[r].key
             row == [bookings[b] EXCEPT !.start = input[r].start,
                                        !.end = input[r].start + seen[r].total]
             u == [row |-> row, aborted |-> k # NULL /\ idem[k] # NULL]
  <1>1. /\ ~Waits(r, b, row)
        /\ UNCHANGED <<bookings, input>>
        /\ \/ UNCHANGED tx
           \/ Free(b, row) /\ tx' = [tx EXCEPT ![r] = u]
    BY DEF RescheduleUpdate, db
  <1>2. u.row = row
    OBVIOUS
  <1> HIDE DEF row, u, b
  <1>3. CASE UNCHANGED tx
    BY <1>1, <1>3, NoWriteFits
  <1>4. CASE Free(b, row) /\ tx' = [tx EXCEPT ![r] = u]
    <2>1. tx'[r].row = row /\ \A q \in Request \ {r} : tx'[q] = tx[q]
      BY <1>2, <1>4 DEF TypeOK
    <2>2. \A q \in Request \ {r} : tx[q] # NULL =>
            /\ input[q].booking # b
            /\ ~Conflict(row, tx[q].row) /\ ~Conflict(tx[q].row, row)
      BY <1>1, ConflictSymmetric DEF Waits
    <2>3. NoDoubleBooking'
      BY <1>1 DEF FitInv, NoDoubleBooking, Conflict
    <2>4. ASSUME NEW q \in Request, tx'[q] # NULL
          PROVE  /\ Free(input[q].booking, tx[q].row)'
                 /\ \A p \in Request \ {q} : tx'[p] # NULL =>
                      /\ input[p].booking # input[q].booking
                      /\ ~Conflict(tx'[q].row, tx'[p].row)
      <3>1. CASE q = r
        <4>1. Free(input[q].booking, tx[q].row)'
          BY <1>1, <1>4, <2>1, <3>1 DEF Free, Conflict, b
        <4> QED
          BY <2>1, <2>2, <3>1, <4>1 DEF b
      <3>2. CASE q # r
        <4>1. Free(input[q].booking, tx[q].row)
          BY <2>1, <2>4, <3>2 DEF FitInv, OpenMovesFit
        <4>2. Free(input[q].booking, tx[q].row)'
          BY <1>1, <2>1, <3>2, <4>1 DEF Free, Conflict
        <4>3. ASSUME NEW p \in Request \ {q}, tx'[p] # NULL
              PROVE  /\ input[p].booking # input[q].booking
                     /\ ~Conflict(tx'[q].row, tx'[p].row)
          <5>1. CASE p = r
            BY <2>1, <2>2, <2>4, <3>2, <5>1 DEF b
          <5>2. CASE p # r
            BY <2>1, <2>4, <3>2, <4>3, <5>2 DEF FitInv, OpenMovesFit
          <5> QED
            BY <5>1, <5>2
        <4> QED
          BY <4>2, <4>3
      <3> QED
        BY <3>1, <3>2
    <2> QED
      BY <1>1, <2>3, <2>4 DEF FitInv, OpenMovesFit, Conflict
  <1> QED
    BY <1>1, <1>3, <1>4

\* The step that commits an open update relies on OpenMovesFit alone.
LEMMA CommitFits ==
  ASSUME TypeOK, FitInv, NEW r \in Request, RescheduleCommit(r)
  PROVE  FitInv'
  <1> DEFINE b == input[r].booking
             row == tx[r].row
  <1>1. /\ tx[r] # NULL /\ b \in Booking
        /\ tx' = [tx EXCEPT ![r] = NULL] /\ UNCHANGED input
        /\ bookings' \in {bookings, [bookings EXCEPT ![b] = row]}
    BY InputTypes DEF RescheduleCommit, CommitUpdate, db, TypeOK, LocalsOK
  <1>2. /\ Free(b, row)
        /\ \A q \in Request \ {r} : tx[q] # NULL =>
             /\ input[q].booking # b
             /\ ~Conflict(row, tx[q].row) /\ ~Conflict(tx[q].row, row)
    BY <1>1, ConflictSymmetric DEF FitInv, OpenMovesFit
  <1>3. \A q \in Request \ {r} : tx'[q] = tx[q]
    BY <1>1 DEF TypeOK
  <1>4. tx'[r] = NULL
    BY <1>1 DEF TypeOK
  <1> HIDE DEF b, row
  <1>5. CASE bookings' = bookings
    BY <1>1, <1>3, <1>4, <1>5, NoWriteFits
  <1>6. CASE bookings' = [bookings EXCEPT ![b] = row]
    <2>1. NoDoubleBooking'
      <3> SUFFICES ASSUME NEW c \in Booking, NEW d \in Booking, c # d,
                          bookings'[c] # NULL, bookings'[d] # NULL,
                          Conflict(bookings'[c], bookings'[d])
                   PROVE  FALSE
        BY DEF NoDoubleBooking, Conflict
      <3>1. CASE c = b
        BY <1>2, <1>6, <3>1 DEF Free, TypeOK
      <3>2. CASE d = b
        BY <1>2, <1>6, <3>2, ConflictSymmetric DEF Free, TypeOK
      <3>3. CASE c # b /\ d # b
        BY <1>6, <3>3 DEF FitInv, NoDoubleBooking, TypeOK
      <3> QED
        BY <3>1, <3>2, <3>3
    <2>2. ASSUME NEW q \in Request, tx'[q] # NULL
          PROVE  /\ Free(input[q].booking, tx[q].row)'
                 /\ \A p \in Request \ {q} : tx'[p] # NULL =>
                      /\ input[p].booking # input[q].booking
                      /\ ~Conflict(tx'[q].row, tx'[p].row)
      <3>1. q # r /\ tx'[q] = tx[q]
        BY <1>3, <1>4, <2>2
      <3>2. Free(input[q].booking, tx[q].row)
        BY <2>2, <3>1 DEF FitInv, OpenMovesFit
      <3>3. ASSUME NEW c \in Booking \ {input[q].booking}, bookings'[c] # NULL
            PROVE  ~Conflict(tx[q].row, bookings'[c])
        BY <1>1, <1>2, <1>6, <2>2, <3>1, <3>2, <3>3 DEF Free, TypeOK
      <3>4. Free(input[q].booking, tx[q].row)'
        BY <1>1, <3>1, <3>3 DEF Free, Conflict
      <3>5. ASSUME NEW p \in Request \ {q}, tx'[p] # NULL
            PROVE  /\ input[p].booking # input[q].booking
                   /\ ~Conflict(tx'[q].row, tx'[p].row)
        BY <1>3, <1>4, <2>2, <3>1, <3>5 DEF FitInv, OpenMovesFit
      <3> QED
        BY <3>4, <3>5
    <2> QED
      BY <1>1, <2>1, <2>2 DEF FitInv, OpenMovesFit, Conflict
  <1> QED
    BY <1>1, <1>5, <1>6

\* The commits of create, cancel and confirm.
LEMMA OtherCommitsFit ==
  ASSUME TypeOK, FitInv, NEW r \in Request,
         CreateCommit(r) \/ CancelCommit(r) \/ ConfirmCommit(r)
  PROVE  FitInv'
  <1>1. pc[r] = "write" /\ tx[r] = NULL /\ UNCHANGED <<input, tx>>
        /\ input[r] \in Input /\ seen[r] \in Row
    BY DEF CreateCommit, CancelCommit, ConfirmCommit, TypeOK, LocalsOK
  <1>2. CASE UNCHANGED db
    BY <1>1, <1>2, NoWriteFits DEF db
  <1>3. CASE CreateCommit(r)
    <2>1. \/ UNCHANGED db
          \/ \E b \in Booking : /\ Free(b, seen[r]) /\ ~Waits(r, b, seen[r])
                                /\ bookings' = [bookings EXCEPT ![b] = seen[r]]
      BY <1>3 DEF CreateCommit, CommitInsert
    <2> QED
      BY <1>1, <1>2, <2>1, WriteFits
  <1>4. CASE CancelCommit(r) \/ ConfirmCommit(r)
    <2> DEFINE b == input[r].booking
               row(s) == [bookings[b] EXCEPT !.status = s]
    <2>1. b \in Booking /\ bookings[b] \in Row
      BY <1>1, <1>4, InputTypes DEF CancelCommit, ConfirmCommit, TypeOK, LocalsOK
    <2>2. \A s \in Status : row(s) \in Row
      BY <2>1 DEF Row
    <2>3. row("CANCELLED").status = "CANCELLED"
      BY <2>1 DEF Row
    <2>4. Free(b, row("CANCELLED"))
      BY <2>3, SMTT(30) DEF Free, Conflict, Active
    <2>5. \/ UNCHANGED db
          \/ \E s \in Status : /\ Free(b, row(s)) /\ ~Waits(r, b, row(s))
                               /\ bookings' = [bookings EXCEPT ![b] = row(s)]
      BY <1>4, <2>4 DEF CancelCommit, ConfirmCommit, CommitUpdate, Status
    <2> HIDE DEF b, row
    <2> QED
      BY <1>1, <1>2, <2>1, <2>2, <2>5, WriteFits
  <1> QED
    BY <1>3, <1>4

LEMMA FitStep == TypeOK /\ FitInv /\ [Next]_vars => FitInv'
  <1> SUFFICES ASSUME TypeOK, FitInv, [Next]_vars PROVE FitInv'
    OBVIOUS
  <1>1. CASE UNCHANGED vars
    BY <1>1, NoWriteFits DEF vars, db
  <1>2. ASSUME NEW r \in Request, Begin(r) PROVE FitInv'
    <2>1. /\ UNCHANGED <<bookings, tx>> /\ tx[r] = NULL
          /\ \A q \in Request \ {r} : input'[q] = input[q]
      BY <1>2, SMTT(30) DEF Begin, db, TypeOK, LocalsOK
    <2> QED
      BY <2>1, NoWriteFits
  <1>3. ASSUME NEW r \in Request, Fail(r) PROVE FitInv'
    <2>1. UNCHANGED <<bookings, input>> /\ tx' = [tx EXCEPT ![r] = NULL]
      BY <1>3 DEF Fail, db
    <2> QED
      BY <2>1, NoWriteFits DEF TypeOK
  <1>4. CASE Tick
    BY <1>4, NoWriteFits DEF Tick, db
  <1>5. ASSUME NEW r \in Request, Step(r) PROVE FitInv'
    <2>1. CASE \/ CreateResolve(r) \/ RescheduleRead(r) \/ RescheduleInvalidate(r)
               \/ CancelRead(r) \/ ConfirmRead(r) \/ IdemSave(r) \/ Invalidate(r)
      <3>1. UNCHANGED <<bookings, input, tx>>
        BY <2>1 DEF CreateResolve, RescheduleRead, RescheduleInvalidate,
                    CancelRead, ConfirmRead, IdemSave, Invalidate, db
      <3> QED
        BY <3>1, NoWriteFits
    <2>2. CASE CreateCommit(r) \/ CancelCommit(r) \/ ConfirmCommit(r)
      BY <2>2, OtherCommitsFit
    <2>3. CASE RescheduleUpdate(r) \/ RescheduleCommit(r)
      BY <2>3, UpdateFits, CommitFits
    <2> QED
      BY <1>5, <2>1, <2>2, <2>3 DEF Step
  <1> QED
    BY <1>1, <1>2, <1>3, <1>4, <1>5 DEF Next

LEMMA FitInit == Init => FitInv
  <1> SUFFICES ASSUME Init PROVE FitInv
    OBVIOUS
  <1>1. PICK old \in [Legacy -> LegacyRow] :
          /\ \A b, c \in Legacy : b # c => ~Conflict(old[b], old[c])
          /\ bookings = [b \in Booking |-> IF b \in Legacy THEN old[b] ELSE NULL]
    BY DEF Init
  <1>2. NoDoubleBooking
    BY <1>1 DEF NoDoubleBooking
  <1>3. OpenMovesFit
    BY DEF Init, OpenMovesFit
  <1> QED
    BY <1>2, <1>3 DEF FitInv

\* No member of staff is ever booked twice at the same time, whatever the
\* concurrent creates, reschedules, cancels and confirms do.
THEOREM NeverDoubleBooked == Spec => []NoDoubleBooking
  <1>1. Spec => []FitInv
    BY TypeCorrect, FitInit, FitStep, PTL DEF Spec
  <1>2. FitInv => NoDoubleBooking
    BY DEF FitInv
  <1> QED
    BY <1>1, <1>2, PTL

\* An uncommitted move fits until it commits, so its commit need not look
\* again.
THEOREM OpenMovesAlwaysFit == Spec => []OpenMovesFit
  <1>1. Spec => []FitInv
    BY TypeCorrect, FitInit, FitStep, PTL DEF Spec
  <1>2. FitInv => OpenMovesFit
    BY DEF FitInv
  <1> QED
    BY <1>1, <1>2, PTL

-----------------------------------------------------------------------------
(* Finished bookings.  The updates go by id alone; what keeps them off a   *)
(* finished row is that nobody finishes a booking, so that a row that was  *)
(* read as active may become cancelled or confirmed but never finished.    *)

Finished == {"COMPLETED", "NO_SHOW"}

\* A request about to write, or to commit, does not write a finished row.
OpenRow(r) ==
  /\ (pc[r] \in {"write", "inTxInvalidate", "commit"} /\ input[r].op # "create") =>
       bookings[input[r].booking].status \notin Finished
  /\ pc[r] = "write" /\ input[r].op = "create" => seen[r].status \notin Finished
  /\ tx[r] # NULL => tx[r].row.status \notin Finished

WritersSawOpenRows == \A r \in Request : OpenRow(r)

\* A step writes rows only that were not finished, and does not finish them.
WritesOpenRows ==
  \A b \in Booking : bookings'[b] # bookings[b] =>
    /\ bookings'[b].status \notin Finished
    /\ bookings[b] # NULL => bookings[b].status \notin Finished

\* It is enough to look at the request that makes the step.
LEMMA OthersSawOpenRows ==
  ASSUME TypeOK, WritersSawOpenRows, WritesOpenRows, NEW r \in Request,
         \A q \in Request \ {r} : /\ pc'[q] = pc[q] /\ tx'[q] = tx[q]
                                  /\ input'[q] = input[q] /\ seen'[q] = seen[q],
         OpenRow(r)'
  PROVE  WritersSawOpenRows'
  <1> SUFFICES ASSUME NEW q \in Request, q # r PROVE OpenRow(q)'
    BY DEF WritersSawOpenRows
  <1>1. pc[q] = "write" /\ input[q].op # "create" => input[q].booking \in Booking
    BY InputTypes DEF TypeOK, LocalsOK
  <1>2. pc[q] \in {"inTxInvalidate", "commit"} => input[q].booking \in Booking
    <2>1. pc[q] \in {"inTxInvalidate", "commit"} => input[q] \in Input /\ input[q].op # "create"
      BY DEF TypeOK, LocalsOK
    <2> QED
      BY <2>1, InputTypes
  <1>3. pc'[q] = pc[q] /\ tx'[q] = tx[q] /\ input'[q] = input[q] /\ seen'[q] = seen[q]
    OBVIOUS
  <1>4. OpenRow(q)
    BY DEF WritersSawOpenRows
  <1> QED
    BY <1>1, <1>2, <1>3, <1>4 DEF OpenRow, WritesOpenRows

\* Steps that commit nothing.
LEMMA QuietOpenRows ==
  ASSUME TypeOK, WritersSawOpenRows, NEW r \in Request,
         Begin(r) \/ CreateResolve(r) \/ RescheduleRead(r) \/ RescheduleUpdate(r)
         \/ RescheduleInvalidate(r) \/ CancelRead(r) \/ ConfirmRead(r)
         \/ IdemSave(r) \/ Invalidate(r) \/ Fail(r)
  PROVE  WritesOpenRows /\ WritersSawOpenRows'
  <1>1. UNCHANGED bookings
    BY ZenonT(40) DEF Begin, CreateResolve, RescheduleRead, RescheduleUpdate, RescheduleInvalidate,
           CancelRead, ConfirmRead, IdemSave, Invalidate, Fail, db
  <1>2. WritesOpenRows
    BY <1>1, ZenonT(40) DEF WritesOpenRows
  <1>3. \A q \in Request \ {r} : /\ pc'[q] = pc[q] /\ tx'[q] = tx[q]
                                 /\ input'[q] = input[q] /\ seen'[q] = seen[q]
    BY ZenonT(40) DEF Begin, CreateResolve, RescheduleRead, RescheduleUpdate, RescheduleInvalidate,
           CancelRead, ConfirmRead, IdemSave, Invalidate, Fail, Goto, Answer, AfterCommit,
           TypeOK
  <1>4. OpenRow(r) /\ LocalsOK(r)
    BY DEF WritersSawOpenRows, TypeOK
  <1>5. ASSUME Begin(r) PROVE OpenRow(r)'
    <2>1. tx'[r] = NULL /\ pc'[r] \in {"resolve", "read", "done"}
      BY <1>4, <1>5 DEF Begin, Goto, Answer, TypeOK, LocalsOK
    <2> QED
      BY <2>1 DEF OpenRow
  <1>6. ASSUME CreateResolve(r) PROVE OpenRow(r)'
    <2>1. tx'[r] = NULL /\ input'[r].op = "create"
      BY <1>4, <1>6 DEF CreateResolve, LocalsOK
    <2>2. pc'[r] = "done" \/ seen'[r].status = "PENDING"
      BY <1>6 DEF CreateResolve, Answer, Goto, TypeOK
    <2> QED
      BY <2>1, <2>2 DEF OpenRow, Finished
  <1>7. ASSUME RescheduleRead(r) \/ CancelRead(r) \/ ConfirmRead(r) PROVE OpenRow(r)'
    <2>1. tx'[r] = NULL /\ input'[r] = input[r] /\ input[r].op # "create" /\ bookings' = bookings
      BY <1>1, <1>4, <1>7, SMTT(30) DEF RescheduleRead, CancelRead, ConfirmRead, LocalsOK
    <2>2. pc'[r] \in {"done", "save", "invalidate"}
          \/ bookings[input[r].booking].status \notin Finished
      BY <1>7 DEF RescheduleRead, CancelRead, ConfirmRead, Answer, AfterCommit, Goto, TypeOK,
                  Active, Finished
    <2> QED
      BY <2>1, <2>2, SMTT(30) DEF OpenRow
  <1>8. ASSUME RescheduleUpdate(r) PROVE OpenRow(r)'
    <2> DEFINE row == [bookings[input[r].booking] EXCEPT !.start = input[r].start,
                         !.end = input[r].start + seen[r].total]
    <2>1. /\ bookings[input[r].booking] \in Row
          /\ bookings[input[r].booking].status \notin Finished
          /\ tx[r] = NULL /\ input[r].op # "create" /\ UNCHANGED <<bookings, input>>
      BY <1>1, <1>4, <1>8, InputTypes DEF RescheduleUpdate, TypeOK, LocalsOK, OpenRow
    <2>2. row.status \notin Finished
      BY <2>1 DEF Row
    <2>3. tx'[r] # NULL => tx'[r].row = row
      BY <1>8, <2>1 DEF RescheduleUpdate, TypeOK
    <2> HIDE DEF row
    <2> QED
      BY <2>1, <2>2, <2>3 DEF OpenRow
  <1>9. ASSUME RescheduleInvalidate(r) PROVE OpenRow(r)'
    BY <1>1, <1>4, <1>9 DEF RescheduleInvalidate, LocalsOK, OpenRow
  <1>10. ASSUME IdemSave(r) \/ Invalidate(r) \/ Fail(r) PROVE OpenRow(r)'
    <2>1. tx'[r] = NULL
      BY <1>4, <1>10 DEF IdemSave, Invalidate, Fail, LocalsOK, TypeOK
    <2>2. pc'[r] \in {"invalidate", "done"}
      BY <1>10 DEF IdemSave, Invalidate, Fail, Answer, Goto, TypeOK
    <2> QED
      BY <2>1, <2>2 DEF OpenRow
  <1>11. OpenRow(r)'
    BY <1>5, <1>6, <1>7, <1>8, <1>9, <1>10
  <1> QED
    BY <1>2, <1>3, <1>11, OthersSawOpenRows, SMTT(30)

\* The commits.
LEMMA CommitOpenRows ==
  ASSUME TypeOK, WritersSawOpenRows, NEW r \in Request,
         CreateCommit(r) \/ RescheduleCommit(r) \/ CancelCommit(r) \/ ConfirmCommit(r)
  PROVE  WritesOpenRows /\ WritersSawOpenRows'
  <1>1. /\ \A q \in Request \ {r} : /\ pc'[q] = pc[q] /\ tx'[q] = tx[q]
                                    /\ input'[q] = input[q] /\ seen'[q] = seen[q]
        /\ pc'[r] \in {"done", "save", "invalidate"}
    BY DEF CreateCommit, RescheduleCommit, CancelCommit, ConfirmCommit, Goto, Answer,
           AfterCommit, TypeOK
  <1>2. OpenRow(r) /\ LocalsOK(r)
    BY DEF WritersSawOpenRows, TypeOK
  <1>3. tx'[r] = NULL
    BY <1>2 DEF CreateCommit, RescheduleCommit, CancelCommit, ConfirmCommit, LocalsOK, TypeOK
  <1>4. OpenRow(r)'
    BY <1>1, <1>3 DEF OpenRow
  <1>5. ASSUME NEW b \in Booking, NEW row, bookings' \in {bookings, [bookings EXCEPT ![b] = row]},
               row.status \notin Finished,
               bookings[b] # NULL => bookings[b].status \notin Finished
        PROVE  WritesOpenRows
    BY <1>5 DEF WritesOpenRows, TypeOK
  <1>6. ASSUME CreateCommit(r) PROVE WritesOpenRows
    <2>1. PICK b \in Booking : bookings[b] = NULL /\ bookings' \in {bookings, [bookings EXCEPT ![b] = seen[r]]}
      BY <1>6 DEF CreateCommit, CommitInsert, db
    <2> QED
      BY <1>2, <1>5, <1>6, <2>1 DEF CreateCommit, OpenRow
  <1>7. ASSUME RescheduleCommit(r) PROVE WritesOpenRows
    <2>1. input[r].booking \in Booking /\ tx[r] # NULL /\ pc[r] = "commit" /\ input[r].op # "create"
      BY <1>2, <1>7, InputTypes, SMTT(30) DEF RescheduleCommit, LocalsOK
    <2>2. bookings' \in {bookings, [bookings EXCEPT ![input[r].booking] = tx[r].row]}
      BY <1>7 DEF RescheduleCommit, CommitUpdate, db
    <2> QED
      BY <1>2, <1>5, <2>1, <2>2 DEF OpenRow
  <1>8. ASSUME CancelCommit(r) \/ ConfirmCommit(r) PROVE WritesOpenRows
    <2> DEFINE b == input[r].booking
               row(s) == [bookings[b] EXCEPT !.status = s]
    <2>1. b \in Booking /\ bookings[b] \in Row /\ bookings[b].status \notin Finished
      BY <1>2, <1>8, InputTypes DEF CancelCommit, ConfirmCommit, TypeOK, LocalsOK, OpenRow
    <2>2. row("CANCELLED").status \notin Finished /\ row("CONFIRMED").status \notin Finished
      BY <2>1, SMTT(30) DEF Row, Finished
    <2>3. \E s \in {"CANCELLED", "CONFIRMED"} : bookings' \in {bookings, [bookings EXCEPT ![b] = row(s)]}
      BY <1>8 DEF CancelCommit, ConfirmCommit, CommitUpdate, db
    <2> HIDE DEF b, row
    <2> QED
      BY <1>5, <2>1, <2>2, <2>3
  <1>9. WritesOpenRows
    BY <1>6, <1>7, <1>8
  <1> QED
    BY <1>1, <1>4, <1>9, OthersSawOpenRows

LEMMA OpenRowsStep ==
  ASSUME TypeOK, WritersSawOpenRows, [Next]_vars
  PROVE  WritesOpenRows /\ WritersSawOpenRows'
  <1>1. ASSUME UNCHANGED vars \/ Tick PROVE WritesOpenRows /\ WritersSawOpenRows'
    <2>1. UNCHANGED <<bookings, pc, input, seen, tx>>
      BY <1>1 DEF vars, Tick, db
    <2> QED
      BY <2>1 DEF WritesOpenRows, WritersSawOpenRows, OpenRow
  <1> QED
    BY <1>1, QuietOpenRows, CommitOpenRows DEF Next, Step

\* Nobody writes a completed booking or a no-show again, although cancel, confirm
\* and reschedule update by id what they read as active some time ago.
THEOREM FinishedStaysFinal == Spec => FinishedIsFinal
  <1>1. Init => WritersSawOpenRows
    BY DEF Init, WritersSawOpenRows, OpenRow
  <1>2. TypeOK /\ WritersSawOpenRows /\ [Next]_vars => WritersSawOpenRows'
    BY OpenRowsStep
  <1>3. TypeOK /\ WritersSawOpenRows /\ [Next]_vars =>
          \A b \in Booking :
            (bookings[b] # NULL /\ bookings[b].status \in {"COMPLETED", "NO_SHOW"})
              => bookings'[b] = bookings[b]
    BY OpenRowsStep DEF WritesOpenRows, Finished
  <1> QED
    BY <1>1, <1>2, <1>3, TypeCorrect, PTL DEF Spec, FinishedIsFinal

-----------------------------------------------------------------------------
(* Idempotency keys.  A reschedule inserts its key in its transaction, so  *)
(* for as long as that is open the key is not there for others to find;    *)
(* but their inserts wait for it, and then find the key.                   *)

\* The open transaction of r has inserted its key.
OpenKey(r) == tx[r] # NULL /\ ~tx[r].aborted /\ input[r].key # NULL

\* Such a key is not committed, and no other transaction has inserted it.
OpenKeysAreFree ==
  \A r \in Request : OpenKey(r) =>
    /\ idem[input[r].key] = NULL
    /\ \A q \in Request \ {r} : OpenKey(q) => input[q].key # input[r].key

StoredStay == \A k \in Key : idem[k] # NULL => idem'[k] = idem[k]

\* Steps that save no key and open no transaction.
LEMMA QuietKeys ==
  ASSUME TypeOK, OpenKeysAreFree, UNCHANGED idem,
         \A q \in Request : OpenKey(q)' => OpenKey(q) /\ input'[q] = input[q]
  PROVE  StoredStay /\ OpenKeysAreFree'
  <1>1. StoredStay
    BY DEF StoredStay
  <1> QED
    BY <1>1 DEF OpenKeysAreFree

\* The insert of a key in a transaction has waited for the others.
LEMMA UpdateKeys ==
  ASSUME TypeOK, OpenKeysAreFree, NEW r \in Request, RescheduleUpdate(r)
  PROVE  StoredStay /\ OpenKeysAreFree'
  <1> DEFINE k == input[r].key
  <1>1. /\ UNCHANGED <<idem, input>> /\ tx[r] = NULL
        /\ k # NULL => ~KeyWaits(r, k)
        /\ \A q \in Request \ {r} : tx'[q] = tx[q]
    BY DEF RescheduleUpdate, TypeOK, LocalsOK
  <1>2. tx'[r] = NULL \/ tx'[r].aborted = (k # NULL /\ idem[k] # NULL)
    BY <1>1 DEF RescheduleUpdate, TypeOK
  <1>3. \A q \in Request \ {r} : OpenKey(q)' <=> OpenKey(q)
    BY <1>1 DEF OpenKey
  <1>4. OpenKey(r)' => /\ idem[k] = NULL /\ k # NULL
                       /\ \A q \in Request \ {r} : OpenKey(q) => input[q].key # k
    BY <1>1, <1>2 DEF OpenKey, KeyWaits
  <1> QED
    BY <1>1, <1>3, <1>4 DEF OpenKeysAreFree, StoredStay

\* The commit saves a key that nobody has saved meanwhile.
LEMMA CommitKeys ==
  ASSUME TypeOK, OpenKeysAreFree, NEW r \in Request, RescheduleCommit(r)
  PROVE  StoredStay /\ OpenKeysAreFree'
  <1> DEFINE k == input[r].key
             entry == [hash |-> Hash(input[r]), response |-> Body(input[r].booking, tx[r].row)]
  <1>1. /\ UNCHANGED input /\ tx[r] # NULL /\ k \in Key \cup {NULL}
        /\ tx'[r] = NULL /\ \A q \in Request \ {r} : tx'[q] = tx[q]
    BY InputTypes DEF RescheduleCommit, TypeOK, LocalsOK
  <1>2. \A q \in Request : OpenKey(q)' => q # r /\ OpenKey(q) /\ input'[q] = input[q]
    BY <1>1 DEF OpenKey
  <1>3. CASE UNCHANGED idem
    BY <1>2, <1>3, QuietKeys
  <1>4. CASE OpenKey(r) /\ idem' = [idem EXCEPT ![k] = entry]
    <2>1. idem[k] = NULL /\ \A q \in Request \ {r} : OpenKey(q) => input[q].key # k
      BY <1>4 DEF OpenKeysAreFree
    <2>2. \A l \in Key \ {k} : idem'[l] = idem[l]
      BY <1>4 DEF TypeOK
    <2>3. StoredStay
      BY <2>1, <2>2 DEF StoredStay
    <2>4. \A q \in Request : OpenKey(q) => input[q].key \in Key
      BY InputTypes DEF OpenKey, TypeOK, LocalsOK
    <2>5. OpenKeysAreFree'
      BY <1>1, <1>2, <2>1, <2>2, <2>4 DEF OpenKeysAreFree
    <2> QED
      BY <2>3, <2>5
  <1> QED
    BY <1>1, <1>3, <1>4 DEF RescheduleCommit, OpenKey, entry, k

\* idemSave, after a transaction, waits for whoever is inserting the key too.
LEMMA SaveKeys ==
  ASSUME TypeOK, OpenKeysAreFree, NEW r \in Request, IdemSave(r)
  PROVE  StoredStay /\ OpenKeysAreFree'
  <1> DEFINE k == input[r].key
  <1>1. UNCHANGED <<input, tx>> /\ tx[r] = NULL /\ ~KeyWaits(r, k)
    BY DEF IdemSave, TypeOK, LocalsOK
  <1>2. \A q \in Request : OpenKey(q)' <=> OpenKey(q)
    BY <1>1 DEF OpenKey
  <1>3. \A q \in Request : OpenKey(q) => input[q].key # k /\ input[q].key \in Key
    BY <1>1, InputTypes DEF OpenKey, KeyWaits, TypeOK, LocalsOK
  <1>4. \A l \in Key : l # k \/ idem[l] # NULL => idem'[l] = idem[l]
    BY DEF IdemSave, TypeOK
  <1>5. StoredStay
    BY <1>4 DEF StoredStay
  <1> QED
    BY <1>1, <1>2, <1>3, <1>4, <1>5 DEF OpenKeysAreFree

LEMMA KeysStep ==
  ASSUME TypeOK, OpenKeysAreFree, [Next]_vars
  PROVE  StoredStay /\ OpenKeysAreFree'
  <1>1. ASSUME UNCHANGED vars \/ Tick PROVE StoredStay /\ OpenKeysAreFree'
    BY <1>1, QuietKeys DEF vars, Tick, OpenKey
  <1>2. ASSUME NEW r \in Request, Begin(r) \/ Fail(r) PROVE StoredStay /\ OpenKeysAreFree'
    <2>1. UNCHANGED idem
      BY <1>2 DEF Begin, Fail
    <2>2. /\ tx'[r] = NULL
          /\ \A q \in Request \ {r} : tx'[q] = tx[q] /\ input'[q] = input[q]
      BY <1>2 DEF Begin, Fail, TypeOK, LocalsOK
    <2> QED
      BY <2>1, <2>2, QuietKeys DEF OpenKey
  <1>3. ASSUME NEW r \in Request,
               \/ CreateResolve(r) \/ CreateCommit(r) \/ RescheduleRead(r)
               \/ RescheduleInvalidate(r) \/ CancelRead(r) \/ CancelCommit(r)
               \/ ConfirmRead(r) \/ ConfirmCommit(r) \/ Invalidate(r)
        PROVE  StoredStay /\ OpenKeysAreFree'
    <2>1. UNCHANGED <<idem, input, tx>>
      BY <1>3 DEF CreateResolve, CreateCommit, RescheduleRead, RescheduleInvalidate, CancelRead,
                  CancelCommit, ConfirmRead, ConfirmCommit, Invalidate
    <2> QED
      BY <2>1, QuietKeys, SMTT(30) DEF OpenKey
  <1> QED
    BY <1>1, <1>2, <1>3, UpdateKeys, CommitKeys, SaveKeys DEF Next, Step

\* An idempotency key is answered with one and the same answer for ever, whether
\* it was saved in a transaction or after one, by whichever request came first.
THEOREM KeysStayWritten == Spec => KeysAreWrittenOnce
  <1>1. Init => OpenKeysAreFree
    BY DEF Init, OpenKeysAreFree, OpenKey
  <1>2. TypeOK /\ OpenKeysAreFree /\ [Next]_vars => OpenKeysAreFree'
    BY KeysStep
  <1>3. TypeOK /\ OpenKeysAreFree /\ [Next]_vars =>
          \A k \in Key : idem[k] # NULL => idem'[k] = idem[k]
    BY KeysStep DEF StoredStay
  <1> QED
    BY <1>1, <1>2, <1>3, TypeCorrect, PTL DEF Spec, KeysAreWrittenOnce

-----------------------------------------------------------------------------
(* Records.  Histories and events are appended, so what has to be known is *)
(* their last entry; and what a handler holds between its steps agrees     *)
(* with the row in all that the row can no longer change.                  *)

LEMMA FinalOfAppend ==
  ASSUME NEW S, NEW s \in Seq(S), NEW e \in S
  PROVE  /\ Append(s, e) # <<>>
         /\ Final(Append(s, e)) = e
         /\ Len(Append(s, e)) = Len(s) + 1
         /\ \A n \in 1..Len(s) : Append(s, e)[n] = s[n]
  BY DEF Final

LEMMA FinalOfConcat ==
  ASSUME NEW S, NEW s \in Seq(S), NEW t \in Seq(S)
  PROVE  /\ t = <<>> => s \o t = s
         /\ t # <<>> => s \o t # <<>> /\ Final(s \o t) = Final(t)
         /\ s \o t = <<>> => s = <<>> /\ t = <<>>
  <1>1. t = <<>> => s \o t = s
    OBVIOUS
  <1>2. Len(s \o t) = Len(s) + Len(t) /\ Len(s) \in Nat /\ Len(t) \in Nat
    OBVIOUS
  <1>3. ASSUME t # <<>> PROVE s \o t # <<>> /\ Final(s \o t) = Final(t)
    <2>1. Len(t) > 0
      BY <1>3
    <2>2. (s \o t)[Len(s) + Len(t)] = t[Len(t)]
      BY <2>1
    <2> QED
      BY <1>2, <2>1, <2>2 DEF Final
  <1>4. s \o t = <<>> => s = <<>> /\ t = <<>>
    BY <1>2
  <1> QED
    BY <1>1, <1>3, <1>4

\* The trigger: an event for every change, the last one with the new row.
LEMMA UpdateEventsFinal ==
  ASSUME NEW old \in Row, NEW new \in Row
  PROVE  LET events == UpdateEvents(old, new) IN
         /\ events = <<>> =>
              /\ new.start = old.start /\ new.end = old.end
              /\ new.status \in {"CONFIRMED", "CANCELLED"} => new.status = old.status
         /\ events # <<>> =>
              /\ Final(events).status = new.status
              /\ Final(events).start = new.start
              /\ Final(events).end = new.end
  <1> DEFINE Types == {"created", "rescheduled", "confirmed", "cancelled"}
             event(type) == [type |-> type, status |-> new.status,
                             start |-> new.start, end |-> new.end]
             when(cond, type) == IF cond THEN <<event(type)>> ELSE <<>>
             New(e) == e.status = new.status /\ e.start = new.start /\ e.end = new.end
             moved == when(new.start # old.start \/ new.end # old.end, "rescheduled")
             confirmed == when(new.status # old.status /\ new.status = "CONFIRMED", "confirmed")
             cancelled == when(new.status # old.status /\ new.status = "CANCELLED", "cancelled")
  <1>1. ASSUME NEW cond \in BOOLEAN, NEW type \in Types
        PROVE  /\ when(cond, type) \in Seq(Event)
               /\ when(cond, type) = <<>> <=> ~cond
               /\ when(cond, type) # <<>> => New(Final(when(cond, type)))
    <2>1. event(type) \in Event
      BY DEF Row, Event
    <2>2. <<event(type)>> \in Seq(Event) /\ <<event(type)>> # <<>>
          /\ Final(<<event(type)>>) = event(type)
      BY <2>1 DEF Final
    <2>3. New(event(type))
      OBVIOUS
    <2> QED
      BY <2>2, <2>3
  <1>2. UpdateEvents(old, new) = moved \o confirmed \o cancelled
    BY DEF UpdateEvents
  <1> HIDE DEF when, New
  <1>3. /\ moved \in Seq(Event)
        /\ moved = <<>> <=> ~(new.start # old.start \/ new.end # old.end)
        /\ moved # <<>> => New(Final(moved))
    BY <1>1
  <1>4. /\ confirmed \in Seq(Event)
        /\ confirmed = <<>> <=> ~(new.status # old.status /\ new.status = "CONFIRMED")
        /\ confirmed # <<>> => New(Final(confirmed))
    BY <1>1
  <1>5. /\ cancelled \in Seq(Event)
        /\ cancelled = <<>> <=> ~(new.status # old.status /\ new.status = "CANCELLED")
        /\ cancelled # <<>> => New(Final(cancelled))
    BY <1>1
  <1> HIDE DEF moved, confirmed, cancelled
  <1>6. moved \o confirmed \in Seq(Event)
    BY <1>3, <1>4
  <1>7. ASSUME NEW u \in Seq(Event), NEW v \in Seq(Event),
               u # <<>> => New(Final(u)), v # <<>> => New(Final(v))
        PROVE  /\ u \o v # <<>> => New(Final(u \o v))
               /\ u \o v = <<>> => u = <<>> /\ v = <<>>
    <2>1. /\ v = <<>> => u \o v = u
          /\ v # <<>> => u \o v # <<>> /\ Final(u \o v) = Final(v)
          /\ u \o v = <<>> => u = <<>> /\ v = <<>>
      BY FinalOfConcat
    <2>2. CASE v = <<>>
      BY <1>7, <2>1, <2>2
    <2>3. CASE v # <<>>
      BY <1>7, <2>1, <2>3
    <2> QED
      BY <2>2, <2>3
  <1>8. /\ moved \o confirmed # <<>> => New(Final(moved \o confirmed))
        /\ moved \o confirmed = <<>> => moved = <<>> /\ confirmed = <<>>
    BY <1>3, <1>4, <1>7
  <1>9. /\ UpdateEvents(old, new) # <<>> => New(Final(UpdateEvents(old, new)))
        /\ UpdateEvents(old, new) = <<>> => moved \o confirmed = <<>> /\ cancelled = <<>>
    BY <1>2, <1>5, <1>6, <1>7, <1>8
  <1> QED
    BY <1>3, <1>4, <1>5, <1>8, <1>9 DEF New

KeepsLength(row) == row.total # NULL => row.end = row.start + row.total

\* What a handler holds: the row to insert has the length of the selection, a
\* reschedule knows the length the booking was sold with, and its open update
\* changes the times alone.
LocalsFit(r) ==
  LET row == bookings[input[r].booking] IN
  /\ pc[r] = "write" /\ input[r].op = "create" => KeepsLength(seen[r])
  /\ pc[r] = "write" /\ input[r].op = "reschedule" => row.total \in {NULL, seen[r].total}
  /\ tx[r] # NULL => /\ tx[r].row.status = row.status
                     /\ tx[r].row.total = row.total
                     /\ KeepsLength(tx[r].row)

\* Every booking that was created here has a history.
HistoryKept == \A b \in Booking \ Legacy : bookings[b] # NULL => history[b] # <<>>

Records == RecordsTrackRow /\ HistoryKept

\* What happened is not forgotten.
HappenedStays == \A body \in Bodies : Happened(body) => Happened(body)'

LEMMA InsertRecords ==
  ASSUME TypeOK, Records, NEW b \in Booking, bookings[b] = NULL,
         NEW row \in Row, KeepsLength(row), CommitInsert(b, row)
  PROVE  Records' /\ HappenedStays /\ Happened(Body(b, row))'
  <1> DEFINE h == [action |-> "CREATE", status |-> row.status, from |-> NULL, to |-> row.start]
             e == [type |-> "created", status |-> row.status, start |-> row.start, end |-> row.end]
  <1>1. h \in HistoryEntry /\ h.status = row.status /\ h.to = row.start
    BY DEF Row, HistoryEntry
  <1>2. e \in Event /\ e.status = row.status /\ e.start = row.start /\ e.end = row.end
    BY DEF Row, Event
  <1>3. /\ bookings' = [bookings EXCEPT ![b] = row]
        /\ history' = [history EXCEPT ![b] = Append(history[b], h)]
        /\ outbox' = [outbox EXCEPT ![b] = Append(outbox[b], e)]
    BY DEF CommitInsert
  <1> HIDE DEF h, e
  <1>4. /\ bookings'[b] = row /\ row # NULL
        /\ history[b] \in Seq(HistoryEntry) /\ history'[b] = Append(history[b], h)
        /\ outbox[b] \in Seq(Event) /\ outbox'[b] = Append(outbox[b], e)
    BY <1>3, NullAssumption DEF TypeOK
  <1>5. \A c \in Booking \ {b} : bookings'[c] = bookings[c] /\ history'[c] = history[c] /\ outbox'[c] = outbox[c]
    BY <1>3 DEF TypeOK
  <1>6. history'[b] # <<>> /\ Final(history'[b]) = h /\ outbox'[b] # <<>> /\ Final(outbox'[b]) = e
    BY <1>1, <1>2, <1>4, FinalOfAppend
  <1>7. LengthTracks(b)' /\ HistoryTracks(b)' /\ OutboxTracks(b)'
    BY <1>1, <1>2, <1>4, <1>6 DEF LengthTracks, HistoryTracks, OutboxTracks, KeepsLength
  <1>8. ASSUME NEW c \in Booking \ {b}
        PROVE  IF bookings'[c] = NULL THEN history'[c] = <<>> /\ outbox'[c] = <<>>
               ELSE LengthTracks(c)' /\ HistoryTracks(c)' /\ OutboxTracks(c)'
    BY <1>5 DEF Records, RecordsTrackRow, LengthTracks, HistoryTracks, OutboxTracks
  <1>9. RecordsTrackRow'
    BY <1>4, <1>7, <1>8 DEF RecordsTrackRow
  <1>10. HistoryKept'
    BY <1>5, <1>6 DEF Records, HistoryKept
  <1>11. /\ Len(history'[b]) = Len(history[b]) + 1 /\ Len(history[b]) \in Nat
         /\ \A n \in 1..Len(history[b]) : history'[b][n] = history[b][n]
         /\ history'[b][Len(history[b]) + 1] = h
    BY <1>1, <1>4, <1>6, FinalOfAppend DEF Final
  <1>12. HappenedStays
    BY <1>5, <1>11 DEF HappenedStays, Happened, Bodies
  <1>13. Happened(Body(b, row))'
    BY <1>1, <1>11 DEF Happened, Body
  <1> QED
    BY <1>9, <1>10, <1>12, <1>13 DEF Records

LEMMA UpdateRecords ==
  ASSUME TypeOK, Records, NEW b \in Booking, bookings[b] # NULL,
         NEW row \in Row, KeepsLength(row),
         row.status \in {bookings[b].status, "CONFIRMED", "CANCELLED"},
         NEW action \in {"RESCHEDULE", "CANCEL", "CONFIRM"}, NEW from \in Nat,
         CommitUpdate(b, row, action, from)
  PROVE  Records' /\ HappenedStays /\ Happened(Body(b, row))'
  <1> DEFINE h == [action |-> action, status |-> row.status, from |-> from, to |-> row.start]
             events == UpdateEvents(bookings[b], row)
  <1>1. h \in HistoryEntry /\ h.status = row.status /\ h.to = row.start
    BY DEF Row, HistoryEntry
  <1>2. /\ events \in Seq(Event)
        /\ events = <<>> =>
              /\ row.start = bookings[b].start /\ row.end = bookings[b].end
              /\ row.status \in {"CONFIRMED", "CANCELLED"} => row.status = bookings[b].status
        /\ events # <<>> =>
              /\ Final(events).status = row.status
              /\ Final(events).start = row.start
              /\ Final(events).end = row.end
    <2>1. bookings[b] \in Row
      BY DEF TypeOK
    <2> QED
      BY <2>1, UpdateEventsFinal, UpdateEventsType
  <1>3. /\ bookings' = [bookings EXCEPT ![b] = row]
        /\ history' = [history EXCEPT ![b] = Append(history[b], h)]
        /\ outbox' = [outbox EXCEPT ![b] = outbox[b] \o events]
    BY DEF CommitUpdate
  <1> HIDE DEF h, events
  <1>4. /\ bookings'[b] = row /\ row # NULL
        /\ history[b] \in Seq(HistoryEntry) /\ history'[b] = Append(history[b], h)
        /\ outbox[b] \in Seq(Event) /\ outbox'[b] = outbox[b] \o events
    BY <1>3, NullAssumption DEF TypeOK
  <1>5. \A c \in Booking \ {b} : bookings'[c] = bookings[c] /\ history'[c] = history[c] /\ outbox'[c] = outbox[c]
    BY <1>3 DEF TypeOK
  <1>6. history'[b] # <<>> /\ Final(history'[b]) = h
    BY <1>1, <1>4, FinalOfAppend
  <1>7. OutboxTracks(b)'
    <2>1. OutboxTracks(b)
      BY DEF Records, RecordsTrackRow
    <2>2. CASE events = <<>>
      <3>1. outbox'[b] = outbox[b]
        BY <1>2, <1>4, <2>2, FinalOfConcat
      <3>2. row.status = bookings[b].status
        BY <1>2, <2>2
      <3> QED
        BY <1>2, <1>4, <2>1, <2>2, <3>1, <3>2 DEF OutboxTracks
    <2>3. CASE events # <<>>
      <3>1. outbox'[b] # <<>> /\ Final(outbox'[b]) = Final(events)
        BY <1>2, <1>4, <2>3, FinalOfConcat
      <3> QED
        BY <1>2, <1>4, <2>3, <3>1 DEF OutboxTracks
    <2> QED
      BY <2>2, <2>3
  <1>8. LengthTracks(b)' /\ HistoryTracks(b)'
    BY <1>1, <1>4, <1>6 DEF LengthTracks, HistoryTracks, KeepsLength
  <1>9. ASSUME NEW c \in Booking \ {b}
        PROVE  IF bookings'[c] = NULL THEN history'[c] = <<>> /\ outbox'[c] = <<>>
               ELSE LengthTracks(c)' /\ HistoryTracks(c)' /\ OutboxTracks(c)'
    BY <1>5 DEF Records, RecordsTrackRow, LengthTracks, HistoryTracks, OutboxTracks
  <1>10. RecordsTrackRow'
    BY <1>4, <1>7, <1>8, <1>9 DEF RecordsTrackRow
  <1>11. HistoryKept'
    BY <1>5, <1>6 DEF Records, HistoryKept
  <1>12. /\ Len(history'[b]) = Len(history[b]) + 1 /\ Len(history[b]) \in Nat
         /\ \A n \in 1..Len(history[b]) : history'[b][n] = history[b][n]
         /\ history'[b][Len(history[b]) + 1] = h
    BY <1>1, <1>4, <1>6, FinalOfAppend DEF Final
  <1>13. HappenedStays
    BY <1>5, <1>12 DEF HappenedStays, Happened, Bodies
  <1>14. Happened(Body(b, row))'
    BY <1>1, <1>12 DEF Happened, Body
  <1> QED
    BY <1>10, <1>11, <1>13, <1>14 DEF Records

\* An answer that is about to be saved, and one that is saved, happened.
RepliesHappened == \A r \in Request : pc[r] = "save" => Happened(reply[r].body)

Recorded ==
  /\ Records
  /\ \A r \in Request : LocalsFit(r)
  /\ RepliesHappened
  /\ StoredAnswersHappened

\* What a step has to leave to the others: the length a booking was sold with,
\* and the rows that open transactions have updated.
LeavesOthers(r) ==
  /\ \A c \in Booking : bookings[c] # NULL => bookings'[c].total = bookings[c].total
  /\ \A q \in Request \ {r} :
       /\ pc'[q] = pc[q] /\ input'[q] = input[q] /\ seen'[q] = seen[q]
       /\ tx'[q] = tx[q] /\ reply'[q] = reply[q]
       /\ tx[q] # NULL => bookings'[input[q].booking] = bookings[input[q].booking]

LEMMA RecordedByStep ==
  ASSUME TypeOK, Recorded, NEW r \in Request, LeavesOthers(r),
         Records', HappenedStays, LocalsFit(r)',
         pc'[r] = "save" => Happened(reply[r].body)',
         \A k \in Key : idem'[k] # NULL =>
           idem'[k] = idem[k] \/ Happened(idem[k].response)'
  PROVE  Recorded'
  <1>1. ASSUME NEW q \in Request \ {r} PROVE LocalsFit(q)'
    <2>1. /\ pc'[q] = pc[q] /\ input'[q] = input[q] /\ seen'[q] = seen[q] /\ tx'[q] = tx[q]
          /\ tx[q] # NULL => bookings'[input[q].booking] = bookings[input[q].booking]
      BY DEF LeavesOthers
    <2>2. LocalsFit(q)
      BY DEF Recorded
    <2>3. pc[q] = "write" /\ input[q].op = "reschedule" =>
            bookings'[input[q].booking].total = bookings[input[q].booking].total
      BY InputTypes DEF LeavesOthers, TypeOK, LocalsOK
    <2> QED
      BY <2>1, <2>2, <2>3 DEF LocalsFit
  <1>2. ASSUME NEW q \in Request \ {r}, pc'[q] = "save" PROVE Happened(reply[q].body)'
    <2>1. pc[q] = "save" /\ reply'[q] = reply[q]
      BY <1>2 DEF LeavesOthers
    <2>2. reply[q] \in Replies /\ reply[q].code = "ok"
      BY <2>1 DEF TypeOK, LocalsOK
    <2>3. PICK body \in Bodies : body = reply[q].body
      BY <2>2 DEF Replies
    <2>4. Happened(body)'
      BY <2>1, <2>3 DEF Recorded, RepliesHappened, HappenedStays
    <2>5. reply'[q].body = body
      BY <2>1, <2>3
    <2> QED
      BY <2>4, <2>5 DEF Happened
  <1>3. ASSUME NEW k \in Key, idem'[k] # NULL PROVE Happened(idem[k].response)'
    <2>1. CASE idem'[k] = idem[k]
      <3>1. idem[k] \in Stored /\ Happened(idem[k].response)
        BY <1>3, <2>1 DEF Recorded, StoredAnswersHappened, TypeOK
      <3>2. PICK body \in Bodies : body = idem[k].response
        BY <3>1 DEF Stored
      <3>3. Happened(body)'
        BY <3>1, <3>2 DEF HappenedStays
      <3>4. idem'[k].response = body
        BY <2>1, <3>2
      <3> QED
        BY <3>3, <3>4 DEF Happened
    <2> QED
      BY <1>3, <2>1
  <1>4. RepliesHappened'
    BY <1>2 DEF RepliesHappened
  <1>5. StoredAnswersHappened'
    BY <1>3 DEF StoredAnswersHappened
  <1> QED
    BY <1>1, <1>4, <1>5 DEF Recorded

LEMMA QuietRecords ==
  ASSUME TypeOK, Records, UNCHANGED db
  PROVE  Records' /\ HappenedStays
  <1>1. UNCHANGED <<bookings, history, outbox>>
    BY DEF db
  <1>2. RecordsTrackRow'
    BY <1>1 DEF Records, RecordsTrackRow, LengthTracks, HistoryTracks, OutboxTracks, Final
  <1>3. HistoryKept' /\ HappenedStays
    BY <1>1 DEF Records, HistoryKept, HappenedStays, Happened
  <1> QED
    BY <1>2, <1>3 DEF Records

\* The reads: what they keep of the row they saw, and the early returns, which
\* report a status that the last entry of the history has.
LEMMA ReadsRecord ==
  ASSUME TypeOK, Recorded, NEW r \in Request,
         CreateResolve(r) \/ RescheduleRead(r) \/ CancelRead(r) \/ ConfirmRead(r)
  PROVE  Recorded' /\ LeavesOthers(r)
  <1> DEFINE b == input[r].booking
             row == bookings[b]
  <1>1. /\ UNCHANGED <<db, idem, input, tx>> /\ tx[r] = NULL /\ input[r] \in Input
        /\ UNCHANGED bookings
    BY DEF CreateResolve, RescheduleRead, CancelRead, ConfirmRead, TypeOK, LocalsOK, db
  <1>2. LeavesOthers(r)
    BY <1>1 DEF LeavesOthers, CreateResolve, RescheduleRead, CancelRead, ConfirmRead, Goto,
                Answer, AfterCommit, TypeOK
  <1>3. Records' /\ HappenedStays
    BY <1>1, QuietRecords DEF Recorded
  <1>4. ASSUME CreateResolve(r) PROVE LocalsFit(r)' /\ pc'[r] # "save"
    <2>1. input[r].op = "create"
      BY <1>4 DEF CreateResolve, TypeOK, LocalsOK
    <2>2. pc'[r] = "done" \/ (pc'[r] = "write" /\ seen'[r].end = seen'[r].start + seen'[r].total)
      BY <1>4 DEF CreateResolve, Goto, Answer, TypeOK
    <2> QED
      BY <1>1, <2>1, <2>2 DEF LocalsFit, KeepsLength
  <1>5. ASSUME RescheduleRead(r) PROVE LocalsFit(r)' /\ pc'[r] # "save"
    <2>1. input[r].op = "reschedule"
      BY <1>5, SMTT(30) DEF RescheduleRead
    <2>2. pc'[r] = "done" \/ (pc'[r] = "write" /\ row.total \in {NULL, seen'[r].total})
      <3>1. CASE Answer(r, Err("badRequest")) \/ Answer(r, Err("forbidden"))
        BY <3>1 DEF Answer, Goto, TypeOK
      <3>2. ASSUME NEW t \in IF row.total = NULL THEN Total ELSE {row.total},
                   seen' = [seen EXCEPT ![r] = [row EXCEPT !.total = t]],
                   Goto(r, "write"), row # NULL
            PROVE  pc'[r] = "write" /\ row.total \in {NULL, seen'[r].total}
        <4>1. row \in Row
          BY <1>1, <2>1, <3>2, InputTypes DEF TypeOK
        <4>2. seen'[r] = [row EXCEPT !.total = t]
          BY <3>2 DEF TypeOK
        <4>3. seen'[r].total = t
          BY <4>1, <4>2 DEF Row
        <4> QED
          BY <3>2, <4>3 DEF Goto, TypeOK
      <3> QED
        BY <1>5, <3>1, <3>2 DEF RescheduleRead
    <2> QED
      BY <1>1, <2>1, <2>2 DEF LocalsFit
  <1>6. ASSUME CancelRead(r) \/ ConfirmRead(r)
        PROVE  LocalsFit(r)' /\ (pc'[r] = "save" => Happened(reply[r].body)')
    <2>1. input[r].op \in {"cancel", "confirm"}
      BY <1>6 DEF CancelRead, ConfirmRead
    <2>2. LocalsFit(r)'
      BY <1>1, <2>1 DEF LocalsFit
    <2>3. ASSUME pc'[r] = "save" PROVE Happened(reply[r].body)'
      <3>1. row # NULL /\ reply'[r] = Ok(Bare(b, row.status))
        BY <1>6, <2>3 DEF CancelRead, ConfirmRead, Goto, Answer, AfterCommit, TypeOK
      <3>2. b \in Booking /\ row \in Row
        BY <1>1, <2>1, <3>1, InputTypes DEF TypeOK
      <3>3. b \in Legacy \/ (history[b] # <<>> /\ HistoryTracks(b))
        BY <3>1, <3>2 DEF Recorded, Records, HistoryKept, RecordsTrackRow
      <3>4. history[b] \in Seq(HistoryEntry)
        BY <3>2 DEF TypeOK
      <3>5. history[b] # <<>> => Len(history[b]) \in 1..Len(history[b])
        BY <3>4
      <3>6. PICK body \in Bodies : body = Bare(b, row.status)
        BY <3>2 DEF Bodies, Bare, Row
      <3>7. Happened(body)
        BY <3>3, <3>5, <3>6 DEF Happened, Bare, HistoryTracks, Final
      <3>8. Happened(body)' /\ reply'[r].body = body
        BY <1>3, <3>1, <3>6, <3>7 DEF HappenedStays, Ok
      <3> QED
        BY <3>8 DEF Happened
    <2> QED
      BY <2>2, <2>3
  <1> QED
    BY <1>1, <1>2, <1>3, <1>4, <1>5, <1>6, RecordedByStep

\* The open transaction of a reschedule, before its commit.
LEMMA MovesRecord ==
  ASSUME TypeOK, Recorded, NEW r \in Request,
         RescheduleUpdate(r) \/ RescheduleInvalidate(r)
  PROVE  Recorded' /\ LeavesOthers(r)
  <1> DEFINE b == input[r].booking
             row == [bookings[b] EXCEPT !.start = input[r].start,
                                        !.end = input[r].start + seen[r].total]
  <1>1. /\ UNCHANGED <<db, idem, input, seen, bookings>> /\ input[r].op = "reschedule"
        /\ bookings[b] \in Row /\ LocalsFit(r)
    BY InputTypes DEF RescheduleUpdate, RescheduleInvalidate, TypeOK, LocalsOK, Recorded, db
  <1>2. LeavesOthers(r)
    BY <1>1 DEF LeavesOthers, RescheduleUpdate, RescheduleInvalidate, Goto, Answer, TypeOK
  <1>3. Records' /\ HappenedStays
    BY <1>1, QuietRecords DEF Recorded
  <1>4. pc'[r] \in {"done", "inTxInvalidate", "commit"}
    BY DEF RescheduleUpdate, RescheduleInvalidate, Goto, Answer, TypeOK
  <1>5. CASE RescheduleUpdate(r)
    <2>1. bookings[b].total \in {NULL, seen[r].total} /\ tx[r] = NULL
      BY <1>1, <1>5 DEF RescheduleUpdate, LocalsFit, TypeOK, LocalsOK
    <2>2. /\ row.status = bookings[b].status /\ row.total = bookings[b].total
          /\ row.start = input[r].start /\ row.end = input[r].start + seen[r].total
      BY <1>1 DEF Row
    <2>3. tx'[r] # NULL => tx'[r].row = row
      BY <1>5, <2>1 DEF RescheduleUpdate, TypeOK
    <2> HIDE DEF row
    <2>4. KeepsLength(row)
      BY <2>1, <2>2 DEF KeepsLength
    <2>5. LocalsFit(r)'
      BY <1>1, <1>4, <2>2, <2>3, <2>4 DEF LocalsFit
    <2> QED
      BY <1>1, <1>2, <1>3, <1>4, <2>5, RecordedByStep
  <1>6. CASE RescheduleInvalidate(r)
    <2>1. LocalsFit(r)'
      BY <1>1, <1>4, <1>6 DEF RescheduleInvalidate, LocalsFit
    <2> QED
      BY <1>1, <1>2, <1>3, <1>4, <2>1, RecordedByStep
  <1> QED
    BY <1>5, <1>6

\* The commits that a request waits for others with.
LEMMA CommitsRecord ==
  ASSUME TypeOK, Recorded, NEW r \in Request,
         CreateCommit(r) \/ CancelCommit(r) \/ ConfirmCommit(r)
  PROVE  Recorded' /\ LeavesOthers(r)
  <1>1. /\ pc[r] = "write" /\ tx[r] = NULL /\ input[r] \in Input /\ seen[r] \in Row
        /\ UNCHANGED <<idem, input, seen, tx>>
        /\ \A q \in Request \ {r} : pc'[q] = pc[q] /\ reply'[q] = reply[q]
        /\ LocalsFit(r) /\ pc'[r] # "write"
    BY DEF CreateCommit, CancelCommit, ConfirmCommit, TypeOK, LocalsOK, Recorded, Goto,
           Answer, AfterCommit
  <1>2. LocalsFit(r)'
    BY <1>1 DEF LocalsFit
  <1>3. \A q \in Request : tx[q] # NULL =>
          bookings[input[q].booking] # NULL /\ input[q].booking \in Booking
    <2>1. \A q \in Request : tx[q] # NULL => input[q] \in Input /\ input[q].op = "reschedule"
      BY DEF TypeOK, LocalsOK
    <2> QED
      BY <2>1, InputTypes DEF TypeOK, LocalsOK
  <1>4. CASE UNCHANGED db /\ pc'[r] = "done"
    <2>1. Records' /\ HappenedStays
      BY <1>4, QuietRecords DEF Recorded
    <2>2. LeavesOthers(r)
      BY <1>1, <1>4 DEF LeavesOthers, db
    <2> QED
      BY <1>1, <1>2, <1>4, <2>1, <2>2, RecordedByStep
  <1>5. ASSUME CreateCommit(r) PROVE Recorded' /\ LeavesOthers(r)
    <2>1. KeepsLength(seen[r])
      BY <1>1, <1>5 DEF CreateCommit, LocalsFit
    <2>2. PICK b \in Booking :
            /\ bookings[b] = NULL
            /\ \/ CommitInsert(b, seen[r]) /\ AfterCommit(r, Body(b, seen[r]))
               \/ Answer(r, Err("conflict")) /\ UNCHANGED db
      BY <1>5 DEF CreateCommit
    <2>3. CASE CommitInsert(b, seen[r]) /\ AfterCommit(r, Body(b, seen[r]))
      <3>0. PICK row \in Row : row = seen[r]
        BY <1>1
      <3>1. Records' /\ HappenedStays /\ Happened(Body(b, row))'
        BY <2>1, <2>2, <2>3, <3>0, InsertRecords DEF Recorded
      <3>2. reply'[r].body = Body(b, row)
        BY <2>3, <3>0 DEF AfterCommit, Ok, TypeOK
      <3>3. \A c \in Booking \ {b} : bookings'[c] = bookings[c]
        BY <2>3 DEF CommitInsert, TypeOK
      <3>4. LeavesOthers(r)
        BY <1>1, <1>3, <2>2, <3>3 DEF LeavesOthers
      <3>5. Happened(reply[r].body)'
        BY <3>1, <3>2 DEF Happened
      <3> QED
        BY <1>1, <1>2, <3>1, <3>4, <3>5, RecordedByStep
    <2>4. CASE Answer(r, Err("conflict")) /\ UNCHANGED db
      BY <1>4, <2>4 DEF Answer, Goto, TypeOK
    <2> QED
      BY <2>2, <2>3, <2>4
  <1>6. ASSUME CancelCommit(r) \/ ConfirmCommit(r)
        PROVE  Recorded' /\ LeavesOthers(r)
    <2>1. PICK b \in Booking, old \in Row, from \in Nat :
            /\ b = input[r].booking /\ old = bookings[b] /\ from = seen[r].start
            /\ old # NULL
      <3>1. input[r].op # "create" /\ bookings[input[r].booking] # NULL
        BY <1>1, <1>6 DEF CancelCommit, ConfirmCommit, TypeOK, LocalsOK
      <3>2. input[r].booking \in Booking /\ seen[r].start \in Nat
        BY <1>1, <3>1, InputTypes DEF Row
      <3> QED
        BY <3>1, <3>2 DEF TypeOK
    <2>2. PICK s \in {"CANCELLED", "CONFIRMED"}, action \in {"CANCEL", "CONFIRM"} :
            \/ /\ ~Waits(r, b, [old EXCEPT !.status = s])
               /\ CommitUpdate(b, [old EXCEPT !.status = s], action, from)
               /\ AfterCommit(r, Body(b, [old EXCEPT !.status = s]))
            \/ Answer(r, Err("error")) /\ UNCHANGED db
      BY <1>6, <2>1 DEF CancelCommit, ConfirmCommit
    <2>3. PICK row \in Row : row = [old EXCEPT !.status = s]
      BY DEF Row, Status
    <2>4. row.status = s /\ row.total = old.total /\ row.start = old.start /\ row.end = old.end
      BY <2>3 DEF Row
    <2>5. KeepsLength(row)
      BY <2>1, <2>4 DEF Recorded, Records, RecordsTrackRow, LengthTracks, KeepsLength
    <2>6. CASE ~Waits(r, b, row) /\ CommitUpdate(b, row, action, from) /\ AfterCommit(r, Body(b, row))
      <3>1. row.status \in {bookings[b].status, "CONFIRMED", "CANCELLED"}
            /\ action \in {"RESCHEDULE", "CANCEL", "CONFIRM"} /\ bookings[b] # NULL
        BY <2>1, <2>4
      <3>2. Records' /\ HappenedStays /\ Happened(Body(b, row))'
        BY <2>5, <2>6, <3>1, UpdateRecords DEF Recorded
      <3>3. reply'[r].body = Body(b, row)
        BY <2>6 DEF AfterCommit, Ok, TypeOK
      <3>4. /\ bookings'[b] = row
            /\ \A c \in Booking \ {b} : bookings'[c] = bookings[c]
        BY <2>6 DEF CommitUpdate, TypeOK
      <3>5. \A q \in Request \ {r} : tx[q] # NULL => input[q].booking # b
        BY <2>6 DEF Waits
      <3>6. LeavesOthers(r)
        BY <1>1, <1>3, <2>1, <2>4, <3>4, <3>5 DEF LeavesOthers
      <3>7. Happened(reply[r].body)'
        BY <3>2, <3>3 DEF Happened
      <3> QED
        BY <1>1, <1>2, <3>2, <3>6, <3>7, RecordedByStep
    <2>7. CASE Answer(r, Err("error")) /\ UNCHANGED db
      BY <1>4, <2>7 DEF Answer, Goto, TypeOK
    <2> QED
      BY <2>2, <2>3, <2>6, <2>7
  <1> QED
    BY <1>5, <1>6

\* The commit of a reschedule, which nobody has interfered with since its update,
\* and the answer that is saved with it.
LEMMA MoveCommitRecords ==
  ASSUME TypeOK, FitInv, Recorded, NEW r \in Request, RescheduleCommit(r)
  PROVE  Recorded' /\ LeavesOthers(r)
  <1>1. /\ tx[r] # NULL /\ tx[r] \in Update /\ LocalsFit(r)
        /\ seen[r] \in Row /\ bookings[input[r].booking] # NULL
        /\ input[r] \in Input /\ input[r].op = "reschedule"
    BY DEF RescheduleCommit, TypeOK, LocalsOK, Recorded
  <1>2. input[r].booking \in Booking
    BY <1>1, InputTypes
  <1>3. PICK b \in Booking, row \in Row, from \in Nat :
          b = input[r].booking /\ row = tx[r].row /\ from = seen[r].start
    BY <1>1, <1>2 DEF Update, Row
  <1>4. bookings[b] # NULL
    BY <1>1, <1>3
  <1>5. UNCHANGED <<input, seen>> /\ pc'[r] = "done" /\ tx'[r] = NULL
    BY DEF RescheduleCommit, Answer, Goto, TypeOK
  <1>6. \A q \in Request \ {r} : pc'[q] = pc[q] /\ tx'[q] = tx[q] /\ reply'[q] = reply[q]
    BY DEF RescheduleCommit, Answer, Goto, TypeOK
  <1>7. LocalsFit(r)'
    BY <1>5 DEF LocalsFit
  <1>8. row.status = bookings[b].status /\ row.total = bookings[b].total /\ KeepsLength(row)
    BY <1>1, <1>3 DEF LocalsFit
  <1>9. \A q \in Request \ {r} : tx[q] # NULL => input[q].booking # b /\ input[q].booking \in Booking
    <2>1. \A q \in Request \ {r} : tx[q] # NULL => input[q].booking # b
      BY <1>1, <1>3 DEF FitInv, OpenMovesFit
    <2>2. \A q \in Request : tx[q] # NULL => input[q] \in Input /\ input[q].op = "reschedule"
      BY DEF TypeOK, LocalsOK
    <2> QED
      BY <2>1, <2>2, InputTypes
  <1>10. CASE UNCHANGED <<db, idem>>
    <2>1. Records' /\ HappenedStays
      BY <1>10, QuietRecords DEF Recorded
    <2>2. LeavesOthers(r)
      BY <1>5, <1>6, <1>10 DEF LeavesOthers, db
    <2> QED
      BY <1>5, <1>7, <1>10, <2>1, <2>2, RecordedByStep
  <1>11. CASE /\ CommitUpdate(b, row, "RESCHEDULE", from)
              /\ idem' = IF input[r].key = NULL THEN idem
                         ELSE [idem EXCEPT ![input[r].key] = [hash |-> Hash(input[r]),
                                                              response |-> Body(b, row)]]
    <2>1. Records' /\ HappenedStays /\ Happened(Body(b, row))'
      BY <1>4, <1>8, <1>11, UpdateRecords DEF Recorded
    <2>2. /\ bookings'[b] = row
          /\ \A c \in Booking \ {b} : bookings'[c] = bookings[c]
      BY <1>11 DEF CommitUpdate, TypeOK
    <2>3. LeavesOthers(r)
      BY <1>5, <1>6, <1>8, <1>9, <2>2 DEF LeavesOthers
    <2>4. \A l \in Key : idem'[l] = idem[l] \/ idem'[l].response = Body(b, row)
      BY <1>11 DEF TypeOK
    <2>5. \A l \in Key : idem'[l] # NULL => idem'[l] = idem[l] \/ Happened(idem[l].response)'
      BY <2>1, <2>4 DEF Happened
    <2> QED
      BY <1>5, <1>7, <2>1, <2>3, <2>5, RecordedByStep
  <1> QED
    BY <1>3, <1>10, <1>11 DEF RescheduleCommit

\* Requests that arrive, save their answer, end or fail.
LEMMA EndsRecord ==
  ASSUME TypeOK, Recorded, NEW r \in Request,
         Begin(r) \/ IdemSave(r) \/ Invalidate(r) \/ Fail(r)
  PROVE  Recorded' /\ LeavesOthers(r)
  <1>1. /\ UNCHANGED <<db, bookings>> /\ tx'[r] = NULL
        /\ pc'[r] \in {"resolve", "read", "invalidate", "done"}
    BY DEF Begin, IdemSave, Invalidate, Fail, Goto, Answer, TypeOK, LocalsOK, db
  <1>2. LeavesOthers(r)
    BY <1>1 DEF LeavesOthers, Begin, IdemSave, Invalidate, Fail, Goto, Answer, TypeOK
  <1>3. Records' /\ HappenedStays
    BY <1>1, QuietRecords DEF Recorded
  <1>4. LocalsFit(r)'
    BY <1>1 DEF LocalsFit
  <1>5. \A k \in Key : idem'[k] # NULL => idem'[k] = idem[k] \/ Happened(idem[k].response)'
    <2>1. CASE IdemSave(r)
      <3>1. reply[r] \in Replies /\ reply[r].code = "ok" /\ Happened(reply[r].body)
        BY <2>1 DEF IdemSave, Recorded, RepliesHappened, TypeOK, LocalsOK
      <3>2. PICK body \in Bodies : body = reply[r].body
        BY <3>1 DEF Replies
      <3>3. \A k \in Key : idem'[k] = idem[k] \/ idem'[k].response = body
        BY <2>1, <3>2 DEF IdemSave, TypeOK
      <3>4. Happened(body)'
        BY <1>3, <3>1, <3>2, SMTT(30) DEF HappenedStays
      <3> QED
        BY <3>3, <3>4 DEF Happened
    <2>2. CASE Begin(r) \/ Invalidate(r) \/ Fail(r)
      BY <2>2 DEF Begin, Invalidate, Fail
    <2> QED
      BY <2>1, <2>2
  <1> QED
    BY <1>1, <1>2, <1>3, <1>4, <1>5, RecordedByStep

LEMMA RecordedStep == TypeOK /\ FitInv /\ Recorded /\ [Next]_vars => Recorded'
  <1> SUFFICES ASSUME TypeOK, FitInv, Recorded, [Next]_vars PROVE Recorded'
    OBVIOUS
  <1>1. CASE UNCHANGED vars \/ Tick
    <2>1. UNCHANGED <<db, bookings, history, idem, pc, input, seen, tx, reply>>
      BY <1>1 DEF vars, Tick, db
    <2>2. Records'
      BY <2>1, QuietRecords DEF Recorded
    <2>3. \A q \in Request : LocalsFit(q)'
      BY <2>1 DEF Recorded, LocalsFit
    <2>4. RepliesHappened' /\ StoredAnswersHappened'
      BY <2>1 DEF Recorded, RepliesHappened, StoredAnswersHappened, Happened
    <2> QED
      BY <2>2, <2>3, <2>4 DEF Recorded
  <1> QED
    BY <1>1, ReadsRecord, MovesRecord, CommitsRecord, MoveCommitRecords, EndsRecord
    DEF Next, Step

LEMMA RecordedInit == Init => Recorded
  <1> SUFFICES ASSUME Init PROVE Recorded
    OBVIOUS
  <1>1. PICK old \in [Legacy -> LegacyRow] :
          bookings = [b \in Booking |-> IF b \in Legacy THEN old[b] ELSE NULL]
    BY DEF Init
  <1>2. \A b \in Legacy : old[b].total = NULL
    BY DEF LegacyRow
  <1>3. RecordsTrackRow
    BY <1>1, <1>2 DEF Init, RecordsTrackRow, LengthTracks, HistoryTracks, OutboxTracks
  <1>4. HistoryKept
    BY <1>1 DEF HistoryKept
  <1>5. /\ \A r \in Request : LocalsFit(r)
        /\ RepliesHappened /\ StoredAnswersHappened
    BY DEF Init, LocalsFit, RepliesHappened, StoredAnswersHappened
  <1> QED
    BY <1>3, <1>4, <1>5 DEF Recorded, Records

THEOREM RecordedAlways == Spec => []Recorded
  <1>1. Init => FitInv
    BY FitInit
  <1> QED
    BY <1>1, RecordedInit, RecordedStep, FitStep, TypeCorrect, PTL DEF Spec

\* The audit trail and the events of a booking end in its committed row, and a
\* booking keeps the length it was sold with, although cancel, confirm and
\* reschedule write what they decided on a row that may have changed since.
THEOREM RecordsAlwaysTrack == Spec => []RecordsTrackRow
  <1>1. Recorded => RecordsTrackRow
    BY DEF Recorded, Records
  <1> QED
    BY <1>1, RecordedAlways, PTL

\* What an idempotency key is answered with was committed, whether it was saved
\* with the change, after it, or for a request that changed nothing.
THEOREM StoredAnswersAlwaysHappened == Spec => []StoredAnswersHappened
  <1>1. Recorded => StoredAnswersHappened
    BY DEF Recorded
  <1> QED
    BY <1>1, RecordedAlways, PTL

-----------------------------------------------------------------------------
(* The diary.  A handler that is about to write, or to commit, holds what  *)
(* the write of the diary needs: a row that is whole, a start its booking  *)
(* once had, an update that is a move of the row as it still is.           *)

Holds(r) ==
  LET b == input[r].booking IN
  /\ pc[r] = "write" /\ input[r].op = "create" =>
       \E d \in Total :
         seen[r] = [status |-> "PENDING", staff |-> input[r].staff, service |-> input[r].service,
                    start |-> input[r].start, end |-> input[r].start + d, total |-> d]
  /\ pc[r] \in {"write", "inTxInvalidate", "commit"} /\ input[r].op # "create" =>
       seen[r].start \in Diary!Starts(b)
  /\ tx[r] # NULL =>
       \E d \in Total :
         /\ bookings[b].total \in {NULL, d}
         /\ tx[r].row = [bookings[b] EXCEPT !.start = input[r].start, !.end = input[r].start + d]

HandlersHold == \A r \in Request : Holds(r)

-----------------------------------------------------------------------------
(* From the constraint and the trigger to the diary.                       *)

\* What does not conflict shares no minute.
LEMMA FreeFits ==
  ASSUME TypeOK, NEW b \in Booking, NEW row \in Row, Free(b, row)
  PROVE  Diary!Fits(b, row)
  <1> SUFFICES ASSUME NEW c \in Booking \ {b}, NEW m \in Int,
                      row.status \in Diary!Taken, bookings[c] # NULL,
                      bookings[c].status \in Diary!Taken, bookings[c].staff = row.staff,
                      m \in Diary!Minutes(row), m \in Diary!Minutes(bookings[c])
               PROVE  FALSE
    BY DEF Diary!Fits, Diary!Minutes
  <1>1. bookings[c] \in Row
    BY DEF TypeOK
  <1>2. row.start <= m /\ m < row.end /\ bookings[c].start <= m /\ m < bookings[c].end
    BY <1>1 DEF Diary!Minutes, Row
  <1>3. row.start < bookings[c].end /\ bookings[c].start < row.end
    BY <1>1, <1>2 DEF Row
  <1>4. Conflict(row, bookings[c])
    BY <1>3 DEF Conflict, Active, Diary!Taken
  <1> QED
    BY <1>4 DEF Free

\* An update that moves the row or changes its status to the one of type is told
\* by one event, and one that leaves the row as it was by none.
LEMMA OneEvent ==
  ASSUME NEW old \in Row, NEW row \in Row,
         NEW type \in {"rescheduled", "confirmed", "cancelled"},
         type = "rescheduled" => row = [old EXCEPT !.start = row.start, !.end = row.end],
         type = "confirmed" => row = [old EXCEPT !.status = "CONFIRMED"],
         type = "cancelled" => row = [old EXCEPT !.status = "CANCELLED"]
  PROVE  UpdateEvents(old, row) =
           IF row = old THEN <<>>
           ELSE <<[type |-> type, status |-> row.status, start |-> row.start, end |-> row.end]>>
  <1> DEFINE event(t) == [type |-> t, status |-> row.status,
                          start |-> row.start, end |-> row.end]
             when(cond, t) == IF cond THEN <<event(t)>> ELSE <<>>
             moved == row.start # old.start \/ row.end # old.end
             confirmed == row.status # old.status /\ row.status = "CONFIRMED"
             cancelled == row.status # old.status /\ row.status = "CANCELLED"
  <1>1. UpdateEvents(old, row) =
          (when(moved, "rescheduled") \o when(confirmed, "confirmed")) \o when(cancelled, "cancelled")
    BY DEF UpdateEvents
  <1>2. \A t \in {"rescheduled", "confirmed", "cancelled"} : <<event(t)>> \in Seq(Event)
    BY DEF Row, Event
  <1>3. \A s \in Seq(Event) : s \o <<>> = s /\ <<>> \o s = s
    OBVIOUS
  <1> HIDE DEF event
  <1>4. CASE type = "rescheduled"
    <2>1. row.status = old.status /\ row.staff = old.staff /\ row.service = old.service /\ row.total = old.total
      BY <1>4 DEF Row
    <2>2. row = old <=> ~moved
      BY <2>1 DEF Row
    <2>3. ~confirmed /\ ~cancelled
      BY <2>1
    <2> HIDE DEF moved, confirmed, cancelled
    <2> QED
      BY <1>1, <1>2, <1>3, <1>4, <2>2, <2>3 DEF event
  <1>5. CASE type = "confirmed"
    <2>1. /\ row.status = "CONFIRMED" /\ row.staff = old.staff /\ row.service = old.service
          /\ row.total = old.total /\ row.start = old.start /\ row.end = old.end
      BY <1>5 DEF Row
    <2>2. row = old <=> ~confirmed
      BY <2>1 DEF Row
    <2>3. ~moved /\ ~cancelled
      BY <2>1
    <2> HIDE DEF moved, confirmed, cancelled
    <2> QED
      BY <1>1, <1>2, <1>3, <1>5, <2>2, <2>3 DEF event
  <1>6. CASE type = "cancelled"
    <2>1. /\ row.status = "CANCELLED" /\ row.staff = old.staff /\ row.service = old.service
          /\ row.total = old.total /\ row.start = old.start /\ row.end = old.end
      BY <1>6 DEF Row
    <2>2. row = old <=> ~cancelled
      BY <2>1 DEF Row
    <2>3. ~moved /\ ~confirmed
      BY <2>1
    <2> HIDE DEF moved, confirmed, cancelled
    <2> QED
      BY <1>1, <1>2, <1>3, <1>6, <2>2, <2>3 DEF event
  <1> QED
    BY <1>4, <1>5, <1>6

\* The commit of an update is an entry of the diary.
LEMMA UpdateEnters ==
  ASSUME TypeOK, NEW b \in Booking, bookings[b] # NULL, bookings[b].status \notin Finished,
         NEW row \in Row, Free(b, row), NEW from \in Diary!Starts(b),
         NEW type \in {"rescheduled", "confirmed", "cancelled"},
         type = "rescheduled" => row = [bookings[b] EXCEPT !.start = row.start, !.end = row.end],
         type = "confirmed" => row = [bookings[b] EXCEPT !.status = "CONFIRMED"],
         type = "cancelled" => row = [bookings[b] EXCEPT !.status = "CANCELLED"],
         NEW action, CommitUpdate(b, row, action, from)
  PROVE  Diary!Change(b, row, action, type)
  <1>1. bookings[b] \in Row
    BY DEF TypeOK
  <1>2. UpdateEvents(bookings[b], row) =
          IF row = bookings[b] THEN <<>>
          ELSE <<[type |-> type, status |-> row.status, start |-> row.start, end |-> row.end]>>
    BY <1>1, OneEvent
  <1>3. Diary!Fits(b, row)
    BY FreeFits
  <1>4. Diary!Enter(b, row, action, from, type)
    <2> DEFINE events == UpdateEvents(bookings[b], row)
    <2>1. /\ bookings' = [bookings EXCEPT ![b] = row]
          /\ history' = [history EXCEPT ![b] =
               Append(@, [action |-> action, status |-> row.status, from |-> from, to |-> row.start])]
          /\ outbox' = [outbox EXCEPT ![b] = @ \o events]
      BY DEF CommitUpdate
    <2>2. events = IF row = bookings[b] THEN <<>>
                   ELSE <<[type |-> type, status |-> row.status, start |-> row.start, end |-> row.end]>>
      BY <1>2
    <2> HIDE DEF events
    <2> QED
      BY <1>3, <2>1, <2>2 DEF Diary!Enter
  <1> QED
    BY <1>4 DEF Diary!Change, Diary!Finished, Finished

\* The commit of an insert is too.
LEMMA InsertEnters ==
  ASSUME TypeOK, NEW b \in Booking, bookings[b] = NULL,
         NEW staff \in Staff, NEW service \in Service, NEW start \in Start, NEW d \in Total,
         NEW row \in Row, Free(b, row), CommitInsert(b, row),
         row = [status |-> "PENDING", staff |-> staff, service |-> service,
                start |-> start, end |-> start + d, total |-> d]
  PROVE  Diary!Entry(b)
  <1> DEFINE e == [type |-> "created", status |-> row.status, start |-> row.start, end |-> row.end]
  <1>1. Diary!Fits(b, row) /\ row # bookings[b]
    BY FreeFits, NullAssumption
  <1>2. outbox' = [outbox EXCEPT ![b] = @ \o <<e>>]
    <2>1. e \in Event
      BY DEF Row, Event
    <2>2. outbox' = [outbox EXCEPT ![b] = Append(outbox[b], e)]
      BY DEF CommitInsert
    <2>3. outbox[b] \in Seq(Event)
      BY DEF TypeOK
    <2> HIDE DEF e
    <2>4. Append(outbox[b], e) = outbox[b] \o <<e>>
      BY <2>1, <2>3
    <2> QED
      BY <2>2, <2>4
  <1>3. Diary!Enter(b, row, "CREATE", NULL, "created")
    BY <1>1, <1>2 DEF Diary!Enter, CommitInsert
  <1>4. Diary!Create(b, staff, service, start, d)
    BY <1>3 DEF Diary!Create
  <1> QED
    BY <1>4 DEF Diary!Entry

-----------------------------------------------------------------------------
(* What a step leaves as it was.                                           *)

StartsStay ==
  \A c \in Booking : bookings[c] # NULL =>
    /\ Diary!Starts(c) \subseteq Diary!Starts(c)'
    /\ bookings'[c] # NULL /\ bookings'[c].total = bookings[c].total

LEMMA LineOfHistory ==
  ASSUME TypeOK, NEW b \in Booking, NEW h \in HistoryEntry,
         history' = [history EXCEPT ![b] = Append(@, h)]
  PROVE  /\ Diary!Lines(b)' = Diary!Lines(b) \cup {h}
         /\ \A c \in Booking \ {b} : Diary!Lines(c)' = Diary!Lines(c)
  <1>1. history[b] \in Seq(HistoryEntry) /\ history'[b] = Append(history[b], h)
    BY DEF TypeOK
  <1>2. /\ Len(history'[b]) = Len(history[b]) + 1 /\ Len(history[b]) \in Nat
        /\ \A n \in 1..Len(history[b]) : history'[b][n] = history[b][n]
        /\ history'[b][Len(history[b]) + 1] = h
    BY <1>1
  <1>3. \A c \in Booking \ {b} : history'[c] = history[c]
    BY DEF TypeOK
  <1> QED
    BY <1>2, <1>3 DEF Diary!Lines

\* A start that is left behind is in the last line of the history, or this
\* change is the first and its line has it.
LEMMA UpdateKeepsStarts ==
  ASSUME TypeOK, Records, NEW b \in Booking, bookings[b] # NULL, NEW row \in Row,
         row.total = bookings[b].total,
         NEW action \in {"RESCHEDULE", "CANCEL", "CONFIRM"}, NEW from \in Nat,
         from \in Diary!Starts(b), CommitUpdate(b, row, action, from)
  PROVE  StartsStay
  <1> DEFINE h == [action |-> action, status |-> row.status, from |-> from, to |-> row.start]
  <1>1. h \in HistoryEntry /\ h.from = from /\ from # NULL
    BY NullAssumption DEF Row, HistoryEntry
  <1>2. /\ bookings' = [bookings EXCEPT ![b] = row]
        /\ history' = [history EXCEPT ![b] = Append(@, h)]
    BY DEF CommitUpdate
  <1> HIDE DEF h
  <1>3. /\ Diary!Lines(b)' = Diary!Lines(b) \cup {h}
        /\ \A c \in Booking \ {b} : Diary!Lines(c)' = Diary!Lines(c)
    BY <1>1, <1>2, LineOfHistory
  <1>4. /\ bookings'[b] = row /\ row # NULL
        /\ \A c \in Booking \ {b} : bookings'[c] = bookings[c]
    BY <1>2, NullAssumption DEF TypeOK
  <1>5. bookings[b].start \in Diary!Starts(b)'
    <2>1. CASE history[b] = <<>>
      <3>1. Diary!Lines(b) = {}
        BY <2>1 DEF Diary!Lines
      <3>2. from = bookings[b].start
        BY <3>1 DEF Diary!Starts
      <3> QED
        BY <1>1, <1>3, <3>2 DEF Diary!Starts
    <2>2. CASE history[b] # <<>>
      <3>1. history[b] \in Seq(HistoryEntry)
        BY DEF TypeOK
      <3>2. Len(history[b]) \in 1..Len(history[b])
        BY <2>2, <3>1
      <3>3. Final(history[b]) \in Diary!Lines(b)
        BY <3>2 DEF Final, Diary!Lines
      <3>4. Final(history[b]).to = bookings[b].start
        BY <2>2 DEF Records, RecordsTrackRow, HistoryTracks
      <3> QED
        BY <1>3, <3>3, <3>4 DEF Diary!Starts
    <2> QED
      BY <2>1, <2>2
  <1>6. Diary!Starts(b) \subseteq Diary!Starts(b)'
    BY <1>3, <1>5 DEF Diary!Starts
  <1>7. \A c \in Booking \ {b} : Diary!Starts(c)' = Diary!Starts(c)
    BY <1>3, <1>4 DEF Diary!Starts
  <1> QED
    BY <1>4, <1>6, <1>7 DEF StartsStay

LEMMA InsertKeepsStarts ==
  ASSUME TypeOK, NEW b \in Booking, bookings[b] = NULL, NEW row \in Row, CommitInsert(b, row)
  PROVE  StartsStay
  <1>1. \A c \in Booking \ {b} : bookings'[c] = bookings[c] /\ history'[c] = history[c]
    BY DEF CommitInsert, TypeOK
  <1> QED
    BY <1>1 DEF StartsStay, Diary!Starts, Diary!Lines

-----------------------------------------------------------------------------
(* The handlers hold what they need.                                       *)

\* A handler keeps holding what it held: its booking stays, and what an open
\* update was made from stays as it was.
LEMMA StillHolds ==
  ASSUME TypeOK, NEW q \in Request, Holds(q), StartsStay,
         /\ pc'[q] = pc[q] /\ input'[q] = input[q] /\ seen'[q] = seen[q] /\ tx'[q] = tx[q]
         /\ tx[q] # NULL => bookings'[input[q].booking] = bookings[input[q].booking]
  PROVE  Holds(q)'
  <1>1. /\ pc'[q] = pc[q] /\ input'[q] = input[q] /\ seen'[q] = seen[q] /\ tx'[q] = tx[q]
        /\ tx[q] # NULL => bookings'[input[q].booking] = bookings[input[q].booking]
    OBVIOUS
  <1>2. Holds(q)
    OBVIOUS
  <1>3. pc[q] \in {"write", "inTxInvalidate", "commit"} /\ input[q].op # "create" =>
          input[q].booking \in Booking /\ bookings[input[q].booking] # NULL
    BY InputTypes DEF TypeOK, LocalsOK
  <1>4. ASSUME pc[q] \in {"write", "inTxInvalidate", "commit"}, input[q].op # "create"
        PROVE  (seen[q].start \in Diary!Starts(input[q].booking))'
    <2>1. PICK b \in Booking : b = input[q].booking /\ bookings[b] # NULL
      BY <1>3, <1>4
    <2>2. seen[q].start \in Diary!Starts(b)
      BY <1>2, <1>4, <2>1 DEF Holds
    <2>3. Diary!Starts(b) \subseteq Diary!Starts(b)'
      BY <2>1 DEF StartsStay
    <2>4. b = input'[q].booking /\ seen'[q].start \in Diary!Starts(b)'
      BY <1>1, <2>1, <2>2, <2>3
    <2> QED
      BY <2>4 DEF Diary!Starts, Diary!Lines
  <1>5. pc'[q] \in {"write", "inTxInvalidate", "commit"} /\ input'[q].op # "create" =>
          (seen[q].start \in Diary!Starts(input[q].booking))'
    BY <1>1, <1>4
  <1>6. pc'[q] = "write" /\ input'[q].op = "create" =>
          \E d \in Total :
            seen'[q] = [status |-> "PENDING", staff |-> input'[q].staff,
                        service |-> input'[q].service, start |-> input'[q].start,
                        end |-> input'[q].start + d, total |-> d]
    BY <1>1, <1>2 DEF Holds
  <1>7. tx'[q] # NULL =>
          \E d \in Total :
            /\ bookings'[input'[q].booking].total \in {NULL, d}
            /\ tx'[q].row = [bookings'[input'[q].booking] EXCEPT
                               !.start = input'[q].start, !.end = input'[q].start + d]
    <2>1. /\ tx'[q] # NULL => tx[q] # NULL
          /\ tx[q] # NULL => bookings'[input'[q].booking] = bookings[input[q].booking]
          /\ input'[q].start = input[q].start /\ tx'[q].row = tx[q].row
      BY <1>1
    <2> QED
      BY <1>2, <2>1 DEF Holds
  <1> QED
    BY <1>5, <1>6, <1>7 DEF Holds

LEMMA OthersHold ==
  ASSUME TypeOK, HandlersHold, NEW r \in Request, LeavesOthers(r), StartsStay, Holds(r)'
  PROVE  HandlersHold'
  <1> SUFFICES ASSUME NEW q \in Request \ {r} PROVE Holds(q)'
    BY DEF HandlersHold
  <1> QED
    BY StillHolds DEF HandlersHold, LeavesOthers

LEMMA QuietStarts ==
  ASSUME UNCHANGED db
  PROVE  StartsStay
  BY DEF db, StartsStay, Diary!Starts, Diary!Lines

\* Arriving, ending and giving up hold nothing.
LEMMA NothingHeld ==
  ASSUME TypeOK, NEW r \in Request,
         \/ Begin(r) \/ CreateCommit(r) \/ RescheduleCommit(r) \/ CancelCommit(r)
         \/ ConfirmCommit(r) \/ IdemSave(r) \/ Invalidate(r) \/ Fail(r)
  PROVE  Holds(r)'
  <1>1. tx'[r] = NULL
    BY DEF Begin, CreateCommit, RescheduleCommit, CancelCommit, ConfirmCommit, IdemSave, Invalidate,
           Fail, TypeOK, LocalsOK
  <1>2. pc'[r] \in {"resolve", "read", "save", "invalidate", "done"}
    BY DEF Begin, CreateCommit, RescheduleCommit, CancelCommit, ConfirmCommit, IdemSave, Invalidate,
           Fail, Goto, Answer, AfterCommit, TypeOK
  <1> QED
    BY <1>1, <1>2 DEF Holds

\* A read keeps the start it saw.
LEMMA ReadsHold ==
  ASSUME TypeOK, NEW r \in Request,
         CreateResolve(r) \/ RescheduleRead(r) \/ CancelRead(r) \/ ConfirmRead(r)
  PROVE  Holds(r)'
  <1>1. /\ tx'[r] = NULL /\ UNCHANGED <<db, input, bookings, history>>
        /\ input[r] \in Input
    BY DEF CreateResolve, RescheduleRead, CancelRead, ConfirmRead, TypeOK, LocalsOK, db
  <1>2. CASE CreateResolve(r)
    <2>1. input[r].op = "create" /\ pc'[r] \in {"write", "done"}
      BY <1>2 DEF CreateResolve, Goto, Answer, TypeOK, LocalsOK
    <2>2. pc'[r] = "write" =>
            \E d \in Total :
              seen'[r] = [status |-> "PENDING", staff |-> input[r].staff, service |-> input[r].service,
                          start |-> input[r].start, end |-> input[r].start + d, total |-> d]
      BY <1>2 DEF CreateResolve, Answer, Goto, TypeOK
    <2> QED
      BY <1>1, <2>1, <2>2 DEF Holds
  <1>3. CASE RescheduleRead(r) \/ CancelRead(r) \/ ConfirmRead(r)
    <2> DEFINE b == input[r].booking
    <2>1. input[r].op # "create" /\ pc'[r] \in {"write", "save", "invalidate", "done"}
      BY <1>3 DEF RescheduleRead, CancelRead, ConfirmRead, Goto, Answer, AfterCommit, TypeOK
    <2>2. pc'[r] = "write" =>
            /\ bookings[b] # NULL
            /\ \/ seen'[r] = bookings[b]
               \/ \E t \in Total \cup {bookings[b].total} :
                    seen'[r] = [bookings[b] EXCEPT !.total = t]
      <3>1. CASE RescheduleRead(r)
        <4>1. \/ pc'[r] = "done"
              \/ /\ bookings[b] # NULL
                 /\ \E t \in Total \cup {bookings[b].total} :
                      seen' = [seen EXCEPT ![r] = [bookings[b] EXCEPT !.total = t]]
          BY <3>1 DEF RescheduleRead, Goto, Answer, TypeOK
        <4> QED
          BY <4>1 DEF TypeOK
      <3>2. CASE CancelRead(r) \/ ConfirmRead(r)
        BY <3>2 DEF CancelRead, ConfirmRead, Goto, Answer, AfterCommit, TypeOK
      <3> QED
        BY <1>3, <3>1, <3>2
    <2>3. pc'[r] = "write" => seen'[r].start = bookings[b].start
      BY <1>1, <2>1, <2>2, InputTypes DEF TypeOK, Row
    <2>4. pc'[r] = "write" => seen'[r].start \in Diary!Starts(b)'
      BY <1>1, <2>3 DEF Diary!Starts
    <2> QED
      BY <1>1, <2>1, <2>4, SMTT(30) DEF Holds
  <1> QED
    BY <1>2, <1>3

\* The update of a reschedule is a move by the length the booking was sold with.
LEMMA MovesHold ==
  ASSUME TypeOK, Recorded, HandlersHold, NEW r \in Request,
         RescheduleUpdate(r) \/ RescheduleInvalidate(r)
  PROVE  Holds(r)'
  <1> DEFINE b == input[r].booking
  <1>1. /\ UNCHANGED <<db, input, seen, bookings, history>> /\ input[r].op = "reschedule"
        /\ Holds(r) /\ LocalsFit(r)
        /\ pc'[r] \in {"inTxInvalidate", "commit", "done"}
    BY DEF RescheduleUpdate, RescheduleInvalidate, Goto, Answer, TypeOK, LocalsOK, Recorded,
           HandlersHold, db
  <1>2. seen[r].start \in Diary!Starts(b)
    BY <1>1 DEF RescheduleUpdate, RescheduleInvalidate, Holds
  <1>3. (seen[r].start \in Diary!Starts(input[r].booking))'
    BY <1>1, <1>2 DEF Diary!Starts, Diary!Lines
  <1>4. CASE RescheduleUpdate(r)
    <2>1. /\ tx[r] = NULL /\ seen[r].total \in Total
          /\ bookings[b].total \in {NULL, seen[r].total}
      BY <1>1, <1>4 DEF RescheduleUpdate, LocalsFit, TypeOK, LocalsOK
    <2>2. tx'[r] # NULL =>
            tx'[r].row = [bookings[b] EXCEPT !.start = input[r].start,
                                             !.end = input[r].start + seen[r].total]
      BY <1>4, <2>1, SMTT(30) DEF RescheduleUpdate, TypeOK
    <2> QED
      BY <1>1, <1>3, <2>1, <2>2 DEF Holds
  <1>5. CASE RescheduleInvalidate(r)
    <2>1. UNCHANGED tx
      BY <1>5 DEF RescheduleInvalidate
    <2> QED
      BY <1>1, <1>3, <2>1 DEF Holds
  <1> QED
    BY <1>4, <1>5

-----------------------------------------------------------------------------
(* Step by step.                                                           *)

\* The diary's step on the tables.
DiaryEntry == (\E b \in Booking : Diary!Entry(b)) \/ UNCHANGED Diary!tables

LEMMA AskedStart ==
  ASSUME NEW i \in Input
  PROVE  i.op \in {"create", "reschedule"} => i.start \in Start
  BY DEF Input, Ask

\* A commit that is rolled back, or that the constraint refuses.
LEMMA RefusedEnters ==
  ASSUME UNCHANGED db
  PROVE  DiaryEntry /\ StartsStay
  BY QuietStarts DEF db, DiaryEntry, Diary!tables

LEMMA CreateEnters ==
  ASSUME TypeOK, HandlersHold, NEW r \in Request, CreateCommit(r)
  PROVE  DiaryEntry /\ StartsStay
  <1>1. /\ pc[r] = "write" /\ input[r].op = "create" /\ input[r] \in Input
        /\ seen[r] \in Row /\ Holds(r)
    BY DEF CreateCommit, TypeOK, LocalsOK, HandlersHold
  <1>2. PICK d \in Total :
          seen[r] = [status |-> "PENDING", staff |-> input[r].staff, service |-> input[r].service,
                     start |-> input[r].start, end |-> input[r].start + d, total |-> d]
    BY <1>1 DEF Holds
  <1>3. PICK staff \in Staff, service \in Service, start \in Start, row \in Row :
          /\ row = seen[r]
          /\ row = [status |-> "PENDING", staff |-> staff, service |-> service,
                    start |-> start, end |-> start + d, total |-> d]
    BY <1>1, <1>2, InputTypes, AskedStart
  <1>4. PICK b \in Booking : /\ bookings[b] = NULL
                             /\ (Free(b, row) /\ CommitInsert(b, row)) \/ UNCHANGED db
    BY <1>3 DEF CreateCommit
  <1>5. CASE Free(b, row) /\ CommitInsert(b, row)
    BY <1>3, <1>4, <1>5, InsertEnters, InsertKeepsStarts DEF DiaryEntry
  <1> QED
    BY <1>4, <1>5, RefusedEnters

\* cancel and confirm write what is there by now, not what they read.
LEMMA StatusEnters ==
  ASSUME TypeOK, Recorded, WritersSawOpenRows, HandlersHold, NEW r \in Request,
         CancelCommit(r) \/ ConfirmCommit(r)
  PROVE  DiaryEntry /\ StartsStay
  <1>1. /\ pc[r] = "write" /\ input[r].op # "create" /\ input[r] \in Input
        /\ bookings[input[r].booking] # NULL
        /\ seen[r] \in Row /\ Holds(r) /\ OpenRow(r)
    BY DEF CancelCommit, ConfirmCommit, TypeOK, LocalsOK, HandlersHold, WritersSawOpenRows
  <1>2. PICK b \in Booking, old \in Row, from \in Nat :
          b = input[r].booking /\ old = bookings[b] /\ from = seen[r].start
    BY <1>1, InputTypes DEF TypeOK, Row
  <1>3. /\ bookings[b] # NULL /\ bookings[b].status \notin Finished
        /\ from \in Diary!Starts(b)
    BY <1>1, <1>2 DEF Holds, OpenRow
  <1>4. CASE CancelCommit(r)
    <2>1. PICK row \in Row : row = [old EXCEPT !.status = "CANCELLED"]
      BY DEF Row, Status
    <2>2. CommitUpdate(b, row, "CANCEL", from)
      BY <1>2, <1>4, <2>1 DEF CancelCommit
    <2>3. row.status = "CANCELLED" /\ row.total = bookings[b].total
      BY <1>2, <2>1 DEF Row
    <2>4. Free(b, row)
      BY <2>3, SMTT(30) DEF Free, Conflict, Active
    <2>5. Diary!Change(b, row, "CANCEL", "cancelled")
      BY <1>2, <1>3, <2>1, <2>2, <2>4, UpdateEnters
    <2>6. Diary!Cancel(b)
      BY <1>2, <2>1, <2>5 DEF Diary!Cancel
    <2>7. StartsStay
      BY <1>3, <2>2, <2>3, UpdateKeepsStarts DEF Recorded
    <2> QED
      BY <2>6, <2>7 DEF DiaryEntry, Diary!Entry
  <1>5. CASE ConfirmCommit(r)
    <2>1. PICK row \in Row : row = [old EXCEPT !.status = "CONFIRMED"]
      BY DEF Row, Status
    <2>2. (Free(b, row) /\ CommitUpdate(b, row, "CONFIRM", from)) \/ UNCHANGED db
      BY <1>2, <1>5, <2>1 DEF ConfirmCommit
    <2>3. row.total = bookings[b].total
      BY <1>2, <2>1 DEF Row
    <2>4. CASE Free(b, row) /\ CommitUpdate(b, row, "CONFIRM", from)
      <3>1. Diary!Change(b, row, "CONFIRM", "confirmed")
        BY <1>2, <1>3, <2>1, <2>4, UpdateEnters
      <3>2. Diary!Confirm(b)
        BY <1>2, <2>1, <3>1 DEF Diary!Confirm
      <3>3. StartsStay
        BY <1>3, <2>3, <2>4, UpdateKeepsStarts DEF Recorded
      <3> QED
        BY <3>2, <3>3, SMTT(30) DEF DiaryEntry, Diary!Entry
    <2> QED
      BY <2>2, <2>4, RefusedEnters
  <1> QED
    BY <1>4, <1>5

\* The commit of a reschedule does not look again, and need not.
LEMMA MoveEnters ==
  ASSUME TypeOK, FitInv, Recorded, WritersSawOpenRows, HandlersHold, NEW r \in Request,
         RescheduleCommit(r)
  PROVE  DiaryEntry /\ StartsStay
  <1>1. /\ pc[r] = "commit" /\ tx[r] # NULL /\ tx[r] \in Update
        /\ input[r].op = "reschedule" /\ input[r] \in Input
        /\ bookings[input[r].booking] # NULL
        /\ seen[r] \in Row /\ Holds(r) /\ OpenRow(r) /\ LocalsFit(r)
    BY DEF RescheduleCommit, TypeOK, LocalsOK, HandlersHold, WritersSawOpenRows, Recorded
  <1>2. PICK b \in Booking, row \in Row, from \in Nat, start \in Start :
          /\ b = input[r].booking /\ row = tx[r].row /\ from = seen[r].start
          /\ start = input[r].start
    BY <1>1, InputTypes, AskedStart, SMTT(30) DEF Update, Row
  <1>3. /\ bookings[b] # NULL /\ bookings[b].status \notin Finished
        /\ from \in Diary!Starts(b) /\ row.total = bookings[b].total
    BY <1>1, <1>2, ZenonT(40) DEF Holds, OpenRow, LocalsFit
  <1>4. PICK d \in Total :
          /\ bookings[b].total \in {NULL, d}
          /\ row = [bookings[b] EXCEPT !.start = start, !.end = start + d]
    BY <1>1, <1>2 DEF Holds
  <1>5. Free(b, row)
    BY <1>1, <1>2 DEF FitInv, OpenMovesFit
  <1>6. CASE CommitUpdate(b, row, "RESCHEDULE", from)
    <2>1. row.start = start /\ row.end = start + d
      BY <1>3, <1>4 DEF TypeOK, Row
    <2>2. row = [bookings[b] EXCEPT !.start = row.start, !.end = row.end]
      BY <1>4, <2>1
    <2>3. Diary!Change(b, row, "RESCHEDULE", "rescheduled")
      BY <1>3, <1>5, <1>6, <2>2, UpdateEnters
    <2>4. Diary!Move(b, start, d)
      BY <1>4, <2>3 DEF Diary!Move
    <2>5. StartsStay
      BY <1>3, <1>6, UpdateKeepsStarts DEF Recorded
    <2> QED
      BY <2>4, <2>5 DEF DiaryEntry, Diary!Entry
  <1>7. CASE UNCHANGED db
    BY <1>7, RefusedEnters
  <1> QED
    BY <1>2, <1>6, <1>7 DEF RescheduleCommit

\* A key that is written had no answer, and its answer happened.
LEMMA AnswersKept ==
  ASSUME TypeOK, OpenKeysAreFree, StoredAnswersHappened', [Next]_vars
  PROVE  (\E k \in Key : Diary!Keep(k)) \/ UNCHANGED idem
  <1>1. UNCHANGED idem \/ \E k \in Key : idem[k] = NULL /\ idem' = [idem EXCEPT ![k] = idem'[k]]
    <2>1. CASE UNCHANGED vars \/ Tick
      BY <2>1 DEF vars, Tick
    <2>2. ASSUME NEW r \in Request, RescheduleCommit(r), ~UNCHANGED idem
          PROVE  \E k \in Key : idem[k] = NULL /\ idem' = [idem EXCEPT ![k] = idem'[k]]
      <3> DEFINE entry == [hash |-> Hash(input[r]), response |-> Body(input[r].booking, tx[r].row)]
      <3>1. /\ tx[r] # NULL /\ ~tx[r].aborted /\ input[r].key # NULL
            /\ idem' = [idem EXCEPT ![input[r].key] = entry]
        BY <2>2 DEF RescheduleCommit, TypeOK, LocalsOK
      <3>2. input[r] \in Input
        BY <3>1 DEF TypeOK, LocalsOK
      <3>3. PICK k \in Key : k = input[r].key
        BY <3>1, <3>2, InputTypes
      <3>4. idem[k] = NULL
        BY <3>1, <3>3 DEF OpenKeysAreFree, OpenKey
      <3> HIDE DEF entry
      <3>5. idem'[k] = entry
        BY <3>1, <3>3 DEF TypeOK
      <3> QED
        BY <3>1, <3>3, <3>4, <3>5
    <2>3. ASSUME NEW r \in Request, IdemSave(r), ~UNCHANGED idem
          PROVE  \E k \in Key : idem[k] = NULL /\ idem' = [idem EXCEPT ![k] = idem'[k]]
      <3> DEFINE entry == [hash |-> Hash(input[r]), response |-> reply[r].body]
      <3>1. PICK k \in Key : k = input[r].key
        BY <2>3 DEF IdemSave, TypeOK, LocalsOK
      <3>2. idem[k] = NULL /\ idem' = [idem EXCEPT ![k] = entry]
        BY <2>3, <3>1 DEF IdemSave
      <3> HIDE DEF entry
      <3>3. idem'[k] = entry
        BY <3>2, SMTT(30) DEF TypeOK
      <3> QED
        BY <3>2, <3>3
    <2>4. ASSUME NEW r \in Request,
                 \/ Begin(r) \/ CreateResolve(r) \/ CreateCommit(r) \/ RescheduleRead(r)
                 \/ RescheduleUpdate(r) \/ RescheduleInvalidate(r) \/ CancelRead(r)
                 \/ CancelCommit(r) \/ ConfirmRead(r) \/ ConfirmCommit(r) \/ Invalidate(r) \/ Fail(r)
          PROVE  UNCHANGED idem
      BY <2>4 DEF Begin, CreateResolve, CreateCommit, RescheduleRead, RescheduleUpdate,
                  RescheduleInvalidate, CancelRead, CancelCommit, ConfirmRead, ConfirmCommit,
                  Invalidate, Fail
    <2> QED
      BY <2>1, <2>2, <2>3, <2>4 DEF Next, Step
  <1>2. ASSUME NEW k \in Key, idem[k] = NULL, idem' = [idem EXCEPT ![k] = idem'[k]],
               idem'[k] # NULL
        PROVE  Diary!Keep(k)
    <2>1. Happened(idem[k].response)'
      BY <1>2, SMTT(30) DEF StoredAnswersHappened
    <2>2. Diary!Told(idem[k].response)'
      BY <2>1 DEF Happened, Diary!Told, Diary!Lines
    <2> QED
      BY <1>2, <2>2 DEF Diary!Keep
  <1>3. ASSUME NEW k \in Key, idem[k] = NULL, idem' = [idem EXCEPT ![k] = idem'[k]],
               idem'[k] = NULL
        PROVE  UNCHANGED idem
    BY <1>3 DEF TypeOK
  <1> QED
    BY <1>1, <1>2, <1>3

LEMMA DiaryStep ==
  ASSUME TypeOK, FitInv, Recorded, WritersSawOpenRows, HandlersHold, [Next]_vars
  PROVE  DiaryEntry /\ HandlersHold'
  <1>1. CASE UNCHANGED vars \/ Tick
    <2>1. UNCHANGED <<db, bookings, history, outbox, pc, input, seen, tx>>
      BY <1>1 DEF vars, Tick, db
    <2>2. HandlersHold'
      BY <2>1, QuietStarts, StillHolds DEF HandlersHold
    <2> QED
      BY <2>1, <2>2, RefusedEnters
  <1>2. ASSUME NEW r \in Request, LeavesOthers(r), Holds(r)', DiaryEntry, StartsStay
        PROVE  DiaryEntry /\ HandlersHold'
    BY <1>2, OthersHold
  <1>3. ASSUME NEW r \in Request,
               CreateResolve(r) \/ RescheduleRead(r) \/ CancelRead(r) \/ ConfirmRead(r)
        PROVE  DiaryEntry /\ HandlersHold'
    <2>1. UNCHANGED db
      BY <1>3 DEF CreateResolve, RescheduleRead, CancelRead, ConfirmRead
    <2> QED
      BY <1>2, <1>3, <2>1, ReadsRecord, ReadsHold, RefusedEnters
  <1>4. ASSUME NEW r \in Request, RescheduleUpdate(r) \/ RescheduleInvalidate(r)
        PROVE  DiaryEntry /\ HandlersHold'
    <2>1. UNCHANGED db
      BY <1>4 DEF RescheduleUpdate, RescheduleInvalidate
    <2> QED
      BY <1>2, <1>4, <2>1, MovesRecord, MovesHold, RefusedEnters
  <1>5. ASSUME NEW r \in Request, Begin(r) \/ IdemSave(r) \/ Invalidate(r) \/ Fail(r)
        PROVE  DiaryEntry /\ HandlersHold'
    <2>1. UNCHANGED db
      BY <1>5 DEF Begin, IdemSave, Invalidate, Fail
    <2> QED
      BY <1>2, <1>5, <2>1, EndsRecord, NothingHeld, RefusedEnters
  <1>6. ASSUME NEW r \in Request, CreateCommit(r) PROVE DiaryEntry /\ HandlersHold'
    BY <1>2, <1>6, CommitsRecord, NothingHeld, CreateEnters
  <1>7. ASSUME NEW r \in Request, CancelCommit(r) \/ ConfirmCommit(r)
        PROVE  DiaryEntry /\ HandlersHold'
    BY <1>2, <1>7, CommitsRecord, NothingHeld, StatusEnters
  <1>8. ASSUME NEW r \in Request, RescheduleCommit(r) PROVE DiaryEntry /\ HandlersHold'
    BY <1>2, <1>8, MoveCommitRecords, NothingHeld, MoveEnters
  <1> QED
    BY <1>1, <1>3, <1>4, <1>5, <1>6, <1>7, <1>8 DEF Next, Step

LEMMA DiaryInit == Init => Diary!Init /\ HandlersHold
  <1> SUFFICES ASSUME Init PROVE Diary!Init /\ HandlersHold
    OBVIOUS
  <1>1. TypeOK /\ NoDoubleBooking
    BY TypeInit, FitInit DEF FitInv
  <1>2. \A b \in Booking : bookings[b] # NULL <=> b \in Legacy
    <2>1. PICK old \in [Legacy -> LegacyRow] :
            bookings = [b \in Booking |-> IF b \in Legacy THEN old[b] ELSE NULL]
      BY DEF Init
    <2>2. \A row \in LegacyRow : row # NULL
      BY LegacyRows, NullAssumption
    <2> QED
      BY <2>1, <2>2
  <1>3. ASSUME NEW b \in Legacy PROVE Diary!Fits(b, bookings[b])
    <2>1. b \in Booking /\ bookings[b] # NULL
      BY <1>2, BookingsAssumption
    <2>2. bookings[b] \in Row
      BY <1>1, <2>1 DEF TypeOK
    <2>3. Free(b, bookings[b])
      BY <1>1, <2>1 DEF NoDoubleBooking, Free
    <2> QED
      BY <1>1, <2>1, <2>2, <2>3, FreeFits
  <1>4. HandlersHold
    BY DEF Init, HandlersHold, Holds
  <1> QED
    BY <1>2, <1>3, <1>4 DEF Init, Diary!Init

\* The handlers implement the diary: whatever any number of requests do between
\* and around their awaits, whoever reads the tables sees bookings created,
\* moved, cancelled and confirmed one at a time, each whole, fitting, recorded
\* once, of a booking that was not over; and keys answered once, with what was.
THEOREM BookingsKeepTheDiary == Spec => DiarySpec
  <1> DEFINE Inv == TypeOK /\ FitInv /\ Recorded /\ WritersSawOpenRows /\ OpenKeysAreFree
                    /\ HandlersHold
  <1>1. Init => Inv /\ Diary!Init
    <2>1. Init => WritersSawOpenRows /\ OpenKeysAreFree
      BY DEF Init, WritersSawOpenRows, OpenRow, OpenKeysAreFree, OpenKey
    <2> QED
      BY <2>1, TypeInit, FitInit, RecordedInit, DiaryInit
  <1>2. Inv /\ [Next]_vars => Inv'
    BY TypeStep, FitStep, RecordedStep, OpenRowsStep, KeysStep, DiaryStep
  <1>3. Inv /\ Inv' /\ [Next]_vars => [Diary!Next]_<<Diary!tables, idem>>
    <2>1. Inv /\ Inv' /\ [Next]_vars => StoredAnswersHappened'
      BY DEF Recorded
    <2> QED
      BY <2>1, DiaryStep, AnswersKept DEF Diary!Next, DiaryEntry
  <1> HIDE DEF Inv
  <1> QED
    BY <1>1, <1>2, <1>3, PTL DEF Spec, DiarySpec, Diary!Spec

=============================================================================
