--------------------------- MODULE MCAvailability ---------------------------
(* A small instance of Availability for TLC: one member of staff gives two *)
(* services, one of them with a variant and an add-on.                     *)
EXTENDS Availability, TLC

CONSTANTS ana, cut, dye, perm, hair, care, long, mask, scalp, vac, trip, lists, cats

MCServiceOf == [c \in {long, mask, scalp} |-> cut]

Plain(s) == [service |-> s, variant |-> NONE, addons |-> {}]
Full == [service |-> cut, variant |-> long, addons |-> {mask}]
MCPageKey == {Plain(dye), Full}
MCKey == MCPageKey \cup {lists, cats}

SRow(len) == [open |-> TRUE, archived |-> FALSE, len |-> len, category |-> hair]
CRow(len) == [open |-> TRUE, archived |-> FALSE, len |-> len]
LRow(len) == [active |-> TRUE, online |-> TRUE, len |-> len, by |-> 0]
Gives == [active |-> TRUE, online |-> TRUE, len |-> NONE]

MCStart ==
  {[category |-> [c \in {hair, care} |-> IF c = hair
                   THEN [visible |-> TRUE, archived |-> FALSE] ELSE NONE],
    service |-> [s \in {cut, dye, perm} |-> IF s = perm THEN NONE ELSE SRow(1)],
    child |-> [c \in {long, mask, scalp} |->
                 IF c = scalp THEN NONE ELSE CRow(1)],
    link |-> [t \in {ana} |-> [s \in {cut, dye, perm} |->
                 IF s = perm THEN NONE ELSE LRow(NONE)]],
    hours |-> [t \in {ana} |-> {[start |-> 0, end |-> 3, by |-> 0]}],
    timeOff |-> [i \in {vac, trip} |-> IF i = trip THEN NONE
                   ELSE [staff |-> ana, start |-> 0, end |-> 3]],
    booked |-> {[staff |-> ana, service |-> dye, start |-> 2, end |-> 3]}]}

Owner(op, id, put) == [op |-> op, role |-> "OWNER", id |-> id, put |-> put]
Self(op, id, put) ==
  [op |-> op, role |-> "SELF", staff |-> ana, id |-> id, put |-> put]

Page(k) == [op |-> "page", key |-> k]
List(k) == [op |-> "list", key |-> k]
Book == [op |-> "book", staff |-> ana, start |-> 0] @@ Full
Of(op, start) ==
  [op |-> op, staff |-> ana, service |-> dye, start |-> start]
Hours(start, end) ==
  [op |-> "replaceHours", role |-> "ADMIN", staff |-> ana,
   items |-> {[start |-> start, end |-> end]}]
Relinks(items) ==
  [op |-> "replaceStaffServices", role |-> "OWNER", staff |-> ana,
   items |-> items]
OnlyCut == [s \in {cut} |-> Gives]
OnlyDye == [s \in {dye} |-> [Gives EXCEPT !.len = 2]]

Common ==
  {Page(Full), List(lists), Hours(0, 2), Relinks(OnlyCut),
   Self("updateTimeOff", vac, [start |-> 2]), Owner("archiveService", cut, <<>>)}

\* The first request is a common one, the last one meets what the others did,
\* and the second may be any.
MCAsked ==
  [r \in 1..3 |->
     CASE r = 1 -> Common
       [] r = 3 ->
          {Page(Full), List(lists), Book, Hours(1, 3), Relinks(OnlyDye),
           Self("updateTimeOff", vac, [end |-> 1]),
           Owner("setServiceStatus", cut, [archived |-> FALSE])}
       [] OTHER ->
          Common
          \cup {Page(Plain(dye)), List(cats), Book, Hours(1, 3), Hours(2, 2),
                Relinks(OnlyDye), Of("cancel", 2), Of("confirm", 2),
                Of("move", 1), Of("move", 0)}
          \cup {Self("createTimeOff", trip, [start |-> 0, end |-> 1]),
                Self("updateTimeOff", vac, [end |-> 1]),
                Self("removeTimeOff", vac, <<>>)}
          \cup {Owner("createCategory", care, <<>>),
                Owner("updateCategory", hair, [visible |-> FALSE]),
                Owner("archiveCategory", hair, <<>>),
                Owner("createService", perm, [len |-> 1]),
                Owner("updateService", cut, [len |-> 2]),
                Owner("setServiceStatus", cut, [archived |-> FALSE]),
                Owner("createChild", scalp, [len |-> 1]),
                Owner("updateChild", mask, [len |-> -1]),
                Owner("archiveChild", long, <<>>)}]

=============================================================================
