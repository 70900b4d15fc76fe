--------------------------- MODULE MCStaffInvites ---------------------------
(* A small instance of StaffInvites for TLC: the owner and a guest of one  *)
(* business with one or two members of staff.                              *)
EXTENDS StaffInvites

CONSTANTS owner, guest, s1, s2

MCInitialMember == [u \in {owner, guest} |-> IF u = owner THEN "OWNER" ELSE NONE]

For(op, u) == [op |-> op, user |-> u]
Refresh(u, time) == [op |-> "refresh", user |-> u, iat |-> time]
Verify(u, code) == [op |-> "verify", user |-> u, code |-> code]
Invite(s, role) == [op |-> "invite", user |-> owner, staff |-> s, role |-> role]
Accept(u, i) == [op |-> "accept", user |-> u, invite |-> i]
Profile(u, s) == [op |-> "profile", user |-> u, staff |-> s]

\* What the requests ask, in their order of arrival: the first ones make what
\* the later ones use.
MCAsked ==
  [r \in Request |->
     CASE r = 1 -> {For("login", owner), Refresh(owner, 0),
                    For("requestCode", guest), Invite(s1, "STAFF")}
       [] r = 2 -> {For("logoutAll", owner), Refresh(owner, 0),
                    For("register", guest), For("requestCode", guest),
                    Verify(guest, 0), Verify(guest, 1), Invite(s1, "STAFF"),
                    Invite(s2, "ADMIN"), Accept(guest, 1), Profile(owner, s1)}
       [] r = 3 -> {For("logoutAll", owner), Refresh(owner, 1),
                    Verify(guest, 0), Verify(guest, 1), Accept(guest, 1),
                    Accept(owner, 1), Profile(guest, s1)}
       [] OTHER -> {Refresh(owner, 1), Verify(guest, 0), Verify(guest, 1),
                    Invite(s1, "STAFF"), Accept(owner, 1),
                    Accept(guest, 2), Profile(guest, s2)}]

=============================================================================
