---------------------------- MODULE StaffInvites ----------------------------
(***************************************************************************)
(* Staff of one business and the invites that link them to users           *)
(* (apps/api/src/staff-invites, apps/api/src/staff), composed with         *)
(* Accounts and LoginCodes.  An invite is checked before the transaction   *)
(* that accepts it; that one reads the staff row without locking it.       *)
(***************************************************************************)
EXTENDS LoginCodes

CONSTANTS
  Staff,
  InviteTtl,
  MaxFaults,     \* bound on failures
  InitialMember  \* roles of the members of the business at the start

BusinessRole == {"OWNER", "ADMIN", "STAFF"}

\* What requests may carry: an asked invite is the index of its row.
CreateStaffInviteDto(a) == a.staff \in Staff /\ a.role \in BusinessRole
AcceptStaffInviteDto(a) == a.invite \in Nat
InvitesInput(a) ==
  /\ a.user \in User
  /\ \/ a.op = "invite" /\ CreateStaffInviteDto(a)
     \/ a.op = "accept" /\ AcceptStaffInviteDto(a)
     \/ a.op = "profile" /\ a.staff \in Staff

ASSUME StaffInvitesAssumption ==
  /\ InviteTtl \in Nat /\ MaxFaults \in Nat
  /\ InitialMember \in [User -> BusinessRole \cup {NONE}]
  /\ NONE \notin User \cup Staff \cup BusinessRole
  /\ \A r \in Request : \A a \in Asked[r] :
       a # NONE /\ (AccountsInput(a) \/ CodesInput(a) \/ InvitesInput(a))
  /\ NONE \notin SessionRow

VARIABLES
  staff,    \* userId and the request that wrote the displayName of each
  member,   \* BusinessMember: a user's role
  invites,  \* StaffInvite rows in the order they were created
  faults

business == <<staff, member, invites>>
vars == <<now, accounts, codes, misses, business, progress, history, faults>>

StaffRow == [user: User \cup {NONE}, name: SessionId]
InviteRow == [staff: Staff, role: BusinessRole, expires: Nat,
              acceptedBy: User \cup {NONE}]

Active(i) == invites[i].acceptedBy = NONE /\ now < invites[i].expires

-----------------------------------------------------------------------------
(* Invites.                                                                *)

\* BusinessRolesGuard: the role is the member's, not the token's.
MayInvite(u) == member[u] \in {"OWNER", "ADMIN"}

\* createInvite: the staff row is not linked...
BeginInvite(r, a) ==
  /\ a.op = "invite"
  /\ MayInvite(a.user)
  /\ staff[a.staff].user = NONE
  /\ Begin(r, a, "active", NONE)
  /\ Read(r)
  /\ UNCHANGED business

\* Mutated form of FindActive: no invite is looked for.
FindNoActive(r) ==
  /\ At(r, "active")
  /\ Goto(r, "invite")
  /\ Read(r)
  /\ UNCHANGED business

\* ...and no invite for it is active...
FindActive(r) ==
  /\ At(r, "active")
  /\ IF \E i \in DOMAIN invites : invites[i].staff = ask[r].staff /\ Active(i)
       THEN End(r) ELSE Goto(r, "invite")
  /\ Read(r)
  /\ UNCHANGED business

\* ...when the row is created, a query later.
CreateInvite(r) ==
  /\ At(r, "invite")
  /\ invites' = Append(invites,
       [staff |-> ask[r].staff, role |-> ask[r].role,
        expires |-> now + InviteTtl, acceptedBy |-> NONE])
  /\ End(r)
  /\ Wrote(r)
  /\ UNCHANGED <<staff, member>>

\* Mutated form of BeginAccept: the token is not looked up.
BeginAcceptUnknown(r, a) ==
  /\ a.op = "accept"
  /\ a.user \in users
  /\ Begin(r, a, "staff", NONE)
  /\ Read(r)
  /\ UNCHANGED business

\* acceptInvite: the invite of the token.
BeginAccept(r, a) ==
  /\ a.op = "accept"
  /\ a.user \in users
  /\ a.invite \in DOMAIN invites
  /\ Active(a.invite)
  /\ Begin(r, a, "staff", NONE)
  /\ Read(r)
  /\ UNCHANGED business

\* The transaction reads the staff row...
ReadStaff(r) ==
  /\ At(r, "staff")
  /\ IF staff[invites[ask[r].invite].staff].user \in {NONE, ask[r].user}
       THEN Goto(r, "accept") ELSE End(r)
  /\ Read(r)
  /\ UNCHANGED business

LinkedElsewhere(u, s) == \E t \in Staff \ {s} : staff[t].user = u

\* Mutated form of AcceptInvite: the membership is left out.
AcceptWithoutMember(r) ==
  /\ At(r, "accept")
  /\ LET i == ask[r].invite
         u == ask[r].user
     IN /\ ~LinkedElsewhere(u, invites[i].staff)
        /\ staff' = [staff EXCEPT ![invites[i].staff].user = u]
        /\ invites' = [invites EXCEPT ![i].acceptedBy = u]
        /\ UNCHANGED member
  /\ End(r)
  /\ Wrote(r)

\* ...and writes it, the membership and the invite, whatever they are by
\* now.  The member takes the invite's role, whatever it was.
AcceptInvite(r) ==
  /\ At(r, "accept")
  /\ LET i == ask[r].invite
         u == ask[r].user
     IN /\ ~LinkedElsewhere(u, invites[i].staff)
        /\ staff' = [staff EXCEPT ![invites[i].staff].user = u]
        /\ member' = [member EXCEPT ![u] = invites[i].role]
        /\ invites' = [invites EXCEPT ![i].acceptedBy = u]
  /\ End(r)
  /\ Wrote(r)

\* A user is linked to one member of staff of a business: the unique index
\* rolls the transaction back.
AcceptRolledBack(r) ==
  /\ At(r, "accept")
  /\ LinkedElsewhere(ask[r].user, invites[ask[r].invite].staff)
  /\ End(r)
  /\ Read(r)
  /\ UNCHANGED business

-----------------------------------------------------------------------------
(* Profiles.                                                               *)

MayRename(u, s) ==
  \/ member[u] \in {"OWNER", "ADMIN"}
  \/ member[u] = "STAFF" /\ staff[s].user = u

\* updateProfile checks the role and the row, then writes by id.
BeginProfile(r, a) ==
  /\ a.op = "profile"
  /\ MayRename(a.user, a.staff)
  /\ Begin(r, a, "profile", NONE)
  /\ Read(r)
  /\ UNCHANGED business

WriteProfile(r) ==
  /\ At(r, "profile")
  /\ staff' = [staff EXCEPT ![ask[r].staff].name = r]
  /\ End(r)
  /\ Wrote(r)
  /\ UNCHANGED <<member, invites>>

\* getContext: what the web application is told about a user.
Context(u) ==
  [businessRole |-> member[u],
   staffId |-> IF \E s \in Staff : staff[s].user = u
                 THEN CHOOSE s \in Staff : staff[s].user = u ELSE NONE]

-----------------------------------------------------------------------------
(* The system.                                                             *)

\* A call fails, or the process dies: what is written stays, the rest of
\* the request does not happen.
Fail(r) ==
  /\ InFlight(r)
  /\ faults < MaxFaults
  /\ faults' = faults + 1
  /\ End(r)
  /\ Read(r)

StaffInvitesController(r) ==
  \E a \in Asked[r] : BeginInvite(r, a) \/ BeginAccept(r, a)

StaffController(r) == \E a \in Asked[r] : BeginProfile(r, a)

InvitesNext ==
  \E r \in Request :
    \/ StaffInvitesController(r) \/ StaffController(r)
    \/ FindActive(r) \/ CreateInvite(r) \/ ReadStaff(r)
    \/ AcceptInvite(r) \/ AcceptRolledBack(r) \/ WriteProfile(r)

\* No request is in flight, and the clock has run out.
Finished ==
  /\ \A r \in Request : ~InFlight(r)
  /\ now = MaxTime
  /\ UNCHANGED vars

Init ==
  /\ AccountsInit
  /\ codes = <<>> /\ misses = <<>>
  /\ staff = [s \in Staff |-> [user |-> NONE, name |-> 0]]
  /\ member = InitialMember
  /\ invites = <<>>
  /\ faults = 0

Next ==
  \/ AccountsNext /\ UNCHANGED <<codes, misses, business, faults>>
  \/ CodesNext /\ UNCHANGED <<business, faults>>
  \/ InvitesNext /\ UNCHANGED <<now, accounts, codes, misses, behind, spared, faults>>
  \/ \E r \in Request :
       Fail(r) /\ UNCHANGED <<now, accounts, codes, misses, business, behind, spared>>
  \/ Finished

Spec == Init /\ [][Next]_vars

-----------------------------------------------------------------------------
(* Properties.                                                             *)

Steps ==
  {"create", "issue", "store", "revoke", "answered", "code", "tooMany", "miss",
   "consume", "find", "active", "invite", "staff", "accept", "profile"}

\* The shapes of the state; a request works on rows that are there.
TypeOK ==
  /\ now \in 0..MaxTime
  /\ users \subseteq User
  /\ session \in [SessionId -> SessionRow \cup {NONE}]
  /\ at \in [Request -> {"idle", "done"} \cup Steps]
  /\ \A r \in Request : ask[r] \in Asked[r] \cup {NONE}
  /\ \A r \in Request : InFlight(r) <=> ask[r] # NONE
  /\ \A r \in Request : At(r, "revoke") => session[found[r]] # NONE
  /\ \A r \in Request :
       At(r, "staff") \/ At(r, "accept") => ask[r].invite \in DOMAIN invites
  /\ iat \in [Request -> 0..MaxTime]
  /\ codes \in Seq(CodeRow)
  /\ misses \in Seq(Nat)
  /\ staff \in [Staff -> StaffRow]
  /\ member \in [User -> BusinessRole \cup {NONE}]
  /\ invites \in Seq(InviteRow)
  /\ overtaken \in [Request -> SUBSET Request]
  /\ faults \in 0..MaxFaults

\* A live session that was issued before a logout of all of its user's
\* sessions, directly or through refreshes, comes from a refresh that had
\* found its session before that logout revoked it.
LogoutMissesOnlyRequestsInFlight ==
  \A s \in behind : LiveSession(s) => s \in spared

\* A code's attempts are the wrong answers given for it, however many
\* requests gave them at once, and only requests in flight together take
\* them past the limit.
MissesAreCounted ==
  /\ Len(misses) = Len(codes)
  /\ \A c \in DOMAIN codes :
       /\ codes[c].attempts = misses[c]
       /\ codes[c].attempts
            + Cardinality({r \in Request : At(r, "miss") /\ found[r] = c})
            <= MaxAttempts + MaxOpen - 1

\* A user linked to a member of staff is a member of the business and has
\* accepted an invite for that member of staff: accepting commits the three
\* rows together.
LinkedStaffAccepted ==
  \A u \in User :
    Context(u).staffId # NONE =>
      /\ Context(u).businessRole # NONE
      /\ \E i \in DOMAIN invites : /\ invites[i].staff = Context(u).staffId
                                   /\ invites[i].acceptedBy = u

\* A request acts on what is spent only when another one wrote after its
\* first query: it rotates a revoked session, consumes a used code, accepts
\* an accepted invite or links linked staff, adds a second active invite, or
\* renames staff it no longer may.
SpentOnlyInARace ==
  [][\A r \in Request : overtaken[r] = {} =>
       /\ At(r, "revoke") /\ At(r, "issue")' => ~session[found[r]].revoked
       /\ At(r, "consume") /\ At(r, "find")' => ~codes[found[r]].used
       /\ At(r, "accept") /\ invites' # invites =>
            /\ invites[ask[r].invite].acceptedBy = NONE
            /\ staff[invites[ask[r].invite].staff].user \in {NONE, ask[r].user}
       /\ At(r, "invite") /\ invites' # invites =>
            \A i \in DOMAIN invites : invites[i].staff = ask[r].staff => ~Active(i)
       /\ At(r, "profile") /\ staff' # staff => MayRename(ask[r].user, ask[r].staff)]_vars

=============================================================================
