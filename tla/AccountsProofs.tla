--------------------------- MODULE AccountsProofs ---------------------------
(***************************************************************************)
(* Accounts, codes and invites, proved for any number of users, requests,  *)
(* seconds and failures.  No method locks what it reads, so each proof     *)
(* says what a request in flight may still rely on: rows are never deleted,*)
(* and what one method reads only another writer can have changed.         *)
(***************************************************************************)
EXTENDS StaffInvites, SequenceTheorems, FiniteSetTheorems, TLAPS

\* The types of the rows.
RowTypes ==
  /\ now \in 0..MaxTime
  /\ users \subseteq User
  /\ session \in [SessionId -> SessionRow \cup {NONE}]
  /\ codes \in Seq(CodeRow)
  /\ misses \in Seq(Nat)
  /\ Len(misses) = Len(codes)
  /\ staff \in [Staff -> StaffRow]
  /\ member \in [User -> BusinessRole \cup {NONE}]
  /\ invites \in Seq(InviteRow)
  /\ faults \in 0..MaxFaults

\* The types of the requests' progress.
ProgressTypes ==
  /\ at \in [Request -> {"idle", "done"} \cup Steps]
  /\ DOMAIN ask = Request /\ DOMAIN found = Request
  /\ \A r \in Request : ask[r] \in Asked[r] \cup {NONE}
  /\ \A r \in Request : InFlight(r) <=> ask[r] # NONE
  /\ iat \in [Request -> 0..MaxTime]
  /\ overtaken \in [Request -> SUBSET Request]

\* What a request works on is there.
Works(r) ==
  /\ At(r, "revoke") => found[r] \in SessionId /\ session[found[r]] # NONE
  /\ At(r, "tooMany") \/ At(r, "miss") \/ At(r, "consume")
       => found[r] \in DOMAIN codes
  /\ At(r, "staff") \/ At(r, "accept") => ask[r].invite \in DOMAIN invites
  /\ At(r, "active") \/ At(r, "invite")
       => ask[r].staff \in Staff /\ ask[r].role \in BusinessRole
  /\ At(r, "profile") => ask[r].staff \in Staff

Types == RowTypes /\ ProgressTypes /\ \A r \in Request : Works(r)

\* Rows that a request relies on stay: sessions, codes and invites only grow.
RowsStay ==
  /\ \A s \in SessionId : session[s] # NONE => session'[s] # NONE
  /\ DOMAIN codes \subseteq DOMAIN codes'
  /\ DOMAIN invites \subseteq DOMAIN invites'

\* A step of r leaves the progress of the others alone.
OnlyMoves(r) ==
  \A q \in Request \ {r} :
    at'[q] = at[q] /\ ask'[q] = ask[q] /\ found'[q] = found[q] /\ iat'[q] = iat[q]

-----------------------------------------------------------------------------
(* Types.                                                                  *)

LEMMA TypesImplyTypeOK == Types => TypeOK
BY DEF Types, RowTypes, ProgressTypes, Works, TypeOK

\* What a request asks is typed.
LEMMA InputsTyped ==
  ASSUME NEW r \in Request, NEW a \in Asked[r]
  PROVE  /\ a # NONE /\ a.user \in User
         /\ a.op = "invite" => a.staff \in Staff /\ a.role \in BusinessRole
         /\ a.op = "profile" => a.staff \in Staff
BY StaffInvitesAssumption
   DEF StaffInvitesAssumption, AccountsInput, CodesInput, InvitesInput,
       CreateStaffInviteDto

LEMMA AskedUser ==
  ASSUME ProgressTypes, NEW r \in Request, InFlight(r)
  PROVE  ask[r] \in Asked[r] /\ ask[r].user \in User
BY InputsTyped DEF ProgressTypes

LEMMA OvertakenTypes ==
  ASSUME ProgressTypes, NEW r \in Request, Wrote(r) \/ Read(r)
  PROVE  overtaken' \in [Request -> SUBSET Request]
<1>1. CASE Wrote(r)
  BY <1>1 DEF Wrote, ProgressTypes
<1>2. CASE Read(r)
  BY <1>2 DEF Read, ProgressTypes
<1>3. QED
  BY <1>1, <1>2

\* Beginning, going on and ending keep the progress typed.
LEMMA BeginTypes ==
  ASSUME ProgressTypes, NEW r \in Request, NEW a, NEW first \in Steps, NEW row,
         Begin(r, a, first, row), Wrote(r) \/ Read(r)
  PROVE  /\ ProgressTypes' /\ OnlyMoves(r)
         /\ at[r] = "idle" /\ a \in Asked[r]
         /\ at'[r] = first /\ ask'[r] = a /\ found'[r] = row
BY InputsTyped, OvertakenTypes
   DEF Begin, ProgressTypes, InFlight, Steps, OnlyMoves

LEMMA GotoTypes ==
  ASSUME ProgressTypes, NEW r \in Request, NEW step \in Steps, InFlight(r),
         Goto(r, step), Wrote(r) \/ Read(r)
  PROVE  /\ ProgressTypes' /\ OnlyMoves(r)
         /\ at'[r] = step /\ ask'[r] = ask[r] /\ found'[r] = found[r]
BY OvertakenTypes DEF Goto, ProgressTypes, InFlight, Steps, OnlyMoves

LEMMA EndTypes ==
  ASSUME ProgressTypes, NEW r \in Request, End(r), Wrote(r) \/ Read(r)
  PROVE  ProgressTypes' /\ OnlyMoves(r) /\ at'[r] = "done" /\ ask'[r] = NONE
<1>1. 0 \in 0..MaxTime
  BY AccountsAssumption DEF AccountsAssumption
<1>2. QED
  BY <1>1, OvertakenTypes DEF End, ProgressTypes, InFlight, Steps, OnlyMoves

\* If a step of r keeps the rows, it is enough to look at r.
LEMMA OthersWork ==
  ASSUME \A q \in Request : Works(q), NEW r \in Request, OnlyMoves(r), RowsStay,
         Works(r)'
  PROVE  \A q \in Request : Works(q)'
BY DEF Works, OnlyMoves, RowsStay, At

\* Writing a session keeps all there are.
LEMMA SessionWritten ==
  ASSUME RowTypes, NEW s \in SessionId, NEW row \in SessionRow,
         session' = [session EXCEPT ![s] = row]
  PROVE  /\ session' \in [SessionId -> SessionRow \cup {NONE}]
         /\ \A t \in SessionId : session[t] # NONE => session'[t] # NONE
<1>1. row # NONE
  BY StaffInvitesAssumption DEF StaffInvitesAssumption
<1>2. QED
  BY <1>1 DEF RowTypes

LEMMA AccountsTypes ==
  ASSUME Types, AccountsNext, UNCHANGED <<codes, misses, business, faults>>
  PROVE  Types' /\ RowsStay
<1> USE AccountsAssumption DEF AccountsAssumption, Types
<1> DEFINE Rows == RowTypes' /\ RowsStay
<1>1. ASSUME NEW r \in Request, NEW a \in Asked[r], BeginRegister(r, a)
      PROVE  Types' /\ RowsStay
  <2>1. Rows /\ (ProgressTypes' /\ OnlyMoves(r) /\ at'[r] = "create")
    BY <1>1, BeginTypes DEF BeginRegister, RowTypes, RowsStay, Steps, accounts, business
  <2>2. QED
    BY <2>1, OthersWork DEF Works, At
<1>2. ASSUME NEW r \in Request, NEW a \in Asked[r], BeginLogin(r, a)
      PROVE  Types' /\ RowsStay
  <2>1. Rows /\ (ProgressTypes' /\ OnlyMoves(r) /\ at'[r] = "issue")
    BY <1>2, BeginTypes DEF BeginLogin, RowTypes, RowsStay, Steps, accounts, business
  <2>2. QED
    BY <2>1, OthersWork DEF Works, At
<1>3. ASSUME NEW r \in Request, NEW a \in Asked[r], BeginRefresh(r, a)
      PROVE  Types' /\ RowsStay
  <2>1. PICK s \in SessionId : LiveSession(s) /\ Begin(r, a, "revoke", s)
    BY <1>3 DEF BeginRefresh
  <2>2. Rows
    BY <1>3 DEF BeginRefresh, RowTypes, RowsStay, accounts, business
  <2>3. /\ ProgressTypes' /\ OnlyMoves(r)
        /\ at'[r] = "revoke" /\ found'[r] = s /\ session'[s] # NONE
    BY <1>3, <2>1, BeginTypes DEF BeginRefresh, Steps, LiveSession, Unexpired, accounts
  <2>4. QED
    BY <2>2, <2>3, OthersWork DEF Works, At
<1>4. ASSUME NEW r \in Request, NEW a \in Asked[r], LogoutAll(r, a)
      PROVE  Types' /\ RowsStay
  <2>1. session' \in [SessionId -> SessionRow \cup {NONE}]
    BY <1>4, ZenonT(40) DEF LogoutAll, RowTypes, SessionsOf, SessionRow
  <2>2. \A s \in SessionId : session[s] # NONE => session'[s] # NONE
    BY <1>4, StaffInvitesAssumption
       DEF LogoutAll, RowTypes, SessionsOf, SessionRow, StaffInvitesAssumption
  <2>3. Rows
    BY <1>4, <2>1, <2>2 DEF LogoutAll, RowTypes, RowsStay, business
  <2>4. ProgressTypes' /\ OnlyMoves(r) /\ at'[r] = "answered"
    BY <1>4, BeginTypes DEF LogoutAll, Steps
  <2>5. QED
    BY <2>3, <2>4, OthersWork DEF Works, At
<1>5. ASSUME NEW r \in Request, CreateUser(r)
      PROVE  Types' /\ RowsStay
  <2>1. InFlight(r)
    BY <1>5 DEF CreateUser, At, InFlight
  <2>2. Rows
    BY <1>5, <2>1, AskedUser DEF CreateUser, RowTypes, RowsStay, business
  <2>3. ProgressTypes' /\ OnlyMoves(r) /\ at'[r] \in {"issue", "done"}
    BY <1>5, <2>1, GotoTypes, EndTypes DEF CreateUser, Steps
  <2>4. QED
    BY <2>2, <2>3, OthersWork DEF Works, At
<1>6. ASSUME NEW r \in Request, IssueTokens(r)
      PROVE  Types' /\ RowsStay
  <2>1. Rows
    BY <1>6 DEF IssueTokens, RowTypes, RowsStay, accounts, business
  <2>2. ProgressTypes' /\ OnlyMoves(r) /\ at'[r] = "store"
    BY <1>6, OvertakenTypes
       DEF IssueTokens, ProgressTypes, RowTypes, OnlyMoves, At, InFlight, Steps
  <2>3. QED
    BY <2>1, <2>2, OthersWork DEF Works, At
<1>7. ASSUME NEW r \in Request, StoreRefreshSession(r)
      PROVE  Types' /\ RowsStay
  <2> DEFINE row == [user |-> ask[r].user, iat |-> iat[r], revoked |-> FALSE,
                     expires |-> now + RefreshTtl]
  <2>1. row \in SessionRow /\ r \in SessionId
    <3>1. ask[r].user \in User
      BY <1>7, AskedUser DEF StoreRefreshSession, At, InFlight
    <3>2. iat[r] \in 0..MaxTime /\ now + RefreshTtl \in Nat
      BY DEF ProgressTypes, RowTypes
    <3>3. QED
      BY <3>1, <3>2 DEF SessionRow, Request, SessionId
  <2>2. session' = [session EXCEPT ![r] = row]
    BY <1>7 DEF StoreRefreshSession
  <2>3. Rows
    BY <1>7, <2>1, <2>2, SessionWritten
       DEF StoreRefreshSession, RowTypes, RowsStay, business
  <2>4. ProgressTypes' /\ OnlyMoves(r) /\ at'[r] = "done"
    BY <1>7, EndTypes DEF StoreRefreshSession
  <2>5. QED
    BY <2>3, <2>4, OthersWork DEF Works, At
<1>8. ASSUME NEW r \in Request, RevokeOld(r)
      PROVE  Types' /\ RowsStay
  <2>1. InFlight(r) /\ found[r] \in SessionId /\ session[found[r]] \in SessionRow
    BY <1>8 DEF RevokeOld, At, InFlight, Works, RowTypes
  <2> DEFINE row == [session[found[r]] EXCEPT !.revoked = TRUE]
  <2>2. row \in SessionRow /\ session' = [session EXCEPT ![found[r]] = row]
    BY <1>8, <2>1 DEF RevokeOld, SessionRow
  <2>3. Rows
    BY <1>8, <2>1, <2>2, SessionWritten
       DEF RevokeOld, RowTypes, RowsStay, business
  <2>4. ProgressTypes' /\ OnlyMoves(r) /\ at'[r] = "issue"
    BY <1>8, <2>1, GotoTypes DEF RevokeOld, Steps
  <2>5. QED
    BY <2>3, <2>4, OthersWork DEF Works, At
<1>9. ASSUME NEW r \in Request, Answer(r)
      PROVE  Types' /\ RowsStay
  <2>1. Rows /\ (ProgressTypes' /\ OnlyMoves(r) /\ at'[r] = "done")
    BY <1>9, EndTypes DEF Answer, RowTypes, RowsStay, accounts, business
  <2>2. QED
    BY <2>1, OthersWork DEF Works, At
<1>10. ASSUME Tick
       PROVE  Types' /\ RowsStay
  BY <1>10 DEF Tick, RowTypes, ProgressTypes, Works, At, InFlight, RowsStay, accounts,
               business, progress, history
<1>11. QED
  BY <1>1, <1>2, <1>3, <1>4, <1>5, <1>6, <1>7, <1>8, <1>9, <1>10
     DEF AccountsNext, AuthController

\* Rewriting some of the codes keeps their number; a code is appended with a
\* count of wrong answers.
LEMMA CodeWritten ==
  ASSUME RowTypes, NEW c \in DOMAIN codes, NEW row \in CodeRow,
         codes' = [codes EXCEPT ![c] = row]
  PROVE  codes' \in Seq(CodeRow) /\ Len(codes') = Len(codes) /\ DOMAIN codes' = DOMAIN codes
<1>1. c \in 1..Len(codes)
  BY LenProperties DEF RowTypes
<1>2. QED
  BY <1>1, ExceptSeq DEF RowTypes

LEMMA CodesTypes ==
  ASSUME Types, CodesNext, UNCHANGED <<business, faults>>
  PROVE  Types' /\ RowsStay
<1> USE LoginCodesAssumption, AccountsAssumption
    DEF LoginCodesAssumption, AccountsAssumption, Types
<1> DEFINE Rows == RowTypes' /\ RowsStay
<1>1. ASSUME NEW r \in Request, NEW a \in Asked[r], BeginCode(r, a)
      PROVE  Types' /\ RowsStay
  <2> DEFINE next == [c \in 1..Len(codes) |->
                        IF codes[c].user = a.user /\ codes[c].expires < now
                          THEN [codes[c] EXCEPT !.used = TRUE] ELSE codes[c]]
  <2>1. Len(codes) \in Nat /\ DOMAIN codes = 1..Len(codes)
    BY LenProperties DEF RowTypes
  <2>2. codes' = next
    BY <1>1, <2>1 DEF BeginCode
  <2>3. \A c \in 1..Len(codes) : codes[c] \in CodeRow
    BY ElementOfSeq DEF RowTypes
  <2>4. next \in [1..Len(codes) -> CodeRow]
    BY <2>3 DEF CodeRow
  <2>5. codes' \in Seq(CodeRow) /\ Len(codes') = Len(codes) /\ DOMAIN codes' = DOMAIN codes
    BY <2>1, <2>2, <2>4
  <2>6. Rows
    BY <1>1, <2>5 DEF BeginCode, RowTypes, RowsStay, accounts, business
  <2>7. ProgressTypes' /\ OnlyMoves(r) /\ at'[r] = "code"
    BY <1>1, BeginTypes DEF BeginCode, Steps
  <2>8. QED
    BY <2>6, <2>7, OthersWork DEF Works, At
<1>2. ASSUME NEW r \in Request, CreateCode(r)
      PROVE  Types' /\ RowsStay
  <2> DEFINE row == [user |-> ask[r].user, used |-> FALSE, attempts |-> 0,
                     expires |-> now + CodeTtl]
  <2>1. row \in CodeRow
    <3>1. ask[r].user \in User
      BY <1>2, AskedUser DEF CreateCode, At, InFlight
    <3>2. now + CodeTtl \in Nat
      BY DEF RowTypes
    <3>3. QED
      BY <3>1, <3>2 DEF CodeRow
  <2>2. codes' = Append(codes, row) /\ misses' = Append(misses, 0)
    BY <1>2 DEF CreateCode
  <2>3. /\ codes' \in Seq(CodeRow) /\ misses' \in Seq(Nat)
        /\ Len(codes') = Len(codes) + 1 /\ Len(misses') = Len(misses) + 1
    BY <2>1, <2>2, AppendProperties DEF RowTypes
  <2>4. DOMAIN codes \subseteq DOMAIN codes'
    BY <2>3, LenProperties DEF RowTypes
  <2>5. Rows
    BY <1>2, <2>3, <2>4 DEF CreateCode, RowTypes, RowsStay, accounts, business
  <2>6. ProgressTypes' /\ OnlyMoves(r) /\ at'[r] = "done"
    BY <1>2, EndTypes DEF CreateCode
  <2>7. QED
    BY <2>5, <2>6, OthersWork DEF Works, At
<1>3. ASSUME NEW r \in Request, NEW a \in Asked[r], BeginVerify(r, a)
      PROVE  Types' /\ RowsStay
  <2>1. PICK c \in DOMAIN codes, first \in {"tooMany", "miss", "consume"} :
          Begin(r, a, first, c)
    BY <1>3 DEF BeginVerify
  <2>2. Rows
    BY <1>3 DEF BeginVerify, RowTypes, RowsStay, accounts, business
  <2>3. /\ ProgressTypes' /\ OnlyMoves(r) /\ found'[r] = c /\ codes' = codes
        /\ at'[r] \in {"tooMany", "miss", "consume"}
    BY <1>3, <2>1, BeginTypes DEF BeginVerify, Steps
  <2>4. QED
    BY <2>2, <2>3, OthersWork DEF Works, At
<1>4. ASSUME NEW r \in Request, TooMany(r)
      PROVE  Types' /\ RowsStay
  <2>1. found[r] \in DOMAIN codes /\ codes[found[r]] \in CodeRow
    BY <1>4, ElementOfSeq, LenProperties DEF TooMany, At, Works, RowTypes
  <2> DEFINE row == [codes[found[r]] EXCEPT !.used = TRUE]
  <2>2. row \in CodeRow /\ codes' = [codes EXCEPT ![found[r]] = row]
    BY <1>4, <2>1 DEF TooMany, CodeRow
  <2>3. Rows
    BY <1>4, <2>1, <2>2, CodeWritten
       DEF TooMany, RowTypes, RowsStay, accounts, business
  <2>4. ProgressTypes' /\ OnlyMoves(r) /\ at'[r] = "done"
    BY <1>4, EndTypes DEF TooMany
  <2>5. QED
    BY <2>3, <2>4, OthersWork DEF Works, At
<1>5. ASSUME NEW r \in Request, Miss(r)
      PROVE  Types' /\ RowsStay
  <2>1. found[r] \in DOMAIN codes /\ codes[found[r]] \in CodeRow
    BY <1>5, ElementOfSeq, LenProperties DEF Miss, At, Works, RowTypes
  <2> DEFINE row == [codes[found[r]] EXCEPT !.attempts = @ + 1]
  <2>2. row \in CodeRow /\ codes' = [codes EXCEPT ![found[r]] = row]
    BY <1>5, <2>1 DEF Miss, CodeRow
  <2>3. misses' \in Seq(Nat) /\ Len(misses') = Len(misses)
    <3>1. found[r] \in 1..Len(misses)
      BY <2>1, LenProperties DEF RowTypes
    <3>2. misses[found[r]] + 1 \in Nat
      BY <3>1, ElementOfSeq DEF RowTypes
    <3>3. misses' = [misses EXCEPT ![found[r]] = misses[found[r]] + 1]
      BY <1>5 DEF Miss
    <3>4. QED
      BY <3>1, <3>2, <3>3, ExceptSeq DEF RowTypes
  <2>4. Rows
    BY <1>5, <2>1, <2>2, <2>3, CodeWritten
       DEF Miss, RowTypes, RowsStay, accounts, business
  <2>5. ProgressTypes' /\ OnlyMoves(r) /\ at'[r] = "done"
    BY <1>5, EndTypes DEF Miss
  <2>6. QED
    BY <2>4, <2>5, OthersWork DEF Works, At
<1>6. ASSUME NEW r \in Request, Consume(r)
      PROVE  Types' /\ RowsStay
  <2>1. InFlight(r) /\ found[r] \in DOMAIN codes /\ codes[found[r]] \in CodeRow
    BY <1>6, ElementOfSeq, LenProperties DEF Consume, At, InFlight, Works, RowTypes
  <2> DEFINE row == [codes[found[r]] EXCEPT !.used = TRUE]
  <2>2. row \in CodeRow /\ codes' = [codes EXCEPT ![found[r]] = row]
    BY <1>6, <2>1 DEF Consume, CodeRow
  <2>3. Rows
    BY <1>6, <2>1, <2>2, CodeWritten
       DEF Consume, RowTypes, RowsStay, accounts, business
  <2>4. ProgressTypes' /\ OnlyMoves(r) /\ at'[r] = "find"
    BY <1>6, <2>1, GotoTypes DEF Consume, Steps
  <2>5. QED
    BY <2>3, <2>4, OthersWork DEF Works, At
<1>7. ASSUME NEW r \in Request, FindUser(r)
      PROVE  Types' /\ RowsStay
  <2>1. Rows
    BY <1>7 DEF FindUser, RowTypes, RowsStay, accounts, business
  <2>2. ProgressTypes' /\ OnlyMoves(r) /\ at'[r] \in {"issue", "create"}
    BY <1>7, GotoTypes DEF FindUser, Steps, At, InFlight
  <2>3. QED
    BY <2>1, <2>2, OthersWork DEF Works, At
<1>8. QED
  BY <1>1, <1>2, <1>3, <1>4, <1>5, <1>6, <1>7 DEF CodesNext, MagicAuthController

LEMMA InvitesTypes ==
  ASSUME Types, InvitesNext,
         UNCHANGED <<now, accounts, codes, misses, behind, spared, faults>>
  PROVE  Types' /\ RowsStay
<1> USE StaffInvitesAssumption DEF StaffInvitesAssumption, Types
<1> DEFINE Rows == RowTypes' /\ RowsStay
<1>1. UNCHANGED business => Rows
  BY DEF RowTypes, RowsStay, accounts, business
<1>2. ASSUME NEW r \in Request, NEW a \in Asked[r], BeginInvite(r, a)
      PROVE  Types' /\ RowsStay
  <2>1. /\ ProgressTypes' /\ OnlyMoves(r) /\ at'[r] = "active" /\ ask'[r] = a
        /\ a.op = "invite" /\ a \in Asked[r] /\ UNCHANGED business
    BY <1>2, BeginTypes DEF BeginInvite, Steps
  <2>2. QED
    BY <1>1, <2>1, InputsTyped, OthersWork DEF Works, At
<1>3. ASSUME NEW r \in Request, NEW a \in Asked[r], BeginAccept(r, a)
      PROVE  Types' /\ RowsStay
  <2>1. /\ ProgressTypes' /\ OnlyMoves(r) /\ at'[r] = "staff" /\ ask'[r] = a
        /\ a.invite \in DOMAIN invites /\ UNCHANGED business
    BY <1>3, BeginTypes DEF BeginAccept, Steps
  <2>2. QED
    BY <1>1, <2>1, OthersWork DEF Works, At, business
<1>4. ASSUME NEW r \in Request, NEW a \in Asked[r], BeginProfile(r, a)
      PROVE  Types' /\ RowsStay
  <2>1. /\ ProgressTypes' /\ OnlyMoves(r) /\ at'[r] = "profile" /\ ask'[r] = a
        /\ a.op = "profile" /\ a \in Asked[r] /\ UNCHANGED business
    BY <1>4, BeginTypes DEF BeginProfile, Steps
  <2>2. QED
    BY <1>1, <2>1, InputsTyped, OthersWork DEF Works, At
<1>5. ASSUME NEW r \in Request, FindActive(r)
      PROVE  Types' /\ RowsStay
  <2>1. InFlight(r) /\ ask[r].staff \in Staff /\ ask[r].role \in BusinessRole
    BY <1>5 DEF FindActive, At, InFlight, Works
  <2>2. /\ ProgressTypes' /\ OnlyMoves(r) /\ UNCHANGED business
        /\ at'[r] = "done" \/ (at'[r] = "invite" /\ ask'[r] = ask[r])
    <3>1. CASE Goto(r, "invite")
      BY <1>5, <2>1, <3>1, GotoTypes DEF FindActive, Steps
    <3>2. CASE End(r)
      <4>1. Read(r) /\ UNCHANGED business
        BY <1>5 DEF FindActive
      <4>2. ProgressTypes' /\ OnlyMoves(r) /\ at'[r] = "done"
        BY <3>2, <4>1, EndTypes
      <4>3. QED
        BY <4>1, <4>2
    <3>3. QED
      BY <1>5, <3>1, <3>2 DEF FindActive
  <2>3. QED
    BY <1>1, <2>1, <2>2, OthersWork DEF Works, At
<1>6. ASSUME NEW r \in Request, CreateInvite(r)
      PROVE  Types' /\ RowsStay
  <2> DEFINE row == [staff |-> ask[r].staff, role |-> ask[r].role,
                     expires |-> now + InviteTtl, acceptedBy |-> NONE]
  <2>1. row \in InviteRow
    <3>1. ask[r].staff \in Staff /\ ask[r].role \in BusinessRole
      BY <1>6 DEF CreateInvite, At, Works
    <3>2. now + InviteTtl \in Nat
      BY AccountsAssumption DEF RowTypes, AccountsAssumption
    <3>3. QED
      BY <3>1, <3>2 DEF InviteRow
  <2>2. invites' = Append(invites, row)
    BY <1>6 DEF CreateInvite
  <2>3. invites' \in Seq(InviteRow) /\ Len(invites') = Len(invites) + 1
    BY <2>1, <2>2, AppendProperties DEF RowTypes
  <2>4. DOMAIN invites \subseteq DOMAIN invites'
    BY <2>3, LenProperties DEF RowTypes
  <2>5. Rows
    BY <1>6, <2>3, <2>4 DEF CreateInvite, RowTypes, RowsStay, accounts
  <2>6. ProgressTypes' /\ OnlyMoves(r) /\ at'[r] = "done"
    BY <1>6, EndTypes DEF CreateInvite
  <2>7. QED
    BY <2>5, <2>6, OthersWork DEF Works, At
<1>7. ASSUME NEW r \in Request, ReadStaff(r)
      PROVE  Types' /\ RowsStay
  <2>1. InFlight(r) /\ ask[r].invite \in DOMAIN invites
    BY <1>7 DEF ReadStaff, At, InFlight, Works
  <2>2. /\ ProgressTypes' /\ OnlyMoves(r) /\ UNCHANGED business
        /\ at'[r] = "done" \/ (at'[r] = "accept" /\ ask'[r] = ask[r])
    <3>1. CASE Goto(r, "accept")
      BY <1>7, <2>1, <3>1, GotoTypes DEF ReadStaff, Steps
    <3>2. CASE End(r)
      <4>1. Read(r) /\ UNCHANGED business
        BY <1>7 DEF ReadStaff
      <4>2. ProgressTypes' /\ OnlyMoves(r) /\ at'[r] = "done"
        BY <3>2, <4>1, EndTypes
      <4>3. QED
        BY <4>1, <4>2
    <3>3. QED
      BY <1>7, <3>1, <3>2 DEF ReadStaff
  <2>3. QED
    BY <1>1, <2>1, <2>2, OthersWork DEF Works, At, business
<1>8. ASSUME NEW r \in Request, AcceptInvite(r)
      PROVE  Types' /\ RowsStay
  <2> DEFINE i == ask[r].invite  u == ask[r].user
             invite == [invites[i] EXCEPT !.acceptedBy = u]
             row == [staff[invites[i].staff] EXCEPT !.user = u]
  <2>1. i \in 1..Len(invites) /\ u \in User
    <3>1. i \in DOMAIN invites
      BY <1>8 DEF AcceptInvite, At, Works
    <3>2. u \in User
      BY <1>8, AskedUser DEF AcceptInvite, At, InFlight
    <3>3. QED
      BY <3>1, <3>2, LenProperties DEF RowTypes
  <2>2. invites[i] \in InviteRow
    BY <2>1, ElementOfSeq DEF RowTypes
  <2>3. /\ invite \in InviteRow /\ invites[i].role \in BusinessRole
        /\ invites[i].staff \in Staff
    BY <2>1, <2>2 DEF InviteRow
  <2>4. row \in StaffRow
    BY <2>1, <2>3, ZenonT(40) DEF RowTypes, StaffRow
  <2>5. /\ invites' = [invites EXCEPT ![i] = invite]
        /\ staff' = [staff EXCEPT ![invites[i].staff] = row]
        /\ member' = [member EXCEPT ![u] = invites[i].role]
    BY <1>8 DEF AcceptInvite
  <2>6. invites' \in Seq(InviteRow) /\ DOMAIN invites' = DOMAIN invites
    BY <2>1, <2>3, <2>5, ExceptSeq DEF RowTypes
  <2>7. /\ staff' \in [Staff -> StaffRow]
        /\ member' \in [User -> BusinessRole \cup {NONE}]
    BY <2>1, <2>3, <2>4, <2>5 DEF RowTypes
  <2>8. Rows
    BY <2>6, <2>7 DEF RowTypes, RowsStay, accounts
  <2>9. ProgressTypes' /\ OnlyMoves(r) /\ at'[r] = "done"
    BY <1>8, EndTypes DEF AcceptInvite
  <2>10. QED
    BY <2>8, <2>9, OthersWork DEF Works, At
<1>9. ASSUME NEW r \in Request, AcceptRolledBack(r)
      PROVE  Types' /\ RowsStay
  <2>1. ProgressTypes' /\ OnlyMoves(r) /\ at'[r] = "done" /\ UNCHANGED business
    BY <1>9, EndTypes DEF AcceptRolledBack
  <2>2. QED
    BY <1>1, <2>1, OthersWork DEF Works, At
<1>10. ASSUME NEW r \in Request, WriteProfile(r)
       PROVE  Types' /\ RowsStay
  <2> DEFINE row == [staff[ask[r].staff] EXCEPT !.name = r]
  <2>1. ask[r].staff \in Staff /\ r \in SessionId
    BY <1>10 DEF WriteProfile, At, Works, Request, SessionId
  <2>2. row \in StaffRow /\ staff' = [staff EXCEPT ![ask[r].staff] = row]
    BY <1>10, <2>1 DEF WriteProfile, RowTypes, StaffRow
  <2>3. Rows
    BY <1>10, <2>1, <2>2 DEF WriteProfile, RowTypes, RowsStay, accounts
  <2>4. ProgressTypes' /\ OnlyMoves(r) /\ at'[r] = "done"
    BY <1>10, EndTypes DEF WriteProfile
  <2>5. QED
    BY <2>3, <2>4, OthersWork DEF Works, At
<1>11. QED
  BY <1>2, <1>3, <1>4, <1>5, <1>6, <1>7, <1>8, <1>9, <1>10
     DEF InvitesNext, StaffInvitesController, StaffController

LEMMA InitTypes == Init => Types
<1> SUFFICES ASSUME Init PROVE Types
  OBVIOUS
<1> USE StaffInvitesAssumption, AccountsAssumption
    DEF StaffInvitesAssumption, AccountsAssumption
<1>1. RowTypes
  BY EmptySeq DEF Init, AccountsInit, RowTypes, SessionRow, SessionId, StaffRow
<1>2. ProgressTypes /\ \A r \in Request : Works(r)
  BY DEF Init, AccountsInit, ProgressTypes, Works, At, InFlight
<1>3. QED
  BY <1>1, <1>2 DEF Types

LEMMA NextTypes == Types /\ [Next]_vars => Types'
<1> SUFFICES ASSUME Types, [Next]_vars PROVE Types'
  OBVIOUS
<1>1. CASE AccountsNext /\ UNCHANGED <<codes, misses, business, faults>>
  BY <1>1, AccountsTypes
<1>2. CASE CodesNext /\ UNCHANGED <<business, faults>>
  BY <1>2, CodesTypes
<1>3. CASE /\ InvitesNext
           /\ UNCHANGED <<now, accounts, codes, misses, behind, spared, faults>>
  BY <1>3, InvitesTypes
<1>4. ASSUME NEW r \in Request, Fail(r),
             UNCHANGED <<now, accounts, codes, misses, business, behind, spared>>
      PROVE  Types'
  <2>1. RowTypes' /\ RowsStay
    BY <1>4, StaffInvitesAssumption
       DEF Fail, Types, RowTypes, RowsStay, accounts, business, StaffInvitesAssumption
  <2>2. ProgressTypes' /\ OnlyMoves(r) /\ at'[r] = "done"
    BY <1>4, EndTypes DEF Fail, Types
  <2>3. QED
    BY <2>1, <2>2, OthersWork DEF Types, Works, At
<1>5. CASE UNCHANGED vars
  BY <1>5 DEF vars, Types, RowTypes, ProgressTypes, Works, At, InFlight, accounts,
              business, progress, history
<1>6. QED
  BY <1>1, <1>2, <1>3, <1>4, <1>5 DEF Next, Finished

\* Every reachable state is typed.
THEOREM TypeCorrect == Spec => []TypeOK
<1>1. QED
  BY InitTypes, NextTypes, TypesImplyTypeOK, PTL DEF Spec

-----------------------------------------------------------------------------
(* What a request found stays as it is until another one writes.           *)

rows == <<users, session, codes, misses, staff, member, invites>>

\* A step of r: it begins, goes on or ends, and is on the record of the others
\* if it writes.
StepOf(r) ==
  /\ OnlyMoves(r)
  /\ \/ at'[r] = "done" /\ ask'[r] = NONE
     \/ InFlight(r) /\ ask'[r] = ask[r] /\ found'[r] = found[r]
     \/ at[r] = "idle" /\ ask'[r] \in Asked[r]
  /\ \A q \in Request \ {r} : overtaken'[q] = {} /\ InFlight(q) =>
       overtaken[q] = {} /\ UNCHANGED rows

\* What r is about to spend is not spent.
Unspent(r) ==
  /\ At(r, "revoke") => ~session[found[r]].revoked
  /\ At(r, "consume") => ~codes[found[r]].used
  /\ At(r, "staff") \/ At(r, "accept") => invites[ask[r].invite].acceptedBy = NONE
  /\ At(r, "accept") => staff[invites[ask[r].invite].staff].user \in {NONE, ask[r].user}
  /\ At(r, "invite") =>
       \A i \in DOMAIN invites : invites[i].staff = ask[r].staff => ~Active(i)
  /\ At(r, "profile") => MayRename(ask[r].user, ask[r].staff)

SpentInv == \A r \in Request : overtaken[r] = {} => Unspent(r)

\* The steps after which a request is about to spend something.
Critical == {"revoke", "consume", "staff", "accept", "invite", "profile"}

LEMMA NotCritical ==
  ASSUME NEW r \in Request, at[r] \notin Critical
  PROVE  Unspent(r)
BY DEF Unspent, At, Critical

\* A step by r, which leaves the clock alone, takes nothing from the others.
LEMMA OthersUnspentBut ==
  ASSUME Types, SpentInv, NEW r \in Request, StepOf(r), UNCHANGED now
  PROVE  \A q \in Request \ {r} : overtaken'[q] = {} => Unspent(q)'
<1> SUFFICES ASSUME NEW q \in Request \ {r}, overtaken'[q] = {}
             PROVE  Unspent(q)'
  OBVIOUS
<1>1. CASE InFlight(q)
  <2>1. overtaken[q] = {} /\ UNCHANGED rows
    BY <1>1 DEF StepOf
  <2>2. at'[q] = at[q] /\ ask'[q] = ask[q] /\ found'[q] = found[q] /\ Unspent(q)
    BY <2>1 DEF StepOf, OnlyMoves, SpentInv
  <2>3. QED
    BY <2>1, <2>2 DEF Unspent, At, Active, MayRename, rows
<1>2. CASE ~InFlight(q)
  BY <1>2 DEF StepOf, OnlyMoves, Unspent, At, InFlight
<1>3. QED
  BY <1>1, <1>2

LEMMA OthersUnspent ==
  ASSUME Types, SpentInv, NEW r \in Request, StepOf(r), UNCHANGED now,
         Unspent(r)'
  PROVE  SpentInv'
BY OthersUnspentBut DEF SpentInv

\* Both kinds of steps keep the record.
LEMMA RecordKept ==
  ASSUME ProgressTypes, NEW r \in Request, OnlyMoves(r), ProgressTypes',
         Wrote(r) \/ (Read(r) /\ UNCHANGED rows)
  PROVE  \A q \in Request \ {r} : overtaken'[q] = {} /\ InFlight(q) =>
           overtaken[q] = {} /\ UNCHANGED rows
<1> SUFFICES ASSUME NEW q \in Request \ {r}, overtaken'[q] = {}, InFlight(q)
             PROVE  overtaken[q] = {} /\ UNCHANGED rows
  OBVIOUS
<1>1. InFlight(q)'
  BY DEF OnlyMoves, InFlight
<1>2. ~Wrote(r)
  BY <1>1 DEF Wrote
<1>3. QED
  BY <1>1, <1>2 DEF Read

LEMMA BeginSteps ==
  ASSUME Types, NEW r \in Request, NEW a, NEW first \in Steps, NEW row,
         Begin(r, a, first, row), Wrote(r) \/ (Read(r) /\ UNCHANGED rows)
  PROVE  StepOf(r) /\ at'[r] = first /\ ask'[r] = a /\ found'[r] = row
BY BeginTypes, RecordKept DEF Types, StepOf

LEMMA GotoSteps ==
  ASSUME Types, NEW r \in Request, NEW step \in Steps, InFlight(r),
         Goto(r, step), Wrote(r) \/ (Read(r) /\ UNCHANGED rows)
  PROVE  StepOf(r) /\ at'[r] = step /\ ask'[r] = ask[r] /\ found'[r] = found[r]
BY GotoTypes, RecordKept DEF Types, StepOf

LEMMA EndSteps ==
  ASSUME Types, NEW r \in Request, End(r), Wrote(r) \/ (Read(r) /\ UNCHANGED rows)
  PROVE  StepOf(r) /\ Unspent(r)'
<1>1. ProgressTypes' /\ OnlyMoves(r) /\ at'[r] = "done" /\ ask'[r] = NONE
  BY EndTypes DEF Types
<1>2. StepOf(r)
  BY <1>1, RecordKept DEF Types, StepOf
<1>3. QED
  BY <1>1, <1>2 DEF Unspent, At

LEMMA AccountsSpend ==
  ASSUME Types, SpentInv, AccountsNext, UNCHANGED <<codes, misses, business, faults>>
  PROVE  SpentInv'
<1> USE DEF accounts, business, rows, Critical
<1>1. ASSUME NEW r \in Request, NEW a \in Asked[r], BeginRegister(r, a)
      PROVE  SpentInv'
  <2>1. StepOf(r) /\ at'[r] = "create" /\ now' = now
    BY <1>1, BeginSteps DEF BeginRegister, Steps
  <2>2. QED
    BY <2>1, OthersUnspent DEF Unspent, At
<1>2. ASSUME NEW r \in Request, NEW a \in Asked[r], BeginLogin(r, a)
      PROVE  SpentInv'
  <2>1. StepOf(r) /\ at'[r] = "issue" /\ now' = now
    BY <1>2, BeginSteps DEF BeginLogin, Steps
  <2>2. QED
    BY <2>1, OthersUnspent DEF Unspent, At
<1>3. ASSUME NEW r \in Request, NEW a \in Asked[r], BeginRefresh(r, a)
      PROVE  SpentInv'
  <2>1. PICK s \in SessionId : LiveSession(s) /\ Begin(r, a, "revoke", s)
    BY <1>3 DEF BeginRefresh
  <2>2. /\ StepOf(r) /\ now' = now /\ session' = session
        /\ at'[r] = "revoke" /\ found'[r] = s
    BY <1>3, <2>1, BeginSteps DEF BeginRefresh, Steps
  <2>3. Unspent(r)'
    BY <2>1, <2>2 DEF Unspent, At, LiveSession
  <2>4. QED
    BY <2>2, <2>3, OthersUnspent
<1>4. ASSUME NEW r \in Request, NEW a \in Asked[r], LogoutAll(r, a)
      PROVE  SpentInv'
  <2>1. StepOf(r) /\ at'[r] = "answered" /\ now' = now
    BY <1>4, BeginSteps DEF LogoutAll, Steps
  <2>2. QED
    BY <2>1, OthersUnspent DEF Unspent, At
<1>5. ASSUME NEW r \in Request, CreateUser(r)
      PROVE  SpentInv'
  <2>1. CASE End(r) /\ Read(r) /\ UNCHANGED users
    BY <1>5, <2>1, EndSteps, OthersUnspent DEF CreateUser
  <2>2. CASE Goto(r, "issue") /\ Wrote(r)
    <3>1. StepOf(r) /\ at'[r] = "issue" /\ now' = now
      BY <1>5, <2>2, GotoSteps DEF CreateUser, Steps, At, InFlight
    <3>2. QED
      BY <3>1, OthersUnspent DEF Unspent, At
  <2>3. QED
    BY <1>5, <2>1, <2>2 DEF CreateUser
<1>6. ASSUME NEW r \in Request, IssueTokens(r)
      PROVE  SpentInv'
  <2>1. /\ OnlyMoves(r) /\ InFlight(r) /\ now' = now
        /\ ask'[r] = ask[r] /\ found'[r] = found[r] /\ at'[r] = "store"
    BY <1>6 DEF IssueTokens, OnlyMoves, At, InFlight, Types, ProgressTypes
  <2>2. ProgressTypes'
    BY <1>6, OvertakenTypes
       DEF IssueTokens, Types, ProgressTypes, RowTypes, At, InFlight, Steps
  <2>3. StepOf(r)
    BY <1>6, <2>1, <2>2, RecordKept DEF IssueTokens, StepOf, Types
  <2>4. QED
    BY <2>1, <2>3, OthersUnspent DEF Unspent, At
<1>7. ASSUME NEW r \in Request, StoreRefreshSession(r)
      PROVE  SpentInv'
  BY <1>7, EndSteps, OthersUnspent DEF StoreRefreshSession
<1>8. ASSUME NEW r \in Request, RevokeOld(r)
      PROVE  SpentInv'
  <2>1. StepOf(r) /\ at'[r] = "issue" /\ now' = now
    BY <1>8, GotoSteps DEF RevokeOld, Steps, At, InFlight
  <2>2. QED
    BY <2>1, OthersUnspent DEF Unspent, At
<1>9. ASSUME NEW r \in Request, Answer(r)
      PROVE  SpentInv'
  BY <1>9, EndSteps, OthersUnspent DEF Answer
<1>10. ASSUME Tick
       PROVE  SpentInv'
  <2>1. /\ now' = now + 1 /\ now \in Nat
        /\ UNCHANGED <<session, staff, member, invites, codes, at, ask, found, overtaken>>
    BY <1>10, AccountsAssumption
       DEF Tick, progress, history, Types, RowTypes, AccountsAssumption
  <2>2. \A i \in DOMAIN invites : invites[i].expires \in Nat
    <3>1. \A i \in DOMAIN invites : invites[i] \in InviteRow
      BY ElementOfSeq, LenProperties DEF Types, RowTypes
    <3>2. QED
      BY <3>1 DEF InviteRow
  <2>3. \A i \in DOMAIN invites : Active(i)' => Active(i)
    BY <2>1, <2>2 DEF Active
  <2>4. QED
    BY <2>1, <2>3 DEF SpentInv, Unspent, At, MayRename
<1>11. QED
  BY <1>1, <1>2, <1>3, <1>4, <1>5, <1>6, <1>7, <1>8, <1>9, <1>10
     DEF AccountsNext, AuthController

LEMMA CodesSpend ==
  ASSUME Types, SpentInv, CodesNext, UNCHANGED <<business, faults>>
  PROVE  SpentInv'
<1> USE DEF accounts, business, rows, Critical
<1>1. ASSUME NEW r \in Request, NEW a \in Asked[r], BeginCode(r, a)
      PROVE  SpentInv'
  <2>1. StepOf(r) /\ at'[r] = "code" /\ now' = now
    BY <1>1, BeginSteps DEF BeginCode, Steps
  <2>2. QED
    BY <2>1, OthersUnspent DEF Unspent, At
<1>2. ASSUME NEW r \in Request, NEW a \in Asked[r], BeginVerify(r, a)
      PROVE  SpentInv'
  <2>1. PICK c \in DOMAIN codes, first \in {"tooMany", "miss", "consume"} :
          Pending(c, a.user) /\ Begin(r, a, first, c)
    BY <1>2 DEF BeginVerify
  <2>2. /\ StepOf(r) /\ now' = now /\ codes' = codes
        /\ at'[r] = first /\ found'[r] = c
    BY <1>2, <2>1, BeginSteps DEF BeginVerify, Steps
  <2>3. Unspent(r)'
    BY <2>1, <2>2 DEF Unspent, At, Pending
  <2>4. QED
    BY <2>2, <2>3, OthersUnspent
<1>3. ASSUME NEW r \in Request, CreateCode(r) \/ TooMany(r) \/ Miss(r)
      PROVE  SpentInv'
  BY <1>3, EndSteps, OthersUnspent DEF CreateCode, TooMany, Miss
<1>4. ASSUME NEW r \in Request, Consume(r)
      PROVE  SpentInv'
  <2>1. StepOf(r) /\ at'[r] = "find" /\ now' = now
    BY <1>4, GotoSteps DEF Consume, Steps, At, InFlight
  <2>2. QED
    BY <2>1, OthersUnspent DEF Unspent, At
<1>5. ASSUME NEW r \in Request, FindUser(r)
      PROVE  SpentInv'
  <2>1. StepOf(r) /\ at'[r] \in {"issue", "create"} /\ now' = now
    BY <1>5, GotoSteps DEF FindUser, Steps, At, InFlight
  <2>2. QED
    BY <2>1, OthersUnspent DEF Unspent, At
<1>6. QED
  BY <1>1, <1>2, <1>3, <1>4, <1>5 DEF CodesNext, MagicAuthController

LEMMA InvitesSpend ==
  ASSUME Types, SpentInv, InvitesNext,
         UNCHANGED <<now, accounts, codes, misses, behind, spared, faults>>
  PROVE  SpentInv'
<1> USE DEF accounts, business, rows
<1>1. ASSUME NEW r \in Request, NEW a \in Asked[r], BeginInvite(r, a)
      PROVE  SpentInv'
  <2>1. Begin(r, a, "active", NONE) /\ Read(r) /\ UNCHANGED rows
    BY <1>1 DEF BeginInvite
  <2>2. StepOf(r) /\ at'[r] = "active"
    BY <2>1, BeginSteps DEF Steps
  <2>3. QED
    BY <2>2, OthersUnspent DEF Unspent, At
<1>2. ASSUME NEW r \in Request, NEW a \in Asked[r], BeginAccept(r, a)
      PROVE  SpentInv'
  <2>1. /\ StepOf(r) /\ at'[r] = "staff" /\ ask'[r] = a
        /\ Active(a.invite) /\ invites' = invites
    BY <1>2, BeginSteps DEF BeginAccept, Steps
  <2>2. Unspent(r)'
    BY <2>1 DEF Unspent, At, Active
  <2>3. QED
    BY <2>1, <2>2, OthersUnspent
<1>3. ASSUME NEW r \in Request, NEW a \in Asked[r], BeginProfile(r, a)
      PROVE  SpentInv'
  <2>1. /\ StepOf(r) /\ at'[r] = "profile" /\ ask'[r] = a
        /\ MayRename(a.user, a.staff) /\ UNCHANGED <<staff, member>>
    BY <1>3, BeginSteps DEF BeginProfile, Steps
  <2>2. Unspent(r)'
    BY <2>1 DEF Unspent, At, MayRename
  <2>3. QED
    BY <2>1, <2>2, OthersUnspent
<1>4. ASSUME NEW r \in Request, FindActive(r)
      PROVE  SpentInv'
  <2>1. Read(r) /\ UNCHANGED rows
    BY <1>4 DEF FindActive
  <2>2. CASE End(r)
    BY <2>1, <2>2, EndSteps, OthersUnspent
  <2>3. CASE /\ Goto(r, "invite")
             /\ \A i \in DOMAIN invites : invites[i].staff = ask[r].staff => ~Active(i)
    <3>1. /\ StepOf(r) /\ at'[r] = "invite" /\ ask'[r] = ask[r]
      BY <1>4, <2>1, <2>3, GotoSteps DEF FindActive, Steps, At, InFlight
    <3>2. Unspent(r)'
      BY <2>1, <2>3, <3>1 DEF Unspent, At, Active
    <3>3. QED
      BY <3>1, <3>2, OthersUnspent
  <2>4. QED
    BY <1>4, <2>2, <2>3 DEF FindActive
<1>5. ASSUME NEW r \in Request, ReadStaff(r)
      PROVE  SpentInv'
  <2>1. Read(r) /\ UNCHANGED rows
    BY <1>5 DEF ReadStaff
  <2>2. CASE End(r)
    BY <2>1, <2>2, EndSteps, OthersUnspent
  <2>3. CASE /\ Goto(r, "accept")
             /\ staff[invites[ask[r].invite].staff].user \in {NONE, ask[r].user}
    <3>1. StepOf(r) /\ at'[r] = "accept" /\ ask'[r] = ask[r]
      BY <1>5, <2>1, <2>3, GotoSteps DEF ReadStaff, Steps, At, InFlight
    <3>2. SUFFICES ASSUME overtaken'[r] = {} PROVE Unspent(r)'
      <4>1. \A q \in Request \ {r} : overtaken'[q] = {} => Unspent(q)'
        BY <3>1, OthersUnspentBut
      <4>2. QED
        BY <3>2, <4>1 DEF SpentInv
    <3>3. overtaken[r] = {}
      BY <2>1, <3>1, <3>2 DEF Read, InFlight, StepOf
    <3>4. invites[ask[r].invite].acceptedBy = NONE
      BY <1>5, <3>3 DEF ReadStaff, SpentInv, Unspent
    <3>5. QED
      BY <2>1, <2>3, <3>1, <3>4 DEF Unspent, At
  <2>4. QED
    BY <1>5, <2>2, <2>3 DEF ReadStaff
<1>6. ASSUME NEW r \in Request,
             \/ CreateInvite(r) \/ AcceptInvite(r) \/ AcceptRolledBack(r)
             \/ WriteProfile(r)
      PROVE  SpentInv'
  BY <1>6, EndSteps, OthersUnspent
     DEF CreateInvite, AcceptInvite, AcceptRolledBack, WriteProfile
<1>7. QED
  BY <1>1, <1>2, <1>3, <1>4, <1>5, <1>6
     DEF InvitesNext, StaffInvitesController, StaffController

\* Whatever is spent is spent by one request unless another one wrote meanwhile.
THEOREM SpentOnlyOnce == Spec => SpentOnlyInARace
<1> DEFINE Inv == Types /\ SpentInv
<1>1. Init => Inv
  <2> SUFFICES ASSUME Init PROVE SpentInv
    BY InitTypes
  <2>1. QED
    BY DEF Init, AccountsInit, SpentInv, Unspent, At
<1>2. Inv /\ [Next]_vars => Inv'
  <2> SUFFICES ASSUME Types, SpentInv, [Next]_vars PROVE SpentInv'
    BY NextTypes
  <2>1. CASE AccountsNext /\ UNCHANGED <<codes, misses, business, faults>>
    BY <2>1, AccountsSpend
  <2>2. CASE CodesNext /\ UNCHANGED <<business, faults>>
    BY <2>2, CodesSpend
  <2>3. CASE /\ InvitesNext
             /\ UNCHANGED <<now, accounts, codes, misses, behind, spared, faults>>
    BY <2>3, InvitesSpend
  <2>4. ASSUME NEW r \in Request, Fail(r),
               UNCHANGED <<now, accounts, codes, misses, business, behind, spared>>
        PROVE  SpentInv'
    BY <2>4, EndSteps, OthersUnspent DEF Fail, rows, accounts, business
  <2>5. CASE UNCHANGED vars
    BY <2>5 DEF vars, SpentInv, Unspent, At, Active, MayRename, accounts, business,
                progress, history
  <2>6. QED
    BY <2>1, <2>2, <2>3, <2>4, <2>5 DEF Next, Finished
<1>3. ASSUME Inv, Next, NEW r \in Request, overtaken[r] = {}
      PROVE  /\ At(r, "revoke") /\ At(r, "issue")' => ~session[found[r]].revoked
             /\ At(r, "consume") /\ At(r, "find")' => ~codes[found[r]].used
             /\ At(r, "accept") /\ invites' # invites =>
                  /\ invites[ask[r].invite].acceptedBy = NONE
                  /\ staff[invites[ask[r].invite].staff].user \in {NONE, ask[r].user}
             /\ At(r, "invite") /\ invites' # invites =>
                  \A i \in DOMAIN invites :
                    invites[i].staff = ask[r].staff => ~Active(i)
             /\ At(r, "profile") /\ staff' # staff =>
                  MayRename(ask[r].user, ask[r].staff)
  BY <1>3 DEF SpentInv, Unspent
<1>4. Inv /\ [Next]_vars =>
        [\A r \in Request : overtaken[r] = {} =>
           /\ At(r, "revoke") /\ At(r, "issue")' => ~session[found[r]].revoked
           /\ At(r, "consume") /\ At(r, "find")' => ~codes[found[r]].used
           /\ At(r, "accept") /\ invites' # invites =>
                /\ invites[ask[r].invite].acceptedBy = NONE
                /\ staff[invites[ask[r].invite].staff].user \in {NONE, ask[r].user}
           /\ At(r, "invite") /\ invites' # invites =>
                \A i \in DOMAIN invites :
                  invites[i].staff = ask[r].staff => ~Active(i)
           /\ At(r, "profile") /\ staff' # staff =>
                MayRename(ask[r].user, ask[r].staff)]_vars
  BY <1>3
<1>5. QED
  BY <1>1, <1>2, <1>4, PTL DEF Spec, SpentOnlyInARace

-----------------------------------------------------------------------------
(* Logout.                                                                 *)

\* A refresh in flight at a logout of all sessions is spared, and so is what
\* it stores; everything else from before the logout is revoked.
LogoutInv ==
  /\ \A r \in Request : at[r] # "done" => session[r] = NONE
  /\ \A s \in behind : /\ s \in SessionId /\ session[s] # NONE
                       /\ session[s].revoked \/ s \in spared
  /\ \A r \in Request : InFlight(r) /\ ask[r].op = "refresh" =>
       /\ found[r] \in SessionId
       /\ session[found[r]] # NONE
       /\ session[found[r]].user = ask[r].user
       /\ found[r] \in behind => found[r] \in spared \/ r \in spared

\* Steps that leave sessions and history alone, and do not begin a refresh.
LEMMA OtherStepsLogout ==
  ASSUME Types, LogoutInv, NEW r \in Request, OnlyMoves(r),
         UNCHANGED <<session, behind, spared>>,
         \/ at'[r] = "done"
         \/ InFlight(r) /\ ask'[r] = ask[r] /\ found'[r] = found[r]
         \/ at[r] = "idle" /\ ask'[r].op # "refresh"
  PROVE  LogoutInv'
BY DEF LogoutInv, OnlyMoves, InFlight

LEMMA BeginsRefresh ==
  ASSUME Types, LogoutInv, NEW r \in Request, NEW a \in Asked[r], BeginRefresh(r, a)
  PROVE  LogoutInv'
<1>1. PICK s \in SessionId :
        LiveSession(s) /\ HasToken(s, a) /\ Begin(r, a, "revoke", s)
  BY DEF BeginRefresh
<1>2. UNCHANGED <<session, behind, spared>>
  BY DEF BeginRefresh, accounts
<1>3. /\ OnlyMoves(r) /\ at[r] = "idle" /\ at'[r] = "revoke"
      /\ ask'[r] = a /\ found'[r] = s
  BY <1>1, BeginTypes DEF BeginRefresh, Types, Steps
<1>4. session[s] # NONE /\ session[s].user = a.user /\ ~session[s].revoked
  BY <1>1 DEF LiveSession, Unexpired, HasToken
<1>5. s \in behind => s \in spared
  BY <1>4 DEF LogoutInv
<1>6. QED
  BY <1>2, <1>3, <1>4, <1>5 DEF LogoutInv, OnlyMoves, InFlight

LEMMA RevokesOld ==
  ASSUME Types, LogoutInv, NEW r \in Request, RevokeOld(r)
  PROVE  LogoutInv'
<1>1. /\ InFlight(r) /\ at[r] = "revoke" /\ UNCHANGED <<behind, spared>>
      /\ found[r] \in SessionId /\ session[found[r]] \in SessionRow
  BY DEF RevokeOld, At, InFlight, Types, Works, RowTypes
<1>2. OnlyMoves(r) /\ at'[r] = "issue" /\ ask'[r] = ask[r] /\ found'[r] = found[r]
  BY <1>1, GotoTypes DEF RevokeOld, Types, Steps
<1> DEFINE row == [session[found[r]] EXCEPT !.revoked = TRUE]
<1>3. /\ session' = [session EXCEPT ![found[r]] = row]
      /\ row.revoked /\ row.user = session[found[r]].user /\ row # NONE
  BY <1>1, StaffInvitesAssumption
     DEF RevokeOld, SessionRow, StaffInvitesAssumption
<1>4. \A s \in SessionId : session'[s] = IF s = found[r] THEN row ELSE session[s]
  BY <1>3 DEF Types, RowTypes
<1> HIDE DEF row
<1>5. \A q \in Request : at'[q] # "done" => session'[q] = NONE
  <2>1. \A q \in Request : q \in SessionId
    BY DEF Request, SessionId
  <2>2. \A q \in Request : at'[q] # "done" => at[q] # "done"
    BY <1>1, <1>2 DEF OnlyMoves
  <2>3. QED
    BY <1>1, <1>4, <2>1, <2>2, StaffInvitesAssumption
       DEF LogoutInv, StaffInvitesAssumption
<1>6. \A s \in behind' : /\ s \in SessionId /\ session'[s] # NONE
                         /\ session'[s].revoked \/ s \in spared'
  BY <1>1, <1>3, <1>4 DEF LogoutInv
<1>7. \A q \in Request : InFlight(q)' /\ ask'[q].op = "refresh" =>
        /\ InFlight(q) /\ ask[q].op = "refresh" /\ found'[q] = found[q]
        /\ ask'[q] = ask[q]
  BY <1>1, <1>2 DEF OnlyMoves, InFlight
<1>8. QED
  BY <1>1, <1>3, <1>4, <1>5, <1>6, <1>7 DEF LogoutInv

LEMMA LogsOutAll ==
  ASSUME Types, LogoutInv, NEW r \in Request, NEW a \in Asked[r], LogoutAll(r, a)
  PROVE  LogoutInv'
<1> DEFINE Mine == SessionsOf(a.user)
           revoked(s) == [session[s] EXCEPT !.revoked = TRUE]
<1>1. /\ OnlyMoves(r) /\ at[r] = "idle" /\ at'[r] = "answered"
      /\ ask'[r] = a /\ a.op = "logoutAll"
  BY BeginTypes DEF LogoutAll, Types, Steps
<1>2. \A s \in SessionId : session'[s] = IF s \in Mine THEN revoked(s) ELSE session[s]
  BY DEF LogoutAll
<1>3. \A s \in Mine : /\ s \in SessionId /\ session[s].user = a.user
                      /\ session[s] \in SessionRow
                      /\ revoked(s).revoked /\ revoked(s) # NONE
                      /\ revoked(s).user = a.user
  BY StaffInvitesAssumption, ZenonT(40)
     DEF SessionsOf, Types, RowTypes, SessionRow, StaffInvitesAssumption
<1>4. /\ behind' = behind \cup Mine
      /\ spared' = spared \cup {q \in Request : /\ InFlight(q) /\ ask[q].op = "refresh"
                                                /\ ask[q].user = a.user}
  BY DEF LogoutAll
<1>5. \A s \in SessionId : session[s] = NONE => s \notin Mine
  BY DEF SessionsOf
<1> HIDE DEF Mine, revoked
<1>6. \A q \in Request : at'[q] # "done" => session'[q] = NONE
  <2>1. \A q \in Request : q \in SessionId
    BY DEF Request, SessionId
  <2>2. \A q \in Request : at'[q] # "done" => at[q] # "done"
    BY <1>1 DEF OnlyMoves
  <2>3. QED
    BY <1>2, <1>5, <2>1, <2>2 DEF LogoutInv
<1>7. \A s \in behind' : /\ s \in SessionId /\ session'[s] # NONE
                         /\ session'[s].revoked \/ s \in spared'
  BY <1>2, <1>3, <1>4 DEF LogoutInv
<1>8. ASSUME NEW q \in Request, InFlight(q)', ask'[q].op = "refresh"
      PROVE  /\ found'[q] \in SessionId
             /\ session'[found'[q]] # NONE
             /\ session'[found'[q]].user = ask'[q].user
             /\ found'[q] \in behind' => found'[q] \in spared' \/ q \in spared'
  <2>1. /\ q # r /\ InFlight(q) /\ ask'[q] = ask[q] /\ ask[q].op = "refresh"
        /\ found'[q] = found[q]
    BY <1>1, <1>8 DEF OnlyMoves, InFlight
  <2>2. /\ found[q] \in SessionId /\ session[found[q]] # NONE
        /\ session[found[q]].user = ask[q].user
        /\ found[q] \in behind => found[q] \in spared \/ q \in spared
    BY <2>1 DEF LogoutInv
  <2>3. session'[found[q]] # NONE /\ session'[found[q]].user = ask[q].user
    BY <1>2, <1>3, <2>2
  <2>4. found[q] \in Mine => q \in spared'
    BY <1>3, <1>4, <2>1, <2>2
  <2>5. QED
    BY <1>4, <2>1, <2>2, <2>3, <2>4
<1>9. QED
  BY <1>6, <1>7, <1>8 DEF LogoutInv

LEMMA StoresSession ==
  ASSUME Types, LogoutInv, NEW r \in Request, StoreRefreshSession(r)
  PROVE  LogoutInv'
<1> DEFINE row == [user |-> ask[r].user, iat |-> iat[r], revoked |-> FALSE,
                   expires |-> now + RefreshTtl]
<1>1. /\ at[r] = "store" /\ InFlight(r) /\ r \in SessionId /\ session[r] = NONE
  BY DEF StoreRefreshSession, At, InFlight, LogoutInv, Request, SessionId
<1>2. OnlyMoves(r) /\ at'[r] = "done"
  BY EndTypes DEF StoreRefreshSession, Types
<1>3. row # NONE
  <2>1. ask[r].user \in User /\ iat[r] \in 0..MaxTime /\ now + RefreshTtl \in Nat
    BY <1>1, AskedUser, AccountsAssumption
       DEF Types, ProgressTypes, RowTypes, AccountsAssumption
  <2>2. row \in SessionRow
    BY <2>1 DEF SessionRow
  <2>3. QED
    BY <2>2, StaffInvitesAssumption DEF StaffInvitesAssumption
<1>4. \A s \in SessionId : session'[s] = IF s = r THEN row ELSE session[s]
  BY DEF StoreRefreshSession, Types, RowTypes
<1> HIDE DEF row
<1>5. \A q \in Request : at'[q] # "done" => session'[q] = NONE
  BY <1>2, <1>4 DEF LogoutInv, OnlyMoves, Request, SessionId
<1>6. /\ behind \subseteq behind' /\ behind' \subseteq behind \cup {r}
      /\ spared \subseteq spared'
      /\ r \in behind' => r \in spared'
  <2>1. r \notin behind
    BY <1>1 DEF LogoutInv
  <2>2. ask[r].op = "refresh" /\ found[r] \in behind =>
          found[r] \in spared \/ r \in spared
    BY <1>1 DEF LogoutInv
  <2>3. /\ behind' = IF ask[r].op = "refresh" /\ found[r] \in behind
                       THEN behind \cup {r} ELSE behind
        /\ spared' = IF ask[r].op = "refresh" /\ found[r] \in spared
                       THEN spared \cup {r} ELSE spared
    BY DEF StoreRefreshSession
  <2>4. QED
    BY <2>1, <2>2, <2>3
<1>7. \A s \in behind' : /\ s \in SessionId /\ session'[s] # NONE
                         /\ session'[s].revoked \/ s \in spared'
  BY <1>1, <1>3, <1>4, <1>6 DEF LogoutInv
<1>8. ASSUME NEW q \in Request, InFlight(q)', ask'[q].op = "refresh"
      PROVE  /\ found'[q] \in SessionId
             /\ session'[found'[q]] # NONE
             /\ session'[found'[q]].user = ask'[q].user
             /\ found'[q] \in behind' => found'[q] \in spared' \/ q \in spared'
  <2>1. /\ q # r /\ InFlight(q) /\ ask'[q] = ask[q] /\ ask[q].op = "refresh"
        /\ found'[q] = found[q]
    BY <1>2, <1>8 DEF OnlyMoves, InFlight
  <2>2. /\ found[q] \in SessionId /\ session[found[q]] # NONE
        /\ session[found[q]].user = ask[q].user
        /\ found[q] \in behind => found[q] \in spared \/ q \in spared
    BY <2>1 DEF LogoutInv
  <2>3. found[q] # r
    BY <1>1, <2>2
  <2>4. QED
    BY <1>4, <1>6, <2>1, <2>2, <2>3
<1>9. QED
  BY <1>5, <1>7, <1>8 DEF LogoutInv

\* Logout of all sessions leaves only what comes of refreshes in flight.
THEOREM LogoutRevokes == Spec => []LogoutMissesOnlyRequestsInFlight
<1> DEFINE Inv == Types /\ LogoutInv
<1>1. Init => Inv
  <2> SUFFICES ASSUME Init PROVE LogoutInv
    BY InitTypes
  <2>1. \A r \in Request : r # 0 /\ r \in SessionId
    BY AccountsAssumption DEF Request, SessionId, AccountsAssumption
  <2>2. QED
    BY <2>1 DEF Init, AccountsInit, LogoutInv, InFlight
<1>2. Inv /\ [Next]_vars => Inv'
  <2> SUFFICES ASSUME Types, LogoutInv, [Next]_vars PROVE LogoutInv'
    BY NextTypes
  <2> USE DEF Types, accounts
  <2>1. CASE AccountsNext
    <3>1. ASSUME NEW r \in Request, NEW a \in Asked[r],
                 BeginRegister(r, a) \/ BeginLogin(r, a)
          PROVE  LogoutInv'
      <4>1. PICK first \in {"create", "issue"} : Begin(r, a, first, NONE)
        BY <3>1 DEF BeginRegister, BeginLogin
      <4>2. /\ UNCHANGED <<session, behind, spared>> /\ (Wrote(r) \/ Read(r))
            /\ a.op # "refresh"
        BY <3>1 DEF BeginRegister, BeginLogin
      <4>3. OnlyMoves(r) /\ at[r] = "idle" /\ ask'[r] = a
        BY <4>1, <4>2, BeginTypes DEF Steps
      <4>4. QED
        BY <4>2, <4>3, OtherStepsLogout
    <3>2. ASSUME NEW r \in Request, NEW a \in Asked[r], BeginRefresh(r, a)
          PROVE  LogoutInv'
      BY <3>2, BeginsRefresh
    <3>3. ASSUME NEW r \in Request, NEW a \in Asked[r], LogoutAll(r, a)
          PROVE  LogoutInv'
      BY <3>3, LogsOutAll
    <3>4. ASSUME NEW r \in Request, CreateUser(r)
          PROVE  LogoutInv'
      <4>1. /\ InFlight(r) /\ UNCHANGED <<session, behind, spared>>
            /\ \/ End(r) /\ Read(r)
               \/ Goto(r, "issue") /\ Wrote(r)
        BY <3>4 DEF CreateUser, At, InFlight
      <4>2. QED
        BY <4>1, EndTypes, GotoTypes, OtherStepsLogout DEF Steps
    <3>5. ASSUME NEW r \in Request, IssueTokens(r)
          PROVE  LogoutInv'
      BY <3>5, OtherStepsLogout
         DEF IssueTokens, OnlyMoves, At, InFlight, ProgressTypes
    <3>6. ASSUME NEW r \in Request, StoreRefreshSession(r)
          PROVE  LogoutInv'
      BY <3>6, StoresSession
    <3>7. ASSUME NEW r \in Request, RevokeOld(r)
          PROVE  LogoutInv'
      BY <3>7, RevokesOld
    <3>8. ASSUME NEW r \in Request, Answer(r)
          PROVE  LogoutInv'
      BY <3>8, EndTypes, OtherStepsLogout DEF Answer
    <3>9. CASE Tick
      BY <3>9 DEF Tick, LogoutInv, InFlight, progress, history
    <3>10. QED
      BY <2>1, <3>1, <3>2, <3>3, <3>4, <3>5, <3>6, <3>7, <3>8, <3>9
         DEF AccountsNext, AuthController
  <2>2. CASE CodesNext
    <3>1. ASSUME NEW r \in Request, NEW a \in Asked[r],
                 BeginCode(r, a) \/ BeginVerify(r, a)
          PROVE  LogoutInv'
      <4>1. PICK first, row : first \in Steps /\ Begin(r, a, first, row)
        <5>1. CASE BeginCode(r, a)
          <6>1. Begin(r, a, "code", NONE) /\ "code" \in Steps
            BY <5>1 DEF BeginCode, Steps
          <6>2. QED
            BY <6>1
        <5>2. CASE BeginVerify(r, a)
          <6>1. PICK c \in DOMAIN codes, first \in {"tooMany", "miss", "consume"} :
                  Begin(r, a, first, c)
            BY <5>2 DEF BeginVerify
          <6>2. first \in Steps
            BY DEF Steps
          <6>3. QED
            BY <6>1, <6>2
        <5>3. QED
          BY <3>1, <5>1, <5>2
      <4>2. /\ UNCHANGED <<session, behind, spared>> /\ (Wrote(r) \/ Read(r))
            /\ a.op # "refresh"
        BY <3>1 DEF BeginCode, BeginVerify
      <4>3. OnlyMoves(r) /\ at[r] = "idle" /\ ask'[r] = a
        BY <4>1, <4>2, BeginTypes
      <4>4. QED
        BY <4>2, <4>3, OtherStepsLogout
    <3>2. ASSUME NEW r \in Request, CreateCode(r) \/ TooMany(r) \/ Miss(r)
          PROVE  LogoutInv'
      BY <3>2, EndTypes, OtherStepsLogout DEF CreateCode, TooMany, Miss
    <3>3. ASSUME NEW r \in Request, Consume(r) \/ FindUser(r)
          PROVE  LogoutInv'
      <4>1. PICK step \in Steps : Goto(r, step)
        BY <3>3 DEF Consume, FindUser, Steps
      <4>2. /\ InFlight(r) /\ UNCHANGED <<session, behind, spared>>
            /\ Wrote(r) \/ Read(r)
        BY <3>3 DEF Consume, FindUser, At, InFlight
      <4>3. QED
        BY <4>1, <4>2, GotoTypes, OtherStepsLogout
    <3>4. QED
      BY <2>2, <3>1, <3>2, <3>3 DEF CodesNext, MagicAuthController
  <2>3. CASE InvitesNext /\ UNCHANGED <<accounts, behind, spared>>
    <3>1. ASSUME NEW r \in Request, NEW a \in Asked[r],
                 BeginInvite(r, a) \/ BeginAccept(r, a) \/ BeginProfile(r, a)
          PROVE  LogoutInv'
      <4>1. PICK first \in {"active", "staff", "profile"} : Begin(r, a, first, NONE)
        BY <3>1 DEF BeginInvite, BeginAccept, BeginProfile
      <4>2. (Wrote(r) \/ Read(r)) /\ a.op # "refresh"
        BY <3>1 DEF BeginInvite, BeginAccept, BeginProfile
      <4>3. OnlyMoves(r) /\ at[r] = "idle" /\ ask'[r] = a
        BY <4>1, <4>2, BeginTypes DEF Steps
      <4>4. QED
        BY <2>3, <4>2, <4>3, OtherStepsLogout
    <3>2. ASSUME NEW r \in Request, FindActive(r) \/ ReadStaff(r)
          PROVE  LogoutInv'
      <4>1. InFlight(r) /\ Read(r)
        BY <3>2 DEF FindActive, ReadStaff, At, InFlight
      <4>2. End(r) \/ \E step \in Steps : Goto(r, step)
        BY <3>2 DEF FindActive, ReadStaff, Steps
      <4>3. QED
        BY <2>3, <4>1, <4>2, EndTypes, GotoTypes, OtherStepsLogout
    <3>3. ASSUME NEW r \in Request,
                 \/ CreateInvite(r) \/ AcceptInvite(r) \/ AcceptRolledBack(r)
                 \/ WriteProfile(r)
          PROVE  LogoutInv'
      <4>1. End(r) /\ (Wrote(r) \/ Read(r))
        BY <3>3 DEF CreateInvite, AcceptInvite, AcceptRolledBack, WriteProfile
      <4>2. QED
        BY <2>3, <4>1, EndTypes, OtherStepsLogout
    <3>4. QED
      BY <2>3, <3>1, <3>2, <3>3 DEF InvitesNext, StaffInvitesController, StaffController
  <2>4. ASSUME NEW r \in Request, Fail(r), UNCHANGED <<accounts, behind, spared>>
        PROVE  LogoutInv'
    BY <2>4, EndTypes, OtherStepsLogout DEF Fail
  <2>5. CASE UNCHANGED vars
    BY <2>5 DEF vars, LogoutInv, InFlight, progress, history
  <2>6. QED
    BY <2>1, <2>2, <2>3, <2>4, <2>5 DEF Next, Finished
<1>3. Inv => LogoutMissesOnlyRequestsInFlight
  BY DEF LogoutInv, LogoutMissesOnlyRequestsInFlight, LiveSession
<1>4. QED
  BY <1>1, <1>2, <1>3, PTL DEF Spec

-----------------------------------------------------------------------------
(* Wrong codes.                                                            *)

\* The requests about to count a wrong answer to c.
Missing(c) == {r \in Request : At(r, "miss") /\ found[r] = c}

MissesInv ==
  \A c \in DOMAIN codes :
    /\ codes[c].attempts = misses[c]
    /\ codes[c].attempts + Cardinality(Missing(c)) <= MaxAttempts + MaxOpen - 1

LEMMA FiniteRequests ==
  ASSUME NEW S \in SUBSET Request
  PROVE  IsFiniteSet(S) /\ Cardinality(S) \in Nat
<1>1. IsFiniteSet(Request)
  BY FS_Interval, AccountsAssumption DEF Request, AccountsAssumption
<1>2. QED
  BY <1>1, FS_Subset, FS_CardinalityType

\* What is in the domains of both sequences.
LEMMA CodeTypes ==
  ASSUME RowTypes, NEW c \in DOMAIN codes
  PROVE  /\ c \in 1..Len(codes) /\ c \in 1..Len(misses)
         /\ codes[c] \in CodeRow /\ codes[c].attempts \in Nat /\ misses[c] \in Nat
<1>1. c \in 1..Len(codes) /\ c \in 1..Len(misses)
  BY LenProperties DEF RowTypes
<1>2. codes[c] \in CodeRow /\ misses[c] \in Nat
  BY <1>1, ElementOfSeq DEF RowTypes
<1>3. QED
  BY <1>1, <1>2 DEF CodeRow

\* Attempts count what they did if nobody else is about to add to them.
LEMMA CountKept ==
  ASSUME Types, MissesInv, NEW c \in DOMAIN codes,
         codes'[c].attempts = codes[c].attempts, misses'[c] = misses[c],
         Missing(c)' \subseteq Missing(c)
  PROVE  /\ codes'[c].attempts = misses'[c]
         /\ codes'[c].attempts + Cardinality(Missing(c)') <= MaxAttempts + MaxOpen - 1
<1>1. Missing(c) \in SUBSET Request
  BY DEF Missing
<1>2. Cardinality(Missing(c)') <= Cardinality(Missing(c))
  BY <1>1, FiniteRequests, FS_Subset
<1>3. Cardinality(Missing(c)) \in Nat /\ Cardinality(Missing(c)') \in Nat
  <2>1. Missing(c)' \in SUBSET Request
    BY <1>1
  <2>2. QED
    BY <1>1, <2>1, FiniteRequests
<1>4. codes[c].attempts \in Nat
  BY CodeTypes DEF Types
<1>5. MaxAttempts + MaxOpen - 1 \in Int
  BY AccountsAssumption, LoginCodesAssumption
     DEF AccountsAssumption, LoginCodesAssumption
<1>6. /\ codes[c].attempts = misses[c]
      /\ codes[c].attempts + Cardinality(Missing(c)) <= MaxAttempts + MaxOpen - 1
  BY DEF MissesInv
<1>7. QED
  BY <1>2, <1>3, <1>4, <1>5, <1>6

LEMMA OtherStepsCount ==
  ASSUME Types, MissesInv, NEW r \in Request, OnlyMoves(r), at'[r] # "miss",
         DOMAIN codes' = DOMAIN codes, misses' = misses,
         \A c \in DOMAIN codes : codes'[c].attempts = codes[c].attempts
  PROVE  MissesInv'
<1> SUFFICES ASSUME NEW c \in DOMAIN codes
             PROVE  /\ codes'[c].attempts = misses'[c]
                    /\ codes'[c].attempts + Cardinality(Missing(c)')
                         <= MaxAttempts + MaxOpen - 1
  BY DEF MissesInv
<1>1. Missing(c)' \subseteq Missing(c)
  BY DEF Missing, At, OnlyMoves
<1>2. QED
  BY <1>1, CountKept

\* Marking a code used.
LEMMA UsedCounts ==
  ASSUME Types, MissesInv, NEW r \in Request, OnlyMoves(r), at'[r] # "miss",
         NEW d \in DOMAIN codes, codes' = [codes EXCEPT ![d].used = TRUE],
         misses' = misses
  PROVE  MissesInv'
<1>1. DOMAIN codes' = DOMAIN codes
  BY DEF Types, RowTypes
<1>2. \A c \in DOMAIN codes : codes'[c].attempts = codes[c].attempts
  BY CodeTypes DEF Types, CodeRow
<1>3. QED
  BY <1>1, <1>2, OtherStepsCount

\* A request that begins to count found room for itself.
LEMMA VerifyCounts ==
  ASSUME Types, MissesInv, NEW r \in Request, NEW a \in Asked[r], BeginVerify(r, a)
  PROVE  MissesInv'
<1> DEFINE first(d) == IF codes[d].attempts >= MaxAttempts THEN "tooMany"
                       ELSE IF a.code # d THEN "miss" ELSE "consume"
<1>1. PICK d \in DOMAIN codes : Begin(r, a, first(d), d)
  BY DEF BeginVerify
<1>2. /\ OnlyMoves(r) /\ at[r] = "idle" /\ at'[r] = first(d) /\ found'[r] = d
      /\ codes' = codes /\ misses' = misses
  <2>1. first(d) \in Steps
    BY DEF Steps
  <2>2. Read(r) /\ codes' = codes /\ misses' = misses
    BY DEF BeginVerify
  <2>3. QED
    BY <1>1, <2>1, <2>2, BeginTypes DEF Types
<1>3. CASE first(d) # "miss"
  BY <1>2, <1>3, OtherStepsCount
<1>4. CASE first(d) = "miss"
  <2>1. ASSUME NEW c \in DOMAIN codes, c # d
        PROVE  /\ codes'[c].attempts = misses'[c]
               /\ codes'[c].attempts + Cardinality(Missing(c)')
                    <= MaxAttempts + MaxOpen - 1
    <3>1. Missing(c)' \subseteq Missing(c)
      BY <1>2, <2>1 DEF Missing, At, OnlyMoves
    <3>2. QED
      BY <1>2, <3>1, CountKept
  <2> DEFINE Open == {q \in Request : InFlight(q)}
  <2>2. Cardinality(Open) < MaxOpen
    BY <1>1 DEF Begin
  <2>3. Missing(d) \subseteq Open /\ Open \in SUBSET Request /\ r \notin Missing(d)
    BY <1>2 DEF Missing, At, InFlight
  <2>4. Missing(d)' = Missing(d) \cup {r}
    BY <1>2, <1>4 DEF Missing, At, OnlyMoves
  <2>5. /\ Cardinality(Missing(d)) <= Cardinality(Open)
        /\ Cardinality(Missing(d)) \in Nat /\ Cardinality(Open) \in Nat
    BY <2>3, FiniteRequests, FS_Subset
  <2>6. Cardinality(Missing(d)') = Cardinality(Missing(d)) + 1
    BY <2>3, <2>4, FiniteRequests, FS_AddElement
  <2>7. codes[d].attempts \in Nat /\ codes[d].attempts < MaxAttempts
    <3>1. codes[d].attempts \in Nat
      BY CodeTypes DEF Types
    <3>2. QED
      BY <1>4, <3>1, LoginCodesAssumption DEF LoginCodesAssumption
  <2>8. codes[d].attempts + Cardinality(Missing(d)') <= MaxAttempts + MaxOpen - 1
    BY <2>2, <2>5, <2>6, <2>7, AccountsAssumption, LoginCodesAssumption
       DEF AccountsAssumption, LoginCodesAssumption
  <2>9. codes[d].attempts = misses[d]
    BY DEF MissesInv
  <2>10. QED
    BY <1>2, <2>1, <2>8, <2>9 DEF MissesInv
<1>5. QED
  BY <1>3, <1>4

LEMMA MissCounts ==
  ASSUME Types, MissesInv, NEW r \in Request, Miss(r)
  PROVE  MissesInv'
<1>1. OnlyMoves(r) /\ at[r] = "miss" /\ at'[r] = "done" /\ found[r] \in DOMAIN codes
  BY EndTypes DEF Miss, At, Types, Works
<1> PICK d \in DOMAIN codes : d = found[r]
  BY <1>1
<1>2. /\ codes' = [codes EXCEPT ![d].attempts = @ + 1]
      /\ misses' = [misses EXCEPT ![d] = @ + 1]
  BY DEF Miss
<1>3. /\ d \in 1..Len(misses) /\ codes[d] \in CodeRow /\ codes[d].attempts \in Nat
      /\ misses[d] \in Nat
  BY <1>1, CodeTypes DEF Types
<1>4. /\ DOMAIN codes' = DOMAIN codes
      /\ codes'[d].attempts = codes[d].attempts + 1 /\ misses'[d] = misses[d] + 1
      /\ \A c \in DOMAIN codes : c # d => codes'[c] = codes[c] /\ misses'[c] = misses[c]
  <2>1. misses \in [1..Len(misses) -> Nat]
    BY LenProperties DEF Types, RowTypes
  <2>2. misses'[d] = misses[d] + 1 /\ \A c \in 1..Len(misses) : c # d => misses'[c] = misses[c]
    BY <1>2, <1>3, <2>1
  <2>3. codes \in [1..Len(codes) -> CodeRow] /\ d \in 1..Len(codes)
    BY <1>1, LenProperties DEF Types, RowTypes
  <2>4. codes'[d] = [codes[d] EXCEPT !.attempts = codes[d].attempts + 1]
    BY <1>2, <2>3
  <2>5. codes'[d].attempts = codes[d].attempts + 1
    BY <1>3, <2>4 DEF CodeRow
  <2>6. /\ DOMAIN codes' = DOMAIN codes
        /\ \A c \in DOMAIN codes : c # d => codes'[c] = codes[c]
    BY <1>2, <2>3
  <2>7. \A c \in DOMAIN codes : c \in 1..Len(misses)
    BY CodeTypes DEF Types
  <2>8. QED
    BY <2>2, <2>5, <2>6, <2>7
<1>5. ASSUME NEW c \in DOMAIN codes, c # d
      PROVE  /\ codes'[c].attempts = misses'[c]
             /\ codes'[c].attempts + Cardinality(Missing(c)')
                  <= MaxAttempts + MaxOpen - 1
  <2>1. Missing(c)' \subseteq Missing(c)
    BY <1>1 DEF Missing, At, OnlyMoves
  <2>2. QED
    BY <1>4, <1>5, <2>1, CountKept
<1>6. Missing(d)' = Missing(d) \ {r} /\ r \in Missing(d) /\ Missing(d) \in SUBSET Request
  <2>1. r \in Missing(d) /\ Missing(d) \in SUBSET Request
    BY <1>1 DEF Missing, At
  <2>2. Missing(d)' = Missing(d) \ {r}
    BY <1>1 DEF Missing, At, OnlyMoves
  <2>3. QED
    BY <2>1, <2>2
<1>7. /\ Cardinality(Missing(d)') = Cardinality(Missing(d)) - 1
      /\ Cardinality(Missing(d)) \in Nat
  BY <1>6, FiniteRequests, FS_RemoveElement
<1>8. /\ codes[d].attempts = misses[d]
      /\ codes[d].attempts + Cardinality(Missing(d)) <= MaxAttempts + MaxOpen - 1
  BY <1>1 DEF MissesInv
<1>9. /\ codes'[d].attempts = misses'[d]
      /\ codes'[d].attempts + Cardinality(Missing(d)') <= MaxAttempts + MaxOpen - 1
  <2>1. codes'[d].attempts = codes[d].attempts + 1 /\ misses'[d] = misses[d] + 1
    BY <1>4
  <2>2. QED
    BY <1>3, <1>7, <1>8, <2>1
<1>10. \A c \in DOMAIN codes :
         /\ codes'[c].attempts = misses'[c]
         /\ codes'[c].attempts + Cardinality(Missing(c)') <= MaxAttempts + MaxOpen - 1
  <2> TAKE c \in DOMAIN codes
  <2>1. CASE c = d
    BY <1>9, <2>1
  <2>2. CASE c # d
    BY <1>5, <2>2
  <2>3. QED
    BY <2>1, <2>2
<1>11. QED
  BY <1>4, <1>10 DEF MissesInv

LEMMA CreateCounts ==
  ASSUME Types, MissesInv, NEW r \in Request, CreateCode(r)
  PROVE  MissesInv'
<1> DEFINE row == [user |-> ask[r].user, used |-> FALSE, attempts |-> 0,
                   expires |-> now + CodeTtl]
<1> PICK new : new = Len(codes) + 1
  OBVIOUS
<1>1. OnlyMoves(r) /\ at'[r] = "done"
  BY EndTypes DEF CreateCode, Types
<1>2. row \in CodeRow
  <2>1. ask[r].user \in User
    BY AskedUser DEF CreateCode, At, InFlight, Types
  <2>2. now + CodeTtl \in Nat
    BY AccountsAssumption, LoginCodesAssumption
       DEF Types, RowTypes, AccountsAssumption, LoginCodesAssumption
  <2>3. QED
    BY <2>1, <2>2 DEF CodeRow
<1>3. codes' = Append(codes, row) /\ misses' = Append(misses, 0)
  BY DEF CreateCode
<1>4. /\ \A c \in DOMAIN codes' : c \in DOMAIN codes \/ c = new
      /\ \A c \in DOMAIN codes : codes'[c] = codes[c] /\ misses'[c] = misses[c]
      /\ codes'[new] = row /\ misses'[new] = 0 /\ new \notin DOMAIN codes
  <2>1. codes \in Seq(CodeRow) /\ misses \in Seq(Nat) /\ Len(misses) = Len(codes)
    BY DEF Types, RowTypes
  <2>2. /\ Len(codes') = new /\ codes'[new] = row
        /\ \A c \in 1..Len(codes) : codes'[c] = codes[c]
        /\ codes' \in Seq(CodeRow)
    BY <1>2, <1>3, <2>1, AppendProperties
  <2>3. misses'[new] = 0 /\ \A c \in 1..Len(codes) : misses'[c] = misses[c]
    <3>1. 0 \in Nat
      OBVIOUS
    <3>2. QED
      BY <1>3, <2>1, <3>1, AppendProperties
  <2>4. DOMAIN codes = 1..Len(codes) /\ DOMAIN codes' = 1..new /\ Len(codes) \in Nat
    BY <2>1, <2>2, LenProperties
  <2>5. QED
    BY <2>2, <2>3, <2>4
<1>5. ASSUME NEW c \in DOMAIN codes
      PROVE  /\ codes'[c].attempts = misses'[c]
             /\ codes'[c].attempts + Cardinality(Missing(c)')
                  <= MaxAttempts + MaxOpen - 1
  <2>1. Missing(c)' \subseteq Missing(c)
    BY <1>1 DEF Missing, At, OnlyMoves
  <2>2. QED
    BY <1>4, <2>1, CountKept
<1>6. Missing(new)' = {}
  <2>1. \A q \in Request : At(q, "miss") => found[q] \in DOMAIN codes
    BY DEF Types, Works
  <2>2. \A q \in Request : At(q, "miss")' => At(q, "miss") /\ found'[q] = found[q]
    BY <1>1 DEF At, OnlyMoves
  <2>3. QED
    BY <1>4, <2>1, <2>2 DEF Missing
<1>7. codes'[new].attempts = misses'[new]
  BY <1>4
<1>8. codes'[new].attempts + Cardinality(Missing(new)') <= MaxAttempts + MaxOpen - 1
  <2>1. Cardinality(Missing(new)') = 0
    BY <1>6, FS_EmptySet
  <2>2. codes'[new].attempts = 0
    BY <1>4
  <2>3. QED
    BY <2>1, <2>2, AccountsAssumption, LoginCodesAssumption
       DEF AccountsAssumption, LoginCodesAssumption
<1>9. ASSUME NEW c \in DOMAIN codes'
      PROVE  /\ codes'[c].attempts = misses'[c]
             /\ codes'[c].attempts + Cardinality(Missing(c)')
                  <= MaxAttempts + MaxOpen - 1
  <2>1. CASE c \in DOMAIN codes
    BY <1>5, <2>1
  <2>2. CASE c = new
    BY <1>7, <1>8, <2>2
  <2>3. QED
    BY <1>4, <2>1, <2>2
<1>10. QED
  BY <1>9 DEF MissesInv

\* Only BeginVerify begins to count.
NoNewMiss == \A q \in Request : At(q, "miss")' => At(q, "miss") /\ found'[q] = found[q]

LEMMA MovesNoMiss ==
  ASSUME Types, NEW r \in Request,
         \/ \E a \in Asked[r], first \in Steps \ {"miss"} : \E row : Begin(r, a, first, row)
         \/ \E step \in Steps \ {"miss"} : Goto(r, step)
         \/ End(r)
  PROVE  NoNewMiss
<1>1. DOMAIN at = Request /\ DOMAIN found = Request
  BY DEF Types, ProgressTypes
<1>2. ASSUME NEW a \in Asked[r], NEW first \in Steps \ {"miss"}, NEW row,
             Begin(r, a, first, row)
      PROVE  NoNewMiss
  BY <1>1, <1>2 DEF NoNewMiss, Begin, At
<1>3. ASSUME NEW step \in Steps \ {"miss"}, Goto(r, step)
      PROVE  NoNewMiss
  BY <1>1, <1>3 DEF NoNewMiss, Goto, At
<1>4. CASE End(r)
  BY <1>1, <1>4 DEF NoNewMiss, End, At
<1>5. QED
  BY <1>2, <1>3, <1>4

LEMMA AccountsCount ==
  ASSUME Types, MissesInv, AccountsNext \/ InvitesNext \/ \E r \in Request : Fail(r),
         UNCHANGED <<codes, misses>>
  PROVE  MissesInv'
<1>1. SUFFICES NoNewMiss
  <2>1. SUFFICES ASSUME NoNewMiss, NEW c \in DOMAIN codes
                 PROVE  /\ codes'[c].attempts = misses'[c]
                        /\ codes'[c].attempts + Cardinality(Missing(c)')
                             <= MaxAttempts + MaxOpen - 1
    BY DEF MissesInv
  <2>2. Missing(c)' \subseteq Missing(c)
    BY <2>1 DEF Missing, NoNewMiss
  <2>3. QED
    BY <2>2, CountKept
<1>2. ASSUME NEW r \in Request, AuthController(r)
      PROVE  NoNewMiss
  <2>1. PICK a \in Asked[r] : \/ BeginRegister(r, a) \/ BeginLogin(r, a)
                              \/ BeginRefresh(r, a) \/ LogoutAll(r, a)
    BY <1>2 DEF AuthController
  <2>2. \E first \in Steps \ {"miss"} : \E row : Begin(r, a, first, row)
    <3>1. {"create", "issue", "revoke", "answered"} \subseteq Steps \ {"miss"}
      BY DEF Steps
    <3>2. \E first \in {"create", "issue", "revoke", "answered"} : \E row :
            Begin(r, a, first, row)
      BY <2>1 DEF BeginRegister, BeginLogin, BeginRefresh, LogoutAll
    <3>3. QED
      BY <3>1, <3>2
  <2>3. QED
    BY <2>2, MovesNoMiss
<1>3. ASSUME NEW r \in Request,
             \/ CreateUser(r) \/ StoreRefreshSession(r) \/ RevokeOld(r) \/ Answer(r)
             \/ FindActive(r) \/ CreateInvite(r) \/ ReadStaff(r)
             \/ AcceptInvite(r) \/ AcceptRolledBack(r) \/ WriteProfile(r) \/ Fail(r)
      PROVE  NoNewMiss
  <2>1. End(r) \/ \E step \in {"issue", "invite", "accept"} : Goto(r, step)
    BY <1>3
       DEF CreateUser, StoreRefreshSession, RevokeOld, Answer, FindActive, CreateInvite,
           ReadStaff, AcceptInvite, AcceptRolledBack, WriteProfile, Fail
  <2>2. {"issue", "invite", "accept"} \subseteq Steps \ {"miss"}
    BY DEF Steps
  <2>3. QED
    BY <2>1, <2>2, MovesNoMiss, SMTT(30)
<1>4. ASSUME NEW r \in Request, IssueTokens(r)
      PROVE  NoNewMiss
  BY <1>4 DEF IssueTokens, NoNewMiss, At, Types, ProgressTypes
<1>5. CASE Tick
  BY <1>5 DEF Tick, progress, NoNewMiss, At
<1>6. ASSUME NEW r \in Request, StaffInvitesController(r) \/ StaffController(r)
      PROVE  NoNewMiss
  <2>1. PICK a \in Asked[r] :
          BeginInvite(r, a) \/ BeginAccept(r, a) \/ BeginProfile(r, a)
    BY <1>6 DEF StaffInvitesController, StaffController
  <2>2. \E first \in {"active", "staff", "profile"} : Begin(r, a, first, NONE)
    BY <2>1 DEF BeginInvite, BeginAccept, BeginProfile
  <2>3. {"active", "staff", "profile"} \subseteq Steps \ {"miss"}
    BY DEF Steps
  <2>4. QED
    BY <2>2, <2>3, MovesNoMiss
<1>7. QED
  BY <1>2, <1>3, <1>4, <1>5, <1>6 DEF AccountsNext, InvitesNext

LEMMA CodesCount ==
  ASSUME Types, MissesInv, CodesNext
  PROVE  MissesInv'
<1>1. ASSUME NEW r \in Request, NEW a \in Asked[r], BeginCode(r, a)
      PROVE  MissesInv'
  <2>1. OnlyMoves(r) /\ at'[r] = "code" /\ misses' = misses
    BY <1>1, BeginTypes DEF BeginCode, Types, Steps
  <2>2. /\ DOMAIN codes' = DOMAIN codes
        /\ \A c \in DOMAIN codes : codes'[c].attempts = codes[c].attempts
    <3>1. \A c \in DOMAIN codes : codes[c] \in CodeRow
      BY CodeTypes DEF Types
    <3>2. QED
      BY <1>1, <3>1 DEF BeginCode, CodeRow
  <2>3. QED
    BY <2>1, <2>2, OtherStepsCount
<1>2. ASSUME NEW r \in Request, TooMany(r) \/ Consume(r)
      PROVE  MissesInv'
  <2>1. /\ InFlight(r) /\ found[r] \in DOMAIN codes /\ misses' = misses
        /\ codes' = [codes EXCEPT ![found[r]].used = TRUE] /\ Wrote(r)
    BY <1>2 DEF TooMany, Consume, At, InFlight, Types, Works
  <2>2. End(r) \/ Goto(r, "find")
    BY <1>2 DEF TooMany, Consume
  <2>3. OnlyMoves(r) /\ at'[r] \in {"done", "find"}
    BY <2>1, <2>2, EndTypes, GotoTypes DEF Types, Steps
  <2>4. QED
    BY <2>1, <2>3, UsedCounts
<1>3. ASSUME NEW r \in Request, FindUser(r)
      PROVE  MissesInv'
  <2>1. /\ InFlight(r) /\ Read(r) /\ UNCHANGED <<codes, misses>>
        /\ Goto(r, "issue") \/ Goto(r, "create")
    BY <1>3 DEF FindUser, At, InFlight
  <2>2. OnlyMoves(r) /\ at'[r] \in {"issue", "create"}
    BY <2>1, GotoTypes DEF Types, Steps
  <2>3. QED
    BY <2>1, <2>2, OtherStepsCount
<1>4. QED
  BY <1>1, <1>2, <1>3, VerifyCounts, CreateCounts, MissCounts
     DEF CodesNext, MagicAuthController

\* A code's attempts are its wrong answers, and are bounded by the limit and
\* the requests in flight.
THEOREM MissesCounted == Spec => []MissesAreCounted
<1> DEFINE Inv == Types /\ MissesInv
<1>1. Init => Inv
  <2> SUFFICES ASSUME Init PROVE MissesInv
    BY InitTypes
  <2>1. DOMAIN codes = {}
    BY DEF Init
  <2>2. QED
    BY <2>1 DEF MissesInv
<1>2. Inv /\ [Next]_vars => Inv'
  <2> SUFFICES ASSUME Types, MissesInv, [Next]_vars PROVE MissesInv'
    BY NextTypes
  <2>1. CASE CodesNext
    BY <2>1, CodesCount
  <2>2. CASE \/ AccountsNext /\ UNCHANGED <<codes, misses>>
             \/ InvitesNext /\ UNCHANGED <<codes, misses>>
             \/ \E r \in Request : Fail(r) /\ UNCHANGED <<codes, misses>>
    BY <2>2, AccountsCount
  <2>3. CASE UNCHANGED vars
    BY <2>3 DEF vars, MissesInv, Missing, At, progress
  <2>4. QED
    BY <2>1, <2>2, <2>3 DEF Next, Finished
<1>3. Inv => MissesAreCounted
  BY DEF Types, RowTypes, MissesInv, Missing, MissesAreCounted
<1>4. QED
  BY <1>1, <1>2, <1>3, PTL DEF Spec

-----------------------------------------------------------------------------
(* Invites.                                                                *)

\* Whoever is linked to s is a member and has accepted an invite for s.
LinkedInv ==
  \A s \in Staff : staff[s].user # NONE =>
    /\ member[staff[s].user] # NONE
    /\ \E i \in DOMAIN invites : /\ invites[i].staff = s
                                 /\ invites[i].acceptedBy = staff[s].user

LEMMA AcceptLinks ==
  ASSUME Types, LinkedInv, NEW r \in Request, AcceptInvite(r)
  PROVE  LinkedInv'
<1> PICK i, u, t : i = ask[r].invite /\ u = ask[r].user /\ t = invites[i].staff
  OBVIOUS
<1>1. i \in DOMAIN invites /\ u \in User
  BY AskedUser DEF AcceptInvite, At, InFlight, Types, Works
<1>2. /\ invites[i] \in InviteRow
      /\ \A j \in DOMAIN invites : invites[j] \in InviteRow
      /\ t \in Staff
  <2>1. \A j \in DOMAIN invites : invites[j] \in InviteRow
    BY ElementOfSeq, LenProperties DEF Types, RowTypes
  <2>2. invites[i].staff \in Staff
    BY <1>1, <2>1 DEF InviteRow
  <2>3. QED
    BY <1>1, <2>1, <2>2
<1>3. /\ \A s \in Staff : staff'[s].user = IF s = t THEN u ELSE staff[s].user
      /\ \A v \in User : v # u => member'[v] = member[v]
      /\ member'[u] # NONE
  <2>1. invites[i].role \in BusinessRole
    BY <1>2 DEF InviteRow
  <2>2. invites[i].role # NONE
    BY <2>1, StaffInvitesAssumption DEF StaffInvitesAssumption
  <2>3. /\ staff' = [staff EXCEPT ![t].user = u]
        /\ member' = [member EXCEPT ![u] = invites[i].role]
    BY DEF AcceptInvite
  <2>4. QED
    BY <1>1, <1>2, <2>2, <2>3 DEF Types, RowTypes, StaffRow
<1>4. /\ DOMAIN invites' = DOMAIN invites
      /\ \A j \in DOMAIN invites : invites'[j].staff = invites[j].staff
      /\ \A j \in DOMAIN invites :
           invites'[j].acceptedBy = IF j = i THEN u ELSE invites[j].acceptedBy
  <2>1. invites' = [invites EXCEPT ![i].acceptedBy = u]
    BY DEF AcceptInvite
  <2>2. QED
    BY <1>1, <1>2, <2>1, LenProperties DEF Types, RowTypes, InviteRow
<1>5. ASSUME NEW s \in Staff, staff'[s].user # NONE
      PROVE  /\ member'[staff'[s].user] # NONE
             /\ \E j \in DOMAIN invites' : /\ invites'[j].staff = s
                                           /\ invites'[j].acceptedBy = staff'[s].user
  <2>1. CASE s = t
    BY <1>1, <1>3, <1>4, <2>1
  <2>2. CASE s # t
    <3>1. staff'[s].user = staff[s].user /\ staff[s].user # u
      BY <1>2, <1>3, <2>2 DEF AcceptInvite, LinkedElsewhere
    <3>2. staff[s].user \in User
      BY <1>5, <3>1 DEF Types, RowTypes, StaffRow
    <3>3. PICK j \in DOMAIN invites : /\ invites[j].staff = s
                                      /\ invites[j].acceptedBy = staff[s].user
      BY <1>5, <3>1 DEF LinkedInv
    <3>4. j # i
      BY <2>2, <3>3
    <3>5. member[staff[s].user] # NONE
      BY <1>5, <3>1 DEF LinkedInv
    <3>6. QED
      BY <1>3, <1>4, <3>1, <3>2, <3>3, <3>4, <3>5
  <2>3. QED
    BY <2>1, <2>2
<1>6. QED
  BY <1>5 DEF LinkedInv

LEMMA OtherStepsLink ==
  ASSUME Types, LinkedInv, InvitesNext, UNCHANGED faults
  PROVE  LinkedInv'
<1>1. CASE UNCHANGED business
  BY <1>1 DEF business, LinkedInv
<1>2. ASSUME NEW r \in Request, CreateInvite(r)
      PROVE  LinkedInv'
  <2>1. PICK row : invites' = Append(invites, row)
    BY <1>2 DEF CreateInvite
  <2>2. \A i \in DOMAIN invites : i \in DOMAIN invites' /\ invites'[i] = invites[i]
    BY <2>1 DEF Types, RowTypes
  <2>3. QED
    BY <1>2, <2>2 DEF CreateInvite, LinkedInv
<1>3. ASSUME NEW r \in Request, AcceptInvite(r)
      PROVE  LinkedInv'
  BY <1>3, AcceptLinks
<1>4. ASSUME NEW r \in Request, WriteProfile(r)
      PROVE  LinkedInv'
  <2>1. \A s \in Staff : staff'[s].user = staff[s].user
    BY <1>4 DEF WriteProfile, Types, RowTypes, StaffRow
  <2>2. QED
    BY <1>4, <2>1 DEF WriteProfile, LinkedInv
<1>5. QED
  BY <1>1, <1>2, <1>3, <1>4
     DEF InvitesNext, StaffInvitesController, StaffController, BeginInvite, BeginAccept,
         BeginProfile, FindActive, ReadStaff, AcceptRolledBack

\* What links a user to a member of staff is one transaction.
THEOREM LinkedAccepted == Spec => []LinkedStaffAccepted
<1> DEFINE Inv == Types /\ LinkedInv
<1>1. Init => Inv
  <2> SUFFICES ASSUME Init PROVE LinkedInv
    BY InitTypes
  <2>1. QED
    BY DEF Init, LinkedInv
<1>2. Inv /\ [Next]_vars => Inv'
  <2> SUFFICES ASSUME Types, LinkedInv, [Next]_vars PROVE LinkedInv'
    BY NextTypes
  <2>1. CASE UNCHANGED business
    BY <2>1 DEF business, LinkedInv
  <2>2. CASE InvitesNext /\ UNCHANGED faults
    BY <2>2, OtherStepsLink
  <2>3. QED
    BY <2>1, <2>2 DEF Next, Finished, vars
<1>3. Inv => LinkedStaffAccepted
  <2> SUFFICES ASSUME Types, LinkedInv, NEW u \in User, Context(u).staffId # NONE
               PROVE  /\ Context(u).businessRole # NONE
                      /\ \E i \in DOMAIN invites :
                           /\ invites[i].staff = Context(u).staffId
                           /\ invites[i].acceptedBy = u
    BY DEF LinkedStaffAccepted
  <2>1. /\ Context(u).staffId \in Staff /\ staff[Context(u).staffId].user = u
        /\ Context(u).businessRole = member[u]
    BY DEF Context
  <2>2. u # NONE
    BY StaffInvitesAssumption DEF StaffInvitesAssumption
  <2>3. QED
    BY <2>1, <2>2 DEF LinkedInv
<1>4. QED
  BY <1>1, <1>2, <1>3, PTL DEF Spec

=============================================================================
