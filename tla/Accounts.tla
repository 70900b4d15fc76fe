------------------------------ MODULE Accounts ------------------------------
(***************************************************************************)
(* Users and their refresh sessions (apps/api/src/auth/auth.service.ts).   *)
(* Every request runs through its awaits while others run: no method is a  *)
(* transaction.  A token is a JWT over user and issue second, so two       *)
(* tokens of one user issued in one second are the same token, and         *)
(* RefreshSession.tokenHash is not unique.  now counts seconds.            *)
(***************************************************************************)
EXTENDS Naturals, Sequences, FiniteSets

CONSTANTS
  User,
  Registered,   \* users with an account at the start
  Asked,        \* what each request may ask
  MaxRequests,  \* bound on the requests of a behaviour
  MaxOpen,      \* bound on the requests in flight at once
  MaxTime,      \* bound on the clock
  RefreshTtl,
  NONE          \* null, and a row that does not exist

ASSUME AccountsAssumption ==
  /\ Registered \subseteq User
  /\ MaxRequests \in Nat /\ MaxOpen \in Nat \ {0} /\ MaxTime \in Nat
  /\ RefreshTtl \in Nat

VARIABLES
  now,
  users,     \* rows of User
  session,   \* RefreshSession rows, by the request that stored them
  at,        \* what a request is awaiting
  ask,       \* what it was asked
  found,     \* the row its first query found
  iat,       \* the issue second of the token it signed
  \* History.
  overtaken, \* the requests that wrote since the first query of one
  behind,    \* sessions from before a logout of all of their user's sessions
  spared     \* refreshes in flight at such a logout, and their successors

accounts == <<users, session>>
progress == <<at, ask, found, iat>>
history == <<overtaken, behind, spared>>

Request == 1..MaxRequests
SessionId == 0..MaxRequests   \* 0: from before the first request

SessionRow == [user: User, iat: 0..MaxTime, revoked: BOOLEAN, expires: Nat]

AccountsInit ==
  /\ now = 0
  /\ users = Registered
  /\ session = [s \in SessionId |->
                  IF s = 0 /\ Registered # {}
                    THEN [user |-> CHOOSE u \in Registered : TRUE, iat |-> 0,
                          revoked |-> FALSE, expires |-> RefreshTtl]
                    ELSE NONE]
  /\ at = [r \in Request |-> "idle"]
  /\ ask = [r \in Request |-> NONE]
  /\ found = [r \in Request |-> NONE]
  /\ iat = [r \in Request |-> 0]
  /\ overtaken = [r \in Request |-> {}]
  /\ behind = {}
  /\ spared = {}

-----------------------------------------------------------------------------
(* Requests.                                                               *)

InFlight(r) == at[r] \notin {"idle", "done"}

\* A request refused by its first check changes nothing: it is no step.
Begin(r, a, first, row) ==
  /\ at[r] = "idle"
  /\ \A q \in Request : q < r => at[q] # "idle"
  /\ Cardinality({q \in Request : InFlight(q)}) < MaxOpen
  /\ a \in Asked[r]
  /\ at' = [at EXCEPT ![r] = first]
  /\ ask' = [ask EXCEPT ![r] = a]
  /\ found' = [found EXCEPT ![r] = row]
  /\ UNCHANGED iat

At(r, step) == at[r] = step
Goto(r, step) == at' = [at EXCEPT ![r] = step] /\ UNCHANGED <<ask, found, iat>>

End(r) ==
  /\ at' = [at EXCEPT ![r] = "done"]
  /\ ask' = [ask EXCEPT ![r] = NONE]
  /\ found' = [found EXCEPT ![r] = NONE]
  /\ iat' = [iat EXCEPT ![r] = 0]

\* History of a step of r that writes, or does not.
Wrote(r) ==
  overtaken' = [q \in Request |->
    IF ~InFlight(q)' THEN {}
    ELSE IF q # r /\ InFlight(q) THEN overtaken[q] \cup {r} ELSE overtaken[q]]

Read(r) ==
  overtaken' = [q \in Request |-> IF InFlight(q)' THEN overtaken[q] ELSE {}]

-----------------------------------------------------------------------------
(* Registration and login.                                                 *)

\* register: the email is free, then the user is created.
BeginRegister(r, a) ==
  /\ a.op = "register"
  /\ a.user \notin users
  /\ Begin(r, a, "create", NONE)
  /\ Read(r)
  /\ UNCHANGED <<now, accounts, behind, spared>>

\* The unique email refuses a second creation.
CreateUser(r) ==
  /\ At(r, "create")
  /\ IF ask[r].user \in users
       THEN End(r) /\ Read(r) /\ UNCHANGED users
       ELSE /\ users' = users \cup {ask[r].user}
            /\ Goto(r, "issue")
            /\ Wrote(r)
  /\ UNCHANGED <<now, session, behind, spared>>

\* login: the user is found and the password compares.
BeginLogin(r, a) ==
  /\ a.op = "login"
  /\ a.user \in users
  /\ Begin(r, a, "issue", NONE)
  /\ Read(r)
  /\ UNCHANGED <<now, accounts, behind, spared>>

\* The user row is read and both tokens are signed.
IssueTokens(r) ==
  /\ At(r, "issue")
  /\ ask[r].user \in users
  /\ iat' = [iat EXCEPT ![r] = now]
  /\ at' = [at EXCEPT ![r] = "store"]
  /\ Read(r)
  /\ UNCHANGED <<now, accounts, ask, found, behind, spared>>

\* A refresh passes on what is known of the session it replaced.
StoreRefreshSession(r) ==
  /\ At(r, "store")
  /\ session' = [session EXCEPT ![r] =
       [user |-> ask[r].user, iat |-> iat[r], revoked |-> FALSE,
        expires |-> now + RefreshTtl]]
  /\ LET follows(set) == ask[r].op = "refresh" /\ found[r] \in set IN
       /\ behind' = IF follows(behind) THEN behind \cup {r} ELSE behind
       /\ spared' = IF follows(spared) THEN spared \cup {r} ELSE spared
  /\ End(r)
  /\ Wrote(r)
  /\ UNCHANGED <<now, users>>

-----------------------------------------------------------------------------
(* Refresh and logout.                                                     *)

Unexpired(s) == session[s] # NONE /\ now < session[s].expires
LiveSession(s) == Unexpired(s) /\ ~session[s].revoked

\* The token [user, iat] verifies until its own expiry.
Verifies(a) == now < a.iat + RefreshTtl
HasToken(s, a) == session[s].user = a.user /\ session[s].iat = a.iat

\* Mutated form of BeginRefresh: revokedAt is not asked about.
BeginRefreshRevoked(r, a) ==
  /\ a.op = "refresh"
  /\ Verifies(a)
  /\ \E s \in SessionId : /\ Unexpired(s) /\ HasToken(s, a)
                          /\ Begin(r, a, "revoke", s)
  /\ Read(r)
  /\ UNCHANGED <<now, accounts, behind, spared>>

\* refresh: any of the live sessions with the hash is found.
BeginRefresh(r, a) ==
  /\ a.op = "refresh"
  /\ Verifies(a)
  /\ \E s \in SessionId : /\ LiveSession(s) /\ HasToken(s, a)
                          /\ Begin(r, a, "revoke", s)
  /\ Read(r)
  /\ UNCHANGED <<now, accounts, behind, spared>>

\* It is revoked by id, whatever has become of it.
RevokeOld(r) ==
  /\ At(r, "revoke")
  /\ session' = [session EXCEPT ![found[r]].revoked = TRUE]
  /\ Goto(r, "issue")
  /\ Wrote(r)
  /\ UNCHANGED <<now, users, behind, spared>>

SessionsOf(u) == {s \in SessionId : session[s] # NONE /\ session[s].user = u}

\* Mutated form of LogoutAll: one session is revoked.
LogoutOne(r, a) ==
  /\ a.op = "logoutAll"
  /\ a.user \in users
  /\ Begin(r, a, "answered", NONE)
  /\ \E s \in SessionsOf(a.user) :
       session' = [session EXCEPT ![s].revoked = TRUE]
  /\ behind' = behind \cup SessionsOf(a.user)
  /\ spared' = spared \cup
       {q \in Request : InFlight(q) /\ ask[q].op = "refresh"
                        /\ ask[q].user = a.user}
  /\ Wrote(r)
  /\ UNCHANGED <<now, users>>

\* revokeAllSessions, one statement.
LogoutAll(r, a) ==
  /\ a.op = "logoutAll"
  /\ a.user \in users
  /\ Begin(r, a, "answered", NONE)
  /\ session' = [s \in SessionId |->
                   IF s \in SessionsOf(a.user)
                     THEN [session[s] EXCEPT !.revoked = TRUE] ELSE session[s]]
  /\ behind' = behind \cup SessionsOf(a.user)
  /\ spared' = spared \cup
       {q \in Request : InFlight(q) /\ ask[q].op = "refresh"
                        /\ ask[q].user = a.user}
  /\ Wrote(r)
  /\ UNCHANGED <<now, users>>

\* The answer of a request that has nothing left to do.
Answer(r) ==
  /\ At(r, "answered")
  /\ End(r)
  /\ Read(r)
  /\ UNCHANGED <<now, accounts, behind, spared>>

Tick ==
  /\ now < MaxTime
  /\ now' = now + 1
  /\ UNCHANGED <<accounts, progress, history>>

\* What requests may carry: an asked iat names the refresh token of that second.
AccountsInput(a) ==
  /\ a.user \in User
  /\ \/ a.op \in {"register", "login", "logoutAll"}
     \/ a.op = "refresh" /\ a.iat \in 0..MaxTime

AuthController(r) ==
  \E a \in Asked[r] : \/ BeginRegister(r, a) \/ BeginLogin(r, a)
                      \/ BeginRefresh(r, a) \/ LogoutAll(r, a)

AccountsNext ==
  \/ \E r \in Request :
       \/ AuthController(r)
       \/ CreateUser(r) \/ IssueTokens(r) \/ StoreRefreshSession(r)
       \/ RevokeOld(r) \/ Answer(r)
  \/ Tick

=============================================================================
