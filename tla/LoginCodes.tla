----------------------------- MODULE LoginCodes -----------------------------
(***************************************************************************)
(* One-time login codes (apps/api/src/auth/magic-auth.service.ts and its   *)
(* controller).  codes lists the rows in the order they were created; an   *)
(* asked code is the index of the row whose code it is, or 0 for another.  *)
(***************************************************************************)
EXTENDS Accounts

CONSTANTS
  CodeTtl,
  MaxAttempts   \* five in the code

ASSUME LoginCodesAssumption == CodeTtl \in Nat /\ MaxAttempts \in Nat

VARIABLES
  codes,
  misses   \* history: wrong answers given for each code

CodeRow == [user: User, used: BOOLEAN, attempts: Nat, expires: Nat]

Pending(c, u) ==
  /\ codes[c].user = u
  /\ ~codes[c].used
  /\ now < codes[c].expires

\* requestLoginCode: expired pending codes are marked used...
BeginCode(r, a) ==
  /\ a.op = "requestCode"
  /\ Begin(r, a, "code", NONE)
  /\ codes' = [c \in DOMAIN codes |->
                 IF codes[c].user = a.user /\ codes[c].expires < now
                   THEN [codes[c] EXCEPT !.used = TRUE] ELSE codes[c]]
  /\ Wrote(r)
  /\ UNCHANGED <<now, accounts, behind, spared, misses>>

\* ...and the new one is created; earlier ones stay.
CreateCode(r) ==
  /\ At(r, "code")
  /\ codes' = Append(codes, [user |-> ask[r].user, used |-> FALSE, attempts |-> 0,
                             expires |-> now + CodeTtl])
  /\ misses' = Append(misses, 0)
  /\ End(r)
  /\ Wrote(r)
  /\ UNCHANGED <<now, accounts, behind, spared>>

\* Mutated form of BeginVerify: attempts are not limited.
BeginVerifyUnlimited(r, a) ==
  /\ a.op = "verify"
  /\ \E c \in DOMAIN codes :
       /\ Pending(c, a.user)
       /\ \A d \in DOMAIN codes : Pending(d, a.user) => d <= c
       /\ Begin(r, a, IF a.code # c THEN "miss" ELSE "consume", c)
  /\ Read(r)
  /\ UNCHANGED <<now, accounts, behind, spared, codes, misses>>

\* verifyLoginCode: the newest pending code, and what it says of this one.
BeginVerify(r, a) ==
  /\ a.op = "verify"
  /\ \E c \in DOMAIN codes :
       /\ Pending(c, a.user)
       /\ \A d \in DOMAIN codes : Pending(d, a.user) => d <= c
       /\ Begin(r, a, IF codes[c].attempts >= MaxAttempts THEN "tooMany"
                      ELSE IF a.code # c THEN "miss" ELSE "consume", c)
  /\ Read(r)
  /\ UNCHANGED <<now, accounts, behind, spared, codes, misses>>

TooMany(r) ==
  /\ At(r, "tooMany")
  /\ codes' = [codes EXCEPT ![found[r]].used = TRUE]
  /\ End(r)
  /\ Wrote(r)
  /\ UNCHANGED <<now, accounts, behind, spared, misses>>

\* The attempts are incremented in the database.
Miss(r) ==
  /\ At(r, "miss")
  /\ codes' = [codes EXCEPT ![found[r]].attempts = @ + 1]
  /\ misses' = [misses EXCEPT ![found[r]] = @ + 1]
  /\ End(r)
  /\ Wrote(r)
  /\ UNCHANGED <<now, accounts, behind, spared>>

\* The code is consumed before the user is looked up or created.
Consume(r) ==
  /\ At(r, "consume")
  /\ codes' = [codes EXCEPT ![found[r]].used = TRUE]
  /\ Goto(r, "find")
  /\ Wrote(r)
  /\ UNCHANGED <<now, accounts, behind, spared, misses>>

FindUser(r) ==
  /\ At(r, "find")
  /\ Goto(r, IF ask[r].user \in users THEN "issue" ELSE "create")
  /\ Read(r)
  /\ UNCHANGED <<now, accounts, behind, spared, codes, misses>>

CodesInput(a) ==
  /\ a.user \in User
  /\ \/ a.op = "requestCode"
     \/ a.op = "verify" /\ a.code \in Nat

MagicAuthController(r) ==
  \E a \in Asked[r] : BeginCode(r, a) \/ BeginVerify(r, a)

CodesNext ==
  \E r \in Request :
    \/ MagicAuthController(r)
    \/ CreateCode(r) \/ TooMany(r) \/ Miss(r) \/ Consume(r) \/ FindUser(r)

=============================================================================
