---------------------------- MODULE RuntimeLease ----------------------------
(***************************************************************************)
(* RuntimeLeaseService (apps/api/src/runtime/runtime-lease.service.ts):    *)
(* one row of table RuntimeLease, written by conditional UPDATEs.  A       *)
(* caller reads its clock when it makes the call, and the UPDATE is        *)
(* executed lag ticks later: it compares and stores times that are lag     *)
(* ticks old.  Processes are assumed to agree on the time.                 *)
(*                                                                         *)
(* Times are kept relative to now: the row has `left' ticks until          *)
(* expiresAt (negative when that has passed).  The row that createMany     *)
(* puts in first is there from the start: unowned and long expired.        *)
(***************************************************************************)
EXTENDS Integers

CONSTANTS
  Process,   \* ownerIds in use
  Ttl,       \* ttlMs, in ticks
  MaxLag,    \* bound of the time between a call and its UPDATE
  UNOWNED,   \* '__unowned__'
  GONE       \* the ownerId of a process that has ended: no one will use it again

ASSUME LeaseAssumption ==
  /\ Ttl \in Nat \ {0}
  /\ MaxLag \in Nat
  /\ UNOWNED \notin Process /\ GONE \notin Process

VARIABLES
  lease,   \* the row
  held     \* history: ticks left of the lease a process last wrote itself

leaseVars == <<lease, held>>

Owner == Process \cup {UNOWNED, GONE}

LeaseTypeOK ==
  /\ lease \in [owner: Owner, left: -(MaxLag + 1)..Ttl]
  /\ held \in [Process -> 0..Ttl]

LeaseInit ==
  /\ lease = [owner |-> UNOWNED, left |-> -(MaxLag + 1)]
  /\ held = [p \in Process |-> 0]

\* Mutated form of CanAcquire: compares with the time it will expire itself.
CanAcquireSoon(p, lag) == lease.left <= Ttl - lag \/ lease.owner = p

\* Mutated form of CanAcquire: a lease is never taken over.
CanAcquireOwn(p, lag) == lease.owner \in {UNOWNED, p}

\* WHERE expiresAt <= now OR ownerId = me, for a call made lag ticks ago.
CanAcquire(p, lag) == lease.left <= -lag \/ lease.owner = p

\* WHERE ownerId = me AND expiresAt >= now.
CanRenew(p, lag) == lease.owner = p /\ lease.left >= -lag

\* Mutated form of Write: the ttl is added twice.
WriteTwice(p, lag) ==
  /\ lease' = [owner |-> p, left |-> 2 * Ttl - lag]
  /\ held' = [held EXCEPT ![p] = IF Ttl > lag THEN Ttl - lag ELSE 0]

\* SET ownerId = me, expiresAt = now + ttl.
Write(p, lag) ==
  /\ lease' = [owner |-> p, left |-> Ttl - lag]
  /\ held' = [held EXCEPT ![p] = IF Ttl > lag THEN Ttl - lag ELSE 0]

TryAcquire(p, lag) == CanAcquire(p, lag) /\ Write(p, lag)
Renew(p, lag)      == CanRenew(p, lag) /\ Write(p, lag)

\* Mutated form of Release: by the key of the lease alone.
ReleaseAnyones(p, lag) ==
  /\ lease' = [lease EXCEPT !.left = -lag]
  /\ held' = [held EXCEPT ![p] = 0]

\* SET expiresAt = now, if the lease is still mine; the owner stays.
Release(p, lag) ==
  /\ lease.owner = p
  /\ lease' = [lease EXCEPT !.left = -lag]
  /\ held' = [held EXCEPT ![p] = 0]

\* A process ends: what it wrote stays until it expires.
Gone(p) ==
  /\ lease' = IF lease.owner = p THEN [lease EXCEPT !.owner = GONE] ELSE lease
  /\ held' = [held EXCEPT ![p] = 0]

LeaseTick ==
  /\ lease' = [lease EXCEPT !.left = IF lease.left > -(MaxLag + 1)
                                       THEN lease.left - 1 ELSE lease.left]
  /\ held' = [p \in Process |-> IF held[p] > 0 THEN held[p] - 1 ELSE 0]

LeaseNext ==
  \/ \E p \in Process, lag \in 0..MaxLag :
       TryAcquire(p, lag) \/ Renew(p, lag) \/ Release(p, lag)
  \/ \E p \in Process : Gone(p)
  \/ LeaseTick

LeaseSpec == LeaseInit /\ [][LeaseNext]_leaseVars

\* A process whose last successful write has not expired has the lease, for
\* exactly as long as it thinks: neither late calls of others nor its own
\* overlapping calls nor a restart take it away.  So two processes never hold
\* an unexpired lease each.
LeaseIsExclusive ==
  \A p \in Process : held[p] > 0 => lease.owner = p /\ lease.left = held[p]

=============================================================================
