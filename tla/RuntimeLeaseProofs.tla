------------------------- MODULE RuntimeLeaseProofs -------------------------
(***************************************************************************)
(* The lease is exclusive, for any number of processes, any ttl and calls  *)
(* of any age, whatever its callers do.                                    *)
(***************************************************************************)
EXTENDS RuntimeLease, TLAPS

LEMMA WriteType ==
  ASSUME LeaseAssumption, LeaseTypeOK, NEW p \in Process, NEW lag \in 0..MaxLag, Write(p, lag)
  PROVE  LeaseTypeOK'
<1> USE LeaseAssumption DEF LeaseAssumption
<1>1. /\ Ttl - lag \in -(MaxLag + 1)..Ttl
      /\ (IF Ttl > lag THEN Ttl - lag ELSE 0) \in 0..Ttl
  OBVIOUS
<1>2. lease' \in [owner: Owner, left: -(MaxLag + 1)..Ttl]
  BY <1>1 DEF Write, Owner
<1>3. held' \in [Process -> 0..Ttl]
  BY <1>1 DEF Write, LeaseTypeOK
<1> QED BY <1>2, <1>3 DEF LeaseTypeOK

LEMMA ReleaseType ==
  ASSUME LeaseAssumption, LeaseTypeOK, NEW p \in Process, NEW lag \in 0..MaxLag, Release(p, lag)
  PROVE  LeaseTypeOK'
<1> USE LeaseAssumption DEF LeaseAssumption
<1>1. -lag \in -(MaxLag + 1)..Ttl /\ 0 \in 0..Ttl
  OBVIOUS
<1>2. lease' \in [owner: Owner, left: -(MaxLag + 1)..Ttl]
  BY <1>1 DEF Release, LeaseTypeOK
<1>3. held' \in [Process -> 0..Ttl]
  BY <1>1 DEF Release, LeaseTypeOK
<1> QED BY <1>2, <1>3 DEF LeaseTypeOK

LEMMA GoneType ==
  ASSUME LeaseAssumption, LeaseTypeOK, NEW p \in Process, Gone(p)
  PROVE  LeaseTypeOK'
<1>1. 0 \in 0..Ttl
  BY DEF LeaseAssumption
<1> QED BY <1>1 DEF Gone, LeaseTypeOK, Owner

LEMMA TickType == ASSUME LeaseAssumption, LeaseTypeOK, LeaseTick PROVE LeaseTypeOK'
<1> USE LeaseAssumption DEF LeaseAssumption
<1> DEFINE left == IF lease.left > -(MaxLag + 1) THEN lease.left - 1 ELSE lease.left
<1>1. lease.left \in -(MaxLag + 1)..Ttl
  BY DEF LeaseTypeOK
<1>2. left \in -(MaxLag + 1)..Ttl
  BY <1>1
<1>3. lease' = [lease EXCEPT !.left = left]
  BY DEF LeaseTick
<1>4. lease' \in [owner: Owner, left: -(MaxLag + 1)..Ttl]
  <2> HIDE DEF left
  <2> QED BY <1>2, <1>3 DEF LeaseTypeOK
<1>5. held' \in [Process -> 0..Ttl]
  BY DEF LeaseTick, LeaseTypeOK
<1> QED BY <1>4, <1>5 DEF LeaseTypeOK

LEMMA LeaseTypeStep ==
  ASSUME LeaseAssumption, LeaseTypeOK, [LeaseNext]_leaseVars PROVE LeaseTypeOK'
<1>1. CASE UNCHANGED leaseVars
  BY <1>1 DEF leaseVars, LeaseTypeOK
<1> QED BY <1>1, WriteType, ReleaseType, GoneType, TickType DEF LeaseNext, TryAcquire, Renew

LEMMA LeaseTypeInit == ASSUME LeaseAssumption, LeaseInit PROVE LeaseTypeOK
<1>1. -(MaxLag + 1) \in -(MaxLag + 1)..Ttl /\ 0 \in 0..Ttl
  BY DEF LeaseAssumption
<1> QED BY <1>1 DEF LeaseInit, LeaseTypeOK, Owner

\* A write by p: nobody else holds an unexpired lease, because p had it or it
\* had expired at a time that is past.
LEMMA WriteKeepsExclusive ==
  ASSUME LeaseAssumption, LeaseTypeOK, LeaseIsExclusive,
         NEW p \in Process, NEW lag \in 0..MaxLag,
         lease.left <= -lag \/ lease.owner = p, Write(p, lag)
  PROVE  LeaseIsExclusive'
<1> USE LeaseAssumption DEF LeaseAssumption
<1> SUFFICES ASSUME NEW q \in Process, held'[q] > 0
             PROVE  lease'.owner = q /\ lease'.left = held'[q]
  BY DEF LeaseIsExclusive
<1>1. CASE q = p
  <2>1. held'[p] = IF Ttl > lag THEN Ttl - lag ELSE 0
    BY DEF Write, LeaseTypeOK
  <2>2. lease'.owner = p /\ lease'.left = Ttl - lag
    BY DEF Write
  <2>3. Ttl > lag
    BY <1>1, <2>1
  <2> QED BY <1>1, <2>1, <2>2, <2>3
<1>2. CASE q # p
  <2>1. held'[q] = held[q]
    BY <1>2 DEF Write, LeaseTypeOK
  <2>2. lease.owner = q /\ lease.left = held[q] /\ held[q] > 0
    BY <2>1 DEF LeaseIsExclusive
  <2>3. lease.left \in Int /\ lag \in Nat
    BY DEF LeaseTypeOK
  <2> QED BY <1>2, <2>2, <2>3
<1> QED BY <1>1, <1>2

LEMMA ExclusiveStep ==
  ASSUME LeaseAssumption, LeaseTypeOK, LeaseIsExclusive, [LeaseNext]_leaseVars
  PROVE  LeaseIsExclusive'
<1>1. CASE UNCHANGED leaseVars
  BY <1>1 DEF leaseVars, LeaseIsExclusive
<1>2. ASSUME NEW p \in Process, NEW lag \in 0..MaxLag, TryAcquire(p, lag) \/ Renew(p, lag)
      PROVE  LeaseIsExclusive'
  BY <1>2, WriteKeepsExclusive DEF TryAcquire, Renew, CanAcquire, CanRenew
<1>3. ASSUME NEW p \in Process, NEW lag \in 0..MaxLag, Release(p, lag) PROVE LeaseIsExclusive'
  BY <1>3 DEF Release, LeaseIsExclusive, LeaseTypeOK
<1>4. ASSUME NEW p \in Process, Gone(p) PROVE LeaseIsExclusive'
  BY <1>4 DEF Gone, LeaseIsExclusive, LeaseTypeOK
<1>5. CASE LeaseTick
  <2> SUFFICES ASSUME NEW q \in Process, held'[q] > 0
               PROVE  lease'.owner = q /\ lease'.left = held'[q]
    BY DEF LeaseIsExclusive
  <2>1. held[q] \in 0..Ttl /\ held'[q] = IF held[q] > 0 THEN held[q] - 1 ELSE 0
    BY <1>5 DEF LeaseTick, LeaseTypeOK
  <2>2. held[q] > 0 /\ held'[q] = held[q] - 1
    BY <2>1
  <2>3. lease.owner = q /\ lease.left = held[q]
    BY <2>2 DEF LeaseIsExclusive
  <2>4. lease.left > -(MaxLag + 1)
    BY <2>1, <2>2, <2>3 DEF LeaseAssumption
  <2>5. lease'.owner = lease.owner /\ lease'.left = lease.left - 1
    BY <1>5, <2>4 DEF LeaseTick, LeaseTypeOK
  <2> QED BY <2>2, <2>3, <2>5
<1> QED BY <1>1, <1>2, <1>3, <1>4, <1>5 DEF LeaseNext

\* The row and the held times are well-formed, for any ttl and any age of calls.
THEOREM LeaseTypeCorrect == ASSUME LeaseAssumption PROVE LeaseSpec => []LeaseTypeOK
<1>1. LeaseInit => LeaseTypeOK
  BY LeaseTypeInit
<1>2. LeaseTypeOK /\ [LeaseNext]_leaseVars => LeaseTypeOK'
  BY LeaseTypeStep
<1> QED BY <1>1, <1>2, PTL DEF LeaseSpec

\* RuntimeLeaseService never lets two owners hold an unexpired lease, however
\* old their calls are when the UPDATE is executed.
THEOREM LeaseExclusive == ASSUME LeaseAssumption PROVE LeaseSpec => []LeaseIsExclusive
<1>1. LeaseInit => LeaseIsExclusive
  BY DEF LeaseInit, LeaseIsExclusive
<1>2. LeaseTypeOK /\ LeaseIsExclusive /\ [LeaseNext]_leaseVars => LeaseIsExclusive'
  BY ExclusiveStep
<1> QED BY <1>1, <1>2, LeaseTypeCorrect, PTL DEF LeaseSpec

=============================================================================
