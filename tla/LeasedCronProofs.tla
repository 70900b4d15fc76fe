-------------------------- MODULE LeasedCronProofs --------------------------
(***************************************************************************)
(* The leased cron jobs, proved for any number of processes, of firings    *)
(* under way, of faults, and for calls of any age: they use the lease as   *)
(* RuntimeLease specifies it, and a process is at the job at most once.    *)
(***************************************************************************)
EXTENDS LeasedCron, RuntimeLeaseProofs

CallsTyped == call \in [Process -> [Slot -> Call]]

RestTyped ==
  /\ up \subseteq Process
  /\ localRunning \subseteq Process
  /\ faults \in 0..MaxFaults

LEMMA GotoType ==
  ASSUME LeaseAssumption, TypeOK, NEW p \in Process, NEW s \in Slot,
         NEW a \in {"idle", "acquire", "reread", "task", "release"}, Goto(p, s, a)
  PROVE  CallsTyped'
<1>1. 0 \in 0..MaxLag
  BY DEF LeaseAssumption
<1>2. [at |-> a, lag |-> 0] \in Call
  BY <1>1 DEF Call
<1> QED BY <1>2 DEF Goto, TypeOK, CallsTyped

LEMMA FaultType ==
  ASSUME CronAssumption, TypeOK, Fault PROVE faults' \in 0..MaxFaults
BY DEF CronAssumption, TypeOK, Fault

LEMMA CallParts ==
  ASSUME TypeOK, NEW p \in Process, NEW s \in Slot
  PROVE  call[p][s] \in Call /\ call[p][s].lag \in 0..MaxLag
<1>1. call[p] \in [Slot -> Call]
  BY DEF TypeOK
<1> QED BY <1>1 DEF Call

\* Every step of the jobs is a step of the lease, or leaves it alone.
LEMMA LeaseStep ==
  ASSUME LeaseAssumption, TypeOK, [Next]_vars PROVE [LeaseNext]_leaseVars
<1> USE CallParts DEF LeaseNext, leaseVars
<1>1. ASSUME NEW p \in Process, NEW s \in Slot, Granted(p, s) PROVE LeaseNext
  BY <1>1 DEF Granted
<1>2. ASSUME NEW p \in Process, NEW s \in Slot, Released(p, s) PROVE [LeaseNext]_leaseVars
  BY <1>2 DEF Released
<1>3. ASSUME NEW p \in Process, Crash(p) PROVE LeaseNext
  BY <1>3 DEF Crash
<1>4. CASE Tick
  BY <1>4 DEF Tick
<1>5. ASSUME NEW p \in Process, NEW s \in Slot,
             Fire(p, s) \/ Missed(p, s) \/ StartTask(p, s) \/ EndTask(p, s) \/ AcquireFails(p, s)
      PROVE  UNCHANGED leaseVars
  BY <1>5 DEF Fire, Missed, StartTask, EndTask, AcquireFails
<1>6. ASSUME NEW p \in Process, Restart(p) PROVE UNCHANGED leaseVars
  BY <1>6 DEF Restart
<1>7. CASE UNCHANGED vars
  BY <1>7 DEF vars
<1> QED BY <1>1, <1>2, <1>3, <1>4, <1>5, <1>6, <1>7 DEF Next, Run

LEMMA TypeStep ==
  ASSUME LeaseAssumption, CronAssumption, TypeOK, [Next]_vars PROVE TypeOK'
<1>0. LeaseTypeOK'
  BY LeaseStep, LeaseTypeStep DEF TypeOK
<1>1. ASSUME NEW p \in Process, NEW s \in Slot, Fire(p, s) \/ Run(p, s) \/ AcquireFails(p, s)
      PROVE  RestTyped' /\ CallsTyped'
  <2> USE GotoType DEF TypeOK, RestTyped, Return
  <2>1. CASE Fire(p, s)
    BY <2>1 DEF Fire
  <2>2. CASE Granted(p, s)
    BY <2>2 DEF Granted
  <2>3. CASE Missed(p, s)
    BY <2>3 DEF Missed
  <2>4. CASE StartTask(p, s)
    BY <2>4 DEF StartTask
  <2>5. CASE EndTask(p, s)
    BY <2>5 DEF EndTask
  <2>6. CASE Released(p, s)
    BY <2>6, FaultType DEF Released
  <2>7. CASE AcquireFails(p, s)
    BY <2>7, FaultType DEF AcquireFails
  <2> QED BY <1>1, <2>1, <2>2, <2>3, <2>4, <2>5, <2>6, <2>7 DEF Run
<1>2. ASSUME NEW p \in Process, Crash(p) PROVE RestTyped' /\ CallsTyped'
  <2>1. 0 \in 0..MaxLag
    BY DEF LeaseAssumption
  <2>2. Idle \in Call
    BY <2>1 DEF Idle, Call
  <2> QED BY <1>2, <2>2, FaultType DEF Crash, TypeOK, RestTyped, CallsTyped
<1>3. ASSUME NEW p \in Process, Restart(p) PROVE RestTyped' /\ CallsTyped'
  BY <1>3 DEF Restart, TypeOK, RestTyped, CallsTyped
<1>4. ASSUME Tick PROVE RestTyped' /\ CallsTyped'
  <2>1. ASSUME NEW p \in Process, NEW s \in Slot PROVE call'[p][s] \in Call
    <3>1. CASE InUpdate(p, s)
      <4>1. call[p][s].lag < MaxLag
        BY <1>4, <3>1 DEF Tick
      <4>2. call[p][s].lag + 1 \in 0..MaxLag
        BY <4>1, CallParts DEF LeaseAssumption
      <4>3. call'[p][s] = [call[p][s] EXCEPT !.lag = call[p][s].lag + 1]
        BY <1>4, <3>1 DEF Tick
      <4> QED BY <4>2, <4>3, CallParts DEF Call
    <3>2. CASE ~InUpdate(p, s)
      BY <1>4, <3>2, CallParts DEF Tick
    <3> QED BY <3>1, <3>2
  <2>2. CallsTyped'
    BY <1>4, <2>1 DEF Tick, CallsTyped
  <2> QED BY <1>4, <2>2 DEF Tick, TypeOK, RestTyped
<1>5. ASSUME UNCHANGED vars PROVE RestTyped' /\ CallsTyped'
  BY <1>5 DEF vars, TypeOK, CallsTyped, RestTyped
<1>6. RestTyped' /\ CallsTyped'
  BY <1>1, <1>2, <1>3, <1>4, <1>5 DEF Next
<1> QED BY <1>0, <1>6 DEF TypeOK, CallsTyped, RestTyped

LEMMA TypeInit == ASSUME LeaseAssumption, CronAssumption, Init PROVE TypeOK
<1>1. 0 \in 0..MaxLag /\ 0 \in 0..MaxFaults
  BY DEF LeaseAssumption, CronAssumption
<1>2. Idle \in Call
  BY <1>1 DEF Idle, Call
<1> QED BY <1>1, <1>2, LeaseTypeInit DEF Init, TypeOK

-----------------------------------------------------------------------------
(* localRunning keeps a process from being at the job twice.  The lease    *)
(* would not: it is granted to its owner again.                            *)

Busy(p, s) == call[p][s].at # "idle"

OneFiring ==
  \A p \in Process : \A s \in Slot :
    Busy(p, s) => /\ p \in localRunning
                  /\ \A t \in Slot \ {s} : ~Busy(p, t)

\* One firing of a process goes on: the others are as they were.
LEMMA GotoOthers ==
  ASSUME TypeOK, NEW p \in Process, NEW s \in Slot, NEW a, Goto(p, s, a)
  PROVE  /\ call'[p][s].at = a
         /\ \A q \in Process, t \in Slot : q # p \/ t # s => call'[q][t] = call[q][t]
<1>1. \A q \in Process : call[q] \in [Slot -> Call]
  BY DEF TypeOK
<1> QED BY <1>1 DEF Goto, TypeOK

\* A firing that is under way goes on, with its mark.
LEMMA ContinueKeeps ==
  ASSUME TypeOK, OneFiring, NEW p \in Process, NEW s \in Slot, NEW a,
         Busy(p, s), Goto(p, s, a), localRunning' = localRunning
  PROVE  OneFiring'
BY GotoOthers DEF OneFiring, Busy

\* A firing that was under way returns: no other one of its process is left.
LEMMA ReturnKeeps ==
  ASSUME TypeOK, OneFiring, NEW p \in Process, NEW s \in Slot, Busy(p, s), Return(p, s)
  PROVE  OneFiring'
BY GotoOthers DEF OneFiring, Busy, Return

LEMMA OneFiringStep ==
  ASSUME TypeOK, OneFiring, [Next]_vars PROVE OneFiring'
<1>1. ASSUME NEW p \in Process, NEW s \in Slot, Fire(p, s) PROVE OneFiring'
  <2>1. p \notin localRunning /\ localRunning' = localRunning \cup {p} /\ Goto(p, s, "acquire")
    BY <1>1 DEF Fire
  <2>2. \A t \in Slot : ~Busy(p, t)
    BY <2>1 DEF OneFiring
  <2> QED BY <2>1, <2>2, GotoOthers DEF OneFiring, Busy
<1>2. ASSUME NEW p \in Process, NEW s \in Slot, Granted(p, s) \/ StartTask(p, s) \/ EndTask(p, s)
      PROVE  OneFiring'
  <2>1. Busy(p, s) /\ localRunning' = localRunning
    BY <1>2 DEF Granted, StartTask, EndTask, At, Busy
  <2>2. Goto(p, s, "reread") \/ Goto(p, s, "task") \/ Goto(p, s, "release")
    BY <1>2 DEF Granted, StartTask, EndTask
  <2> QED BY <2>1, <2>2, ContinueKeeps
<1>3. ASSUME NEW p \in Process, NEW s \in Slot,
             Missed(p, s) \/ AcquireFails(p, s) \/ Released(p, s)
      PROVE  OneFiring'
  <2>1. Busy(p, s) /\ Return(p, s)
    BY <1>3 DEF Missed, AcquireFails, Released, At, Busy
  <2> QED BY <2>1, ReturnKeeps
<1>4. ASSUME NEW p \in Process, Crash(p) PROVE OneFiring'
  <2>1. \A s \in Slot : ~Busy(p, s)'
    BY <1>4 DEF Crash, Busy, Idle, TypeOK
  <2>2. \A q \in Process \ {p}, s \in Slot : call'[q][s] = call[q][s]
    BY <1>4 DEF Crash, TypeOK
  <2>3. localRunning' = localRunning \ {p}
    BY <1>4 DEF Crash
  <2> QED BY <2>1, <2>2, <2>3 DEF OneFiring, Busy
<1>5. ASSUME NEW p \in Process, Restart(p) PROVE OneFiring'
  BY <1>5 DEF Restart, OneFiring, Busy
<1>6. CASE Tick
  <2>1. \A q \in Process, t \in Slot : call'[q][t].at = call[q][t].at
    <3> SUFFICES ASSUME NEW q \in Process, NEW t \in Slot PROVE call'[q][t].at = call[q][t].at
      OBVIOUS
    <3>1. call[q][t] \in Call
      BY CallParts
    <3> QED BY <1>6, <3>1 DEF Tick, Call
  <2> QED BY <1>6, <2>1 DEF Tick, OneFiring, Busy
<1>7. CASE UNCHANGED vars
  BY <1>7 DEF vars, OneFiring, Busy
<1> QED BY <1>1, <1>2, <1>3, <1>4, <1>5, <1>6, <1>7 DEF Next, Run

-----------------------------------------------------------------------------

\* Firings, local marks and the row are well-formed, for any number of processes
\* and of firings under way.
THEOREM CronTypeCorrect ==
  ASSUME LeaseAssumption, CronAssumption PROVE Spec => []TypeOK
<1>1. Init => TypeOK
  BY TypeInit
<1>2. TypeOK /\ [Next]_vars => TypeOK'
  BY TypeStep
<1> QED BY <1>1, <1>2, PTL DEF Spec

\* The jobs implement the lease specification: each of their steps is a call of
\* RuntimeLeaseService or leaves the lease alone.
THEOREM CronUsesTheLease ==
  ASSUME LeaseAssumption, CronAssumption PROVE Spec => LeaseSpec
<1>1. Init => LeaseInit
  BY DEF Init
<1>2. TypeOK /\ [Next]_vars => [LeaseNext]_leaseVars
  BY LeaseStep
<1> QED BY <1>1, <1>2, CronTypeCorrect, PTL DEF Spec, LeaseSpec

\* runWithLease is at the job at most once in a process, whatever fails.
THEOREM CronOneFiring ==
  ASSUME LeaseAssumption, CronAssumption PROVE Spec => []OneFiring
<1>1. Init => OneFiring
  BY DEF Init, OneFiring, Busy, Idle
<1>2. TypeOK /\ OneFiring /\ [Next]_vars => OneFiring'
  BY OneFiringStep
<1> QED BY <1>1, <1>2, CronTypeCorrect, PTL DEF Spec

\* So the task runs twice at once only in two processes, one of which has
\* overrun its lease.
THEOREM CronOverlapNeedsOverrun ==
  ASSUME LeaseAssumption, CronAssumption PROVE Spec => []OverlapNeedsOverrun
<1>1. TypeOK /\ OneFiring /\ LeaseIsExclusive => OverlapNeedsOverrun
  <2> SUFFICES ASSUME TypeOK, OneFiring, LeaseIsExclusive,
                      NEW p \in Process, NEW q \in Process, NEW s \in Slot, NEW t \in Slot,
                      At(p, s, "task"), At(q, t, "task"), <<p, s>> # <<q, t>>
               PROVE  p # q /\ (held[p] = 0 \/ held[q] = 0)
    BY DEF OverlapNeedsOverrun
  <2>1. p # q
    BY DEF OneFiring, Busy, At
  <2>2. held[p] \in Nat /\ held[q] \in Nat
    BY DEF TypeOK, LeaseTypeOK, LeaseAssumption
  <2> QED BY <2>1, <2>2 DEF LeaseIsExclusive
<1> QED BY <1>1, CronTypeCorrect, CronOneFiring, CronUsesTheLease, LeaseExclusive, PTL

=============================================================================
