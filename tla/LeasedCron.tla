----------------------------- MODULE LeasedCron -----------------------------
(***************************************************************************)
(* LeasedCronService.runWithLease                                          *)
(* (apps/api/src/scheduler/leased-cron.service.ts) for one job in several  *)
(* processes: every firing of the cron expression runs it.  A firing while *)
(* this process is still at the job is skipped; the others ask for the     *)
(* lease, run the task without renewing it, and release it.                *)
(***************************************************************************)
EXTENDS RuntimeLease, FiniteSets

CONSTANTS
  Slot,       \* firings of one process that may be under way at once
  MaxFaults   \* bound on crashes and failed calls

ASSUME CronAssumption == MaxFaults \in Nat

VARIABLES
  up,
  localRunning,  \* processes whose set localRunning has the lease key
  call,          \* what a firing is awaiting
  faults

vars == <<lease, held, up, localRunning, call, faults>>

Call == [at: {"idle", "acquire", "reread", "task", "release"}, lag: 0..MaxLag]
Idle == [at |-> "idle", lag |-> 0]

TypeOK ==
  /\ LeaseTypeOK
  /\ up \subseteq Process
  /\ localRunning \subseteq Process
  /\ call \in [Process -> [Slot -> Call]]
  /\ faults \in 0..MaxFaults

Init ==
  /\ LeaseInit
  /\ up = Process
  /\ localRunning = {}
  /\ call = [p \in Process |-> [s \in Slot |-> Idle]]
  /\ faults = 0

At(p, s, a) == p \in up /\ call[p][s].at = a
Goto(p, s, a) == call' = [call EXCEPT ![p][s] = [at |-> a, lag |-> 0]]
Fault == faults < MaxFaults /\ faults' = faults + 1

\* A firing that is not skipped.
Fire(p, s) ==
  /\ At(p, s, "idle")
  /\ p \notin localRunning
  /\ localRunning' = localRunning \cup {p}
  /\ Goto(p, s, "acquire")
  /\ UNCHANGED <<lease, held, up, faults>>

\* Mutated form of Granted: the update is by the key of the lease alone.
GrantedAnyway(p, s) ==
  /\ At(p, s, "acquire")
  /\ Write(p, call[p][s].lag)
  /\ Goto(p, s, "reread")
  /\ UNCHANGED <<up, localRunning, faults>>

Granted(p, s) ==
  /\ At(p, s, "acquire")
  /\ TryAcquire(p, call[p][s].lag)
  /\ Goto(p, s, "reread")
  /\ UNCHANGED <<up, localRunning, faults>>

\* The outer finally: the key leaves localRunning.
Return(p, s) ==
  /\ localRunning' = localRunning \ {p}
  /\ Goto(p, s, "idle")

Missed(p, s) ==
  /\ At(p, s, "acquire")
  /\ ~CanAcquire(p, call[p][s].lag)
  /\ Return(p, s)
  /\ UNCHANGED <<lease, held, up, faults>>

\* Mutated form of AcquireFails: the key is deleted after the try, not finally.
AcquireFailsLeaks(p, s) ==
  /\ At(p, s, "acquire") \/ At(p, s, "reread")
  /\ Fault
  /\ Goto(p, s, "idle")
  /\ UNCHANGED <<lease, held, up, localRunning>>

\* tryAcquire throws, the lease written or not: there is no grant to release.
AcquireFails(p, s) ==
  /\ At(p, s, "acquire") \/ At(p, s, "reread")
  /\ Fault
  /\ Return(p, s)
  /\ UNCHANGED <<lease, held, up>>

StartTask(p, s) ==
  /\ At(p, s, "reread")
  /\ Goto(p, s, "task")
  /\ UNCHANGED <<lease, held, up, localRunning, faults>>

\* The task resolves or rejects.
EndTask(p, s) ==
  /\ At(p, s, "task")
  /\ Goto(p, s, "release")
  /\ UNCHANGED <<lease, held, up, localRunning, faults>>

\* release returns, having found the lease still its own or not, or throws.
Released(p, s) ==
  /\ At(p, s, "release")
  /\ \/ Release(p, call[p][s].lag) /\ UNCHANGED faults
     \/ lease.owner # p /\ UNCHANGED <<lease, held, faults>>
     \/ Fault /\ UNCHANGED <<lease, held>>
  /\ Return(p, s)
  /\ UNCHANGED up

Crash(p) ==
  /\ p \in up
  /\ Fault
  /\ Gone(p)
  /\ up' = up \ {p}
  /\ localRunning' = localRunning \ {p}
  /\ call' = [call EXCEPT ![p] = [s \in Slot |-> Idle]]

\* A new process, with a new ownerId.
Restart(p) ==
  /\ p \notin up
  /\ up' = up \cup {p}
  /\ UNCHANGED <<lease, held, localRunning, call, faults>>

InUpdate(p, s) == call[p][s].at \in {"acquire", "release"}

Tick ==
  /\ \A p \in Process, s \in Slot : InUpdate(p, s) => call[p][s].lag < MaxLag
  /\ LeaseTick
  /\ call' = [p \in Process |-> [s \in Slot |->
                IF InUpdate(p, s) THEN [call[p][s] EXCEPT !.lag = call[p][s].lag + 1]
                ELSE call[p][s]]]
  /\ UNCHANGED <<up, localRunning, faults>>

Run(p, s) ==
  \/ Granted(p, s) \/ Missed(p, s) \/ StartTask(p, s)
  \/ EndTask(p, s) \/ Released(p, s)

Next ==
  \/ \E p \in Process, s \in Slot : Fire(p, s) \/ Run(p, s) \/ AcquireFails(p, s)
  \/ \E p \in Process : Crash(p) \/ Restart(p)
  \/ Tick

Spec == Init /\ [][Next]_vars

\* The cron of a process fires again and again, calls return and tasks end.
FairSpec ==
  /\ Spec
  /\ WF_vars(Tick)
  /\ \A p \in Process :
       /\ WF_vars(\E s \in Slot : Fire(p, s))
       /\ \A s \in Slot : WF_vars(Run(p, s))

-----------------------------------------------------------------------------
(* Properties.                                                             *)

InTask(p) == \E s \in Slot : At(p, s, "task")

\* Two firings run the task at once only in different processes (the lease would
\* not keep one process from it, as an owner is granted its own lease again), and
\* only when one of them has overrun the lease; the other, whose lease is good,
\* is not disturbed by the first one's late release.
OverlapNeedsOverrun ==
  \A p, q \in Process, s, t \in Slot :
    (At(p, s, "task") /\ At(q, t, "task") /\ <<p, s>> # <<q, t>>)
      => p # q /\ (held[p] = 0 \/ held[q] = 0)

\* As long as one process goes on the task is run again and again: failures,
\* crashes and overlaps leave no lease and no local mark behind for good.
JobKeepsRunning ==
  (\E p \in Process : <>[](p \in up)) => []<>(\E p \in Process : InTask(p))

=============================================================================
