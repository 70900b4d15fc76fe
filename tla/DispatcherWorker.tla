-------------------------- MODULE DispatcherWorker --------------------------
(***************************************************************************)
(* The processes of apps/api/src/outbox/outbox-dispatcher.worker.ts.  Each *)
(* runs step on a timer: it renews the lease if it has a dispatcher (an    *)
(* application context), else tries to acquire it, and starts or closes    *)
(* the dispatcher accordingly.  The timer does not wait for the step       *)
(* before, so steps of one process overlap (Slot).  A shutdown closes the  *)
(* dispatcher, releases the lease and exits; it runs beside a step that is *)
(* under way.                                                              *)
(***************************************************************************)
EXTENDS RuntimeLease, FiniteSets

CONSTANTS
  Slot,       \* steps of one process that may overlap
  STOP,       \* the slot of the shutdown handler
  Context,    \* application contexts a process can have at once
  MaxFaults,  \* bound on crashes, shutdowns and failed calls
  NULL

ASSUME WorkerAssumption ==
  /\ STOP \notin Slot
  /\ NULL \notin Context
  /\ MaxFaults \in Nat

VARIABLES
  up,        \* processes that run
  app,       \* dispatcherApp of a process
  contexts,  \* the application contexts that are running in a process
  call,      \* what a slot is awaiting
  faults

workerVars == <<up, app, contexts, call, faults>>
vars == <<lease, held, up, app, contexts, call, faults>>

Await == {"idle", "acquire", "renew", "reread", "boot", "close", "undo", "release", "exit"}
Call  == [at: Await, lag: 0..MaxLag, ctx: Context \cup {NULL}]
Idle  == [at |-> "idle", lag |-> 0, ctx |-> NULL]

TypeOK ==
  /\ LeaseTypeOK
  /\ up \subseteq Process
  /\ app \in [Process -> Context \cup {NULL}]
  /\ contexts \in [Process -> SUBSET Context]
  /\ call \in [Process -> [Slot \cup {STOP} -> Call]]
  /\ faults \in 0..MaxFaults

Init ==
  /\ LeaseInit
  /\ up = Process
  /\ app = [p \in Process |-> NULL]
  /\ contexts = [p \in Process |-> {}]
  /\ call = [p \in Process |-> [s \in Slot \cup {STOP} |-> Idle]]
  /\ faults = 0

Stopping(p) == call[p][STOP].at # "idle"
At(p, s, a) == p \in up /\ call[p][s].at = a
Goto(p, s, a, ctx) == call' = [call EXCEPT ![p][s] = [at |-> a, lag |-> 0, ctx |-> ctx]]
Fault == faults < MaxFaults /\ faults' = faults + 1

-----------------------------------------------------------------------------
(* step.                                                                   *)

Step(p, s) ==
  /\ At(p, s, "idle")
  /\ s # STOP /\ ~Stopping(p)
  /\ Goto(p, s, IF app[p] # NULL THEN "renew" ELSE "acquire", NULL)
  /\ UNCHANGED <<lease, held, up, app, contexts, faults>>

\* The UPDATE of the call affects the row: a grant, to be read back.
Granted(p, s) ==
  /\ \/ At(p, s, "acquire") /\ TryAcquire(p, call[p][s].lag)
     \/ At(p, s, "renew") /\ Renew(p, call[p][s].lag)
  /\ Goto(p, s, "reread", NULL)
  /\ UNCHANGED <<up, app, contexts, faults>>

\* Mutated form of Missed: a leader that misses a renewal waits for the next.
MissedIgnored(p, s) ==
  /\ \/ At(p, s, "acquire") /\ ~CanAcquire(p, call[p][s].lag)
     \/ At(p, s, "renew") /\ ~CanRenew(p, call[p][s].lag)
  /\ Goto(p, s, "idle", NULL)
  /\ UNCHANGED <<lease, held, up, app, contexts, faults>>

\* It does not: without a grant a dispatcher is closed (becomeFollower).
Missed(p, s) ==
  /\ \/ At(p, s, "acquire") /\ ~CanAcquire(p, call[p][s].lag)
     \/ At(p, s, "renew") /\ ~CanRenew(p, call[p][s].lag)
  /\ Goto(p, s, IF app[p] # NULL THEN "close" ELSE "idle", app[p])
  /\ UNCHANGED <<lease, held, up, app, contexts, faults>>

\* Mutated form of Reread: every grant starts a dispatcher.
RereadAlwaysBoots(p, s) ==
  /\ At(p, s, "reread")
  /\ Goto(p, s, "boot", NULL)
  /\ UNCHANGED <<lease, held, up, app, contexts, faults>>

\* The row is read again and, whoever it says owns the lease, the step starts a
\* dispatcher if there is none by now (becomeLeader).
Reread(p, s) ==
  /\ At(p, s, "reread")
  /\ Goto(p, s, IF app[p] = NULL THEN "boot" ELSE "idle", NULL)
  /\ UNCHANGED <<lease, held, up, app, contexts, faults>>

\* createApplicationContext returns; what dispatcherApp was is overwritten.
Booted(p, s) ==
  /\ At(p, s, "boot")
  /\ \E c \in Context \ contexts[p] :
       /\ contexts' = [contexts EXCEPT ![p] = contexts[p] \cup {c}]
       /\ app' = [app EXCEPT ![p] = c]
  /\ Goto(p, s, "idle", NULL)
  /\ UNCHANGED <<lease, held, up, faults>>

\* It throws: close what dispatcherApp refers to, and release the lease.
BootFails(p, s) ==
  /\ At(p, s, "boot")
  /\ Fault
  /\ Goto(p, s, IF app[p] # NULL THEN "undo" ELSE "release", app[p])
  /\ UNCHANGED <<lease, held, up, app, contexts>>

\* close() of a context returns, and dispatcherApp becomes null.
Closed(p, s) ==
  /\ At(p, s, "close") \/ At(p, s, "undo")
  /\ contexts' = [contexts EXCEPT ![p] = contexts[p] \ {call[p][s].ctx}]
  /\ app' = [app EXCEPT ![p] = NULL]
  /\ Goto(p, s, IF call[p][s].at = "undo" THEN "release" ELSE "idle", NULL)
  /\ UNCHANGED <<lease, held, up, faults>>

\* close() fails, and the shutdown handler and the catch of becomeLeader ignore
\* it: dispatcherApp becomes null although the context goes on.
CloseIgnored(p, s) ==
  /\ At(p, s, "undo")
  /\ Fault
  /\ app' = [app EXCEPT ![p] = NULL]
  /\ Goto(p, s, "release", call[p][s].ctx)
  /\ UNCHANGED <<lease, held, up, contexts>>

\* The catch of step: a call throws, before or after its effect, and the step
\* ends with dispatcherApp as it was.
StepFails(p, s) ==
  /\ \/ \E a \in {"acquire", "renew", "reread", "close"} : At(p, s, a) /\ UNCHANGED contexts
     \/ /\ At(p, s, "close")
        /\ contexts' = [contexts EXCEPT ![p] = contexts[p] \ {call[p][s].ctx}]
  /\ Fault
  /\ Goto(p, s, "idle", NULL)
  /\ UNCHANGED <<lease, held, up, app>>

Ended(p) ==
  /\ up' = up \ {p}
  /\ app' = [app EXCEPT ![p] = NULL]
  /\ contexts' = [contexts EXCEPT ![p] = {}]
  /\ call' = [call EXCEPT ![p] = [s \in Slot \cup {STOP} |-> Idle]]

\* release returns; its errors are ignored.  The shutdown handler then exits
\* (the row is written and never used under this ownerId again).
Released(p, s) ==
  /\ At(p, s, "release")
  /\ s # STOP
  /\ \/ Release(p, call[p][s].lag) /\ UNCHANGED faults
     \/ lease.owner # p /\ UNCHANGED <<lease, held, faults>>
     \/ Fault /\ UNCHANGED <<lease, held>>
  /\ Goto(p, s, "idle", NULL)
  /\ UNCHANGED <<up, app, contexts>>

-----------------------------------------------------------------------------
(* Shutdown, crash, restart and time.                                      *)

Shutdown(p) ==
  /\ p \in up
  /\ ~Stopping(p)
  /\ Fault
  /\ Goto(p, STOP, IF app[p] # NULL THEN "undo" ELSE "release", app[p])
  /\ UNCHANGED <<lease, held, up, app, contexts>>

ShutdownReleased(p) ==
  /\ At(p, STOP, "release")
  /\ \/ Release(p, call[p][STOP].lag) /\ UNCHANGED faults
     \/ lease.owner # p /\ UNCHANGED <<lease, held, faults>>
     \/ Fault /\ UNCHANGED <<lease, held>>
  /\ Goto(p, STOP, "exit", call[p][STOP].ctx)
  /\ UNCHANGED <<up, app, contexts>>

\* leaseApp is closed and the process exits.
Exit(p) ==
  /\ At(p, STOP, "exit")
  /\ Gone(p)
  /\ Ended(p)
  /\ UNCHANGED faults

Crash(p) ==
  /\ p \in up
  /\ Fault
  /\ Gone(p)
  /\ Ended(p)

\* A new process, with a new ownerId.
Restart(p) ==
  /\ p \notin up
  /\ up' = up \cup {p}
  /\ UNCHANGED <<lease, held, app, contexts, call, faults>>

InUpdate(p, s) == call[p][s].at \in {"acquire", "renew", "release"}

Tick ==
  /\ \A p \in Process, s \in Slot \cup {STOP} : InUpdate(p, s) => call[p][s].lag < MaxLag
  /\ LeaseTick
  /\ call' = [p \in Process |-> [s \in Slot \cup {STOP} |->
                IF InUpdate(p, s) THEN [call[p][s] EXCEPT !.lag = call[p][s].lag + 1]
                ELSE call[p][s]]]
  /\ UNCHANGED <<up, app, contexts, faults>>

Advance(p, s) ==
  Step(p, s) \/ Granted(p, s) \/ Missed(p, s) \/ Reread(p, s) \/ Booted(p, s)
  \/ Closed(p, s) \/ Released(p, s)

Stop(p) == Closed(p, STOP) \/ ShutdownReleased(p) \/ Exit(p)

Next ==
  \/ \E p \in Process, s \in Slot : Advance(p, s) \/ BootFails(p, s) \/ StepFails(p, s)
  \/ \E p \in Process, s \in Slot \cup {STOP} : CloseIgnored(p, s)
  \/ \E p \in Process : Stop(p) \/ Shutdown(p) \/ Crash(p) \/ Restart(p)
  \/ Tick

Spec == Init /\ [][Next]_vars

\* The timer of a process fires again and again and its calls return; signals,
\* crashes and restarts need not happen, and happen a bounded number of times.
FairSpec ==
  /\ Spec
  /\ WF_vars(Tick)
  /\ \A p \in Process : WF_vars(Stop(p)) /\ \A s \in Slot : WF_vars(Advance(p, s))

-----------------------------------------------------------------------------
(* Properties.                                                             *)

Leader(p) == contexts[p] # {}

\* The context whose close a shutdown has given up: it ends with the process.
Left(p) == IF call[p][STOP].at \in {"release", "exit"} THEN {call[p][STOP].ctx} ELSE {}

\* While steps do not overlap, a context that runs is the one dispatcherApp
\* refers to, so that a process that loses the lease can close it, whatever
\* failed before; a context that nobody can close any more is one that the
\* shutdown of its process failed to close, and that process is about to exit.
StrayOnlyAtExit ==
  (\A s, t \in Slot : s = t) => \A p \in Process : contexts[p] \subseteq {app[p]} \cup Left(p)

\* A process that runs a dispatcher and has lost the lease closes it, unless it
\* gets the lease again.
LeaderStepsDown ==
  \A p \in Process : Leader(p) /\ lease.owner # p ~> ~Leader(p) \/ lease.owner = p

\* As long as one process goes on there is a dispatcher again and again,
\* whatever became of the others and whoever the row still names.
FailOver ==
  (\E p \in Process : <>[](p \in up /\ ~Stopping(p))) => []<>(\E p \in Process : Leader(p))

\* outbox_multi_instance_lease_proof.mjs waits for a process that has become
\* leader exactly once.
OneContext == \A p \in Process : Cardinality(contexts[p]) <= 1

=============================================================================
