----------------------- MODULE DispatcherWorkerProofs -----------------------
(***************************************************************************)
(* The dispatcher processes use the lease as RuntimeLease specifies it, so *)
(* what is proved of the lease holds for them, however many they are and   *)
(* however their steps overlap, fail, crash and restart.                   *)
(***************************************************************************)
EXTENDS DispatcherWorker, RuntimeLeaseProofs

Slots == Slot \cup {STOP}

CallsTyped == call \in [Process -> [Slots -> Call]]

RestTyped ==
  /\ up \subseteq Process
  /\ app \in [Process -> Context \cup {NULL}]
  /\ contexts \in [Process -> SUBSET Context]
  /\ faults \in 0..MaxFaults

LEMMA GotoType ==
  ASSUME LeaseAssumption, TypeOK, NEW p \in Process, NEW s \in Slots, NEW a \in Await,
         NEW ctx \in Context \cup {NULL}, Goto(p, s, a, ctx)
  PROVE  CallsTyped'
<1>1. 0 \in 0..MaxLag
  BY DEF LeaseAssumption
<1>2. [at |-> a, lag |-> 0, ctx |-> ctx] \in Call
  BY <1>1 DEF Call
<1> QED BY <1>2 DEF Goto, TypeOK, CallsTyped, Slots

LEMMA FaultType ==
  ASSUME WorkerAssumption, TypeOK, Fault PROVE faults' \in 0..MaxFaults
BY DEF WorkerAssumption, TypeOK, Fault

LEMMA CallParts ==
  ASSUME TypeOK, NEW p \in Process, NEW s \in Slots
  PROVE  /\ call[p][s].lag \in 0..MaxLag
         /\ call[p][s].ctx \in Context \cup {NULL}
         /\ app[p] \in Context \cup {NULL}
BY DEF TypeOK, Call, Slots

\* Every step of the workers is a step of the lease, or leaves it alone.
LEMMA LeaseStep ==
  ASSUME LeaseAssumption, TypeOK, [Next]_vars PROVE [LeaseNext]_leaseVars
<1> USE CallParts DEF LeaseNext, leaseVars, Slots
<1>1. ASSUME NEW p \in Process, NEW s \in Slots, Granted(p, s) PROVE LeaseNext
  BY <1>1 DEF Granted
<1>2. ASSUME NEW p \in Process, NEW s \in Slots, Released(p, s) PROVE [LeaseNext]_leaseVars
  BY <1>2 DEF Released
<1>3. ASSUME NEW p \in Process, ShutdownReleased(p) PROVE [LeaseNext]_leaseVars
  BY <1>3 DEF ShutdownReleased
<1>4. ASSUME NEW p \in Process, Exit(p) \/ Crash(p) PROVE LeaseNext
  BY <1>4 DEF Exit, Crash
<1>5. CASE Tick
  BY <1>5 DEF Tick
<1>6. ASSUME NEW p \in Process, NEW s \in Slots,
             Step(p, s) \/ Missed(p, s) \/ Reread(p, s) \/ Booted(p, s)
             \/ Closed(p, s) \/ CloseIgnored(p, s) \/ BootFails(p, s) \/ StepFails(p, s)
      PROVE  UNCHANGED leaseVars
  BY <1>6 DEF Step, Missed, Reread, Booted, Closed, CloseIgnored, BootFails, StepFails
<1>7. ASSUME NEW p \in Process, Shutdown(p) \/ Restart(p) PROVE UNCHANGED leaseVars
  BY <1>7 DEF Shutdown, Restart
<1>8. CASE UNCHANGED vars
  BY <1>8 DEF vars
<1> QED BY <1>1, <1>2, <1>3, <1>4, <1>5, <1>6, <1>7, <1>8 DEF Next, Advance, Stop

LEMMA EndedType ==
  ASSUME LeaseAssumption, TypeOK, NEW p \in Process, Ended(p)
  PROVE  /\ up' \subseteq Process
         /\ app' \in [Process -> Context \cup {NULL}]
         /\ contexts' \in [Process -> SUBSET Context]
         /\ CallsTyped'
<1>1. 0 \in 0..MaxLag
  BY DEF LeaseAssumption
<1>2. Idle \in Call
  BY <1>1 DEF Idle, Call, Await
<1> QED BY <1>2 DEF Ended, TypeOK, CallsTyped, Slots

LEMMA TypeStep ==
  ASSUME LeaseAssumption, WorkerAssumption, TypeOK, [Next]_vars PROVE TypeOK'
<1>0. LeaseTypeOK'
  BY LeaseStep, LeaseTypeStep DEF TypeOK
<1>1. ASSUME NEW p \in Process, NEW s \in Slot, Advance(p, s) PROVE RestTyped' /\ CallsTyped'
  <2> USE CallParts, GotoType DEF TypeOK, Await, Slots, RestTyped
  <2>1. CASE Step(p, s)
    BY <2>1 DEF Step
  <2>2. CASE Granted(p, s)
    BY <2>2 DEF Granted
  <2>3. CASE Missed(p, s)
    BY <2>3 DEF Missed
  <2>4. CASE Reread(p, s)
    BY <2>4 DEF Reread
  <2>5. CASE Booted(p, s)
    <3>1. PICK c \in Context \ contexts[p] :
            /\ contexts' = [contexts EXCEPT ![p] = contexts[p] \cup {c}]
            /\ app' = [app EXCEPT ![p] = c]
      BY <2>5 DEF Booted
    <3>2. contexts' \in [Process -> SUBSET Context] /\ app' \in [Process -> Context \cup {NULL}]
      BY <3>1
    <3> QED BY <2>5, <3>2 DEF Booted
  <2>6. CASE Closed(p, s)
    BY <2>6 DEF Closed
  <2>7. CASE Released(p, s)
    BY <2>7, FaultType DEF Released
  <2> QED BY <1>1, <2>1, <2>2, <2>3, <2>4, <2>5, <2>6, <2>7 DEF Advance
<1>2. ASSUME NEW p \in Process, NEW s \in Slots,
             BootFails(p, s) \/ StepFails(p, s) \/ CloseIgnored(p, s)
      PROVE  RestTyped' /\ CallsTyped'
  <2> USE <1>2, CallParts, GotoType, FaultType DEF TypeOK, Await, Slots, RestTyped
  <2>1. CASE BootFails(p, s)
    BY <2>1 DEF BootFails
  <2>2. CASE StepFails(p, s)
    <3>1. contexts' \in [Process -> SUBSET Context]
      BY <2>2 DEF StepFails
    <3> QED BY <2>2, <3>1 DEF StepFails
  <2>3. CASE CloseIgnored(p, s)
    BY <2>3 DEF CloseIgnored
  <2> QED BY <2>1, <2>2, <2>3
<1>3. ASSUME NEW p \in Process, Stop(p) PROVE RestTyped' /\ CallsTyped'
  <2> USE CallParts, GotoType DEF TypeOK, Await, Slots, RestTyped
  <2>1. CASE Closed(p, STOP)
    BY <2>1 DEF Closed
  <2>2. CASE ShutdownReleased(p)
    BY <2>2, FaultType DEF ShutdownReleased
  <2>3. CASE Exit(p)
    BY <2>3, EndedType DEF Exit
  <2> QED BY <1>3, <2>1, <2>2, <2>3 DEF Stop
<1>4. ASSUME NEW p \in Process, Shutdown(p) PROVE RestTyped' /\ CallsTyped'
  BY <1>4, CallParts, GotoType, FaultType DEF TypeOK, Await, Slots, RestTyped, Shutdown
<1>5. ASSUME NEW p \in Process, Crash(p) PROVE RestTyped' /\ CallsTyped'
  BY <1>5, EndedType, FaultType DEF Crash, RestTyped
<1>6. ASSUME NEW p \in Process, Restart(p) PROVE RestTyped' /\ CallsTyped'
  BY <1>6 DEF Restart, TypeOK, CallsTyped, Slots, RestTyped
<1>7. ASSUME Tick PROVE RestTyped' /\ CallsTyped'
  <2>1. ASSUME NEW p \in Process, NEW s \in Slots
        PROVE  call'[p][s] \in Call
    <3>1. call[p][s] \in Call /\ call[p][s].lag \in 0..MaxLag
      <4>1. call[p] \in [Slot \cup {STOP} -> Call]
        BY DEF TypeOK
      <4> QED BY <4>1, CallParts DEF Slots
    <3>2. CASE InUpdate(p, s)
      <4>1. call[p][s].lag < MaxLag
        BY <1>7, <3>2 DEF Tick, Slots
      <4>2. call[p][s].lag + 1 \in 0..MaxLag
        BY <3>1, <4>1 DEF LeaseAssumption
      <4>3. call'[p][s] = [call[p][s] EXCEPT !.lag = call[p][s].lag + 1]
        BY <1>7, <3>2 DEF Tick, Slots
      <4> QED BY <3>1, <4>2, <4>3 DEF Call
    <3>3. CASE ~InUpdate(p, s)
      BY <1>7, <3>1, <3>3 DEF Tick, Slots
    <3> QED BY <3>2, <3>3
  <2>2. CallsTyped'
    BY <1>7, <2>1 DEF Tick, CallsTyped, Slots
  <2> QED BY <1>7, <2>2 DEF Tick, TypeOK, RestTyped
<1>8. ASSUME UNCHANGED vars PROVE RestTyped' /\ CallsTyped'
  BY <1>8 DEF vars, TypeOK, CallsTyped, Slots, RestTyped
<1>9. RestTyped' /\ CallsTyped'
  BY <1>1, <1>2, <1>3, <1>4, <1>5, <1>6, <1>7, <1>8 DEF Next, Slots
<1> QED BY <1>0, <1>9 DEF TypeOK, CallsTyped, Slots, RestTyped

LEMMA TypeInit == ASSUME LeaseAssumption, WorkerAssumption, Init PROVE TypeOK
<1>1. 0 \in 0..MaxLag /\ 0 \in 0..MaxFaults
  BY DEF LeaseAssumption, WorkerAssumption
<1>2. Idle \in Call
  BY <1>1 DEF Idle, Call, Await
<1> QED BY <1>1, <1>2, LeaseTypeInit DEF Init, TypeOK

-----------------------------------------------------------------------------
(* The context a call closes is the one dispatcherApp refers to, when steps *)
(* do not overlap.  A shutdown may run beside the step: then either of     *)
(* them may find its context closed by the other, but no context is        *)
(* started in between, because a step that starts one has seen             *)
(* dispatcherApp null and nobody then has anything to close.               *)

NoOverlap == \A s, t \in Slot : s = t

\* What the one step of a process and its shutdown may rely on.
Closable(p) ==
  /\ contexts[p] \subseteq {app[p]} \cup Left(p)
  /\ call[p][STOP].at \in {"idle", "undo", "release", "exit"}
  /\ call[p][STOP].at = "undo" => app[p] \in {NULL, call[p][STOP].ctx}
  /\ \A s \in Slot :
       /\ call[p][s].at # "undo"
       /\ call[p][s].at = "boot" => app[p] = NULL
       /\ call[p][s].at = "close" => app[p] \in {NULL, call[p][s].ctx}
       /\ call[p][STOP].at = "undo" /\ app[p] = NULL => call[p][s].at = "idle"

ClosableInv == \A p \in Process : Closable(p)

\* One call of a process goes on: the others are as they were.
LEMMA GotoOthers ==
  ASSUME TypeOK, NEW p \in Process, NEW s \in Slots, NEW a, NEW ctx, Goto(p, s, a, ctx)
  PROVE  /\ call'[p][s].at = a /\ call'[p][s].ctx = ctx
         /\ \A t \in Slots \ {s} : call'[p][t] = call[p][t]
         /\ \A q \in Process \ {p} : call'[q] = call[q]
<1>1. \A q \in Process : call[q] \in [Slots -> Call]
  BY DEF TypeOK, Slots
<1> QED BY <1>1 DEF Goto, TypeOK

\* A process none of whose parts change.
LEMMA ClosableSame ==
  ASSUME NEW p \in Process, Closable(p),
         app'[p] = app[p], contexts'[p] = contexts[p],
         \A s \in Slots : call'[p][s].at = call[p][s].at /\ call'[p][s].ctx = call[p][s].ctx
  PROVE  Closable(p)'
BY DEF Closable, Left, Slots

\* The steps that wait for the lease start no context and leave dispatcherApp
\* as it is; one that finds it null may start a context.
LEMMA WaitKeeps ==
  ASSUME WorkerAssumption, TypeOK, NEW p \in Process, Closable(p), NEW s \in Slot,
         NEW a \in {"idle", "renew", "acquire", "reread", "boot", "release"},
         Goto(p, s, a, NULL), UNCHANGED app, contexts'[p] \subseteq contexts[p],
         a = "boot" => app[p] = NULL,
         a # "idle" => ~(call[p][STOP].at = "undo" /\ app[p] = NULL)
  PROVE  Closable(p)'
<1>1. s \in Slots /\ STOP \in Slots /\ s # STOP
  BY DEF Slots, WorkerAssumption
<1>2. call'[p][s].at = a /\ \A t \in Slots \ {s} : call'[p][t] = call[p][t]
  BY <1>1, GotoOthers
<1>3. call'[p][STOP] = call[p][STOP] /\ Left(p)' = Left(p)
  BY <1>1, <1>2 DEF Left
<1> QED BY <1>2, <1>3 DEF Closable, Slots

\* A step that missed the lease closes what dispatcherApp refers to.
LEMMA MissedKeeps ==
  ASSUME WorkerAssumption, TypeOK, NEW p \in Process, Closable(p), NEW s \in Slot,
         Missed(p, s)
  PROVE  Closable(p)'
<1>1. s \in Slots /\ STOP \in Slots /\ s # STOP
  BY DEF Slots, WorkerAssumption
<1>2. UNCHANGED <<app, contexts>>
  BY DEF Missed
<1>3. CASE app[p] = NULL
  BY <1>2, <1>3, WaitKeeps DEF Missed
<1>4. CASE app[p] # NULL
  <2>1. Goto(p, s, "close", app[p])
    BY <1>4 DEF Missed
  <2>2. /\ call'[p][s].at = "close" /\ call'[p][s].ctx = app[p]
        /\ \A t \in Slots \ {s} : call'[p][t] = call[p][t]
    BY <1>1, <2>1, GotoOthers
  <2>3. call'[p][STOP] = call[p][STOP] /\ Left(p)' = Left(p)
    BY <1>1, <2>2 DEF Left
  <2> QED BY <1>2, <1>4, <2>2, <2>3 DEF Closable, Slots
<1> QED BY <1>3, <1>4

\* The one step starts a context when dispatcherApp is null, and no shutdown is
\* closing.
LEMMA BootedKeeps ==
  ASSUME WorkerAssumption, NoOverlap, TypeOK, NEW p \in Process, Closable(p), NEW s \in Slot,
         Booted(p, s)
  PROVE  Closable(p)'
<1>1. s \in Slots /\ STOP \in Slots /\ s # STOP
  BY DEF Slots, WorkerAssumption
<1>2. PICK c \in Context \ contexts[p] :
        /\ contexts' = [contexts EXCEPT ![p] = contexts[p] \cup {c}]
        /\ app' = [app EXCEPT ![p] = c]
  BY DEF Booted
<1>3. call[p][s].at = "boot" /\ app[p] = NULL
  BY DEF Booted, At, Closable
<1>4. call[p][STOP].at # "undo"
  BY <1>3 DEF Closable
<1>5. app'[p] = c /\ contexts'[p] \subseteq {c} \cup Left(p) /\ c # NULL
  BY <1>2, <1>3 DEF Closable, TypeOK, WorkerAssumption
<1>6. call'[p][s].at = "idle" /\ call'[p][STOP] = call[p][STOP]
  BY <1>1, GotoOthers DEF Booted
<1>7. Left(p)' = Left(p)
  BY <1>6 DEF Left
<1>8. \A t \in Slot : t = s
  BY DEF NoOverlap
<1> QED BY <1>4, <1>5, <1>6, <1>7, <1>8 DEF Closable

\* Whoever closes a context closes the one that dispatcherApp refers to.
LEMMA ClosedKeeps ==
  ASSUME WorkerAssumption, NoOverlap, TypeOK, NEW p \in Process, Closable(p), NEW s \in Slots,
         Closed(p, s)
  PROVE  Closable(p)'
<1>1. STOP \in Slots /\ Slot \subseteq Slots /\ STOP \notin Slot
  BY DEF Slots, WorkerAssumption
<1>2. app[p] \in {NULL, call[p][s].ctx}
  BY DEF Closed, At, Closable, Slots
<1>3. contexts'[p] \subseteq {NULL} \cup Left(p) /\ app'[p] = NULL
  BY <1>2 DEF Closed, Closable, TypeOK
<1>4. CASE s = STOP
  <2>1. call'[p][STOP].at = "release" /\ \A t \in Slot : call'[p][t] = call[p][t]
    BY <1>1, <1>4, GotoOthers DEF Closed, At, Closable
  <2>2. Left(p) = {}
    BY <1>4 DEF Closed, At, Closable, Left
  <2> QED BY <1>3, <2>1, <2>2 DEF Closable
<1>5. CASE s # STOP
  <2>1. s \in Slot /\ call[p][s].at = "close"
    BY <1>5 DEF Closed, At, Closable, Slots
  <2>2. call'[p][s].at = "idle" /\ call'[p][STOP] = call[p][STOP]
    BY <1>1, <1>5, <2>1, GotoOthers DEF Closed
  <2>3. Left(p)' = Left(p)
    BY <2>2 DEF Left
  <2>4. \A t \in Slot : t = s
    BY <2>1 DEF NoOverlap
  <2> QED BY <1>3, <2>2, <2>3, <2>4 DEF Closable
<1> QED BY <1>4, <1>5

\* Only a shutdown gives up a context, and it remembers which.
LEMMA IgnoredKeeps ==
  ASSUME WorkerAssumption, TypeOK, NEW p \in Process, Closable(p), NEW s \in Slots,
         CloseIgnored(p, s)
  PROVE  Closable(p)'
<1>1. STOP \in Slots /\ Slot \subseteq Slots /\ STOP \notin Slot
  BY DEF Slots, WorkerAssumption
<1>2. s = STOP /\ call[p][STOP].at = "undo"
  BY DEF CloseIgnored, At, Closable, Slots
<1>3. contexts[p] \subseteq {NULL, call[p][STOP].ctx}
  BY <1>2 DEF Closable, Left
<1>4. /\ call'[p][STOP].at = "release" /\ call'[p][STOP].ctx = call[p][STOP].ctx
      /\ \A t \in Slot : call'[p][t] = call[p][t]
  BY <1>1, <1>2, GotoOthers DEF CloseIgnored
<1>5. app'[p] = NULL /\ contexts' = contexts
  BY DEF CloseIgnored, TypeOK
<1> QED BY <1>3, <1>4, <1>5 DEF Closable, Left

\* A step of the timer, and its failures.
LEMMA StepKeeps ==
  ASSUME WorkerAssumption, NoOverlap, TypeOK, NEW p \in Process, Closable(p), NEW s \in Slot,
         Advance(p, s) \/ BootFails(p, s) \/ StepFails(p, s)
  PROVE  Closable(p)'
<1>1. ASSUME Step(p, s) PROVE Closable(p)'
  <2>1. call[p][STOP].at = "idle" /\ UNCHANGED <<app, contexts>>
    BY <1>1 DEF Step, Stopping
  <2>2. Goto(p, s, "renew", NULL) \/ Goto(p, s, "acquire", NULL)
    BY <1>1 DEF Step
  <2> QED BY <2>1, <2>2, WaitKeeps
<1>2. ASSUME Granted(p, s) \/ Reread(p, s) PROVE Closable(p)'
  <2>1. call[p][s].at # "idle" /\ UNCHANGED <<app, contexts>>
    BY <1>2 DEF Granted, Reread, At
  <2>2. ~(call[p][STOP].at = "undo" /\ app[p] = NULL)
    BY <2>1 DEF Closable
  <2>3. \/ Goto(p, s, "reread", NULL)
        \/ Goto(p, s, "boot", NULL) /\ app[p] = NULL
        \/ Goto(p, s, "idle", NULL)
    BY <1>2 DEF Granted, Reread
  <2> QED BY <2>1, <2>2, <2>3, WaitKeeps
<1>3. ASSUME StepFails(p, s) \/ Released(p, s) PROVE Closable(p)'
  <2>1. UNCHANGED app /\ contexts'[p] \subseteq contexts[p]
    BY <1>3 DEF StepFails, Released, TypeOK
  <2> QED BY <1>3, <2>1, WaitKeeps DEF StepFails, Released
<1>4. ASSUME BootFails(p, s) PROVE Closable(p)'
  <2>1. call[p][s].at = "boot" /\ app[p] = NULL /\ UNCHANGED <<app, contexts>>
    BY <1>4 DEF BootFails, At, Closable
  <2>2. call[p][STOP].at # "undo"
    BY <2>1 DEF Closable
  <2>3. Goto(p, s, "release", NULL)
    BY <1>4, <2>1 DEF BootFails
  <2> QED BY <2>1, <2>2, <2>3, WaitKeeps
<1>5. s \in Slots
  BY DEF Slots
<1> QED BY <1>1, <1>2, <1>3, <1>4, <1>5, MissedKeeps, BootedKeeps, ClosedKeeps DEF Advance

\* A shutdown closes what runs when it is asked to stop.
LEMMA ShutdownKeeps ==
  ASSUME WorkerAssumption, TypeOK, NEW p \in Process, Closable(p),
         Shutdown(p) \/ ShutdownReleased(p)
  PROVE  Closable(p)'
<1>1. STOP \in Slots /\ Slot \subseteq Slots /\ STOP \notin Slot
  BY DEF Slots, WorkerAssumption
<1>2. UNCHANGED <<app, contexts>>
  BY DEF Shutdown, ShutdownReleased
<1>3. \/ Goto(p, STOP, "undo", app[p]) /\ app[p] # NULL
      \/ Goto(p, STOP, "release", app[p])
      \/ Goto(p, STOP, "exit", call[p][STOP].ctx)
  BY DEF Shutdown, ShutdownReleased
<1>4. PICK a \in {"undo", "release", "exit"}, ctx \in {app[p], call[p][STOP].ctx} :
        /\ Goto(p, STOP, a, ctx)
        /\ a = "undo" => ctx = app[p] /\ app[p] # NULL
        /\ a = "exit" => ctx = call[p][STOP].ctx
  BY <1>3
<1>5. /\ call'[p][STOP].at = a /\ call'[p][STOP].ctx = ctx
      /\ \A t \in Slot : call'[p][t] = call[p][t]
  BY <1>1, <1>4, GotoOthers
<1>6. CASE Shutdown(p)
  <2>1. Left(p) = {}
    BY <1>6 DEF Shutdown, Stopping, Left
  <2> QED BY <1>2, <1>4, <1>5, <2>1 DEF Closable
<1>7. CASE ShutdownReleased(p)
  <2>1. call'[p][STOP].at = "exit" /\ call'[p][STOP].ctx = call[p][STOP].ctx
    BY <1>1, <1>7, GotoOthers DEF ShutdownReleased
  <2>2. Left(p) \subseteq Left(p)'
    BY <2>1 DEF Left
  <2> QED BY <1>2, <1>5, <2>1, <2>2 DEF Closable
<1> QED BY <1>6, <1>7

LEMMA EndedKeeps ==
  ASSUME TypeOK, NEW p \in Process, Ended(p) PROVE Closable(p)'
<1>1. app'[p] = NULL /\ contexts'[p] = {}
  BY DEF Ended, TypeOK
<1>2. \A s \in Slots : call'[p][s] = Idle
  BY DEF Ended, TypeOK, Slots
<1> QED BY <1>1, <1>2 DEF Closable, Slots, Idle

\* No action of one process touches another.
LEMMA OthersStay ==
  ASSUME TypeOK, NEW p \in Process, NEW q \in Process \ {p}, Closable(q),
         \/ \E s \in Slot : Advance(p, s) \/ BootFails(p, s) \/ StepFails(p, s)
         \/ \E s \in Slots : CloseIgnored(p, s)
         \/ Stop(p) \/ Shutdown(p) \/ Crash(p)
  PROVE  Closable(q)'
<1>1. ASSUME Ended(p) PROVE call'[q] = call[q] /\ app'[q] = app[q] /\ contexts'[q] = contexts[q]
  BY <1>1 DEF Ended, TypeOK
<1>2. ASSUME NEW s \in Slots,
             \/ Advance(p, s) \/ BootFails(p, s) \/ StepFails(p, s)
             \/ Closed(p, s) \/ CloseIgnored(p, s) \/ ShutdownReleased(p) \/ Shutdown(p)
      PROVE  app'[q] = app[q] /\ contexts'[q] = contexts[q]
  BY <1>2 DEF Advance, Step, Granted, Missed, Reread, Booted, Closed, CloseIgnored, Released,
              BootFails, StepFails, ShutdownReleased, Shutdown, TypeOK
<1>3. ASSUME NEW s \in Slots,
             \/ Advance(p, s) \/ BootFails(p, s) \/ StepFails(p, s)
             \/ Closed(p, s) \/ CloseIgnored(p, s) \/ ShutdownReleased(p) \/ Shutdown(p)
      PROVE  call'[q] = call[q]
  BY <1>3 DEF Advance, Step, Granted, Missed, Reread, Booted, Closed, CloseIgnored, Released,
              BootFails, StepFails, ShutdownReleased, Shutdown, Goto, TypeOK
<1>4. STOP \in Slots /\ Slot \subseteq Slots
  BY DEF Slots
<1>5. call'[q] = call[q] /\ app'[q] = app[q] /\ contexts'[q] = contexts[q]
  BY <1>1, <1>2, <1>3, <1>4 DEF Stop, Exit, Crash
<1> QED BY <1>5, ClosableSame

LEMMA ClosableStep ==
  ASSUME LeaseAssumption, WorkerAssumption, NoOverlap, TypeOK, ClosableInv, [Next]_vars
  PROVE  ClosableInv'
<1> SUFFICES ASSUME NEW q \in Process PROVE Closable(q)'
  BY DEF ClosableInv
<1>0. Closable(q)
  BY DEF ClosableInv
<1>1. ASSUME NEW p \in Process, NEW s \in Slot,
             Advance(p, s) \/ BootFails(p, s) \/ StepFails(p, s)
      PROVE  Closable(q)'
  BY <1>0, <1>1, StepKeeps, OthersStay
<1>2. ASSUME NEW p \in Process, NEW s \in Slots, CloseIgnored(p, s) PROVE Closable(q)'
  BY <1>0, <1>2, IgnoredKeeps, OthersStay
<1>3. ASSUME NEW p \in Process, Stop(p) \/ Shutdown(p) \/ Crash(p) PROVE Closable(q)'
  <2>1. STOP \in Slots
    BY DEF Slots
  <2>2. CASE p = q
    BY <1>0, <1>3, <2>1, <2>2, ClosedKeeps, ShutdownKeeps, EndedKeeps DEF Stop, Exit, Crash
  <2>3. CASE p # q
    BY <1>0, <1>3, <2>3, OthersStay
  <2> QED BY <2>2, <2>3
<1>4. ASSUME NEW p \in Process, Restart(p) PROVE Closable(q)'
  BY <1>0, <1>4, ClosableSame DEF Restart
<1>5. ASSUME Tick PROVE Closable(q)'
  <2>1. ASSUME NEW s \in Slots
        PROVE  call'[q][s].at = call[q][s].at /\ call'[q][s].ctx = call[q][s].ctx
    <3>1. call[q][s] \in Call
      BY DEF TypeOK, Slots
    <3> QED BY <1>5, <3>1 DEF Tick, Slots, Call
  <2> QED BY <1>0, <1>5, <2>1, ClosableSame DEF Tick
<1>6. ASSUME UNCHANGED vars PROVE Closable(q)'
  BY <1>0, <1>6, ClosableSame DEF vars
<1> QED BY <1>1, <1>2, <1>3, <1>4, <1>5, <1>6 DEF Next, Slots

-----------------------------------------------------------------------------

\* Processes, contexts and calls under way are well-formed, for any number of
\* processes and of overlapping steps.
THEOREM WorkerTypeCorrect ==
  ASSUME LeaseAssumption, WorkerAssumption PROVE Spec => []TypeOK
<1>1. Init => TypeOK
  BY TypeInit
<1>2. TypeOK /\ [Next]_vars => TypeOK'
  BY TypeStep
<1> QED BY <1>1, <1>2, PTL DEF Spec

\* The dispatcher processes implement the lease specification: each of their
\* steps is a call of RuntimeLeaseService or leaves the lease alone.
THEOREM WorkersUseTheLease ==
  ASSUME LeaseAssumption, WorkerAssumption PROVE Spec => LeaseSpec
<1>1. Init => LeaseInit
  BY DEF Init
<1>2. TypeOK /\ [Next]_vars => [LeaseNext]_leaseVars
  BY LeaseStep
<1> QED BY <1>1, <1>2, WorkerTypeCorrect, PTL DEF Spec, LeaseSpec

\* So two dispatcher processes never both have an unexpired lease they wrote.
THEOREM WorkersLeaseExclusive ==
  ASSUME LeaseAssumption, WorkerAssumption PROVE Spec => []LeaseIsExclusive
BY WorkersUseTheLease, LeaseExclusive, PTL

\* While steps of a process do not overlap, a context that runs is the one
\* dispatcherApp refers to, or one that the shutdown of that process failed to
\* close: for any number of processes, shutdowns, crashes and failed calls.
THEOREM WorkerStrayOnlyAtExit ==
  ASSUME LeaseAssumption, WorkerAssumption PROVE Spec => []StrayOnlyAtExit
<1>1. CASE NoOverlap
  <2>1. ASSUME Init PROVE ClosableInv
    <3> SUFFICES ASSUME NEW p \in Process PROVE Closable(p)
      BY DEF ClosableInv
    <3>1. app[p] = NULL /\ contexts[p] = {}
      BY <2>1 DEF Init
    <3>2. \A s \in Slot \cup {STOP} : call[p][s].at = "idle"
      BY <2>1 DEF Init, Idle
    <3> QED BY <3>1, <3>2 DEF Closable, Left
  <2>2. TypeOK /\ ClosableInv /\ [Next]_vars => ClosableInv'
    BY <1>1, ClosableStep
  <2>3. ClosableInv => StrayOnlyAtExit
    BY DEF ClosableInv, Closable, StrayOnlyAtExit
  <2> QED BY <2>1, <2>2, <2>3, WorkerTypeCorrect, PTL DEF Spec
<1>2. CASE ~NoOverlap
  <2>1. StrayOnlyAtExit
    BY <1>2 DEF StrayOnlyAtExit, NoOverlap
  <2> QED BY <2>1, PTL
<1> QED BY <1>1, <1>2

=============================================================================
