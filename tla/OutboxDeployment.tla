-------------------------- MODULE OutboxDeployment --------------------------
(***************************************************************************)
(* The dispatcher processes as they are put together: the worker of        *)
(* DispatcherWorker creates an application context of                      *)
(* OutboxDispatcherModule (apps/api/src/outbox/outbox-dispatcher.module.ts) *)
(* when it is leader.  The module only provides OutboxDispatcherService;   *)
(* nothing in the context, the worker or the rest of apps/api calls        *)
(* drainOnce.  So the steps of this system are the worker's, the           *)
(* trigger's rows stay as they are, and no step of a run is taken.         *)
(***************************************************************************)
EXTENDS DispatcherWorker

CONSTANTS Row, Unknown, Limit, MaxAttempts, StaleLock, RetryDelay

VARIABLES outbox, queued, pc, batch, snap, late, unsure, drainFaults

all   == <<vars, outbox, queued, pc, batch, snap, late, unsure, drainFaults>>
table == <<outbox, queued, pc, batch, snap, late, unsure, drainFaults>>

Dispatcher == INSTANCE OutboxDispatcher WITH Worker <- Process, faults <- drainFaults

\* The rows are as a dispatcher left them that stopped after its claim, longer
\* than OUTBOX_STALE_LOCK_MS ago.
DeployedInit ==
  /\ Init
  /\ Dispatcher!Init
     \/ /\ outbox = [r \in Row |-> [Dispatcher!NewRow EXCEPT !.status = "PROCESSING",
                                                            !.age = StaleLock + 1]]
        /\ queued = {} /\ late = {} /\ unsure = {} /\ drainFaults = 0
        /\ pc = [p \in Process |-> "idle"]
        /\ batch = [p \in Process |-> {}]
        /\ snap = [p \in Process |-> [r \in Row |-> 0]]

DeployedNext ==
  \/ Next /\ UNCHANGED table
  \/ Dispatcher!Tick /\ UNCHANGED vars

Deployed ==
  /\ DeployedInit
  /\ [][DeployedNext]_all
  /\ WF_all(Tick /\ UNCHANGED table)
  /\ \A p \in Process :
       /\ WF_all(Stop(p) /\ UNCHANGED table)
       /\ \A s \in Slot : WF_all(Advance(p, s) /\ UNCHANGED table)

\* outbox_crash_recovery_proof.mjs: a row whose lock is stale is recovered and
\* sent ("timeout waiting for recovered outbox row to be sent").
StaleRowIsSent == \A r \in Row : Dispatcher!Stale(r) ~> outbox[r].status = "SENT"

=============================================================================
