------------------------ MODULE QueueConsumersProofs ------------------------
(***************************************************************************)
(* The consumers write an event once and acknowledge nothing unwritten,    *)
(* proved for any number of jobs, workers, attempts and faults.  The lock  *)
(* in Redis does not know its owner, so what has to be shown is that a run *)
(* that no longer has it does no harm: by then the event is done, or the   *)
(* loss is on record in unsure.                                            *)
(***************************************************************************)
EXTENDS QueueConsumers, TLAPS

\* A job that BullMQ may still give out has attempts left.
Retryable ==
  \A j \in Job :
    /\ job[j].state # "failed" => job[j].made < Attempts /\ job[j].stalls <= MaxStalled
    /\ job[j].by # NULL => job[j].state = "active"

\* Only jobs of the event are inside runOnce.
InRunOnce ==
  \A w \in Worker :
    /\ run[w].at \in {"check", "lock", "busy", "recheck", "record", "unlock"}
         => run[w].job \in Keyed
    /\ run[w].at = "handler" => run[w].job \in Keyed \cup Keyless

\* The run of w is between its SET and its DEL of the lock.
Guarded(w) == /\ run[w].at \in {"recheck", "handler", "record", "unlock"}
              /\ run[w].job \in Keyed

LockIsThere == \A w \in Worker : lockedBy = w => lock > 0 /\ Guarded(w)

Written == \E j \in Keyed : writes[j] > 0

\* What is known of a run by where it is, while nothing is unsure.
GuardedHasLock  == \A w \in Worker : Guarded(w) => lockedBy = w \/ done
HandlerNotDone  == \A w \in Worker : Guarded(w) /\ At(w, "handler") => ~done
RecordedOrAbout == Written => done \/ \E w \in Worker : At(w, "record")

Sure == unsure \cap Keyed = {}

\* Whether or not something is unsure: what is done was written, and a run that
\* succeeds is through with its event or its line.
DoneWasWritten ==
  /\ done => Written
  /\ \A w \in Worker :
       /\ At(w, "record") => Written
       /\ At(w, "unlock") /\ run[w].ok => done
       /\ At(w, "end") /\ run[w].ok =>
            IF run[w].job \in Keyless THEN writes[run[w].job] > 0 ELSE done

\* Nothing is taken back: lines in the sink, the done key, what is unsure.
Grows == /\ \A j \in Job : writes'[j] >= writes[j]
         /\ done => done'
         /\ unsure \subseteq unsure'

Consumption ==
  /\ TypeOK /\ Retryable /\ InRunOnce /\ LockIsThere /\ DoneWasWritten
  /\ CompletedWasWritten
  /\ Sure => GuardedHasLock /\ HandlerNotDone /\ RecordedOrAbout
  /\ WrittenOnce

-----------------------------------------------------------------------------
(* Types.                                                                  *)

\* A run that goes on to a, with the outcome b.
LEMMA RunGoesOn ==
  ASSUME TypeOK, NEW w \in Worker, run[w].at # "idle", NEW b \in BOOLEAN,
         NEW a \in {"route", "check", "lock", "busy", "recheck", "handler",
                    "record", "unlock", "end"},
         End(w, a, b) \/ Goto(w, a)
  PROVE  /\ run' \in [Worker -> Run]
         /\ \A v \in Worker : run'[v].at = "idle" <=> run'[v].job = NULL
<1>1. CASE End(w, a, b)
  <2>1. run' = [run EXCEPT ![w] = [run[w] EXCEPT !.at = a, !.ok = b]]
    BY <1>1 DEF End
  <2>2. [run[w] EXCEPT !.at = a, !.ok = b] \in Run /\ run[w].job # NULL
    <3>1. run[w] \in Run /\ run[w].job # NULL
      BY DEF TypeOK
    <3> QED BY <3>1 DEF Run
  <2>3. QED
    BY <2>1, <2>2 DEF TypeOK
<1>2. CASE Goto(w, a)
  BY <1>2 DEF Goto, TypeOK, Run
<1>3. QED
  BY <1>1, <1>2

LEMMA NextTypes ==
  ASSUME TypeOK, Retryable, LockIsThere, [Next]_vars
  PROVE  (TypeOK /\ Retryable)'
<1> USE QueueAssumption DEF QueueAssumption
<1>1. ASSUME NEW w \in Worker, Route(w)
      PROVE  (TypeOK /\ Retryable)'
  <2> DEFINE j == run[w].job
  <2>1. j \in Job
    BY <1>1 DEF At, Route, TypeOK, Run
  <2>2. CASE j \in Immediate \cup RetryThenDlq
    <3>1. End(w, "end", FALSE)
      BY <1>1, <2>2 DEF Route
    <3>2. dlq' \subseteq Job
      BY <1>1, <2>1, <2>2 DEF Route, TypeOK
    <3>3. QED
      BY <1>1, <3>1, <3>2, RunGoesOn DEF At, Route, redis, TypeOK, Retryable
  <2>3. CASE j \notin Immediate \cup RetryThenDlq
    <3>1. Goto(w, "handler") \/ Goto(w, "check")
      BY <1>1, <2>3 DEF Route
    <3>2. dlq' = dlq
      BY <1>1, <2>3 DEF Route
    <3>3. QED
      BY <1>1, <3>1, <3>2, RunGoesOn DEF At, Route, redis, TypeOK, Retryable
  <2>4. QED
    BY <2>2, <2>3
<1>2. ASSUME NEW w \in Worker, Check(w)
      PROVE  (TypeOK /\ Retryable)'
  BY <1>2 DEF At, Check, Goto, redis, TypeOK, Retryable, BullJob, Run
<1>3. ASSUME NEW w \in Worker, Lock(w)
      PROVE  (TypeOK /\ Retryable)'
  BY <1>3 DEF At, Lock, Goto, TypeOK, Retryable, BullJob, Run
<1>4. ASSUME NEW w \in Worker, Busy(w)
      PROVE  (TypeOK /\ Retryable)'
  <2>1. run' = [run EXCEPT ![w].at = "end", ![w].ok = TRUE]
        \/ run' = [run EXCEPT ![w].at = "end", ![w].ok = FALSE]
    BY <1>4 DEF Busy, End, TypeOK
  <2>2. QED
    BY <1>4, <2>1 DEF At, Busy, redis, TypeOK, Retryable, BullJob, Run
<1>5. ASSUME NEW w \in Worker, Recheck(w)
      PROVE  (TypeOK /\ Retryable)'
  BY <1>5 DEF At, Recheck, Goto, redis, TypeOK, Retryable, BullJob, Run
<1>6. ASSUME NEW w \in Worker, Handle(w)
      PROVE  (TypeOK /\ Retryable)'
  BY <1>6 DEF At, Handle, Goto, redis, TypeOK, Retryable, BullJob, Run
<1>7. ASSUME NEW w \in Worker, Record(w)
      PROVE  (TypeOK /\ Retryable)'
  BY <1>7 DEF At, Record, Goto, TypeOK, Retryable, BullJob, Run
<1>8. ASSUME NEW w \in Worker, Unlock(w)
      PROVE  (TypeOK /\ Retryable)'
  BY <1>8 DEF At, Unlock, Goto, TypeOK, Retryable, BullJob, Run
<1>9. ASSUME NEW w \in Worker, Throws(w)
      PROVE  (TypeOK /\ Retryable)'
  <2> DEFINE j == run[w].job
  <2>1. run[w].at # "idle" => j \in Job
    BY DEF TypeOK, Run
  <2>2. job' = job /\ faults' \in 0..MaxFaults
    BY <1>9 DEF Throws, Fault, TypeOK
  <2> SUFFICES run[w].at # "idle" /\ dlq' \subseteq Job /\ done' \in BOOLEAN
                 /\ lock' \in 0..LockTtl /\ lockedBy' \in Worker \cup {NULL}
                 /\ writes' \in [Job -> Nat] /\ unsure' \subseteq Job
                 /\ (End(w, "end", FALSE) \/ End(w, "unlock", FALSE))
    BY <2>2, RunGoesOn DEF TypeOK, Retryable
  <2>3. CASE At(w, "route")
    BY <1>9, <2>1, <2>3 DEF At, Throws, redis, TypeOK
  <2>4. CASE At(w, "check") \/ At(w, "busy")
    BY <1>9, <2>1, <2>4 DEF At, Throws, redis, TypeOK
  <2>5. CASE At(w, "lock")
    <3>1. /\ lock' \in IF lock = 0 THEN {0, LockTtl} ELSE {lock}
          /\ End(w, "end", FALSE)
          /\ UNCHANGED <<dlq, done, lockedBy, writes, unsure>>
      BY <1>9, <2>5 DEF At, Throws
    <3>2. QED
      <4>1. lock' \in 0..LockTtl
        BY <3>1 DEF TypeOK
      <4>2. QED
        BY <2>5, <3>1, <4>1 DEF At, TypeOK
  <2>6. CASE At(w, "recheck")
    BY <1>9, <2>1, <2>6 DEF At, Throws, redis, TypeOK
  <2>7. CASE At(w, "handler")
    <3>1. /\ writes' = writes \/ writes' = [writes EXCEPT ![j] = writes[j] + 1]
          /\ unsure' = unsure \/ unsure' = unsure \cup {j}
          /\ End(w, IF j \in Keyless THEN "end" ELSE "unlock", FALSE)
          /\ UNCHANGED <<dlq, redis>>
      BY <1>9, <2>7 DEF At, Throws
    <3>2. writes' \in [Job -> Nat] /\ unsure' \subseteq Job
      BY <2>1, <2>7, <3>1 DEF At, TypeOK
    <3>3. QED
      BY <2>7, <3>1, <3>2 DEF At, redis, TypeOK
  <2>8. CASE At(w, "record")
    BY <1>9, <2>1, <2>8 DEF At, Throws, redis, TypeOK
  <2>9. CASE At(w, "unlock")
    <3>1. (lock' = lock \/ lock' = 0) /\ (lockedBy' = NULL \/ lockedBy' = lockedBy)
      BY <1>9, <2>9 DEF At, Throws
    <3>2. QED
      <4>1. /\ End(w, "end", FALSE)
            /\ UNCHANGED <<dlq, done, writes, unsure>>
        BY <1>9, <2>9 DEF At, Throws
      <4>2. lock' \in 0..LockTtl /\ lockedBy' \in Worker \cup {NULL}
        BY <3>1 DEF TypeOK
      <4>3. dlq' \subseteq Job /\ done' \in BOOLEAN /\ writes' \in [Job -> Nat] /\ unsure' \subseteq Job
        BY <4>1 DEF TypeOK
      <4>4. QED
        BY <2>9, <4>1, <4>2, <4>3 DEF At
  <2>10. QED
    BY <1>9, <2>3, <2>4, <2>5, <2>6, <2>7, <2>8, <2>9 DEF Throws
<1>10. ASSUME NEW w \in Worker, Finish(w)
      PROVE  (TypeOK /\ Retryable)'
  <2> DEFINE j == run[w].job
             made == job[j].made + 1
  <2>1. j \in Job
    BY <1>10 DEF At, Finish, TypeOK, Run
  <2>2. run' \in [Worker -> Run] /\ \A v \in Worker : run'[v].at = "idle" <=> run'[v].job = NULL
    BY <1>10 DEF Finish, Idle, TypeOK, Run
  <2>3. CASE job[j].by # w
    BY <1>10, <2>2, <2>3 DEF Finish, redis, TypeOK, Retryable
  <2>4. CASE job[j].by = w
    <3>1. job[j].state = "active" /\ made <= Attempts /\ made \in Nat
      BY <2>1, <2>4 DEF TypeOK, Retryable, BullJob
    <3>2. Backoff(made) \in Int
      BY <3>1 DEF Backoff
    <3>3. CASE run[w].ok
      <4>1. job' = [job EXCEPT ![j] = [state |-> "completed", made |-> job[j].made, left |-> 0,
                                       stalls |-> job[j].stalls, by |-> NULL]]
        BY <1>10, <2>4, <3>3 DEF Finish
      <4>2. QED
        BY <1>10, <2>1, <2>2, <3>1, <4>1 DEF Finish, redis, TypeOK, Retryable, BullJob
    <3>4. CASE ~run[w].ok
      <4> DEFINE s == IF made >= Attempts THEN "failed" ELSE "delayed"
                 l == IF made >= Attempts THEN 0 ELSE Backoff(made)
      <4>1. job' = [job EXCEPT ![j] = [state |-> s, made |-> made, left |-> l,
                                       stalls |-> job[j].stalls, by |-> NULL]]
        BY <1>10, <2>4, <3>4 DEF Finish
      <4>2. s \in {"failed", "delayed"} /\ l \in Int /\ (made >= Attempts => s = "failed")
        BY <3>1, <3>2
      <4> HIDE DEF s, l
      <4>3. QED
        BY <1>10, <2>1, <2>2, <3>1, <4>1, <4>2 DEF Finish, redis, TypeOK, Retryable, BullJob
    <3>5. QED
      BY <3>3, <3>4
  <2>5. QED
    BY <2>3, <2>4
<1>11. ASSUME NEW w \in Worker, Crash(w)
      PROVE  (TypeOK /\ Retryable)'
  BY <1>11 DEF At, Crash, Idle, Fault, TypeOK, Retryable, BullJob, Run
<1>12. ASSUME NEW w \in Worker, NEW j \in Job, Pick(w, j)
      PROVE  (TypeOK /\ Retryable)'
  BY <1>12 DEF At, Pick, redis, TypeOK, Retryable, BullJob, Run
<1>13. ASSUME NEW j \in Job, ClaimExpires(j)
      PROVE  (TypeOK /\ Retryable)'
  BY <1>13 DEF At, ClaimExpires, Fault, redis, TypeOK, Retryable, BullJob, Run
<1>14. ASSUME NEW j \in Job, TakeBack(j)
      PROVE  (TypeOK /\ Retryable)'
  BY <1>14 DEF At, TakeBack, redis, TypeOK, Retryable, BullJob, Run
<1>15. CASE Tick
  <2>1. job' \in [Job -> BullJob] /\ Retryable'
    <3>1. \A j \in Job : job'[j] \in BullJob /\ job'[j].made = job[j].made
                         /\ job'[j].stalls = job[j].stalls /\ job'[j].by = job[j].by
                         /\ (job[j].state # "delayed" => job'[j] = job[j])
                         /\ (job[j].state = "delayed" => job'[j].state # "failed")
      <4>1. job' = [j \in Job |->
              IF job[j].state # "delayed" THEN job[j]
              ELSE IF job[j].left <= 1 THEN [job[j] EXCEPT !.left = 0, !.state = "wait"]
              ELSE [job[j] EXCEPT !.left = job[j].left - 1]]
        BY <1>15 DEF Tick
      <4>2. QED
        <5> TAKE i \in Job
        <5> job[i] \in BullJob
          BY DEF TypeOK
        <5>1. CASE job[i].state # "delayed"
          BY <4>1, <5>1
        <5>2. CASE job[i].state = "delayed" /\ job[i].left <= 1
          <6>1. job'[i] = [job[i] EXCEPT !.left = 0, !.state = "wait"]
            BY <4>1, <5>2
          <6>2. QED
            <7> DEFINE r == [job[i] EXCEPT !.left = 0]
            <7>1. r \in BullJob
              BY DEF BullJob
            <7>2. r.made = job[i].made /\ r.stalls = job[i].stalls /\ r.by = job[i].by
              BY DEF BullJob
            <7>3. job'[i] = [r EXCEPT !.state = "wait"]
              BY <6>1
            <7> HIDE DEF r
            <7>4. job'[i] \in BullJob /\ job'[i].made = r.made /\ job'[i].stalls = r.stalls
                    /\ job'[i].by = r.by /\ job'[i].state = "wait"
              BY <7>1, <7>3 DEF BullJob
            <7>5. QED
              BY <5>2, <7>2, <7>4
        <5>3. CASE job[i].state = "delayed" /\ ~(job[i].left <= 1)
          <6>1. job'[i] = [job[i] EXCEPT !.left = job[i].left - 1]
            BY <4>1, <5>3
          <6>2. QED
            BY <6>1, <5>3 DEF BullJob
        <5>4. QED
          BY <5>1, <5>2, <5>3
    <3>2. job' = [j \in Job |-> job'[j]]
      BY <1>15 DEF Tick
    <3>3. QED
      BY <3>1, <3>2 DEF Retryable
  <2>2. lock' \in 0..LockTtl
    <3>1. lock' = IF lock > 0 THEN lock - 1 ELSE 0
      BY <1>15 DEF Tick
    <3>2. QED
      BY <3>1 DEF TypeOK
  <2>3. lockedBy # NULL => run[lockedBy].job \in Job
    BY DEF TypeOK, LockIsThere, Guarded, Keyed
  <2>4. QED
    BY <1>15, <2>1, <2>2, <2>3 DEF Tick, TypeOK
<1>16. CASE UNCHANGED vars
  BY <1>16 DEF vars, At, TypeOK, Retryable, BullJob, Run
<1>17. QED
  BY <1>1, <1>2, <1>3, <1>4, <1>5, <1>6, <1>7, <1>8, <1>9, <1>10, <1>11, <1>12, <1>13, <1>14, <1>15, <1>16 DEF Next, Process

-----------------------------------------------------------------------------
(* What only grows.                                                        *)

\* No step takes anything back.
LEMMA NextGrows ==
  ASSUME TypeOK, [Next]_vars
  PROVE  Grows
<1> USE QueueAssumption DEF QueueAssumption
<1>1. ASSUME NEW w \in Worker, Route(w)
      PROVE  Grows
  BY <1>1 DEF At, Route, Goto, End, redis, WantsDlq, Grows, TypeOK, Run
<1>2. ASSUME NEW w \in Worker, Check(w)
      PROVE  Grows
  BY <1>2 DEF At, Check, Goto, redis, Grows, TypeOK, Run
<1>3. ASSUME NEW w \in Worker, Lock(w)
      PROVE  Grows
  BY <1>3 DEF At, Lock, Goto, Grows, TypeOK, Run
<1>4. ASSUME NEW w \in Worker, Busy(w)
      PROVE  Grows
  BY <1>4 DEF At, Busy, End, redis, Grows, TypeOK, Run
<1>5. ASSUME NEW w \in Worker, Recheck(w)
      PROVE  Grows
  BY <1>5 DEF At, Recheck, Goto, redis, Grows, TypeOK, Run
<1>6. ASSUME NEW w \in Worker, Handle(w)
      PROVE  Grows
  BY <1>6 DEF At, Handle, Goto, redis, Grows, TypeOK, Run
<1>7. ASSUME NEW w \in Worker, Record(w)
      PROVE  Grows
  BY <1>7 DEF At, Record, Goto, Grows, TypeOK, Run
<1>8. ASSUME NEW w \in Worker, Unlock(w)
      PROVE  Grows
  BY <1>8 DEF At, Unlock, Goto, Grows, TypeOK, Run
<1>9. ASSUME NEW w \in Worker, Throws(w)
      PROVE  Grows
  <2>1. CASE At(w, "route")
    BY <1>9, <2>1 DEF At, Throws, End, redis, Grows, TypeOK, Run
  <2>2. CASE At(w, "check")
    BY <1>9, <2>2 DEF At, Throws, End, redis, Grows, TypeOK, Run
  <2>3. CASE At(w, "lock")
    BY <1>9, <2>3 DEF At, Throws, End, redis, Grows, TypeOK, Run
  <2>4. CASE At(w, "busy")
    BY <1>9, <2>4 DEF At, Throws, End, redis, Grows, TypeOK, Run
  <2>5. CASE At(w, "recheck")
    BY <1>9, <2>5 DEF At, Throws, End, redis, Grows, TypeOK, Run
  <2>6. CASE At(w, "handler")
    BY <1>9, <2>6 DEF At, Throws, End, redis, Grows, TypeOK, Run
  <2>7. CASE At(w, "record")
    <3>1. /\ done' \in {done, TRUE}
          /\ unsure' = IF done' THEN unsure ELSE unsure \cup {run[w].job}
          /\ writes' = writes
      BY <1>9, <2>7 DEF At, Throws
    <3>2. unsure \subseteq unsure'
      BY <3>1
    <3>3. done => done'
      BY <3>1, Zenon DEF TypeOK
    <3>4. QED
      BY <3>1, <3>2, <3>3 DEF Grows, TypeOK
  <2>8. CASE At(w, "unlock")
    BY <1>9, <2>8 DEF At, Throws, End, redis, Grows, TypeOK, Run
  <2>9. QED
    BY <1>9, <2>1, <2>2, <2>3, <2>4, <2>5, <2>6, <2>7, <2>8 DEF Throws
<1>10. ASSUME NEW w \in Worker, Finish(w)
      PROVE  Grows
  BY <1>10 DEF At, Finish, redis, Idle, Grows, TypeOK, Run
<1>11. ASSUME NEW w \in Worker, Crash(w)
      PROVE  Grows
  BY <1>11 DEF At, Crash, Idle, Grows, TypeOK, Run
<1>12. ASSUME NEW w \in Worker, NEW j \in Job, Pick(w, j)
      PROVE  Grows
  BY <1>12 DEF At, Pick, redis, Grows, TypeOK, Run
<1>13. ASSUME NEW j \in Job, ClaimExpires(j)
      PROVE  Grows
  BY <1>13 DEF At, ClaimExpires, redis, Grows, TypeOK, Run
<1>14. ASSUME NEW j \in Job, TakeBack(j)
      PROVE  Grows
  BY <1>14 DEF At, TakeBack, redis, Grows, TypeOK, Run
<1>15. CASE Tick
  <2>1. writes' = writes /\ done' = done
    BY <1>15 DEF Tick
  <2>2. unsure \subseteq unsure'
    BY <1>15 DEF Tick
  <2>3. QED
    BY <2>1, <2>2 DEF Grows, TypeOK
<1>16. CASE UNCHANGED vars
  BY <1>16 DEF vars, At, Grows, TypeOK, Run
<1>17. QED
  BY <1>1, <1>2, <1>3, <1>4, <1>5, <1>6, <1>7, <1>8, <1>9, <1>10, <1>11, <1>12, <1>13, <1>14, <1>15, <1>16 DEF Next, Process

-----------------------------------------------------------------------------
(* The lock.                                                               *)

\* Who is inside runOnce, and who may still have the lock.
LEMMA NextRuns ==
  ASSUME TypeOK, InRunOnce, LockIsThere, [Next]_vars
  PROVE  (InRunOnce /\ LockIsThere)'
<1> USE QueueAssumption DEF QueueAssumption
<1>1. ASSUME NEW w \in Worker, Route(w)
      PROVE  (InRunOnce /\ LockIsThere)'
  BY <1>1 DEF At, Route, Goto, End, redis, WantsDlq, TypeOK, Run, InRunOnce, LockIsThere, Guarded, Keyed
<1>2. ASSUME NEW w \in Worker, Check(w)
      PROVE  (InRunOnce /\ LockIsThere)'
  BY <1>2 DEF At, Check, Goto, redis, TypeOK, Run, InRunOnce, LockIsThere, Guarded, Keyed
<1>3. ASSUME NEW w \in Worker, Lock(w)
      PROVE  (InRunOnce /\ LockIsThere)'
  BY <1>3 DEF At, Lock, Goto, TypeOK, Run, InRunOnce, LockIsThere, Guarded, Keyed
<1>4. ASSUME NEW w \in Worker, Busy(w)
      PROVE  (InRunOnce /\ LockIsThere)'
  BY <1>4 DEF At, Busy, End, redis, TypeOK, Run, InRunOnce, LockIsThere, Guarded, Keyed
<1>5. ASSUME NEW w \in Worker, Recheck(w)
      PROVE  (InRunOnce /\ LockIsThere)'
  BY <1>5 DEF At, Recheck, Goto, redis, TypeOK, Run, InRunOnce, LockIsThere, Guarded, Keyed
<1>6. ASSUME NEW w \in Worker, Handle(w)
      PROVE  (InRunOnce /\ LockIsThere)'
  BY <1>6 DEF At, Handle, Goto, redis, TypeOK, Run, InRunOnce, LockIsThere, Guarded, Keyed
<1>7. ASSUME NEW w \in Worker, Record(w)
      PROVE  (InRunOnce /\ LockIsThere)'
  BY <1>7 DEF At, Record, Goto, TypeOK, Run, InRunOnce, LockIsThere, Guarded, Keyed
<1>8. ASSUME NEW w \in Worker, Unlock(w)
      PROVE  (InRunOnce /\ LockIsThere)'
  BY <1>8 DEF At, Unlock, Goto, TypeOK, Run, InRunOnce, LockIsThere, Guarded, Keyed
<1>9. ASSUME NEW w \in Worker, Throws(w)
      PROVE  (InRunOnce /\ LockIsThere)'
  <2> DEFINE Leaves(a) ==
        /\ run'[w].at = a /\ run'[w].job = run[w].job
        /\ \A v \in Worker \ {w} : run'[v] = run[v]
  <2>1. \A a \in {"end", "unlock"} : End(w, a, FALSE) => Leaves(a)
    BY DEF End, TypeOK, Run
  <2>2. \/ Leaves("end") /\ ~Guarded(w)
        \/ Leaves("unlock") /\ Guarded(w)
        \/ Leaves("end") /\ At(w, "unlock")
    <3>1. CASE At(w, "handler")
      <4>1. run[w].job \in Keyed \cup Keyless
        BY <3>1 DEF At, InRunOnce
      <4> QED BY <1>9, <2>1, <3>1, <4>1 DEF At, Throws, Guarded, Keyed
    <3>2. CASE At(w, "recheck") \/ At(w, "record")
      <4>1. run[w].job \in Keyed
        BY <3>2 DEF At, InRunOnce
      <4> QED BY <1>9, <2>1, <3>2, <4>1 DEF At, Throws, Guarded
    <3>3. CASE At(w, "route") \/ At(w, "check") \/ At(w, "busy") \/ At(w, "lock") \/ At(w, "unlock")
      BY <1>9, <2>1, <3>3 DEF At, Throws, Guarded
    <3> QED BY <1>9, <3>1, <3>2, <3>3 DEF Throws
  <2>3. \/ ~At(w, "unlock") /\ lock' = lock /\ lockedBy' = lockedBy
        \/ At(w, "lock") /\ lock = 0 /\ lock' \in {0, LockTtl} /\ lockedBy' = lockedBy
        \/ /\ At(w, "unlock") /\ lock' \in {0, lock}
           /\ lockedBy' = IF lockedBy = w \/ lock' = 0 THEN NULL ELSE lockedBy
    <3>1. CASE At(w, "lock")
      BY <1>9, <3>1 DEF At, Throws
    <3>2. CASE At(w, "unlock")
      BY <1>9, <3>2 DEF At, Throws
    <3>3. CASE ~At(w, "lock") /\ ~At(w, "unlock")
      BY <1>9, <3>3 DEF At, Throws, redis
    <3> QED BY <3>1, <3>2, <3>3
  <2>4. InRunOnce'
    BY <2>2 DEF InRunOnce, Guarded
  <2>5. LockIsThere'
    <3>1. \A v \in Worker \ {w} : Guarded(v)' <=> Guarded(v)
      BY <2>2 DEF Guarded
    <3>2. ASSUME lockedBy' = w
          PROVE  lock' > 0 /\ Guarded(w)'
      <4>1. lockedBy = w /\ ~At(w, "unlock")
        BY <2>3, <3>2 DEF At
      <4>2. lock > 0 /\ Guarded(w)
        BY <4>1 DEF LockIsThere
      <4>3. lock' = lock /\ Leaves("unlock")
        BY <2>2, <2>3, <4>1, <4>2
      <4> QED BY <4>2, <4>3 DEF Guarded
    <3>3. \A v \in Worker \ {w} : lockedBy' = v => lockedBy = v /\ lock' > 0
      BY <2>3 DEF TypeOK, LockIsThere
    <3> QED BY <3>1, <3>2, <3>3 DEF LockIsThere
  <2> QED BY <2>4, <2>5
<1>10. ASSUME NEW w \in Worker, Finish(w)
      PROVE  (InRunOnce /\ LockIsThere)'
  BY <1>10 DEF At, Finish, redis, Idle, TypeOK, Run, InRunOnce, LockIsThere, Guarded, Keyed
<1>11. ASSUME NEW w \in Worker, Crash(w)
      PROVE  (InRunOnce /\ LockIsThere)'
  BY <1>11 DEF At, Crash, Idle, TypeOK, Run, InRunOnce, LockIsThere, Guarded, Keyed
<1>12. ASSUME NEW w \in Worker, NEW j \in Job, Pick(w, j)
      PROVE  (InRunOnce /\ LockIsThere)'
  BY <1>12 DEF At, Pick, redis, TypeOK, Run, InRunOnce, LockIsThere, Guarded, Keyed
<1>13. ASSUME NEW j \in Job, ClaimExpires(j)
      PROVE  (InRunOnce /\ LockIsThere)'
  BY <1>13 DEF At, ClaimExpires, redis, TypeOK, Run, InRunOnce, LockIsThere, Guarded, Keyed
<1>14. ASSUME NEW j \in Job, TakeBack(j)
      PROVE  (InRunOnce /\ LockIsThere)'
  BY <1>14 DEF At, TakeBack, redis, TypeOK, Run, InRunOnce, LockIsThere, Guarded, Keyed
<1>15. CASE Tick
  <2>1. /\ lock' = IF lock > 0 THEN lock - 1 ELSE 0
        /\ lockedBy' = IF lock' = 0 THEN NULL ELSE lockedBy
        /\ run' = run
    BY <1>15 DEF Tick
  <2>2. QED
    BY <2>1 DEF TypeOK, InRunOnce, LockIsThere, Guarded
<1>16. CASE UNCHANGED vars
  BY <1>16 DEF vars, At, TypeOK, Run, InRunOnce, LockIsThere, Guarded, Keyed
<1>17. QED
  BY <1>1, <1>2, <1>3, <1>4, <1>5, <1>6, <1>7, <1>8, <1>9, <1>10, <1>11, <1>12, <1>13, <1>14, <1>15, <1>16 DEF Next, Process

-----------------------------------------------------------------------------
(* What is done or acknowledged was written.                               *)

\* A done key, a successful run and a completed job all stand for a line.
LEMMA NextDone ==
  ASSUME TypeOK, InRunOnce, DoneWasWritten, Grows, [Next]_vars
  PROVE  DoneWasWritten'
<1> USE QueueAssumption DEF QueueAssumption
<1>1. ASSUME NEW w \in Worker, Route(w)
      PROVE  DoneWasWritten'
  BY <1>1 DEF At, Route, Goto, End, redis, WantsDlq, TypeOK, Run, InRunOnce, DoneWasWritten, Written, Keyed, Grows
<1>2. ASSUME NEW w \in Worker, Check(w)
      PROVE  DoneWasWritten'
  BY <1>2 DEF At, Check, Goto, redis, TypeOK, Run, InRunOnce, DoneWasWritten, Written, Keyed, Grows
<1>3. ASSUME NEW w \in Worker, Lock(w)
      PROVE  DoneWasWritten'
  BY <1>3 DEF At, Lock, Goto, TypeOK, Run, InRunOnce, DoneWasWritten, Written, Keyed, Grows
<1>4. ASSUME NEW w \in Worker, Busy(w)
      PROVE  DoneWasWritten'
  BY <1>4 DEF At, Busy, End, redis, TypeOK, Run, InRunOnce, DoneWasWritten, Written, Keyed, Grows
<1>5. ASSUME NEW w \in Worker, Recheck(w)
      PROVE  DoneWasWritten'
  BY <1>5 DEF At, Recheck, Goto, redis, TypeOK, Run, InRunOnce, DoneWasWritten, Written, Keyed, Grows
<1>6. ASSUME NEW w \in Worker, Handle(w)
      PROVE  DoneWasWritten'
  BY <1>6 DEF At, Handle, Goto, redis, TypeOK, Run, InRunOnce, DoneWasWritten, Written, Keyed, Grows
<1>7. ASSUME NEW w \in Worker, Record(w)
      PROVE  DoneWasWritten'
  BY <1>7 DEF At, Record, Goto, TypeOK, Run, InRunOnce, DoneWasWritten, Written, Keyed, Grows
<1>8. ASSUME NEW w \in Worker, Unlock(w)
      PROVE  DoneWasWritten'
  BY <1>8 DEF At, Unlock, Goto, TypeOK, Run, InRunOnce, DoneWasWritten, Written, Keyed, Grows
<1>9. ASSUME NEW w \in Worker, Throws(w)
      PROVE  DoneWasWritten'
  <2>1. CASE At(w, "route")
    BY <1>9, <2>1 DEF At, Throws, End, redis, TypeOK, Run, InRunOnce, DoneWasWritten, Written, Keyed, Grows
  <2>2. CASE At(w, "check")
    BY <1>9, <2>2 DEF At, Throws, End, redis, TypeOK, Run, InRunOnce, DoneWasWritten, Written, Keyed, Grows
  <2>3. CASE At(w, "lock")
    BY <1>9, <2>3 DEF At, Throws, End, redis, TypeOK, Run, InRunOnce, DoneWasWritten, Written, Keyed, Grows
  <2>4. CASE At(w, "busy")
    BY <1>9, <2>4 DEF At, Throws, End, redis, TypeOK, Run, InRunOnce, DoneWasWritten, Written, Keyed, Grows
  <2>5. CASE At(w, "recheck")
    BY <1>9, <2>5 DEF At, Throws, End, redis, TypeOK, Run, InRunOnce, DoneWasWritten, Written, Keyed, Grows
  <2>6. CASE At(w, "handler")
    BY <1>9, <2>6 DEF At, Throws, End, redis, TypeOK, Run, InRunOnce, DoneWasWritten, Written, Keyed, Grows
  <2>7. CASE At(w, "record")
    BY <1>9, <2>7 DEF At, Throws, End, redis, TypeOK, Run, InRunOnce, DoneWasWritten, Written, Keyed, Grows
  <2>8. CASE At(w, "unlock")
    BY <1>9, <2>8 DEF At, Throws, End, redis, TypeOK, Run, InRunOnce, DoneWasWritten, Written, Keyed, Grows
  <2>9. QED
    BY <1>9, <2>1, <2>2, <2>3, <2>4, <2>5, <2>6, <2>7, <2>8 DEF Throws
<1>10. ASSUME NEW w \in Worker, Finish(w)
      PROVE  DoneWasWritten'
  BY <1>10 DEF At, Finish, redis, Idle, TypeOK, Run, InRunOnce, DoneWasWritten, Written, Keyed, Grows
<1>11. ASSUME NEW w \in Worker, Crash(w)
      PROVE  DoneWasWritten'
  BY <1>11 DEF At, Crash, Idle, TypeOK, Run, InRunOnce, DoneWasWritten, Written, Keyed, Grows
<1>12. ASSUME NEW w \in Worker, NEW j \in Job, Pick(w, j)
      PROVE  DoneWasWritten'
  BY <1>12 DEF At, Pick, redis, TypeOK, Run, InRunOnce, DoneWasWritten, Written, Keyed, Grows
<1>13. ASSUME NEW j \in Job, ClaimExpires(j)
      PROVE  DoneWasWritten'
  BY <1>13 DEF At, ClaimExpires, redis, TypeOK, Run, InRunOnce, DoneWasWritten, Written, Keyed, Grows
<1>14. ASSUME NEW j \in Job, TakeBack(j)
      PROVE  DoneWasWritten'
  BY <1>14 DEF At, TakeBack, redis, TypeOK, Run, InRunOnce, DoneWasWritten, Written, Keyed, Grows
<1>15. CASE Tick
  BY <1>15 DEF At, Tick, TypeOK, Run, InRunOnce, DoneWasWritten, Written, Keyed, Grows
<1>16. CASE UNCHANGED vars
  BY <1>16 DEF vars, At, TypeOK, Run, InRunOnce, DoneWasWritten, Written, Keyed, Grows
<1>17. QED
  BY <1>1, <1>2, <1>3, <1>4, <1>5, <1>6, <1>7, <1>8, <1>9, <1>10, <1>11, <1>12, <1>13, <1>14, <1>15, <1>16 DEF Next, Process

\* A job is completed by a run that succeeded.
LEMMA NextCompleted ==
  ASSUME TypeOK, Retryable, InRunOnce, DoneWasWritten, CompletedWasWritten, Grows, TypeOK', [Next]_vars
  PROVE  CompletedWasWritten'
<1> USE QueueAssumption DEF QueueAssumption
<1>1. ASSUME NEW w \in Worker, Route(w)
      PROVE  CompletedWasWritten'
  BY <1>1 DEF At, Route, Goto, End, redis, WantsDlq, TypeOK, BullJob, Run, InRunOnce, DoneWasWritten, CompletedWasWritten, Written, Keyed, Grows
<1>2. ASSUME NEW w \in Worker, Check(w)
      PROVE  CompletedWasWritten'
  BY <1>2 DEF At, Check, Goto, redis, TypeOK, BullJob, Run, InRunOnce, DoneWasWritten, CompletedWasWritten, Written, Keyed, Grows
<1>3. ASSUME NEW w \in Worker, Lock(w)
      PROVE  CompletedWasWritten'
  BY <1>3 DEF At, Lock, Goto, TypeOK, BullJob, Run, InRunOnce, DoneWasWritten, CompletedWasWritten, Written, Keyed, Grows
<1>4. ASSUME NEW w \in Worker, Busy(w)
      PROVE  CompletedWasWritten'
  BY <1>4 DEF At, Busy, End, redis, TypeOK, BullJob, Run, InRunOnce, DoneWasWritten, CompletedWasWritten, Written, Keyed, Grows
<1>5. ASSUME NEW w \in Worker, Recheck(w)
      PROVE  CompletedWasWritten'
  BY <1>5 DEF At, Recheck, Goto, redis, TypeOK, BullJob, Run, InRunOnce, DoneWasWritten, CompletedWasWritten, Written, Keyed, Grows
<1>6. ASSUME NEW w \in Worker, Handle(w)
      PROVE  CompletedWasWritten'
  BY <1>6 DEF At, Handle, Goto, redis, TypeOK, BullJob, Run, InRunOnce, DoneWasWritten, CompletedWasWritten, Written, Keyed, Grows
<1>7. ASSUME NEW w \in Worker, Record(w)
      PROVE  CompletedWasWritten'
  BY <1>7 DEF At, Record, Goto, TypeOK, BullJob, Run, InRunOnce, DoneWasWritten, CompletedWasWritten, Written, Keyed, Grows
<1>8. ASSUME NEW w \in Worker, Unlock(w)
      PROVE  CompletedWasWritten'
  BY <1>8 DEF At, Unlock, Goto, TypeOK, BullJob, Run, InRunOnce, DoneWasWritten, CompletedWasWritten, Written, Keyed, Grows
<1>9. ASSUME NEW w \in Worker, Throws(w)
      PROVE  CompletedWasWritten'
  <2>1. job' = job
    BY <1>9 DEF Throws
  <2>2. QED
    BY <2>1 DEF CompletedWasWritten, Grows, TypeOK, Keyed
<1>10. ASSUME NEW w \in Worker, Finish(w)
      PROVE  CompletedWasWritten'
  BY <1>10 DEF At, Finish, redis, Idle, TypeOK, BullJob, Run, InRunOnce, DoneWasWritten, CompletedWasWritten, Written, Keyed, Grows
<1>11. ASSUME NEW w \in Worker, Crash(w)
      PROVE  CompletedWasWritten'
  BY <1>11 DEF At, Crash, Idle, TypeOK, BullJob, Run, InRunOnce, DoneWasWritten, CompletedWasWritten, Written, Keyed, Grows
<1>12. ASSUME NEW w \in Worker, NEW j \in Job, Pick(w, j)
      PROVE  CompletedWasWritten'
  BY <1>12 DEF At, Pick, redis, TypeOK, BullJob, Run, InRunOnce, DoneWasWritten, CompletedWasWritten, Written, Keyed, Grows
<1>13. ASSUME NEW j \in Job, ClaimExpires(j)
      PROVE  CompletedWasWritten'
  BY <1>13 DEF At, ClaimExpires, redis, TypeOK, BullJob, Run, InRunOnce, DoneWasWritten, CompletedWasWritten, Written, Keyed, Grows
<1>14. ASSUME NEW j \in Job, TakeBack(j)
      PROVE  CompletedWasWritten'
  BY <1>14 DEF At, TakeBack, redis, TypeOK, BullJob, Run, InRunOnce, DoneWasWritten, CompletedWasWritten, Written, Keyed, Grows
<1>15. CASE Tick
  <2>1. \A j \in Job : job'[j].state = "completed" => job[j].state = "completed"
    <3>1. job' = [j \in Job |->
            IF job[j].state # "delayed" THEN job[j]
            ELSE IF job[j].left <= 1 THEN [job[j] EXCEPT !.left = 0, !.state = "wait"]
            ELSE [job[j] EXCEPT !.left = job[j].left - 1]]
      BY <1>15 DEF Tick
    <3>2. ASSUME NEW j \in Job, job[j].state = "delayed"
          PROVE  job'[j].state # "completed"
      <4>1. job[j] \in BullJob
        BY DEF TypeOK
      <4>2. CASE job[j].left <= 1
        BY <3>1, <3>2, <4>1, <4>2 DEF BullJob
      <4>3. CASE ~(job[j].left <= 1)
        BY <3>1, <3>2, <4>1, <4>3 DEF BullJob
      <4>4. QED
        BY <4>2, <4>3
    <3>3. QED
      BY <3>1, <3>2
  <2>2. writes' = writes
    BY <1>15 DEF Tick
  <2>3. QED
    BY <2>1, <2>2 DEF CompletedWasWritten
<1>16. CASE UNCHANGED vars
  BY <1>16 DEF vars, At, TypeOK, BullJob, Run, InRunOnce, DoneWasWritten, CompletedWasWritten, Written, Keyed, Grows
<1>17. QED
  BY <1>1, <1>2, <1>3, <1>4, <1>5, <1>6, <1>7, <1>8, <1>9, <1>10, <1>11, <1>12, <1>13, <1>14, <1>15, <1>16 DEF Next, Process

-----------------------------------------------------------------------------
(* While nothing is unsure.                                                *)

\* A run between SET and DEL has the lock, or the event is done.
LEMMA NextHasLock ==
  ASSUME TypeOK, InRunOnce, LockIsThere, Grows, GuardedHasLock, Sure', [Next]_vars
  PROVE  GuardedHasLock'
<1> USE QueueAssumption DEF QueueAssumption
<1>1. ASSUME NEW w \in Worker, Route(w)
      PROVE  GuardedHasLock'
  BY <1>1 DEF At, Route, Goto, End, redis, WantsDlq, TypeOK, Run, InRunOnce, LockIsThere, GuardedHasLock, Guarded, Sure, Keyed, Grows
<1>2. ASSUME NEW w \in Worker, Check(w)
      PROVE  GuardedHasLock'
  BY <1>2 DEF At, Check, Goto, redis, TypeOK, Run, InRunOnce, LockIsThere, GuardedHasLock, Guarded, Sure, Keyed, Grows
<1>3. ASSUME NEW w \in Worker, Lock(w)
      PROVE  GuardedHasLock'
  BY <1>3 DEF At, Lock, Goto, TypeOK, Run, InRunOnce, LockIsThere, GuardedHasLock, Guarded, Sure, Keyed, Grows
<1>4. ASSUME NEW w \in Worker, Busy(w)
      PROVE  GuardedHasLock'
  BY <1>4 DEF At, Busy, End, redis, TypeOK, Run, InRunOnce, LockIsThere, GuardedHasLock, Guarded, Sure, Keyed, Grows
<1>5. ASSUME NEW w \in Worker, Recheck(w)
      PROVE  GuardedHasLock'
  BY <1>5 DEF At, Recheck, Goto, redis, TypeOK, Run, InRunOnce, LockIsThere, GuardedHasLock, Guarded, Sure, Keyed, Grows
<1>6. ASSUME NEW w \in Worker, Handle(w)
      PROVE  GuardedHasLock'
  BY <1>6 DEF At, Handle, Goto, redis, TypeOK, Run, InRunOnce, LockIsThere, GuardedHasLock, Guarded, Sure, Keyed, Grows
<1>7. ASSUME NEW w \in Worker, Record(w)
      PROVE  GuardedHasLock'
  BY <1>7 DEF At, Record, Goto, TypeOK, Run, InRunOnce, LockIsThere, GuardedHasLock, Guarded, Sure, Keyed, Grows
<1>8. ASSUME NEW w \in Worker, Unlock(w)
      PROVE  GuardedHasLock'
  BY <1>8 DEF At, Unlock, Goto, TypeOK, Run, InRunOnce, LockIsThere, GuardedHasLock, Guarded, Sure, Keyed, Grows
<1>9. ASSUME NEW w \in Worker, Throws(w)
      PROVE  GuardedHasLock'
  <2>1. CASE At(w, "route")
    BY <1>9, <2>1 DEF At, Throws, End, redis, TypeOK, Run, InRunOnce, LockIsThere, GuardedHasLock, Guarded, Sure, Keyed, Grows
  <2>2. CASE At(w, "check")
    BY <1>9, <2>2 DEF At, Throws, End, redis, TypeOK, Run, InRunOnce, LockIsThere, GuardedHasLock, Guarded, Sure, Keyed, Grows
  <2>3. CASE At(w, "lock")
    BY <1>9, <2>3 DEF At, Throws, End, redis, TypeOK, Run, InRunOnce, LockIsThere, GuardedHasLock, Guarded, Sure, Keyed, Grows
  <2>4. CASE At(w, "busy")
    BY <1>9, <2>4 DEF At, Throws, End, redis, TypeOK, Run, InRunOnce, LockIsThere, GuardedHasLock, Guarded, Sure, Keyed, Grows
  <2>5. CASE At(w, "recheck")
    BY <1>9, <2>5 DEF At, Throws, End, redis, TypeOK, Run, InRunOnce, LockIsThere, GuardedHasLock, Guarded, Sure, Keyed, Grows
  <2>6. CASE At(w, "handler")
    BY <1>9, <2>6 DEF At, Throws, End, redis, TypeOK, Run, InRunOnce, LockIsThere, GuardedHasLock, Guarded, Sure, Keyed, Grows
  <2>7. CASE At(w, "record")
    BY <1>9, <2>7 DEF At, Throws, End, redis, TypeOK, Run, InRunOnce, LockIsThere, GuardedHasLock, Guarded, Sure, Keyed, Grows
  <2>8. CASE At(w, "unlock")
    BY <1>9, <2>8 DEF At, Throws, End, redis, TypeOK, Run, InRunOnce, LockIsThere, GuardedHasLock, Guarded, Sure, Keyed, Grows
  <2>9. QED
    BY <1>9, <2>1, <2>2, <2>3, <2>4, <2>5, <2>6, <2>7, <2>8 DEF Throws
<1>10. ASSUME NEW w \in Worker, Finish(w)
      PROVE  GuardedHasLock'
  BY <1>10 DEF At, Finish, redis, Idle, TypeOK, Run, InRunOnce, LockIsThere, GuardedHasLock, Guarded, Sure, Keyed, Grows
<1>11. ASSUME NEW w \in Worker, Crash(w)
      PROVE  GuardedHasLock'
  BY <1>11 DEF At, Crash, Idle, TypeOK, Run, InRunOnce, LockIsThere, GuardedHasLock, Guarded, Sure, Keyed, Grows
<1>12. ASSUME NEW w \in Worker, NEW j \in Job, Pick(w, j)
      PROVE  GuardedHasLock'
  BY <1>12 DEF At, Pick, redis, TypeOK, Run, InRunOnce, LockIsThere, GuardedHasLock, Guarded, Sure, Keyed, Grows
<1>13. ASSUME NEW j \in Job, ClaimExpires(j)
      PROVE  GuardedHasLock'
  BY <1>13 DEF At, ClaimExpires, redis, TypeOK, Run, InRunOnce, LockIsThere, GuardedHasLock, Guarded, Sure, Keyed, Grows
<1>14. ASSUME NEW j \in Job, TakeBack(j)
      PROVE  GuardedHasLock'
  BY <1>14 DEF At, TakeBack, redis, TypeOK, Run, InRunOnce, LockIsThere, GuardedHasLock, Guarded, Sure, Keyed, Grows
<1>15. CASE Tick
  BY <1>15 DEF At, Tick, TypeOK, Run, InRunOnce, LockIsThere, GuardedHasLock, Guarded, Sure, Keyed, Grows
<1>16. CASE UNCHANGED vars
  BY <1>16 DEF vars, At, TypeOK, Run, InRunOnce, LockIsThere, GuardedHasLock, Guarded, Sure, Keyed, Grows
<1>17. QED
  BY <1>1, <1>2, <1>3, <1>4, <1>5, <1>6, <1>7, <1>8, <1>9, <1>10, <1>11, <1>12, <1>13, <1>14, <1>15, <1>16 DEF Next, Process

\* Nobody is about to write what is done.
LEMMA NextNotDone ==
  ASSUME TypeOK, InRunOnce, Grows, GuardedHasLock, HandlerNotDone, Sure', [Next]_vars
  PROVE  HandlerNotDone'
<1> USE QueueAssumption DEF QueueAssumption
<1>1. ASSUME NEW w \in Worker, Route(w)
      PROVE  HandlerNotDone'
  BY <1>1 DEF At, Route, Goto, End, redis, WantsDlq, TypeOK, Run, InRunOnce, GuardedHasLock, HandlerNotDone, Guarded, Sure, Keyed, Grows
<1>2. ASSUME NEW w \in Worker, Check(w)
      PROVE  HandlerNotDone'
  BY <1>2 DEF At, Check, Goto, redis, TypeOK, Run, InRunOnce, GuardedHasLock, HandlerNotDone, Guarded, Sure, Keyed, Grows
<1>3. ASSUME NEW w \in Worker, Lock(w)
      PROVE  HandlerNotDone'
  BY <1>3 DEF At, Lock, Goto, TypeOK, Run, InRunOnce, GuardedHasLock, HandlerNotDone, Guarded, Sure, Keyed, Grows
<1>4. ASSUME NEW w \in Worker, Busy(w)
      PROVE  HandlerNotDone'
  BY <1>4 DEF At, Busy, End, redis, TypeOK, Run, InRunOnce, GuardedHasLock, HandlerNotDone, Guarded, Sure, Keyed, Grows
<1>5. ASSUME NEW w \in Worker, Recheck(w)
      PROVE  HandlerNotDone'
  BY <1>5 DEF At, Recheck, Goto, redis, TypeOK, Run, InRunOnce, GuardedHasLock, HandlerNotDone, Guarded, Sure, Keyed, Grows
<1>6. ASSUME NEW w \in Worker, Handle(w)
      PROVE  HandlerNotDone'
  BY <1>6 DEF At, Handle, Goto, redis, TypeOK, Run, InRunOnce, GuardedHasLock, HandlerNotDone, Guarded, Sure, Keyed, Grows
<1>7. ASSUME NEW w \in Worker, Record(w)
      PROVE  HandlerNotDone'
  BY <1>7 DEF At, Record, Goto, TypeOK, Run, InRunOnce, GuardedHasLock, HandlerNotDone, Guarded, Sure, Keyed, Grows
<1>8. ASSUME NEW w \in Worker, Unlock(w)
      PROVE  HandlerNotDone'
  BY <1>8 DEF At, Unlock, Goto, TypeOK, Run, InRunOnce, GuardedHasLock, HandlerNotDone, Guarded, Sure, Keyed, Grows
<1>9. ASSUME NEW w \in Worker, Throws(w)
      PROVE  HandlerNotDone'
  <2>1. CASE At(w, "route")
    BY <1>9, <2>1 DEF At, Throws, End, redis, TypeOK, Run, InRunOnce, GuardedHasLock, HandlerNotDone, Guarded, Sure, Keyed, Grows
  <2>2. CASE At(w, "check")
    BY <1>9, <2>2 DEF At, Throws, End, redis, TypeOK, Run, InRunOnce, GuardedHasLock, HandlerNotDone, Guarded, Sure, Keyed, Grows
  <2>3. CASE At(w, "lock")
    BY <1>9, <2>3 DEF At, Throws, End, redis, TypeOK, Run, InRunOnce, GuardedHasLock, HandlerNotDone, Guarded, Sure, Keyed, Grows
  <2>4. CASE At(w, "busy")
    BY <1>9, <2>4 DEF At, Throws, End, redis, TypeOK, Run, InRunOnce, GuardedHasLock, HandlerNotDone, Guarded, Sure, Keyed, Grows
  <2>5. CASE At(w, "recheck")
    BY <1>9, <2>5 DEF At, Throws, End, redis, TypeOK, Run, InRunOnce, GuardedHasLock, HandlerNotDone, Guarded, Sure, Keyed, Grows
  <2>6. CASE At(w, "handler")
    BY <1>9, <2>6 DEF At, Throws, End, redis, TypeOK, Run, InRunOnce, GuardedHasLock, HandlerNotDone, Guarded, Sure, Keyed, Grows
  <2>7. CASE At(w, "record")
    BY <1>9, <2>7 DEF At, Throws, End, redis, TypeOK, Run, InRunOnce, GuardedHasLock, HandlerNotDone, Guarded, Sure, Keyed, Grows
  <2>8. CASE At(w, "unlock")
    BY <1>9, <2>8 DEF At, Throws, End, redis, TypeOK, Run, InRunOnce, GuardedHasLock, HandlerNotDone, Guarded, Sure, Keyed, Grows
  <2>9. QED
    BY <1>9, <2>1, <2>2, <2>3, <2>4, <2>5, <2>6, <2>7, <2>8 DEF Throws
<1>10. ASSUME NEW w \in Worker, Finish(w)
      PROVE  HandlerNotDone'
  BY <1>10 DEF At, Finish, redis, Idle, TypeOK, Run, InRunOnce, GuardedHasLock, HandlerNotDone, Guarded, Sure, Keyed, Grows
<1>11. ASSUME NEW w \in Worker, Crash(w)
      PROVE  HandlerNotDone'
  BY <1>11 DEF At, Crash, Idle, TypeOK, Run, InRunOnce, GuardedHasLock, HandlerNotDone, Guarded, Sure, Keyed, Grows
<1>12. ASSUME NEW w \in Worker, NEW j \in Job, Pick(w, j)
      PROVE  HandlerNotDone'
  BY <1>12 DEF At, Pick, redis, TypeOK, Run, InRunOnce, GuardedHasLock, HandlerNotDone, Guarded, Sure, Keyed, Grows
<1>13. ASSUME NEW j \in Job, ClaimExpires(j)
      PROVE  HandlerNotDone'
  BY <1>13 DEF At, ClaimExpires, redis, TypeOK, Run, InRunOnce, GuardedHasLock, HandlerNotDone, Guarded, Sure, Keyed, Grows
<1>14. ASSUME NEW j \in Job, TakeBack(j)
      PROVE  HandlerNotDone'
  BY <1>14 DEF At, TakeBack, redis, TypeOK, Run, InRunOnce, GuardedHasLock, HandlerNotDone, Guarded, Sure, Keyed, Grows
<1>15. CASE Tick
  BY <1>15 DEF At, Tick, TypeOK, Run, InRunOnce, GuardedHasLock, HandlerNotDone, Guarded, Sure, Keyed, Grows
<1>16. CASE UNCHANGED vars
  BY <1>16 DEF vars, At, TypeOK, Run, InRunOnce, GuardedHasLock, HandlerNotDone, Guarded, Sure, Keyed, Grows
<1>17. QED
  BY <1>1, <1>2, <1>3, <1>4, <1>5, <1>6, <1>7, <1>8, <1>9, <1>10, <1>11, <1>12, <1>13, <1>14, <1>15, <1>16 DEF Next, Process

\* What was written is done, or its run is about to say so.
LEMMA NextRecorded ==
  ASSUME TypeOK, InRunOnce, Grows, RecordedOrAbout, Sure', [Next]_vars
  PROVE  RecordedOrAbout'
<1> USE QueueAssumption DEF QueueAssumption
<1>1. ASSUME NEW w \in Worker, Route(w)
      PROVE  RecordedOrAbout'
  BY <1>1 DEF At, Route, Goto, End, redis, WantsDlq, TypeOK, Run, InRunOnce, RecordedOrAbout, Written, Sure, Keyed, Grows
<1>2. ASSUME NEW w \in Worker, Check(w)
      PROVE  RecordedOrAbout'
  BY <1>2 DEF At, Check, Goto, redis, TypeOK, Run, InRunOnce, RecordedOrAbout, Written, Sure, Keyed, Grows
<1>3. ASSUME NEW w \in Worker, Lock(w)
      PROVE  RecordedOrAbout'
  BY <1>3 DEF At, Lock, Goto, TypeOK, Run, InRunOnce, RecordedOrAbout, Written, Sure, Keyed, Grows
<1>4. ASSUME NEW w \in Worker, Busy(w)
      PROVE  RecordedOrAbout'
  BY <1>4 DEF At, Busy, End, redis, TypeOK, Run, InRunOnce, RecordedOrAbout, Written, Sure, Keyed, Grows
<1>5. ASSUME NEW w \in Worker, Recheck(w)
      PROVE  RecordedOrAbout'
  BY <1>5 DEF At, Recheck, Goto, redis, TypeOK, Run, InRunOnce, RecordedOrAbout, Written, Sure, Keyed, Grows
<1>6. ASSUME NEW w \in Worker, Handle(w)
      PROVE  RecordedOrAbout'
  BY <1>6 DEF At, Handle, Goto, redis, TypeOK, Run, InRunOnce, RecordedOrAbout, Written, Sure, Keyed, Grows
<1>7. ASSUME NEW w \in Worker, Record(w)
      PROVE  RecordedOrAbout'
  BY <1>7 DEF At, Record, Goto, TypeOK, Run, InRunOnce, RecordedOrAbout, Written, Sure, Keyed, Grows
<1>8. ASSUME NEW w \in Worker, Unlock(w)
      PROVE  RecordedOrAbout'
  BY <1>8 DEF At, Unlock, Goto, TypeOK, Run, InRunOnce, RecordedOrAbout, Written, Sure, Keyed, Grows
<1>9. ASSUME NEW w \in Worker, Throws(w)
      PROVE  RecordedOrAbout'
  <2>1. CASE At(w, "route")
    BY <1>9, <2>1 DEF At, Throws, End, redis, TypeOK, Run, InRunOnce, RecordedOrAbout, Written, Sure, Keyed, Grows
  <2>2. CASE At(w, "check")
    BY <1>9, <2>2 DEF At, Throws, End, redis, TypeOK, Run, InRunOnce, RecordedOrAbout, Written, Sure, Keyed, Grows
  <2>3. CASE At(w, "lock")
    BY <1>9, <2>3 DEF At, Throws, End, redis, TypeOK, Run, InRunOnce, RecordedOrAbout, Written, Sure, Keyed, Grows
  <2>4. CASE At(w, "busy")
    BY <1>9, <2>4 DEF At, Throws, End, redis, TypeOK, Run, InRunOnce, RecordedOrAbout, Written, Sure, Keyed, Grows
  <2>5. CASE At(w, "recheck")
    BY <1>9, <2>5 DEF At, Throws, End, redis, TypeOK, Run, InRunOnce, RecordedOrAbout, Written, Sure, Keyed, Grows
  <2>6. CASE At(w, "handler")
    BY <1>9, <2>6 DEF At, Throws, End, redis, TypeOK, Run, InRunOnce, RecordedOrAbout, Written, Sure, Keyed, Grows
  <2>7. CASE At(w, "record")
    BY <1>9, <2>7 DEF At, Throws, End, redis, TypeOK, Run, InRunOnce, RecordedOrAbout, Written, Sure, Keyed, Grows
  <2>8. CASE At(w, "unlock")
    BY <1>9, <2>8 DEF At, Throws, End, redis, TypeOK, Run, InRunOnce, RecordedOrAbout, Written, Sure, Keyed, Grows
  <2>9. QED
    BY <1>9, <2>1, <2>2, <2>3, <2>4, <2>5, <2>6, <2>7, <2>8 DEF Throws
<1>10. ASSUME NEW w \in Worker, Finish(w)
      PROVE  RecordedOrAbout'
  BY <1>10 DEF At, Finish, redis, Idle, TypeOK, Run, InRunOnce, RecordedOrAbout, Written, Sure, Keyed, Grows
<1>11. ASSUME NEW w \in Worker, Crash(w)
      PROVE  RecordedOrAbout'
  BY <1>11 DEF At, Crash, Idle, TypeOK, Run, InRunOnce, RecordedOrAbout, Written, Sure, Keyed, Grows
<1>12. ASSUME NEW w \in Worker, NEW j \in Job, Pick(w, j)
      PROVE  RecordedOrAbout'
  BY <1>12 DEF At, Pick, redis, TypeOK, Run, InRunOnce, RecordedOrAbout, Written, Sure, Keyed, Grows
<1>13. ASSUME NEW j \in Job, ClaimExpires(j)
      PROVE  RecordedOrAbout'
  BY <1>13 DEF At, ClaimExpires, redis, TypeOK, Run, InRunOnce, RecordedOrAbout, Written, Sure, Keyed, Grows
<1>14. ASSUME NEW j \in Job, TakeBack(j)
      PROVE  RecordedOrAbout'
  BY <1>14 DEF At, TakeBack, redis, TypeOK, Run, InRunOnce, RecordedOrAbout, Written, Sure, Keyed, Grows
<1>15. CASE Tick
  BY <1>15 DEF At, Tick, TypeOK, Run, InRunOnce, RecordedOrAbout, Written, Sure, Keyed, Grows
<1>16. CASE UNCHANGED vars
  BY <1>16 DEF vars, At, TypeOK, Run, InRunOnce, RecordedOrAbout, Written, Sure, Keyed, Grows
<1>17. QED
  BY <1>1, <1>2, <1>3, <1>4, <1>5, <1>6, <1>7, <1>8, <1>9, <1>10, <1>11, <1>12, <1>13, <1>14, <1>15, <1>16 DEF Next, Process

\* There is no second line for the event.
LEMMA NextOnce ==
  ASSUME TypeOK, InRunOnce, Grows, GuardedHasLock, HandlerNotDone, RecordedOrAbout, WrittenOnce, Sure', [Next]_vars
  PROVE  WrittenOnce'
<1> USE QueueAssumption DEF QueueAssumption
<1>1. ASSUME NEW w \in Worker, Route(w)
      PROVE  WrittenOnce'
  BY <1>1 DEF At, Route, Goto, End, redis, WantsDlq, TypeOK, Run, InRunOnce, GuardedHasLock, HandlerNotDone, RecordedOrAbout, WrittenOnce, Guarded, Written, Sure, Keyed, Grows
<1>2. ASSUME NEW w \in Worker, Check(w)
      PROVE  WrittenOnce'
  BY <1>2 DEF At, Check, Goto, redis, TypeOK, Run, InRunOnce, GuardedHasLock, HandlerNotDone, RecordedOrAbout, WrittenOnce, Guarded, Written, Sure, Keyed, Grows
<1>3. ASSUME NEW w \in Worker, Lock(w)
      PROVE  WrittenOnce'
  BY <1>3 DEF At, Lock, Goto, TypeOK, Run, InRunOnce, GuardedHasLock, HandlerNotDone, RecordedOrAbout, WrittenOnce, Guarded, Written, Sure, Keyed, Grows
<1>4. ASSUME NEW w \in Worker, Busy(w)
      PROVE  WrittenOnce'
  BY <1>4 DEF At, Busy, End, redis, TypeOK, Run, InRunOnce, GuardedHasLock, HandlerNotDone, RecordedOrAbout, WrittenOnce, Guarded, Written, Sure, Keyed, Grows
<1>5. ASSUME NEW w \in Worker, Recheck(w)
      PROVE  WrittenOnce'
  BY <1>5 DEF At, Recheck, Goto, redis, TypeOK, Run, InRunOnce, GuardedHasLock, HandlerNotDone, RecordedOrAbout, WrittenOnce, Guarded, Written, Sure, Keyed, Grows
<1>6. ASSUME NEW w \in Worker, Handle(w)
      PROVE  WrittenOnce'
  BY <1>6 DEF At, Handle, Goto, redis, TypeOK, Run, InRunOnce, GuardedHasLock, HandlerNotDone, RecordedOrAbout, WrittenOnce, Guarded, Written, Sure, Keyed, Grows
<1>7. ASSUME NEW w \in Worker, Record(w)
      PROVE  WrittenOnce'
  BY <1>7 DEF At, Record, Goto, TypeOK, Run, InRunOnce, GuardedHasLock, HandlerNotDone, RecordedOrAbout, WrittenOnce, Guarded, Written, Sure, Keyed, Grows
<1>8. ASSUME NEW w \in Worker, Unlock(w)
      PROVE  WrittenOnce'
  BY <1>8 DEF At, Unlock, Goto, TypeOK, Run, InRunOnce, GuardedHasLock, HandlerNotDone, RecordedOrAbout, WrittenOnce, Guarded, Written, Sure, Keyed, Grows
<1>9. ASSUME NEW w \in Worker, Throws(w)
      PROVE  WrittenOnce'
  <2>1. CASE At(w, "route")
    BY <1>9, <2>1 DEF At, Throws, End, redis, TypeOK, Run, InRunOnce, GuardedHasLock, HandlerNotDone, RecordedOrAbout, WrittenOnce, Guarded, Written, Sure, Keyed, Grows
  <2>2. CASE At(w, "check")
    BY <1>9, <2>2 DEF At, Throws, End, redis, TypeOK, Run, InRunOnce, GuardedHasLock, HandlerNotDone, RecordedOrAbout, WrittenOnce, Guarded, Written, Sure, Keyed, Grows
  <2>3. CASE At(w, "lock")
    BY <1>9, <2>3 DEF At, Throws, End, redis, TypeOK, Run, InRunOnce, GuardedHasLock, HandlerNotDone, RecordedOrAbout, WrittenOnce, Guarded, Written, Sure, Keyed, Grows
  <2>4. CASE At(w, "busy")
    BY <1>9, <2>4 DEF At, Throws, End, redis, TypeOK, Run, InRunOnce, GuardedHasLock, HandlerNotDone, RecordedOrAbout, WrittenOnce, Guarded, Written, Sure, Keyed, Grows
  <2>5. CASE At(w, "recheck")
    BY <1>9, <2>5 DEF At, Throws, End, redis, TypeOK, Run, InRunOnce, GuardedHasLock, HandlerNotDone, RecordedOrAbout, WrittenOnce, Guarded, Written, Sure, Keyed, Grows
  <2>6. CASE At(w, "handler")
    BY <1>9, <2>6 DEF At, Throws, End, redis, TypeOK, Run, InRunOnce, GuardedHasLock, HandlerNotDone, RecordedOrAbout, WrittenOnce, Guarded, Written, Sure, Keyed, Grows
  <2>7. CASE At(w, "record")
    BY <1>9, <2>7 DEF At, Throws, End, redis, TypeOK, Run, InRunOnce, GuardedHasLock, HandlerNotDone, RecordedOrAbout, WrittenOnce, Guarded, Written, Sure, Keyed, Grows
  <2>8. CASE At(w, "unlock")
    BY <1>9, <2>8 DEF At, Throws, End, redis, TypeOK, Run, InRunOnce, GuardedHasLock, HandlerNotDone, RecordedOrAbout, WrittenOnce, Guarded, Written, Sure, Keyed, Grows
  <2>9. QED
    BY <1>9, <2>1, <2>2, <2>3, <2>4, <2>5, <2>6, <2>7, <2>8 DEF Throws
<1>10. ASSUME NEW w \in Worker, Finish(w)
      PROVE  WrittenOnce'
  BY <1>10 DEF At, Finish, redis, Idle, TypeOK, Run, InRunOnce, GuardedHasLock, HandlerNotDone, RecordedOrAbout, WrittenOnce, Guarded, Written, Sure, Keyed, Grows
<1>11. ASSUME NEW w \in Worker, Crash(w)
      PROVE  WrittenOnce'
  BY <1>11 DEF At, Crash, Idle, TypeOK, Run, InRunOnce, GuardedHasLock, HandlerNotDone, RecordedOrAbout, WrittenOnce, Guarded, Written, Sure, Keyed, Grows
<1>12. ASSUME NEW w \in Worker, NEW j \in Job, Pick(w, j)
      PROVE  WrittenOnce'
  BY <1>12 DEF At, Pick, redis, TypeOK, Run, InRunOnce, GuardedHasLock, HandlerNotDone, RecordedOrAbout, WrittenOnce, Guarded, Written, Sure, Keyed, Grows
<1>13. ASSUME NEW j \in Job, ClaimExpires(j)
      PROVE  WrittenOnce'
  BY <1>13 DEF At, ClaimExpires, redis, TypeOK, Run, InRunOnce, GuardedHasLock, HandlerNotDone, RecordedOrAbout, WrittenOnce, Guarded, Written, Sure, Keyed, Grows
<1>14. ASSUME NEW j \in Job, TakeBack(j)
      PROVE  WrittenOnce'
  BY <1>14 DEF At, TakeBack, redis, TypeOK, Run, InRunOnce, GuardedHasLock, HandlerNotDone, RecordedOrAbout, WrittenOnce, Guarded, Written, Sure, Keyed, Grows
<1>15. CASE Tick
  BY <1>15 DEF At, Tick, TypeOK, Run, InRunOnce, GuardedHasLock, HandlerNotDone, RecordedOrAbout, WrittenOnce, Guarded, Written, Sure, Keyed, Grows
<1>16. CASE UNCHANGED vars
  BY <1>16 DEF vars, At, TypeOK, Run, InRunOnce, GuardedHasLock, HandlerNotDone, RecordedOrAbout, WrittenOnce, Guarded, Written, Sure, Keyed, Grows
<1>17. QED
  BY <1>1, <1>2, <1>3, <1>4, <1>5, <1>6, <1>7, <1>8, <1>9, <1>10, <1>11, <1>12, <1>13, <1>14, <1>15, <1>16 DEF Next, Process

-----------------------------------------------------------------------------
(* The dead-letter queue.  What a run knows of its job is the number of    *)
(* attempts when it was given out, which is still right as long as the job *)
(* is its own: a run whose job was taken back decides nothing.             *)

Lettered == Immediate \cup RetryThenDlq

ClaimIsCurrent ==
  \A w \in Worker, j \in Job :
    job[j].by = w => run[w].job = j /\ run[w].attempt = job[j].made + 1

\* Jobs that ask for the dead-letter queue never reach runOnce, and the last of
\* their attempts has put them there.
Routed ==
  \A w \in Worker : run[w].job \in Lettered =>
    /\ run[w].at \in {"route", "end"}
    /\ At(w, "end") => ~run[w].ok /\ (WantsDlq(w) => run[w].job \in dlq \cup unsure)

Lettering == ClaimIsCurrent /\ Routed /\ FailedIsDeadLettered

\* No entry of the dead-letter queue is removed.
LettersGrow == dlq \subseteq dlq' /\ unsure \subseteq unsure'

\* A run that goes on with its job, jobs being as they were.
LEMMA GoingOnLetters ==
  ASSUME TypeOK, Lettering, LettersGrow, job' = job,
         NEW w \in Worker, NEW a, NEW b,
         run' = [run EXCEPT ![w].at = a, ![w].ok = b],
         \/ run[w].job \notin Lettered
         \/ a = "end" /\ ~b /\ (WantsDlq(w) => run[w].job \in dlq' \cup unsure')
  PROVE  Lettering'
<1>1. \A v \in Worker : run'[v].job = run[v].job /\ run'[v].attempt = run[v].attempt
  BY DEF TypeOK, Run
<1>2. \A v \in Worker \ {w} : run'[v] = run[v]
  BY DEF TypeOK
<1>3. run'[w].at = a /\ run'[w].ok = b
  BY DEF TypeOK, Run
<1>4. ClaimIsCurrent'
  BY <1>1 DEF Lettering, ClaimIsCurrent
<1>5. Routed'
  <2> SUFFICES ASSUME NEW v \in Worker, run'[v].job \in Lettered
               PROVE  /\ run'[v].at \in {"route", "end"}
                      /\ At(v, "end")' =>
                           ~run'[v].ok /\ (WantsDlq(v)' => run'[v].job \in dlq' \cup unsure')
    BY DEF Routed
  <2>1. WantsDlq(v)' <=> WantsDlq(v)
    BY <1>1 DEF WantsDlq
  <2>2. CASE v = w
    BY <1>1, <1>3, <2>1, <2>2
  <2>3. CASE v # w
    BY <1>2, <2>1, <2>3 DEF Lettering, Routed, LettersGrow, At
  <2> QED BY <2>2, <2>3
<1>6. FailedIsDeadLettered'
  BY DEF Lettering, FailedIsDeadLettered, LettersGrow
<1> QED BY <1>4, <1>5, <1>6 DEF Lettering

\* The steps of runOnce are not taken for such a job.
LEMMA RunOnceLetters ==
  ASSUME TypeOK, Lettering, NEW w \in Worker,
         \/ Check(w) \/ Lock(w) \/ Busy(w) \/ Recheck(w) \/ Handle(w) \/ Record(w)
         \/ Unlock(w) \/ (Throws(w) /\ ~At(w, "route"))
  PROVE  Lettering'
<1>1. run[w].job \notin Lettered
  <2>1. run[w].at \notin {"route", "end"}
    BY DEF At, Check, Lock, Busy, Recheck, Handle, Record, Unlock, Throws
  <2> QED BY <2>1 DEF Lettering, Routed
<1>2. job' = job
  BY DEF Check, Lock, Busy, Recheck, Handle, Record, Unlock, Throws
<1>3. \E a, b : run' = [run EXCEPT ![w].at = a, ![w].ok = b]
  <2>1. ASSUME NEW a, Goto(w, a) PROVE run' = [run EXCEPT ![w].at = a, ![w].ok = run[w].ok]
    BY <2>1 DEF Goto, TypeOK, Run
  <2>2. ASSUME NEW a, NEW b, End(w, a, b) PROVE run' = [run EXCEPT ![w].at = a, ![w].ok = b]
    BY <2>2 DEF End
  <2>3. (\E a : Goto(w, a)) \/ (\E a, b : End(w, a, b))
    BY DEF Check, Lock, Busy, Recheck, Handle, Record, Unlock, Throws, At
  <2> QED BY <2>1, <2>2, <2>3
<1>4. LettersGrow
  BY DEF LettersGrow, Check, Lock, Busy, Recheck, Handle, Record, Unlock, Throws, At
<1> QED BY <1>1, <1>2, <1>3, <1>4, GoingOnLetters

\* moveToDlq leaves an entry, or its error is on record.
LEMMA RouteLetters ==
  ASSUME TypeOK, Lettering, NEW w \in Worker, Route(w) \/ (Throws(w) /\ At(w, "route"))
  PROVE  Lettering'
<1>1. job' = job /\ LettersGrow
  BY DEF LettersGrow, Route, Throws, At
<1>2. CASE Route(w) /\ run[w].job \in Lettered
  <2>1. End(w, "end", FALSE) /\ (WantsDlq(w) => run[w].job \in dlq')
    BY <1>2 DEF Route, Lettered
  <2> QED BY <1>1, <2>1, GoingOnLetters DEF End
<1>3. CASE Route(w) /\ run[w].job \notin Lettered
  <2>1. PICK a \in {"handler", "check"} : Goto(w, a)
    BY <1>3 DEF Route, Lettered
  <2>2. run' = [run EXCEPT ![w].at = a, ![w].ok = run[w].ok]
    BY <2>1 DEF Goto, TypeOK, Run
  <2> QED BY <1>1, <1>3, <2>2, GoingOnLetters
<1>4. CASE Throws(w) /\ At(w, "route")
  <2>1. End(w, "end", FALSE) /\ run[w].job \in unsure'
    BY <1>4 DEF Throws, At
  <2> QED BY <1>1, <2>1, GoingOnLetters DEF End
<1> QED BY <1>2, <1>3, <1>4

\* A run that leaves its job: BullMQ counts the attempt if the job is its own.
LEMMA LeavingLetters ==
  ASSUME QueueAssumption, TypeOK, Retryable, Lettering, NEW w \in Worker,
         Finish(w) \/ Crash(w)
  PROVE  Lettering'
<1> DEFINE j == run[w].job
<1>1. j \in Job /\ NULL \notin Worker /\ NULL \notin Job
  BY DEF Finish, Crash, At, TypeOK, Run, QueueAssumption
<1>2. run'[w] = Idle /\ \A v \in Worker \ {w} : run'[v] = run[v]
  BY DEF Finish, Crash, TypeOK
<1>3. \A i \in Job \ {j} : job'[i] = job[i]
  BY DEF Finish, Crash, TypeOK
<1>4. job'[j].by # w
  BY <1>1 DEF Finish, Crash, TypeOK, BullJob
<1>5. dlq' = dlq /\ unsure \subseteq unsure'
  BY DEF Finish, Crash
<1>6. job[j].by # w => job'[j] = job[j]
  BY <1>1 DEF Finish, Crash, TypeOK, BullJob
<1>7. job[j].by = w => job'[j].by = NULL
  BY <1>1 DEF Finish, Crash, TypeOK, BullJob
<1>8. ClaimIsCurrent'
  <2> SUFFICES ASSUME NEW v \in Worker, NEW i \in Job, job'[i].by = v
               PROVE  run'[v].job = i /\ run'[v].attempt = job'[i].made + 1
    BY DEF ClaimIsCurrent
  <2>1. job'[i] = job[i]
    BY <1>1, <1>3, <1>6, <1>7
  <2>2. v # w
    <3>1. i # j => job[i].by # w
      BY DEF Lettering, ClaimIsCurrent
    <3> QED BY <1>4, <2>1, <3>1
  <2> QED BY <1>2, <2>1, <2>2 DEF Lettering, ClaimIsCurrent
<1>9. Routed'
  <2> SUFFICES ASSUME NEW v \in Worker, run'[v].job \in Lettered
               PROVE  /\ run'[v].at \in {"route", "end"}
                      /\ At(v, "end")' =>
                           ~run'[v].ok /\ (WantsDlq(v)' => run'[v].job \in dlq' \cup unsure')
    BY DEF Routed
  <2>1. v # w
    BY <1>1, <1>2 DEF Idle, Lettered, QueueAssumption
  <2> QED BY <1>2, <1>5, <2>1 DEF Lettering, Routed, At, WantsDlq
<1>10. FailedIsDeadLettered'
  <2> SUFFICES ASSUME NEW i \in Lettered \ unsure', job'[i].state = "failed",
                      job'[i].stalls <= MaxStalled
               PROVE  i \in dlq'
    BY DEF FailedIsDeadLettered, Lettered
  <2>1. i \in Job
    BY DEF Lettered, QueueAssumption
  <2>2. CASE job'[i].state = job[i].state /\ job'[i].stalls = job[i].stalls
    BY <1>5, <2>2 DEF Lettering, FailedIsDeadLettered, Lettered
  <2>3. CASE ~(job'[i].state = job[i].state /\ job'[i].stalls = job[i].stalls)
    <3>1. i = j /\ job[j].by = w
      BY <1>3, <1>6, <2>1, <2>3
    <3>2. Finish(w)
      BY <1>1, <2>3, <3>1 DEF Crash, TypeOK, BullJob
    <3>3. ~run[w].ok /\ job[j].made + 1 >= Attempts
      BY <1>1, <2>1, <3>1, <3>2 DEF Finish, TypeOK, BullJob
    <3>4. run[w].attempt = job[j].made + 1
      BY <1>1, <3>1 DEF Lettering, ClaimIsCurrent
    <3>5. WantsDlq(w)
      BY <3>1, <3>3, <3>4 DEF WantsDlq, Lettered
    <3>6. i \in dlq \cup unsure
      BY <3>1, <3>2, <3>5 DEF Lettering, Routed, Finish
    <3> QED BY <1>5, <3>6
  <2> QED BY <2>2, <2>3
<1> QED BY <1>8, <1>9, <1>10 DEF Lettering

\* A job that is given out: its worker had none.
LEMMA PickLetters ==
  ASSUME QueueAssumption, TypeOK, Retryable, Lettering, NEW w \in Worker, NEW j \in Job, Pick(w, j)
  PROVE  Lettering'
<1>1. run'[w] = [at |-> "route", job |-> j, attempt |-> job[j].made + 1, ok |-> TRUE]
  BY DEF Pick, TypeOK
<1>2. /\ \A v \in Worker \ {w} : run'[v] = run[v]
      /\ \A i \in Job \ {j} : job'[i] = job[i]
  BY DEF Pick, TypeOK
<1>3. /\ job'[j].by = w /\ job'[j].made = job[j].made /\ job'[j].state = "active"
      /\ dlq' = dlq /\ unsure' = unsure
  BY DEF Pick, TypeOK, BullJob
<1>4. \A i \in Job : job[i].by # w
  <2>1. run[w].job = NULL /\ NULL \notin Job
    BY DEF Pick, At, TypeOK, QueueAssumption
  <2> QED BY <2>1 DEF Lettering, ClaimIsCurrent
<1>5. ClaimIsCurrent'
  BY <1>1, <1>2, <1>3, <1>4 DEF Lettering, ClaimIsCurrent
<1>6. Routed'
  <2> SUFFICES ASSUME NEW v \in Worker, run'[v].job \in Lettered
               PROVE  /\ run'[v].at \in {"route", "end"}
                      /\ At(v, "end")' =>
                           ~run'[v].ok /\ (WantsDlq(v)' => run'[v].job \in dlq' \cup unsure')
    BY DEF Routed
  <2>1. CASE v = w
    BY <1>1, <2>1 DEF At
  <2>2. CASE v # w
    BY <1>2, <1>3, <2>2 DEF Lettering, Routed, At, WantsDlq
  <2> QED BY <2>1, <2>2
<1>7. FailedIsDeadLettered'
  BY <1>2, <1>3 DEF Lettering, FailedIsDeadLettered, QueueAssumption
<1> QED BY <1>5, <1>6, <1>7 DEF Lettering

\* BullMQ and the clock: no job fails but one that stalled too often.
LEMMA QueueLetters ==
  ASSUME QueueAssumption, TypeOK, Lettering,
         (\E j \in Job : ClaimExpires(j) \/ TakeBack(j)) \/ Tick
  PROVE  Lettering'
<1>1. run' = run /\ dlq' = dlq /\ unsure \subseteq unsure'
  <2>1. CASE Tick
    BY <2>1 DEF Tick
  <2>2. ASSUME NEW j \in Job, ClaimExpires(j) \/ TakeBack(j)
        PROVE  run' = run /\ dlq' = dlq /\ unsure' = unsure
    BY <2>2 DEF ClaimExpires, TakeBack, redis
  <2> QED BY <2>1, <2>2
<1>2. \A i \in Job : /\ job'[i].by = job[i].by \/ job'[i].by = NULL
                     /\ job'[i].made = job[i].made
                     /\ job'[i].state = "failed" /\ job'[i].stalls <= MaxStalled
                          => job[i].state = "failed" /\ job[i].stalls <= MaxStalled
  <2> SUFFICES ASSUME NEW i \in Job
               PROVE  /\ job'[i].by = job[i].by \/ job'[i].by = NULL
                      /\ job'[i].made = job[i].made
                      /\ job'[i].state = "failed" /\ job'[i].stalls <= MaxStalled
                          => job[i].state = "failed" /\ job[i].stalls <= MaxStalled
    OBVIOUS
  <2>1. job[i] \in BullJob
    BY DEF TypeOK
  <2>2. ASSUME NEW j \in Job, ClaimExpires(j) \/ TakeBack(j), i # j PROVE job'[i] = job[i]
    BY <2>2 DEF ClaimExpires, TakeBack, TypeOK
  <2>3. CASE ClaimExpires(i)
    BY <2>1, <2>3 DEF ClaimExpires, TypeOK, BullJob
  <2>4. CASE TakeBack(i)
    <3>1. /\ job'[i].stalls = job[i].stalls + 1
          /\ job'[i].by = job[i].by /\ job'[i].made = job[i].made
          /\ job'[i].state = IF job[i].stalls >= MaxStalled THEN "failed" ELSE "wait"
      BY <2>1, <2>4 DEF TakeBack, TypeOK, BullJob
    <3> QED BY <2>1, <3>1 DEF BullJob, QueueAssumption
  <2>5. CASE Tick
    <3>1. job'[i] = IF job[i].state # "delayed" THEN job[i]
                    ELSE IF job[i].left <= 1 THEN [job[i] EXCEPT !.left = 0, !.state = "wait"]
                    ELSE [job[i] EXCEPT !.left = job[i].left - 1]
      <4>1. job' = [j \in Job |->
              IF job[j].state # "delayed" THEN job[j]
              ELSE IF job[j].left <= 1 THEN [job[j] EXCEPT !.left = 0, !.state = "wait"]
              ELSE [job[j] EXCEPT !.left = job[j].left - 1]]
        BY <2>5 DEF Tick
      <4> QED BY <4>1
    <3>2. CASE job[i].state # "delayed"
      BY <3>1, <3>2
    <3>3. CASE job[i].state = "delayed" /\ job[i].left <= 1
      BY <2>1, <3>1, <3>3 DEF BullJob
    <3>4. CASE job[i].state = "delayed" /\ ~(job[i].left <= 1)
      BY <2>1, <3>1, <3>4 DEF BullJob
    <3> QED BY <3>2, <3>3, <3>4
  <2> QED BY <2>2, <2>3, <2>4, <2>5
<1>3. NULL \notin Worker
  BY DEF QueueAssumption
<1>4. ClaimIsCurrent'
  BY <1>1, <1>2, <1>3 DEF Lettering, ClaimIsCurrent
<1>5. Routed'
  BY <1>1 DEF Lettering, Routed, At, WantsDlq
<1>6. FailedIsDeadLettered'
  BY <1>1, <1>2 DEF Lettering, FailedIsDeadLettered, QueueAssumption
<1> QED BY <1>4, <1>5, <1>6 DEF Lettering

LEMMA NextLetters ==
  ASSUME TypeOK, Retryable, Lettering, [Next]_vars
  PROVE  Lettering'
<1>1. CASE UNCHANGED vars
  BY <1>1 DEF vars, Lettering, ClaimIsCurrent, Routed, FailedIsDeadLettered, At, WantsDlq
<1> QED BY <1>1, QueueAssumption, RunOnceLetters, RouteLetters, LeavingLetters, PickLetters,
            QueueLetters DEF Next, Process

-----------------------------------------------------------------------------
(* The invariant and what follows from it.                                 *)

LEMMA InitConsumption == Init => Consumption
<1> SUFFICES ASSUME Init
             PROVE  Consumption
  OBVIOUS
<1> USE QueueAssumption DEF QueueAssumption
<1> DEFINE new == [state |-> "wait", made |-> 0, left |-> 0, stalls |-> 0, by |-> NULL]
<1>1. TypeOK
  <2>1. new \in BullJob
    BY DEF BullJob
  <2>2. job = [j \in Job |-> new]
    BY DEF Init
  <2>3. job \in [Job -> BullJob]
    BY <2>1, <2>2
  <2>4. run \in [Worker -> Run] /\ \A w \in Worker : run[w].at = "idle" /\ run[w].job = NULL
    BY DEF Init, Run, Idle
  <2>5. /\ dlq \subseteq Job /\ done \in BOOLEAN /\ lock \in 0..LockTtl
        /\ lockedBy \in Worker \cup {NULL} /\ writes \in [Job -> Nat]
        /\ unsure \subseteq Job /\ faults \in 0..MaxFaults
    <3>1. /\ dlq = {} /\ done = FALSE /\ lock = 0 /\ lockedBy = NULL
          /\ writes = [j \in Job |-> 0] /\ unsure = {} /\ faults = 0
      BY DEF Init
    <3>2. dlq \subseteq Job /\ unsure \subseteq Job /\ done \in BOOLEAN
      BY <3>1, Zenon
    <3>3. lock \in 0..LockTtl /\ faults \in 0..MaxFaults
      BY <3>1
    <3>4. writes \in [Job -> Nat]
      BY <3>1
    <3>5. QED
      BY <3>1, <3>2, <3>3, <3>4
  <2>6. QED
    BY <2>3, <2>4, <2>5 DEF TypeOK
<1>2. Retryable
  <2>1. \A j \in Job : job[j] = new
    BY DEF Init
  <2>2. new.made = 0 /\ new.stalls = 0 /\ new.by = NULL
    OBVIOUS
  <2> HIDE DEF new
  <2>3. \A j \in Job : job[j].made = 0 /\ job[j].stalls = 0 /\ job[j].by = NULL
    BY <2>1, <2>2
  <2>4. 0 < Attempts /\ 0 <= MaxStalled
    OBVIOUS
  <2>5. QED
    BY <2>3, <2>4 DEF Retryable
<1>3. InRunOnce /\ LockIsThere
  BY DEF Init, InRunOnce, LockIsThere, Guarded, Idle
<1>4. DoneWasWritten /\ CompletedWasWritten
  BY DEF Init, DoneWasWritten, CompletedWasWritten, Written, At, Idle
<1>5. GuardedHasLock /\ HandlerNotDone /\ RecordedOrAbout
  BY DEF Init, GuardedHasLock, HandlerNotDone, RecordedOrAbout, Written, Guarded, At, Idle, Keyed
<1>6. WrittenOnce
  <2>1. \A j \in Keyed : writes[j] = 0
    BY DEF Init, Keyed
  <2>2. QED
    BY <2>1 DEF WrittenOnce
<1>7. QED
  BY <1>1, <1>2, <1>3, <1>4, <1>5, <1>6 DEF Consumption

LEMMA NextConsumption == Consumption /\ [Next]_vars => Consumption'
<1> SUFFICES ASSUME Consumption, [Next]_vars
             PROVE  Consumption'
  OBVIOUS
<1> USE DEF Consumption
<1>1. (TypeOK /\ Retryable)'
  BY NextTypes
<1>2. Grows
  BY NextGrows
<1>3. (InRunOnce /\ LockIsThere)'
  BY NextRuns
<1>4. DoneWasWritten'
  BY <1>2, NextDone
<1>5. CompletedWasWritten'
  BY <1>1, <1>2, NextCompleted
<1>6. Sure' => Sure
  BY <1>2 DEF Sure, Grows
<1>7. ASSUME Sure'
      PROVE  (GuardedHasLock /\ HandlerNotDone /\ RecordedOrAbout)' /\ WrittenOnce'
  <2>1. GuardedHasLock'
    BY <1>2, <1>6, <1>7, NextHasLock
  <2>2. HandlerNotDone'
    BY <1>2, <1>6, <1>7, NextNotDone
  <2>3. RecordedOrAbout'
    BY <1>2, <1>6, <1>7, NextRecorded
  <2>4. WrittenOnce'
    BY <1>2, <1>6, <1>7, NextOnce
  <2>5. QED
    BY <2>1, <2>2, <2>3, <2>4
<1>8. ~Sure' => WrittenOnce'
  BY DEF Sure, WrittenOnce
<1>9. QED
  BY <1>1, <1>3, <1>4, <1>5, <1>7, <1>8

THEOREM Invariance == Spec => []Consumption
<1>1. QED
  BY InitConsumption, NextConsumption, PTL DEF Spec

\* Every variable keeps its type; an idle worker has no job and no other has none.
THEOREM TypeCorrect == Spec => []TypeOK
<1>1. Consumption => TypeOK
  BY DEF Consumption
<1>2. QED
  BY <1>1, Invariance, PTL

\* Whatever number of jobs carry an event, and however often BullMQ gives them
\* out, there is one line for it in the sink, unless a run overran its lock or
\* ended between its write and its record (QueueIdempotencyService.runOnce).
THEOREM EventWrittenOnce == Spec => []WrittenOnce
<1>1. Consumption => WrittenOnce
  BY DEF Consumption
<1>2. QED
  BY <1>1, Invariance, PTL

\* A job that BullMQ has down as completed has its line in the sink, also one that
\* runOnce skipped as a duplicate, whatever went wrong before.
THEOREM AcknowledgedWasWritten == Spec => []CompletedWasWritten
<1>1. Consumption => CompletedWasWritten
  BY DEF Consumption
<1>2. QED
  BY <1>1, Invariance, PTL

\* A job that asks for the dead-letter queue is there when it has failed, however
\* many attempts it has and whatever became of the workers that tried it, unless
\* moveToDlq reported an error or BullMQ gave the job up as stalled.
THEOREM FailedJobsAreLettered == Spec => []FailedIsDeadLettered
<1>1. Init => Lettering
  <2> SUFFICES ASSUME Init PROVE Lettering
    OBVIOUS
  <2>1. \A j \in Job : job[j].by = NULL /\ job[j].state = "wait"
    <3>1. job = [j \in Job |-> [state |-> "wait", made |-> 0, left |-> 0, stalls |-> 0,
                                by |-> NULL]]
      BY DEF Init
    <3> QED BY <3>1
  <2>2. \A w \in Worker : run[w].job = NULL
    BY DEF Init, Idle
  <2>3. ClaimIsCurrent
    BY <2>1, QueueAssumption DEF ClaimIsCurrent, QueueAssumption
  <2>4. Routed
    BY <2>2, QueueAssumption DEF Routed, Lettered, QueueAssumption
  <2>5. FailedIsDeadLettered
    BY <2>1, QueueAssumption DEF FailedIsDeadLettered, QueueAssumption
  <2> QED BY <2>3, <2>4, <2>5 DEF Lettering
<1>2. Consumption /\ Lettering /\ [Next]_vars => Lettering'
  BY NextLetters DEF Consumption
<1>3. Lettering => FailedIsDeadLettered
  BY DEF Lettering
<1> QED BY <1>1, <1>2, <1>3, Invariance, PTL DEF Spec

=============================================================================
