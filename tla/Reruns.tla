------------------------------- MODULE Reruns -------------------------------
(***************************************************************************)
(* When an idea is re-run: the scheduler's sweep over the active ideas     *)
(* with its due check (services/scheduler.py, services/snapshot_worker.py),*)
(* the founder's forced re-run (routers/v1_ideas.py) behind its rolling    *)
(* limit (services/rate_limiter.py), and the lock they share.              *)
(*                                                                         *)
(* Time is relative: how many ticks ago something happened, counted up to  *)
(* the length that matters.  The lock of an idea is what RunMutex promises *)
(* and SchedulerLock implements; what a re-run writes is ScoreHistory's.   *)
(* A process runs one sweep.  Faults are counted and bounded.              *)
(***************************************************************************)
EXTENDS Integers, Sequences, FiniteSets

CONSTANTS
  Ideas,        \* active ideas
  Snapshotless, \* those a promotion left without a first snapshot
  Asked,        \* ideas whose founder forces re-runs
  Requests,     \* bound: re-runs forced within one window
  Scheduler,    \* the sweep, as holder of a lock
  Nobody, Abandoned, \* see RunMutex
  ListLimit,    \* list_active's limit
  Interval,     \* SNAPSHOT_SCHEDULE_INTERVAL_DAYS, in ticks
  Window,       \* SNAPSHOT_MANUAL_RERUN_WINDOW_SECONDS, in ticks
  MaxReruns,    \* SNAPSHOT_MANUAL_RERUN_MAX
  MaxFaults     \* bound: faults of a behaviour

ASSUME RerunsAssumption ==
  /\ IsFiniteSet(Ideas) /\ IsFiniteSet(Requests)
  /\ Snapshotless \subseteq Ideas /\ Asked \subseteq Ideas
  /\ Scheduler \notin Requests
  /\ {Nobody, Abandoned} \cap (Requests \cup {Scheduler}) = {}
  /\ Nobody # Abandoned
  /\ ListLimit \in Nat /\ MaxReruns \in Nat /\ MaxFaults \in Nat
  /\ Interval \in Nat \ {0} /\ Window \in Nat \ {0}

Workers == Requests \cup {Scheduler}

VARIABLES
  age,        \* ticks since the idea's latest snapshot, up to Interval
  since,      \* history: ticks since its latest scheduled snapshot, likewise
  lock,       \* who holds the idea's scheduler lock
  pc,         \* where the sweep and each request are
  queue,      \* the ideas the sweep has still to look at, the present one first
  target,     \* the idea a request is for
  asked,      \* ticks since the request was made, up to Window
  stores,     \* where the limiter recorded it
  admittedBy, \* history: the store whose count admitted it
  redisAvailable, \* rate_limiter._redis_available
  mongoAvailable, \* services.mongo._mongo_available
  faults      \* how many faults there were

limiterVars == <<target, asked, stores, admittedBy, redisAvailable>>
historyVars == <<age, since>>
vars == <<historyVars, lock, pc, queue, limiterVars, mongoAvailable, faults>>

TypeOK ==
  /\ age \in [Ideas -> 0..Interval] /\ since \in [Ideas -> 0..Interval]
  /\ lock \in [Ideas -> Workers \cup {Nobody, Abandoned}]
  /\ pc \in [Workers -> {"idle", "due", "lock", "run", "release", "raise"}]
  /\ queue \in Seq(Ideas)
  /\ pc[Scheduler] = "idle" <=> queue = <<>>
  /\ target \in [Requests -> Ideas]
  /\ asked \in [Requests -> 0..Window]
  /\ stores \in [Requests -> SUBSET {"redis", "memory"}]
  /\ admittedBy \in [Requests -> {"redis", "memory", "past", "open", "none"}]
  /\ redisAvailable \in BOOLEAN /\ mongoAvailable \in BOOLEAN
  /\ faults \in 0..MaxFaults

Init ==
  /\ age \in [Ideas -> {0, Interval}]
  /\ since = [i \in Ideas |-> Interval]
  /\ lock = [i \in Ideas |-> Nobody]
  /\ pc = [w \in Workers |-> "idle"]
  /\ queue = <<>>
  /\ target \in [Requests -> Asked]
  /\ asked = [r \in Requests |-> Window]
  /\ stores = [r \in Requests |-> {}]
  /\ admittedBy = [r \in Requests |-> "none"]
  /\ redisAvailable = TRUE /\ mongoAvailable = TRUE
  /\ faults = 0

-----------------------------------------------------------------------------
NoFault == UNCHANGED faults
Fault == faults < MaxFaults /\ faults' = faults + 1

\* A MongoDB call returns; raises; finds MongoDB marked unavailable.
Returns == mongoAvailable /\ UNCHANGED mongoAvailable /\ NoFault
Raises  == mongoAvailable /\ mongoAvailable' = FALSE /\ Fault
Skips   == ~mongoAvailable /\ UNCHANGED mongoAvailable /\ NoFault

Goto(w, label) == pc' = [pc EXCEPT ![w] = label]

\* The idea a worker is at.
At(w) == IF w = Scheduler THEN Head(queue) ELSE target[w]

\* Mutant: an exception leaves the sweep standing where it was.
StopHere(w) == Goto(w, "idle") /\ UNCHANGED queue

\* An exception ends a request, and a sweep with all that is left of it.
GiveUp(w) ==
  /\ Goto(w, "idle")
  /\ queue' = IF w = Scheduler THEN <<>> ELSE queue

\* A request is done; the sweep goes on with the next idea.
Continue(w) ==
  /\ Goto(w, IF w = Scheduler /\ Len(queue) > 1 THEN "due" ELSE "idle")
  /\ queue' = IF w = Scheduler THEN Tail(queue) ELSE queue

-----------------------------------------------------------------------------
\* list_active: no order stated, and no more than the limit.
Listed ==
  LET n == IF Cardinality(Ideas) <= ListLimit THEN Cardinality(Ideas) ELSE ListLimit
  IN  {q \in [1..n -> Ideas] : \A j, k \in 1..n : q[j] = q[k] => j = k}

\* _loop, _tick and the head of sweep_due_ideas.
Wake ==
  /\ pc[Scheduler] = "idle"
  /\ \/ Returns /\ queue' \in Listed
     \/ (Raises \/ Skips) /\ queue' = <<>>
  /\ Goto(Scheduler, IF queue' = <<>> THEN "idle" ELSE "due")
  /\ UNCHANGED <<historyVars, lock, limiterVars>>

\* is_due_for_scheduled_snapshot: an idea without a snapshot is due, and so is
\* one whose snapshot could not be read.
Due(i) == i \in Snapshotless \/ age[i] >= Interval

CheckDue ==
  /\ pc[Scheduler] = "due"
  /\ \/ Returns /\ Due(At(Scheduler)) /\ Goto(Scheduler, "lock") /\ UNCHANGED queue
     \/ Returns /\ ~Due(At(Scheduler)) /\ Continue(Scheduler)
     \/ (Raises \/ Skips) /\ Goto(Scheduler, "lock") /\ UNCHANGED queue
     \/ Fault /\ GiveUp(Scheduler) /\ UNCHANGED mongoAvailable
  /\ UNCHANGED <<historyVars, lock, limiterVars>>

-----------------------------------------------------------------------------
\* Mutant: a cutoff one tick too late.
RecordedShort(i, store) ==
  {r \in Requests : target[r] = i /\ asked[r] < Window - 1 /\ store \in stores[r]}

\* The members of the idea's key that trimming leaves.
Fresh(r) == asked[r] < Window
Recorded(i, store) ==
  {r \in Requests : target[r] = i /\ Fresh(r) /\ store \in stores[r]}

\* _check_one counts the request with the others, then looks at the count.
Admits(i, store, r) == Cardinality(Recorded(i, store) \cup {r}) <= MaxReruns

Decide(r, i, store) ==
  IF Admits(i, store, r)
    THEN Goto(r, "lock") /\ admittedBy' = [admittedBy EXCEPT ![r] = store]
    ELSE Goto(r, "idle") /\ admittedBy' = [admittedBy EXCEPT ![r] = "none"]

Record(r, where) == stores' = [stores EXCEPT ![r] = where]

\* force_snapshot, up to the lock: the idea is read, which takes MongoDB, then
\* the limit is checked in Redis, in memory when Redis raises (the request
\* recorded there or not) or has raised before, or not at all after an error
\* of another kind.  Request r is any that left the window.
ForceSnapshot(r, i) ==
  /\ mongoAvailable
  /\ pc[r] = "idle" /\ ~Fresh(r)
  /\ asked' = [asked EXCEPT ![r] = 0]
  /\ target' = [target EXCEPT ![r] = i]
  /\ \/ /\ redisAvailable /\ UNCHANGED redisAvailable /\ NoFault
        /\ Record(r, {"redis"}) /\ Decide(r, i, "redis")
     \/ /\ redisAvailable /\ redisAvailable' = FALSE /\ Fault
        /\ Record(r, {"memory"}) \/ Record(r, {"redis", "memory"})
        /\ Decide(r, i, "memory")
     \/ /\ ~redisAvailable /\ UNCHANGED redisAvailable /\ NoFault
        /\ Record(r, {"memory"}) /\ Decide(r, i, "memory")
     \/ /\ redisAvailable /\ UNCHANGED redisAvailable /\ Fault
        /\ Record(r, {}) /\ Goto(r, "lock")
        /\ admittedBy' = [admittedBy EXCEPT ![r] = "open"]
  /\ UNCHANGED <<historyVars, lock, queue, mongoAvailable>>

-----------------------------------------------------------------------------
\* Mutant: the run goes ahead when there is no MongoDB to lock in.
LockAssumed(w) == Goto(w, "run") /\ UNCHANGED queue

\* try_acquire_scheduler_lock without MongoDB.
LockRefused(w) == Continue(w)

TakeLock(w) ==
  /\ pc[w] = "lock"
  /\ \/ /\ Returns /\ lock[At(w)] = Nobody
        /\ lock' = [lock EXCEPT ![At(w)] = w]
        /\ Goto(w, "run") /\ UNCHANGED queue
     \/ /\ Returns /\ lock[At(w)] # Nobody
        /\ Continue(w) /\ UNCHANGED lock
     \/ /\ Raises /\ LockRefused(w)
        /\ \/ UNCHANGED lock
           \/ lock[At(w)] = Nobody /\ lock' = [lock EXCEPT ![At(w)] = Abandoned]
     \/ Skips /\ LockRefused(w) /\ UNCHANGED lock
  /\ UNCHANGED <<historyVars, limiterVars>>

Snapshot(w, i) ==
  /\ i \notin Snapshotless
  /\ age' = [age EXCEPT ![i] = 0]
  /\ since' = IF w = Scheduler THEN [since EXCEPT ![i] = 0] ELSE since

\* _run_market_sensitive: the snapshot is written or not, or anything else
\* raises on the way.
Run(w) ==
  /\ pc[w] = "run"
  /\ \/ (Returns \/ Raises) /\ Snapshot(w, At(w)) /\ Goto(w, "release")
     \/ /\ Raises \/ Skips \/ (Returns /\ At(w) \in Snapshotless)
        /\ Goto(w, "release") /\ UNCHANGED historyVars
     \/ /\ Fault /\ UNCHANGED mongoAvailable
        /\ Goto(w, "raise") /\ UNCHANGED historyVars
  /\ UNCHANGED <<lock, queue, limiterVars>>

\* The finally of _run_locked, then the exception or the next idea.
Release(w) ==
  /\ pc[w] \in {"release", "raise"}
  /\ \/ Returns /\ lock' = [lock EXCEPT ![At(w)] = Nobody]
     \/ Raises /\ \E h \in {Nobody, Abandoned} : lock' = [lock EXCEPT ![At(w)] = h]
     \/ Skips /\ lock' = [lock EXCEPT ![At(w)] = Abandoned]
  /\ IF pc[w] = "raise" THEN GiveUp(w) ELSE Continue(w)
  /\ UNCHANGED <<historyVars, limiterVars>>

\* An abandoned lock passes its deadline.
ExpireLock(i) ==
  /\ lock[i] = Abandoned
  /\ lock' = [lock EXCEPT ![i] = Nobody]
  /\ UNCHANGED <<historyVars, pc, queue, limiterVars, mongoAvailable, faults>>

-----------------------------------------------------------------------------
\* run_evidence_snapshot, which takes no lock.
Evidence(i) ==
  /\ Returns /\ Snapshot(Nobody, i)
  /\ UNCHANGED <<lock, pc, queue, limiterVars>>

\* The process dies and is started again, without its memory.
Restart ==
  /\ Fault
  /\ pc' = [w \in Workers |-> "idle"] /\ queue' = <<>>
  /\ lock' = [i \in Ideas |-> IF lock[i] = Nobody THEN Nobody ELSE Abandoned]
  /\ stores' = [r \in Requests |-> stores[r] \ {"memory"}]
  /\ admittedBy' = [r \in Requests |->
                      IF admittedBy[r] = "memory" THEN "past" ELSE admittedBy[r]]
  /\ redisAvailable' = TRUE /\ mongoAvailable' = TRUE
  /\ UNCHANGED <<historyVars, target, asked>>

Older(n, most) == IF n < most THEN n + 1 ELSE n

Tick ==
  /\ age' = [i \in Ideas |-> Older(age[i], Interval)]
  /\ since' = [i \in Ideas |-> Older(since[i], Interval)]
  /\ asked' = [r \in Requests |-> Older(asked[r], Window)]
  /\ UNCHANGED <<lock, pc, queue, target, stores, admittedBy, redisAvailable,
                 mongoAvailable, faults>>

Step(w) == TakeLock(w) \/ Run(w) \/ Release(w)

Next ==
  \/ Wake \/ CheckDue \/ Tick \/ Restart
  \/ \E r \in Requests, i \in Asked : ForceSnapshot(r, i)
  \/ \E w \in Workers : Step(w)
  \/ \E i \in Ideas : ExpireLock(i) \/ Evidence(i)

Spec == Init /\ [][Next]_vars

\* The clock and the event loop go on, and abandoned locks pass their deadline.
FairSpec ==
  /\ Spec
  /\ WF_vars(Tick) /\ WF_vars(Wake) /\ WF_vars(CheckDue)
  /\ \A w \in Workers : WF_vars(Step(w))
  /\ \A i \in Ideas : WF_vars(ExpireLock(i))

-----------------------------------------------------------------------------
\* When the sweep begins a paid re-run of an idea, its last scheduled snapshot
\* is a whole interval old, though the due check takes an idea whose snapshot it
\* cannot read for due, and though manual and evidence runs, failures and
\* restarts come in between (sweep_due_ideas: "idempotent per idea").
ScheduledRunsApart ==
  pc[Scheduler] = "run" => since[At(Scheduler)] >= Interval

\* Inside _run_locked, from the lock to the end of its finally.
Inside(w) == pc[w] \in {"run", "release", "raise"}

\* The sweep and the founders' forced re-runs are never inside for the same idea
\* together, and a worker that is inside holds the lock, so that its release
\* frees no other run's (_run_locked: "so a manual force-run and a scheduled tick
\* can never run a re-score for the same idea at the same time").
InsideHoldsLock ==
  \A w \in Workers : Inside(w) => At(w) \in Ideas /\ lock[At(w)] = w

\* The lock of one idea, among all that goes on, is an abstract one.
Lock(i) == INSTANCE RunMutex WITH Runs <- Workers, holder <- lock[i]

\* A window as long as the limit's, wherever it starts, sees no more than
\* MaxReruns forced re-runs of an idea admitted by one store: Redis, or the
\* memory of one process.  Refused requests and those Redis recorded before it
\* failed count against the founder, never in his favour.
RerunsWithinCap ==
  \A i \in Ideas, store \in {"redis", "memory"} :
    Cardinality({r \in Requests : /\ target[r] = i /\ Fresh(r)
                                  /\ admittedBy[r] = store}) <= MaxReruns

\* An idea that is due gets a new snapshot, though ideas before it in the list
\* are locked, fail or abort the sweep, runs die with their locks, and others
\* are re-run in between; unless MongoDB was lost for the life of the process.
DueIdeaIsRerun ==
  \A i \in Ideas \ Snapshotless :
    age[i] = Interval ~> age[i] = 0 \/ ~mongoAvailable
=============================================================================
