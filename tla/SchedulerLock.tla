--------------------------- MODULE SchedulerLock ---------------------------
(***************************************************************************)
(* The scheduler lock of one idea: ideas.scheduler_lock_until, a deadline  *)
(* in the idea document that every market-sensitive re-run takes before it *)
(* starts and clears when it ends (repositories/idea_repository.py,        *)
(* services/snapshot_worker.py:_run_locked).                               *)
(*                                                                         *)
(* Each MongoDB call is issued in one step (the caller computes its        *)
(* arguments and looks at the availability flag) and executed by the       *)
(* server in a later one.  A call may fail; a write that fails may still   *)
(* have been applied.  The process may die and be restarted.               *)
(***************************************************************************)
EXTENDS Integers

CONSTANTS
  Runs,       \* concurrent calls of _run_locked for this idea
  TTL,        \* _SCHEDULER_LOCK_TTL_SECONDS, in clock ticks
  RunBound,   \* longest time from reading the clock to the end of the release
  MaxTime,    \* bound: the clock stops here
  Nobody, Abandoned  \* see RunMutex

ASSUME TimeAssumption ==
  /\ TTL \in Nat \ {0}
  /\ RunBound \in Nat
  /\ MaxTime \in Nat

ASSUME HolderAssumption ==
  /\ Nobody \notin Runs
  /\ Abandoned \notin Runs
  /\ Nobody # Abandoned

VARIABLES
  now,                \* the wall clock
  schedulerLockUntil, \* ideas.scheduler_lock_until
  mongoAvailable,     \* services.mongo._mongo_available
  pc,                 \* where each run is
  askedAt             \* the `now` each run computed in try_acquire

vars == <<now, schedulerLockUntil, mongoAvailable, pc, askedAt>>

Unlocked == -1  \* scheduler_lock_until is None

TypeOK ==
  /\ now \in Nat
  /\ schedulerLockUntil \in Nat \cup {Unlocked}
  /\ mongoAvailable \in BOOLEAN
  /\ pc \in [Runs -> {"idle", "acquiring", "running", "releasing"}]
  /\ askedAt \in [Runs -> Nat]

Init ==
  /\ now = 0
  /\ schedulerLockUntil = Unlocked
  /\ mongoAvailable \in BOOLEAN
  /\ pc = [r \in Runs |-> "idle"]
  /\ askedAt = [r \in Runs |-> 0]

Goto(r, label) == pc' = [pc EXCEPT ![r] = label]

\* Mutants: an expiry test that is off by one; a filter without its second arm.
LockFreeAtExpiry(t) == schedulerLockUntil = Unlocked \/ schedulerLockUntil =< t
LockFreeIfCleared(t) == schedulerLockUntil = Unlocked

\* The filter of the conditional update, on the clock value the caller sent.
LockFreeAt(t) == schedulerLockUntil = Unlocked \/ schedulerLockUntil < t

\* The window of a run is over: no later step of it lies beyond RunBound.
WithinBound(r) == pc[r] = "idle" \/ now < askedAt[r] + RunBound

-----------------------------------------------------------------------------
\* try_acquire_scheduler_lock, up to sending the update.  With MongoDB marked
\* unavailable it returns False and the run is skipped.
AskForLock(r) ==
  /\ pc[r] = "idle"
  /\ mongoAvailable
  /\ askedAt' = [askedAt EXCEPT ![r] = now]
  /\ Goto(r, "acquiring")
  /\ UNCHANGED <<now, schedulerLockUntil, mongoAvailable>>

\* Mutants: the TTL is subtracted; the lock is too short by a tick.
AcquirePast(r) ==
  /\ pc[r] = "acquiring"
  /\ LockFreeAt(askedAt[r])
  /\ schedulerLockUntil' = askedAt[r] - TTL
  /\ Goto(r, "running")
  /\ UNCHANGED <<now, mongoAvailable, askedAt>>

AcquireShort(r) ==
  /\ pc[r] = "acquiring"
  /\ LockFreeAt(askedAt[r])
  /\ schedulerLockUntil' = askedAt[r] + TTL - 1
  /\ Goto(r, "running")
  /\ UNCHANGED <<now, mongoAvailable, askedAt>>

\* The conditional update is applied and acknowledged.
Acquire(r) ==
  /\ pc[r] = "acquiring"
  /\ LockFreeAt(askedAt[r])
  /\ schedulerLockUntil' = askedAt[r] + TTL
  /\ Goto(r, "running")
  /\ UNCHANGED <<now, mongoAvailable, askedAt>>

\* Mutant: a run that found the lock taken clears it on its way out.
SkipAndRelease(r) ==
  /\ pc[r] = "acquiring"
  /\ ~LockFreeAt(askedAt[r])
  /\ Goto(r, "releasing")
  /\ UNCHANGED <<now, schedulerLockUntil, mongoAvailable, askedAt>>

\* No document matched the filter: modified_count = 0, the run is skipped.
SkipLocked(r) ==
  /\ pc[r] = "acquiring"
  /\ ~LockFreeAt(askedAt[r])
  /\ Goto(r, "idle")
  /\ UNCHANGED <<now, schedulerLockUntil, mongoAvailable, askedAt>>

\* The update raises PyMongoError: mark_unavailable, return False.  The server
\* may have applied it all the same.
AcquireFails(r) ==
  /\ pc[r] = "acquiring"
  /\ \/ UNCHANGED schedulerLockUntil
     \/ /\ LockFreeAt(askedAt[r])
        /\ schedulerLockUntil' = askedAt[r] + TTL
  /\ mongoAvailable' = FALSE
  /\ Goto(r, "idle")
  /\ UNCHANGED <<now, askedAt>>

\* _run_market_sensitive returns or raises; `finally` calls
\* release_scheduler_lock, which does nothing with MongoDB marked unavailable.
EndRun(r) ==
  /\ pc[r] = "running"
  /\ Goto(r, IF mongoAvailable THEN "releasing" ELSE "idle")
  /\ UNCHANGED <<now, schedulerLockUntil, mongoAvailable, askedAt>>

\* The release is applied: whoever holds the lock, it is cleared.
Release(r) ==
  /\ pc[r] = "releasing"
  /\ schedulerLockUntil' = Unlocked
  /\ Goto(r, "idle")
  /\ UNCHANGED <<now, mongoAvailable, askedAt>>

\* The release raises PyMongoError, applied or not.
ReleaseFails(r) ==
  /\ pc[r] = "releasing"
  /\ schedulerLockUntil' \in {schedulerLockUntil, Unlocked}
  /\ mongoAvailable' = FALSE
  /\ Goto(r, "idle")
  /\ UNCHANGED <<now, askedAt>>

\* Another call of the process fails and marks MongoDB unavailable.
MongoFails ==
  /\ mongoAvailable
  /\ mongoAvailable' = FALSE
  /\ UNCHANGED <<now, schedulerLockUntil, pc, askedAt>>

\* The only process dies, with every run in it, and is started again;
\* mongo.connect() sets the availability flag.
Restart ==
  /\ pc' = [r \in Runs |-> "idle"]
  /\ mongoAvailable' \in BOOLEAN
  /\ UNCHANGED <<now, schedulerLockUntil, askedAt>>

\* Time passes.  No run outlives RunBound.
Tick ==
  /\ now < MaxTime
  /\ \A r \in Runs : WithinBound(r)
  /\ now' = now + 1
  /\ UNCHANGED <<schedulerLockUntil, mongoAvailable, pc, askedAt>>

RunStep(r) ==
  \/ Acquire(r) \/ SkipLocked(r) \/ EndRun(r) \/ Release(r)

Next ==
  \/ \E r \in Runs :
       AskForLock(r) \/ AcquireFails(r) \/ ReleaseFails(r) \/ RunStep(r)
  \/ MongoFails
  \/ Restart
  \/ Tick

Spec == Init /\ [][Next]_vars

\* The clock goes on, and the event loop and the server get round to every
\* call that was issued: each await has a timeout.
FairSpec == Spec /\ WF_vars(Tick) /\ \A r \in Runs : WF_vars(RunStep(r))

-----------------------------------------------------------------------------
Inside(r) == pc[r] \in {"running", "releasing"}

\* Two re-runs of the same idea are never in progress together, whatever
\* fails and whoever crashes, provided no run outlives the lock's TTL
\* (_run_locked: "can never run a re-score for the same idea at the same time").
MutualExclusion == \A r, s \in Runs : Inside(r) /\ Inside(s) => r = s

\* While a run is inside, the document still says so, until a time that has
\* not passed: no other run can be let in, and the run's own release cannot
\* free a lock that is not its own.
LockCoversRun ==
  \A r \in Runs : Inside(r) => schedulerLockUntil = askedAt[r] + TTL
                               /\ now =< schedulerLockUntil

\* A clock value a run holds lies in the past, at most RunBound ago.
ClockReadings ==
  \A r \in Runs : pc[r] # "idle" => /\ askedAt[r] =< now
                                    /\ now =< askedAt[r] + RunBound

\* The inductive invariant.
IInv == TypeOK /\ ClockReadings /\ LockCoversRun /\ MutualExclusion

\* "A crashed run doesn't wedge the idea forever" (try_acquire_scheduler_lock):
\* a lock that no live run holds can be taken again after its deadline,
\* unless the deadline is the end of the clock.
Held == schedulerLockUntil # Unlocked /\ now =< schedulerLockUntil
Wedged == Held /\ \A r \in Runs : ~Inside(r)
AbandonedLockExpires ==
  Wedged /\ schedulerLockUntil < MaxTime ~> LockFreeAt(now)

\* The deadline is never further off than one TTL, even when runs outlive it and
\* whoever crashed, failed or overran: however the lock was left, the idea can be
\* re-run TTL ticks later (the safety half of AbandonedLockExpires).
LockEndsSoon ==
  schedulerLockUntil # Unlocked => schedulerLockUntil =< now + TTL

-----------------------------------------------------------------------------
\* Who holds the lock, for the abstract specification.
Holder ==
  IF \E r \in Runs : Inside(r) THEN CHOOSE r \in Runs : Inside(r)
  ELSE IF Held THEN Abandoned ELSE Nobody

Mutex == INSTANCE RunMutex WITH holder <- Holder

\* The timestamp lock implements the abstract one.
ImplementsRunMutex == Mutex!Spec
=============================================================================
