------------------------------ MODULE RunMutex ------------------------------
(***************************************************************************)
(* What the scheduler lock of one idea promises to the market-sensitive    *)
(* re-runs (services/snapshot_worker.py, _run_locked): at most one run is  *)
(* inside, and a lock whose run died is freed again some time later.       *)
(* SchedulerLock implements this with a timestamp in the idea document.    *)
(***************************************************************************)
CONSTANTS
  Runs,       \* re-runs of the idea that go through _run_locked
  Nobody,     \* the lock is free
  Abandoned   \* the lock is taken, and no live run holds it

VARIABLE holder

Init == holder = Nobody

\* A run finds the lock free and takes it.
Acquire(r) == holder = Nobody /\ holder' = r

\* The write that takes the lock is applied, its caller never learns.
AcquireUnseen == holder = Nobody /\ holder' = Abandoned

\* The holder leaves and the lock is free again.
Release(r) == holder = r /\ holder' = Nobody

\* The holder leaves (or dies) without freeing the lock.
Abandon(r) == holder = r /\ holder' = Abandoned

\* An abandoned lock times out.
Expire == holder = Abandoned /\ holder' = Nobody

Next ==
  \/ \E r \in Runs : Acquire(r) \/ Release(r) \/ Abandon(r)
  \/ AcquireUnseen
  \/ Expire

Spec == Init /\ [][Next]_holder
=============================================================================
