------------------------ MODULE SchedulerLockProofs ------------------------
(***************************************************************************)
(* Proofs about SchedulerLock, for every set of runs, every TTL and every  *)
(* clock bound, under the one assumption that a run never outlives the     *)
(* lock's TTL.                                                             *)
(***************************************************************************)
EXTENDS SchedulerLock, TLAPS

USE TimeAssumption DEF Unlocked

(***************************************************************************)
(* Every variable keeps its type, whether or not runs fit in the TTL.      *)
(***************************************************************************)
THEOREM TypeCorrect == Spec => []TypeOK
<1>1. Init => TypeOK
  BY DEF Init, TypeOK
<1>2. TypeOK /\ [Next]_vars => TypeOK'
  <2> SUFFICES ASSUME TypeOK, [Next]_vars PROVE TypeOK'
    OBVIOUS
  <2> USE DEF TypeOK, Goto
  <2>1. ASSUME NEW r \in Runs, AskForLock(r) PROVE TypeOK'
    BY <2>1 DEF AskForLock
  <2>2. ASSUME NEW r \in Runs, Acquire(r) PROVE TypeOK'
    BY <2>2 DEF Acquire
  <2>3. ASSUME NEW r \in Runs, SkipLocked(r) PROVE TypeOK'
    BY <2>3 DEF SkipLocked
  <2>4. ASSUME NEW r \in Runs, AcquireFails(r) PROVE TypeOK'
    <3>1. schedulerLockUntil' \in Nat \cup {Unlocked}
      <4>1. CASE schedulerLockUntil' = schedulerLockUntil
        BY <4>1
      <4>2. CASE schedulerLockUntil' = askedAt[r] + TTL
        BY <4>2
      <4>3. QED
        BY <2>4, <4>1, <4>2 DEF AcquireFails
    <3>2. QED
      BY <2>4, <3>1 DEF AcquireFails
  <2>5. ASSUME NEW r \in Runs, EndRun(r) PROVE TypeOK'
    BY <2>5 DEF EndRun
  <2>6. ASSUME NEW r \in Runs, Release(r) PROVE TypeOK'
    BY <2>6 DEF Release
  <2>7. ASSUME NEW r \in Runs, ReleaseFails(r) PROVE TypeOK'
    BY <2>7 DEF ReleaseFails
  <2>8. CASE MongoFails
    BY <2>8 DEF MongoFails
  <2>9. CASE Restart
    BY <2>9 DEF Restart
  <2>10. CASE Tick
    BY <2>10 DEF Tick
  <2>11. CASE UNCHANGED vars
    BY <2>11 DEF vars
  <2>12. QED
    BY <2>1, <2>2, <2>3, <2>4, <2>5, <2>6, <2>7, <2>8, <2>9, <2>10, <2>11
       DEF Next, RunStep
<1>3. QED
  BY <1>1, <1>2, PTL DEF Spec

(***************************************************************************)
(* A lock that covers a run is not free at any clock value a caller can    *)
(* hold: the deadline has not passed, and the caller read the clock in the *)
(* past.  This is where RunBound =< TTL is needed.                         *)
(***************************************************************************)
LEMMA CoveredLockIsTaken ==
  ASSUME IInv, NEW r \in Runs, NEW s \in Runs, Inside(r), pc[s] # "idle"
  PROVE  ~LockFreeAt(askedAt[s])
BY DEF IInv, TypeOK, ClockReadings, LockCoversRun, Inside, LockFreeAt

LEMMA IInvInit == Init => IInv
BY DEF Init, IInv, TypeOK, ClockReadings, LockCoversRun, MutualExclusion, Inside

LEMMA IInvStep ==
  ASSUME RunBound =< TTL, IInv, [Next]_vars, TypeOK'
  PROVE  IInv'
<1> USE DEF IInv, TypeOK, ClockReadings, LockCoversRun, MutualExclusion,
            Inside, Goto
<1>1. ASSUME NEW r \in Runs, AskForLock(r) PROVE IInv'
  BY <1>1 DEF AskForLock
<1>2. ASSUME NEW r \in Runs, Acquire(r) PROVE IInv'
  <2>1. \A s \in Runs : ~Inside(s)
    BY <1>2, CoveredLockIsTaken DEF Acquire
  <2>2. ClockReadings'
    BY <1>2 DEF Acquire
  <2>3. LockCoversRun'
    BY <1>2, <2>1 DEF Acquire
  <2>4. MutualExclusion'
    BY <1>2, <2>1 DEF Acquire
  <2>5. QED
    BY <2>2, <2>3, <2>4
<1>3. ASSUME NEW r \in Runs, SkipLocked(r) PROVE IInv'
  BY <1>3 DEF SkipLocked
<1>4. ASSUME NEW r \in Runs, AcquireFails(r) PROVE IInv'
  <2>1. LockFreeAt(askedAt[r]) => \A s \in Runs : ~Inside(s)
    BY <1>4, CoveredLockIsTaken DEF AcquireFails
  <2>2. ClockReadings'
    BY <1>4 DEF AcquireFails
  <2>3. LockCoversRun'
    BY <1>4, <2>1 DEF AcquireFails
  <2>4. MutualExclusion'
    BY <1>4 DEF AcquireFails
  <2>5. QED
    BY <2>2, <2>3, <2>4
<1>5. ASSUME NEW r \in Runs, EndRun(r) PROVE IInv'
  BY <1>5 DEF EndRun
<1>6. ASSUME NEW r \in Runs, Release(r) PROVE IInv'
  BY <1>6 DEF Release
<1>7. ASSUME NEW r \in Runs, ReleaseFails(r) PROVE IInv'
  BY <1>7 DEF ReleaseFails
<1>8. CASE MongoFails
  BY <1>8 DEF MongoFails
<1>9. CASE Restart
  BY <1>9 DEF Restart
<1>10. CASE Tick
  BY <1>10 DEF Tick, WithinBound
<1>11. CASE UNCHANGED vars
  BY <1>11 DEF vars
<1>12. QED
  BY <1>1, <1>2, <1>3, <1>4, <1>5, <1>6, <1>7, <1>8, <1>9, <1>10, <1>11
     DEF Next, RunStep

LEMMA Inductive ==
  ASSUME RunBound =< TTL
  PROVE  Spec => []IInv
<1>1. IInv /\ TypeOK' /\ [Next]_vars => IInv'
  BY IInvStep
<1>2. QED
  BY <1>1, IInvInit, TypeCorrect, PTL DEF Spec

(***************************************************************************)
(* Two re-runs of one idea are never in progress at the same time, whatever*)
(* fails, if every run is over within the lock's TTL.                      *)
(***************************************************************************)
THEOREM MutualExclusionHolds ==
  ASSUME RunBound =< TTL
  PROVE  Spec => []MutualExclusion
<1>1. IInv => MutualExclusion
  BY DEF IInv
<1>2. QED
  BY <1>1, Inductive, PTL

(***************************************************************************)
(* The document says the lock is taken, until a time still to come, as     *)
(* long as its run is inside.                                              *)
(***************************************************************************)
THEOREM LockCoversRunHolds ==
  ASSUME RunBound =< TTL
  PROVE  Spec => []LockCoversRun
<1>1. IInv => LockCoversRun
  BY DEF IInv
<1>2. QED
  BY <1>1, Inductive, PTL

-----------------------------------------------------------------------------
(***************************************************************************)
(* The refinement.  Holder maps the run that is inside, or the deadline    *)
(* nobody lives to clear, to the abstract lock's holder.                   *)
(***************************************************************************)
LEMMA HolderInside ==
  ASSUME MutualExclusion, NEW r \in Runs, Inside(r)
  PROVE  Holder = r
BY DEF Holder, MutualExclusion

LEMMA HolderInsideNext ==
  ASSUME MutualExclusion', NEW r \in Runs, Inside(r)'
  PROVE  Holder' = r
BY DEF Holder, MutualExclusion

LEMMA HolderOutside ==
  ASSUME \A r \in Runs : ~Inside(r)
  PROVE  Holder = IF Held THEN Abandoned ELSE Nobody
BY DEF Holder

LEMMA HolderOutsideNext ==
  ASSUME \A r \in Runs : ~Inside(r)'
  PROVE  Holder' = IF Held' THEN Abandoned ELSE Nobody
BY DEF Holder

\* A step that leaves the runs inside and the deadline as they are keeps the holder.
LEMMA HolderSame ==
  ASSUME \A r \in Runs : Inside(r)' <=> Inside(r),
         Held' <=> Held
  PROVE  Holder' = Holder
BY DEF Holder

LEMMA StepRefines ==
  ASSUME RunBound =< TTL, IInv, IInv', [Next]_vars
  PROVE  [Mutex!Next]_Holder
<1> USE DEF IInv, TypeOK
<1> DEFINE Before == \E r \in Runs : Inside(r)
<1>1. ASSUME NEW r \in Runs, AskForLock(r) PROVE Holder' = Holder
  BY <1>1, HolderSame DEF AskForLock, Goto, Inside, Held
<1>2. ASSUME NEW r \in Runs, Acquire(r) PROVE Mutex!Acquire(r)
  <2>1. \A s \in Runs : ~Inside(s)
    BY <1>2, CoveredLockIsTaken DEF Acquire
  <2>2. ~Held
    BY <1>2 DEF Acquire, LockFreeAt, Held, ClockReadings
  <2>3. Holder = Nobody
    BY <2>1, <2>2, HolderOutside
  <2>4. Inside(r)'
    BY <1>2 DEF Acquire, Goto, Inside
  <2>5. QED
    BY <2>3, <2>4, HolderInsideNext DEF Mutex!Acquire
<1>3. ASSUME NEW r \in Runs, SkipLocked(r) PROVE Holder' = Holder
  BY <1>3, HolderSame DEF SkipLocked, Goto, Inside, Held
<1>4. ASSUME NEW r \in Runs, AcquireFails(r)
      PROVE  Mutex!AcquireUnseen \/ Holder' = Holder
  <2>1. \A s \in Runs : Inside(s)' <=> Inside(s)
    BY <1>4 DEF AcquireFails, Goto, Inside
  <2>2. CASE UNCHANGED schedulerLockUntil
    BY <1>4, <2>1, <2>2, HolderSame DEF AcquireFails, Held
  <2>3. CASE LockFreeAt(askedAt[r]) /\ schedulerLockUntil' = askedAt[r] + TTL
    <3>1. \A s \in Runs : ~Inside(s)
      BY <1>4, <2>3, CoveredLockIsTaken DEF AcquireFails
    <3>2. ~Held
      BY <1>4, <2>3 DEF AcquireFails, LockFreeAt, Held, ClockReadings
    <3>3. Held'
      BY <1>4, <2>3 DEF AcquireFails, Held, ClockReadings
    <3>4. Holder = Nobody /\ Holder' = Abandoned
      BY <2>1, <3>1, <3>2, <3>3, HolderOutside, HolderOutsideNext
    <3>5. QED
      BY <3>4 DEF Mutex!AcquireUnseen
  <2>4. QED
    BY <1>4, <2>2, <2>3 DEF AcquireFails
<1>5. ASSUME NEW r \in Runs, EndRun(r)
      PROVE  Mutex!Abandon(r) \/ Holder' = Holder
  <2>1. Inside(r) /\ Held
    BY <1>5 DEF EndRun, Inside, LockCoversRun, Held
  <2>2. Held'
    BY <1>5, <2>1 DEF EndRun, Held
  <2>3. CASE mongoAvailable
    BY <1>5, <2>1, <2>2, <2>3, HolderSame DEF EndRun, Goto, Inside
  <2>4. CASE ~mongoAvailable
    <3>1. \A s \in Runs : ~Inside(s)'
      BY <1>5, <2>1, <2>4 DEF EndRun, Goto, Inside, MutualExclusion
    <3>2. Holder = r /\ Holder' = Abandoned
      BY <2>1, <2>2, <3>1, HolderInside, HolderOutsideNext
    <3>3. QED
      BY <3>2 DEF Mutex!Abandon
  <2>5. QED
    BY <2>3, <2>4
<1>6. ASSUME NEW r \in Runs, Release(r) PROVE Mutex!Release(r)
  <2>1. Inside(r)
    BY <1>6 DEF Release, Inside
  <2>2. \A s \in Runs : ~Inside(s)'
    BY <1>6, <2>1 DEF Release, Goto, Inside, MutualExclusion
  <2>3. ~Held'
    BY <1>6 DEF Release, Held
  <2>4. QED
    BY <2>1, <2>2, <2>3, HolderInside, HolderOutsideNext DEF Mutex!Release
<1>7. ASSUME NEW r \in Runs, ReleaseFails(r)
      PROVE  Mutex!Release(r) \/ Mutex!Abandon(r)
  <2>1. Inside(r)
    BY <1>7 DEF ReleaseFails, Inside
  <2>2. \A s \in Runs : ~Inside(s)'
    BY <1>7, <2>1 DEF ReleaseFails, Goto, Inside, MutualExclusion
  <2>3. QED
    BY <2>1, <2>2, HolderInside, HolderOutsideNext
       DEF Mutex!Release, Mutex!Abandon
<1>8. ASSUME MongoFails PROVE Holder' = Holder
  BY <1>8, HolderSame DEF MongoFails, Inside, Held
<1>9. ASSUME Restart
      PROVE  (\E r \in Runs : Mutex!Abandon(r)) \/ Holder' = Holder
  <2>1. \A s \in Runs : ~Inside(s)'
    BY <1>9 DEF Restart, Inside
  <2>2. Held' <=> Held
    BY <1>9 DEF Restart, Held
  <2>3. CASE Before
    <3>1. PICK r \in Runs : Inside(r)
      BY <2>3
    <3>2. Held
      BY <3>1 DEF LockCoversRun, Held, Inside
    <3>3. QED
      BY <2>1, <2>2, <3>1, <3>2, HolderInside, HolderOutsideNext
         DEF Mutex!Abandon
  <2>4. CASE ~Before
    BY <2>1, <2>2, <2>4, HolderSame
  <2>5. QED
    BY <2>3, <2>4
<1>10. ASSUME Tick PROVE Mutex!Expire \/ Holder' = Holder
  <2>1. \A s \in Runs : Inside(s)' <=> Inside(s)
    BY <1>10 DEF Tick, Inside
  <2>2. Held' => Held
    BY <1>10 DEF Tick, Held
  <2>3. CASE Before
    <3>1. PICK r \in Runs : Inside(r)
      BY <2>3
    <3>2. QED
      BY <2>1, <3>1, HolderInside, HolderInsideNext
  <2>4. CASE ~Before
    <3>1. CASE Held' <=> Held
      BY <2>1, <3>1, HolderSame
    <3>2. CASE Held /\ ~Held'
      BY <2>1, <2>4, <3>2, HolderOutside, HolderOutsideNext DEF Mutex!Expire
    <3>3. QED
      BY <2>2, <3>1, <3>2
  <2>5. QED
    BY <2>3, <2>4
<1>11. ASSUME UNCHANGED vars PROVE Holder' = Holder
  BY <1>11, HolderSame DEF vars, Inside, Held
<1>12. QED
  BY <1>1, <1>2, <1>3, <1>4, <1>5, <1>6, <1>7, <1>8, <1>9, <1>10, <1>11
     DEF Next, RunStep, Mutex!Next

(***************************************************************************)
(* The timestamp in the idea document implements the abstract lock.        *)
(***************************************************************************)
THEOREM Refinement ==
  ASSUME RunBound =< TTL
  PROVE  Spec => ImplementsRunMutex
<1>1. Init => Mutex!Init
  BY HolderOutside DEF Init, Mutex!Init, Inside, Held
<1>2. IInv /\ IInv' /\ [Next]_vars => [Mutex!Next]_Holder
  BY StepRefines
<1>3. QED
  BY <1>1, <1>2, Inductive, PTL DEF Spec, ImplementsRunMutex, Mutex!Spec

-----------------------------------------------------------------------------
(***************************************************************************)
(* Without the assumption on RunBound: what holds of the deadline however  *)
(* long a run takes.  An update still on its way carries a clock value of  *)
(* the past.                                                               *)
(***************************************************************************)
ReadInThePast == \A r \in Runs : pc[r] # "idle" => askedAt[r] =< now

Soon == TypeOK /\ ReadInThePast /\ LockEndsSoon

LEMMA SoonStep ==
  ASSUME Soon, [Next]_vars, TypeOK'
  PROVE  Soon'
<1> USE DEF Soon, TypeOK, ReadInThePast, LockEndsSoon, Goto
<1>1. ASSUME NEW r \in Runs, AskForLock(r) PROVE Soon'
  BY <1>1 DEF AskForLock
<1>2. ASSUME NEW r \in Runs, Acquire(r) PROVE Soon'
  BY <1>2 DEF Acquire
<1>3. ASSUME NEW r \in Runs, AcquireFails(r) PROVE Soon'
  <2>1. LockEndsSoon'
    BY <1>3 DEF AcquireFails
  <2>2. ReadInThePast'
    BY <1>3 DEF AcquireFails
  <2>3. QED
    BY <2>1, <2>2
<1>4. ASSUME NEW r \in Runs, SkipLocked(r) \/ EndRun(r) PROVE Soon'
  BY <1>4 DEF SkipLocked, EndRun
<1>5. ASSUME NEW r \in Runs, Release(r) \/ ReleaseFails(r) PROVE Soon'
  BY <1>5 DEF Release, ReleaseFails
<1>6. CASE MongoFails \/ Restart
  BY <1>6 DEF MongoFails, Restart
<1>7. CASE Tick
  BY <1>7 DEF Tick
<1>8. CASE UNCHANGED vars
  BY <1>8 DEF vars
<1>9. QED
  BY <1>1, <1>2, <1>3, <1>4, <1>5, <1>6, <1>7, <1>8 DEF Next, RunStep

\* A crashed or overrunning run delays the next one by a TTL at most
\* (try_acquire_scheduler_lock: "doesn't wedge the idea forever").
THEOREM LockEndsSoonHolds == Spec => []LockEndsSoon
<1>1. Init => ReadInThePast /\ LockEndsSoon
  BY DEF Init, ReadInThePast, LockEndsSoon
<1>2. ReadInThePast /\ LockEndsSoon /\ TypeOK /\ TypeOK' /\ [Next]_vars
        => (ReadInThePast /\ LockEndsSoon)'
  BY SoonStep DEF Soon
<1>3. QED
  BY <1>1, <1>2, TypeCorrect, PTL DEF Spec
=============================================================================
