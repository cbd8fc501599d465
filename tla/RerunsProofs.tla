---------------------------- MODULE RerunsProofs ----------------------------
(***************************************************************************)
(* Proofs about Reruns, for any ideas, requests, limits, lengths of the    *)
(* interval and the window, and number of faults: types, that the schedule *)
(* re-runs an idea at most once per interval, and that the rolling limit   *)
(* holds in every window.                                                  *)
(***************************************************************************)
EXTENDS Reruns, FiniteSetTheorems, SequenceTheorems, TLAPS

USE RerunsAssumption

\* A scheduled snapshot is a snapshot, and an idea without one was never given
\* a scheduled one.
SinceInOrder ==
  /\ \A i \in Ideas : since[i] >= age[i]
  /\ \A i \in Snapshotless : since[i] = Interval

\* The sweep goes for the lock with an idea that is due, or MongoDB is off and
\* the lock will be refused.
DueBeforeLock ==
  pc[Scheduler] = "lock" => ~mongoAvailable \/ since[At(Scheduler)] >= Interval

\* What a store's count admitted is recorded in it.
AdmittedIsRecorded ==
  \A r \in Requests : Fresh(r) /\ admittedBy[r] \in {"redis", "memory"} =>
    admittedBy[r] \in stores[r]

IInv ==
  /\ TypeOK
  /\ SinceInOrder
  /\ DueBeforeLock
  /\ ScheduledRunsApart
  /\ AdmittedIsRecorded
  /\ RerunsWithinCap

\* The requests of an idea one store admitted within the window.
Admitted(i, store) ==
  {r \in Requests : target[r] = i /\ Fresh(r) /\ admittedBy[r] = store}

LEMMA InvariantInit == Init => IInv
<1> SUFFICES ASSUME Init
             PROVE  IInv
  OBVIOUS
<1>1. TypeOK
  BY DEF Init, TypeOK, Workers
<1>2. SinceInOrder /\ DueBeforeLock /\ ScheduledRunsApart /\ AdmittedIsRecorded
  BY DEF Init, SinceInOrder, DueBeforeLock, ScheduledRunsApart,
         AdmittedIsRecorded, Workers
<1>3. RerunsWithinCap
  <2>1. \A i \in Ideas, store \in {"redis", "memory"} :
          {r \in Requests : target[r] = i /\ Fresh(r) /\ admittedBy[r] = store} = {}
    BY DEF Init, Fresh
  <2>2. QED
    BY <2>1, FS_EmptySet DEF RerunsWithinCap
<1>4. QED
  BY <1>1, <1>2, <1>3 DEF IInv

\* A worker in the middle of something is at an idea.
LEMMA AtAnIdea ==
  ASSUME TypeOK, NEW w \in Workers, pc[w] # "idle"
  PROVE  At(w) \in Ideas
<1>1. CASE w = Scheduler
  <2>1. queue \in Seq(Ideas) /\ queue # <<>>
    BY <1>1 DEF TypeOK
  <2>2. QED
    BY <1>1, <2>1 DEF At
<1>2. CASE w # Scheduler
  BY <1>2 DEF At, TypeOK, Workers
<1>3. QED
  BY <1>1, <1>2

\* What TypeOK says of the sweep and of the requests' places.
PlacesOK ==
  /\ pc \in [Workers -> {"idle", "due", "lock", "run", "release", "raise"}]
  /\ queue \in Seq(Ideas)
  /\ pc[Scheduler] = "idle" <=> queue = <<>>

LEMMA ContinuePlaces ==
  ASSUME TypeOK, NEW w \in Workers, pc[w] # "idle", Continue(w) \/ GiveUp(w)
  PROVE  PlacesOK'
<1>1. CASE w = Scheduler /\ Continue(w)
  <2>1. queue \in Seq(Ideas) /\ queue # <<>>
    BY <1>1 DEF TypeOK
  <2>4. Tail(queue) \in Seq(Ideas) /\ Len(Tail(queue)) = Len(queue) - 1
    BY <2>1, HeadTailProperties
  <2>5. Len(queue) \in Nat /\ (Tail(queue) = <<>> <=> Len(Tail(queue)) = 0)
    BY <2>1, <2>4, EmptySeq
  <2>2. Tail(queue) \in Seq(Ideas) /\ (Len(queue) > 1 <=> Tail(queue) # <<>>)
    BY <2>1, <2>4, <2>5, EmptySeq
  <2>3. QED
    BY <1>1, <2>1, <2>2 DEF TypeOK, PlacesOK, Continue, Goto, Workers
<1>2. CASE w = Scheduler /\ GiveUp(w)
  BY <1>2 DEF TypeOK, PlacesOK, GiveUp, Goto, Workers
<1>3. CASE w # Scheduler
  BY <1>3 DEF TypeOK, PlacesOK, Continue, GiveUp, Goto, Workers
<1>4. QED
  BY <1>1, <1>2, <1>3

LEMMA GotoPlaces ==
  ASSUME TypeOK, NEW w \in Workers, pc[w] # "idle", UNCHANGED queue,
         NEW label \in {"due", "lock", "run", "release", "raise"}, Goto(w, label)
  PROVE  PlacesOK'
BY DEF TypeOK, PlacesOK, Goto, Workers

LEMMA PlacesStep ==
  ASSUME TypeOK, [Next]_vars
  PROVE  PlacesOK'
<1>1. CASE Wake
  <2>1. queue' \in Seq(Ideas)
    <3>1. Cardinality(Ideas) \in Nat
      BY FS_CardinalityType
    <3>2. \A n \in Nat : [1..n -> Ideas] \subseteq Seq(Ideas)
      BY SeqDef
    <3> DEFINE n == IF Cardinality(Ideas) <= ListLimit THEN Cardinality(Ideas)
                    ELSE ListLimit
    <3>3. n \in Nat /\ Listed \subseteq [1..n -> Ideas]
      BY <3>1 DEF Listed
    <3>4. Listed \subseteq Seq(Ideas)
      BY <3>2, <3>3
    <3>5. QED
      BY <1>1, <3>4, EmptySeq DEF Wake
  <2>2. QED
    BY <1>1, <2>1 DEF Wake, TypeOK, PlacesOK, Goto, Workers
<1>2. CASE CheckDue
  <2>1. Scheduler \in Workers /\ pc[Scheduler] = "due"
    BY <1>2 DEF CheckDue, Workers
  <2>2. CASE Goto(Scheduler, "lock") /\ UNCHANGED queue
    BY <2>1, <2>2, GotoPlaces
  <2>3. CASE Continue(Scheduler) \/ GiveUp(Scheduler)
    BY <2>1, <2>3, ContinuePlaces
  <2>4. QED
    BY <1>2, <2>2, <2>3 DEF CheckDue
<1>3. ASSUME NEW r \in Requests, NEW i \in Asked, ForceSnapshot(r, i)
      PROVE  PlacesOK'
  <2>1. UNCHANGED queue /\ (Goto(r, "lock") \/ Goto(r, "idle"))
    BY <1>3 DEF ForceSnapshot, Decide
  <2>2. r \in Workers /\ r # Scheduler
    BY RerunsAssumption DEF Workers
  <2>3. QED
    BY <2>1, <2>2 DEF TypeOK, PlacesOK, Goto, Workers
<1>4. ASSUME NEW w \in Workers, Step(w)
      PROVE  PlacesOK'
  <2>1. CASE TakeLock(w)
    <3>1. \/ Continue(w)
          \/ Goto(w, "run") /\ UNCHANGED queue
      BY <2>1 DEF TakeLock, LockRefused
    <3>2. QED
      BY <2>1, <3>1, ContinuePlaces, GotoPlaces DEF TakeLock
  <2>2. CASE Run(w)
    <3>1. UNCHANGED queue /\ (Goto(w, "release") \/ Goto(w, "raise"))
      BY <2>2 DEF Run
    <3>2. QED
      BY <2>2, <3>1, GotoPlaces DEF Run
  <2>3. CASE Release(w)
    BY <2>3, ContinuePlaces DEF Release
  <2>4. QED
    BY <1>4, <2>1, <2>2, <2>3 DEF Step
<1>5. CASE Restart
  BY <1>5 DEF Restart, PlacesOK, Workers
<1>6. CASE UNCHANGED vars \/ Tick \/ \E i \in Ideas : ExpireLock(i) \/ Evidence(i)
  BY <1>6 DEF vars, Tick, ExpireLock, Evidence, TypeOK, PlacesOK
<1>7. QED
  BY <1>1, <1>2, <1>3, <1>4, <1>5, <1>6 DEF Next

\* The rest of TypeOK.
DataOK ==
  /\ age \in [Ideas -> 0..Interval] /\ since \in [Ideas -> 0..Interval]
  /\ lock \in [Ideas -> Workers \cup {Nobody, Abandoned}]
  /\ target \in [Requests -> Ideas]
  /\ asked \in [Requests -> 0..Window]
  /\ stores \in [Requests -> SUBSET {"redis", "memory"}]
  /\ admittedBy \in [Requests -> {"redis", "memory", "past", "open", "none"}]
  /\ redisAvailable \in BOOLEAN /\ mongoAvailable \in BOOLEAN
  /\ faults \in 0..MaxFaults

\* A MongoDB call, failed or not, counts its faults.
LEMMA Calls ==
  ASSUME TypeOK, Returns \/ Raises \/ Skips \/ (Fault /\ UNCHANGED mongoAvailable)
  PROVE  mongoAvailable' \in BOOLEAN /\ faults' \in 0..MaxFaults
<1>1. mongoAvailable' \in BOOLEAN
  BY DEF TypeOK, Returns, Raises, Skips
<1>2. NoFault \/ Fault
  BY DEF Returns, Raises, Skips
<1>3. faults' \in 0..MaxFaults
  BY <1>2 DEF TypeOK, NoFault, Fault
<1>4. QED
  BY <1>1, <1>3

LEMMA DataStep ==
  ASSUME TypeOK, [Next]_vars
  PROVE  DataOK'
<1> USE DEF DataOK, historyVars, limiterVars
<1>0. DataOK
  BY DEF TypeOK
<1>1. CASE Wake
  <2>1. UNCHANGED <<historyVars, lock, limiterVars>> /\ (Returns \/ Raises \/ Skips)
    BY <1>1 DEF Wake
  <2>2. QED
    BY <1>0, <2>1, Calls
<1>2. CASE CheckDue
  <2>1. /\ UNCHANGED <<historyVars, lock, limiterVars>>
        /\ Returns \/ Raises \/ Skips \/ (Fault /\ UNCHANGED mongoAvailable)
    BY <1>2 DEF CheckDue
  <2>2. QED
    BY <1>0, <2>1, Calls
<1>3. ASSUME NEW r \in Requests, NEW i \in Asked, ForceSnapshot(r, i)
      PROVE  DataOK'
  <2>1. asked' \in [Requests -> 0..Window] /\ target' \in [Requests -> Ideas]
    BY <1>0, <1>3 DEF ForceSnapshot
  <2>2. stores' \in [Requests -> SUBSET {"redis", "memory"}]
    BY <1>0, <1>3 DEF ForceSnapshot, Record
  <2>3. admittedBy' \in [Requests -> {"redis", "memory", "past", "open", "none"}]
    BY <1>0, <1>3 DEF ForceSnapshot, Decide
  <2>4. redisAvailable' \in BOOLEAN
    BY <1>0, <1>3 DEF ForceSnapshot
  <2>7. NoFault \/ Fault
    BY <1>3 DEF ForceSnapshot
  <2>8. faults' \in 0..MaxFaults
    BY <1>0, <2>7 DEF NoFault, Fault
  <2>5. UNCHANGED <<historyVars, lock, mongoAvailable>>
    BY <1>3 DEF ForceSnapshot
  <2>6. QED
    BY <1>0, <2>1, <2>2, <2>3, <2>4, <2>5, <2>8
<1>4. ASSUME NEW w \in Workers, Step(w)
      PROVE  DataOK'
  <2>1. At(w) \in Ideas
    BY <1>4, AtAnIdea DEF Step, TakeLock, Run, Release
  <2>2. mongoAvailable' \in BOOLEAN /\ faults' \in 0..MaxFaults
    <3>1. Returns \/ Raises \/ Skips \/ (Fault /\ UNCHANGED mongoAvailable)
      BY <1>4 DEF Step, TakeLock, Run, Release
    <3>2. QED
      BY <3>1, Calls
  <2>3. UNCHANGED limiterVars
    BY <1>4 DEF Step, TakeLock, Run, Release
  <2>4. lock' \in [Ideas -> Workers \cup {Nobody, Abandoned}]
    BY <1>0, <1>4, <2>1 DEF Step, TakeLock, Run, Release
  <2>5. age' \in [Ideas -> 0..Interval] /\ since' \in [Ideas -> 0..Interval]
    BY <1>0, <1>4, <2>1 DEF Step, TakeLock, Run, Release, Snapshot
  <2>6. QED
    BY <1>0, <2>2, <2>3, <2>4, <2>5
<1>5. CASE Restart
  <2>1. faults' \in 0..MaxFaults
    BY <1>0, <1>5 DEF Restart, Fault
  <2>2. UNCHANGED <<historyVars, target, asked>> /\ redisAvailable' /\ mongoAvailable'
    BY <1>5 DEF Restart
  <2>3. /\ lock' \in [Ideas -> Workers \cup {Nobody, Abandoned}]
        /\ stores' \in [Requests -> SUBSET {"redis", "memory"}]
    BY <1>0, <1>5 DEF Restart
  <2>4. admittedBy' \in [Requests -> {"redis", "memory", "past", "open", "none"}]
    BY <1>0, <1>5 DEF Restart
  <2>5. redisAvailable' \in BOOLEAN /\ mongoAvailable' \in BOOLEAN
    BY <1>5 DEF Restart
  <2>6. QED
    BY <1>0, <2>1, <2>2, <2>3, <2>4, <2>5
<1>6. ASSUME NEW i \in Ideas, ExpireLock(i)
      PROVE  DataOK'
  BY <1>0, <1>6 DEF ExpireLock
<1>10. ASSUME NEW i \in Ideas, Evidence(i)
      PROVE  DataOK'
  <2>1. mongoAvailable' \in BOOLEAN /\ faults' \in 0..MaxFaults
    BY <1>10, Calls DEF Evidence
  <2>2. age' \in [Ideas -> 0..Interval] /\ since' \in [Ideas -> 0..Interval]
    BY <1>0, <1>10 DEF Evidence, Snapshot
  <2>3. QED
    BY <1>0, <1>10, <2>1, <2>2 DEF Evidence
<1>7. CASE Tick
  BY <1>0, <1>7 DEF Tick, Older
<1>8. CASE UNCHANGED vars
  BY <1>0, <1>8 DEF vars
<1>9. QED
  BY <1>1, <1>2, <1>3, <1>4, <1>5, <1>6, <1>7, <1>8, <1>10 DEF Next

LEMMA TypeStep ==
  ASSUME TypeOK, [Next]_vars
  PROVE  TypeOK'
BY PlacesStep, DataStep DEF TypeOK, PlacesOK, DataOK
-----------------------------------------------------------------------------
\* The schedule.

LEMMA SinceStep ==
  ASSUME TypeOK, SinceInOrder, [Next]_vars
  PROVE  SinceInOrder'
<1> USE DEF SinceInOrder, TypeOK, historyVars
<1>1. ASSUME NEW w \in Workers, Run(w)
      PROVE  SinceInOrder'
  <2>1. At(w) \in Ideas
    BY <1>1, AtAnIdea DEF Run
  <2>2. ASSUME Snapshot(w, At(w))
        PROVE  SinceInOrder'
    <3>1. /\ At(w) \notin Snapshotless /\ age' = [age EXCEPT ![At(w)] = 0]
          /\ since' = [since EXCEPT ![At(w)] = 0] \/ since' = since
      BY <2>2 DEF Snapshot
    <3>2. QED
      BY <2>1, <3>1
  <2>3. QED
    BY <1>1, <2>2 DEF Run
<1>2. ASSUME NEW i \in Ideas, Evidence(i)
      PROVE  SinceInOrder'
  BY <1>2 DEF Evidence, Snapshot
<1>3. CASE Tick
  BY <1>3 DEF Tick, Older
<1>4. CASE UNCHANGED historyVars
  BY <1>4
<1>5. QED
  BY <1>1, <1>2, <1>3, <1>4 DEF Next, vars, Wake, CheckDue, Restart, ForceSnapshot, Step,
     TakeLock, Release, ExpireLock

\* A step of another leaves the sweep where it is, and the idea it is at no
\* younger.
SweepStands ==
  /\ pc'[Scheduler] = pc[Scheduler] /\ queue' = queue
  /\ pc[Scheduler] # "idle" => since'[At(Scheduler)] >= since[At(Scheduler)]
  /\ ~mongoAvailable => ~mongoAvailable'

LEMMA OthersLeaveTheSweep ==
  ASSUME TypeOK, [Next]_vars
  PROVE  Wake \/ CheckDue \/ Step(Scheduler) \/ Restart \/ SweepStands
<1> USE DEF SweepStands, TypeOK, historyVars, Returns, Raises, Skips, Fault, NoFault
<1>0. pc[Scheduler] # "idle" => At(Scheduler) \in Ideas
  BY AtAnIdea DEF Workers
<1>1. ASSUME NEW r \in Requests, Step(r)
      PROVE  SweepStands
  <2>1. r # Scheduler /\ r \in Workers /\ UNCHANGED since
    BY <1>1 DEF Step, TakeLock, Run, Release, Snapshot, Workers
  <2>2. pc'[Scheduler] = pc[Scheduler] /\ queue' = queue
    BY <1>1, <2>1 DEF Step, TakeLock, Run, Release, Continue, GiveUp, LockRefused,
                      Goto, Workers
  <2>3. ~mongoAvailable => ~mongoAvailable'
    BY <1>1 DEF Step, TakeLock, Run, Release
  <2>4. QED
    BY <1>0, <2>1, <2>2, <2>3
<1>2. ASSUME NEW r \in Requests, NEW i \in Asked, ForceSnapshot(r, i)
      PROVE  SweepStands
  BY <1>0, <1>2 DEF ForceSnapshot, Decide, Goto, Workers
<1>3. ASSUME NEW i \in Ideas, ExpireLock(i) \/ Evidence(i)
      PROVE  SweepStands
  BY <1>0, <1>3 DEF ExpireLock, Evidence, Snapshot
<1>4. CASE Tick
  BY <1>0, <1>4 DEF Tick, Older
<1>5. CASE UNCHANGED vars
  BY <1>0, <1>5 DEF vars
<1>6. QED
  BY <1>1, <1>2, <1>3, <1>4, <1>5 DEF Next, Workers

LEMMA ScheduleStep ==
  ASSUME TypeOK, SinceInOrder, DueBeforeLock, ScheduledRunsApart, [Next]_vars
  PROVE  DueBeforeLock' /\ ScheduledRunsApart'
<1> USE DEF DueBeforeLock, ScheduledRunsApart, At, Goto
<1> Scheduler \in Workers
  BY DEF Workers
<1>1. CASE Wake
  BY <1>1 DEF Wake, TypeOK
<1>2. CASE CheckDue
  <2>1. CASE Returns /\ Due(At(Scheduler)) /\ Goto(Scheduler, "lock") /\ UNCHANGED queue
    <3>1. At(Scheduler) \in Ideas
      BY <1>2, AtAnIdea DEF CheckDue
    <3>2. since[At(Scheduler)] >= Interval
      BY <2>1, <3>1 DEF Due, SinceInOrder, TypeOK
    <3>3. QED
      BY <1>2, <2>1, <3>2 DEF CheckDue, historyVars, TypeOK
  <2>2. CASE (Raises \/ Skips) /\ Goto(Scheduler, "lock") /\ UNCHANGED queue
    BY <2>2 DEF Raises, Skips, TypeOK
  <2>3. CASE Continue(Scheduler) \/ GiveUp(Scheduler)
    BY <2>3 DEF Continue, GiveUp, TypeOK
  <2>4. QED
    BY <1>2, <2>1, <2>2, <2>3 DEF CheckDue
<1>3. CASE Step(Scheduler)
  <2>1. CASE TakeLock(Scheduler)
    <3>1. CASE Returns /\ Goto(Scheduler, "run") /\ UNCHANGED queue
      BY <2>1, <3>1 DEF TakeLock, Returns, historyVars, TypeOK
    <3>2. CASE Continue(Scheduler)
      BY <3>2 DEF Continue, TypeOK
    <3>3. QED
      BY <2>1, <3>1, <3>2 DEF TakeLock, LockRefused
  <2>2. CASE Run(Scheduler)
    BY <2>2 DEF Run, TypeOK
  <2>3. CASE Release(Scheduler)
    BY <2>3 DEF Release, Continue, GiveUp, TypeOK
  <2>4. QED
    BY <1>3, <2>1, <2>2, <2>3 DEF Step
<1>4. CASE Restart
  BY <1>4 DEF Restart
<1>5. CASE SweepStands
  <2>1. pc[Scheduler] # "idle" =>
          /\ At(Scheduler) \in Ideas /\ At(Scheduler)' = At(Scheduler)
          /\ since[At(Scheduler)] \in Int /\ since'[At(Scheduler)] \in Int
    BY <1>5, AtAnIdea, TypeStep DEF SweepStands, TypeOK
  <2>2. QED
    BY <1>5, <2>1 DEF SweepStands
<1>6. QED
  BY OthersLeaveTheSweep, <1>1, <1>2, <1>3, <1>4, <1>5

-----------------------------------------------------------------------------
\* The rolling limit.

\* A subset of few is few.
LEMMA FewerStill ==
  ASSUME NEW S, NEW R, S \subseteq R, R \subseteq Requests, Cardinality(R) <= MaxReruns
  PROVE  Cardinality(S) <= MaxReruns
<1>1. IsFiniteSet(R)
  BY FS_Subset
<1>2. IsFiniteSet(S) /\ Cardinality(S) <= Cardinality(R)
  BY <1>1, FS_Subset
<1>3. Cardinality(S) \in Nat /\ Cardinality(R) \in Nat
  BY <1>1, <1>2, FS_CardinalityType
<1>4. QED
  BY <1>2, <1>3

\* Every step but a forced re-run admits nobody and forgets no record.
LEMMA OthersAdmitNobody ==
  ASSUME TypeOK, AdmittedIsRecorded, [Next]_vars,
         ~ \E r \in Requests, i \in Asked : ForceSnapshot(r, i)
  PROVE  /\ AdmittedIsRecorded'
         /\ \A i \in Ideas, store \in {"redis", "memory"} :
              Admitted(i, store)' \subseteq Admitted(i, store)
<1> USE DEF AdmittedIsRecorded, Admitted, Fresh, TypeOK, limiterVars
<1>1. CASE Restart
  BY <1>1 DEF Restart
<1>2. CASE Tick
  BY <1>2 DEF Tick, Older
<1>3. CASE UNCHANGED limiterVars
  BY <1>3
<1>4. QED
  BY <1>1, <1>2, <1>3 DEF Next, vars, Wake, CheckDue, Step, TakeLock, Run, Release,
     ExpireLock, Evidence

LEMMA CapStep ==
  ASSUME TypeOK, AdmittedIsRecorded, RerunsWithinCap, [Next]_vars
  PROVE  AdmittedIsRecorded' /\ RerunsWithinCap'
<1>0. \A i \in Ideas, store \in {"redis", "memory"} :
        Admitted(i, store) \subseteq Requests
          /\ Cardinality(Admitted(i, store)) <= MaxReruns
  BY DEF Admitted, RerunsWithinCap
<1>1. ASSUME NEW r \in Requests, NEW i \in Asked, ForceSnapshot(r, i)
      PROVE  AdmittedIsRecorded' /\ RerunsWithinCap'
  <2> USE DEF TypeOK, Fresh
  <2>1. /\ asked' = [asked EXCEPT ![r] = 0] /\ target' = [target EXCEPT ![r] = i]
        /\ ~Fresh(r)
    BY <1>1 DEF ForceSnapshot
  <2>2. \A q \in Requests \ {r} :
          stores'[q] = stores[q] /\ admittedBy'[q] = admittedBy[q]
    BY <1>1 DEF ForceSnapshot, Record, Decide
  <2>3. admittedBy'[r] \in {"redis", "memory"} =>
          admittedBy'[r] \in stores'[r] /\ Admits(i, admittedBy'[r], r)
    BY <1>1 DEF ForceSnapshot, Record, Decide
  <2>4. AdmittedIsRecorded'
    BY <2>1, <2>2, <2>3 DEF AdmittedIsRecorded
  <2>5. ASSUME NEW j \in Ideas, NEW store \in {"redis", "memory"}
        PROVE  Cardinality(Admitted(j, store)') <= MaxReruns
    <3>1. CASE j = i /\ admittedBy'[r] = store
      <4>1. Admitted(j, store)' \subseteq Recorded(i, store) \cup {r}
        BY <2>1, <2>2, <3>1 DEF Admitted, Recorded, AdmittedIsRecorded
      <4>2. Cardinality(Recorded(i, store) \cup {r}) <= MaxReruns
        BY <2>3, <3>1 DEF Admits
      <4>3. Recorded(i, store) \cup {r} \subseteq Requests
        BY DEF Recorded
      <4>4. QED
        BY <4>1, <4>2, <4>3, FewerStill
    <3>2. CASE ~(j = i /\ admittedBy'[r] = store)
      <4>1. Admitted(j, store)' \subseteq Admitted(j, store)
        BY <2>1, <2>2, <3>2 DEF Admitted
      <4>2. QED
        BY <1>0, <4>1, FewerStill
    <3>3. QED
      BY <3>1, <3>2
  <2>6. QED
    BY <2>4, <2>5 DEF RerunsWithinCap, Admitted
<1>2. CASE ~ \E r \in Requests, i \in Asked : ForceSnapshot(r, i)
  <2>1. \A i \in Ideas, store \in {"redis", "memory"} :
          Cardinality(Admitted(i, store)') <= MaxReruns
    BY <1>0, <1>2, OthersAdmitNobody, FewerStill
  <2>2. QED
    BY <1>2, <2>1, OthersAdmitNobody DEF RerunsWithinCap, Admitted
<1>3. QED
  BY <1>1, <1>2

-----------------------------------------------------------------------------
\* The strengthened invariant holds in every reachable state.
THEOREM Invariant == Spec => []IInv
<1>1. IInv /\ [Next]_vars => IInv'
  BY TypeStep, SinceStep, ScheduleStep, CapStep DEF IInv
<1>2. QED
  BY InvariantInit, <1>1, PTL DEF Spec

\* Types: the sweep is at an idea of its list, or asleep with none left.
THEOREM TypeCorrect == Spec => []TypeOK
<1>1. IInv => TypeOK
  BY DEF IInv
<1>2. QED
  BY Invariant, <1>1, PTL

\* The due check and the lock keep scheduled re-runs of an idea an interval
\* apart.
THEOREM ScheduledRunsApartHolds == Spec => []ScheduledRunsApart
<1>1. IInv => ScheduledRunsApart
  BY DEF IInv
<1>2. QED
  BY Invariant, <1>1, PTL

\* The limiter keeps to its maximum in every window.
THEOREM RerunsWithinCapHolds == Spec => []RerunsWithinCap
<1>1. IInv => RerunsWithinCap
  BY DEF IInv
<1>2. QED
  BY Invariant, <1>1, PTL

-----------------------------------------------------------------------------
\* The locks.

\* A worker outside is elsewhere after a step only if it took the lock, and one
\* that stays inside stays at its idea.
LEMMA InsideStep ==
  ASSUME TypeOK, InsideHoldsLock, [Next]_vars
  PROVE  InsideHoldsLock'
<1> USE DEF InsideHoldsLock, Inside, At, Goto
<1>0. \A w \in Workers : pc[w] # "idle" => At(w) \in Ideas
  BY AtAnIdea
<1>1. ASSUME NEW v \in Workers, pc[v] # "idle", Continue(v) \/ GiveUp(v),
             \A i \in Ideas \ {At(v)} : lock'[i] = lock[i],
             target' = target, Inside(v) \/ lock' = lock
      PROVE  InsideHoldsLock'
  <2>1. ~Inside(v)'
    BY <1>1 DEF Continue, GiveUp, TypeOK
  <2>2. \A w \in Workers \ {v} : Inside(w)' => Inside(w) /\ At(w)' = At(w)
    BY <1>1 DEF Continue, GiveUp, TypeOK
  <2>3. \A w \in Workers \ {v} : Inside(w) => lock'[At(w)] = lock[At(w)]
    BY <1>0, <1>1
  <2>4. QED
    BY <1>0, <2>1, <2>2, <2>3
<1>2. CASE Wake
  BY <1>2 DEF Wake, TypeOK, limiterVars
<1>3. CASE CheckDue
  <2>1. pc[Scheduler] = "due" /\ Scheduler \in Workers /\ lock' = lock /\ target' = target
    BY <1>3 DEF CheckDue, Workers, limiterVars
  <2>2. CASE Goto(Scheduler, "lock") /\ UNCHANGED queue
    BY <2>1, <2>2 DEF TypeOK
  <2>3. CASE Continue(Scheduler) \/ GiveUp(Scheduler)
    BY <1>1, <2>1, <2>3
  <2>4. QED
    BY <1>3, <2>2, <2>3 DEF CheckDue
<1>4. ASSUME NEW r \in Requests, NEW i \in Asked, ForceSnapshot(r, i)
      PROVE  InsideHoldsLock'
  <2>1. /\ pc[r] = "idle" /\ r # Scheduler /\ UNCHANGED <<lock, queue>>
        /\ target' = [target EXCEPT ![r] = i]
        /\ Goto(r, "lock") \/ Goto(r, "idle")
    BY <1>4 DEF ForceSnapshot, Decide
  <2>2. \A w \in Workers : Inside(w)' => w # r /\ Inside(w) /\ At(w)' = At(w)
    BY <2>1 DEF TypeOK, Workers
  <2>3. QED
    BY <2>1, <2>2
<1>5. ASSUME NEW v \in Workers, TakeLock(v)
      PROVE  InsideHoldsLock'
  <2>0. pc[v] = "lock" /\ target' = target /\ At(v) \in Ideas
    BY <1>0, <1>5 DEF TakeLock, limiterVars
  <2>1. CASE /\ lock[At(v)] = Nobody /\ lock' = [lock EXCEPT ![At(v)] = v]
             /\ Goto(v, "run") /\ UNCHANGED queue
    <3>1. \A w \in Workers : Inside(w)' => w = v \/ Inside(w)
      BY <2>0, <2>1 DEF TypeOK
    <3>2. \A w \in Workers : At(w)' = At(w)
      BY <2>0, <2>1
    <3>3. \A w \in Workers : Inside(w) => At(w) # At(v)
      BY <2>1 DEF Workers
    <3>4. QED
      BY <2>0, <2>1, <3>1, <3>2, <3>3 DEF TypeOK
  <2>2. CASE UNCHANGED lock /\ Continue(v)
    BY <1>1, <2>0, <2>2
  <2>3. CASE /\ lock[At(v)] = Nobody /\ lock' = [lock EXCEPT ![At(v)] = Abandoned]
             /\ Continue(v)
    <3>1. \A w \in Workers : Inside(w)' => Inside(w) /\ At(w)' = At(w)
      BY <2>0, <2>3 DEF Continue, TypeOK
    <3>2. \A w \in Workers : Inside(w) => At(w) # At(v)
      BY <2>3 DEF Workers
    <3>3. QED
      BY <1>0, <2>0, <2>3, <3>1, <3>2 DEF TypeOK
  <2>4. QED
    BY <1>5, <2>1, <2>2, <2>3 DEF TakeLock, LockRefused
<1>6. ASSUME NEW v \in Workers, Run(v)
      PROVE  InsideHoldsLock'
  <2>1. /\ pc[v] = "run" /\ UNCHANGED <<lock, queue, target>>
        /\ Goto(v, "release") \/ Goto(v, "raise")
    BY <1>6 DEF Run, limiterVars
  <2>2. QED
    BY <2>1 DEF TypeOK
<1>7. ASSUME NEW v \in Workers, Release(v)
      PROVE  InsideHoldsLock'
  <2>1. /\ Inside(v) /\ target' = target
        /\ Continue(v) \/ GiveUp(v)
        /\ \E h \in {Nobody, Abandoned} : lock' = [lock EXCEPT ![At(v)] = h]
    BY <1>7 DEF Release, limiterVars
  <2>2. \A i \in Ideas \ {At(v)} : lock'[i] = lock[i]
    BY <2>1 DEF TypeOK
  <2>3. QED
    BY <1>1, <2>1, <2>2
<1>8. ASSUME NEW i \in Ideas, ExpireLock(i)
      PROVE  InsideHoldsLock'
  <2>1. \A w \in Workers : Inside(w) => At(w) # i
    BY <1>8 DEF ExpireLock, Workers
  <2>2. QED
    BY <1>0, <1>8, <2>1 DEF ExpireLock, TypeOK, limiterVars
<1>9. ASSUME NEW i \in Ideas, Evidence(i)
      PROVE  InsideHoldsLock'
  BY <1>9 DEF Evidence, limiterVars
<1>10. CASE Tick
  BY <1>10 DEF Tick
<1>11. CASE Restart
  BY <1>11 DEF Restart
<1>12. CASE UNCHANGED vars
  BY <1>12 DEF vars, limiterVars
<1>13. QED
  BY <1>2, <1>3, <1>4, <1>5, <1>6, <1>7, <1>8, <1>9, <1>10, <1>11, <1>12
     DEF Next, Step

LEMMA InsideInvariant == Spec => [](TypeOK /\ InsideHoldsLock)
<1>1. Init => InsideHoldsLock
  BY DEF Init, InsideHoldsLock, Inside
<1>2. InsideHoldsLock /\ TypeOK /\ [Next]_vars => InsideHoldsLock'
  BY InsideStep
<1>3. QED
  BY <1>1, <1>2, TypeCorrect, PTL DEF Spec

\* One paid re-run of an idea at a time, whoever asked for it, and each frees
\* only its own lock.
THEOREM InsideHoldsLockHolds == Spec => []InsideHoldsLock
BY InsideInvariant, PTL

\* Two workers inside for the same idea are one.
LEMMA OneInside ==
  ASSUME InsideHoldsLock, NEW v \in Workers, NEW w \in Workers,
         Inside(v), Inside(w), At(v) = At(w)
  PROVE  v = w
BY DEF InsideHoldsLock

\* What goes on at the sweep and at the founders' requests, seen from the lock of
\* one idea, is what RunMutex allows and SchedulerLock implements.
THEOREM LocksAreRunMutexes ==
  ASSUME NEW CONSTANT i \in Ideas
  PROVE  Spec => Lock(i)!Spec
<1>1. Init => Lock(i)!Init
  BY DEF Init, Lock!Init
<1>2. ASSUME TypeOK, InsideHoldsLock, [Next]_vars
      PROVE  [Lock(i)!Next]_(lock[i])
  <2> USE DEF Lock!Next, Lock!Acquire, Lock!AcquireUnseen, Lock!Release,
              Lock!Abandon, Lock!Expire
  <2>1. ASSUME NEW w \in Workers, TakeLock(w)
        PROVE  [Lock(i)!Next]_(lock[i])
    <3>1. At(w) \in Ideas
      BY <2>1, <1>2, AtAnIdea DEF TakeLock
    <3>2. \/ UNCHANGED lock
          \/ lock[At(w)] = Nobody /\ lock' = [lock EXCEPT ![At(w)] = w]
          \/ lock[At(w)] = Nobody /\ lock' = [lock EXCEPT ![At(w)] = Abandoned]
      BY <2>1 DEF TakeLock
    <3>3. QED
      BY <1>2, <3>1, <3>2 DEF TypeOK
  <2>2. ASSUME NEW w \in Workers, Release(w)
        PROVE  [Lock(i)!Next]_(lock[i])
    <3>1. At(w) \in Ideas /\ lock[At(w)] = w
      BY <2>2, <1>2 DEF Release, InsideHoldsLock, Inside
    <3>2. \E h \in {Nobody, Abandoned} : lock' = [lock EXCEPT ![At(w)] = h]
      BY <2>2 DEF Release
    <3>3. QED
      BY <1>2, <3>1, <3>2 DEF TypeOK
  <2>3. ASSUME NEW j \in Ideas, ExpireLock(j)
        PROVE  [Lock(i)!Next]_(lock[i])
    BY <2>3, <1>2 DEF ExpireLock, TypeOK
  <2>4. CASE Restart
    BY <2>4, <1>2 DEF Restart, TypeOK
  <2>5. CASE UNCHANGED lock
    BY <2>5
  <2>6. QED
    BY <1>2, <2>1, <2>2, <2>3, <2>4, <2>5 DEF Next, Step, Wake, CheckDue, Tick,
       ForceSnapshot, Run, Evidence, vars
<1>3. QED
  BY <1>1, <1>2, InsideInvariant, PTL DEF Spec, Lock!Spec
=============================================================================
