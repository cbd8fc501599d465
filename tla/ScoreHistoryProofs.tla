------------------------- MODULE ScoreHistoryProofs -------------------------
(***************************************************************************)
(* Proofs about ScoreHistory, for any runs of each kind, any dimensions    *)
(* and every fault: the type invariant, "the score moves only on           *)
(* evidence", the pointer, the deltas and the seriality of market runs.    *)
(***************************************************************************)
EXTENDS ScoreHistory, TLAPS

\* The document of i is final: it is built, or i will never build one.
Built(i) == pc[i] \notin {"idle", "acquire", "check", "read", "build"}

\* Only a final document is stored, read or referred to.
OnlyBuiltIsShared ==
  /\ \A s \in stored : Built(s)
  /\ \A r \in Runs : previous[r] # None => Built(previous[r])
  /\ \A r \in Runs : pc[r] = "build" => previous[r] # None
  /\ \A i \in Ids : doc[i].previous # None => Built(doc[i].previous)

\* Stamps grow along the chain of deltas.
Stamps ==
  /\ \A i \in Ids : doc[i].createdAt =< clock
  /\ \A r \in Runs : pc[r] = "insert" \/ r \in stored =>
       /\ doc[r].previous # None
       /\ doc[doc[r].previous].createdAt < doc[r].createdAt

\* Until a deletion starts, nothing that was read or inserted goes away.
NothingLost ==
  deletePc = "never" =>
    /\ \A r \in Runs : previous[r] # None => previous[r] \in stored
    /\ \A i \in Ids : doc[i].previous # None => doc[i].previous \in stored
    /\ \A i \in Ids : pc[i] = "setCurrent" => i \in stored

\* Every document, stored or not, has the right authors.
Authors ==
  \A i \in Ids :
    /\ \A d \in EvidenceDims : doc[i].scores[d] \in EvidenceRuns \cup {Initial}
    /\ \A d \in MarketDims : doc[i].scores[d] \in MarketRuns \cup {Initial}
    /\ \A d \in NeverDims : doc[i].scores[d] = Initial

\* A market run between the acquisition and the release holds the lock.
Critical(r) == pc[r] \in {"read", "build", "insert", "setCurrent", "release"}
LockHeld == \A r \in MarketRuns : Critical(r) => lock = r

\* No market snapshot is inserted behind the back of a market run that has
\* read its previous snapshot.
NoneSince ==
  \A r, s \in MarketRuns : s \in stored =>
    /\ pc[r] = "build" =>
         doc[s].createdAt =< doc[previous[r]].createdAt
    /\ pc[r] = "insert" =>
         /\ doc[s].createdAt =< doc[doc[r].previous].createdAt
         /\ doc[s].createdAt < doc[r].createdAt

IInv ==
  /\ TypeOK
  /\ OnlyBuiltIsShared
  /\ Stamps
  /\ NothingLost
  /\ PointerNamesWrittenSnapshot
  /\ Authors
  /\ LockHeld
  /\ NoneSince
  /\ MarketRunsAreSerial

USE IdsAssumption, DimsAssumption, FaultAssumption
USE DEF Runs, Ids, Dims

-----------------------------------------------------------------------------
(***************************************************************************)
(* What a step does to the program counter and the lock when a run leaves  *)
(* or goes on.                                                             *)
(***************************************************************************)
LeavesAt(i, l) ==
  /\ pc' = [pc EXCEPT ![i] = l]
  /\ l = "release" => i \in MarketRuns /\ lock' = lock
  /\ lock' = lock \/ (l = "done" /\ i \in MarketRuns /\ lock = i /\ lock' = Abandoned)

LEMMA LeaveStep ==
  ASSUME NEW i \in Ids, Leave(i)
  PROVE  \E l \in {"release", "done"} : LeavesAt(i, l)
BY DEF Leave, LeavesAt, Goto, Mutex!Abandon

LEMMA ProceedStep ==
  ASSUME NEW i \in Ids, NEW label, Proceed(i, label)
  PROVE  \/ pc' = [pc EXCEPT ![i] = label] /\ lock' = lock
         \/ \E l \in {"release", "done"} : LeavesAt(i, l)
BY LeaveStep DEF Proceed, Goto

LEMMA LeavesAtType ==
  ASSUME TypeOK, NEW i \in Ids, NEW l \in {"release", "done"}, LeavesAt(i, l)
  PROVE  pc' \in [Ids -> Labels] /\ lock' \in MarketRuns \cup {Nobody, Abandoned}
BY DEF TypeOK, LeavesAt, Labels

LEMMA LeaveType ==
  ASSUME TypeOK, NEW i \in Ids, Leave(i)
  PROVE  pc' \in [Ids -> Labels] /\ lock' \in MarketRuns \cup {Nobody, Abandoned}
BY LeaveStep, LeavesAtType

LEMMA ProceedType ==
  ASSUME TypeOK, NEW i \in Ids, NEW label \in Labels, Proceed(i, label)
  PROVE  pc' \in [Ids -> Labels] /\ lock' \in MarketRuns \cup {Nobody, Abandoned}
BY ProceedStep, LeavesAtType DEF TypeOK

LEMMA TypeStep ==
  ASSUME TypeOK, OnlyBuiltIsShared, [Next]_vars
  PROVE  TypeOK'
<1> USE DEF TypeOK, ideaVars, snapshotVars
<1>1. CASE Promote
  <2>1. \A b \in BOOLEAN : FirstSnapshot(clock + 1, b) \in Document
    BY DEF FirstSnapshot, Document
  <2>2. doc' \in [Ids -> Document] /\ clock' \in Nat
    BY <1>1, <2>1 DEF Promote
  <2>3. QED
    BY <1>1, <2>2 DEF Promote, Returns, Raises, Goto, Labels
<1>2. ASSUME NEW r \in Runs, Start(r) PROVE TypeOK'
  BY <1>2 DEF Start, Goto, Labels
<1>3. ASSUME NEW r \in MarketRuns, Acquire(r) PROVE TypeOK'
  <2>1. pc' \in [Ids -> Labels]
    BY <1>3 DEF Acquire, Goto, Labels
  <2>2. lock' \in MarketRuns \cup {Nobody, Abandoned}
    BY <1>3 DEF Acquire, Mutex!Acquire, Mutex!AcquireUnseen
  <2>3. mongoAvailable' \in BOOLEAN
    BY <1>3 DEF Acquire, Returns, Raises
  <2>4. QED
    BY <1>3, <2>1, <2>2, <2>3 DEF Acquire
<1>4. ASSUME NEW r \in Runs \ MarketRuns, CheckLatest(r) PROVE TypeOK'
  BY <1>4, LeaveType, ProceedType DEF CheckLatest, Returns, Raises, Labels
<1>5. ASSUME NEW r \in Runs, ReadPrevious(r) PROVE TypeOK'
  <2>1. previous' \in [Ids -> Ids \cup {None}]
    BY <1>5 DEF ReadPrevious
  <2>2. pc' \in [Ids -> Labels] /\ lock' \in MarketRuns \cup {Nobody, Abandoned}
    BY <1>5, LeaveType DEF ReadPrevious, Goto, Labels
  <2>3. QED
    BY <1>5, <2>1, <2>2 DEF ReadPrevious, Returns, Raises
<1>6. ASSUME NEW r \in Runs, BuildSnapshot(r) PROVE TypeOK'
  <2>1. previous[r] \in Ids
    BY <1>6 DEF BuildSnapshot, OnlyBuiltIsShared
  <2>2. \A updated : Merge(doc[previous[r]].scores, updated, r) \in [Dims -> Ids]
    BY <2>1 DEF Merge, Document
  <2>3. doc' \in [Ids -> Document]
    <3>1. PICK updated \in SUBSET DimsOf(r) :
            doc' = [doc EXCEPT ![r] =
                     [createdAt |-> clock + 1,
                      previous |-> previous[r],
                      scores |-> Merge(doc[previous[r]].scores, updated, r),
                      currentWeights |-> TRUE]]
      BY <1>6 DEF BuildSnapshot
    <3>2. Merge(doc[previous[r]].scores, updated, r) \in [Dims -> Ids]
      BY <2>2
    <3>3. [createdAt |-> clock + 1,
           previous |-> previous[r],
           scores |-> Merge(doc[previous[r]].scores, updated, r),
           currentWeights |-> TRUE] \in Document
      BY <2>1, <3>2 DEF Document
    <3>4. QED
      BY <3>1, <3>3
  <2>4. QED
    BY <1>6, <2>3, ProceedType DEF BuildSnapshot, Labels
<1>7. ASSUME NEW r \in MarketRuns, Release(r) PROVE TypeOK'
  BY <1>7 DEF Release, Mutex!Release, Mutex!Abandon, Returns, Raises, Goto, Labels
<1>8. ASSUME NEW i \in Ids, InsertSnapshot(i) PROVE TypeOK'
  <2>1. stored' \in SUBSET Ids
    BY <1>8 DEF InsertSnapshot
  <2>2. QED
    BY <1>8, <2>1, LeaveType, ProceedType
       DEF InsertSnapshot, Returns, Raises, Labels
<1>9. ASSUME NEW i \in Ids, SetCurrent(i) PROVE TypeOK'
  <2>1. current' \in Ids \cup {None}
    BY <1>9 DEF SetCurrent
  <2>2. QED
    BY <1>9, <2>1, LeaveType DEF SetCurrent, Returns, Raises
<1>10. CASE StartDelete
  BY <1>10 DEF StartDelete
<1>11. CASE DeleteSnapshots
  BY <1>11 DEF DeleteSnapshots, Returns, Raises
<1>12. CASE DeleteIdea
  BY <1>12 DEF DeleteIdea, Returns, Raises
<1>13. CASE MongoFails
  BY <1>13 DEF MongoFails
<1>14. CASE ExpireLock
  BY <1>14 DEF ExpireLock, Mutex!Expire
<1>15. CASE Restart
  BY <1>15 DEF Restart, Labels
<1>16. CASE UNCHANGED vars
  BY <1>16 DEF vars
<1>17. QED
  BY <1>1, <1>2, <1>3, <1>4, <1>5, <1>6, <1>7, <1>8, <1>9, <1>10, <1>11,
     <1>12, <1>13, <1>14, <1>15, <1>16 DEF Next, RunStep, IdStep

-----------------------------------------------------------------------------
(***************************************************************************)
(* The lock: a market run holds it from its acquisition to its release.    *)
(***************************************************************************)
\* Leaving gives the lock up only if the run goes straight to "done".
LEMMA LeaveKeepsLockHeld ==
  ASSUME TypeOK, LockHeld, NEW i \in Ids, NEW l \in {"release", "done"},
         LeavesAt(i, l), i \in MarketRuns => Critical(i)
  PROVE  LockHeld'
BY DEF TypeOK, LockHeld, Critical, LeavesAt

LEMMA LockHeldStep ==
  ASSUME TypeOK, LockHeld, [Next]_vars
  PROVE  LockHeld'
<1> USE DEF TypeOK, LockHeld, Critical
<1>1. CASE Promote
  BY <1>1 DEF Promote, Goto
<1>2. ASSUME NEW r \in Runs, Start(r) PROVE LockHeld'
  BY <1>2 DEF Start, Goto
<1>3. ASSUME NEW r \in MarketRuns, Acquire(r) PROVE LockHeld'
  BY <1>3 DEF Acquire, Goto, Mutex!Acquire, Mutex!AcquireUnseen
<1>4. ASSUME NEW r \in Runs \ MarketRuns, CheckLatest(r) PROVE LockHeld'
  BY <1>4, LeaveStep, ProceedStep, LeaveKeepsLockHeld DEF CheckLatest
<1>5. ASSUME NEW r \in Runs, ReadPrevious(r) PROVE LockHeld'
  BY <1>5, LeaveStep, LeaveKeepsLockHeld DEF ReadPrevious, Goto
<1>6. ASSUME NEW r \in Runs, BuildSnapshot(r) PROVE LockHeld'
  BY <1>6, ProceedStep, LeaveKeepsLockHeld DEF BuildSnapshot
<1>7. ASSUME NEW r \in MarketRuns, Release(r) PROVE LockHeld'
  BY <1>7 DEF Release, Mutex!Release, Mutex!Abandon, Goto
<1>8. ASSUME NEW i \in Ids, InsertSnapshot(i) PROVE LockHeld'
  BY <1>8, LeaveStep, ProceedStep, LeaveKeepsLockHeld DEF InsertSnapshot
<1>9. ASSUME NEW i \in Ids, SetCurrent(i) PROVE LockHeld'
  BY <1>9, LeaveStep, LeaveKeepsLockHeld DEF SetCurrent
<1>10. CASE StartDelete \/ DeleteSnapshots \/ DeleteIdea \/ MongoFails
  BY <1>10 DEF StartDelete, DeleteSnapshots, DeleteIdea, MongoFails
<1>11. CASE ExpireLock
  BY <1>11 DEF ExpireLock, Mutex!Expire
<1>12. CASE Restart
  BY <1>12 DEF Restart
<1>13. CASE UNCHANGED vars
  BY <1>13 DEF vars
<1>14. QED
  BY <1>1, <1>2, <1>3, <1>4, <1>5, <1>6, <1>7, <1>8, <1>9, <1>10, <1>11,
     <1>12, <1>13 DEF Next, RunStep, IdStep

-----------------------------------------------------------------------------
(***************************************************************************)
(* What a step preserves.  Most steps leave the snapshots and what was     *)
(* read of them alone and take no run into "build", "insert" or            *)
(* "setCurrent": they are quiet.                                           *)
(***************************************************************************)
History == /\ OnlyBuiltIsShared /\ Stamps /\ NothingLost
           /\ Authors /\ NoneSince /\ MarketRunsAreSerial

Quiet ==
  /\ UNCHANGED snapshotVars
  /\ deletePc' = "never" => deletePc = "never"
  /\ \A i \in Ids :
       /\ Built(i) => Built(i)'
       /\ pc'[i] \in {"build", "insert", "setCurrent"} => pc'[i] = pc[i]

LEMMA DocFields ==
  ASSUME TypeOK, NEW i \in Ids
  PROVE  doc[i].previous \in Ids \cup {None} /\ doc[i].createdAt \in Nat
BY DEF TypeOK, Document

LEMMA QuietKeepsHistory ==
  ASSUME TypeOK, History, Quiet
  PROVE  History'
<1> USE DEF History, Quiet, snapshotVars, TypeOK
<1>1. OnlyBuiltIsShared'
  BY DocFields DEF OnlyBuiltIsShared, Built
<1>2. Stamps'
  BY DEF Stamps
<1>3. NothingLost'
  BY DEF NothingLost
<1>4. Authors'
  BY DEF Authors
<1>5. NoneSince'
  BY DEF NoneSince
<1>6. MarketRunsAreSerial'
  BY DEF MarketRunsAreSerial
<1>7. QED
  BY <1>1, <1>2, <1>3, <1>4, <1>5, <1>6

LEMMA LeaveIsQuiet ==
  ASSUME TypeOK, NEW i \in Ids, Leave(i), UNCHANGED snapshotVars, UNCHANGED deletePc
  PROVE  Quiet
BY LeaveStep DEF LeavesAt, Quiet, Built, TypeOK

\* A market run reads the latest snapshot: none is newer.
LEMMA ReadKeepsHistory ==
  ASSUME TypeOK, IInv, NEW r \in Runs, pc[r] = "read",
         NEW s \in stored, IsLatest(s),
         previous' = [previous EXCEPT ![r] = s],
         pc' = [pc EXCEPT ![r] = "build"],
         UNCHANGED <<stored, doc, clock, deletePc>>
  PROVE  History'
<1> USE DEF TypeOK, IInv
<1>1. OnlyBuiltIsShared'
  BY DocFields DEF OnlyBuiltIsShared, Built
<1>2. Stamps'
  BY DEF Stamps
<1>3. NothingLost'
  BY DEF NothingLost
<1>4. Authors'
  BY DEF Authors
<1>5. NoneSince'
  BY DEF NoneSince, IsLatest
<1>6. MarketRunsAreSerial'
  BY DEF MarketRunsAreSerial
<1>7. QED
  BY <1>1, <1>2, <1>3, <1>4, <1>5, <1>6 DEF History

\* A run builds on what it read, with a stamp newer than every other.
LEMMA BuildKeepsHistory ==
  ASSUME TypeOK, TypeOK', IInv, NEW r \in Runs, pc[r] = "build",
         NEW l \in {"insert", "release", "done"}, pc' = [pc EXCEPT ![r] = l],
         clock' = clock + 1,
         NEW updated \in SUBSET DimsOf(r),
         doc' = [doc EXCEPT ![r] =
                  [createdAt |-> clock + 1,
                   previous |-> previous[r],
                   scores |-> Merge(doc[previous[r]].scores, updated, r),
                   currentWeights |-> TRUE]],
         UNCHANGED <<stored, previous, deletePc>>
  PROVE  History'
<1> USE DEF TypeOK
<1>1. /\ previous[r] \in Ids /\ Built(previous[r])
      /\ r \notin stored /\ r # previous[r]
  BY DEF IInv, OnlyBuiltIsShared, Built
<1>2. /\ doc'[r].createdAt = clock + 1
      /\ doc'[r].previous = previous[r]
      /\ doc'[r].scores = Merge(doc[previous[r]].scores, updated, r)
  OBVIOUS
<1>3. \A i \in Ids \ {r} : doc'[i] = doc[i] /\ pc'[i] = pc[i]
  OBVIOUS
<1>4. OnlyBuiltIsShared'
  BY <1>1, <1>2, <1>3, DocFields DEF IInv, OnlyBuiltIsShared, Built
<1>5. Stamps'
  BY <1>1, <1>2, <1>3, DocFields DEF IInv, Stamps, OnlyBuiltIsShared, Built
<1>6. NothingLost'
  BY <1>1, <1>2, <1>3, DocFields DEF IInv, NothingLost
<1>7. Authors'
  <2>1. \A d \in Dims : doc'[r].scores[d] =
          IF d \in updated THEN r ELSE doc[previous[r]].scores[d]
    BY <1>2 DEF Merge
  <2>2. updated \subseteq DimsOf(r)
    OBVIOUS
  <2>3. QED
    BY <1>1, <1>3, <2>1, <2>2 DEF IInv, Authors, DimsOf
<1>8. NoneSince'
  BY <1>1, <1>2, <1>3, DocFields
     DEF IInv, NoneSince, Stamps, OnlyBuiltIsShared, Built
<1>9. MarketRunsAreSerial'
  BY <1>1, <1>2, <1>3, DocFields
     DEF IInv, MarketRunsAreSerial, OnlyBuiltIsShared, Stamps, Built
<1>10. QED
  BY <1>4, <1>5, <1>6, <1>7, <1>8, <1>9 DEF History

\* A snapshot is inserted whose stamp is newer than that of every other
\* market run's, if it is a market run's.
LEMMA InsertKeepsHistory ==
  ASSUME TypeOK, TypeOK', IInv, NEW i \in Ids, pc[i] = "insert",
         NEW l \in {"setCurrent", "release", "done"}, pc' = [pc EXCEPT ![i] = l],
         stored' \in {stored, stored \cup {i}},
         l = "setCurrent" => i \in stored',
         UNCHANGED <<doc, previous, clock, deletePc>>
  PROVE  History'
<1> USE DEF TypeOK
<1>1. OnlyBuiltIsShared'
  BY DocFields DEF IInv, OnlyBuiltIsShared, Built
<1>2. Stamps'
  BY DocFields DEF IInv, Stamps
<1>3. NothingLost'
  BY DocFields DEF IInv, NothingLost
<1>4. Authors'
  BY DEF IInv, Authors
<1>5. \A r \in MarketRuns : i \in MarketRuns /\ r # i => pc[r] \notin {"build", "insert"}
  BY DEF IInv, LockHeld, Critical
<1>6. NoneSince'
  BY <1>5 DEF IInv, NoneSince
<1>7. MarketRunsAreSerial'
  BY DocFields DEF IInv, MarketRunsAreSerial, NoneSince
<1>8. QED
  BY <1>1, <1>2, <1>3, <1>4, <1>6, <1>7 DEF History

\* The first snapshot is built.
LEMMA PromoteKeepsHistory ==
  ASSUME TypeOK, TypeOK', IInv, pc[Initial] = "idle",
         pc' = [pc EXCEPT ![Initial] = "insert"], clock' = clock + 1,
         NEW b \in BOOLEAN,
         doc' = [doc EXCEPT ![Initial] = FirstSnapshot(clock + 1, b)],
         UNCHANGED <<stored, previous, deletePc>>
  PROVE  History'
<1> USE DEF TypeOK
<1>1. /\ doc'[Initial].createdAt = clock + 1
      /\ doc'[Initial].previous = None
      /\ doc'[Initial].scores = [d \in Dims |-> Initial]
  BY DEF FirstSnapshot
<1>2. Initial \notin stored
  BY DEF IInv, OnlyBuiltIsShared, Built
<1>3. \A i \in Ids \ {Initial} : doc'[i] = doc[i] /\ pc'[i] = pc[i]
  OBVIOUS
<1>4. OnlyBuiltIsShared'
  BY <1>1, <1>2, <1>3, DocFields DEF IInv, OnlyBuiltIsShared, Built
<1>5. Stamps'
  BY <1>1, <1>2, <1>3, DocFields DEF IInv, Stamps, OnlyBuiltIsShared, Built
<1>6. NothingLost'
  BY <1>1, <1>3, DocFields DEF IInv, NothingLost
<1>7. Authors'
  BY <1>1, <1>3 DEF IInv, Authors
<1>8. NoneSince'
  BY <1>1, <1>2, <1>3, DocFields
     DEF IInv, NoneSince, OnlyBuiltIsShared, Stamps, Built
<1>9. MarketRunsAreSerial'
  BY <1>1, <1>2, <1>3, DocFields
     DEF IInv, MarketRunsAreSerial, OnlyBuiltIsShared, Stamps, Built
<1>10. QED
  BY <1>4, <1>5, <1>6, <1>7, <1>8, <1>9 DEF History

\* The cascade takes snapshots away.
LEMMA DeletionKeepsHistory ==
  ASSUME TypeOK, TypeOK', IInv, stored' \in SUBSET stored, deletePc' # "never",
         UNCHANGED <<pc, doc, previous, clock>>
  PROVE  History'
<1> USE DEF TypeOK
<1>1. OnlyBuiltIsShared'
  BY DocFields DEF IInv, OnlyBuiltIsShared, Built
<1>2. Stamps'
  BY DEF IInv, Stamps
<1>3. NothingLost'
  BY DEF NothingLost
<1>4. Authors'
  BY DEF IInv, Authors
<1>5. NoneSince'
  BY DEF IInv, NoneSince
<1>6. MarketRunsAreSerial'
  BY DEF IInv, MarketRunsAreSerial
<1>7. QED
  BY <1>1, <1>2, <1>3, <1>4, <1>5, <1>6 DEF History

\* The other kinds of step: a run reads, builds, inserts, an idea is promoted,
\* snapshots are deleted.
ReadsLatest(r, s) ==
  /\ pc[r] = "read" /\ IsLatest(s)
  /\ previous' = [previous EXCEPT ![r] = s]
  /\ pc' = [pc EXCEPT ![r] = "build"]
  /\ UNCHANGED <<stored, doc, clock, deletePc>>
Builds(r, l, updated) ==
  /\ pc[r] = "build" /\ pc' = [pc EXCEPT ![r] = l]
  /\ clock' = clock + 1
  /\ doc' = [doc EXCEPT ![r] =
              [createdAt |-> clock + 1,
               previous |-> previous[r],
               scores |-> Merge(doc[previous[r]].scores, updated, r),
               currentWeights |-> TRUE]]
  /\ UNCHANGED <<stored, previous, deletePc>>
Inserts(i, l) ==
  /\ pc[i] = "insert" /\ pc' = [pc EXCEPT ![i] = l]
  /\ stored' \in {stored, stored \cup {i}}
  /\ l = "setCurrent" => i \in stored'
  /\ UNCHANGED <<doc, previous, clock, deletePc>>
Promotes(b) ==
  /\ pc[Initial] = "idle" /\ pc' = [pc EXCEPT ![Initial] = "insert"]
  /\ clock' = clock + 1
  /\ doc' = [doc EXCEPT ![Initial] = FirstSnapshot(clock + 1, b)]
  /\ UNCHANGED <<stored, previous, deletePc>>
Deletes ==
  /\ stored' \in SUBSET stored /\ deletePc' # "never"
  /\ UNCHANGED <<pc, doc, previous, clock>>

LEMMA StepKinds ==
  ASSUME IInv, [Next]_vars
  PROVE  \/ Quiet
         \/ \E r \in Runs, s \in stored : ReadsLatest(r, s)
         \/ \E r \in Runs : \E l \in {"insert", "release", "done"},
              updated \in SUBSET DimsOf(r) : Builds(r, l, updated)
         \/ \E i \in Ids, l \in {"setCurrent", "release", "done"} : Inserts(i, l)
         \/ \E b \in BOOLEAN : Promotes(b)
         \/ Deletes
<1>1. TypeOK
  BY DEF IInv
<1> USE DEF ideaVars, snapshotVars
<1>2. CASE Promote
  <2>1. CASE UNCHANGED <<clock, doc>> /\ Goto(Initial, "done")
    BY <1>1, <1>2, <2>1 DEF Promote, Quiet, Goto, Built, TypeOK
  <2>2. CASE ~(UNCHANGED <<clock, doc>> /\ Goto(Initial, "done"))
    BY <1>2, <2>2 DEF Promote, Goto, Promotes
  <2>3. QED
    BY <2>1, <2>2
<1>3. ASSUME NEW r \in Runs, Start(r) PROVE Quiet
  BY <1>1, <1>3 DEF Start, Quiet, Goto, Built, TypeOK
<1>4. ASSUME NEW r \in MarketRuns, Acquire(r) PROVE Quiet
  <2>1. \E l \in {"read", "done"} : pc' = [pc EXCEPT ![r] = l]
    BY <1>4 DEF Acquire, Goto
  <2>2. QED
    BY <1>1, <1>4, <2>1 DEF Acquire, Quiet, Built, TypeOK
<1>5. ASSUME NEW r \in Runs \ MarketRuns, CheckLatest(r) PROVE Quiet
  <2>1. CASE pc' = [pc EXCEPT ![r] = "read"]
    BY <1>1, <1>5, <2>1 DEF CheckLatest, Quiet, Built, TypeOK
  <2>2. CASE Leave(r)
    BY <1>1, <1>5, <2>2, LeaveIsQuiet DEF CheckLatest
  <2>3. QED
    BY <1>5, <2>1, <2>2 DEF CheckLatest, Proceed, Goto
<1>6. ASSUME NEW r \in Runs, ReadPrevious(r)
      PROVE  Quiet \/ \E s \in stored : ReadsLatest(r, s)
  <2>1. CASE Leave(r) /\ UNCHANGED previous
    BY <1>1, <1>6, <2>1, LeaveIsQuiet DEF ReadPrevious
  <2>2. CASE ~(Leave(r) /\ UNCHANGED previous)
    BY <1>6, <2>2 DEF ReadPrevious, Goto, ReadsLatest
  <2>3. QED
    BY <2>1, <2>2
<1>7. ASSUME NEW r \in Runs, BuildSnapshot(r)
      PROVE  \E l \in {"insert", "release", "done"}, updated \in SUBSET DimsOf(r) :
               Builds(r, l, updated)
  <2>1. \E l \in {"insert", "release", "done"} : pc' = [pc EXCEPT ![r] = l]
    BY <1>7, ProceedStep DEF BuildSnapshot, LeavesAt
  <2>2. QED
    BY <1>7, <2>1 DEF BuildSnapshot, Builds
<1>8. ASSUME NEW r \in MarketRuns, Release(r) PROVE Quiet
  BY <1>1, <1>8 DEF Release, Quiet, Goto, Built, TypeOK
<1>9. ASSUME NEW i \in Ids, InsertSnapshot(i)
      PROVE  \E l \in {"setCurrent", "release", "done"} : Inserts(i, l)
  <2>1. \E l \in {"setCurrent", "release", "done"} :
          /\ pc' = [pc EXCEPT ![i] = l]
          /\ l = "setCurrent" => i \in stored'
    BY <1>9, LeaveStep, ProceedStep DEF InsertSnapshot, LeavesAt
  <2>2. stored' \in {stored, stored \cup {i}}
    BY <1>9 DEF InsertSnapshot
  <2>3. QED
    BY <1>9, <2>1, <2>2 DEF InsertSnapshot, Inserts
<1>10. ASSUME NEW i \in Ids, SetCurrent(i) PROVE Quiet
  BY <1>1, <1>10, LeaveIsQuiet DEF SetCurrent
<1>11. CASE StartDelete \/ DeleteIdea \/ MongoFails \/ ExpireLock
  BY <1>11 DEF StartDelete, DeleteIdea, MongoFails, ExpireLock, Quiet, Built
<1>12. CASE DeleteSnapshots
  BY <1>12 DEF DeleteSnapshots, Deletes
<1>13. CASE Restart
  BY <1>1, <1>13 DEF Restart, Quiet, Built, TypeOK
<1>14. CASE UNCHANGED vars
  BY <1>14 DEF vars, Quiet, Built
<1>15. QED
  BY <1>2, <1>3, <1>4, <1>5, <1>6, <1>7, <1>8, <1>9, <1>10, <1>11,
     <1>12, <1>13, <1>14 DEF Next, RunStep, IdStep

LEMMA HistoryStep ==
  ASSUME IInv, TypeOK', [Next]_vars
  PROVE  History'
<1>1. TypeOK /\ History
  BY DEF IInv, History
<1>2. CASE Quiet
  BY <1>1, <1>2, QuietKeepsHistory
<1>3. ASSUME NEW r \in Runs, NEW s \in stored, ReadsLatest(r, s) PROVE History'
  BY <1>1, <1>3, ReadKeepsHistory DEF ReadsLatest
<1>4. ASSUME NEW r \in Runs, NEW l \in {"insert", "release", "done"},
             NEW updated \in SUBSET DimsOf(r), Builds(r, l, updated)
      PROVE  History'
  BY <1>1, <1>4, BuildKeepsHistory DEF Builds
<1>5. ASSUME NEW i \in Ids, NEW l \in {"setCurrent", "release", "done"},
             Inserts(i, l)
      PROVE  History'
  BY <1>1, <1>5, InsertKeepsHistory DEF Inserts
<1>6. ASSUME NEW b \in BOOLEAN, Promotes(b) PROVE History'
  BY <1>1, <1>6, PromoteKeepsHistory DEF Promotes
<1>7. CASE Deletes
  BY <1>1, <1>7, DeletionKeepsHistory DEF Deletes
<1>8. QED
  BY <1>2, <1>3, <1>4, <1>5, <1>6, <1>7, StepKinds

\* The pointer is set to a snapshot that is stored (NothingLost), and no
\* snapshot is taken away before a deletion.
LEMMA PointerStep ==
  ASSUME IInv, [Next]_vars
  PROVE  PointerNamesWrittenSnapshot'
<1> USE DEF ideaVars, snapshotVars, PointerNamesWrittenSnapshot
<1>1. deletePc' = "never" => deletePc = "never" /\ stored \subseteq stored'
  BY DEF IInv, TypeOK, Next, RunStep, IdStep, Promote, Start, Acquire, CheckLatest,
         ReadPrevious, BuildSnapshot, InsertSnapshot, SetCurrent, Release,
         StartDelete, DeleteSnapshots, DeleteIdea, MongoFails, ExpireLock,
         Restart, vars
<1>2. \/ current' \in {current, None}
      \/ \E i \in Ids : pc[i] = "setCurrent" /\ current' = i
  BY DEF Next, RunStep, IdStep, Promote, Start, Acquire, CheckLatest,
         ReadPrevious, BuildSnapshot, InsertSnapshot, SetCurrent, Release,
         StartDelete, DeleteSnapshots, DeleteIdea, MongoFails, ExpireLock,
         Restart, vars
<1>3. QED
  BY <1>1, <1>2 DEF IInv, NothingLost

LEMMA InvariantInit ==
  ASSUME Init
  PROVE  IInv
<1> USE DEF Init
<1>1. NoDocument \in Document
  BY DEF NoDocument, FirstSnapshot, Document
<1>2. TypeOK
  BY <1>1 DEF TypeOK, Labels
<1>3. \A i \in Ids : /\ doc[i].createdAt = 0
                     /\ doc[i].previous = None
                     /\ doc[i].scores = [d \in Dims |-> Initial]
  BY DEF NoDocument, FirstSnapshot
<1>4. OnlyBuiltIsShared /\ Stamps /\ NothingLost
  BY <1>3 DEF OnlyBuiltIsShared, Stamps, NothingLost
<1>5. Authors
  BY <1>3 DEF Authors
<1>6. LockHeld /\ NoneSince
  BY DEF LockHeld, Critical, NoneSince
<1>7. PointerNamesWrittenSnapshot /\ MarketRunsAreSerial
  BY DEF PointerNamesWrittenSnapshot, MarketRunsAreSerial
<1>8. QED
  BY <1>2, <1>4, <1>5, <1>6, <1>7 DEF IInv

LEMMA InvariantStep ==
  ASSUME IInv, [Next]_vars
  PROVE  IInv'
<1>1. TypeOK'
  BY TypeStep DEF IInv
<1>2. LockHeld'
  BY LockHeldStep DEF IInv
<1>3. PointerNamesWrittenSnapshot'
  BY PointerStep
<1>4. History'
  BY <1>1, HistoryStep
<1>5. QED
  BY <1>1, <1>2, <1>3, <1>4 DEF IInv, History

\* The inductive invariant holds of every behaviour.
THEOREM Invariant == Spec => []IInv
BY InvariantInit, InvariantStep, PTL DEF Spec

-----------------------------------------------------------------------------
\* Type correctness; it needs the rest of the invariant, because a snapshot is
\* only a document when the one it was built on is.
THEOREM TypeCorrect == Spec => []TypeOK
<1>1. IInv => TypeOK
  BY DEF IInv
<1>2. QED
  BY <1>1, Invariant, PTL

\* "The score moves only on evidence", for any number of runs of each kind and
\* any dimensions, whatever faults happen (log_service's core rule).
THEOREM ScoreMovesOnlyOnEvidenceHolds == Spec => []ScoreMovesOnlyOnEvidence
<1>1. IInv => ScoreMovesOnlyOnEvidence
  BY DEF IInv, TypeOK, Authors, ScoreMovesOnlyOnEvidence
<1>2. QED
  BY <1>1, Invariant, PTL

\* current_snapshot_id only ever names a snapshot that was written.
THEOREM PointerHolds == Spec => []PointerNamesWrittenSnapshot
<1>1. IInv => PointerNamesWrittenSnapshot
  BY DEF IInv
<1>2. QED
  BY <1>1, Invariant, PTL

\* The deltas of a snapshot compare it with an earlier one.
THEOREM DeltasLookBackHolds == Spec => []DeltasLookBack
<1>1. IInv => DeltasLookBack
  BY DocFields DEF IInv, TypeOK, Stamps, NothingLost, DeltasLookBack
<1>2. QED
  BY <1>1, Invariant, PTL

\* The scheduler lock keeps market runs from undoing one another, whatever
\* evidence runs, re-scores, deletions, failures and restarts do in between.
THEOREM MarketRunsAreSerialHolds == Spec => []MarketRunsAreSerial
<1>1. IInv => MarketRunsAreSerial
  BY DEF IInv
<1>2. QED
  BY <1>1, Invariant, PTL

-----------------------------------------------------------------------------
(***************************************************************************)
(* Where the scores of a snapshot come from, for every mix of runs.        *)
(***************************************************************************)
\* A document that is stored, or about to be.
Final(i) == i \in stored \/ pc[i] = "insert"

MergedOverPrevious ==
  \A r \in Runs : Final(r) => \E updated \in SUBSET DimsOf(r) :
    doc[r].scores = Merge(doc[doc[r].previous].scores, updated, r)

ScoresInTimeline ==
  deletePc = "never" => \A i \in Ids : Final(i) =>
    \A d \in Dims : doc[i].scores[d] \in stored \cup {i}

Provenance == MergedOverPrevious /\ ScoresInTimeline

\* A document, once final, is never built again; nor is the one it names.
LEMMA FinalStays ==
  ASSUME IInv, NEW r \in Ids, pc[r] = "idle" \/ pc[r] = "build", NEW i \in Ids,
         Final(i)
  PROVE  /\ i # r
         /\ i \in Runs => doc[i].previous \in Ids /\ doc[i].previous # r
<1>1. i # r
  BY DEF IInv, OnlyBuiltIsShared, Built, Final
<1>2. CASE i \in Runs
  <2>1. doc[i].previous # None
    BY <1>2 DEF IInv, Stamps, Final
  <2>2. doc[i].previous \in Ids
    BY <2>1, DocFields DEF IInv
  <2>3. Built(doc[i].previous)
    BY <2>1 DEF IInv, OnlyBuiltIsShared
  <2>4. QED
    BY <1>1, <2>2, <2>3 DEF Built
<1>3. QED
  BY <1>1, <1>2

LEMMA ProvenanceStep ==
  ASSUME IInv, Provenance, [Next]_vars
  PROVE  Provenance'
<1> USE DEF Provenance
<1>1. /\ TypeOK /\ Initial \in Ids
      /\ deletePc' = "never" => deletePc = "never"
  BY DEF IInv, TypeOK, Next, RunStep, IdStep, Promote, Start, Acquire, CheckLatest,
         ReadPrevious, BuildSnapshot, InsertSnapshot, SetCurrent, Release,
         StartDelete, DeleteSnapshots, DeleteIdea, MongoFails, ExpireLock,
         Restart, vars, snapshotVars
<1>2. ASSUME UNCHANGED <<stored, doc>>, \A i \in Ids : Final(i)' => Final(i)
      PROVE  Provenance'
  BY <1>1, <1>2 DEF MergedOverPrevious, ScoresInTimeline
<1>3. CASE Quiet
  BY <1>2, <1>3 DEF Quiet, snapshotVars, Final
<1>4. ASSUME NEW r \in Runs, NEW s \in stored, ReadsLatest(r, s) PROVE Provenance'
  BY <1>1, <1>2, <1>4 DEF ReadsLatest, Final, TypeOK
<1>5. ASSUME NEW r \in Runs, NEW l \in {"insert", "release", "done"},
             NEW updated \in SUBSET DimsOf(r), Builds(r, l, updated)
      PROVE  Provenance'
  <2>1. /\ previous[r] \in Ids /\ previous[r] # r
        /\ deletePc = "never" => previous[r] \in stored
    BY <1>1, <1>5 DEF Builds, IInv, OnlyBuiltIsShared, NothingLost, Built, TypeOK
  <2>2. /\ doc'[r].previous = previous[r]
        /\ doc'[r].scores = Merge(doc[previous[r]].scores, updated, r)
        /\ \A i \in Ids \ {r} : doc'[i] = doc[i] /\ (Final(i)' => Final(i))
        /\ stored' = stored /\ r \notin stored
    BY <1>1, <1>5 DEF Builds, Final, TypeOK, IInv, OnlyBuiltIsShared, Built
  <2>3. \A i \in Runs \ {r} : Final(i) => doc'[doc'[i].previous] = doc[doc[i].previous]
    BY <1>5, <2>2, FinalStays DEF Builds
  <2>4. MergedOverPrevious'
    <3>1. doc'[doc'[r].previous] = doc[previous[r]]
      BY <2>1, <2>2
    <3>2. \A i \in Runs \ {r} : Final(i)' => \E u \in SUBSET DimsOf(i) :
            doc'[i].scores = Merge(doc'[doc'[i].previous].scores, u, i)
      BY <2>2, <2>3 DEF MergedOverPrevious
    <3>3. \E u \in SUBSET DimsOf(r) :
            doc'[r].scores = Merge(doc'[doc'[r].previous].scores, u, r)
      BY <2>2, <3>1
    <3>4. QED
      BY <3>2, <3>3 DEF MergedOverPrevious
  <2>5. ScoresInTimeline'
    <3>1. ASSUME deletePc' = "never", NEW d \in Dims
          PROVE  doc'[r].scores[d] \in stored \cup {r}
      <4>1. doc'[r].scores[d] = IF d \in updated THEN r ELSE doc[previous[r]].scores[d]
        BY <2>2 DEF Merge
      <4>2. previous[r] \in stored
        BY <1>1, <2>1, <3>1
      <4>3. doc[previous[r]].scores[d] \in stored
        BY <1>1, <2>1, <3>1, <4>2 DEF ScoresInTimeline, Final
      <4>4. QED
        BY <4>1, <4>3
    <3>2. QED
      BY <1>1, <2>2, <3>1 DEF ScoresInTimeline
  <2>6. QED
    BY <2>4, <2>5
<1>6. ASSUME NEW i \in Ids, NEW l \in {"setCurrent", "release", "done"},
             Inserts(i, l)
      PROVE  Provenance'
  <2>1. /\ doc' = doc /\ stored \subseteq stored' /\ pc[i] = "insert"
        /\ \A j \in Ids : Final(j)' => Final(j)
    BY <1>1, <1>6 DEF Inserts, Final, TypeOK
  <2>2. QED
    BY <1>1, <2>1 DEF MergedOverPrevious, ScoresInTimeline
<1>7. ASSUME NEW b \in BOOLEAN, Promotes(b) PROVE Provenance'
  <2>1. /\ doc'[Initial].scores = [d \in Dims |-> Initial]
        /\ \A i \in Ids \ {Initial} : doc'[i] = doc[i] /\ (Final(i)' => Final(i))
        /\ stored' = stored
    BY <1>1, <1>7 DEF Promotes, FirstSnapshot, Final, TypeOK
  <2>2. \A r \in Runs : Final(r) => doc'[doc'[r].previous] = doc[doc[r].previous]
    BY <1>1, <1>7, <2>1, FinalStays DEF Promotes
  <2>3. MergedOverPrevious'
    BY <2>1, <2>2 DEF MergedOverPrevious
  <2>4. ScoresInTimeline'
    BY <1>1, <2>1 DEF ScoresInTimeline
  <2>5. QED
    BY <2>3, <2>4
<1>8. CASE Deletes
  BY <1>1, <1>8 DEF Deletes, Final, MergedOverPrevious, ScoresInTimeline
<1>9. QED
  BY <1>3, <1>4, <1>5, <1>6, <1>7, <1>8, StepKinds

LEMMA ProvenanceInvariant == Spec => []Provenance
<1>1. Init => Provenance
  BY DEF Init, Provenance, MergedOverPrevious, ScoresInTimeline, Final
<1>2. IInv /\ Provenance /\ [Next]_vars => Provenance'
  BY ProvenanceStep
<1>3. QED
  BY <1>1, <1>2, Invariant, PTL DEF Spec

\* Whatever runs interleave and whatever fails, a snapshot carries every
\* dimension but its own run's from the one its deltas name.
THEOREM CarriedFromPreviousHolds == Spec => []CarriedFromPrevious
<1>1. IInv /\ Provenance => CarriedFromPrevious
  BY DEF IInv, TypeOK, Provenance, MergedOverPrevious, Final, CarriedFromPrevious
<1>2. QED
  BY <1>1, Invariant, ProvenanceInvariant, PTL

\* No snapshot shows a score of a run that never got its own snapshot written.
THEOREM EveryScoreHasItsSnapshotHolds == Spec => []EveryScoreHasItsSnapshot
<1>1. IInv /\ Provenance => EveryScoreHasItsSnapshot
  BY DEF IInv, TypeOK, Provenance, ScoresInTimeline, Final, EveryScoreHasItsSnapshot
<1>2. QED
  BY <1>1, Invariant, ProvenanceInvariant, PTL

-----------------------------------------------------------------------------
\* What the market runs do to the lock is what RunMutex allows, and a run that
\* leaves always finds the lock its own: no release waits or frees another's.
THEOREM LockIsRunMutex == Spec => Mutex!Spec /\ []LockHeld
<1>1. Init => Mutex!Init
  BY DEF Init, Mutex!Init
<1>2. ASSUME IInv, [Next]_vars
      PROVE  [Mutex!Next]_lock
  <2> USE DEF Mutex!Next
  <2>1. ASSUME NEW i \in Ids, Leave(i) PROVE [Mutex!Next]_lock
    BY <2>1 DEF Leave
  <2>2. ASSUME NEW i \in Ids, NEW label, Proceed(i, label) PROVE [Mutex!Next]_lock
    BY <2>1, <2>2 DEF Proceed
  <2>3. ASSUME NEW r \in MarketRuns, Acquire(r) \/ Release(r)
        PROVE  [Mutex!Next]_lock
    BY <2>3 DEF Acquire, Release
  <2>4. ASSUME NEW r \in Runs,
               (r \notin MarketRuns /\ CheckLatest(r)) \/ ReadPrevious(r) \/ BuildSnapshot(r)
        PROVE  [Mutex!Next]_lock
    BY <2>1, <2>2, <2>4 DEF CheckLatest, ReadPrevious, BuildSnapshot
  <2>5. ASSUME NEW i \in Ids, IdStep(i) PROVE [Mutex!Next]_lock
    BY <2>1, <2>2, <2>5 DEF IdStep, InsertSnapshot, SetCurrent
  <2>6. CASE ExpireLock
    BY <2>6 DEF ExpireLock
  <2>7. CASE Restart
    <3>1. lock \in MarketRuns \cup {Nobody, Abandoned}
      BY <1>2 DEF IInv, TypeOK
    <3>2. QED
      BY <2>7, <3>1 DEF Restart, Mutex!Abandon
  <2>8. CASE UNCHANGED lock
    BY <2>8
  <2>9. QED
    BY <1>2, <2>3, <2>4, <2>5, <2>6, <2>7, <2>8
       DEF Next, RunStep, Promote, Start, StartDelete, DeleteSnapshots, DeleteIdea,
           MongoFails, vars
<1>3. IInv => LockHeld
  BY DEF IInv
<1>4. QED
  BY <1>1, <1>2, <1>3, Invariant, PTL DEF Spec, Mutex!Spec

-----------------------------------------------------------------------------
LEMMA GoneStep ==
  ASSUME TypeOK, Gone, [Next]_vars
  PROVE  Gone'
<1> USE DEF TypeOK, Gone, ideaVars, snapshotVars
<1>1. /\ \A s \in stored : FALSE
      /\ \A r \in Runs : NothingToDo(r)
      /\ Initial \in Ids
  BY DEF NothingToDo
<1>2. ASSUME NEW i \in Ids, Leave(i), pc[i] # "idle", UNCHANGED <<ideaVars, stored>>
      PROVE  Gone'
  <2>1. PICK l \in {"release", "done"} : pc' = [pc EXCEPT ![i] = l]
    BY <1>2, LeaveStep DEF LeavesAt
  <2>2. QED
    BY <1>1, <1>2, <2>1
<1>3. ASSUME NEW r \in Runs, Start(r) \/ BuildSnapshot(r) PROVE FALSE
  BY <1>3 DEF Start, BuildSnapshot
<1>4. ASSUME NEW i \in Ids, InsertSnapshot(i) PROVE FALSE
  BY <1>4 DEF InsertSnapshot
<1>5. ASSUME NEW r \in MarketRuns, Acquire(r) PROVE Gone'
  <2>1. pc' = [pc EXCEPT ![r] = "done"] /\ UNCHANGED <<ideaVars, stored>>
    BY <1>5 DEF Acquire, Goto
  <2>2. QED
    BY <1>1, <2>1
<1>6. ASSUME NEW r \in MarketRuns, Release(r) PROVE Gone'
  BY <1>1, <1>6 DEF Release, Goto
<1>7. ASSUME NEW r \in Runs, CheckLatest(r) \/ ReadPrevious(r) PROVE Gone'
  BY <1>1, <1>2, <1>7 DEF CheckLatest, ReadPrevious
<1>8. ASSUME NEW i \in Ids, SetCurrent(i) PROVE Gone'
  BY <1>2, <1>8 DEF SetCurrent
<1>9. CASE StartDelete \/ DeleteSnapshots \/ DeleteIdea
  BY <1>9 DEF StartDelete, DeleteSnapshots, DeleteIdea
<1>10. CASE MongoFails \/ ExpireLock \/ Restart
  BY <1>1, <1>10 DEF MongoFails, ExpireLock, Restart
<1>11. CASE UNCHANGED vars
  BY <1>11 DEF vars
<1>12. ~Promote
  BY DEF Promote
<1>13. QED
  BY <1>3, <1>4, <1>5, <1>6, <1>7, <1>8, <1>9, <1>10, <1>11, <1>12
     DEF Next, RunStep, IdStep

\* A deletion that took everything, with no run between its read and its insert,
\* is final: nothing that any run, failure or restart does brings a document back.
THEOREM DeletionIsFinalHolds == Spec => DeletionIsFinal
<1>1. TypeOK /\ [Next]_vars => [Gone => Gone']_vars
  BY GoneStep
<1>2. QED
  BY <1>1, TypeCorrect, PTL DEF Spec, DeletionIsFinal

-----------------------------------------------------------------------------
(***************************************************************************)
(* Under the lock alone (market runs only, and no deletion) the snapshots  *)
(* are a chain: each is built on the one before it, and the calls of       *)
(* record_snapshot are as one step.                                        *)
(***************************************************************************)
\* Every document has a stamp of its own, that of the promotion the oldest.
Dates ==
  /\ \A i \in Ids : ~Built(i) => doc[i].createdAt = 0
  /\ \A i \in Ids : pc[i] = "insert" \/ i \in stored => doc[i].createdAt > 0
  /\ \A r \in Runs : previous[r] # None => doc[previous[r]].createdAt > 0
  /\ \A i, j \in Ids : doc[i].createdAt > 0 /\ doc[i].createdAt = doc[j].createdAt
       => i = j
  /\ \A r \in Runs : doc[r].createdAt > 0 =>
       doc[Initial].createdAt > 0 /\ doc[Initial].createdAt < doc[r].createdAt

LEMMA DatesStep ==
  ASSUME IInv, Dates, [Next]_vars
  PROVE  Dates'
<1>1. /\ TypeOK /\ TypeOK' /\ OnlyBuiltIsShared /\ Stamps
      /\ \A i \in Ids : doc[i].createdAt \in Nat /\ doc'[i].createdAt \in Nat
                        /\ doc[i].createdAt <= clock
  <2>1. TypeOK /\ OnlyBuiltIsShared /\ Stamps
    BY DEF IInv
  <2>2. TypeOK'
    BY <2>1, TypeStep
  <2>3. QED
    BY <2>1, <2>2 DEF TypeOK, Document, Stamps
<1>2. CASE Quiet
  BY <1>1, <1>2 DEF Dates, Quiet, snapshotVars, TypeOK
<1>3. ASSUME NEW r \in Runs, NEW s \in stored, ReadsLatest(r, s) PROVE Dates'
  <2>1. UNCHANGED <<doc, stored>> /\ \A i \in Ids : ~Built(i)' => ~Built(i)
    BY <1>1, <1>3 DEF ReadsLatest, Built, TypeOK
  <2>2. \A i \in Ids : pc'[i] = "insert" => pc[i] = "insert"
    BY <1>1, <1>3 DEF ReadsLatest, TypeOK
  <2>3. \A q \in Runs : previous'[q] # None => doc'[previous'[q]].createdAt > 0
    BY <1>1, <1>3, <2>1 DEF ReadsLatest, Dates, TypeOK
  <2>4. QED
    BY <2>1, <2>2, <2>3 DEF Dates
<1>4. ASSUME NEW r \in Runs, NEW l \in {"insert", "release", "done"},
             NEW updated \in SUBSET DimsOf(r), Builds(r, l, updated)
      PROVE  Dates'
  <2>1. /\ doc'[r].createdAt = clock + 1 /\ doc[r].createdAt = 0 /\ clock \in Nat
        /\ \A i \in Ids \ {r} : doc'[i] = doc[i] /\ pc'[i] = pc[i]
        /\ pc'[r] = l
    BY <1>1, <1>4 DEF Builds, Dates, Built, TypeOK
  <2>2. r \notin stored /\ Initial # r /\ Initial \in Ids
    BY <1>1, <1>4 DEF Builds, OnlyBuiltIsShared, Built
  <2>3. previous[r] \in Ids /\ doc[previous[r]].createdAt > 0
    BY <1>1, <1>4 DEF Builds, OnlyBuiltIsShared, Dates, TypeOK
  <2>4. doc[Initial].createdAt > 0
    BY <2>3 DEF Dates
  <2>5. UNCHANGED <<stored, previous>>
    BY <1>4 DEF Builds
  <2>6. \A i \in Ids : /\ ~Built(i)' => doc'[i].createdAt = 0
                       /\ pc'[i] = "insert" \/ i \in stored' => doc'[i].createdAt > 0
    BY <2>1, <2>2, <2>5 DEF Dates, Built
  <2>7. \A q \in Runs : previous'[q] # None => doc'[previous'[q]].createdAt > 0
    BY <1>1, <2>1, <2>5 DEF Dates, TypeOK
  <2>8. \A i, j \in Ids :
          doc'[i].createdAt > 0 /\ doc'[i].createdAt = doc'[j].createdAt => i = j
    BY <1>1, <2>1 DEF Dates
  <2>9. \A q \in Runs : doc'[q].createdAt > 0 =>
          doc'[Initial].createdAt > 0 /\ doc'[Initial].createdAt < doc'[q].createdAt
    BY <1>1, <2>1, <2>2, <2>4 DEF Dates
  <2>10. QED
    BY <2>6, <2>7, <2>8, <2>9 DEF Dates
<1>5. ASSUME NEW i \in Ids, NEW l \in {"setCurrent", "release", "done"},
             Inserts(i, l)
      PROVE  Dates'
  BY <1>1, <1>5 DEF Dates, Inserts, Built, TypeOK
<1>6. ASSUME NEW b \in BOOLEAN, Promotes(b) PROVE Dates'
  <2>1. /\ doc'[Initial].createdAt = clock + 1 /\ clock \in Nat
        /\ doc[Initial].createdAt = 0 /\ pc'[Initial] = "insert"
        /\ \A i \in Ids \ {Initial} : doc'[i] = doc[i] /\ pc'[i] = pc[i]
    BY <1>1, <1>6 DEF Promotes, FirstSnapshot, Dates, Built, TypeOK
  <2>2. \A r \in Runs : r # Initial /\ doc[r].createdAt = 0
    BY <1>1, <2>1 DEF Dates
  <2>3. UNCHANGED <<stored, previous>>
    BY <1>6 DEF Promotes
  <2>4. \A i \in Ids : /\ ~Built(i)' => doc'[i].createdAt = 0
                       /\ pc'[i] = "insert" \/ i \in stored' => doc'[i].createdAt > 0
    BY <2>1, <2>3 DEF Dates, Built
  <2>5. \A q \in Runs : previous'[q] # None => doc'[previous'[q]].createdAt > 0
    BY <1>1, <2>1, <2>3 DEF Dates, TypeOK
  <2>6. \A i, j \in Ids :
          doc'[i].createdAt > 0 /\ doc'[i].createdAt = doc'[j].createdAt => i = j
    BY <1>1, <2>1, <2>2 DEF Dates
  <2>7. \A q \in Runs : doc'[q].createdAt = 0
    BY <2>1, <2>2
  <2>8. QED
    BY <2>4, <2>5, <2>6, <2>7 DEF Dates
<1>7. CASE Deletes
  BY <1>1, <1>7 DEF Dates, Deletes, Built, TypeOK
<1>8. QED
  BY <1>2, <1>3, <1>4, <1>5, <1>6, <1>7, StepKinds

LEMMA DatesInit == Init => Dates
<1>1. Init => \A i \in Ids : doc[i].createdAt = 0 /\ ~Built(i)
  BY DEF Init, NoDocument, FirstSnapshot, Built
<1>2. QED
  BY <1>1 DEF Init, Dates

\* Every re-run is a market run, and nothing is deleted.
MarketOnly == EvidenceRuns = {} /\ RescoreRuns = {} /\ FounderMayDelete = FALSE

\* The snapshots start with the promoted one, one of them is the latest, and
\* what a run is about to insert is merged into its predecessor.
Chain ==
  /\ deletePc = "never"
  /\ doc[Initial].scores = [d \in Dims |-> Initial]
  /\ pc[Initial] = "insert" => stored = {}
  /\ stored # {} => Initial \in stored /\ \E s \in stored : IsLatest(s)
  /\ \A r \in Runs : pc[r] = "insert" =>
       \E updated \in SUBSET DimsOf(r) :
         doc[r].scores = Merge(doc[doc[r].previous].scores, updated, r)

\* What a run inserts is newer than the latest snapshot, and built on it.
LEMMA InsertIsNext ==
  ASSUME MarketOnly, IInv, Dates, Chain, NEW r \in Runs, pc[r] = "insert"
  PROVE  /\ doc[r].previous \in stored /\ IsLatest(doc[r].previous)
         /\ \A s \in stored : doc[s].createdAt < doc[r].createdAt
         /\ r \notin stored
<1>1. /\ doc[r].previous \in stored
      /\ doc[doc[r].previous].createdAt < doc[r].createdAt
  BY DocFields DEF IInv, Stamps, NothingLost, Chain
<1>2. \A s \in stored : s \in Ids /\ doc[s].createdAt \in Nat
  BY DocFields DEF IInv, TypeOK
<1>3. doc[r].createdAt \in Nat
  BY DocFields DEF IInv
<1>4. ASSUME NEW s \in stored
      PROVE  /\ doc[s].createdAt <= doc[doc[r].previous].createdAt
             /\ doc[s].createdAt < doc[r].createdAt
  <2>1. CASE s \in MarketRuns
    BY <2>1 DEF IInv, NoneSince, MarketOnly
  <2>2. CASE s = Initial
    <3>1. doc[r].previous = Initial \/ doc[Initial].createdAt < doc[doc[r].previous].createdAt
      BY <1>1, <1>2 DEF Dates
    <3>2. QED
      BY <1>1, <1>2, <1>3, <2>2, <3>1
  <2>3. QED
    BY <1>2, <2>1, <2>2 DEF MarketOnly
<1>5. QED
  BY <1>1, <1>2, <1>3, <1>4 DEF IsLatest

LEMMA NeverDeleted ==
  ASSUME MarketOnly, deletePc = "never", [Next]_vars
  PROVE  deletePc' = "never"
BY DEF MarketOnly, Next, RunStep, IdStep, Promote, Start, Acquire, CheckLatest,
       ReadPrevious, BuildSnapshot, InsertSnapshot, SetCurrent, Release,
       StartDelete, DeleteSnapshots, DeleteIdea, MongoFails, ExpireLock,
       Restart, vars, snapshotVars, ideaVars

LEMMA ChainStep ==
  ASSUME MarketOnly, IInv, Dates, Chain, [Next]_vars
  PROVE  Chain'
<1>1. /\ TypeOK /\ OnlyBuiltIsShared
      /\ Initial \in Ids /\ \A r \in Runs : r \in Ids /\ r # Initial
  BY DEF IInv
<1>2. deletePc' = "never"
  BY NeverDeleted DEF Chain
<1>3. CASE Quiet
  <2>1. /\ UNCHANGED <<stored, doc>>
        /\ \A i \in Ids : pc'[i] = "insert" => pc[i] = "insert"
    BY <1>3 DEF Quiet, snapshotVars
  <2>2. QED
    BY <1>1, <1>2, <2>1 DEF Chain, IsLatest
<1>4. ASSUME NEW r \in Runs, NEW s \in stored, ReadsLatest(r, s) PROVE Chain'
  <2>1. /\ UNCHANGED <<stored, doc>>
        /\ \A i \in Ids : pc'[i] = "insert" => pc[i] = "insert"
    BY <1>1, <1>4 DEF ReadsLatest, TypeOK
  <2>2. QED
    BY <1>1, <1>2, <2>1 DEF Chain, IsLatest
<1>5. ASSUME NEW r \in Runs, NEW l \in {"insert", "release", "done"},
             NEW updated \in SUBSET DimsOf(r), Builds(r, l, updated)
      PROVE  Chain'
  <2>1. /\ previous[r] \in Ids /\ Built(previous[r]) /\ r # previous[r] /\ r \notin stored
    BY <1>1, <1>5 DEF Builds, OnlyBuiltIsShared, Built, TypeOK
  <2>2. /\ doc'[r].previous = previous[r]
        /\ doc'[r].scores = Merge(doc[previous[r]].scores, updated, r)
        /\ \A i \in Ids \ {r} : doc'[i] = doc[i] /\ pc'[i] = pc[i]
        /\ UNCHANGED stored
    BY <1>1, <1>5 DEF Builds, TypeOK
  <2>3. \A s \in stored : s \in Ids /\ doc'[s] = doc[s]
    BY <1>1, <2>1, <2>2 DEF TypeOK
  <2>4. \A q \in Runs \ {r} : pc[q] = "insert" =>
          doc[q].previous \in Ids /\ doc[q].previous # r
    <3>1. \A q \in Runs : pc[q] = "insert" => doc[q].previous # None
      BY DEF IInv, Stamps
    <3>2. ~Built(r)
      BY <1>5 DEF Builds, Built
    <3>3. QED
      BY <1>1, <3>1, <3>2, DocFields DEF OnlyBuiltIsShared
  <2>5. \A q \in Runs : pc'[q] = "insert" =>
          \E u \in SUBSET DimsOf(q) :
            doc'[q].scores = Merge(doc'[doc'[q].previous].scores, u, q)
    <3>1. ASSUME NEW q \in Runs, q # r, pc'[q] = "insert"
          PROVE  \E u \in SUBSET DimsOf(q) :
                   doc'[q].scores = Merge(doc'[doc'[q].previous].scores, u, q)
      <4>1. pc[q] = "insert" /\ doc'[q] = doc[q]
        BY <1>1, <2>2, <3>1
      <4>2. doc'[doc'[q].previous] = doc[doc[q].previous]
        BY <2>2, <2>4, <3>1, <4>1
      <4>3. QED
        BY <4>1, <4>2 DEF Chain
    <3>2. doc'[r].scores = Merge(doc'[doc'[r].previous].scores, updated, r)
      BY <2>1, <2>2
    <3>3. QED
      BY <3>1, <3>2
  <2>6. (pc'[Initial] = "insert" => stored' = {}) /\ doc'[Initial] = doc[Initial]
    BY <1>1, <2>2 DEF Chain
  <2>7. ASSUME stored' # {}
        PROVE  Initial \in stored' /\ \E s \in stored' : IsLatest(s)'
    <3>1. PICK s \in stored : IsLatest(s)
      BY <2>2, <2>7 DEF Chain
    <3>2. IsLatest(s)'
      BY <2>2, <2>3, <3>1 DEF IsLatest
    <3>3. QED
      BY <2>2, <2>7, <3>2 DEF Chain
  <2>8. QED
    BY <1>2, <2>5, <2>6, <2>7 DEF Chain
<1>6. ASSUME NEW i \in Ids, NEW l \in {"setCurrent", "release", "done"},
             Inserts(i, l)
      PROVE  Chain'
  <2>1. /\ UNCHANGED doc /\ pc[i] = "insert" /\ stored' \in {stored, stored \cup {i}}
        /\ \A j \in Ids : pc'[j] = "insert" => pc[j] = "insert" /\ j # i
    BY <1>1, <1>6 DEF Inserts, TypeOK
  <2>2. \A j \in Ids : doc[j].createdAt \in Nat
    BY <1>1, DocFields
  <2>3. ASSUME stored' # {}
        PROVE  Initial \in stored' /\ \E s \in stored' : IsLatest(s)'
    <3>1. CASE stored' = stored
      BY <2>1, <2>3, <3>1 DEF Chain, IsLatest
    <3>2. CASE i = Initial /\ stored' = stored \cup {i}
      <4>1. stored' = {Initial}
        BY <2>1, <3>2 DEF Chain
      <4>2. QED
        BY <1>1, <2>1, <2>2, <4>1 DEF IsLatest
    <3>3. CASE i \in Runs /\ stored' = stored \cup {i}
      <4>1. /\ stored # {} /\ \A s \in stored : doc[s].createdAt < doc[i].createdAt
        BY <2>1, <3>3, InsertIsNext
      <4>2. IsLatest(i)'
        BY <1>1, <2>1, <2>2, <3>3, <4>1 DEF IsLatest, TypeOK
      <4>3. QED
        BY <3>3, <4>1, <4>2 DEF Chain
    <3>4. QED
      BY <2>1, <3>1, <3>2, <3>3
  <2>4. ASSUME pc'[Initial] = "insert" PROVE stored' = {}
    <3>1. stored = {} /\ i \in Runs
      BY <1>1, <2>1, <2>4 DEF Chain
    <3>2. QED
      BY <2>1, <3>1, InsertIsNext
  <2>5. QED
    BY <1>1, <1>2, <2>1, <2>3, <2>4 DEF Chain
<1>7. ASSUME NEW b \in BOOLEAN, Promotes(b) PROVE Chain'
  <2>1. /\ doc'[Initial].scores = [d \in Dims |-> Initial]
        /\ \A i \in Ids \ {Initial} : doc'[i] = doc[i] /\ pc'[i] = pc[i]
        /\ UNCHANGED stored
    BY <1>1, <1>7 DEF Promotes, FirstSnapshot, TypeOK
  <2>2. stored = {}
    BY <1>1, <1>7 DEF Promotes, OnlyBuiltIsShared, Built, Chain
  <2>3. \A q \in Runs : pc[q] # "insert"
    BY <2>2, InsertIsNext
  <2>4. QED
    BY <1>1, <1>2, <2>1, <2>2, <2>3 DEF Chain
<1>8. CASE Deletes
  BY <1>2, <1>8 DEF Deletes
<1>9. QED
  BY <1>3, <1>4, <1>5, <1>6, <1>7, <1>8, StepKinds

LEMMA ChainInit == Init => Chain
<1>1. Init => doc[Initial] = NoDocument
  BY DEF Init
<1>2. QED
  BY <1>1 DEF Init, Chain, NoDocument, FirstSnapshot

\* "Every other dimension is carried forward": with market runs alone each
\* snapshot is built on the one before it, for any number of runs and whatever
\* becomes of MongoDB and the process (record_snapshot under _run_locked).
THEOREM CarriedForwardHolds == MarketOnly => (Spec => []CarriedForward)
<1> SUFFICES ASSUME MarketOnly
             PROVE  Spec => []CarriedForward
  OBVIOUS
<1>1. Init => IInv /\ Dates /\ Chain
  BY InvariantInit, DatesInit, ChainInit
<1>2. IInv /\ Dates /\ Chain /\ [Next]_vars => IInv' /\ Dates' /\ Chain'
  BY InvariantStep, DatesStep, ChainStep
<1>3. ASSUME IInv, Dates, Chain
      PROVE  CarriedForward
  <2> SUFFICES ASSUME NEW s \in stored, NEW t \in stored, Precedes(s, t),
                      \A u \in stored : ~(Precedes(s, u) /\ Precedes(u, t))
               PROVE  doc[t].previous = s
    BY DEF CarriedForward
  <2>1. \A u \in stored : u \in Ids /\ doc[u].createdAt \in Nat /\ doc[u].createdAt > 0
    BY <1>3, DocFields DEF IInv, TypeOK, Dates
  <2>2. \A u \in stored : u = Initial \/ doc[Initial].createdAt < doc[u].createdAt
    BY <1>3, <2>1 DEF Dates
  <2>3. doc[s].createdAt < doc[t].createdAt
    BY DEF Precedes
  <2>4. Initial \in stored
    BY <1>3 DEF Chain
  <2>5. t \in MarketRuns
    BY <2>1, <2>2, <2>3, <2>4 DEF MarketOnly
  <2> DEFINE p == doc[t].previous
  <2>6. p \in stored /\ doc[p].createdAt < doc[t].createdAt
    BY <1>3, <2>5, DocFields DEF IInv, Stamps, NothingLost, Chain
  <2>7. doc[s].createdAt <= doc[p].createdAt
    <3>1. CASE s \in MarketRuns
      BY <1>3, <2>3, <2>5, <3>1 DEF IInv, MarketRunsAreSerial
    <3>2. CASE s = Initial
      BY <2>1, <2>2, <2>6, <3>2
    <3>3. QED
      BY <2>1, <3>1, <3>2 DEF MarketOnly
  <2>8. doc[s].createdAt = doc[p].createdAt
    <3>1. ~(doc[s].createdAt < doc[p].createdAt)
      BY <2>6 DEF Precedes
    <3>2. QED
      BY <2>1, <2>6, <2>7, <3>1
  <2>9. QED
    BY <1>3, <2>1, <2>6, <2>8 DEF Dates
<1>4. QED
  BY <1>1, <1>2, <1>3, PTL DEF Spec

\* Under the lock nothing is inserted between a run's insert and its pointer write.
PointsAtLatest == \A r \in Runs : pc[r] = "setCurrent" => IsLatest(r)

LEMMA PointsAtLatestStep ==
  ASSUME MarketOnly, IInv, Dates, Chain, PointsAtLatest, [Next]_vars
  PROVE  PointsAtLatest'
<1>1. /\ TypeOK /\ OnlyBuiltIsShared /\ LockHeld
      /\ Initial \in Ids /\ \A r \in Runs : r \in MarketRuns /\ r \in Ids /\ r # Initial
  BY DEF IInv, MarketOnly
<1>2. ASSUME UNCHANGED <<stored, doc>>,
             \A r \in Runs : pc'[r] = "setCurrent" => pc[r] = "setCurrent"
      PROVE  PointsAtLatest'
  BY <1>2 DEF PointsAtLatest, IsLatest
<1>3. CASE Quiet
  BY <1>1, <1>2, <1>3 DEF Quiet, snapshotVars
<1>4. ASSUME NEW r \in Runs, NEW s \in stored, ReadsLatest(r, s)
      PROVE  PointsAtLatest'
  BY <1>1, <1>2, <1>4 DEF ReadsLatest, TypeOK
<1>5. ASSUME NEW r \in Runs, NEW l \in {"insert", "release", "done"},
             NEW updated \in SUBSET DimsOf(r), Builds(r, l, updated)
      PROVE  PointsAtLatest'
  <2>1. r \notin stored
    BY <1>1, <1>5 DEF Builds, OnlyBuiltIsShared, Built
  <2>2. stored' = stored /\ \A i \in Ids \ {r} : doc'[i] = doc[i]
    BY <1>1, <1>5 DEF Builds, TypeOK
  <2>3. \A s \in stored : doc'[s] = doc[s]
    BY <1>1, <2>1, <2>2 DEF TypeOK
  <2>4. \A q \in Runs : pc'[q] = "setCurrent" => pc[q] = "setCurrent"
    BY <1>1, <1>5 DEF Builds, TypeOK
  <2>5. QED
    BY <2>2, <2>3, <2>4 DEF PointsAtLatest, IsLatest
<1>6. ASSUME NEW i \in Ids, NEW l \in {"setCurrent", "release", "done"},
             Inserts(i, l)
      PROVE  PointsAtLatest'
  <2> SUFFICES ASSUME NEW r \in Runs, pc'[r] = "setCurrent"
               PROVE  IsLatest(r)'
    BY DEF PointsAtLatest
  <2>1. /\ UNCHANGED doc /\ pc[i] = "insert" /\ stored' \in {stored, stored \cup {i}}
        /\ \A j \in Ids \ {i} : pc'[j] = pc[j]
    BY <1>1, <1>6 DEF Inserts, TypeOK
  <2>2. CASE r = i
    <3>1. /\ \A s \in stored : doc[s].createdAt < doc[r].createdAt
          /\ doc[r].createdAt \in Nat /\ \A s \in stored : doc[s].createdAt \in Nat
      BY <1>1, <2>1, <2>2, InsertIsNext, DocFields DEF TypeOK
    <3>2. r \in stored'
      BY <1>1, <1>6, <2>2 DEF Inserts, TypeOK
    <3>3. QED
      BY <2>1, <2>2, <3>1, <3>2 DEF IsLatest
  <2>3. CASE r # i
    <3>1. pc[r] = "setCurrent" /\ IsLatest(r)
      BY <1>1, <2>1, <2>3 DEF PointsAtLatest
    <3>2. i \notin Runs
      BY <1>1, <2>1, <2>3, <3>1 DEF LockHeld, Critical
    <3>3. stored = {}
      BY <1>1, <2>1, <3>2 DEF Chain
    <3>4. QED
      BY <3>1, <3>3 DEF IsLatest
  <2>4. QED
    BY <2>2, <2>3
<1>7. ASSUME NEW b \in BOOLEAN, Promotes(b) PROVE PointsAtLatest'
  <2>1. stored = {}
    BY <1>1, <1>7 DEF Promotes, OnlyBuiltIsShared, Built, Chain
  <2>2. \A r \in Runs : pc[r] # "setCurrent"
    BY <2>1 DEF PointsAtLatest, IsLatest
  <2>3. QED
    BY <1>1, <1>7, <2>2 DEF Promotes, TypeOK, PointsAtLatest
<1>8. CASE Deletes
  BY <1>8, NeverDeleted DEF Deletes, Chain
<1>9. QED
  BY <1>3, <1>4, <1>5, <1>6, <1>7, <1>8, StepKinds

\* A stored document is never written again.
LEMMA StoredStays ==
  ASSUME IInv, [Next]_vars, NEW s \in stored
  PROVE  doc'[s] = doc[s]
<1>1. TypeOK /\ Built(s) /\ s \in Ids
  BY DEF IInv, TypeOK, OnlyBuiltIsShared
<1>2. CASE Quiet \/ Deletes \/ \E r \in Runs, t \in stored : ReadsLatest(r, t)
  BY <1>2 DEF Quiet, Deletes, ReadsLatest, snapshotVars
<1>3. ASSUME NEW r \in Runs, NEW l \in {"insert", "release", "done"},
             NEW updated \in SUBSET DimsOf(r), Builds(r, l, updated)
      PROVE  doc'[s] = doc[s]
  BY <1>1, <1>3 DEF Builds, Built, TypeOK
<1>4. CASE \E i \in Ids, l \in {"setCurrent", "release", "done"} : Inserts(i, l)
  BY <1>4 DEF Inserts
<1>5. ASSUME NEW b \in BOOLEAN, Promotes(b) PROVE doc'[s] = doc[s]
  BY <1>1, <1>5 DEF Promotes, Built, TypeOK
<1>6. QED
  BY <1>2, <1>3, <1>4, <1>5, StepKinds

\* "current_snapshot_id is only ever advanced": with market runs alone no re-run
\* moves the pointer back to an older snapshot (set_current_snapshot, which
\* compares nothing, under _run_locked).
THEOREM PointerOnlyAdvancesHolds == MarketOnly => (Spec => PointerOnlyAdvances)
<1> SUFFICES ASSUME MarketOnly
             PROVE  Spec => PointerOnlyAdvances
  OBVIOUS
<1>1. Init => IInv /\ Dates /\ Chain /\ PointsAtLatest
  BY InvariantInit, DatesInit, ChainInit DEF Init, PointsAtLatest
<1>2. IInv /\ Dates /\ Chain /\ PointsAtLatest /\ [Next]_vars
        => IInv' /\ Dates' /\ Chain' /\ PointsAtLatest'
  BY InvariantStep, DatesStep, ChainStep, PointsAtLatestStep
<1>3. IInv /\ Dates /\ Chain /\ PointsAtLatest /\ [Next]_vars =>
        [current # None /\ current' \in Runs =>
           doc[current].createdAt =< doc'[current'].createdAt]_vars
  <2> SUFFICES ASSUME IInv, Dates, Chain, PointsAtLatest, Next,
                      current # None, current' \in Runs
               PROVE  doc[current].createdAt =< doc'[current'].createdAt
    OBVIOUS
  <2>1. current \in stored /\ doc[current].createdAt \in Nat
    BY DocFields DEF IInv, TypeOK, Chain, PointerNamesWrittenSnapshot
  <2>2. current' # None
    BY DEF IInv
  <2>3. current' = current \/ \E i \in Ids : pc[i] = "setCurrent" /\ current' = i
    BY <2>2 DEF ideaVars, snapshotVars, Next, RunStep, IdStep, Promote, Start,
         Acquire, CheckLatest, ReadPrevious, BuildSnapshot, InsertSnapshot,
         SetCurrent, Release, StartDelete, DeleteSnapshots, DeleteIdea,
         MongoFails, ExpireLock, Restart
  <2>4. CASE current' = current
    BY <2>1, <2>4, StoredStays
  <2>5. CASE \E i \in Ids : pc[i] = "setCurrent" /\ current' = i
    <3>1. IsLatest(current')
      BY <2>5 DEF PointsAtLatest
    <3>2. current' \in stored /\ doc[current].createdAt =< doc[current'].createdAt
      BY <2>1, <3>1 DEF IsLatest
    <3>3. doc'[current'] = doc[current']
      BY <3>2, StoredStays
    <3>4. QED
      BY <3>2, <3>3
  <2>6. QED
    BY <2>3, <2>4, <2>5
<1>4. QED
  BY <1>1, <1>2, <1>3, PTL DEF Spec, PointerOnlyAdvances

-----------------------------------------------------------------------------
\* The refinement: the abstract score is the latest snapshot's.
Newest(S, D, s) == s \in S /\ \A t \in S : D[t].createdAt =< D[s].createdAt

LEMMA OneNewest ==
  ASSUME NEW S, NEW D,
         \A i \in S : D[i].createdAt \in Nat,
         \A i, j \in S : D[i].createdAt = D[j].createdAt => i = j,
         NEW s, Newest(S, D, s)
  PROVE  S # {} /\ (CHOOSE t \in S : Newest(S, D, t)) = s
<1>1. s \in S
  BY DEF Newest
<1>2. ASSUME NEW t \in S, Newest(S, D, t) PROVE t = s
  BY <1>1, <1>2 DEF Newest
<1>3. QED
  BY <1>1, <1>2

LEMMA CurrentIsLatest ==
  ASSUME IInv, Dates, NEW s, IsLatest(s)
  PROVE  CurrentScores = doc[s].scores
<1>1. /\ \A i \in stored : doc[i].createdAt \in Nat
      /\ \A i, j \in stored : doc[i].createdAt = doc[j].createdAt => i = j
      /\ Newest(stored, doc, s)
  BY DocFields DEF IInv, TypeOK, Dates, IsLatest, Newest
<1>2. stored # {} /\ (CHOOSE t \in stored : Newest(stored, doc, t)) = s
  BY <1>1, OneNewest
<1>3. QED
  BY <1>2 DEF CurrentScores, IsLatest, Newest

LEMMA CurrentIsLatestNext ==
  ASSUME IInv', Dates', NEW s, IsLatest(s)'
  PROVE  CurrentScores' = doc'[s].scores
<1>1. /\ \A i \in stored' : doc'[i].createdAt \in Nat
      /\ \A i, j \in stored' : doc'[i].createdAt = doc'[j].createdAt => i = j
      /\ Newest(stored', doc', s)
  BY DEF IInv, TypeOK, Dates, IsLatest, Newest, Document
<1>2. stored' # {} /\ (CHOOSE t \in stored' : Newest(stored', doc', t)) = s
  BY <1>1, OneNewest
<1>3. QED
  BY <1>2 DEF CurrentScores, IsLatest, Newest

LEMMA SameStoredSameScores ==
  ASSUME IInv, IInv', Dates, Dates', Chain,
         stored' = stored, \A s \in stored : doc'[s] = doc[s]
  PROVE  CurrentScores' = CurrentScores
<1>1. CASE stored = {}
  BY <1>1 DEF CurrentScores
<1>2. CASE stored # {}
  <2>1. PICK s \in stored : IsLatest(s)
    BY <1>2 DEF Chain
  <2>2. IsLatest(s)'
    BY <2>1 DEF IsLatest
  <2>3. QED
    BY <2>1, <2>2, CurrentIsLatest, CurrentIsLatestNext
<1>3. QED
  BY <1>1, <1>2

LEMMA RescoreStep ==
  ASSUME MarketOnly, IInv, IInv', Dates, Dates', Chain, Chain', [Next]_vars
  PROVE  Rescore!Next \/ UNCHANGED <<stored, CurrentScores>>
<1>1. /\ TypeOK /\ OnlyBuiltIsShared
      /\ Initial \in Ids /\ \A r \in Runs : r \in Ids /\ r # Initial
  BY DEF IInv
<1>2. CASE Quiet
  BY <1>2, SameStoredSameScores DEF Quiet, snapshotVars
<1>3. ASSUME NEW r \in Runs, NEW s \in stored, ReadsLatest(r, s)
      PROVE  UNCHANGED <<stored, CurrentScores>>
  BY <1>3, SameStoredSameScores DEF ReadsLatest
<1>4. ASSUME NEW r \in Runs, NEW l \in {"insert", "release", "done"},
             NEW updated \in SUBSET DimsOf(r), Builds(r, l, updated)
      PROVE  UNCHANGED <<stored, CurrentScores>>
  <2>1. stored' = stored /\ \A s \in stored : doc'[s] = doc[s]
    BY <1>1, <1>4 DEF Builds, OnlyBuiltIsShared, Built, TypeOK
  <2>2. QED
    BY <2>1, SameStoredSameScores
<1>5. ASSUME NEW i \in Ids, NEW l \in {"setCurrent", "release", "done"},
             Inserts(i, l)
      PROVE  Rescore!Next \/ UNCHANGED <<stored, CurrentScores>>
  <2>1. doc' = doc /\ pc[i] = "insert"
    BY <1>5 DEF Inserts
  <2>2. CASE stored' = stored
    BY <2>1, <2>2, SameStoredSameScores
  <2>3. CASE i = Initial /\ stored' = stored \cup {i}
    <3>1. stored = {} /\ stored' = {Initial}
      BY <2>1, <2>3 DEF Chain
    <3>2. IsLatest(Initial)'
      BY <1>1, <2>1, <3>1, DocFields DEF IsLatest
    <3>3. CurrentScores' = doc'[Initial].scores
      BY <3>2, CurrentIsLatestNext
    <3>4. CurrentScores' = CurrentScores
      BY <2>1, <3>1, <3>3 DEF Chain, CurrentScores
    <3>5. QED
      BY <3>1, <3>4 DEF Rescore!Next, Rescore!Promote
  <2>4. CASE i \in Runs /\ stored' = stored \cup {i}
    <3> DEFINE p == doc[i].previous
    <3>1. /\ p \in stored /\ IsLatest(p) /\ i \notin stored
          /\ \A s \in stored : doc[s].createdAt < doc[i].createdAt
      BY <2>1, <2>4, InsertIsNext
    <3>2. \A j \in Ids : doc[j].createdAt \in Nat
      BY <1>1, DocFields
    <3>3. IsLatest(i)'
      BY <1>1, <2>1, <2>4, <3>1, <3>2 DEF IsLatest, TypeOK
    <3>4. CurrentScores' = doc[i].scores /\ CurrentScores = doc[p].scores
      BY <2>1, <3>1, <3>3, CurrentIsLatest, CurrentIsLatestNext
    <3>5. PICK updated \in SUBSET DimsOf(i) : doc[i].scores = Merge(doc[p].scores, updated, i)
      BY <2>1, <2>4 DEF Chain
    <3>6. CurrentScores' = [d \in Dims |-> IF d \in updated THEN i ELSE CurrentScores[d]]
      BY <3>4, <3>5 DEF Merge
    <3>7. Initial \in stored
      BY <3>1 DEF Chain
    <3> HIDE DEF p
    <3>8. Rescore!Record(i)
      BY <2>4, <3>1, <3>5, <3>6, <3>7 DEF Rescore!Record
    <3>9. QED
      BY <2>4, <3>8 DEF Rescore!Next
  <2>5. QED
    BY <1>5, <2>2, <2>3, <2>4 DEF Inserts
<1>6. ASSUME NEW b \in BOOLEAN, Promotes(b)
      PROVE  UNCHANGED <<stored, CurrentScores>>
  <2>1. stored' = stored /\ \A s \in stored : doc'[s] = doc[s]
    BY <1>1, <1>6 DEF Promotes, OnlyBuiltIsShared, Built, TypeOK
  <2>2. QED
    BY <2>1, SameStoredSameScores
<1>7. ~Deletes
  BY DEF Deletes, Chain
<1>8. QED
  BY <1>2, <1>3, <1>4, <1>5, <1>6, <1>7, StepKinds

\* With market runs alone, the steps of record_snapshot (read the latest, merge,
\* insert) look like one step to whoever reads the score: the model implements
\* AtomicRescore, for any number of runs and whatever fails (_run_locked).
THEOREM ImplementsAtomicRescoreHolds ==
  MarketOnly => (Spec => ImplementsAtomicRescore)
<1> SUFFICES ASSUME MarketOnly
             PROVE  Spec => ImplementsAtomicRescore
  OBVIOUS
<1>1. Init => Rescore!Init
  BY DEF Init, Rescore!Init, CurrentScores
<1>2. Init => IInv /\ Dates /\ Chain
  BY InvariantInit, DatesInit, ChainInit
<1>3. IInv /\ Dates /\ Chain /\ [Next]_vars => IInv' /\ Dates' /\ Chain'
  BY InvariantStep, DatesStep, ChainStep
<1>4. IInv /\ IInv' /\ Dates /\ Dates' /\ Chain /\ Chain' /\ [Next]_vars =>
        [Rescore!Next]_<<stored, CurrentScores>>
  BY RescoreStep
<1>5. QED
  BY <1>1, <1>2, <1>3, <1>4, PTL DEF Spec, ImplementsAtomicRescore, Rescore!Spec
=============================================================================
