---------------------------- MODULE ScoreHistory ----------------------------
(***************************************************************************)
(* One idea, its snapshots and everything that writes them: promotion,     *)
(* market-sensitive re-runs (scheduled and manual, under the scheduler     *)
(* lock), evidence re-runs and admin re-scores (under no lock), the delete *)
(* cascade (services/log_service.py, services/snapshot_worker.py,          *)
(* services/rescore_service.py and the two repositories they use).         *)
(*                                                                         *)
(* The event loop switches at every await, so each MongoDB call is a step  *)
(* of its own: the code between two awaits (flag check of the next call    *)
(* included) belongs to the step before.  A call may raise PyMongoError;   *)
(* then MongoDB is marked unavailable for the rest of the process, and a   *)
(* write may or may not have been applied.  The process may die and be     *)
(* restarted.  Ideas share no document, so one idea shows every conflict.  *)
(*                                                                         *)
(* A score is represented by its author, the run whose agent produced it.  *)
(* A run writes at most one snapshot, so the run also names the snapshot.  *)
(***************************************************************************)
EXTENDS Integers

CONSTANTS
  Initial,       \* promotion, the snapshot it writes, the scores it brings
  MarketRuns,    \* run_scheduled_snapshot and run_manual_snapshot
  EvidenceRuns,  \* run_evidence_snapshot
  RescoreRuns,   \* rescore_idea
  MarketDims,    \* ALWAYS_RERUN_DIMENSIONS
  EvidenceDims,  \* EVIDENCE_GATED_DIMENSIONS
  NeverDims,     \* NEVER_RERUN_DIMENSIONS
  None,          \* no snapshot
  Nobody, Abandoned,  \* the scheduler lock, see RunMutex
  MongoMayFail, ProcessMayDie, FounderMayDelete  \* BOOLEAN: what a run explores

Runs == MarketRuns \cup EvidenceRuns \cup RescoreRuns
Ids  == Runs \cup {Initial}
Dims == MarketDims \cup EvidenceDims \cup NeverDims

ASSUME IdsAssumption ==
  /\ Initial \notin Runs
  /\ None \notin Ids
  /\ {Nobody, Abandoned} \cap Ids = {}
  /\ Nobody # Abandoned
  /\ MarketRuns \cap (EvidenceRuns \cup RescoreRuns) = {}
  /\ EvidenceRuns \cap RescoreRuns = {}

ASSUME DimsAssumption ==
  /\ MarketDims \cap (EvidenceDims \cup NeverDims) = {}
  /\ EvidenceDims \cap NeverDims = {}

ASSUME FaultAssumption ==
  {MongoMayFail, ProcessMayDie, FounderMayDelete} \subseteq BOOLEAN

VARIABLES
  ideaExists,     \* the idea document is in `ideas`
  current,        \* ideas.current_snapshot_id
  lock,           \* ideas.scheduler_lock_until, as SchedulerLock implements it
  stored,         \* the documents in `snapshots`
  doc,            \* the SnapshotDocument each run built (createdAt = 0: none yet)
  previous,       \* record_snapshot's local `previous`
  clock,          \* the last created_at that was stamped
  pc,             \* where each run is
  deletePc,       \* where delete_idea_cascade is
  mongoAvailable  \* services.mongo._mongo_available

vars == <<ideaExists, current, lock, stored, doc, previous, clock, pc,
          deletePc, mongoAvailable>>
ideaVars == <<ideaExists, current>>
snapshotVars == <<stored, doc, previous, clock>>

Mutex == INSTANCE RunMutex WITH Runs <- MarketRuns, holder <- lock

Labels == {"idle", "acquire", "check", "read", "build", "insert",
           "setCurrent", "release", "done"}

Document == [createdAt : Nat, previous : Ids \cup {None},
             scores : [Dims -> Ids], currentWeights : BOOLEAN]

TypeOK ==
  /\ ideaExists \in BOOLEAN
  /\ current \in Ids \cup {None}
  /\ lock \in MarketRuns \cup {Nobody, Abandoned}
  /\ stored \in SUBSET Ids
  /\ doc \in [Ids -> Document]
  /\ previous \in [Ids -> Ids \cup {None}]
  /\ clock \in Nat
  /\ pc \in [Ids -> Labels]
  /\ deletePc \in {"never", "snapshots", "idea", "answered", "interrupted"}
  /\ mongoAvailable \in BOOLEAN

\* The snapshot of a promoted report.
FirstSnapshot(createdAt, currentWeights) ==
  [createdAt |-> createdAt, previous |-> None,
   scores |-> [d \in Dims |-> Initial], currentWeights |-> currentWeights]

NoDocument == FirstSnapshot(0, FALSE)

Init ==
  /\ ideaExists = FALSE
  /\ current = None
  /\ lock = Nobody
  /\ stored = {}
  /\ doc = [i \in Ids |-> NoDocument]
  /\ previous = [i \in Ids |-> None]
  /\ clock = 0
  /\ pc = [i \in Ids |-> "idle"]
  /\ deletePc = "never"
  /\ mongoAvailable = TRUE

-----------------------------------------------------------------------------
Goto(i, label) == pc' = [pc EXCEPT ![i] = label]

\* A MongoDB call returns, or raises and is swallowed by mark_unavailable.
Returns == UNCHANGED mongoAvailable
Raises  == MongoMayFail /\ mongoAvailable' = FALSE

\* The snapshot with the greatest created_at (get_latest_for_idea).
IsLatest(s) == s \in stored /\ \A t \in stored : doc[t].createdAt =< doc[s].createdAt

\* The run returns.  A market run leaves through _run_locked's `finally`,
\* whose release does nothing once MongoDB is marked unavailable.
Leave(i) ==
  \/ /\ i \in MarketRuns /\ mongoAvailable'
     /\ Goto(i, "release")
     /\ UNCHANGED lock
  \/ /\ i \in MarketRuns /\ ~mongoAvailable'
     /\ Goto(i, "done")
     /\ Mutex!Abandon(i)
  \/ /\ i \notin MarketRuns
     /\ Goto(i, "done")
     /\ UNCHANGED lock

\* The next call of the run is issued, unless MongoDB is marked unavailable:
\* then it returns at once and the run has nothing left to do.
Proceed(i, label) ==
  \/ mongoAvailable' /\ Goto(i, label) /\ UNCHANGED lock
  \/ ~mongoAvailable' /\ Leave(i)

-----------------------------------------------------------------------------
\* promote_report_to_idea, up to create_idea; the report carries the weights
\* version it was scored under.
Promote ==
  /\ pc[Initial] = "idle"
  /\ mongoAvailable
  /\ \/ /\ Returns
        /\ ideaExists' = TRUE
        /\ clock' = clock + 1
        /\ \E currentWeights \in BOOLEAN :
             doc' = [doc EXCEPT ![Initial] = FirstSnapshot(clock + 1, currentWeights)]
        /\ Goto(Initial, "insert")
     \/ /\ Raises
        /\ ideaExists' \in BOOLEAN
        /\ Goto(Initial, "done")
        /\ UNCHANGED <<clock, doc>>
  /\ UNCHANGED <<current, lock, stored, previous, deletePc>>

\* A re-run is asked for: its caller has read the idea document.
Start(r) ==
  /\ pc[r] = "idle"
  /\ ideaExists
  /\ mongoAvailable
  /\ Goto(r, IF r \in MarketRuns THEN "acquire" ELSE "check")
  /\ UNCHANGED <<ideaVars, lock, snapshotVars, deletePc, mongoAvailable>>

\* Mutant: the update has no filter on the lock.
AcquireAnyway(r) ==
  /\ pc[r] = "acquire"
  /\ Returns
  /\ ideaExists
  /\ lock' = r
  /\ Goto(r, "read")
  /\ UNCHANGED <<ideaVars, snapshotVars, deletePc>>

\* try_acquire_scheduler_lock.  The agents run between this step and the next.
Acquire(r) ==
  /\ pc[r] = "acquire"
  /\ \/ /\ Returns /\ ideaExists /\ mongoAvailable
        /\ Mutex!Acquire(r)
        /\ Goto(r, "read")
     \/ /\ Returns /\ ideaExists /\ ~mongoAvailable
        /\ Mutex!AcquireUnseen
        /\ Goto(r, "done")
     \/ /\ Returns /\ (~ideaExists \/ lock # Nobody)
        /\ Goto(r, "done")
        /\ UNCHANGED lock
     \/ /\ Raises
        /\ Goto(r, "done")
        /\ UNCHANGED lock \/ (ideaExists /\ Mutex!AcquireUnseen)
  /\ UNCHANGED <<ideaVars, snapshotVars, deletePc>>

\* run_evidence_snapshot and rescore_idea look at the latest snapshot before
\* they call record_snapshot.
NothingToDo(r) ==
  \A s \in stored : IsLatest(s) => r \in RescoreRuns /\ doc[s].currentWeights

CheckLatest(r) ==
  /\ pc[r] = "check"
  /\ \/ Returns /\ ~NothingToDo(r) /\ Proceed(r, "read")
     \/ Returns /\ NothingToDo(r) /\ Leave(r)
     \/ Raises /\ Leave(r)
  /\ UNCHANGED <<ideaVars, snapshotVars, deletePc>>

-----------------------------------------------------------------------------
\* Mutant: it is read until there is something.
ReadAgain(r) ==
  /\ pc[r] = "read"
  /\ \/ /\ Returns
        /\ \E s \in stored : IsLatest(s) /\ previous' = [previous EXCEPT ![r] = s]
        /\ Goto(r, "build")
     \/ Raises /\ UNCHANGED <<pc, previous>>
  /\ UNCHANGED <<ideaVars, stored, doc, clock, deletePc, lock>>

\* record_snapshot, get_latest_for_idea.
ReadPrevious(r) ==
  /\ pc[r] = "read"
  /\ \/ /\ Returns
        /\ \E s \in stored : IsLatest(s) /\ previous' = [previous EXCEPT ![r] = s]
        /\ Goto(r, "build")
        /\ UNCHANGED lock
     \/ /\ Returns /\ stored = {}
        /\ Leave(r)
        /\ UNCHANGED previous
     \/ /\ Raises
        /\ Leave(r)
        /\ UNCHANGED previous
  /\ UNCHANGED <<ideaVars, stored, doc, clock, deletePc>>

\* Mutant: a market run scores every dimension again.
DimsOfAll(r) == IF r \in RescoreRuns THEN {} ELSE MarketDims \cup EvidenceDims

\* The dimensions a run asks its agents about; an agent that fails is dropped.
DimsOf(r) ==
  CASE r \in MarketRuns   -> MarketDims
    [] r \in EvidenceRuns -> EvidenceDims
    [] OTHER              -> {}

\* Mutants: nothing is carried forward; the promoted scores are.
MergeNothing(scores, updated, r) == [d \in updated |-> r]
MergeFirst(scores, updated, r) ==
  [d \in Dims |-> IF d \in updated THEN r ELSE Initial]

Merge(scores, updated, r) ==
  [d \in Dims |-> IF d \in updated THEN r ELSE scores[d]]

\* Mutants: the deltas are against the new snapshot; the pointer goes first.
BuildOnItself(r) ==
  /\ pc[r] = "build"
  /\ clock' = clock + 1
  /\ \E updated \in SUBSET DimsOf(r) :
       doc' = [doc EXCEPT ![r] =
                [createdAt |-> clock + 1,
                 previous |-> r,
                 scores |-> Merge(doc[previous[r]].scores, updated, r),
                 currentWeights |-> TRUE]]
  /\ UNCHANGED mongoAvailable
  /\ Proceed(r, "insert")
  /\ UNCHANGED <<ideaVars, stored, previous, deletePc>>

BuildThenPoint(r) ==
  /\ pc[r] = "build"
  /\ UNCHANGED mongoAvailable
  /\ Proceed(r, "setCurrent")
  /\ UNCHANGED <<ideaVars, snapshotVars, deletePc>>

\* record_snapshot, from the answer to the call of create_snapshot.
BuildSnapshot(r) ==
  /\ pc[r] = "build"
  /\ clock' = clock + 1
  /\ \E updated \in SUBSET DimsOf(r) :
       doc' = [doc EXCEPT ![r] =
                [createdAt |-> clock + 1,
                 previous |-> previous[r],
                 scores |-> Merge(doc[previous[r]].scores, updated, r),
                 currentWeights |-> TRUE]]
  /\ UNCHANGED mongoAvailable
  /\ Proceed(r, "insert")
  /\ UNCHANGED <<ideaVars, stored, previous, deletePc>>

\* create_snapshot.  After a failure promotion's delete_idea finds MongoDB
\* marked unavailable and does nothing, like every other way to go on.
InsertSnapshot(i) ==
  /\ pc[i] = "insert"
  /\ \/ Returns /\ stored' = stored \cup {i} /\ Proceed(i, "setCurrent")
     \/ Raises /\ stored' \in {stored, stored \cup {i}} /\ Leave(i)
  /\ UNCHANGED <<ideaVars, doc, previous, clock, deletePc>>

\* set_current_snapshot; its result is ignored.
SetCurrent(i) ==
  /\ pc[i] = "setCurrent"
  /\ \/ Returns /\ current' = IF ideaExists THEN i ELSE current
     \/ Raises /\ current' \in {current, IF ideaExists THEN i ELSE current}
  /\ Leave(i)
  /\ UNCHANGED <<ideaExists, snapshotVars, deletePc>>

\* release_scheduler_lock.
Release(r) ==
  /\ pc[r] = "release"
  /\ \/ Returns /\ Mutex!Release(r)
     \/ Raises /\ (Mutex!Release(r) \/ Mutex!Abandon(r))
  /\ Goto(r, "done")
  /\ UNCHANGED <<ideaVars, snapshotVars, deletePc>>

-----------------------------------------------------------------------------
\* DELETE /v1/ideas/{id}: the route reads the idea, the cascade starts.
StartDelete ==
  /\ FounderMayDelete
  /\ deletePc \in {"never", "answered", "interrupted"}
  /\ ideaExists
  /\ mongoAvailable
  /\ deletePc' = "snapshots"
  /\ UNCHANGED <<ideaVars, lock, snapshotVars, pc, mongoAvailable>>

\* snapshot_repository.delete_by_idea.  Criteria and evidence are next; they
\* are in no other document's way.
DeleteSnapshots ==
  /\ deletePc = "snapshots"
  /\ \/ /\ Returns
        /\ stored' = {}
        /\ deletePc' = IF mongoAvailable THEN "idea" ELSE "answered"
     \/ /\ Raises
        /\ stored' \in SUBSET stored
        /\ deletePc' = "answered"
  /\ UNCHANGED <<ideaVars, lock, doc, previous, clock, pc>>

\* idea_repository.delete_idea; the route answers 204 whatever it returns.
DeleteIdea ==
  /\ deletePc = "idea"
  /\ \/ Returns /\ ideaExists' = FALSE /\ current' = None
     \/ Raises /\ ideaExists' = FALSE /\ current' = None
     \/ Raises /\ UNCHANGED ideaVars
  /\ deletePc' = "answered"
  /\ UNCHANGED <<lock, snapshotVars, pc>>

-----------------------------------------------------------------------------
\* A call of some other request raises.
MongoFails ==
  /\ MongoMayFail
  /\ mongoAvailable
  /\ mongoAvailable' = FALSE
  /\ UNCHANGED <<ideaVars, lock, snapshotVars, pc, deletePc>>

\* Mutant: the deadline of a lock is never looked at.
LockNeverExpires == FALSE

\* The lock of a run that never released it times out.
ExpireLock ==
  /\ Mutex!Expire
  /\ UNCHANGED <<ideaVars, snapshotVars, pc, deletePc, mongoAvailable>>

\* The process dies with everything in flight, and is started again.
Restart ==
  /\ ProcessMayDie
  /\ pc' = [i \in Ids |-> IF pc[i] = "idle" THEN "idle" ELSE "done"]
  /\ lock' = IF lock = Nobody THEN Nobody ELSE Abandoned
  /\ deletePc' = IF deletePc \in {"snapshots", "idea"} THEN "interrupted"
                 ELSE deletePc
  /\ mongoAvailable' \in BOOLEAN
  /\ UNCHANGED <<ideaVars, snapshotVars>>

RunStep(r) ==
  \/ r \in MarketRuns /\ (Acquire(r) \/ Release(r))
  \/ r \notin MarketRuns /\ CheckLatest(r)
  \/ ReadPrevious(r) \/ BuildSnapshot(r)

IdStep(i) == InsertSnapshot(i) \/ SetCurrent(i)

Next ==
  \/ Promote
  \/ \E r \in Runs : Start(r) \/ RunStep(r)
  \/ \E i \in Ids : IdStep(i)
  \/ StartDelete \/ DeleteSnapshots \/ DeleteIdea
  \/ MongoFails
  \/ ExpireLock
  \/ Restart

Spec == Init /\ [][Next]_vars

\* An idea whose promotion is over: its first snapshot is written and pointed at.
Promoted ==
  /\ ideaExists = TRUE
  /\ current = Initial
  /\ lock = Nobody
  /\ stored = {Initial}
  /\ doc \in {[i \in Ids |-> IF i = Initial THEN FirstSnapshot(1, currentWeights)
                             ELSE NoDocument] : currentWeights \in BOOLEAN}
  /\ previous = [i \in Ids |-> None]
  /\ clock = 1
  /\ pc = [i \in Ids |-> IF i = Initial THEN "done" ELSE "idle"]
  /\ deletePc = "never"
  /\ mongoAvailable = TRUE

PromotedSpec == Promoted /\ [][Next]_vars

\* Every await has a timeout and the event loop is fair, so a run in progress
\* goes on; an abandoned lock times out.
FairSpec ==
  /\ Spec
  /\ \A r \in Runs : WF_vars(RunStep(r))
  /\ \A i \in Ids : WF_vars(IdStep(i))
  /\ WF_vars(DeleteSnapshots \/ DeleteIdea)
  /\ WF_vars(ExpireLock)

-----------------------------------------------------------------------------
\* "The score moves only on evidence" (log_service's core rule): in every
\* snapshot, however its writers interleaved, an evidence-gated dimension was
\* last scored by an evidence run, a market dimension by a market run, and the
\* pitch's own dimensions by nobody after promotion.
ScoreMovesOnlyOnEvidence ==
  \A s \in stored :
    /\ \A d \in EvidenceDims : doc[s].scores[d] \in EvidenceRuns \cup {Initial}
    /\ \A d \in MarketDims : doc[s].scores[d] \in MarketRuns \cup {Initial}
    /\ \A d \in NeverDims : doc[s].scores[d] = Initial

\* "current_snapshot_id is only ever advanced after a successful write": until
\* somebody deletes the idea, the pointer names a snapshot that is there.
PointerNamesWrittenSnapshot ==
  deletePc = "never" /\ current # None => current \in stored

\* The deltas of a snapshot compare it with an earlier snapshot of the idea,
\* one that is still there unless the idea was deleted.
DeltasLookBack ==
  \A s \in stored \ {Initial} :
    /\ doc[s].previous \in Ids
    /\ doc[doc[s].previous].createdAt < doc[s].createdAt
    /\ deletePc = "never" => doc[s].previous \in stored

\* What the scheduler lock is for: of two market runs, the later one builds on
\* a snapshot at least as new as the earlier one's, so no market run undoes
\* another, whatever evidence runs, re-scores and faults happen in between.
MarketRunsAreSerial ==
  \A s, t \in stored \cap MarketRuns :
    doc[s].createdAt < doc[t].createdAt =>
      doc[s].createdAt =< doc[doc[t].previous].createdAt

\* "Every other dimension is carried forward byte-for-byte from the previous
\* snapshot" (log_service): each snapshot was built on its predecessor in the
\* timeline.
Precedes(s, t) == doc[s].createdAt < doc[t].createdAt
CarriedForward ==
  \A s, t \in stored :
    Precedes(s, t) /\ (\A u \in stored : ~(Precedes(s, u) /\ Precedes(u, t)))
      => doc[t].previous = s

\* What is left of that when runs of every kind interleave: a snapshot differs
\* from the one its deltas name in its own run's dimensions alone, and there by
\* scores of this run.  Only, that one need not be the last before it.
CarriedFromPrevious ==
  \A s \in stored \ {Initial} : \E updated \in SUBSET DimsOf(s) :
    doc[s].scores = Merge(doc[doc[s].previous].scores, updated, s)

\* A score in the timeline was written there by the run that made it: a run
\* whose insert failed, or that died before it, leaves no trace in any later
\* snapshot, until somebody deletes the idea.
EveryScoreHasItsSnapshot ==
  deletePc = "never" =>
    \A s \in stored, d \in Dims : doc[s].scores[d] \in stored

\* A re-run only ever moves the pointer to a newer snapshot (record_snapshot:
\* "current_snapshot_id is only ever advanced"), if the lock keeps the re-runs
\* apart.  Without it they write the pointer in any order, and so does a
\* promotion that is slower than the first re-run of its idea.
PointerOnlyAdvances ==
  [][current # None /\ current' \in Runs =>
       doc[current].createdAt =< doc'[current'].createdAt]_vars

\* delete_idea_cascade "removes every document": once the founder has the
\* answer and nothing is in progress, neither the idea nor a snapshot is left.
\* Violated by a re-run of a promoted idea (PromotedSpec), and from Init by the
\* promotion itself, if the cascade runs between its two inserts.
AtRest == \A i \in Ids : pc[i] \in {"idle", "done"}
DeletedMeansGone ==
  deletePc = "answered" /\ AtRest => ~ideaExists /\ stored = {}

\* The one window in which a deletion leaks: with every document gone and no run
\* between its read of the latest snapshot and its insert, the idea is gone for
\* good, whoever is anywhere else, and whatever fails or restarts.
Gone ==
  /\ ~ideaExists /\ current = None /\ stored = {}
  /\ pc[Initial] # "idle"
  /\ \A i \in Ids : pc[i] \notin {"build", "insert"}
DeletionIsFinal == [][Gone => Gone']_vars

\* Every re-run comes to an end, and so does every hold on the lock: no path
\* out of a run forgets the `finally`, and a crash wedges nothing for good.
EveryRunEnds == \A r \in Runs : pc[r] \notin {"idle", "done"} ~> pc[r] = "done"
LockComesFree == lock # Nobody ~> lock = Nobody

-----------------------------------------------------------------------------
CurrentScores ==
  IF stored = {} THEN [d \in Dims |-> Initial]
  ELSE doc[CHOOSE s \in stored : IsLatest(s)].scores

Rescore == INSTANCE AtomicRescore WITH recorded <- stored, scores <- CurrentScores

\* With market runs alone, under the lock, the calls of record_snapshot are
\* atomic: reading the latest snapshot, merging and inserting look like one step.
ImplementsAtomicRescore == Rescore!Spec
=============================================================================
