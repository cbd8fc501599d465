# NotAFlop in TLA+

TLA+ specifications of NotAFlop, TLC configurations that model-check them on
small instances, and TLAPS proofs for every instance. File and line references
are to the repository.

## 1. The system

NotAFlop validates startup ideas. A Next.js page sends a pitch to a FastAPI
backend (`main.py`), which asks a dozen model-backed agents about it, streams
their scores, announces a verdict and saves a report. The founder can promote
the report to an idea with a log: the idea's score is then re-evaluated by
scheduled and manual re-runs, by evidence, and by criteria ("pre-registered"
commitments with a deadline).

One uvicorn process runs everything on one asyncio event loop: requests,
detached pipeline tasks, the sweep scheduler. So the atomic steps are the
stretches between two awaits that suspend, and all interleaving happens at
MongoDB, Redis and Groq calls. MongoDB calls never raise out of a repository:
the first failure calls `mongo.mark_unavailable`, after which every repository
function is a no-op until the process restarts (`services/mongo.py:46-60`).
Docker restarts a process that dies (`restart: unless-stopped`).

The sweeps run only where `SNAPSHOT_SCHEDULER_ENABLED` is set: it is off by
default (`core/config.py:77-82`, `main.py:50-53`) and on in the production
compose file (`docker-compose.prod.yml:54`). Without it no idea is re-run and no
criterion lapses unless something else calls the sweeps; `SilenceIsRecorded` and
`DueIdeaIsRerun` are about a process that has it on.

### Inventory

| Component | State it keeps | Operations | Hard behaviour | What makes it correct |
|---|---|---|---|---|
| Scheduler lock of an idea (`idea_repository`, `snapshot_worker`) | `ideas.scheduler_lock_until` | acquire by conditional update, release, expiry | unfenced release, crash while held, MongoDB lost | one market run at a time; no lock held for ever |
| Score history (`log_service`, `snapshot_worker`, `rescore_service`, `evidence_service`) | `ideas.current_snapshot_id`, `snapshots` | promote, scheduled/manual/evidence/Core-Rule re-run, delete | read-merge-write over several awaits, only some of them locked | scores move only on evidence, nothing is lost between snapshots, the pointer names a snapshot |
| Criteria and evidence (`criteria_service`, `v1_criteria`, `v1_evidence`) | `criteria`, `evidence` | create, resolve, submit, lapse sweep, reminder sweep | stale lists, check then act, mail before mark | a resolution is final, silence is recorded, one reminder |
| Analysis pipeline (`orchestrator/graph.py`, `cost_tracking`) | a queue, a cost ledger, `reports`, `sessions.report_count` | fan out, collect, gate, announce, save, shadow Verifier | detached tasks, client disconnects, shutdown | announced = saved, complete, billed once; the stream ends |
| Validation flow (`use-validation-flow.ts`, `stream.ts`) | the page's stage, refs, timers | filter, stream, recover by polling, start over | dropped connections, leftover loops, shared refs | only complete verdicts, its own verdict, no endless loader |
| MongoDB flag (`mongo.py`) | `_mongo_available` | connect, disconnect, mark_unavailable | never comes back in one process | – (part of every module) |
| Sweep scheduler (`scheduler.py`) | the loop task | tick, register, start, stop | a tick never overlaps itself; one sweep failing | every sweep runs again |
| Due check and sweep (`snapshot_worker`) | – | `is_due…`, `sweep_due_ideas` | due check before the lock, list limits | every active idea is re-run once per window |
| Milestones (`milestone_service`) | `ideas.milestones` | seed on first read, patch one | double seeding | a patched milestone stays |
| Access (`auth_tokens`, `v1_auth`, `session_repository`, `account_repository`) | tokens (Redis or memory), `sessions`, `accounts`, owner of `ideas` | issue, redeem, touch session, claim | two stores, concurrent redemption, sliding expiry, promote during claim | a token works once (of each copy), what an account owns was proven to be its, nobody loses a log |
| Rate limiter (`rate_limiter`) | members of a key per request (Redis or memory) | record, trim, count | failover, count before refusal | caps hold in every window |
| Gate (`gate.py`) | scores and verdicts of reports and snapshots | weighted mean, penalty, verdict | rounding, missing agents, answers outside the rubric | the Verifier only lowers, a verdict follows its scores |
| Signal quality, conflicts (`signal_quality`, `conflict_detector`, `data_sources/result.py`) | – | classify and score signals, carried from report to snapshots | shapes of input, partial failure | what is disclosed is about the signals kept |
| Smart data layer (`smart_data_layer`, `cache`, `health`) | cache (Redis or memory) | fan out, cache, probe | failover, partial failure | one failure never takes others down |
| Groq client (`groq_client`) | – | chat, transcribe with retries | cap of the retries | bounded |
| Filter, plan, share, prompts, pages | – | request/response | – | – |

How they interact: the page calls phase 1 (filter), phase 2 (signals), phase 3
(pipeline, SSE) and polls `/api/sessions/{sid}/reports`. A saved report is
promoted to an idea with its first snapshot. The scheduler's tick awaits the
snapshot sweep, the lapse sweep and the reminder sweep in turn. Evidence, also
that written by a resolved criterion, calls `run_evidence_snapshot`, which
shares `record_snapshot` with the other re-runs. Deleting an idea cascades over
snapshots, criteria and evidence. Claiming moves ideas from a session to an
account, which gives the sweeps an address to write to.

`orchestrator/graph.py:62-106` also builds a LangGraph graph that no route uses;
it is not modelled.

## 2. Modules

| Module | Models | Composes |
|---|---|---|
| `RunMutex` | what the lock promises | – |
| `SchedulerLock` | the lock with a clock, an expiry, an unfenced release and faults | refines `RunMutex` |
| `AtomicRescore` | what a re-run promises: one atomic merge | – |
| `ScoreHistory` | promote, the three kinds of re-run call by call, deletion, faults | refines `AtomicRescore` |
| `Criteria` | criteria, evidence, requests, both sweeps, claim, deletion, faults | – |
| `Analysis` | what `POST /api/phase3/analyze` promises of one analysis | – |
| `Pipeline` | pipeline task, agents, queue, SSE generator, Verifier, cost, save, faults | refines `Analysis` |
| `ValidationFlow` | the page and its recovery polling | uses `Analysis` for every pitch |
| `Access`, `MCAccess` | tokens in two stores, sessions and their expiry, accounts, promotion and claim of ideas, faults | – |
| `Reruns` | the sweep with its due check, forced re-runs behind their limit, evidence re-runs, faults | the lock as `RunMutex` promises it |
| `Verdict`, `MCVerdict` | gate, Verifier penalty, signal quality, conflicts, from report to promotion to re-runs | – |
| `SchedulerLockProofs`, `ScoreHistoryProofs`, `CriteriaProofs`, `PipelineProofs`, `ValidationFlowProofs`, `AccessProofs`, `RerunsProofs`, `VerdictProofs` | theorems | extend their module |

### Correspondence

* **An action is the code between two awaits.** A repository call is one action
  with up to three outcomes: it returns (`Returns`), it raises and marks MongoDB
  unavailable (`Raises`, with the write done or not, since a lost answer says
  nothing of the write), or it is skipped because the flag is already false.
  The caller's branch on the result is part of the same action.
* **Program counters** (`pc`, `shadow`, `poller`) say before which await a task
  is; a job's locals are in the record `job` or in the variables named after
  them.
* **Process death** (`Restart`, `Die`) drops every task's locals, keeps the
  collections and sets the flag anew. `MongoFails` is a failed call of some
  request outside the module.
* **Scores are tokens.** In `ScoreHistory` a score is the run that produced it,
  in `Pipeline` the set of results it aggregates and whether the Verifier
  penalised it. The properties only ask where a score comes from. A cost is a
  number of billed calls, each costing 1.
  `Verdict` has the numbers, of one table of weights: weights in hundredths, a quality in thousandths,
  so that every comparison of the code is one of integers. Python divides
  floating-point numbers; whether an exact half is rounded up is the constant
  `TiesUp`, of which nothing is assumed.
* **Carried forward.** `record_snapshot` has an optional argument for each of
  `sources`, `signals`, `signal_quality` and `conflicts`, and takes each that is
  `None` from the previous snapshot (`log_service.py:216-219`). `Verdict` keeps
  the four fields apart: an argument is the set of what was passed, `Given`
  chooses field by field, and nothing is computed from the signals but what the
  callers compute.
* **Time.** `SchedulerLock` and `ValidationFlow` have a clock, because a
  deadline is compared with it there; in `Criteria` a deadline is far, near or
  passed, and in `ScoreHistory` the lock expires only after its holder is gone,
  which is what `SchedulerLock` shows of runs that fit in the TTL. `Reruns` counts
  ticks since an event, up to the length that matters, so no clock needs a bound
  there. In `Access` tokens and sessions expire at any time the code lets them:
  a session not while one of its requests or links is alive.
* **What one module leaves to another.** `Reruns` says when an idea is re-run,
  `ScoreHistory` what overlapping re-runs write, `Verdict` what the numbers are
  (there a re-run is one step). An account in `Access` is named by the verify
  request that created it.
* `ScoreHistory` has one idea, `Pipeline` one analysis: instances share only the
  MongoDB flag, which `MongoFails` lets change at any time.

## 3. Runs

Every configuration instantiates the module of its first part; the runs with a
fairness property use `FairSpec`, `ScoreHistoryDelete` starts from a promoted
idea (`PromotedSpec`), the others use `Spec`. `Reruns` and `Verdict` are
checked for deadlock: the clock, or the next signals, always come. The other
configurations say `CHECK_DEADLOCK FALSE`, since requests, runs and analyses are
finitely many and the system may come to rest.

| Run | Instance | Shows |
|---|---|---|
| `SchedulerLock` | 3 runs, TTL 2, runs of at most 2, clock to 7 | mutual exclusion, refinement of the mutex, abandoned locks expire |
| `ScoreHistory` | one market, one evidence, one Core-Rule run; one dimension of each kind; all faults, deletion | `ScoreMovesOnlyOnEvidence`, `PointerNamesWrittenSnapshot` |
| `ScoreHistoryLocked` | three market runs; MongoDB and restart faults | serial runs, nothing lost, atomicity (refinement of `AtomicRescore`), and the pointer only advances |
| `ScoreHistoryOverlap` | a market run and an evidence run | **violation** of `CarriedForward` |
| `ScoreHistoryDelete` | a promoted idea, a market run of it and a deletion | **violation** of `DeletedMeansGone`: the run reads before the cascade and inserts after it |
| `Criteria` | one criterion, one resolver, one submitter, one restart, all faults | `ResolutionSurvivesSweep`, `EvidenceMatchesResolution`, `RemindersBounded`, `SilenceIsRecorded` |
| `CriteriaResolve` | one criterion, two resolvers | **violation** of `ResolvedOnce` |
| `Pipeline` | 3 agents, both Verifier modes, all faults | completeness, announced = saved, cost, stream, save, refinement of `Analysis` |
| `ValidationFlow` | 2 pitches, 2 dimensions, 2 polls, grace 1, clock to 3 | complete verdicts, polls that answer their own recovery, no endless loader |
| `Access` | 2 sessions, 2 addresses, 2 links, 2 verify requests, one idea, one restart | a link works once of each copy of its token, ownership is proven, a claim that fails half way loses nobody an idea |
| `Reruns` | 2 ideas, one without a snapshot; 2 forced re-runs, cap 1, window and interval of 2 ticks; 2 faults | scheduled runs are an interval apart, the cap holds in every window, a due idea is re-run |
| `Verdict` | agents problem, timing, risk with scores 0, 5, 7, 12; Verifier 3, 10, 14; signals of two sources | the Verifier only lowers, a verdict follows its scores, sources, quality and conflicts are those of the signals kept |

Why the bounds are enough. Three lock users are the fewest in which a late
release can free a third party's lock after a takeover. Every unsafe
interleaving of re-runs is between two of them, and a third gives a history in
which "newer" and "built on" can disagree. Criteria do not interact, and the
sweeps' lists are functions of one criterion at a time; one resolver against the
sweeps and two against each other cover the pairs. Two agents suffice for an
incomplete aggregate, three for it to have both answers and failures. Two
pitches are the fewest of which one can be mistaken for the other. The clock of
`ValidationFlow` needs to pass the grace period once. `SchedulerLock` bounds its
clock at `MaxTime`; `AbandonedLockExpires` leaves out deadlines the clock cannot
pass. `MaxRestarts` bounds the restarts in `Criteria` and `Access`, where a
second restart only repeats what the first allows (in `Access` a token has two
copies at most, and one restart is enough to redeem both).

`Access` has two of everything that can be confused (sessions, addresses, links,
requests) and one idea, since ideas do not interact; `BothMayFail` is `FALSE` in
the run to leave out that Redis and MongoDB fail under one process, and free in
the proofs. In `Reruns` the idea without a snapshot is due at every sweep and
stands before or after the other in the list; two requests against a cap of one
are the fewest that can exceed it, two faults the fewest that can fail both
stores or a run and its release. In `Verdict` one agent is re-run by the market,
one by evidence, one never; the scores reach all three verdicts, both sides of a
threshold and, with 12 and 14, answers outside the rubric, which nothing in
the code clamps.

**Fairness.** The event loop runs every ready task, MongoDB calls return or
raise (the driver has timeouts), Groq calls have timeouts and bounded retries,
so every step of a task that is in progress is weakly fair. Nothing that
founders, clients or the environment do is fair: no submission, disconnection,
deletion, failure or restart has to happen. The clock of `SchedulerLock` is
fair, and that of `Reruns`, where the sweep wakes and its steps go on; that the
sweeps wake, there and in `Criteria`, is the scheduler, which must be enabled
(section 1).
`ScoreHistory.ExpireLock` and `Reruns.ExpireLock` are, as the clock of `SchedulerLock` justifies.
`ValidationFlow` assumes further that a connection whose server is gone is
closed (the browser has no read timeout: on a half-open connection the page's
`streaming` stage would last as long as TCP's), which is the weak fairness of
`BodyEnds \/ ReadRejects` under `phase[pitch] = "failed"`.

**Mutants.** The operators introduced by a comment "Mutant" are plausible wrong
versions of the action after them; no specification uses them. Each property of
a passing run fails when one of them replaces its original.

## 4. Proofs

Proved for every value of the constants that satisfies the modules' assumptions:

* `SchedulerLockProofs`: types, `MutualExclusion`, `LockCoversRun` and the
  refinement of `RunMutex`. The assumption is `RunBound =< TTL`, in words: a re-run
  (the data layer and a few model calls with bounded retries) ends within the
  lock's 15 minutes. `MutualExclusion` is
  not inductive, since a lock may expire under its holder; `LockCoversRun`, the
  stored deadline is the holder's and has not passed, makes it so, and needs
  `ClockReadings` to bound the start of a run by the clock. Without that
  assumption, for runs of any length: `LockEndsSoon`, the stored deadline is at most one TTL
  ahead, because it is always the reading of a past instant plus the TTL.
* `ScoreHistoryProofs`: types, `ScoreMovesOnlyOnEvidence`,
  `PointerNamesWrittenSnapshot`, `DeltasLookBack` and `MarketRunsAreSerial`, for
  any number of runs of each kind, any dimensions and every fault. So are
  `CarriedFromPrevious` and `EveryScoreHasItsSnapshot`, which say what is left of
  "carried forward byte-for-byte" when runs overlap (a snapshot differs from the
  one it was built on in its run's dimensions alone, and every score stands in
  the history; only, that one need not be the last), and `DeletionIsFinal`,
  which says that the window of `ScoreHistoryDelete` is the only one: once no
  run is between its read and its insert, a deleted idea stays gone. The
  strengthening says of each program counter what the run's locals are: what it
  read is a stored snapshot, what it built differs from it in its own
  dimensions only, whoever is inside holds the lock. For market runs alone and
  without deletion (`MarketOnly`) also `CarriedForward` and the refinement of
  `AtomicRescore`: `Dates` says that no two snapshots are of the same instant and
  that the promoted one is the oldest, `Chain` that there is a latest one and that
  what a run is about to insert was merged into its predecessor; hence what is
  inserted is newer than the latest snapshot and built on it. `PointerOnlyAdvances`
  follows there too: a run that is about to write the pointer has inserted the
  latest snapshot (`PointsAtLatest`), since the lock lets nobody in before its
  release.
* `CriteriaProofs`: types, `EvidenceMatchesResolution`, `RemindersBounded`,
  `ResolutionSurvivesSweep` and `AnswersAreTrue`. The strengthening relates a request's place to the
  status it has already written, and a criterion's reminders to whether this
  process can still send one. `AnswersAreTrue` needs one more, `Logged`: a
  request that has come past its insert with MongoDB still available has its
  document in the log, or the idea was being deleted.
* `PipelineProofs`: types, `StoredIsComplete`, `FinalMatchesReport`,
  `CostCountedOnce`, `CountedIsStored`, `StreamIsWhole`, `SavedWhenDone`,
  `NobodyWaitsInVain` and the refinement of `Analysis`. The last two are what
  `ReportIsSaved` and `StreamEnds` come to without fairness: a pipeline that ends
  has saved, and nobody waits for something that was not started. The strengthening says what has been collected, what the stream
  holds at each place, that the cost marker is where the shadow's call begins,
  and that nothing is stored before it is announced.
* `ValidationFlowProofs`: types, `VerdictIsComplete`, `PollAnswersRecovery` and
  `VerdictIsOwnWhenAlone`, the condition under which the verdict recovered is
  that of the pitch shown: no other pitch of the session was saved with a date
  in the reach of the recovery. The
  strengthening says that a connection belongs to the stream the page shows and
  a poll to its recovery, and that the final event is read only after it was sent.
* `AccessProofs`: types, `RedeemedOncePerCopy`, `OwnershipIsProven`,
  `OneAccountPerAddress`, `IdeaKeepsItsAccount`, `FounderKeepsIdeas` and
  `SharedByProofOnly` (what `owns` answers to any caller). The
  strengthening says that the copies of a token, those that are left and those
  that were redeemed, are two only if Redis kept what its SETEX failed to
  confirm, and otherwise one (`CopiesUsedUp`); that a token that may still be
  redeemed in this process has not been redeemed in it (`OncePerProcess`); that whatever a verify request holds, or has written
  so far, is of a redeemed link; and that a session's ideas belong to it or to
  the account it is bound to, or are about to be transferred.
* `RerunsProofs`: types, `ScheduledRunsApart`, `RerunsWithinCap` and
  `InsideHoldsLock`. A
  scheduled snapshot is a snapshot, so `since` is at least `age`; the sweep
  goes for the lock only with an idea whose last scheduled snapshot is an
  interval old, or with MongoDB off, when the lock is refused; a request admitted by a store's count, and still in the window, is among
  the members that the store would count again.
* `VerdictProofs`: types, `VerifierOnlyLowers`, `DisclosureMatchesSignals`,
  `VerdictFollowsScores`, `VerdictMovesOnceAtMost` (the exception to "the score
  moves only on evidence" is made once: a gated verdict gives way to that of the
  raw score) and, with the Verifier in shadow, `VerdictMovesOnlyOnEvidence`
  itself, whose inductive invariant is `Shadowed`. `DisclosureMatchesSignals` is
  about the latest snapshot; `Consistent` says it of the report as well, and is
  inductive because a re-run passes all four fields, computed from one set of
  signals (`SaidAgrees`), or none, and then carries each of them over from one
  snapshot (`RerunKeeps`). Three lemmas are on the arithmetic for every score:
  `AbsentAgentsAreNeutral` (the weighted mean stays between the lowest and the
  highest answer, whoever is missing), `PenaltyIsBounded` (at most 30 % down,
  up to rounding, and never up for a Verifier within its rubric) and
  `PenaltyKeepsOrder` (within the rubric the penalty never reverses two ideas). The weighted
  sum is written out, because a fold would need induction over data.

**How the proofs compose.** `SchedulerLockProofs!Refinement` shows that the
stored deadline behaves as `RunMutex`. `ScoreHistory` and `Reruns` do not have
the deadline but a holder; `LockIsRunMutex` and `LocksAreRunMutexes` show that
this holder, with all that goes on around it, takes only the steps `RunMutex`
allows, so that each of them uses of the lock what was shown of it, and no more. In the same way
`PipelineProofs!Refinement` shows that an analysis behaves as `Analysis`, and
`AnalysesAreAnalysis` that the page composes such analyses, one for each pitch.

**Conditional forms.** For each property that the code violates there is a
theorem that says when it holds: `CarriedForward` and `PointerOnlyAdvances` with market runs alone (else
`CarriedFromPrevious`, `PointerNamesWrittenSnapshot`), `RedeemedOnce` for a token
that one store was given (`RedeemedOncePerCopy`), `DeletedMeansGone` with no run in the window
(`DeletionIsFinal`), `VerdictIsOwn` for a pitch alone in the reach of the recovery
(`VerdictIsOwnWhenAlone`), `VerdictMovesOnlyOnEvidence` with the Verifier in
shadow, `ReminderSentOnce` up to crashes (`RemindersBounded`). `ResolvedOnce` and
`SessionStaysBound` have none: what remains of them is
`EvidenceMatchesResolution`, that a resolution is never lost to a sweep, and the
exceptions of `FounderKeepsIdeas`.

Each `IInv` also holds as an invariant of its module's instance under TLC (for
`ScoreHistory` with a market and a Core-Rule run). Temporal steps are one `PTL`
leaf at the end of each proof.

Model-checked only: liveness (`AbandonedLockExpires`, `SilenceIsRecorded`,
`ReportIsSaved`, `StreamEnds`, `FlowSettles`, `DueIdeaIsRerun`), which the prover
does not reach. Nor does it reach the range of `ReportQuality`, which is a fold
over a set of sources of any size: that would be induction over data.
`MarketRunsAreSerial` is checked with market runs only and proved for every mix.

`IdeaKeepsItsAccount` is proved only. `EveryRunEnds` and `LockComesFree` are
stated in `ScoreHistory` and follow, as far as they matter, from
`AbandonedLockExpires`; no run lists them.

## 5. Where code and documentation disagree

Each of the first three has a run that finds it.

1. `record_snapshot` is not atomic and evidence and Core-Rule re-runs take no
   lock: a score re-run at the same time is not carried forward
   (`ScoreHistoryOverlap`; `services/log_service.py:17-18`).
2. Deleting an idea during a re-run leaves a snapshot (`ScoreHistoryDelete`;
   `services/log_service.py:116-118`). So does deleting it while it is being
   promoted, between the two inserts of `promote_report_to_idea` (lines 66 and
   88): TLC finds that race first from `Init`, which is why the run starts from
   a promoted idea. The route also answers 204 when the
   cascade failed.
3. Two concurrent resolutions both succeed (`CriteriaResolve`;
   `routers/v1_criteria.py:79-80`).

Stated as a property that the model violates, without a run in the list:

* `Criteria.ReminderSentOnce`: a reminder is sent twice after a crash between
  mail and mark (`services/criteria_service.py:102-105`, the mark at 111).
  `RemindersBounded` is what holds.
* `ValidationFlow.VerdictIsOwn`: the recovery of a dropped stream can show
  another pitch's verdict (`frontend/lib/hooks/use-validation-flow.ts:87`,
  against `recovering-view.tsx:22-23`).
* `Access.RedeemedOnce`: "a leaked or replayed token can never be redeemed
  twice" (`services/auth_tokens.py:81-83`). SETEX raises after Redis has stored
  the token (line 70), so memory is given it as well (line 76); the memory's
  copy is redeemed, the process restarts, and the next process redeems the copy
  in Redis, if the token has not expired. `RedeemedOncePerCopy` is what holds:
  twice in this case only, and never twice in one process.
* `Access.SessionStaysBound`: a claimed session gets the sliding 30 days back
  with its next request, and then expires and loses its account, though
  `session_repository.py:85-90` says a bound session's expiry is pushed out
  for good (`get_or_create_session`, lines 36-69).
* `Verdict.VerdictMovesOnlyOnEvidence`: with the Verifier blocking, the promoted
  verdict has its penalty and a re-run, even one that changes no score, has not
  (`log_service.py:20-29` and `158-165` against `209-213`).

Read off the actions:

* `current_snapshot_id` can move back to an older snapshot when two re-runs
  overlap without the lock, or when a promotion writes it after the first re-run
  of its idea did; `PointerOnlyAdvances`, which is about re-runs, holds under the lock.
* The rollback of `promote_report_to_idea` cannot work: the failed write that
  calls for it has marked MongoDB unavailable, and `delete_idea` is then a
  no-op (`log_service.py:88-91`). `Promote` models that. The idea left behind is
  due at every sweep, which pays for a market run each time and writes nothing
  (`Reruns.Snapshotless`).
* A due check compares with the latest snapshot before the lock is asked for, so
  a manual or evidence run in between is still followed by a scheduled one,
  though `snapshot_worker.py:141-147` speaks of never being stale. What holds
  is `ScheduledRunsApart`.
* `list_active` returns at most 500 ideas in no stated order; with more, the
  sweep does not visit "every active idea" (`snapshot_worker.py:165`).
* Answers of agents and of the Verifier are `int(...)` of what the model said,
  unclamped (`base_agent.py:32`, `verifier.py:65`): a confidence above 10 raises
  the score, and a Go may then have been gated to tier 1. `VerifierOnlyLowers`
  and `PenaltyIsBounded` are about a Verifier within its rubric, as its prompt
  asks.
* The reason of the gate that the page shows is worded from the raw verdict.
* `list_owned` lists ideas of a session that `owns` rejects, once they belong to
  another account (`idea_repository.py:86-107`).
* `run_evidence_snapshot` takes the signals from the latest snapshot before
  `record_snapshot` reads the latest snapshot again (`snapshot_worker.py:196`).
* The conflict rules read fields that the live adapters never fill in, so only
  signals sent by a client can conflict.
* The smart data layer caches every dict whose status is not `unavailable`, so
  an error or a rate limit of a source is kept for a day.
* A broken connection makes `reader.read()` reject with the browser's own error,
  which the page shows instead of recovering (`stream.ts:28-31` says
  `StreamConnectionError`). `ReadRejects` models that.
* A recovered verdict shows `raw_score` next to a verdict that the Verifier may
  have gated, and no notice of agents that failed.
* A pipeline cancelled before its final event leaves its `finally` with an
  `UnboundLocalError` (`graph.py:365`); MongoDB is closed by then.

## 6. Plan

The order is by importance: first what decides the score and what is lost
silently, then what the founder sees, then the supporting services.

1. *Done*: `RunMutex`, `SchedulerLock`, proofs.
2. *Done*: `AtomicRescore`, `ScoreHistory`, proofs.
3. *Done*: `Criteria`, proofs.
4. *Done*: `Analysis`, `Pipeline`, proofs; `ValidationFlow` composed with
   `Analysis`, proofs.
5. *Done*: `Access`, proofs.
6. *Done*: `Verdict`, proofs.
7. *Done*: `Reruns`, proofs.
8. *Done*: the conditional forms of the violated properties, and the theorems that
   let the modules rely on each other (section 4).
9. An abstract life of a criterion that `Criteria` refines, and a re-score with
   branching history, which `ScoreHistory` refines for every mix of runs, as it
   refines `AtomicRescore` for market runs alone.
10. Milestones: `get_or_seed_milestones` overlapping itself and a patch.
11. `DataLayer`: cache and failover, health cache, the cap of the Groq retries.

## 7. Not modelled

* Prompts, parsing of model answers, `top_risks` and `gate_reason`, formatting,
  logging, CORS, input validation, the sources' own HTTP, rendering, share
  links. They keep no state; where a modelled component depends on one of them
  its result is a nondeterministic choice (an agent's answer, a source's
  payload).
* A release with other `WEIGHTS`: the Core-Rule re-run after it may move a score
  and a verdict though no dimension moved, which `version_crossing` flags
  (`log_service.py:180-191`). `VerdictFollowsScores` is about one table of
  weights; `ScoreHistory` has which snapshots are of the current one.
* The limiter's other scopes call the same function with other keys; none of
  them guards a step of a module (a claim it refuses does nothing).
* Milestones, the cache of the data layer, the health probes and the policy of
  the Groq retries have state of their own and are in the plan.
* The Core-Rule re-run of `ScoreHistory` is left out of `Reruns`: no schedule and
  no limit concerns it.
