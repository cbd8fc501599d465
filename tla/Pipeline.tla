------------------------------ MODULE Pipeline ------------------------------
(***************************************************************************)
(* One analysis: the pipeline task that fans out to the agents, streams    *)
(* their results onto a queue, announces the verdict and saves the report, *)
(* the SSE generator that relays the queue, and the shadow Verifier that   *)
(* patches the saved report (orchestrator/graph.py with cost_tracking,     *)
(* report_repository and session_repository).                              *)
(*                                                                         *)
(* A step is the code between two awaits that suspend (a put on the        *)
(* unbounded queue does not), or one collected agent.  A score is          *)
(* represented by what it is computed from.  Analyses share nothing but    *)
(* the MongoDB flag and the process, so one shows every behaviour.         *)
(***************************************************************************)
EXTENDS Integers, Sequences

CONSTANTS
  Agents,  \* the names in ALL_AGENTS
  MongoMayFail, ProcessMayDie  \* BOOLEAN: what a run explores

ASSUME FlagAssumption ==
  {MongoMayFail, ProcessMayDie} \subseteq BOOLEAN

ASSUME AgentsAssumption == Agents # {}

VARIABLES
  blocking,  \* VERIFIER_PENALTY_ENABLED, read when the process starts
  pc,        \* where _run_pipeline is
  task,      \* the task of each agent
  results, errors,  \* the agents collected so far
  ledger,    \* length of the cost ledger of this analysis, every call costing 1
  costMarker,\* cost_marker
  events,    \* everything put on the queue
  relayed,   \* how much of it the generator has taken
  reader,    \* the SSE client
  report,    \* the ReportDocument, from its construction on
  stored,    \* it is in `reports`
  counted,   \* by how much sessions.report_count grew
  shadow,    \* where _run_verifier_shadow is
  mongoAvailable  \* services.mongo._mongo_available

waveVars == <<blocking, task, results, errors>>
runVars == <<waveVars, pc>>
costVars == <<ledger, costMarker>>
streamVars == <<events, relayed, reader>>
reportVars == <<report, stored, counted>>
vars == <<runVars, costVars, streamVars, reportVars, shadow, mongoAvailable>>

\* A score: the results it aggregates, penalised by the Verifier or not.
Score == [of : SUBSET Agents, adjusted : BOOLEAN]

Event ==
  [type : {"signal_quality", "end"}]
    \cup [type : {"agent", "agent_error"}, agent : Agents]
    \cup [type : {"final"}, score : Score]

Report ==
  [agentResults : SUBSET Agents, rawScore : Score, verdict : Score,
   gatingScore : {"raw", "adjusted"}, verified : BOOLEAN, costUsd : Nat]

TypeOK ==
  /\ blocking \in BOOLEAN
  /\ pc \in {"idle", "spawn", "wave1", "verify", "count", "insert", "increment",
             "done", "dead"}
  /\ task \in [Agents -> {"none", "running", "answered", "failed"}]
  /\ results \in SUBSET Agents
  /\ errors \in SUBSET Agents
  /\ ledger \in Nat
  /\ costMarker \in Nat
  /\ events \in Seq(Event)
  /\ relayed \in Nat
  /\ reader \in {"listening", "ended", "gone"}
  /\ report \in Report
  /\ stored \in BOOLEAN
  /\ counted \in Nat
  /\ shadow \in {"none", "running", "patch", "done", "dead"}
  /\ mongoAvailable \in BOOLEAN

Gated(penalised) == [of |-> results, adjusted |-> penalised]
FinalEvent(penalised) == [type |-> "final", score |-> Gated(penalised)]
EndOfStream == [type |-> "end"]
Unscored == [of |-> {}, adjusted |-> FALSE]

Init ==
  /\ blocking \in BOOLEAN
  /\ pc = "idle"
  /\ task = [a \in Agents |-> "none"]
  /\ results = {} /\ errors = {}
  /\ ledger = 0 /\ costMarker = 0
  /\ events = <<>> /\ relayed = 0
  /\ reader = "listening"
  /\ report = [agentResults |-> {}, rawScore |-> Unscored, verdict |-> Unscored,
               gatingScore |-> "raw", verified |-> FALSE, costUsd |-> 0]
  /\ stored = FALSE /\ counted = 0
  /\ shadow = "none"
  /\ mongoAvailable \in BOOLEAN

Returns == UNCHANGED mongoAvailable
Raises  == MongoMayFail /\ mongoAvailable' = FALSE

-----------------------------------------------------------------------------
\* stream_analysis spawns the pipeline, which announces the signal quality.
Analyze ==
  /\ pc = "idle"
  /\ pc' = "spawn"
  /\ events' = <<[type |-> "signal_quality"]>>
  /\ UNCHANGED <<waveVars, costVars, relayed, reader, reportVars, shadow,
                 mongoAvailable>>

\* The agents are started 0.2 s apart, before the first one is waited for.
SpawnAgent(a) ==
  /\ pc = "spawn" /\ task[a] = "none"
  /\ task' = [task EXCEPT ![a] = "running"]
  /\ pc' = IF \A b \in Agents \ {a} : task[b] # "none" THEN "wave1" ELSE "spawn"
  /\ UNCHANGED <<blocking, results, errors, costVars, streamVars, reportVars,
                 shadow, mongoAvailable>>

\* The agent's Groq call is answered, billed and parsed (an answer that cannot
\* be parsed is a result with score 0)...
AgentAnswers(a) ==
  /\ task[a] = "running"
  /\ task' = [task EXCEPT ![a] = "answered"]
  /\ ledger' = ledger + 1
  /\ UNCHANGED <<blocking, pc, results, errors, costMarker, streamVars,
                 reportVars, shadow, mongoAvailable>>

\* ... or the task raises: the call failed, or it was billed and had no content.
AgentFails(a) ==
  /\ task[a] = "running"
  /\ task' = [task EXCEPT ![a] = "failed"]
  /\ ledger' \in {ledger, ledger + 1}
  /\ UNCHANGED <<blocking, pc, results, errors, costMarker, streamVars,
                 reportVars, shadow, mongoAvailable>>

Pending == Agents \ (results \cup errors)

\* Mutant: the client is not told of an agent that failed.
CollectSilently(a) ==
  /\ pc = "wave1" /\ a \in Pending
  /\ \/ /\ task[a] = "answered"
        /\ results' = results \cup {a}
        /\ events' = Append(events, [type |-> "agent", agent |-> a])
        /\ UNCHANGED errors
     \/ /\ task[a] = "failed"
        /\ errors' = errors \cup {a}
        /\ UNCHANGED <<results, events>>
  /\ UNCHANGED <<blocking, pc, task, costVars, relayed, reader, reportVars,
                 shadow, mongoAvailable>>

\* A finished task leaves `pending` and is reported.
Collect(a) ==
  /\ pc = "wave1" /\ a \in Pending
  /\ \/ /\ task[a] = "answered"
        /\ results' = results \cup {a}
        /\ events' = Append(events, [type |-> "agent", agent |-> a])
        /\ UNCHANGED errors
     \/ /\ task[a] = "failed"
        /\ errors' = errors \cup {a}
        /\ events' = Append(events, [type |-> "agent_error", agent |-> a])
        /\ UNCHANGED results
  /\ UNCHANGED <<blocking, pc, task, costVars, relayed, reader, reportVars,
                 shadow, mongoAvailable>>

-----------------------------------------------------------------------------
\* From the gate to the first await of _persist_report: the cost is read, the
\* last items are queued, the report is built.
Finish(penalised, verdict, items) ==
  /\ costMarker' = ledger'
  /\ events' = events \o items
  /\ report' = [agentResults |-> results, rawScore |-> Gated(FALSE),
                verdict |-> verdict,
                gatingScore |-> IF penalised THEN "adjusted" ELSE "raw",
                verified |-> penalised, costUsd |-> ledger']
  /\ pc' = IF mongoAvailable THEN "count" ELSE "done"
  /\ UNCHANGED <<waveVars, relayed, reader, stored, counted, shadow,
                 mongoAvailable>>

\* Mutants: the report gets the raw verdict; nobody closes the queue; there is
\* no final event.
ConcludeUngated(penalised) ==
  Finish(penalised, Gated(FALSE), <<FinalEvent(penalised), EndOfStream>>)
ConcludeOpen(penalised) ==
  Finish(penalised, Gated(penalised), <<FinalEvent(penalised)>>)
ConcludeQuietly(penalised) ==
  Finish(penalised, Gated(penalised), <<EndOfStream>>)

\* The gated score is announced and saved, and the stream ends.
Conclude(penalised) ==
  Finish(penalised, Gated(penalised), <<FinalEvent(penalised), EndOfStream>>)

\* Mutant: it does not wait for every agent.
AggregateEarly ==
  /\ pc = "wave1" /\ results # {} /\ ~blocking
  /\ UNCHANGED ledger
  /\ Conclude(FALSE)

\* Every agent is in: the raw score gates, unless the Verifier is asked first.
Aggregate ==
  /\ pc = "wave1" /\ Pending = {} /\ ~blocking
  /\ UNCHANGED ledger
  /\ Conclude(FALSE)

AskVerifier ==
  /\ pc = "wave1" /\ Pending = {} /\ blocking
  /\ pc' = "verify"
  /\ UNCHANGED <<waveVars, costVars, streamVars, reportVars, shadow,
                 mongoAvailable>>

VerifierAnswers ==
  /\ pc = "verify"
  /\ ledger' = ledger + 1
  /\ Conclude(TRUE)

\* The gate falls back on the raw score.
VerifierFails ==
  /\ pc = "verify"
  /\ ledger' \in {ledger, ledger + 1}
  /\ Conclude(FALSE)

-----------------------------------------------------------------------------
\* Mutant: the save stops with the reader.
CountForReader ==
  /\ pc = "count"
  /\ Returns
  /\ pc' = IF reader = "gone" THEN "done" ELSE "insert"
  /\ UNCHANGED <<waveVars, costVars, streamVars, reportVars, shadow>>

\* create_report counts the reports on the same idea, then inserts this one;
\* it does not look at the flag in between.
CountPrior ==
  /\ pc = "count"
  /\ \/ Returns /\ pc' = "insert"
     \/ Raises /\ pc' = "done"
  /\ UNCHANGED <<waveVars, costVars, streamVars, reportVars, shadow>>

\* The end of the finally block: the shadow Verifier of a saved report.
SpawnShadow == shadow' = IF blocking THEN "none" ELSE "running"

\* Mutant: the session's count grows whatever became of the insert.
InsertAndCount ==
  /\ pc = "insert"
  /\ \/ Returns /\ stored' = TRUE
     \/ Raises /\ stored' \in BOOLEAN
  /\ pc' = "increment"
  /\ UNCHANGED <<waveVars, costVars, streamVars, report, counted, shadow>>

InsertReport ==
  /\ pc = "insert"
  /\ \/ /\ Returns /\ mongoAvailable
        /\ stored' = TRUE /\ pc' = "increment" /\ UNCHANGED shadow
     \/ /\ Returns /\ ~mongoAvailable
        /\ stored' = TRUE /\ pc' = "done" /\ SpawnShadow
     \/ /\ Raises
        /\ stored' \in BOOLEAN /\ pc' = "done" /\ UNCHANGED shadow
  /\ UNCHANGED <<waveVars, costVars, streamVars, report, counted>>

\* session_repository.increment_report_count; a failure is swallowed.
IncrementCount ==
  /\ pc = "increment"
  /\ \/ Returns /\ counted' = counted + 1
     \/ Raises /\ counted' \in {counted, counted + 1}
  /\ pc' = "done" /\ SpawnShadow
  /\ UNCHANGED <<waveVars, costVars, streamVars, report, stored>>

-----------------------------------------------------------------------------
\* _run_verifier_shadow: the Verifier's call...
ShadowAnswers ==
  /\ shadow = "running"
  /\ ledger' = ledger + 1
  /\ shadow' = IF mongoAvailable THEN "patch" ELSE "done"
  /\ UNCHANGED <<runVars, costMarker, streamVars, reportVars, mongoAvailable>>

ShadowFails ==
  /\ shadow = "running"
  /\ ledger' \in {ledger, ledger + 1}
  /\ shadow' = "done"
  /\ UNCHANGED <<runVars, costMarker, streamVars, reportVars, mongoAvailable>>

\* Mutants: the whole ledger; the difference the wrong way round.
CostFromStart(marker) == ledger
CostBackwards(marker) == marker - ledger

\* What the ledger gained since costMarker.
CostSince(marker) == ledger - marker

\* ... and patch_verifier, which adds the cost of that call alone.
PatchVerifier ==
  /\ shadow = "patch"
  /\ shadow' = "done"
  /\ \/ /\ Returns \/ Raises
        /\ report' = [report EXCEPT !.verified = TRUE,
                                    !.costUsd = @ + CostSince(costMarker)]
     \/ Raises /\ UNCHANGED report
  /\ UNCHANGED <<runVars, costVars, streamVars, stored, counted>>

-----------------------------------------------------------------------------
\* The generator relays the next item; the sentinel makes it say [DONE].
Relay ==
  /\ reader = "listening" /\ relayed < Len(events)
  /\ relayed' = relayed + 1
  /\ reader' = IF events[relayed + 1].type = "end" THEN "ended" ELSE "listening"
  /\ UNCHANGED <<runVars, costVars, events, reportVars, shadow,
                 mongoAvailable>>

\* The client goes away.  Starlette drops the generator and nothing else.
Disconnect ==
  /\ pc # "idle" /\ reader = "listening"
  /\ reader' = "gone"
  /\ UNCHANGED <<runVars, costVars, events, relayed, reportVars, shadow,
                 mongoAvailable>>

\* A call of some other request raises.
MongoFails ==
  /\ MongoMayFail /\ mongoAvailable
  /\ mongoAvailable' = FALSE
  /\ UNCHANGED <<runVars, costVars, streamVars, reportVars, shadow>>

\* The process is killed, or cancels its tasks after closing MongoDB.
Die ==
  /\ ProcessMayDie /\ pc \notin {"idle", "dead"}
  /\ pc' = "dead"
  /\ shadow' = IF shadow \in {"running", "patch"} THEN "dead" ELSE shadow
  /\ task' = [a \in Agents |-> IF task[a] = "running" THEN "failed"
                              ELSE task[a]]
  /\ reader' = IF reader = "listening" THEN "gone" ELSE reader
  /\ mongoAvailable' = FALSE
  /\ UNCHANGED <<blocking, results, errors, costVars, events, relayed,
                 reportVars>>

AgentStep(a) == AgentAnswers(a) \/ AgentFails(a)

PipelineStep ==
  \/ \E a \in Agents : SpawnAgent(a) \/ Collect(a)
  \/ Aggregate \/ AskVerifier \/ VerifierAnswers \/ VerifierFails
  \/ CountPrior \/ InsertReport \/ IncrementCount

ShadowStep == ShadowAnswers \/ ShadowFails \/ PatchVerifier

Next ==
  \/ Analyze
  \/ \E a \in Agents : AgentStep(a)
  \/ PipelineStep
  \/ ShadowStep
  \/ Relay
  \/ Disconnect
  \/ MongoFails
  \/ Die

Spec == Init /\ [][Next]_vars

\* Groq calls have timeouts and bounded retries and MongoDB calls return or
\* raise; the event loop runs every task that can go on.
FairSpec ==
  /\ Spec
  /\ \A a \in Agents : WF_vars(AgentStep(a))
  /\ WF_vars(PipelineStep)
  /\ WF_vars(ShadowStep)
  /\ WF_vars(Relay)

-----------------------------------------------------------------------------
Announced == \E i \in DOMAIN events : events[i].type = "final"

\* Only a complete analysis is ever saved or announced: every agent has an
\* outcome, and the score aggregates the results of all that answered,
\* whatever order they came in and wherever the process died.
StoredIsComplete ==
  stored \/ Announced =>
    /\ \A a \in Agents : task[a] \in {"answered", "failed"}
    /\ report.agentResults = {a \in Agents : task[a] = "answered"}
    /\ report.rawScore = [of |-> report.agentResults, adjusted |-> FALSE]

\* The founder and the log see the same verdict: the final event's score is
\* the one the saved report was gated on, in shadow mode after the Verifier's
\* patch as much as before it.
FinalMatchesReport ==
  \A i \in DOMAIN events :
    events[i].type = "final" =>
      /\ events[i].score = report.verdict
      /\ events[i].score.adjusted <=> report.gatingScore = "adjusted"

\* "Rather than re-summing (and double-counting) the whole ledger": the saved
\* cost is that of every billed call once, the Verifier's with the Verifier's
\* output, in either mode.
CostCountedOnce ==
  stored => report.costUsd = IF report.verified THEN ledger ELSE costMarker

\* The session's count never runs ahead of its reports.
CountedIsStored == counted =< (IF stored THEN 1 ELSE 0)

\* A stream that ends with [DONE] has carried one event for each agent, then
\* the final event: nothing is missing, repeated or late.
OutcomeEvents(a) ==
  {i \in 1 .. relayed : events[i].type \in {"agent", "agent_error"}
                        /\ events[i].agent = a}
StreamIsWhole ==
  reader = "ended" =>
    /\ \A a \in Agents : \E i \in 1 .. relayed : OutcomeEvents(a) = {i}
    /\ \E i \in 1 .. relayed : /\ events[i].type = "final"
                               /\ \A a \in Agents :
                                    \A j \in OutcomeEvents(a) : j < i

\* A pipeline that ran to its end has saved its report and counted it, once, or
\* MongoDB has failed: no order of the save's three calls loses one silently.
SavedWhenDone == pc = "done" /\ mongoAvailable => stored /\ counted = 1

\* Nothing is waited for that never comes: while agents are being spawned one
\* is left to spawn, every agent waited for was spawned, and once the pipeline
\* is through, a client still listening has more to take.
NobodyWaitsInVain ==
  /\ pc = "spawn" => \E a \in Agents : task[a] = "none"
  /\ pc = "wave1" => \A a \in Pending : task[a] # "none"
  /\ pc = "done" /\ reader = "listening" => relayed < Len(events)

\* "Disconnecting does not stop the save": an accepted analysis ends with its
\* report saved, unless MongoDB or the process fails.
ReportIsSaved == pc = "spawn" ~> stored \/ ~mongoAvailable

\* The generator "unblocks": a client that goes on listening gets its [DONE].
StreamEnds == pc = "spawn" ~> reader # "listening"

-----------------------------------------------------------------------------
Outcome ==
  CASE pc = "idle" -> "absent"
    [] stored -> "saved"
    [] ~stored /\ Announced ->
         IF pc \in {"done", "dead"} THEN "unsaved" ELSE "announced"
    [] OTHER -> IF pc = "dead" THEN "failed" ELSE "pending"

Promise == INSTANCE Analysis WITH outcome <- Outcome

ImplementsAnalysis == Promise!Spec
=============================================================================
