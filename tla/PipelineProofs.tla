--------------------------- MODULE PipelineProofs ---------------------------
(***************************************************************************)
(* Proofs about Pipeline, for any agents, either mode of the Verifier and  *)
(* every fault: types, what is announced and saved, the cost, the count,   *)
(* and that the pipeline keeps the promise of Analysis.                    *)
(***************************************************************************)
EXTENDS Pipeline, SequenceTheorems, TLAPS

Scoring == pc \in {"idle", "spawn", "wave1", "verify"}

\* What has been collected is what the tasks came to; from the gate on, it is
\* everything.
WaveInOrder ==
  /\ \A a \in results : task[a] = "answered"
  /\ \A a \in errors : task[a] = "failed"
  /\ pc \in {"verify", "count", "insert", "increment", "done"} \/ Announced
       => results \cup errors = Agents
  /\ pc = "verify" => blocking

\* Nothing is announced or saved before the gate, and nothing is saved that is
\* not announced; the shadow Verifier comes last.
SavingInOrder ==
  /\ Scoring => ~Announced /\ ~stored /\ counted = 0
  /\ pc \in {"count", "insert"} => ~stored /\ counted = 0
  /\ pc = "increment" => stored /\ counted = 0
  /\ pc \in {"count", "insert", "increment", "done"} \/ stored => Announced
  /\ shadow # "none" => stored /\ pc \in {"done", "dead"} /\ ~blocking
  /\ counted > 0 => counted = 1 /\ stored

\* The report, once built, is of the collected results.
ReportInOrder ==
  Announced => /\ report.agentResults = results
               /\ report.rawScore = Gated(FALSE)

\* The ledger is as long as the marker until the shadow Verifier has been
\* billed, and after that nothing is billed any more; the Verifier's output is
\* in the report from the gate on, or since the shadow Verifier is done.
CostInOrder ==
  /\ ~report.verified => report.costUsd = costMarker
  /\ report.verified => report.costUsd = ledger /\ Announced
  /\ Announced /\ shadow \in {"none", "running"} => ledger = costMarker
  /\ report.verified => blocking \/ shadow = "done"

IInv ==
  /\ TypeOK
  /\ WaveInOrder
  /\ SavingInOrder
  /\ ReportInOrder
  /\ FinalMatchesReport
  /\ CostInOrder

USE FlagAssumption, AgentsAssumption

-----------------------------------------------------------------------------
\* An item that is not the final event announces nothing.
LEMMA AppendKeeps ==
  ASSUME events \in Seq(Event), NEW e \in Event, e.type # "final",
         events' = Append(events, e)
  PROVE  /\ events' \in Seq(Event)
         /\ Announced' <=> Announced
         /\ UNCHANGED report /\ FinalMatchesReport => FinalMatchesReport'
<1>1. /\ events' \in Seq(Event)
      /\ Len(events') = Len(events) + 1
      /\ \A i \in 1 .. Len(events) : events'[i] = events[i]
      /\ events'[Len(events) + 1] = e
  OBVIOUS
<1>2. /\ DOMAIN events = 1 .. Len(events)
      /\ DOMAIN events' = 1 .. Len(events) + 1
      /\ Len(events) \in Nat
  BY <1>1
<1>3. \A i \in DOMAIN events' :
        events'[i].type = "final" => i \in DOMAIN events /\ events'[i] = events[i]
  BY <1>1, <1>2
<1>4. \A i \in DOMAIN events : i \in DOMAIN events' /\ events'[i] = events[i]
  BY <1>1, <1>2
<1>5. Announced' <=> Announced
  BY <1>3, <1>4 DEF Announced
<1>6. ASSUME UNCHANGED report, FinalMatchesReport
      PROVE  FinalMatchesReport'
  BY <1>3, <1>6 DEF FinalMatchesReport
<1>7. QED
  BY <1>1, <1>5, <1>6

\* The last two items announce the verdict that the report is gated on.
LEMMA FinishAnnounces ==
  ASSUME TypeOK, ~Announced, NEW penalised \in BOOLEAN, Conclude(penalised)
  PROVE  events' \in Seq(Event) /\ Announced' /\ FinalMatchesReport'
<1> DEFINE items == <<FinalEvent(penalised), EndOfStream>>
<1>1. Gated(penalised) \in Score
  BY DEF TypeOK, Gated, Score
<1>2. FinalEvent(penalised) \in Event /\ EndOfStream \in Event
  BY <1>1 DEF FinalEvent, EndOfStream, Event
<1>3. events' = events \o items
  BY DEF Conclude, Finish
<1>4. /\ events \in Seq(Event) /\ items \in Seq(Event)
      /\ Len(items) = 2
      /\ items[1] = FinalEvent(penalised) /\ items[2] = EndOfStream
  BY <1>2 DEF TypeOK
<1>5. /\ events' \in Seq(Event)
      /\ DOMAIN events = 1 .. Len(events) /\ Len(events) \in Nat
      /\ DOMAIN events' = 1 .. Len(events) + 2
      /\ \A i \in 1 .. Len(events) : events'[i] = events[i]
      /\ events'[Len(events) + 1] = FinalEvent(penalised)
      /\ events'[Len(events) + 2] = EndOfStream
  <2> HIDE DEF items
  <2>1. /\ events \o items \in Seq(Event)
        /\ Len(events \o items) = Len(events) + 2
        /\ \A i \in 1 .. Len(events) + 2 :
             (events \o items)[i] =
               IF i <= Len(events) THEN events[i] ELSE items[i - Len(events)]
    <3>1. /\ events \o items \in Seq(Event)
          /\ Len(events \o items) = Len(events) + Len(items)
          /\ \A i \in 1 .. Len(events) + Len(items) :
               (events \o items)[i] =
                 IF i <= Len(events) THEN events[i] ELSE items[i - Len(events)]
      BY <1>4, ConcatProperties, Zenon
    <3>2. QED
      BY <1>4, <3>1
  <2>2. /\ Len(events) \in Nat /\ DOMAIN events = 1 .. Len(events)
        /\ DOMAIN events' = 1 .. Len(events) + 2
    BY <1>3, <1>4, <2>1
  <2>3. /\ \A i \in 1 .. Len(events) : events'[i] = events[i]
        /\ events'[Len(events) + 1] = items[1]
        /\ events'[Len(events) + 2] = items[2]
    BY <1>3, <2>1, <2>2
  <2>4. QED
    BY <1>3, <1>4, <2>1, <2>2, <2>3
<1>6. /\ FinalEvent(penalised).type = "final"
      /\ FinalEvent(penalised).score = Gated(penalised)
      /\ EndOfStream.type # "final"
  BY DEF FinalEvent, EndOfStream
<1>7. Announced'
  BY <1>5, <1>6 DEF Announced
<1>8. \A i \in DOMAIN events' :
        events'[i].type = "final" => events'[i] = FinalEvent(penalised)
  BY <1>5, <1>6 DEF Announced
<1>9. /\ report'.verdict = Gated(penalised)
      /\ report'.gatingScore = IF penalised THEN "adjusted" ELSE "raw"
  BY DEF Conclude, Finish
<1>10. Gated(penalised).adjusted = penalised
  BY DEF Gated
<1>11. FinalMatchesReport'
  BY <1>6, <1>8, <1>9, <1>10 DEF FinalMatchesReport
<1>12. QED
  BY <1>5, <1>7, <1>11

\* A step that leaves the queue and the report alone.
LEMMA StreamUntouched ==
  ASSUME UNCHANGED <<events, report>>
  PROVE  /\ Announced' <=> Announced
         /\ FinalMatchesReport' <=> FinalMatchesReport
BY DEF Announced, FinalMatchesReport

-----------------------------------------------------------------------------
LEMMA InvariantInit == Init => IInv
<1> SUFFICES ASSUME Init PROVE IInv
  OBVIOUS
<1>1. Unscored \in Score
  BY DEF Unscored, Score
<1>2. TypeOK
  <2>1. report \in Report
    BY <1>1 DEF Init, Report
  <2>2. events \in Seq(Event)
    BY DEF Init
  <2>3. QED
    BY <2>1, <2>2 DEF Init, TypeOK
<1>3. ~Announced /\ FinalMatchesReport
  BY DEF Init, Announced, FinalMatchesReport
<1>4. WaveInOrder /\ SavingInOrder /\ ReportInOrder
  <2>1. WaveInOrder /\ ReportInOrder
    BY <1>3 DEF Init, WaveInOrder, ReportInOrder
  <2>2. SavingInOrder
    BY <1>3 DEF Init, SavingInOrder, Scoring
  <2>3. QED
    BY <2>1, <2>2
<1>5. CostInOrder
  <2>1. report.verified = FALSE /\ report.costUsd = 0 /\ costMarker = 0
    BY DEF Init
  <2>2. QED
    BY <1>3, <2>1 DEF Init, CostInOrder
<1>6. QED
  BY <1>2, <1>3, <1>4, <1>5 DEF IInv

LEMMA AgentStepKeeps ==
  ASSUME IInv, NEW a \in Agents, AgentStep(a)
  PROVE  IInv'
<1> USE DEF IInv, waveVars, costVars, streamVars, reportVars
<1>1. /\ task[a] = "running" /\ a \notin results \cup errors
      /\ task' \in [Agents -> {"none", "running", "answered", "failed"}]
      /\ \A b \in Agents \ {a} : task'[b] = task[b]
      /\ ledger' \in Nat
      /\ UNCHANGED <<blocking, pc, results, errors, costMarker, events, relayed,
                     reader, report, stored, counted, shadow, mongoAvailable>>
  BY DEF AgentStep, AgentAnswers, AgentFails, TypeOK, WaveInOrder
<1>2. TypeOK'
  BY <1>1 DEF TypeOK
<1>3. ~Announced
  BY <1>1 DEF WaveInOrder
<1>4. (Announced' <=> Announced) /\ (FinalMatchesReport' <=> FinalMatchesReport)
  BY <1>1, StreamUntouched
<1>5. WaveInOrder'
  BY <1>1, <1>4 DEF WaveInOrder, TypeOK
<1>6. SavingInOrder' /\ ReportInOrder'
  BY <1>1, <1>3, <1>4 DEF SavingInOrder, ReportInOrder, Scoring
<1>7. CostInOrder'
  BY <1>1, <1>3, <1>4 DEF CostInOrder, SavingInOrder
<1>8. QED
  BY <1>2, <1>4, <1>5, <1>6, <1>7

LEMMA ConcludeKeeps ==
  ASSUME IInv, NEW penalised \in BOOLEAN, Conclude(penalised), Scoring,
         pc = "verify" \/ Pending = {}, pc \in {"wave1", "verify"}, ledger' \in Nat,
         penalised => blocking
  PROVE  IInv'
<1> USE DEF IInv, waveVars, costVars, streamVars, reportVars
<1>1. /\ ~Announced /\ ~stored /\ counted = 0 /\ shadow = "none"
      /\ results \cup errors = Agents
  BY DEF SavingInOrder, WaveInOrder, Pending, TypeOK, Scoring
<1>2. events' \in Seq(Event) /\ Announced' /\ FinalMatchesReport'
  BY <1>1, FinishAnnounces
<1>3. /\ costMarker' = ledger'
      /\ report' = [agentResults |-> results, rawScore |-> Gated(FALSE),
                    verdict |-> Gated(penalised),
                    gatingScore |-> IF penalised THEN "adjusted" ELSE "raw",
                    verified |-> penalised, costUsd |-> ledger']
      /\ pc' \in {"count", "done"}
      /\ UNCHANGED <<blocking, task, results, errors, relayed, reader, stored,
                     counted, shadow, mongoAvailable>>
  BY DEF Conclude, Finish
<1>4. Gated(FALSE) \in Score /\ Gated(penalised) \in Score
  BY DEF Gated, Score, TypeOK
<1>5. TypeOK'
  BY <1>2, <1>3, <1>4 DEF TypeOK, Report
<1>6. WaveInOrder' /\ SavingInOrder' /\ ReportInOrder'
  BY <1>1, <1>2, <1>3
  DEF WaveInOrder, SavingInOrder, ReportInOrder, Scoring, Gated
<1>7. CostInOrder'
  BY <1>1, <1>2, <1>3 DEF CostInOrder
<1>8. QED
  BY <1>2, <1>5, <1>6, <1>7

\* A step that puts nothing on the queue.
Quiet ==
  \/ \E a \in Agents : SpawnAgent(a)
  \/ AskVerifier \/ CountPrior \/ InsertReport \/ IncrementCount
  \/ ShadowAnswers \/ ShadowFails \/ Relay \/ Disconnect \/ MongoFails \/ Die
  \/ UNCHANGED vars

LEMMA QuietKeeps ==
  ASSUME IInv, Quiet
  PROVE  IInv'
<1> USE DEF IInv, waveVars, runVars, costVars, streamVars, reportVars, Returns,
            Raises, SpawnShadow
<1>1. UNCHANGED <<events, report>>
  BY DEF Quiet, SpawnAgent, AskVerifier, CountPrior, InsertReport, IncrementCount,
         ShadowAnswers, ShadowFails, Relay, Disconnect, MongoFails, Die, vars
<1>2. (Announced' <=> Announced) /\ FinalMatchesReport'
  BY <1>1, StreamUntouched
<1>3. ASSUME NEW a \in Agents, SpawnAgent(a)
      PROVE  IInv'
  <2>1. TypeOK'
    BY <1>3 DEF SpawnAgent, TypeOK
  <2>2. a \notin results \cup errors /\ ~Announced
    BY <1>3 DEF SpawnAgent, WaveInOrder, SavingInOrder, Scoring
  <2>3. WaveInOrder'
    BY <1>2, <1>3, <2>2 DEF SpawnAgent, WaveInOrder, TypeOK
  <2>4. SavingInOrder' /\ ReportInOrder' /\ CostInOrder'
    BY <1>2, <1>3, <2>2
    DEF SpawnAgent, SavingInOrder, ReportInOrder, CostInOrder, Scoring
  <2>5. QED
    BY <1>2, <2>1, <2>3, <2>4
<1>4. CASE AskVerifier
  BY <1>2, <1>4 DEF AskVerifier, TypeOK, WaveInOrder, SavingInOrder, ReportInOrder,
                    CostInOrder, Scoring, Pending, Gated
<1>5. CASE CountPrior
  BY <1>2, <1>5 DEF CountPrior, TypeOK, WaveInOrder, SavingInOrder, ReportInOrder,
                    CostInOrder, Scoring, Gated
<1>6. CASE InsertReport
  <2>1. TypeOK'
    BY <1>6 DEF InsertReport, TypeOK
  <2>2. WaveInOrder' /\ ReportInOrder'
    BY <1>2, <1>6 DEF InsertReport, WaveInOrder, ReportInOrder, Gated
  <2>3. /\ pc = "insert" /\ pc' \in {"increment", "done"}
        /\ shadow = "none" /\ counted = 0 /\ counted' = 0 /\ Announced
        /\ UNCHANGED <<blocking, ledger, costMarker, report>>
        /\ \/ shadow' = "none"
           \/ shadow' = "running" /\ ~blocking /\ stored' /\ pc' = "done"
        /\ pc' = "increment" => stored'
    BY <1>6 DEF InsertReport, SavingInOrder
  <2>4. SavingInOrder' /\ CostInOrder'
    BY <1>2, <2>3 DEF SavingInOrder, CostInOrder, Scoring
  <2>5. QED
    BY <1>2, <2>1, <2>2, <2>4
<1>7. CASE IncrementCount
  <2>1. TypeOK'
    <3>1. counted' \in Nat
      BY <1>7 DEF IncrementCount, TypeOK
    <3>2. QED
      BY <1>7, <3>1 DEF IncrementCount, TypeOK
  <2>2. WaveInOrder' /\ ReportInOrder'
    BY <1>2, <1>7 DEF IncrementCount, WaveInOrder, ReportInOrder, Gated
  <2>3. /\ pc = "increment" /\ pc' = "done" /\ shadow = "none"
        /\ counted' \in {0, 1} /\ stored /\ stored' /\ Announced
        /\ UNCHANGED <<blocking, ledger, costMarker, report>>
        /\ shadow' = IF blocking THEN "none" ELSE "running"
    BY <1>7 DEF IncrementCount, SavingInOrder
  <2>4. SavingInOrder' /\ CostInOrder'
    BY <1>2, <2>3 DEF SavingInOrder, CostInOrder, Scoring
  <2>5. QED
    BY <1>2, <2>1, <2>2, <2>4
<1>8. CASE ShadowAnswers \/ ShadowFails
  <2>1. TypeOK' /\ shadow = "running" /\ shadow' \in {"patch", "done"}
    BY <1>8 DEF ShadowAnswers, ShadowFails, TypeOK
  <2>2. UNCHANGED <<blocking, pc, task, results, errors, costMarker, stored, counted>>
    BY <1>8 DEF ShadowAnswers, ShadowFails
  <2>3. QED
    BY <1>1, <1>2, <2>1, <2>2
    DEF WaveInOrder, SavingInOrder, ReportInOrder, CostInOrder, Scoring, Gated
<1>9. CASE Relay \/ Disconnect \/ MongoFails \/ UNCHANGED vars
  <2>1. TypeOK'
    <3>1. CASE Relay
      BY <3>1 DEF Relay, TypeOK
    <3>2. CASE Disconnect \/ MongoFails
      BY <3>2 DEF Disconnect, MongoFails, TypeOK
    <3>3. CASE UNCHANGED vars
      BY <3>3 DEF TypeOK, vars
    <3>4. QED
      BY <1>9, <3>1, <3>2, <3>3
  <2>2. UNCHANGED <<blocking, pc, task, results, errors, costVars, report, stored,
                    counted, shadow>>
    BY <1>9 DEF Relay, Disconnect, MongoFails, vars
  <2>3. QED
    BY <1>2, <2>1, <2>2
    DEF WaveInOrder, SavingInOrder, ReportInOrder, CostInOrder, Scoring, Gated
<1>10. CASE Die
  <2>1. /\ pc' = "dead" /\ pc # "idle"
        /\ \A a \in Agents : task[a] # "running" => task'[a] = task[a]
        /\ \/ shadow' = shadow
           \/ shadow' = "dead" /\ shadow \notin {"none", "done"}
        /\ shadow' \in {"none", "done", "dead"}
        /\ UNCHANGED <<blocking, results, errors, costVars, report, stored,
                       counted>>
    BY <1>10 DEF Die, TypeOK
  <2>2. TypeOK'
    BY <1>10 DEF Die, TypeOK
  <2>3. WaveInOrder' /\ ReportInOrder'
    BY <1>2, <2>1 DEF WaveInOrder, ReportInOrder, Gated, TypeOK
  <2>4. SavingInOrder' /\ CostInOrder'
    BY <1>2, <2>1 DEF SavingInOrder, CostInOrder, Scoring, TypeOK
  <2>5. QED
    BY <1>2, <2>2, <2>3, <2>4
<1>11. QED
  BY <1>3, <1>4, <1>5, <1>6, <1>7, <1>8, <1>9, <1>10 DEF Quiet

LEMMA InvariantStep ==
  ASSUME IInv, [Next]_vars
  PROVE  IInv'
<1> USE DEF IInv, waveVars, runVars, costVars, streamVars, reportVars
<1>1. CASE Analyze
  <2>1. [type |-> "signal_quality"] \in Event
    BY DEF Event
  <2>2. events' = <<[type |-> "signal_quality"]>>
    BY <1>1 DEF Analyze
  <2>3. /\ events' \in Seq(Event) /\ DOMAIN events' = {1}
        /\ events'[1].type # "final"
    BY <2>1, <2>2
  <2>4. ~Announced' /\ FinalMatchesReport'
    BY <2>3 DEF Announced, FinalMatchesReport
  <2>5. TypeOK'
    BY <1>1, <2>3 DEF Analyze, TypeOK
  <2>6. WaveInOrder' /\ SavingInOrder' /\ ReportInOrder'
    BY <1>1, <2>4
    DEF Analyze, WaveInOrder, SavingInOrder, ReportInOrder, Scoring
  <2>7. CostInOrder'
    BY <1>1, <2>4 DEF Analyze, CostInOrder, SavingInOrder, Scoring
  <2>8. QED
    BY <2>4, <2>5, <2>6, <2>7
<1>2. ASSUME NEW a \in Agents, Collect(a)
      PROVE  IInv'
  <2>1. PICK e \in Event : e.type # "final" /\ events' = Append(events, e)
    BY <1>2 DEF Collect, Event
  <2>2. /\ pc = "wave1" /\ ~Announced
        /\ UNCHANGED <<blocking, pc, task, costVars, relayed, reader, report,
                       stored, counted, shadow, mongoAvailable>>
        /\ \/ task[a] = "answered" /\ results' = results \cup {a} /\ errors' = errors
           \/ task[a] = "failed" /\ errors' = errors \cup {a} /\ results' = results
    BY <1>2 DEF Collect, SavingInOrder, Scoring
  <2>3. events' \in Seq(Event) /\ ~Announced' /\ FinalMatchesReport'
    BY <2>1, <2>2, AppendKeeps DEF TypeOK
  <2>4. TypeOK'
    BY <2>2, <2>3 DEF TypeOK
  <2>5. WaveInOrder'
    BY <2>2, <2>3 DEF WaveInOrder
  <2>6. SavingInOrder' /\ ReportInOrder'
    BY <2>2, <2>3 DEF SavingInOrder, ReportInOrder, Scoring
  <2>7. CostInOrder'
    BY <2>2, <2>3 DEF CostInOrder
  <2>8. QED
    BY <2>3, <2>4, <2>5, <2>6, <2>7
<1>3. CASE Aggregate \/ VerifierAnswers \/ VerifierFails
  <2>1. PICK penalised \in BOOLEAN :
          Conclude(penalised) /\ (penalised => blocking)
    BY <1>3 DEF Aggregate, VerifierAnswers, VerifierFails, WaveInOrder
  <2>2. /\ pc \in {"wave1", "verify"} /\ (pc = "verify" \/ Pending = {})
        /\ ledger' \in Nat
    <3>1. CASE Aggregate
      BY <3>1 DEF Aggregate, TypeOK
    <3>2. CASE VerifierAnswers
      BY <3>2 DEF VerifierAnswers, TypeOK
    <3>3. CASE VerifierFails
      BY <3>3 DEF VerifierFails, TypeOK
    <3>4. QED
      BY <1>3, <3>1, <3>2, <3>3
  <2>3. QED
    BY <2>1, <2>2, ConcludeKeeps DEF Scoring
<1>4. CASE PatchVerifier
  <2>1. /\ shadow = "patch" /\ shadow' = "done"
        /\ report.verified = FALSE /\ report.costUsd = costMarker
        /\ stored /\ Announced
        /\ UNCHANGED <<blocking, pc, task, results, errors, costVars, events,
                       relayed, reader, stored, counted>>
    BY <1>4 DEF PatchVerifier, CostInOrder, SavingInOrder, TypeOK, Report
  <2>2. report' = report \/
        report' = [report EXCEPT !.verified = TRUE, !.costUsd = ledger]
    <3>1. report.costUsd + (ledger - costMarker) = ledger
      BY <2>1 DEF TypeOK
    <3>2. QED
      BY <1>4, <3>1 DEF PatchVerifier, CostSince
  <2>3. report' \in Report /\ mongoAvailable' \in BOOLEAN
    BY <1>4, <2>2 DEF TypeOK, Report, PatchVerifier, Returns, Raises
  <2>4. /\ report'.agentResults = report.agentResults
        /\ report'.rawScore = report.rawScore /\ report'.verdict = report.verdict
        /\ report'.gatingScore = report.gatingScore
        /\ \/ report'.verified = FALSE /\ report'.costUsd = costMarker
           \/ report'.verified = TRUE /\ report'.costUsd = ledger
    BY <2>1, <2>2 DEF TypeOK, Report
  <2>5. Announced' /\ FinalMatchesReport'
    BY <2>1, <2>4 DEF Announced, FinalMatchesReport
  <2>6. TypeOK'
    BY <2>1, <2>3 DEF TypeOK
  <2>7. WaveInOrder' /\ SavingInOrder' /\ ReportInOrder' /\ CostInOrder'
    BY <2>1, <2>4, <2>5
    DEF WaveInOrder, SavingInOrder, ReportInOrder, CostInOrder, Scoring, Gated
  <2>8. QED
    BY <2>5, <2>6, <2>7
<1>5. CASE Quiet
  BY <1>5, QuietKeeps
<1>6. QED
  BY <1>1, <1>2, <1>3, <1>4, <1>5, AgentStepKeeps
  DEF Next, PipelineStep, ShadowStep, Quiet

-----------------------------------------------------------------------------
THEOREM Invariant == Spec => []IInv
<1>1. Init => IInv
  BY InvariantInit
<1>2. IInv /\ [Next]_vars => IInv'
  BY InvariantStep
<1>3. QED
  BY <1>1, <1>2, PTL DEF Spec
-----------------------------------------------------------------------------
\* Every variable keeps its type: in particular the saved cost stays a natural
\* number through the shadow Verifier's patch.
THEOREM TypeCorrect == Spec => []TypeOK
<1>1. IInv => TypeOK
  BY DEF IInv
<1>2. QED
  BY <1>1, Invariant, PTL

\* Only a complete analysis is announced or saved, whatever order the agents
\* come in and wherever the process dies.
THEOREM StoredIsCompleteHolds == Spec => []StoredIsComplete
<1>1. ASSUME IInv, Announced
      PROVE  /\ \A a \in Agents : task[a] \in {"answered", "failed"}
             /\ report.agentResults = {a \in Agents : task[a] = "answered"}
             /\ report.rawScore = [of |-> report.agentResults, adjusted |-> FALSE]
  <2>1. /\ \A a \in results : task[a] = "answered"
        /\ \A a \in errors : task[a] = "failed"
        /\ results \cup errors = Agents
    BY <1>1 DEF IInv, WaveInOrder
  <2>2. report.agentResults = results /\ report.rawScore = Gated(FALSE)
    BY <1>1 DEF IInv, ReportInOrder
  <2>3. results = {a \in Agents : task[a] = "answered"}
    BY <2>1
  <2>4. QED
    BY <2>1, <2>2, <2>3 DEF Gated
<1>2. IInv => (stored => Announced)
  BY DEF IInv, SavingInOrder
<1>3. IInv => StoredIsComplete
  BY <1>1, <1>2 DEF StoredIsComplete
<1>4. QED
  BY <1>3, Invariant, PTL

\* The final event and the saved report carry the same verdict, in either mode
\* of the Verifier.
THEOREM FinalMatchesReportHolds == Spec => []FinalMatchesReport
<1>1. IInv => FinalMatchesReport
  BY DEF IInv
<1>2. QED
  BY <1>1, Invariant, PTL

\* The saved cost is that of every billed call once.
THEOREM CostCountedOnceHolds == Spec => []CostCountedOnce
<1>1. IInv => CostCountedOnce
  BY DEF IInv, CostInOrder, CostCountedOnce
<1>2. QED
  BY <1>1, Invariant, PTL

\* The session's count never runs ahead of its reports.
THEOREM CountedIsStoredHolds == Spec => []CountedIsStored
<1>1. ASSUME IInv PROVE CountedIsStored
  <2>1. counted \in Nat /\ (counted > 0 => counted = 1 /\ stored)
    BY <1>1 DEF IInv, TypeOK, SavingInOrder
  <2>2. QED
    BY <2>1 DEF CountedIsStored
<1>2. QED
  BY <1>1, Invariant, PTL

-----------------------------------------------------------------------------
\* A step that leaves these alone is invisible to Analysis.
LEMMA OutcomeKept ==
  ASSUME UNCHANGED <<pc, stored>>, Announced' <=> Announced
  PROVE  Outcome' = Outcome
BY DEF Outcome

\* Every step of the pipeline is a step of Analysis or a stutter.
LEMMA RefinementStep ==
  ASSUME IInv, IInv', [Next]_vars
  PROVE  [Promise!Next]_Outcome
<1> USE DEF waveVars, runVars, costVars, streamVars, reportVars, Returns, Raises
<1>1. /\ SavingInOrder /\ SavingInOrder'
      /\ stored \in BOOLEAN /\ TypeOK
  BY DEF IInv, TypeOK
<1>2. CASE Analyze
  <2>1. /\ pc = "idle" /\ pc' = "spawn"
        /\ ~stored /\ ~Announced /\ ~stored' /\ ~Announced'
    BY <1>1, <1>2 DEF Analyze, SavingInOrder, Scoring
  <2>2. Outcome = "absent" /\ Outcome' = "pending"
    BY <2>1 DEF Outcome
  <2>3. QED
    BY <2>2 DEF Promise!Next, Promise!Accept
<1>3. ASSUME NEW a \in Agents, SpawnAgent(a) \/ AgentStep(a) \/ Collect(a)
      PROVE  Outcome' = Outcome
  <2>1. CASE SpawnAgent(a)
    <3>1. pc = "spawn" /\ pc' \in {"spawn", "wave1"}
      BY <2>1 DEF SpawnAgent
    <3>2. ~stored /\ ~Announced /\ ~stored' /\ ~Announced'
      BY <1>1, <3>1 DEF SavingInOrder, Scoring
    <3>3. QED
      BY <3>1, <3>2 DEF Outcome
  <2>2. CASE AgentStep(a)
    <3>1. UNCHANGED <<pc, stored, events, report>>
      BY <2>2 DEF AgentStep, AgentAnswers, AgentFails
    <3>2. QED
      BY <3>1, StreamUntouched, OutcomeKept
  <2>3. CASE Collect(a)
    <3>1. pc = "wave1" /\ UNCHANGED <<pc, stored>>
      BY <2>3 DEF Collect
    <3>2. ~Announced /\ ~Announced'
      BY <1>1, <3>1 DEF SavingInOrder, Scoring
    <3>3. QED
      BY <3>1, <3>2, OutcomeKept
  <2>4. QED
    BY <1>3, <2>1, <2>2, <2>3
<1>4. CASE AskVerifier
  <2>1. pc = "wave1" /\ pc' = "verify"
    BY <1>4 DEF AskVerifier
  <2>2. ~stored /\ ~Announced /\ ~stored' /\ ~Announced'
    BY <1>1, <2>1 DEF SavingInOrder, Scoring
  <2>3. QED
    BY <2>1, <2>2 DEF Outcome
<1>5. CASE Aggregate \/ VerifierAnswers \/ VerifierFails
  <2>1. /\ pc \in {"wave1", "verify"} /\ pc' \in {"count", "done"}
        /\ stored' = stored
    BY <1>5 DEF Aggregate, VerifierAnswers, VerifierFails, Conclude, Finish
  <2>2. ~stored /\ ~Announced /\ ~stored' /\ Announced'
    BY <1>1, <2>1 DEF SavingInOrder, Scoring
  <2>3. Outcome = "pending" /\ Outcome' \in {"announced", "unsaved"}
    BY <2>1, <2>2 DEF Outcome
  <2>4. QED
    BY <2>3 DEF Promise!Next, Promise!Announce
<1>6. CASE CountPrior
  <2>1. /\ pc = "count" /\ pc' \in {"insert", "done"} /\ stored' = stored
        /\ UNCHANGED <<events, report>>
    BY <1>6 DEF CountPrior
  <2>2. ~stored /\ ~stored' /\ Announced /\ Announced'
    BY <1>1, <2>1 DEF SavingInOrder
  <2>3. Outcome = "announced" /\ Outcome' \in {"announced", "unsaved"}
    BY <2>1, <2>2 DEF Outcome
  <2>4. QED
    BY <2>3 DEF Promise!Next, Promise!GiveUp
<1>7. CASE InsertReport
  <2>1. /\ pc = "insert" /\ pc' \in {"increment", "done"}
        /\ stored' \/ pc' = "done"
    BY <1>7 DEF InsertReport
  <2>2. ~stored /\ Announced /\ Announced'
    BY <1>1, <2>1 DEF SavingInOrder
  <2>3. Outcome = "announced" /\ Outcome' \in {"saved", "unsaved"}
    BY <2>1, <2>2 DEF Outcome
  <2>4. QED
    BY <2>3 DEF Promise!Next, Promise!Save, Promise!GiveUp
<1>8. CASE IncrementCount
  <2>1. pc = "increment" /\ pc' = "done" /\ stored' = stored
    BY <1>8 DEF IncrementCount
  <2>2. stored /\ stored'
    BY <1>1, <2>1 DEF SavingInOrder
  <2>3. QED
    BY <2>1, <2>2 DEF Outcome
<1>9. CASE Die
  <2>1. /\ pc \notin {"idle", "dead"} /\ pc' = "dead"
        /\ UNCHANGED <<stored, events, report>>
    BY <1>9 DEF Die
  <2>2. Announced' <=> Announced
    BY <2>1, StreamUntouched
  <2>3. CASE stored
    BY <2>1, <2>3 DEF Outcome
  <2>4. CASE ~stored /\ Announced
    <3>1. Outcome \in {"announced", "unsaved"} /\ Outcome' = "unsaved"
      BY <2>1, <2>2, <2>4 DEF Outcome
    <3>2. QED
      BY <3>1 DEF Promise!Next, Promise!GiveUp
  <2>5. CASE ~stored /\ ~Announced
    <3>1. Outcome = "pending" /\ Outcome' = "failed"
      BY <2>1, <2>2, <2>5 DEF Outcome
    <3>2. QED
      BY <3>1 DEF Promise!Next, Promise!Fail
  <2>6. QED
    BY <2>3, <2>4, <2>5
<1>10. CASE ShadowStep \/ Relay \/ Disconnect \/ MongoFails \/ UNCHANGED vars
  <2>1. UNCHANGED <<pc, stored, events>>
    BY <1>10 DEF ShadowStep, ShadowAnswers, ShadowFails, PatchVerifier, Relay,
                 Disconnect, MongoFails, vars
  <2>2. Announced' <=> Announced
    BY <2>1 DEF Announced
  <2>3. QED
    BY <2>1, <2>2, OutcomeKept
<1>11. QED
  BY <1>2, <1>3, <1>4, <1>5, <1>6, <1>7, <1>8, <1>9, <1>10
  DEF Next, PipelineStep

\* The pipeline keeps the promise of Analysis: the announcement comes before
\* the save, the save happens at most once, and an analysis that was announced
\* never turns into a failed one.
THEOREM Refinement == Spec => ImplementsAnalysis
<1>1. Init => Promise!Init
  <2>1. Init => pc = "idle" /\ ~stored /\ ~Announced
    BY DEF Init, Announced
  <2>2. QED
    BY <2>1 DEF Promise!Init, Outcome
<1>2. IInv /\ IInv' /\ [Next]_vars => [Promise!Next]_Outcome
  BY RefinementStep
<1>3. QED
  BY <1>1, <1>2, Invariant, PTL DEF Spec, ImplementsAnalysis, Promise!Spec

-----------------------------------------------------------------------------
IsOutcome(e, a) == e.type \in {"agent", "agent_error"} /\ e.agent = a

\* The queue has one item for each agent collected.
OutcomesQueued ==
  /\ \A a \in results \cup errors : \E i \in DOMAIN events : IsOutcome(events[i], a)
  /\ \A a \in Agents, i \in DOMAIN events :
       IsOutcome(events[i], a) => a \in results \cup errors
  /\ \A a \in Agents, i, j \in DOMAIN events :
       IsOutcome(events[i], a) /\ IsOutcome(events[j], a) => i = j

\* Once the verdict is announced it ends with the final event and the sentinel.
EndQueued ==
  /\ Announced => \E n \in Nat : /\ Len(events) = n + 2
                                 /\ events[n + 1].type = "final"
                                 /\ events[n + 2].type = "end"
  /\ \A i \in DOMAIN events : events[i].type = "end" => Announced /\ i = Len(events)

\* The generator has taken no more than was queued, and stops at the sentinel.
TakenInOrder ==
  /\ relayed <= Len(events)
  /\ reader = "ended" => Announced /\ relayed = Len(events)

\* Before the analysis there is nothing.
Unstarted == pc = "idle" => results \cup errors = {} /\ Len(events) = 0

QueueInOrder == OutcomesQueued /\ EndQueued /\ TakenInOrder /\ Unstarted

LEMMA CollectQueues ==
  ASSUME IInv, QueueInOrder, NEW a \in Agents, Collect(a)
  PROVE  QueueInOrder'
<1>1. PICK e \in Event : IsOutcome(e, a) /\ events' = Append(events, e)
  BY DEF Collect, Event, IsOutcome
<1>2. /\ ~Announced /\ a \notin results \cup errors
      /\ results' \cup errors' = results \cup errors \cup {a}
      /\ UNCHANGED <<relayed, reader>>
  BY DEF Collect, Pending, IInv, SavingInOrder, Scoring
<1>3. /\ events \in Seq(Event) /\ Len(events) \in Nat /\ relayed \in Nat
      /\ DOMAIN events = 1 .. Len(events)
  BY DEF IInv, TypeOK
<1>4. /\ DOMAIN events' = 1 .. Len(events) + 1
      /\ Len(events') = Len(events) + 1
      /\ \A i \in DOMAIN events : events'[i] = events[i]
      /\ events'[Len(events) + 1] = e
  BY <1>1, <1>3
<1>5. e.type # "final" /\ e.type # "end" /\ \A b \in Agents : IsOutcome(e, b) => b = a
  BY <1>1 DEF IsOutcome
<1>6. ~Announced'
  BY <1>1, <1>2, <1>3, <1>5, AppendKeeps
<1>7. \A i \in DOMAIN events' : i \in DOMAIN events \/ i = Len(events) + 1
  BY <1>3, <1>4
<1>8. \A i \in DOMAIN events : i \in DOMAIN events'
  BY <1>3, <1>4
<1>9. Len(events) + 1 \in DOMAIN events' /\ Len(events) + 1 \notin DOMAIN events
  BY <1>3, <1>4
<1>10. \A b \in results' \cup errors' : \E i \in DOMAIN events' : IsOutcome(events'[i], b)
  <2>1. ASSUME NEW b \in results \cup errors
        PROVE  \E i \in DOMAIN events' : IsOutcome(events'[i], b)
    <3>1. PICK i \in DOMAIN events : IsOutcome(events[i], b)
      BY <2>1 DEF QueueInOrder, OutcomesQueued
    <3>2. QED
      BY <3>1, <1>4, <1>8
  <2>2. \E i \in DOMAIN events' : IsOutcome(events'[i], a)
    BY <1>1, <1>4, <1>9
  <2>3. QED
    BY <2>1, <2>2, <1>2
<1>11. \A b \in Agents, i \in DOMAIN events' :
         IsOutcome(events'[i], b) => b \in results' \cup errors'
  BY <1>2, <1>4, <1>5, <1>7 DEF QueueInOrder, OutcomesQueued
<1>12. \A b \in Agents, i, j \in DOMAIN events' :
         IsOutcome(events'[i], b) /\ IsOutcome(events'[j], b) => i = j
  BY <1>2, <1>4, <1>5, <1>7 DEF QueueInOrder, OutcomesQueued
<1>13. \A i \in DOMAIN events' : events'[i].type # "end"
  BY <1>2, <1>4, <1>5, <1>7 DEF QueueInOrder, EndQueued
<1>14. relayed' <= Len(events') /\ reader' # "ended"
  <2>1. relayed <= Len(events) /\ reader # "ended"
    BY <1>2 DEF QueueInOrder, TakenInOrder
  <2>2. relayed <= Len(events')
    BY <1>3, <1>4, <2>1
  <2>3. relayed' = relayed /\ reader' = reader
    BY <1>2
  <2>4. QED
    BY <2>1, <2>2, <2>3
<1>15. OutcomesQueued'
  BY <1>10, <1>11, <1>12 DEF OutcomesQueued
<1>16. EndQueued' /\ TakenInOrder'
  BY <1>6, <1>13, <1>14 DEF EndQueued, TakenInOrder
<1>17. Unstarted'
  BY DEF Collect, Unstarted
<1>18. QED
  BY <1>15, <1>16, <1>17 DEF QueueInOrder

LEMMA ConcludeQueues ==
  ASSUME IInv, QueueInOrder, NEW penalised \in BOOLEAN, Conclude(penalised), Scoring
  PROVE  QueueInOrder'
<1> DEFINE final == FinalEvent(penalised)
<1>1. ~Announced
  BY DEF IInv, SavingInOrder
<1>2. Gated(penalised) \in Score
  BY DEF IInv, TypeOK, Gated, Score
<1>3. /\ final \in Event /\ EndOfStream \in Event
      /\ final.type = "final" /\ EndOfStream.type = "end"
  BY <1>2 DEF FinalEvent, EndOfStream, Event
<1>4. /\ events \in Seq(Event) /\ Len(events) \in Nat /\ relayed \in Nat
      /\ DOMAIN events = 1 .. Len(events)
  BY DEF IInv, TypeOK
<1>5. /\ events' = events \o <<final, EndOfStream>>
      /\ UNCHANGED <<results, errors, relayed, reader>>
  BY DEF Conclude, Finish, waveVars
<1>6. /\ Len(events') = Len(events) + 2
      /\ DOMAIN events' = 1 .. Len(events) + 2
      /\ \A i \in DOMAIN events : events'[i] = events[i]
      /\ events'[Len(events) + 1] = final
      /\ events'[Len(events) + 2] = EndOfStream
  <2> HIDE DEF final
  <2> QED
    BY <1>3, <1>4, <1>5
<1>7. Announced'
  BY <1>1, FinishAnnounces DEF IInv
<1>8. \A i \in DOMAIN events' :
        i \in DOMAIN events \/ i = Len(events) + 1 \/ i = Len(events) + 2
  BY <1>4, <1>6
<1>9. \A i \in DOMAIN events : i \in DOMAIN events'
  BY <1>4, <1>6
<1>10. \A b \in Agents : ~IsOutcome(final, b) /\ ~IsOutcome(EndOfStream, b)
  BY <1>3 DEF IsOutcome
<1>11. \A b \in results' \cup errors' : \E i \in DOMAIN events' : IsOutcome(events'[i], b)
  <2>1. ASSUME NEW b \in results \cup errors
        PROVE  \E i \in DOMAIN events' : IsOutcome(events'[i], b)
    <3>1. PICK i \in DOMAIN events : IsOutcome(events[i], b)
      BY <2>1 DEF QueueInOrder, OutcomesQueued
    <3>2. QED
      BY <3>1, <1>6, <1>9
  <2>2. QED
    BY <2>1, <1>5
<1>12. \A b \in Agents, i \in DOMAIN events' :
         IsOutcome(events'[i], b) => i \in DOMAIN events /\ IsOutcome(events[i], b)
  BY <1>6, <1>8, <1>10
<1>13. /\ \A b \in Agents, i \in DOMAIN events' :
            IsOutcome(events'[i], b) => b \in results' \cup errors'
       /\ \A b \in Agents, i, j \in DOMAIN events' :
            IsOutcome(events'[i], b) /\ IsOutcome(events'[j], b) => i = j
  BY <1>5, <1>12 DEF QueueInOrder, OutcomesQueued
<1>14. \E n \in Nat : /\ Len(events') = n + 2
                      /\ events'[n + 1].type = "final"
                      /\ events'[n + 2].type = "end"
  <2> HIDE DEF final
  <2> QED
    BY <1>3, <1>4, <1>6
<1>15. \A i \in DOMAIN events' : events'[i].type = "end" => i = Len(events')
  <2>1. \A i \in DOMAIN events : events'[i].type # "end"
    BY <1>1, <1>6 DEF QueueInOrder, EndQueued
  <2>2. events'[Len(events) + 1].type # "end"
    BY <1>3, <1>6
  <2>3. QED
    BY <1>6, <1>8, <2>1, <2>2
<1>16. relayed' <= Len(events') /\ reader' # "ended"
  <2>1. relayed <= Len(events) /\ reader # "ended"
    BY <1>1 DEF QueueInOrder, TakenInOrder
  <2>2. relayed <= Len(events')
    BY <1>4, <1>6, <2>1
  <2>3. relayed' = relayed /\ reader' = reader
    BY <1>5
  <2>4. QED
    BY <2>1, <2>2, <2>3
<1>17. OutcomesQueued'
  BY <1>11, <1>13 DEF OutcomesQueued
<1>18. EndQueued' /\ TakenInOrder'
  BY <1>7, <1>14, <1>15, <1>16 DEF EndQueued, TakenInOrder
<1>19. Unstarted'
  BY DEF Conclude, Finish, Unstarted
<1>20. QED
  BY <1>17, <1>18, <1>19 DEF QueueInOrder

LEMMA RelayQueues ==
  ASSUME IInv, QueueInOrder, Relay
  PROVE  QueueInOrder'
<1>1. UNCHANGED <<results, errors, events>> /\ (Announced' <=> Announced)
  BY DEF Relay, runVars, waveVars, Announced
<1>2. /\ relayed \in Nat /\ Len(events) \in Nat /\ relayed < Len(events)
      /\ relayed' = relayed + 1 /\ DOMAIN events = 1 .. Len(events)
      /\ reader' = "ended" => events[relayed + 1].type = "end"
  BY DEF Relay, IInv, TypeOK
<1>3. relayed' <= Len(events) /\ relayed + 1 \in DOMAIN events
  BY <1>2
<1>4. reader' = "ended" => Announced /\ relayed' = Len(events)
  BY <1>2, <1>3 DEF QueueInOrder, EndQueued
<1>5. TakenInOrder'
  BY <1>1, <1>3, <1>4 DEF TakenInOrder
<1>6. OutcomesQueued' /\ EndQueued'
  BY <1>1 DEF QueueInOrder, OutcomesQueued, EndQueued
<1>7. Unstarted'
  BY <1>1, <1>2 DEF Relay, runVars, Unstarted, QueueInOrder
<1>8. QED
  BY <1>5, <1>6, <1>7 DEF QueueInOrder

LEMMA QueueStep ==
  ASSUME IInv, QueueInOrder, [Next]_vars
  PROVE  QueueInOrder'
<1>1. CASE Analyze
  <2>1. results \cup errors = {} /\ relayed = 0
    BY <1>1 DEF Analyze, IInv, TypeOK, QueueInOrder, Unstarted, TakenInOrder
  <2>2. /\ events' = <<[type |-> "signal_quality"]>> /\ pc = "idle" /\ pc' = "spawn"
        /\ UNCHANGED <<results, errors, relayed, reader>>
    BY <1>1 DEF Analyze, waveVars
  <2>3. /\ Len(events') = 1 /\ DOMAIN events' = {1}
        /\ events'[1].type = "signal_quality"
    BY <2>2
  <2>4. ~Announced /\ ~Announced'
    BY <2>2, <2>3 DEF IInv, SavingInOrder, Scoring, Announced
  <2>5. OutcomesQueued'
    BY <2>1, <2>2, <2>3 DEF OutcomesQueued, IsOutcome
  <2>6. EndQueued' /\ TakenInOrder' /\ Unstarted'
    BY <2>1, <2>2, <2>3, <2>4 DEF QueueInOrder, EndQueued, TakenInOrder, Unstarted
  <2>7. QED
    BY <2>5, <2>6 DEF QueueInOrder
<1>2. ASSUME NEW a \in Agents, Collect(a)
      PROVE  QueueInOrder'
  BY <1>2, CollectQueues
<1>3. CASE Aggregate \/ VerifierAnswers \/ VerifierFails
  <2>1. PICK penalised \in BOOLEAN : Conclude(penalised) /\ Scoring
    BY <1>3 DEF Aggregate, VerifierAnswers, VerifierFails, Scoring
  <2>2. QED
    BY <2>1, ConcludeQueues
<1>4. CASE Relay
  BY <1>4, RelayQueues
<1>5. CASE \/ \E a \in Agents : AgentStep(a)
           \/ PatchVerifier
           \/ Quiet /\ ~Relay
  <2>1. UNCHANGED <<results, errors, events, relayed>>
    BY <1>5 DEF AgentStep, AgentAnswers, AgentFails, PatchVerifier, Quiet, SpawnAgent,
       AskVerifier, CountPrior, InsertReport, IncrementCount, ShadowAnswers,
       ShadowFails, Disconnect, MongoFails, Die, vars, runVars, waveVars, costVars,
       streamVars
  <2>2. (reader' = "ended" => reader = "ended") /\ (pc' = "idle" => pc = "idle")
    BY <1>5 DEF AgentStep, AgentAnswers, AgentFails, PatchVerifier, Quiet, SpawnAgent,
       AskVerifier, CountPrior, InsertReport, IncrementCount, ShadowAnswers,
       ShadowFails, Disconnect, MongoFails, Die, vars, runVars, streamVars
  <2>3. Announced' <=> Announced
    BY <2>1 DEF Announced
  <2>4. OutcomesQueued' /\ EndQueued'
    BY <2>1, <2>3 DEF QueueInOrder, OutcomesQueued, EndQueued
  <2>5. TakenInOrder' /\ Unstarted'
    BY <2>1, <2>2, <2>3 DEF QueueInOrder, TakenInOrder, Unstarted
  <2>6. QED
    BY <2>4, <2>5 DEF QueueInOrder
<1>6. QED
  BY <1>1, <1>2, <1>3, <1>4, <1>5 DEF Next, PipelineStep, ShadowStep, Quiet

\* A client that reads to [DONE] has had one event of every agent and then the
\* final one, for any agents, either mode and every fault (stream_analysis).
THEOREM StreamIsWholeHolds == Spec => []StreamIsWhole
<1>1. Init => QueueInOrder
  <2>1. Init => DOMAIN events = {} /\ Len(events) = 0
    BY DEF Init
  <2>2. QED
    BY <2>1 DEF Init, QueueInOrder, OutcomesQueued, EndQueued, TakenInOrder,
                Unstarted, Announced
<1>2. IInv /\ QueueInOrder /\ [Next]_vars => QueueInOrder'
  BY QueueStep
<1>3. ASSUME IInv, QueueInOrder, reader = "ended"
      PROVE  StreamIsWhole
  <2>1. /\ relayed = Len(events) /\ DOMAIN events = 1 .. relayed
        /\ results \cup errors = Agents
    BY <1>3 DEF IInv, TypeOK, WaveInOrder, QueueInOrder, TakenInOrder
  <2>2. PICK n \in Nat : /\ relayed = n + 2
                         /\ events[n + 1].type = "final"
                         /\ events[n + 2].type = "end"
    BY <1>3, <2>1 DEF QueueInOrder, EndQueued, TakenInOrder
  <2>3. \A a \in Agents : OutcomeEvents(a) = {i \in 1 .. relayed : IsOutcome(events[i], a)}
    BY DEF OutcomeEvents, IsOutcome
  <2>4. ASSUME NEW a \in Agents
        PROVE  \E i \in 1 .. relayed : OutcomeEvents(a) = {i}
    <3>1. PICK i \in 1 .. relayed : IsOutcome(events[i], a)
      BY <1>3, <2>1 DEF QueueInOrder, OutcomesQueued
    <3>2. \A j \in 1 .. relayed : IsOutcome(events[j], a) => j = i
      BY <1>3, <2>1, <3>1 DEF QueueInOrder, OutcomesQueued
    <3>3. QED
      BY <2>3, <3>1, <3>2
  <2>5. ASSUME NEW a \in Agents, NEW j \in OutcomeEvents(a)
        PROVE  j < n + 1
    <3>1. j \in 1 .. relayed /\ events[j].type \in {"agent", "agent_error"}
      BY DEF OutcomeEvents
    <3>2. j # n + 1 /\ j # n + 2
      BY <2>2, <3>1
    <3>3. QED
      BY <2>2, <3>1, <3>2
  <2>6. n + 1 \in 1 .. relayed
    BY <2>2
  <2>7. QED
    BY <2>2, <2>4, <2>5, <2>6 DEF StreamIsWhole
<1>4. IInv /\ QueueInOrder => StreamIsWhole
  BY <1>3 DEF StreamIsWhole
<1>5. QED
  BY <1>1, <1>2, <1>4, Invariant, PTL DEF Spec

-----------------------------------------------------------------------------
\* What the two liveness properties rest on: that the pipeline cannot settle
\* short of its end, and what holds when it is there.

\* A client that is still listening has not been given the sentinel.
StillListening ==
  reader = "listening" => \A i \in 1 .. relayed : events[i].type # "end"

LEMMA ListeningStep ==
  ASSUME IInv, QueueInOrder, StillListening, [Next]_vars
  PROVE  StillListening'
<1> USE DEF IInv, StillListening
<1>1. /\ relayed \in Nat /\ relayed <= Len(events) /\ Len(events) \in Nat
      /\ DOMAIN events = 1 .. Len(events) /\ events \in Seq(Event)
  BY DEF TypeOK, QueueInOrder, TakenInOrder
<1>2. CASE Relay
  <2>1. /\ reader = "listening" /\ relayed' = relayed + 1 /\ events' = events
        /\ reader' = "listening" => events[relayed + 1].type # "end"
    BY <1>2 DEF Relay
  <2>2. QED
    BY <1>1, <2>1
<1>3. CASE \/ Analyze \/ \E a \in Agents : Collect(a)
           \/ Aggregate \/ VerifierAnswers \/ VerifierFails
  <2>1. /\ relayed' = relayed /\ reader' = reader
        /\ \A i \in 1 .. relayed : events'[i] = events[i]
    <3>1. CASE Analyze
      <4>1. relayed = 0
        BY <1>1, <3>1 DEF Analyze, QueueInOrder, Unstarted
      <4>2. QED
        BY <3>1, <4>1 DEF Analyze
    <3>2. ASSUME NEW a \in Agents, Collect(a)
          PROVE  <2>1
      <4>1. PICK e \in Event : events' = Append(events, e)
        BY <3>2 DEF Collect, Event
      <4>2. \A i \in 1 .. Len(events) : events'[i] = events[i]
        BY <1>1, <4>1
      <4>3. QED
        BY <1>1, <3>2, <4>2 DEF Collect
    <3>3. CASE Aggregate \/ VerifierAnswers \/ VerifierFails
      <4>1. PICK penalised \in BOOLEAN : Conclude(penalised)
        BY <3>3 DEF Aggregate, VerifierAnswers, VerifierFails
      <4> DEFINE items == <<FinalEvent(penalised), EndOfStream>>
      <4>2. FinalEvent(penalised) \in Event /\ EndOfStream \in Event
        BY DEF FinalEvent, EndOfStream, Event, Gated, Score, TypeOK
      <4>3. items \in Seq(Event)
        BY <4>2
      <4>4. events' = events \o items /\ relayed' = relayed /\ reader' = reader
        BY <4>1 DEF Conclude, Finish
      <4> HIDE DEF items
      <4>5. \A i \in 1 .. Len(events) : events'[i] = events[i]
        BY <1>1, <4>3, <4>4
      <4>6. QED
        BY <1>1, <4>4, <4>5
    <3>4. QED
      BY <1>3, <3>1, <3>2, <3>3
  <2>2. QED
    BY <2>1
<1>4. CASE \/ \E a \in Agents : AgentStep(a)
           \/ PatchVerifier
           \/ Quiet /\ ~Relay
  BY <1>4 DEF AgentStep, AgentAnswers, AgentFails, PatchVerifier, Quiet, SpawnAgent,
     AskVerifier, CountPrior, InsertReport, IncrementCount, ShadowAnswers,
     ShadowFails, Disconnect, MongoFails, Die, vars, runVars, waveVars, costVars,
     streamVars
<1>5. QED
  BY <1>2, <1>3, <1>4 DEF Next, PipelineStep, ShadowStep, Quiet

\* Where the tasks are, and what the end of the pipeline has left.
TasksInOrder ==
  /\ pc = "idle" => \A a \in Agents : task[a] = "none"
  /\ pc = "spawn" => \E a \in Agents : task[a] = "none"
  /\ pc = "wave1" => \A a \in Agents : task[a] # "none"

LEMMA TasksStep ==
  ASSUME IInv, TasksInOrder, [Next]_vars
  PROVE  TasksInOrder'
<1> USE DEF IInv, TypeOK, TasksInOrder, waveVars, runVars
<1>1. CASE Analyze
  BY <1>1 DEF Analyze
<1>2. ASSUME NEW a \in Agents, SpawnAgent(a)
      PROVE  TasksInOrder'
  <2>1. /\ pc = "spawn" /\ task[a] = "none" /\ pc' \in {"spawn", "wave1"}
        /\ task' = [task EXCEPT ![a] = "running"]
        /\ pc' = "wave1" <=> \A b \in Agents \ {a} : task[b] # "none"
    BY <1>2 DEF SpawnAgent
  <2>2. QED
    BY <2>1
<1>3. ASSUME NEW a \in Agents, AgentStep(a)
      PROVE  TasksInOrder'
  <2>1. /\ task[a] = "running" /\ pc' = pc
        /\ \E x \in {"answered", "failed"} : task' = [task EXCEPT ![a] = x]
    BY <1>3 DEF AgentStep, AgentAnswers, AgentFails
  <2>2. QED
    BY <2>1
<1>4. CASE \/ ShadowStep \/ Relay \/ Disconnect \/ MongoFails \/ UNCHANGED vars
           \/ \E a \in Agents : Collect(a)
  <2>1. UNCHANGED <<pc, task>>
    BY <1>4 DEF ShadowStep, ShadowAnswers, ShadowFails, PatchVerifier, Relay,
                Disconnect, MongoFails, vars, Collect
  <2>2. QED
    BY <2>1
<1>5. CASE \/ Aggregate \/ AskVerifier \/ VerifierAnswers \/ VerifierFails
           \/ CountPrior \/ InsertReport \/ IncrementCount \/ Die
  <2>1. pc' \notin {"idle", "spawn", "wave1"}
    BY <1>5 DEF Aggregate, AskVerifier, VerifierAnswers, VerifierFails, Conclude,
                Finish, CountPrior, InsertReport, IncrementCount, Die
  <2>2. QED
    BY <2>1
<1>6. QED
  BY <1>1, <1>2, <1>3, <1>4, <1>5 DEF Next, PipelineStep

LEMMA SavedStep ==
  ASSUME IInv, SavedWhenDone, [Next]_vars
  PROVE  SavedWhenDone'
<1> USE DEF SavedWhenDone, waveVars, runVars, reportVars, Returns, Raises
<1>1. CASE Aggregate \/ VerifierAnswers \/ VerifierFails
  <2>1. pc' = "done" => ~mongoAvailable'
    BY <1>1 DEF Aggregate, VerifierAnswers, VerifierFails, Conclude, Finish
  <2>2. QED
    BY <2>1
<1>2. CASE CountPrior \/ InsertReport \/ Die
  BY <1>2 DEF CountPrior, InsertReport, Die
<1>3. CASE IncrementCount
  <2>1. stored /\ counted = 0
    BY <1>3 DEF IncrementCount, IInv, SavingInOrder
  <2>2. QED
    BY <1>3, <2>1 DEF IncrementCount
<1>4. CASE \/ Analyze \/ AskVerifier
           \/ \E a \in Agents : SpawnAgent(a) \/ Collect(a)
  BY <1>4 DEF Analyze, AskVerifier, SpawnAgent, Collect
<1>5. CASE \/ ShadowStep \/ Relay \/ Disconnect \/ MongoFails \/ UNCHANGED vars
           \/ \E a \in Agents : AgentStep(a)
  <2>1. UNCHANGED <<pc, stored, counted>> /\ (mongoAvailable' => mongoAvailable)
    BY <1>5 DEF ShadowStep, ShadowAnswers, ShadowFails, PatchVerifier, Relay,
                Disconnect, MongoFails, AgentStep, AgentAnswers, AgentFails, vars,
                IInv, TypeOK
  <2>2. QED
    BY <2>1
<1>6. QED
  BY <1>1, <1>2, <1>3, <1>4, <1>5 DEF Next, PipelineStep

\* The end of the pipeline without a saved and counted report means that
\* MongoDB failed (_persist_report, session_repository).
THEOREM SavedWhenDoneHolds == Spec => []SavedWhenDone
<1>1. Init => SavedWhenDone
  BY DEF Init, SavedWhenDone
<1>2. IInv /\ SavedWhenDone /\ [Next]_vars => SavedWhenDone'
  BY SavedStep
<1>3. QED
  BY <1>1, <1>2, Invariant, PTL DEF Spec

\* Neither the pipeline nor its reader ever waits for something that nobody is
\* going to do.
THEOREM NobodyWaitsInVainHolds == Spec => []NobodyWaitsInVain
<1>1. Init => QueueInOrder
  <2>1. Init => DOMAIN events = {} /\ Len(events) = 0
    BY DEF Init
  <2>2. QED
    BY <2>1 DEF Init, QueueInOrder, OutcomesQueued, EndQueued, TakenInOrder,
                Unstarted, Announced
<1>2. Init => TasksInOrder /\ StillListening
  BY DEF Init, TasksInOrder, StillListening
<1>3. IInv /\ QueueInOrder /\ [Next]_vars => QueueInOrder'
  BY QueueStep
<1>4. /\ IInv /\ TasksInOrder /\ [Next]_vars => TasksInOrder'
      /\ IInv /\ QueueInOrder /\ StillListening /\ [Next]_vars => StillListening'
  BY TasksStep, ListeningStep
<1>5. ASSUME IInv, QueueInOrder, TasksInOrder, StillListening
      PROVE  NobodyWaitsInVain
  <2>1. ASSUME pc = "done", reader = "listening"
        PROVE  relayed < Len(events)
    <3>1. PICK n \in Nat : Len(events) = n + 2 /\ events[n + 2].type = "end"
      BY <1>5, <2>1 DEF IInv, SavingInOrder, QueueInOrder, EndQueued
    <3>2. relayed \in Nat /\ relayed <= Len(events)
      BY <1>5 DEF IInv, TypeOK, QueueInOrder, TakenInOrder
    <3>3. relayed # n + 2
      BY <1>5, <2>1, <3>1, <3>2 DEF StillListening
    <3>4. QED
      BY <3>1, <3>2, <3>3
  <2>2. QED
    BY <1>5, <2>1 DEF NobodyWaitsInVain, TasksInOrder, Pending
<1>6. IInv /\ QueueInOrder /\ TasksInOrder /\ StillListening => NobodyWaitsInVain
  BY <1>5
<1>7. QED
  BY <1>1, <1>2, <1>3, <1>4, <1>6, Invariant, PTL DEF Spec
=============================================================================
