------------------------------ MODULE Verdict -------------------------------
(***************************************************************************)
(* What a verdict is computed from: the weighted gate over the agents that *)
(* answered, the Verifier's penalty (services/gate.py), and what is said   *)
(* of the market data next to it (data_sources/result.py,                  *)
(* signal_quality.py, conflict_detector.py), from the report of an         *)
(* analysis to its promotion and the re-runs of the idea's log.            *)
(*                                                                         *)
(* The numbers are the program's: weights in hundredths, a quality in      *)
(* thousandths, a payload what the rules read of it.  A re-run is one step *)
(* here: Pipeline and ScoreHistory have the interleavings.  WEIGHTS is one *)
(* table: what a release with other weights does to the scores it finds in *)
(* the log (version_crossing) is outside.                                  *)
(***************************************************************************)
EXTENDS Integers, FiniteSets, FiniteSetsExt

CONSTANTS
  Agents,       \* the agents of an instance, out of those in WEIGHTS
  Scores,       \* what an agent may answer; nothing makes it stay in 0..10
  Confidences,  \* what the Verifier may answer, likewise
  Submitted,    \* the signals a client may send with an analysis
  Gathered,     \* the signals a re-run may gather itself
  TiesUp(_)     \* is half a point, in floating point, rounded up here?

WEIGHTS ==
  [problem |-> 120, solution |-> 110, tam |-> 100, team |-> 90, moat |-> 90,
   unit_economics |-> 85, gtm |-> 85, risk |-> 95, timing |-> 95, ask |-> 80,
   yc_signal |-> 100, lovers_test |-> 85]

AgentNames == DOMAIN WEIGHTS

None == -1  \* adjusted_score before the Verifier

ASSUME VerdictAssumption ==
  /\ Agents \subseteq AgentNames
  /\ Scores \subseteq Int /\ Confidences \subseteq Int \ {None}
  /\ \A signals \in Submitted \cup Gathered : IsFiniteSet(DOMAIN signals)

GO_THRESHOLD == 70
PIVOT_THRESHOLD == 50
MIN_LIVE_SOURCES == 2
ALWAYS_RERUN_DIMENSIONS == {"timing", "tam", "moat"}
EVIDENCE_GATED_DIMENSIONS ==
  {"problem", "solution", "team", "unit_economics", "gtm", "ask"}

-----------------------------------------------------------------------------
Clamp(lo, hi, n) == IF n < lo THEN lo ELSE IF n > hi THEN hi ELSE n

\* round(num / den).  The program divides floating-point numbers: an exact half
\* goes to the even neighbour, or by the error of x either way.
Round(num, den, x) ==
  LET up == \/ 2 * (num % den) > den
            \/ 2 * (num % den) = den /\ TiesUp(x)
  IN  IF up THEN num \div den + 1 ELSE num \div den

\* The sum of f over WEIGHTS, written out: a fold cannot be reasoned about
\* for every f by the provers.
Total(f) ==
  f["problem"] + f["solution"] + f["tam"] + f["team"] + f["moat"]
  + f["unit_economics"] + f["gtm"] + f["risk"] + f["timing"] + f["ask"]
  + f["yc_signal"] + f["lovers_test"]

WeightTotal(s) ==
  Total([a \in AgentNames |-> IF a \in DOMAIN s THEN WEIGHTS[a] ELSE 0])
WeightedSum(s) ==
  Total([a \in AgentNames |-> IF a \in DOMAIN s THEN WEIGHTS[a] * s[a] ELSE 0])

\* Mutant: an answer outside 0..10 carries the score out of 0..100.
AggregateUnclamped(s) ==
  IF DOMAIN s = {} THEN 0 ELSE Round(10 * WeightedSum(s), WeightTotal(s), s)

\* aggregate_results: the mean over the agents present, times ten.
Aggregate(s) ==
  IF DOMAIN s = {} THEN 0
  ELSE Round(Clamp(0, 100 * WeightTotal(s), 10 * WeightedSum(s)),
             WeightTotal(s), s)

VerdictFor(score) ==
  IF score >= GO_THRESHOLD THEN "go"
  ELSE IF score >= PIVOT_THRESHOLD THEN "pivot" ELSE "no-go"

\* Mutant: each point of confidence is worth 4 %.
PenalisedSteeply(raw, confidence) ==
  Round(Clamp(0, 10000, raw * (70 + 4 * confidence)), 100,
        [raw |-> raw, confidence |-> confidence])

\* apply_verifier_penalty: 70 % of the raw score, and 3 % for each point.
Penalised(raw, confidence) ==
  Round(Clamp(0, 10000, raw * (70 + 3 * confidence)), 100,
        [raw |-> raw, confidence |-> confidence])

-----------------------------------------------------------------------------
\* What a source gave: an exception or no dict at all; a dict with a status and
\* a reason; a dict of data, as fetched now or from the cache; or a result that
\* has been through normalize_source_result, the browser and back.
Payload == [count : Nat, sampled : BOOLEAN, cached : BOOLEAN,
            says : {"rising", "declining", "high", "low", "saturated", "nothing"}]
Nothing == [count |-> 0, sampled |-> FALSE, cached |-> FALSE, says |-> "nothing"]
Status == {"ok", "empty", "unavailable", "rate_limited", "error"}
Failures == {"unavailable", "rate_limited", "error"}
Normalised == [kind : {"normalised"}, status : Status, payload : Payload]

Normal(status, payload) ==
  [kind |-> "normalised", status |-> status, payload |-> payload]

\* coerce_to_signal_result, and normalize_source_result for the rest.
Coerce(raw) ==
  CASE raw.kind = "normalised" -> raw
    [] raw.kind \in {"raised", "no dict"} -> Normal("error", Nothing)
    [] raw.kind = "flagged" ->
         Normal(IF raw.status = "rate_limited" \/ raw.reason = "429"
                THEN "rate_limited"
                ELSE IF raw.status = "unavailable" /\ raw.reason = "not configured"
                THEN "unavailable" ELSE "error",
                Nothing)
    [] raw.kind = "answered" ->
         Normal(IF raw.payload.count = 0 /\ ~raw.payload.sampled
                THEN "empty" ELSE "ok",
                raw.payload)

\* compute_source_quality, in thousandths.
SourceQuality(raw) ==
  LET r == Coerce(raw)
      full == 700 + Clamp(0, 300, 3 * r.payload.count)
  IN  CASE r.status \in Failures -> 0
        [] r.status = "empty" -> 300
        [] r.status = "ok" /\ ~r.payload.cached -> full
        [] r.status = "ok" /\ r.payload.cached ->
             Round(95 * full, 100, [full |-> full])

\* compute_report_signal_quality.
ReportQuality(signals) ==
  IF DOMAIN signals = {} THEN 0
  ELSE Round(MapThenSumSet(LAMBDA n : SourceQuality(signals[n]), DOMAIN signals),
             Cardinality(DOMAIN signals),
             [n \in DOMAIN signals |-> SourceQuality(signals[n])])

Live(signals) == {n \in DOMAIN signals : Coerce(signals[n]).status = "ok"}
LowConfidence(signals) == Cardinality(Live(signals)) < MIN_LIVE_SOURCES

Says(signals, source) ==
  IF source \in Live(signals) THEN Coerce(signals[source]).payload.says
  ELSE "nothing"

\* detect_conflicts: the pairs of sources that disagree.
Conflicts(signals) ==
  {<<"google_trends", pain>> : pain \in
     {p \in {"reddit", "hacker_news"} :
        <<Says(signals, "google_trends"), Says(signals, p)>>
          \in {<<"declining", "high">>, <<"rising", "low">>}}}
  \cup
  {pair \in {<<"product_hunt", "reddit">>} :
     /\ Says(signals, "product_hunt") = "saturated"
     /\ Says(signals, "reddit") = "high"}

-----------------------------------------------------------------------------
VARIABLES
  blocking,   \* VERIFIER_PENALTY_ENABLED, read when the process starts
  stage,      \* is there a report, has it been promoted to an idea
  report,     \* the ReportDocument
  confidence, \* what the Verifier said of it
  latest      \* the latest SnapshotDocument of the idea

vars == <<blocking, stage, report, confidence, latest>>

Verdicts == {"go", "pivot", "no-go"}
Worse(v, w) == <<v, w>> \in {<<"no-go", "pivot">>, <<"no-go", "go">>, <<"pivot", "go">>}

ScoreMaps(dims) == UNION {[d -> Scores] : d \in SUBSET dims}

\* What is said of the market data next to a score: four fields, written with
\* the signals here, and one by one by a re-run.
Said(signals) ==
  [sources |-> DOMAIN signals, signals |-> signals,
   quality |-> ReportQuality(signals), conflicts |-> Conflicts(signals)]

Snapshot(scores, said, raw, adjusted, verdict) ==
  [scores |-> scores, sources |-> said.sources, signals |-> said.signals,
   quality |-> said.quality, conflicts |-> said.conflicts,
   raw |-> raw, adjusted |-> adjusted, verdict |-> verdict]

\* _persist_report.  A report keeps no sources: they are the signals' keys.
Report(scores, signals, adjusted, verdict, gating, flips) ==
  LET raw == Aggregate(scores)
  IN  [snapshot |-> Snapshot(scores, Said(signals), raw, adjusted, verdict),
       gating |-> gating, flips |-> flips, low |-> LowConfidence(signals),
       tier |-> IF raw >= PIVOT_THRESHOLD THEN 2 ELSE 1]

NoSignals == [n \in {} |-> Normal("error", Nothing)]
NoReport == Report([a \in {} |-> 0], NoSignals, None, "no-go", "raw", FALSE)

SnapshotOK(d) ==
  /\ d.scores \in ScoreMaps(Agents)
  /\ d.raw \in 0..100 /\ d.adjusted \in 0..100 \cup {None}
  /\ d.verdict \in Verdicts

TypeOK ==
  /\ blocking \in BOOLEAN
  /\ stage \in {"none", "reported", "logged"}
  /\ SnapshotOK(report.snapshot) /\ SnapshotOK(latest)
  /\ report.gating \in {"raw", "adjusted"}
  /\ report.flips \in BOOLEAN /\ report.low \in BOOLEAN /\ report.tier \in {1, 2}
  /\ confidence \in Confidences \cup {None}

Init ==
  /\ blocking \in BOOLEAN
  /\ stage = "none"
  /\ report = NoReport
  /\ confidence = None
  /\ latest = NoReport.snapshot

Flips(raw, adjusted) == VerdictFor(adjusted) # VerdictFor(raw)

\* An analysis that is saved on its raw score: the Verifier is not asked yet,
\* or does not answer.
AnalyzeOnRaw(scores, signals) ==
  /\ stage = "none"
  /\ stage' = "reported"
  /\ report' = Report(scores, signals, None, VerdictFor(Aggregate(scores)),
                      "raw", FALSE)
  /\ UNCHANGED <<blocking, confidence, latest>>

\* An analysis the Verifier gates.
AnalyzeOnAdjusted(scores, signals, c) ==
  LET raw == Aggregate(scores)
      adjusted == Penalised(raw, c)
  IN  /\ stage = "none" /\ blocking
      /\ stage' = "reported"
      /\ confidence' = c
      /\ report' = Report(scores, signals, adjusted, VerdictFor(adjusted),
                          "adjusted", Flips(raw, adjusted))
      /\ UNCHANGED <<blocking, latest>>

\* The shadow Verifier: its score is kept and gates nothing.
PatchVerifier(c) ==
  LET raw == report.snapshot.raw
      adjusted == Penalised(raw, c)
  IN  /\ stage = "reported" /\ ~blocking /\ confidence = None
      /\ confidence' = c
      /\ report' = [report EXCEPT !.snapshot.adjusted = adjusted,
                                  !.flips = Flips(raw, adjusted)]
      /\ UNCHANGED <<blocking, stage, latest>>

\* promote_report_to_idea: the first snapshot mirrors the report field by field,
\* and its sources are the keys of the report's signals.  What becomes of the
\* report afterwards does not reach the log.
Promote ==
  /\ stage = "reported"
  /\ stage' = "logged"
  /\ latest' = [report.snapshot EXCEPT !.sources = DOMAIN report.snapshot.signals]
  /\ report' = NoReport
  /\ confidence' = None
  /\ UNCHANGED blocking

\* {**previous, **updated}
Merge(previous, updated) ==
  [a \in DOMAIN previous \cup DOMAIN updated |->
     IF a \in DOMAIN updated THEN updated[a] ELSE previous[a]]

\* `argument if argument is not None else default`: the set of what was passed,
\* empty for None.
Given(argument, default) ==
  IF argument = {} THEN default ELSE CHOOSE value \in argument : TRUE

\* The keyword arguments of record_snapshot: all left out, or all passed.
NothingGiven == [sources |-> {}, signals |-> {}, quality |-> {}, conflicts |-> {}]
AllGiven(signals) ==
  [sources |-> {DOMAIN signals}, signals |-> {signals},
   quality |-> {ReportQuality(signals)}, conflicts |-> {Conflicts(signals)}]

\* Each of the four fields is passed or carried forward for itself.
CarriedOver(given) ==
  [sources |-> Given(given.sources, latest.sources),
   signals |-> Given(given.signals, latest.signals),
   quality |-> Given(given.quality, latest.quality),
   conflicts |-> Given(given.conflicts, latest.conflicts)]

\* Mutants: only what was scored anew counts; `conflicts or previous.conflicts`,
\* where an empty list is taken for None.
RecordUpdated(updated, given) ==
  LET raw == Aggregate(updated)
  IN  latest' = Snapshot(Merge(latest.scores, updated), CarriedOver(given),
                         raw, raw, VerdictFor(raw))
RecordOr(updated, given) ==
  LET scores == Merge(latest.scores, updated)
      raw == Aggregate(scores)
      said == CarriedOver([given EXCEPT !.conflicts = @ \ {{}}])
  IN  latest' = Snapshot(scores, said, raw, raw, VerdictFor(raw))

\* record_snapshot: the raw score gates, whatever gated before.
Record(updated, given) ==
  LET scores == Merge(latest.scores, updated)
      raw == Aggregate(scores)
  IN  latest' = Snapshot(scores, CarriedOver(given), raw, raw, VerdictFor(raw))

\* _run_market_sensitive gathers fresh signals and passes all that is said of
\* them; an agent that raises is left out.
MarketRerun(updated, signals) ==
  /\ stage = "logged"
  /\ Record(updated, AllGiven(signals))
  /\ UNCHANGED <<blocking, stage, report, confidence>>

\* run_evidence_snapshot passes none of it: the log's own is carried forward.
\* With nothing updated, rescore_idea.
EvidenceRerun(updated) ==
  /\ stage = "logged"
  /\ Record(updated, NothingGiven)
  /\ UNCHANGED <<blocking, stage, report, confidence>>

Next ==
  \/ \E scores \in ScoreMaps(Agents), signals \in Submitted :
       \/ AnalyzeOnRaw(scores, signals)
       \/ \E c \in Confidences : AnalyzeOnAdjusted(scores, signals, c)
  \/ \E c \in Confidences : PatchVerifier(c)
  \/ Promote
  \/ \E updated \in ScoreMaps(Agents \cap ALWAYS_RERUN_DIMENSIONS),
        signals \in Gathered : MarketRerun(updated, signals)
  \/ \E updated \in ScoreMaps(Agents \cap EVIDENCE_GATED_DIMENSIONS) :
       EvidenceRerun(updated)

Spec == Init /\ [][Next]_vars

-----------------------------------------------------------------------------
\* "A bad confidence_score should drag the WHOLE gate down": a Verifier that
\* answers within its rubric takes at most 30 % of the raw score and adds
\* nothing, the verdict is never better for it, verdict_would_flip says whether
\* it is worse, and a Go always has the roadmap unlocked (tier 2).
VerifierOnlyLowers ==
  stage = "reported" /\ confidence \in 0..10 =>
    LET d == report.snapshot
    IN  /\ d.adjusted =< d.raw /\ 100 * d.adjusted >= 70 * d.raw - 50
        /\ ~Worse(VerdictFor(d.raw), d.verdict)
        /\ report.flips <=> Worse(VerdictFor(d.adjusted), VerdictFor(d.raw))
        /\ d.verdict = "go" => report.tier = 2

\* What the log's latest snapshot says next to its score is about the signals it
\* keeps: the sources named, the quality and the conflicts were computed from
\* those and from no others, however many re-runs gathered anew or carried the
\* four fields forward since the report.
DisclosureMatchesSignals ==
  stage = "logged" =>
    /\ latest.sources = DOMAIN latest.signals
    /\ latest.quality = ReportQuality(latest.signals)
    /\ latest.conflicts = Conflicts(latest.signals)

\* A re-run moves the score and the verdict only with the scores: one that
\* lowers none lowers neither, and one that raises none raises neither.  The
\* exception is a verdict the Verifier gated: a re-run does not ask it, and
\* the verdict of the raw score returns.  The weights are the same throughout.
NoneLower(s, t) == DOMAIN s = DOMAIN t /\ \A a \in DOMAIN s : s[a] =< t[a]
ScoresMoveVerdict(old, new) ==
  /\ NoneLower(old.scores, new.scores) =>
       /\ old.raw =< new.raw
       /\ ~Worse(VerdictFor(old.raw), old.verdict) => ~Worse(new.verdict, old.verdict)
  /\ NoneLower(new.scores, old.scores) =>
       /\ new.raw =< old.raw
       /\ old.verdict = VerdictFor(old.raw) => ~Worse(old.verdict, new.verdict)
VerdictFollowsScores ==
  [][stage = "logged" /\ stage' = "logged" => ScoresMoveVerdict(latest, latest')]_vars

\* The exception is made once at most: every re-run leaves the verdict of its own
\* raw score, and only where the verdict before it was not that of its raw score
\* can it move without a score moving.
UngatedOnce(old, new) ==
  /\ new.verdict = VerdictFor(new.raw)
  /\ new.scores = old.scores /\ new.verdict # old.verdict =>
       old.verdict # VerdictFor(old.raw)
VerdictMovesOnceAtMost ==
  [][stage = "logged" /\ stage' = "logged" => UngatedOnce(latest, latest')]_vars

\* "The score moves only on evidence", of the verdict as well, without that
\* exception: so with the shadow Verifier (VERIFIER_PENALTY_ENABLED=false, the
\* README's setting), not so with the blocking one.
VerdictMovesOnlyOnEvidence ==
  [][stage = "logged" /\ stage' = "logged" /\ latest'.scores = latest.scores
       => latest'.verdict = latest.verdict]_vars
=============================================================================
