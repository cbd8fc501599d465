SPECIFICATION Spec
CONSTANTS
  Agents <- MCAgents
  Scores <- MCScores
  Confidences <- MCConfidences
  Submitted <- MCSubmitted
  Gathered <- MCGathered
  TiesUp <- MCTiesUp
INVARIANTS TypeOK VerifierOnlyLowers DisclosureMatchesSignals
PROPERTIES VerdictFollowsScores
