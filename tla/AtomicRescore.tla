--------------------------- MODULE AtomicRescore ---------------------------
(***************************************************************************)
(* What services/log_service.py promises of an idea's score: it starts as  *)
(* the promoted report's, and every re-run replaces, in one step, the      *)
(* dimensions it re-scored and nothing else.  A score is represented by    *)
(* its author, the run whose agent produced it.                            *)
(***************************************************************************)
CONSTANTS
  Dims,      \* the scored dimensions
  Runs,      \* re-runs
  DimsOf(_), \* the dimensions a run may re-score
  Initial    \* the author of the promoted scores

VARIABLES
  recorded,  \* authors of the snapshots written so far
  scores     \* the author of each dimension of the current score

Init == recorded = {} /\ scores = [d \in Dims |-> Initial]

Promote == recorded = {} /\ recorded' = {Initial} /\ UNCHANGED scores

Record(r) ==
  /\ Initial \in recorded /\ r \notin recorded
  /\ recorded' = recorded \cup {r}
  /\ \E updated \in SUBSET DimsOf(r) :
       scores' = [d \in Dims |-> IF d \in updated THEN r ELSE scores[d]]

Next == Promote \/ \E r \in Runs : Record(r)

Spec == Init /\ [][Next]_<<recorded, scores>>
=============================================================================
