------------------------------ MODULE Analysis ------------------------------
(***************************************************************************)
(* What POST /api/phase3/analyze promises of one analysis, whoever is      *)
(* reading the stream (orchestrator/graph.py, "Persistence guarantee"):    *)
(* the final event comes first and the report is saved afterwards, at most *)
(* once and never before; an analysis is lost only to MongoDB or to the    *)
(* death of the process.  Pipeline implements this.                        *)
(***************************************************************************)
VARIABLE outcome

Outcomes == {"absent", "pending", "announced", "saved", "unsaved", "failed"}

Init == outcome = "absent"

\* The request is accepted and the pipeline task spawned.
Accept == outcome = "absent" /\ outcome' = "pending"

\* The final event is on its way; with MongoDB known to be unavailable the
\* report is given up at once.
Announce == outcome = "pending" /\ outcome' \in {"announced", "unsaved"}

Save == outcome = "announced" /\ outcome' = "saved"

\* The report of an announced analysis is not saved.
GiveUp == outcome = "announced" /\ outcome' = "unsaved"

\* The process dies before there is a result.
Fail == outcome = "pending" /\ outcome' = "failed"

Next == Accept \/ Announce \/ Save \/ GiveUp \/ Fail

Spec == Init /\ [][Next]_outcome
=============================================================================
