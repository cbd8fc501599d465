----------------------------- MODULE MCVerdict ------------------------------
(* Verdict with three agents, one of each kind of re-run and one that is     *)
(* never re-run, and two sources at a time.  12 and 14 are answers outside   *)
(* the rubrics.                                                              *)
EXTENDS Verdict

MCAgents == {"problem", "timing", "risk"}
MCScores == {0, 5, 7, 12}
MCConfidences == {3, 10, 14}

Answer(kind, count, cached, says) ==
  LET payload == [count |-> count, sampled |-> FALSE, cached |-> cached, says |-> says]
  IN  IF kind = "answered" THEN [kind |-> kind, payload |-> payload]
      ELSE Normal("ok", payload)
Flag(status, reason) == [kind |-> "flagged", status |-> status, reason |-> reason]

\* From a client: normalised, or as the adapters (and the older clients) have it.
MCSubmitted ==
  [{"google_trends", "reddit"} ->
     {Answer("normalised", 3, TRUE, "declining"), Answer("answered", 200, FALSE, "high"),
      Answer("answered", 0, FALSE, "high"), Flag("unavailable", "429")}]
  \cup [{"product_hunt", "reddit"} ->
     {Answer("normalised", 1, FALSE, "saturated"), Answer("normalised", 1, FALSE, "high"),
      Normal("unavailable", Nothing)}]

\* The live adapters say nothing the conflict rules read.
MCGathered ==
  [{"google_trends", "reddit"} ->
     {Coerce(Answer("answered", 7, TRUE, "nothing")), Coerce([kind |-> "raised"])}]

MCTiesUp(x) == \E d \in DOMAIN x : x[d] % 2 = 1
=============================================================================
