--------------------------- MODULE ValidationFlow ---------------------------
(***************************************************************************)
(* The founder's page: filter the pitch, read the analysis as a stream,    *)
(* and after a dropped connection poll the session's reports for a result  *)
(* (frontend/lib/hooks/use-validation-flow.ts, frontend/lib/api/stream.ts  *)
(* and the report routes).  One browser tab of one session; its analyses   *)
(* run on the server as Analysis says, which Pipeline implements, whether  *)
(* the page is there or not.                                               *)
(***************************************************************************)
EXTENDS Integers

CONSTANTS
  Pitches,      \* submissions that reach the analysis
  None,
  Dimensions,   \* how many agents there are: the agent events of a stream
  MaxAttempts,  \* RECOVERY_MAX_ATTEMPTS
  Grace,        \* 5 s, in clock ticks
  MaxTime       \* bound: the clock stops here

ASSUME FlowAssumption ==
  /\ None \notin Pitches
  /\ Dimensions \in Nat
  /\ MaxAttempts \in Nat \ {0}
  /\ Grace \in Nat
  /\ MaxTime \in Nat

VARIABLES
  now,          \* the clock of the founder's machine and of the server
  requests,     \* POST /api/phase3/analyze of each pitch
  phase,        \* its analysis, see Analysis
  createdAt,    \* ReportDocument.created_at
  stage,        \* FlowStage
  pitch,        \* the pitch on the page
  submittedAt,  \* of the latest runStream
  conn,         \* the fetch of that runStream
  heard,        \* how many events of the stream it has read
  shown,        \* the VerdictData on the page
  poller,       \* where attemptRecovery is
  since,        \* its argument
  attempt,      \* its loop variable
  cancelled     \* cancelledRef

serverVars == <<now, requests, phase, createdAt>>
streamVars == <<submittedAt, conn, heard>>
pageVars == <<stage, pitch, shown>>
pollVars == <<poller, since, attempt>>
vars == <<serverVars, streamVars, pageVars, pollVars, cancelled>>

A(p) == INSTANCE Analysis WITH outcome <- phase[p]

Finished == {"announced", "saved", "unsaved"}

TypeOK ==
  /\ now \in 0 .. MaxTime
  /\ requests \in [Pitches -> {"none", "sent", "refused"}]
  /\ phase \in [Pitches -> {"absent", "pending", "failed"} \cup Finished]
  /\ createdAt \in [Pitches -> 0 .. MaxTime]
  /\ stage \in {"idle", "filtering", "filter_failed", "connecting", "streaming",
                "recovering", "verdict", "error"}
  /\ pitch \in Pitches \cup {None}
  /\ submittedAt \in 0 .. MaxTime
  /\ conn \in {"none", "waiting", "open"}
  /\ heard \in 0 .. Dimensions + 2
  /\ shown \in [of : Pitches \cup {None}, dimensions : 0 .. Dimensions,
                recovered : BOOLEAN]
  /\ poller \in {"none", "asleep", "asking"}
  /\ since \in 0 .. MaxTime
  /\ attempt \in 0 .. MaxAttempts
  /\ cancelled \in BOOLEAN

NoVerdict == [of |-> None, dimensions |-> 0, recovered |-> FALSE]

Init ==
  /\ now = 0
  /\ requests = [p \in Pitches |-> "none"]
  /\ phase = [p \in Pitches |-> "absent"]
  /\ createdAt = [p \in Pitches |-> 0]
  /\ stage = "idle" /\ pitch = None /\ shown = NoVerdict
  /\ submittedAt = 0 /\ conn = "none" /\ heard = 0
  /\ poller = "none" /\ since = 0 /\ attempt = 0
  /\ cancelled = FALSE

-----------------------------------------------------------------------------
\* The server gets round to a request: it is accepted, or answered 422 or 429.
Serve(p) ==
  /\ requests[p] = "sent" /\ phase[p] = "absent"
  /\ \/ /\ phase' = [phase EXCEPT ![p] = "pending"] /\ A(p)!Accept
        /\ UNCHANGED requests
     \/ requests' = [requests EXCEPT ![p] = "refused"] /\ UNCHANGED phase
  /\ UNCHANGED <<now, createdAt, streamVars, pageVars, pollVars, cancelled>>

\* The analysis goes on by itself; its report is dated when it is announced.
Announce(p) ==
  /\ \E o \in Finished : phase' = [phase EXCEPT ![p] = o] /\ A(p)!Announce
  /\ createdAt' = [createdAt EXCEPT ![p] = now]
  /\ UNCHANGED <<now, requests, streamVars, pageVars, pollVars, cancelled>>

Settle(p) ==
  /\ \E o \in {"saved", "unsaved", "failed"} :
       /\ phase' = [phase EXCEPT ![p] = o]
       /\ A(p)!Save \/ A(p)!GiveUp \/ A(p)!Fail
  /\ UNCHANGED <<now, requests, createdAt, streamVars, pageVars, pollVars, cancelled>>

Tick ==
  /\ now < MaxTime
  /\ now' = now + 1
  /\ UNCHANGED <<requests, phase, createdAt, streamVars, pageVars, pollVars, cancelled>>

-----------------------------------------------------------------------------
\* submitPitch: the pitch goes to the filter.
SubmitPitch(p) ==
  /\ stage = "idle" /\ requests[p] = "none"
  /\ stage' = "filtering" /\ pitch' = p
  /\ cancelled' = FALSE
  /\ UNCHANGED <<serverVars, streamVars, shown, pollVars>>

\* The filter fails the pitch, or cannot be reached ...
StopAtFilter ==
  /\ stage = "filtering"
  /\ stage' \in {"filter_failed", "error"}
  /\ UNCHANGED <<serverVars, streamVars, pitch, shown, pollVars, cancelled>>

\* ... or passes it; runStream starts once the signals are there (or not).
RunStream ==
  /\ stage = "filtering"
  /\ stage' = "connecting"
  /\ requests' = [requests EXCEPT ![pitch] = "sent"]
  /\ submittedAt' = now /\ conn' = "waiting" /\ heard' = 0
  /\ cancelled' = FALSE
  /\ UNCHANGED <<now, phase, createdAt, pitch, shown, pollVars>>

\* reviseAndRetry.
Revise ==
  /\ stage = "filter_failed"
  /\ stage' = "idle"
  /\ UNCHANGED <<serverVars, streamVars, pitch, shown, pollVars, cancelled>>

\* void attemptRecovery(submittedAt).
StartRecovery ==
  /\ stage' = "recovering" /\ conn' = "none"
  /\ poller' = "asleep" /\ since' = submittedAt /\ attempt' = 1

-----------------------------------------------------------------------------
\* fetch: the response is there; it refuses; there is none (whatever became of
\* the request).
Connect ==
  /\ conn = "waiting" /\ phase[pitch] # "absent"
  /\ conn' = "open"
  /\ UNCHANGED <<serverVars, submittedAt, heard, pageVars, pollVars, cancelled>>

ReadRefusal ==
  /\ conn = "waiting" /\ requests[pitch] = "refused"
  /\ stage' = "error" /\ conn' = "none"
  /\ UNCHANGED <<serverVars, submittedAt, heard, pitch, shown, pollVars, cancelled>>

FetchRejects ==
  /\ conn = "waiting"
  /\ \/ UNCHANGED requests
     \/ /\ phase[pitch] = "absent"
        /\ requests' = [requests EXCEPT ![pitch] = "refused"]
  /\ StartRecovery
  /\ UNCHANGED <<now, phase, createdAt, submittedAt, heard, pitch, shown, cancelled>>

\* How many events there are to read: signal quality, the agents, final.
Available ==
  IF phase[pitch] \in Finished THEN Dimensions + 2 ELSE Dimensions + 1

ReadEvent ==
  /\ conn = "open" /\ heard < Available
  /\ heard' = heard + 1
  /\ stage' = "streaming"
  /\ UNCHANGED <<serverVars, submittedAt, conn, pitch, shown, pollVars, cancelled>>

\* Mutant: every event is taken for a dimension.
LiveEverything(events) == [of |-> pitch, dimensions |-> events, recovered |-> FALSE]

\* The page of a live verdict: a dimension for every agent event.
Live(events) ==
  [of |-> pitch, dimensions |-> IF events > Dimensions THEN Dimensions
                                ELSE IF events > 0 THEN events - 1 ELSE 0,
   recovered |-> FALSE]

\* Mutant: a stream that is over is taken for a stream that is complete.
ReadEnd ==
  /\ conn = "open"
  /\ stage' = "verdict" /\ conn' = "none" /\ shown' = Live(heard)
  /\ UNCHANGED <<serverVars, submittedAt, heard, pitch, pollVars, cancelled>>

\* [DONE] follows the final event and the stream ends.
ReadDone ==
  /\ conn = "open" /\ heard = Dimensions + 2
  /\ stage' = "verdict" /\ conn' = "none" /\ shown' = Live(heard)
  /\ UNCHANGED <<serverVars, submittedAt, heard, pitch, pollVars, cancelled>>

\* The connection drops before [DONE].  Where the body just ends (a proxy
\* closed it in order) that is a StreamConnectionError ...
BodyEnds ==
  /\ conn = "open"
  /\ StartRecovery
  /\ UNCHANGED <<serverVars, submittedAt, heard, pitch, shown, cancelled>>

\* ... and where the browser reports it, reader.read() rejects with an error
\* of another class, which is shown as it is.
ReadRejects ==
  /\ conn = "open"
  /\ stage' = "error" /\ conn' = "none"
  /\ UNCHANGED <<serverVars, submittedAt, heard, pitch, shown, pollVars, cancelled>>

-----------------------------------------------------------------------------
\* attemptRecovery wakes up after RECOVERY_POLL_MS.
PollWakes ==
  /\ poller = "asleep"
  /\ poller' = IF cancelled THEN "none" ELSE "asking"
  /\ UNCHANGED <<serverVars, streamVars, pageVars, since, attempt, cancelled>>

\* The first of listSessionReports, newest first, that is recent enough.
Candidate(c) ==
  /\ phase[c] = "saved"
  /\ createdAt[c] >= since - Grace
  /\ \A d \in Pitches : phase[d] = "saved" => createdAt[d] =< createdAt[c]

\* listSessionReports and getReport answer with a report.
PollFinds ==
  /\ poller = "asking"
  /\ \E c \in Pitches :
       /\ Candidate(c)
       /\ shown' = [of |-> c, dimensions |-> Dimensions, recovered |-> TRUE]
  /\ stage' = "verdict" /\ poller' = "none"
  /\ UNCHANGED <<serverVars, streamVars, pitch, since, attempt, cancelled>>

\* Mutant: the loop has no end.
PollOnceMore ==
  /\ poller = "asking"
  /\ poller' = IF cancelled THEN "none" ELSE "asleep"
  /\ UNCHANGED <<serverVars, streamVars, pageVars, since, attempt, cancelled>>

\* No candidate, or a call fails: the next attempt, if there is one.
PollMisses ==
  /\ poller = "asking"
  /\ \/ /\ attempt < MaxAttempts
        /\ attempt' = attempt + 1
        /\ poller' = IF cancelled THEN "none" ELSE "asleep"
        /\ UNCHANGED stage
     \/ /\ attempt = MaxAttempts
        /\ poller' = "none"
        /\ stage' = IF cancelled THEN stage ELSE "error"
        /\ UNCHANGED attempt
  /\ UNCHANGED <<serverVars, streamVars, pitch, shown, since, cancelled>>

-----------------------------------------------------------------------------
\* Mutant: "Start over" is offered while the page is recovering, too.
ResetEarly ==
  /\ stage \in {"error", "recovering"}
  /\ stage' = "idle" /\ shown' = NoVerdict /\ cancelled' = TRUE
  /\ UNCHANGED <<serverVars, streamVars, pitch, pollVars>>

\* reset, "Start over": the error view alone offers it.
Reset ==
  /\ stage = "error"
  /\ stage' = "idle" /\ shown' = NoVerdict /\ cancelled' = TRUE
  /\ UNCHANGED <<serverVars, streamVars, pitch, pollVars>>

\* The page is loaded anew: everything it knew is gone, except the session id.
Reload ==
  /\ stage # "idle"
  /\ stage' = "idle" /\ pitch' = None /\ shown' = NoVerdict
  /\ submittedAt' = 0 /\ conn' = "none" /\ heard' = 0
  /\ poller' = "none" /\ since' = 0 /\ attempt' = 0
  /\ cancelled' = FALSE
  /\ UNCHANGED serverVars

StreamStep == Connect \/ ReadRefusal \/ ReadEvent \/ ReadDone
PollStep == PollWakes \/ PollFinds \/ PollMisses

Next ==
  \/ \E p \in Pitches : Serve(p) \/ Announce(p) \/ Settle(p) \/ SubmitPitch(p)
  \/ StopAtFilter \/ RunStream \/ Revise
  \/ StreamStep \/ FetchRejects \/ BodyEnds \/ ReadRejects
  \/ PollStep
  \/ Reset \/ Reload
  \/ Tick

Spec == Init /\ [][Next]_vars

\* The server answers every request and every analysis ends (Pipeline); the
\* page's calls return or raise; a connection whose server is gone is closed.
FairSpec ==
  /\ Spec
  /\ \A p \in Pitches : WF_vars(Serve(p)) /\ WF_vars(Announce(p) \/ Settle(p))
  /\ WF_vars(StopAtFilter \/ RunStream)
  /\ WF_vars(StreamStep)
  /\ WF_vars(conn = "open" /\ phase[pitch] = "failed" /\ (BodyEnds \/ ReadRejects))
  /\ WF_vars(PollStep)

-----------------------------------------------------------------------------
\* "Never ... a half-verdict presented as complete" (recovering-view.tsx): what
\* the page calls a verdict is of an analysis that ran to its end, with an
\* outcome of every agent.  One read from the stream is of the pitch on the
\* page; a recovered one is a saved report, dated after the pitch was sent, or
\* at most the grace period before.
VerdictIsComplete ==
  stage = "verdict" =>
    /\ shown.of # None /\ shown.dimensions = Dimensions
    /\ ~shown.recovered => shown.of = pitch /\ phase[pitch] \in Finished
    /\ shown.recovered => /\ phase[shown.of] = "saved"
                          /\ createdAt[shown.of] >= submittedAt - Grace

\* A poll answers the recovery that started it: a leftover loop never throws a
\* verdict or an error over what the founder has gone on to.
PollAnswersRecovery ==
  [][poller = "asking" /\ poller' = "none" /\ stage' # "idle" /\ ~cancelled
       => stage = "recovering"]_vars

\* No loader for ever: filtering, connecting, streaming and recovering end.
Busy == stage \in {"filtering", "connecting", "streaming", "recovering"}
FlowSettles == Busy ~> ~Busy

\* "We're checking for your finished verdict now" (recovering-view.tsx): the
\* verdict on the page is that of the pitch on the page.
VerdictIsOwn == stage = "verdict" => shown.of = pitch

\* What is left of it: it is wrong only if another pitch of the session was
\* announced later than the grace period before this one was sent, and saved.
VerdictIsOwnWhenAlone ==
  (\A q \in Pitches \ {pitch} :
     phase[q] = "saved" => createdAt[q] < submittedAt - Grace)
  => VerdictIsOwn
=============================================================================
