------------------------ MODULE ValidationFlowProofs ------------------------
(***************************************************************************)
(* Proofs about ValidationFlow, for any pitches, number of agents, polls,  *)
(* grace period and end of the clock: types, that a verdict on the page is *)
(* complete, that a poll never disturbs what the founder has gone on to,   *)
(* and that every analysis is one that Analysis describes.                 *)
(***************************************************************************)
EXTENDS ValidationFlow, TLAPS

USE FlowAssumption

\* A connection belongs to the stream the page shows, a poll to its recovery.
OneAtATime ==
  /\ conn # "none" => stage \in {"connecting", "streaming"}
  /\ poller # "none" => stage = "recovering" /\ since = submittedAt
  /\ stage \in {"filtering", "connecting", "streaming"} => pitch \in Pitches

\* The final event is read only after it was sent.
HeardWasSent ==
  /\ conn = "waiting" => heard = 0
  /\ conn = "open" /\ heard = Dimensions + 2 => phase[pitch] \in Finished

IInv == TypeOK /\ OneAtATime /\ HeardWasSent /\ VerdictIsComplete

\* An analysis that has an outcome keeps it, but for being saved or given up.
LEMMA PhasesMove ==
  ASSUME TypeOK, NEW p \in Pitches, Serve(p) \/ Announce(p) \/ Settle(p)
  PROVE  /\ phase' \in [Pitches -> {"absent", "pending", "failed"} \cup Finished]
         /\ \A q \in Pitches : /\ phase[q] \in Finished => phase'[q] \in Finished
                               /\ phase[q] = "saved" =>
                                    /\ phase'[q] = "saved"
                                    /\ createdAt'[q] = createdAt[q]
<1>1. CASE Serve(p)
  BY <1>1 DEF TypeOK, Serve, Finished
<1>2. CASE Announce(p)
  BY <1>2 DEF TypeOK, Announce, Finished, A!Announce
<1>3. CASE Settle(p)
  BY <1>3 DEF TypeOK, Settle, Finished, A!Save, A!GiveUp, A!Fail
<1>4. QED
  BY <1>1, <1>2, <1>3

\* The numbers a flow starts with.
LEMMA Zeros ==
  /\ 0 \in 0 .. MaxTime /\ 0 \in 0 .. Dimensions + 2
  /\ 0 \in 0 .. MaxAttempts /\ 1 \in 0 .. MaxAttempts
  /\ NoVerdict \in [of : Pitches \cup {None}, dimensions : 0 .. Dimensions,
                    recovered : BOOLEAN]
BY DEF NoVerdict

LEMMA InvariantInit == Init => IInv
<1>1. Init => TypeOK
  BY Zeros DEF Init, TypeOK
<1>2. Init => OneAtATime /\ HeardWasSent /\ VerdictIsComplete
  BY DEF Init, OneAtATime, HeardWasSent, VerdictIsComplete
<1>3. QED
  BY <1>1, <1>2 DEF IInv

\* The server's steps, and the clock's, leave the page alone.
LEMMA ServerStep ==
  ASSUME IInv, NEW p \in Pitches, Serve(p) \/ Announce(p) \/ Settle(p)
  PROVE  IInv'
<1>1. /\ phase' \in [Pitches -> {"absent", "pending", "failed"} \cup Finished]
      /\ \A q \in Pitches : /\ phase[q] \in Finished => phase'[q] \in Finished
                            /\ phase[q] = "saved" => /\ phase'[q] = "saved"
                                                     /\ createdAt'[q] = createdAt[q]
  BY PhasesMove DEF IInv
<1>2. UNCHANGED <<now, streamVars, pageVars, pollVars, cancelled>>
  BY DEF Serve, Announce, Settle
<1>3. /\ requests' \in [Pitches -> {"none", "sent", "refused"}]
      /\ createdAt' \in [Pitches -> 0 .. MaxTime]
  BY DEF IInv, TypeOK, Serve, Announce, Settle
<1>4. TypeOK'
  BY <1>1, <1>2, <1>3 DEF IInv, TypeOK, streamVars, pageVars, pollVars, Finished
<1>5. OneAtATime'
  BY <1>2 DEF IInv, OneAtATime, streamVars, pageVars, pollVars
<1>6. HeardWasSent'
  BY <1>1, <1>2 DEF IInv, HeardWasSent, OneAtATime, streamVars, pageVars
<1>7. VerdictIsComplete'
  <2>1. CASE stage = "verdict"
    <3>1. shown.of \in Pitches /\ shown.dimensions = Dimensions
      BY <2>1 DEF IInv, VerdictIsComplete, TypeOK
    <3>2. ~shown.recovered => shown.of = pitch /\ phase'[pitch] \in Finished
      BY <1>1, <2>1, <3>1 DEF IInv, VerdictIsComplete
    <3>3. shown.recovered => /\ phase'[shown.of] = "saved"
                             /\ createdAt'[shown.of] >= submittedAt - Grace
      BY <1>1, <2>1, <3>1 DEF IInv, VerdictIsComplete
    <3>4. UNCHANGED <<stage, pitch, shown, submittedAt>>
      BY <1>2 DEF pageVars, streamVars
    <3>5. shown.of # None
      BY <3>1
    <3>6. QED
      BY <3>1, <3>2, <3>3, <3>4, <3>5 DEF VerdictIsComplete
  <2>2. CASE stage # "verdict"
    BY <1>2, <2>2 DEF VerdictIsComplete, pageVars
  <2>3. QED
    BY <2>1, <2>2
<1>8. QED
  BY <1>4, <1>5, <1>6, <1>7 DEF IInv

\* A pitch on its way to a stream.
LEMMA SubmissionStep ==
  ASSUME IInv, \/ \E p \in Pitches : SubmitPitch(p)
               \/ StopAtFilter \/ RunStream \/ Revise
  PROVE  IInv'
<1>1. ASSUME NEW p \in Pitches, SubmitPitch(p)
      PROVE  IInv'
  BY <1>1 DEF IInv, TypeOK, OneAtATime, HeardWasSent, VerdictIsComplete, Finished,
              SubmitPitch, serverVars, streamVars, pollVars
<1>2. CASE StopAtFilter
  BY <1>2 DEF IInv, TypeOK, OneAtATime, HeardWasSent, VerdictIsComplete, Finished,
              StopAtFilter, serverVars, streamVars, pollVars
<1>3. CASE RunStream
  <2>1. TypeOK'
    BY <1>3, Zeros DEF IInv, TypeOK, OneAtATime, RunStream, pollVars
  <2>2. QED
    BY <1>3, <2>1 DEF IInv, OneAtATime, HeardWasSent, VerdictIsComplete,
                      RunStream, pollVars
<1>4. CASE Revise
  BY <1>4 DEF IInv, TypeOK, OneAtATime, HeardWasSent, VerdictIsComplete, Finished,
              Revise, serverVars, streamVars, pollVars
<1>5. QED
  BY <1>1, <1>2, <1>3, <1>4

\* The stream is read to its end, or breaks.
LEMMA StreamReading ==
  ASSUME IInv, StreamStep \/ FetchRejects \/ BodyEnds \/ ReadRejects
  PROVE  IInv'
<1>1. CASE Connect
  <2>1. heard' = heard /\ conn' = "open" /\ conn = "waiting"
    BY <1>1 DEF Connect
  <2>2. TypeOK' /\ OneAtATime' /\ VerdictIsComplete'
    BY <1>1 DEF IInv, TypeOK, OneAtATime, VerdictIsComplete, Finished,
                Connect, serverVars, pageVars, pollVars
  <2>3. HeardWasSent'
    BY <1>1, <2>1 DEF IInv, HeardWasSent, Connect, serverVars, pageVars, TypeOK
  <2>4. QED
    BY <2>2, <2>3 DEF IInv
<1>2. CASE ReadRefusal
  BY <1>2 DEF IInv, TypeOK, OneAtATime, HeardWasSent, VerdictIsComplete, Finished,
              ReadRefusal, serverVars, pollVars
<1>3. CASE ReadEvent
  <2>1. TypeOK'
    BY <1>3 DEF IInv, TypeOK, ReadEvent, Available, Finished, serverVars, pollVars
  <2>2. HeardWasSent'
    BY <1>3 DEF IInv, TypeOK, HeardWasSent, ReadEvent, Available, serverVars
  <2>3. OneAtATime' /\ VerdictIsComplete'
    BY <1>3 DEF IInv, OneAtATime, VerdictIsComplete, ReadEvent, serverVars, pollVars
  <2>4. QED
    BY <2>1, <2>2, <2>3 DEF IInv
<1>4. CASE ReadDone
  <2>1. /\ phase[pitch] \in Finished /\ pitch \in Pitches
        /\ shown' = [of |-> pitch, dimensions |-> Dimensions, recovered |-> FALSE]
    <3>1. Dimensions + 2 > Dimensions
      OBVIOUS
    <3>2. conn = "open" /\ heard = Dimensions + 2 /\ shown' = Live(heard)
      BY <1>4 DEF ReadDone
    <3>3. QED
      BY <3>1, <3>2 DEF IInv, OneAtATime, HeardWasSent, Live
  <2>2. TypeOK'
    <3>1. shown' \in [of : Pitches \cup {None}, dimensions : 0 .. Dimensions,
                      recovered : BOOLEAN]
      BY <2>1
    <3>2. QED
      BY <1>4, <3>1 DEF IInv, TypeOK, ReadDone, serverVars, pollVars
  <2>3. VerdictIsComplete'
    BY <1>4, <2>1 DEF VerdictIsComplete, ReadDone, serverVars
  <2>4. OneAtATime' /\ HeardWasSent'
    BY <1>4 DEF IInv, OneAtATime, HeardWasSent, ReadDone, pollVars
  <2>5. QED
    BY <2>2, <2>3, <2>4 DEF IInv
<1>5. CASE FetchRejects
  <2>1. requests' \in [Pitches -> {"none", "sent", "refused"}]
    BY <1>5 DEF IInv, TypeOK, FetchRejects
  <2>2. TypeOK'
    BY <1>5, <2>1 DEF IInv, TypeOK, FetchRejects, StartRecovery, Finished
  <2>3. OneAtATime' /\ HeardWasSent' /\ VerdictIsComplete'
    BY <1>5 DEF IInv, OneAtATime, HeardWasSent, VerdictIsComplete, FetchRejects,
                StartRecovery
  <2>4. QED
    BY <2>2, <2>3 DEF IInv
<1>6. CASE BodyEnds
  BY <1>6 DEF IInv, TypeOK, OneAtATime, HeardWasSent, VerdictIsComplete, Finished,
              BodyEnds, StartRecovery, serverVars
<1>7. CASE ReadRejects
  BY <1>7 DEF IInv, TypeOK, OneAtATime, HeardWasSent, VerdictIsComplete, Finished,
              ReadRejects, serverVars, pollVars
<1>8. QED
  BY <1>1, <1>2, <1>3, <1>4, <1>5, <1>6, <1>7 DEF StreamStep

\* A poll wakes, finds the report or misses it.
LEMMA PollStepKeeps ==
  ASSUME IInv, PollStep
  PROVE  IInv'
<1>1. CASE PollWakes
  BY <1>1 DEF IInv, TypeOK, OneAtATime, HeardWasSent, VerdictIsComplete, Finished,
              PollWakes, serverVars, streamVars, pageVars
<1>2. CASE PollFinds
  <2>1. PICK c \in Pitches :
          /\ Candidate(c)
          /\ shown' = [of |-> c, dimensions |-> Dimensions, recovered |-> TRUE]
    BY <1>2 DEF PollFinds
  <2>2. phase[c] = "saved" /\ createdAt[c] >= submittedAt - Grace /\ c # None
    BY <1>2, <2>1 DEF Candidate, PollFinds, IInv, OneAtATime
  <2>3. TypeOK'
    BY <1>2, <2>1 DEF IInv, TypeOK, PollFinds, Finished, serverVars, streamVars
  <2>4. VerdictIsComplete'
    BY <1>2, <2>1, <2>2 DEF VerdictIsComplete, PollFinds, serverVars, streamVars
  <2>5. OneAtATime' /\ HeardWasSent'
    BY <1>2 DEF IInv, OneAtATime, HeardWasSent, PollFinds, serverVars, streamVars
  <2>6. QED
    BY <2>3, <2>4, <2>5 DEF IInv
<1>3. CASE PollMisses
  <2>1. TypeOK'
    BY <1>3 DEF IInv, TypeOK, PollMisses, Finished, serverVars, streamVars
  <2>2. stage = "recovering"
    BY <1>3 DEF IInv, OneAtATime, PollMisses
  <2>3. OneAtATime' /\ HeardWasSent' /\ VerdictIsComplete'
    BY <1>3, <2>2 DEF IInv, OneAtATime, HeardWasSent, VerdictIsComplete, PollMisses,
                      serverVars, streamVars
  <2>4. QED
    BY <2>1, <2>3 DEF IInv
<1>4. QED
  BY <1>1, <1>2, <1>3 DEF PollStep

LEMMA InvariantStep == IInv /\ [Next]_vars => IInv'
<1> SUFFICES ASSUME IInv, [Next]_vars
             PROVE  IInv'
  OBVIOUS
<1>1. ASSUME NEW p \in Pitches, Serve(p) \/ Announce(p) \/ Settle(p)
      PROVE  IInv'
  BY <1>1, ServerStep
<1>2. CASE \/ \E p \in Pitches : SubmitPitch(p)
           \/ StopAtFilter \/ RunStream \/ Revise
  BY <1>2, SubmissionStep
<1>3. CASE StreamStep \/ FetchRejects \/ BodyEnds \/ ReadRejects
  BY <1>3, StreamReading
<1>4. CASE PollStep
  BY <1>4, PollStepKeeps
<1>5. CASE Reset
  <2>1. TypeOK'
    BY <1>5, Zeros DEF IInv, TypeOK, Reset, serverVars, streamVars, pollVars
  <2>2. OneAtATime' /\ HeardWasSent' /\ VerdictIsComplete'
    BY <1>5 DEF IInv, OneAtATime, HeardWasSent, VerdictIsComplete, Reset,
                serverVars, streamVars, pollVars
  <2>3. QED
    BY <2>1, <2>2 DEF IInv
<1>6. CASE Reload
  <2>1. TypeOK'
    BY <1>6, Zeros DEF IInv, TypeOK, Reload, serverVars
  <2>2. OneAtATime' /\ HeardWasSent' /\ VerdictIsComplete'
    BY <1>6 DEF OneAtATime, HeardWasSent, VerdictIsComplete, Reload
  <2>3. QED
    BY <2>1, <2>2 DEF IInv
<1>7. CASE Tick
  BY <1>7 DEF IInv, TypeOK, OneAtATime, HeardWasSent, VerdictIsComplete, Finished,
              Tick, streamVars, pageVars, pollVars
<1>8. CASE UNCHANGED vars
  BY <1>8 DEF IInv, TypeOK, OneAtATime, HeardWasSent, VerdictIsComplete, Finished,
              vars, serverVars, streamVars, pageVars, pollVars
<1>9. QED
  BY <1>1, <1>2, <1>3, <1>4, <1>5, <1>6, <1>7, <1>8 DEF Next

\* The page, its polls and the analyses keep IInv (use-validation-flow.ts).
THEOREM Invariant == Spec => []IInv
BY InvariantInit, InvariantStep, PTL DEF Spec

\* Types, for any pitches.
THEOREM TypeCorrect == Spec => []TypeOK
<1>1. IInv => TypeOK
  BY DEF IInv
<1>2. QED
  BY <1>1, Invariant, PTL

\* A verdict on the page is of a finished analysis, with an outcome of every
\* agent, wherever the connection broke (recovering-view.tsx, "half-verdict").
THEOREM VerdictIsCompleteHolds == Spec => []VerdictIsComplete
<1>1. IInv => VerdictIsComplete
  BY DEF IInv
<1>2. QED
  BY <1>1, Invariant, PTL

\* A recovered verdict is of the founder's own pitch unless another report of
\* the session is as recent (attemptRecovery, use-validation-flow.ts:87).
THEOREM VerdictIsOwnWhenAloneHolds == Spec => []VerdictIsOwnWhenAlone
<1>1. ASSUME IInv PROVE VerdictIsOwnWhenAlone
  <2> SUFFICES ASSUME \A q \in Pitches \ {pitch} :
                        phase[q] = "saved" => createdAt[q] < submittedAt - Grace,
                      stage = "verdict", shown.of # pitch
               PROVE  FALSE
    BY DEF VerdictIsOwnWhenAlone, VerdictIsOwn
  <2>1. shown.of \in Pitches \ {pitch} /\ createdAt[shown.of] \in Int
    BY <1>1 DEF IInv, TypeOK, VerdictIsComplete
  <2>2. phase[shown.of] = "saved" /\ createdAt[shown.of] >= submittedAt - Grace
    BY <1>1, <2>1 DEF IInv, TypeOK, VerdictIsComplete
  <2>3. submittedAt \in Int /\ Grace \in Int
    BY <1>1 DEF IInv, TypeOK
  <2>4. QED
    BY <2>1, <2>2, <2>3
<1>2. QED
  BY <1>1, Invariant, PTL

\* A poll that ends finds the page recovering (attemptRecovery).
THEOREM PollAnswersRecoveryHolds == Spec => PollAnswersRecovery
<1>1. IInv =>
        (poller = "asking" /\ poller' = "none" /\ stage' # "idle" /\ ~cancelled
           => stage = "recovering")
  BY DEF IInv, OneAtATime
<1>2. QED
  BY <1>1, Invariant, PTL DEF PollAnswersRecovery

-----------------------------------------------------------------------------
\* Whatever the page does, each analysis it starts is one of Analysis: it is
\* saved at most once, after its final event, and with Pipeline's refinement it
\* is the analysis that orchestrator/graph.py runs.
THEOREM AnalysesAreAnalysis ==
  ASSUME NEW CONSTANT p \in Pitches
  PROVE  Spec => A(p)!Spec
<1>1. Init => A(p)!Init
  BY DEF Init, A!Init
<1>2. ASSUME IInv, [Next]_vars
      PROVE  [A(p)!Next]_(phase[p])
  <2>1. phase \in [Pitches -> {"absent", "pending", "failed"} \cup Finished]
    BY <1>2 DEF IInv, TypeOK
  <2>2. ASSUME NEW q \in Pitches, Serve(q) \/ Announce(q) \/ Settle(q), q # p
        PROVE  UNCHANGED phase[p]
    BY <2>1, <2>2 DEF Serve, Announce, Settle
  <2>3. CASE Serve(p) \/ Announce(p) \/ Settle(p)
    BY <2>3 DEF Serve, Announce, Settle, A!Next
  <2>4. \/ \E q \in Pitches : Serve(q) \/ Announce(q) \/ Settle(q)
        \/ UNCHANGED phase
    BY <1>2 DEF Next, vars, serverVars, SubmitPitch, StopAtFilter, RunStream,
       Revise, StreamStep, Connect, ReadRefusal, ReadEvent, ReadDone, FetchRejects,
       BodyEnds, ReadRejects, PollStep, PollWakes, PollFinds, PollMisses, Reset,
       Reload, Tick
  <2>5. QED
    BY <2>2, <2>3, <2>4
<1>3. IInv /\ [Next]_vars => [A(p)!Next]_(phase[p])
  BY <1>2
<1>4. QED
  BY <1>1, <1>3, Invariant, PTL DEF Spec, A!Spec
=============================================================================
