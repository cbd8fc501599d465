--------------------------- MODULE CriteriaProofs ---------------------------
(***************************************************************************)
(* Proofs about Criteria, for any criteria and requests, any number of     *)
(* restarts and every fault: types, what the lapse sweep may not overwrite,*)
(* the evidence of resolutions and the number of reminders.                *)
(***************************************************************************)
EXTENDS Criteria, TLAPS

\* A resolve request that has read a criterion names it, and what it logs is
\* of a criterion that is resolved by then.
Named(q) == job[q].criterion \in Criteria
Resolved(c) == status[c] \in Outcomes \cup {"gone"}
JobsInOrder ==
  \A q \in Resolvers :
    /\ pc[q] \in {"owner", "resolve"} => Named(q) /\ q \notin evidence
    /\ pc[q] = "idle" => q \notin evidence
    /\ pc[q] \in {"evidence", "rescore", "link", "reread"} \/ q \in evidence
         => Named(q) /\ Resolved(job[q].criterion)

\* A request past create_evidence has its document in the log, or its write
\* failed and took MongoDB away, which ends the request short of a 200; a
\* founder's own evidence is answered with a 503 then.
Logged(q) == q \in evidence \/ deletePc # "never"
LoggedInOrder ==
  /\ \A q \in Requests : pc[q] \in {"rescore", "link", "reread"} =>
       Logged(q) \/ (q \in Resolvers /\ ~mongoAvailable)
  /\ \A q \in Requests : pc[q] \in {"200", "201"} => Logged(q)
  /\ \A q \in Resolvers :
       pc[q] = "200" => Named(q) /\ Resolved(job[q].criterion)
  /\ linked \subseteq evidence

\* A criterion that is being created is not there yet.
CreatingIsNew == \A c \in creating : status[c] = "none"

\* What a sweep has listed exists (or was deleted since).
ListedExist ==
  /\ \A c \in todo : status[c] # "none"
  /\ sweep \in {"send", "mark"} => target \in Criteria /\ status[target] # "none"

\* A criterion that is listed, or whose mail is about to go out, has not been
\* mailed by this process; one that has is marked, or about to be, or the mark
\* failed and took MongoDB away.
Mailed(c) == emails[c] > restarts
RemindersInOrder ==
  /\ sweep \in {"remind", "send", "mark"} => \A c \in todo : ~Mailed(c)
  /\ sweep \in {"send", "mark"} => target \notin todo
  /\ sweep = "send" => ~Mailed(target)
  /\ \A c \in Criteria : Mailed(c) =>
       \/ reminded[c] \/ ~mongoAvailable \/ status[c] = "gone"
       \/ sweep = "mark" /\ target = c

IInv ==
  /\ TypeOK
  /\ JobsInOrder
  /\ CreatingIsNew
  /\ ListedExist
  /\ RemindersInOrder
  /\ RemindersBounded

USE CriteriaAssumption
USE DEF Requests, Outcomes, Answers

LEMMA InvariantInit == Init => IInv
BY DEF Init, IInv, TypeOK, JobsInOrder, CreatingIsNew, ListedExist, Mailed,
       RemindersInOrder, RemindersBounded, Job

LEMMA TypeStep ==
  ASSUME TypeOK, [Next]_vars
  PROVE  TypeOK'
<1> USE DEF TypeOK, ideaVars, criteriaVars, requestVars, sweepVars, systemVars,
            Returns, Raises, Skips, Goto, InCollection
<1>1. ASSUME NEW c \in Criteria, StartCreate(c) \/ InsertCriterion(c) \/ Pass(c)
      PROVE  TypeOK'
  <2>1. CASE StartCreate(c)
    BY <2>1 DEF StartCreate
  <2>2. CASE InsertCriterion(c)
    BY <2>2 DEF InsertCriterion
  <2>3. CASE Pass(c)
    BY <2>3 DEF Pass
  <2>4. QED
    BY <1>1, <2>1, <2>2, <2>3
<1>2. ASSUME NEW q \in Resolvers, NEW c \in Criteria, NEW o \in Outcomes,
             ReadCriterion(q, c, o)
      PROVE  TypeOK'
  <2>1. [criterion |-> c, seen |-> status[c], outcome |-> o] \in Job
    BY DEF Job
  <2>2. job' \in [Requests -> Job]
    BY <1>2, <2>1 DEF ReadCriterion
  <2>3. pc' \in [Requests -> {"idle", "owner", "resolve", "evidence", "rescore",
                              "link", "reread"} \cup Answers]
    BY <1>2 DEF ReadCriterion
  <2>4. QED
    BY <1>2, <2>2, <2>3 DEF ReadCriterion
<1>3. ASSUME NEW q \in Requests, RequestStep(q)
      PROVE  TypeOK'
  <2>1. CASE ReadIdea(q)
    BY <2>1 DEF ReadIdea
  <2>2. CASE Resolve(q)
    <3>1. job[q].outcome \in Outcomes
      BY DEF Job
    <3>2. status' \in [Criteria -> {"none", "pending", "lapsed", "gone"} \cup Outcomes]
      BY <2>2, <3>1 DEF Resolve
    <3>3. pc' \in [Requests -> {"idle", "owner", "resolve", "evidence", "rescore",
                                "link", "reread"} \cup Answers]
      BY <2>2 DEF Resolve
    <3>4. QED
      BY <2>2, <3>2, <3>3 DEF Resolve
  <2>3. CASE CreateEvidence(q)
    BY <2>3 DEF CreateEvidence
  <2>4. CASE Rescore(q)
    BY <2>4 DEF Rescore
  <2>5. CASE LinkSnapshot(q)
    BY <2>5 DEF LinkSnapshot
  <2>6. CASE Reread(q)
    BY <2>6 DEF Reread
  <2>7. QED
    BY <1>3, <2>1, <2>2, <2>3, <2>4, <2>5, <2>6 DEF RequestStep
<1>4. CASE SweepStep
  <2>1. CASE ListLapsable \/ ListNeedingReminder \/ EndTick
    BY <2>1 DEF ListLapsable, ListNeedingReminder, EndTick
  <2>2. CASE SendReminder
    BY <2>2 DEF SendReminder
  <2>3. CASE MarkReminded
    BY <2>3 DEF MarkReminded
  <2>4. ASSUME NEW c \in Criteria, MarkLapsed(c) \/ FindOwner(c)
        PROVE  TypeOK'
    BY <2>4 DEF MarkLapsed, FindOwner
  <2>5. QED
    BY <1>4, <2>1, <2>2, <2>3, <2>4 DEF SweepStep
<1>5. CASE Claim \/ StartDelete \/ DeleteCriteria \/ DeleteEvidence \/ DeleteIdea
  BY <1>5 DEF Claim, StartDelete, DeleteCriteria, DeleteEvidence, DeleteIdea
<1>6. CASE Restart
  BY <1>6 DEF Restart
<1>7. CASE UNCHANGED vars
  BY <1>7 DEF vars
<1>8. QED
  BY <1>1, <1>2, <1>3, <1>4, <1>5, <1>6, <1>7 DEF Next

\* A resolved criterion stays resolved until it is deleted, and a deleted one
\* deleted; only a creation makes a criterion that was not there.
LEMMA StatusStep ==
  ASSUME IInv, [Next]_vars, NEW c \in Criteria
  PROVE  /\ status[c] \in Outcomes => status'[c] \in Outcomes \cup {"gone"}
         /\ status[c] = "gone" => status'[c] = "gone"
         /\ status[c] # "none" => status'[c] # "none"
         /\ c \in creating' => status'[c] = "none"
<1> USE DEF IInv, TypeOK, CreatingIsNew, ideaVars, criteriaVars, requestVars,
            sweepVars, systemVars, InCollection
<1>1. ASSUME NEW d \in Criteria, StartCreate(d) \/ InsertCriterion(d) \/ Pass(d)
      PROVE  /\ status[c] # "none" => status'[c] = status[c]
             /\ c \in creating' => status'[c] = "none"
  BY <1>1 DEF StartCreate, InsertCriterion, Pass
<1>2. ASSUME NEW q \in Requests, Resolve(q)
      PROVE  /\ UNCHANGED creating
             /\ \/ status'[c] = status[c]
                \/ InCollection(c) /\ status'[c] \in Outcomes
  <2>1. job[q].outcome \in Outcomes
    BY DEF Job
  <2>2. QED
    BY <1>2, <2>1 DEF Resolve
<1>3. ASSUME NEW q \in Requests,
             \/ ReadIdea(q) \/ CreateEvidence(q) \/ Rescore(q) \/ LinkSnapshot(q)
             \/ Reread(q) \/ \E d \in Criteria, o \in Outcomes : ReadCriterion(q, d, o)
      PROVE  UNCHANGED <<status, creating>>
  BY <1>3 DEF ReadIdea, CreateEvidence, Rescore, LinkSnapshot, Reread, ReadCriterion
<1>4. ASSUME NEW d \in Criteria, MarkLapsed(d)
      PROVE  /\ UNCHANGED creating
             /\ status[c] # "pending" => status'[c] = status[c]
             /\ status[c] = "pending" => status'[c] \in {"pending", "lapsed"}
  BY <1>4 DEF MarkLapsed
<1>5. ASSUME \/ ListLapsable \/ ListNeedingReminder \/ EndTick \/ SendReminder
             \/ MarkReminded \/ \E d \in Criteria : FindOwner(d)
      PROVE  UNCHANGED <<status, creating>>
  BY <1>5 DEF ListLapsable, ListNeedingReminder, EndTick, SendReminder,
              MarkReminded, FindOwner
<1>6. CASE DeleteCriteria
  BY <1>6 DEF DeleteCriteria
<1>7. CASE Claim \/ StartDelete \/ DeleteEvidence \/ DeleteIdea \/ Restart
           \/ UNCHANGED vars
  BY <1>7 DEF Claim, StartDelete, DeleteEvidence, DeleteIdea, Restart, vars
<1>8. QED
  BY <1>1, <1>2, <1>3, <1>4, <1>5, <1>6, <1>7
     DEF Next, RequestStep, SweepStep

\* What a criterion's requests rely on survives every step that is not theirs.
LEMMA ResolvedStays ==
  ASSUME IInv, [Next]_vars
  PROVE  \A c \in Criteria : Resolved(c) => Resolved(c)'
BY StatusStep DEF Resolved

LEMMA JobsStep ==
  ASSUME IInv, [Next]_vars
  PROVE  JobsInOrder'
<1> USE DEF JobsInOrder, Named, Goto
<1>1. /\ JobsInOrder /\ pc \in [Requests -> {"idle", "owner", "resolve", "evidence",
                                            "rescore", "link", "reread"} \cup Answers]
      /\ job \in [Requests -> Job] /\ evidence \subseteq Requests
  BY DEF IInv, TypeOK
<1>2. ASSUME NEW q \in Resolvers, NEW c \in Criteria, NEW o \in Outcomes,
             ReadCriterion(q, c, o)
      PROVE  JobsInOrder'
  BY <1>1, <1>2, ResolvedStays DEF ReadCriterion
<1>3. ASSUME NEW q \in Requests, RequestStep(q)
      PROVE  JobsInOrder'
  <2>1. CASE ReadIdea(q)
    BY <1>1, <2>1, ResolvedStays DEF ReadIdea
  <2>2. CASE Resolve(q)
    <3>1. UNCHANGED <<job, evidence>>
      BY <2>2 DEF Resolve, requestVars
    <3>2. ASSUME q \in Resolvers, pc'[q] = "evidence" PROVE Resolved(job[q].criterion)'
      <4>1. job[q].outcome \in Outcomes /\ job[q].criterion \in Criteria
        BY <1>1, <2>2, <3>2 DEF Resolve, Job
      <4>2. status' = [status EXCEPT ![job[q].criterion] = job[q].outcome]
        BY <1>1, <2>2, <3>2 DEF Resolve
      <4>3. QED
        BY <3>1, <4>1, <4>2 DEF Resolved, IInv, TypeOK
    <3>3. pc' = [pc EXCEPT ![q] = pc'[q]] /\ pc'[q] \in {"evidence", "503"} /\ pc[q] = "resolve"
      BY <1>1, <2>2 DEF Resolve
    <3>4. QED
      BY <1>1, <3>1, <3>2, <3>3, ResolvedStays DEF Resolved
  <2>3. CASE CreateEvidence(q)
    BY <1>1, <2>3, ResolvedStays DEF CreateEvidence
  <2>4. CASE Rescore(q)
    BY <1>1, <2>4, ResolvedStays DEF Rescore
  <2>5. CASE LinkSnapshot(q)
    BY <1>1, <2>5, ResolvedStays DEF LinkSnapshot
  <2>6. CASE Reread(q)
    BY <1>1, <2>6, ResolvedStays DEF Reread
  <2>7. QED
    BY <1>3, <2>1, <2>2, <2>3, <2>4, <2>5, <2>6 DEF RequestStep
<1>4. CASE Restart
  BY <1>1, <1>4, ResolvedStays DEF Restart
<1>5. CASE DeleteEvidence
  BY <1>1, <1>5, ResolvedStays DEF DeleteEvidence
<1>6. ASSUME UNCHANGED <<pc, job, evidence>> PROVE JobsInOrder'
  BY <1>1, <1>6, ResolvedStays DEF Resolved
<1>7. QED
  BY <1>2, <1>3, <1>4, <1>5, <1>6
     DEF Next, SweepStep, StartCreate, InsertCriterion, Pass, ListLapsable,
         ListNeedingReminder, SendReminder, MarkReminded, EndTick, MarkLapsed,
         FindOwner, Claim, StartDelete, DeleteCriteria, DeleteIdea, requestVars, vars

LEMMA ListedStep ==
  ASSUME IInv, [Next]_vars
  PROVE  ListedExist'
<1>1. /\ ListedExist /\ todo \subseteq Criteria
  BY DEF IInv, TypeOK
<1>2. \A c \in Criteria : status[c] # "none" => status'[c] # "none"
  BY StatusStep
<1>3. /\ todo' \subseteq Criteria
      /\ \A c \in todo' : c \in todo \/ status[c] = "pending"
      /\ sweep' \in {"send", "mark"} =>
           \/ sweep \in {"send", "mark"} /\ target' = target
           \/ target' \in todo
  BY <1>1 DEF Next, RequestStep, SweepStep, StartCreate, InsertCriterion, Pass,
     ReadCriterion, ReadIdea, Resolve, CreateEvidence, Rescore, LinkSnapshot, Reread,
     ListLapsable, ListNeedingReminder, SendReminder, MarkReminded, EndTick, MarkLapsed,
     FindOwner, Claim, StartDelete, DeleteCriteria, DeleteEvidence, DeleteIdea, Restart,
     sweepVars, vars
<1>4. QED
  BY <1>1, <1>2, <1>3 DEF ListedExist

LEMMA RemindersStep ==
  ASSUME IInv, TypeOK', [Next]_vars
  PROVE  RemindersInOrder' /\ RemindersBounded'
<1> USE DEF RemindersInOrder, Mailed
<1>1. /\ RemindersInOrder /\ RemindersBounded /\ ListedExist
      /\ emails \in [Criteria -> Nat] /\ emails' \in [Criteria -> Nat]
      /\ reminded \in [Criteria -> BOOLEAN]
      /\ restarts \in Nat /\ todo \subseteq Criteria
  BY DEF IInv, TypeOK
<1>2. \A c \in Criteria : status[c] = "gone" => status'[c] = "gone"
  BY StatusStep
<1>3. ASSUME UNCHANGED <<emails, restarts, reminded>>,
             mongoAvailable' => mongoAvailable,
             UNCHANGED <<sweep, todo, target>>
      PROVE  RemindersInOrder' /\ RemindersBounded'
  BY <1>1, <1>2, <1>3 DEF RemindersBounded
<1>4. CASE ListLapsable \/ EndTick \/ \E c \in Criteria : MarkLapsed(c)
  BY <1>1, <1>2, <1>4
     DEF ListLapsable, EndTick, MarkLapsed, Returns, Raises, Skips, RemindersBounded,
         criteriaVars, systemVars
<1>5. CASE ListNeedingReminder
  BY <1>1, <1>2, <1>5
     DEF ListNeedingReminder, Returns, Raises, Skips, RemindersBounded, criteriaVars
<1>6. ASSUME NEW c \in Criteria, FindOwner(c)
      PROVE  RemindersInOrder' /\ RemindersBounded'
  BY <1>1, <1>2, <1>6
     DEF FindOwner, Returns, Raises, Skips, RemindersBounded, criteriaVars
<1>7. CASE SendReminder
  <2>1. target \in Criteria
    BY <1>1, <1>7 DEF SendReminder, ListedExist
  <2>2. QED
    BY <1>1, <1>2, <1>7, <2>1 DEF SendReminder, RemindersBounded, systemVars
<1>8. CASE MarkReminded
  <2>1. target \in Criteria /\ status[target] # "none"
    BY <1>1, <1>8 DEF MarkReminded, ListedExist
  <2>2. /\ UNCHANGED <<emails, restarts, todo>> /\ sweep' = "remind"
        /\ mongoAvailable' => mongoAvailable
        /\ reminded' \in {reminded,
             [reminded EXCEPT ![target] = reminded[target] \/ InCollection(target)]}
        /\ \/ ~mongoAvailable'
           \/ reminded' = [reminded EXCEPT ![target] =
                             reminded[target] \/ InCollection(target)]
    BY <1>8 DEF MarkReminded, Returns, Raises, Skips
  <2>3. status'[target] = "gone" \/ reminded'[target] \/ ~mongoAvailable'
    BY <1>1, <1>2, <2>1, <2>2 DEF InCollection
  <2>4. \A c \in Criteria \ {target} : reminded'[c] = reminded[c]
    BY <1>1, <2>2
  <2>5. QED
    BY <1>1, <1>2, <1>8, <2>1, <2>2, <2>3, <2>4 DEF MarkReminded, RemindersBounded
<1>9. CASE Restart
  BY <1>1, <1>9 DEF Restart, RemindersBounded
<1>10. QED
  BY <1>3, <1>4, <1>5, <1>6, <1>7, <1>8, <1>9
     DEF Next, RequestStep, SweepStep, StartCreate, InsertCriterion, Pass,
         ReadCriterion, ReadIdea, Resolve, CreateEvidence, Rescore, LinkSnapshot,
         Reread, Claim, StartDelete, DeleteCriteria, DeleteEvidence, DeleteIdea,
         Returns, Raises, Skips, criteriaVars, sweepVars, systemVars, vars

LEMMA InvariantStep == IInv /\ [Next]_vars => IInv'
<1> SUFFICES ASSUME IInv, [Next]_vars PROVE IInv'
  OBVIOUS
<1>1. TypeOK'
  BY TypeStep DEF IInv
<1>2. CreatingIsNew'
  BY <1>1, StatusStep DEF CreatingIsNew, TypeOK
<1>3. QED
  BY <1>1, <1>2, JobsStep, ListedStep, RemindersStep DEF IInv

\* The inductive invariant holds of every behaviour.
THEOREM Invariant == Spec => []IInv
BY InvariantInit, InvariantStep, PTL DEF Spec

-----------------------------------------------------------------------------
\* Type correctness.
THEOREM TypeCorrect == Spec => []TypeOK
<1>1. IInv => TypeOK
  BY DEF IInv
<1>2. QED
  BY <1>1, Invariant, PTL

\* A resolution's evidence is in the log only with its criterion resolved or
\* deleted, however many requests and sweeps there are.
THEOREM EvidenceMatchesResolutionHolds == Spec => []EvidenceMatchesResolution
<1>1. IInv => EvidenceMatchesResolution
  BY DEF IInv, JobsInOrder, Resolved, EvidenceMatchesResolution
<1>2. QED
  BY <1>1, Invariant, PTL

\* One process never reminds a founder of a criterion twice.
THEOREM RemindersBoundedHolds == Spec => []RemindersBounded
<1>1. IInv => RemindersBounded
  BY DEF IInv
<1>2. QED
  BY <1>1, Invariant, PTL

\* The lapse sweep never overwrites an outcome, though its list may be stale.
THEOREM ResolutionSurvivesSweepHolds == Spec => ResolutionSurvivesSweep
<1>1. IInv /\ [Next]_vars =>
        [\A c \in Criteria : status[c] \in Outcomes => status'[c] \in Outcomes \cup {"gone"}]_vars
  BY StatusStep
<1>2. QED
  BY <1>1, Invariant, PTL DEF Spec, ResolutionSurvivesSweep

-----------------------------------------------------------------------------
LEMMA LoggedStep ==
  ASSUME IInv, LoggedInOrder, [Next]_vars
  PROVE  LoggedInOrder'
<1> USE DEF LoggedInOrder, Logged, Named, Goto, Returns, Raises, Skips
<1>1. /\ pc \in [Requests -> {"idle", "owner", "resolve", "evidence",
                               "rescore", "link", "reread"} \cup Answers]
      /\ job \in [Requests -> Job] /\ evidence \subseteq Requests
      /\ mongoAvailable \in BOOLEAN
  BY DEF IInv, TypeOK
<1>2. \A c \in Criteria : Resolved(c) => Resolved(c)'
  BY ResolvedStays
<1>3. ASSUME NEW q \in Resolvers, NEW c \in Criteria, NEW o \in Outcomes,
             ReadCriterion(q, c, o)
      PROVE  LoggedInOrder'
  BY <1>1, <1>2, <1>3 DEF ReadCriterion
<1>4. ASSUME NEW q \in Requests, RequestStep(q)
      PROVE  LoggedInOrder'
  <2>1. CASE ReadIdea(q)
    BY <1>1, <1>2, <2>1 DEF ReadIdea
  <2>2. CASE Resolve(q)
    BY <1>1, <1>2, <2>2 DEF Resolve, sweepVars
  <2>3. CASE CreateEvidence(q)
    <3>1. /\ evidence \subseteq evidence' /\ pc[q] = "evidence"
          /\ UNCHANGED <<linked, job, status, deletePc>>
          /\ q \in evidence' \/ ~mongoAvailable'
          /\ mongoAvailable' => mongoAvailable
      BY <1>1, <2>3 DEF CreateEvidence, criteriaVars
    <3>2. pc' = [pc EXCEPT ![q] =
                  IF q \in Submitters /\ ~mongoAvailable' THEN "503" ELSE "rescore"]
      BY <2>3 DEF CreateEvidence
    <3>3. \A p \in Requests \ {q} : pc'[p] = pc[p]
      BY <1>1, <3>2
    <3>4. pc'[q] = "503" \/ (pc'[q] = "rescore" /\ (Logged(q)' \/ (q \in Resolvers /\ ~mongoAvailable')))
      BY <1>1, <3>1, <3>2
    <3>5. \A p \in Requests : Logged(p) => Logged(p)'
      BY <3>1
    <3>6. QED
      BY <1>2, <3>1, <3>3, <3>4, <3>5
  <2>4. CASE Rescore(q)
    BY <1>1, <1>2, <2>4 DEF Rescore
  <2>5. CASE LinkSnapshot(q)
    BY <1>1, <1>2, <2>5 DEF LinkSnapshot
  <2>6. CASE Reread(q)
    <3>1. q \in Resolvers => Named(q) /\ Resolved(job[q].criterion)
      BY <2>6 DEF Reread, IInv, JobsInOrder
    <3>2. QED
      BY <1>1, <1>2, <2>6, <3>1 DEF Reread
  <2>7. QED
    BY <1>4, <2>1, <2>2, <2>3, <2>4, <2>5, <2>6 DEF RequestStep
<1>5. CASE Restart
  BY <1>1, <1>2, <1>5 DEF Restart
<1>6. CASE DeleteEvidence
  BY <1>1, <1>2, <1>6 DEF DeleteEvidence
<1>7. CASE StartDelete \/ DeleteCriteria \/ DeleteIdea
  BY <1>1, <1>2, <1>7 DEF StartDelete, DeleteCriteria, DeleteIdea, requestVars
<1>8. ASSUME UNCHANGED <<requestVars, deletePc>>, mongoAvailable' => mongoAvailable
      PROVE  LoggedInOrder'
  BY <1>1, <1>2, <1>8 DEF requestVars
<1>9. QED
  BY <1>3, <1>4, <1>5, <1>6, <1>7, <1>8
     DEF Next, SweepStep, StartCreate, InsertCriterion, Pass, ListLapsable,
         ListNeedingReminder, SendReminder, MarkReminded, EndTick, MarkLapsed,
         FindOwner, Claim, systemVars, vars

\* What the founder is told of an outcome or a piece of evidence is so, whatever
\* failed on the way.
THEOREM AnswersAreTrueHolds == Spec => []AnswersAreTrue
<1>1. Init => LoggedInOrder
  BY DEF Init, LoggedInOrder
<1>2. LoggedInOrder /\ IInv /\ [Next]_vars => LoggedInOrder'
  BY LoggedStep
<1>3. LoggedInOrder => AnswersAreTrue
  BY DEF LoggedInOrder, Logged, Resolved, AnswersAreTrue
<1>4. QED
  BY <1>1, <1>2, <1>3, Invariant, PTL DEF Spec
=============================================================================
