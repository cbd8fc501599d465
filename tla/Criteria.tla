------------------------------ MODULE Criteria ------------------------------
(***************************************************************************)
(* The kill criteria and the evidence of one idea: creation, resolution,   *)
(* evidence submission, the scheduler's lapse and reminder sweeps, and the *)
(* delete cascade (services/criteria_service.py, evidence_service.py,      *)
(* scheduler.py, the notifications they send, and the two repositories).   *)
(*                                                                         *)
(* Each MongoDB call is one step: a call finds MongoDB marked unavailable  *)
(* and does nothing, or returns, or raises and marks it unavailable, and   *)
(* then a write may or may not have been applied.  Criteria differ only in *)
(* their status and in how near their deadline is.                         *)
(***************************************************************************)
EXTENDS Integers

CONSTANTS
  Criteria,     \* criteria the founder may commit to
  Resolvers,    \* POST /criteria/{id}/resolve requests
  Submitters,   \* POST /ideas/{id}/evidence requests
  None,         \* no criterion
  MaxRestarts,  \* bound: how often the process dies
  MongoMayFail, FounderMayDelete  \* BOOLEAN: what a run explores

Requests == Resolvers \cup Submitters

ASSUME CriteriaAssumption ==
  /\ None \notin Criteria
  /\ Resolvers \cap Submitters = {}
  /\ MaxRestarts \in Nat
  /\ {MongoMayFail, FounderMayDelete} \subseteq BOOLEAN

VARIABLES
  ideaExists,  \* the idea is in `ideas`
  claimed,     \* ideas.account_id is set
  status,      \* criteria.status; "none" before the insert, "gone" after the delete
  deadline,    \* criteria.deadline, compared with the clock
  reminded,    \* criteria.reminder_sent_at is set
  emails,      \* reminders the provider accepted for each criterion
  creating,    \* criteria whose create request has seen the idea
  evidence,    \* requests whose evidence document is in `evidence`
  linked,      \* those whose document has a triggered_snapshot_id
  pc,          \* where each request is, or its HTTP status
  job,         \* a resolve request's criterion (as it read it) and outcome
  sweep,       \* where the scheduler's tick is
  todo,        \* the documents the current sweep has listed and not done
  target,      \* the document whose reminder is being sent
  deletePc,    \* where delete_idea_cascade is
  mongoAvailable, \* services.mongo._mongo_available
  restarts     \* how often the process died

ideaVars == <<ideaExists, claimed>>
criteriaVars == <<status, deadline, reminded, emails, creating>>
requestVars == <<evidence, linked, pc, job>>
sweepVars == <<sweep, todo, target>>
systemVars == <<deletePc, mongoAvailable, restarts>>
vars == <<ideaVars, criteriaVars, requestVars, sweepVars, systemVars>>

Outcomes == {"met", "failed"}
Answers == {"200", "201", "404", "409", "500", "503", "lost"}

Job == [criterion : Criteria \cup {None},
        seen : {"none", "pending", "lapsed", "gone"} \cup Outcomes,
        outcome : Outcomes]

TypeOK ==
  /\ {ideaExists, claimed, mongoAvailable} \subseteq BOOLEAN
  /\ status \in [Criteria -> {"none", "pending", "lapsed", "gone"} \cup Outcomes]
  /\ deadline \in [Criteria -> {"far", "near", "passed"}]
  /\ reminded \in [Criteria -> BOOLEAN]
  /\ emails \in [Criteria -> Nat]
  /\ creating \in SUBSET Criteria
  /\ evidence \in SUBSET Requests
  /\ linked \in SUBSET Requests
  /\ pc \in [Requests -> {"idle", "owner", "resolve", "evidence", "rescore",
                          "link", "reread"} \cup Answers]
  /\ job \in [Requests -> Job]
  /\ sweep \in {"idle", "lapse", "remind", "send", "mark"}
  /\ todo \in SUBSET Criteria
  /\ target \in Criteria \cup {None}
  /\ deletePc \in {"never", "criteria", "evidence", "idea", "done"}
  /\ restarts \in Nat

Init ==
  /\ ideaExists = TRUE
  /\ claimed \in BOOLEAN
  /\ status = [c \in Criteria |-> "none"]
  /\ deadline = [c \in Criteria |-> "far"]
  /\ reminded = [c \in Criteria |-> FALSE]
  /\ emails = [c \in Criteria |-> 0]
  /\ creating = {}
  /\ evidence = {}
  /\ linked = {}
  /\ pc = [q \in Requests |-> "idle"]
  /\ job = [q \in Requests |-> [criterion |-> None, seen |-> "none", outcome |-> "met"]]
  /\ sweep = "idle"
  /\ todo = {}
  /\ target = None
  /\ deletePc = "never"
  /\ mongoAvailable = TRUE
  /\ restarts = 0

-----------------------------------------------------------------------------
\* A MongoDB call returns; raises; finds MongoDB marked unavailable.
Returns == mongoAvailable /\ UNCHANGED mongoAvailable
Raises  == mongoAvailable /\ MongoMayFail /\ mongoAvailable' = FALSE
Skips   == ~mongoAvailable /\ UNCHANGED mongoAvailable

Goto(q, label) == pc' = [pc EXCEPT ![q] = label]

\* The document of c is in the collection.
InCollection(c) == status[c] \notin {"none", "gone"}

-----------------------------------------------------------------------------
\* create_criterion: the route has read the idea.
StartCreate(c) ==
  /\ Returns /\ ideaExists
  /\ status[c] = "none" /\ c \notin creating
  /\ creating' = creating \cup {c}
  /\ UNCHANGED <<ideaVars, status, deadline, reminded, emails, requestVars,
                 sweepVars, deletePc, restarts>>

\* criteria_repository.create_criterion; the deadline is in the future.
InsertCriterion(c) ==
  /\ c \in creating
  /\ creating' = creating \ {c}
  /\ \/ /\ Returns \/ Raises
        /\ status' = [status EXCEPT ![c] = "pending"]
        /\ \E d \in {"far", "near"} : deadline' = [deadline EXCEPT ![c] = d]
     \/ /\ Raises \/ Skips
        /\ UNCHANGED <<status, deadline>>
  /\ UNCHANGED <<ideaVars, reminded, emails, requestVars, sweepVars, deletePc,
                 restarts>>

\* Time brings a deadline nearer.
Pass(c) ==
  /\ InCollection(c)
  /\ deadline[c] # "passed"
  /\ deadline' = [deadline EXCEPT ![c] = IF @ = "far" THEN "near" ELSE "passed"]
  /\ UNCHANGED <<ideaVars, status, reminded, emails, creating, requestVars,
                 sweepVars, systemVars>>

-----------------------------------------------------------------------------
\* The resolve route reads the criterion.
ReadCriterion(q, c, outcome) ==
  /\ pc[q] = "idle" /\ q \in Resolvers
  /\ status[c] # "none"
  /\ job' = [job EXCEPT ![q] =
              [criterion |-> c, seen |-> status[c], outcome |-> outcome]]
  /\ \/ Returns /\ InCollection(c) /\ Goto(q, "owner")
     \/ Returns /\ ~InCollection(c) /\ Goto(q, "404")
     \/ (Raises \/ Skips) /\ Goto(q, "404")
  /\ UNCHANGED <<ideaVars, criteriaVars, evidence, linked, sweepVars, deletePc,
                 restarts>>

\* The resolve and the evidence route read the idea and check who owns it;
\* the resolve route then looks at the status it read before.
ReadIdea(q) ==
  /\ pc[q] = IF q \in Resolvers THEN "owner" ELSE "idle"
  /\ \/ /\ Returns /\ ideaExists
        /\ Goto(q, IF q \in Submitters THEN "evidence"
                   ELSE IF job[q].seen = "pending" THEN "resolve" ELSE "409")
     \/ Returns /\ ~ideaExists /\ Goto(q, "404")
     \/ (Raises \/ Skips) /\ Goto(q, "404")
  /\ UNCHANGED <<ideaVars, criteriaVars, evidence, linked, job, sweepVars,
                 deletePc, restarts>>

\* criteria_repository.resolve: the filter names the criterion and no status.
Resolve(q) ==
  LET c == job[q].criterion
      Apply == status' = [status EXCEPT ![c] = job[q].outcome] IN
  /\ pc[q] = "resolve"
  /\ \/ Returns /\ InCollection(c) /\ Apply /\ Goto(q, "evidence")
     \/ Returns /\ ~InCollection(c) /\ UNCHANGED status /\ Goto(q, "503")
     \/ Raises /\ InCollection(c) /\ Apply /\ Goto(q, "503")
     \/ (Raises \/ Skips) /\ UNCHANGED status /\ Goto(q, "503")
  /\ UNCHANGED <<ideaVars, deadline, reminded, emails, creating, evidence, linked,
                 job, sweepVars, deletePc, restarts>>

\* create_evidence; resolve_criterion ignores what it returns.
CreateEvidence(q) ==
  /\ pc[q] = "evidence"
  /\ \/ Returns /\ evidence' = evidence \cup {q}
     \/ Raises /\ evidence' \in {evidence, evidence \cup {q}}
     \/ Skips /\ UNCHANGED evidence
  /\ Goto(q, IF q \in Submitters /\ ~mongoAvailable' THEN "503" ELSE "rescore")
  /\ UNCHANGED <<ideaVars, criteriaVars, linked, job, sweepVars, deletePc, restarts>>

\* run_evidence_snapshot (ScoreHistory): a snapshot or None.
Rescore(q) ==
  /\ pc[q] = "rescore"
  /\ \/ (Returns \/ Raises) /\ Goto(q, "link")
     \/ /\ Returns \/ Raises \/ Skips
        /\ Goto(q, IF q \in Submitters THEN "201" ELSE "reread")
  /\ UNCHANGED <<ideaVars, criteriaVars, evidence, linked, job, sweepVars,
                 deletePc, restarts>>

\* set_triggered_snapshot.
LinkSnapshot(q) ==
  /\ pc[q] = "link"
  /\ \/ (Returns \/ Raises) /\ linked' = linked \cup ({q} \cap evidence)
     \/ (Raises \/ Skips) /\ UNCHANGED linked
  /\ Goto(q, IF q \in Submitters THEN "201" ELSE "reread")
  /\ UNCHANGED <<ideaVars, criteriaVars, evidence, job, sweepVars, deletePc,
                 restarts>>

\* The criterion is read again for the response; without it, building the
\* response raises.
Reread(q) ==
  /\ pc[q] = "reread"
  /\ \/ Returns /\ Goto(q, IF InCollection(job[q].criterion) THEN "200" ELSE "500")
     \/ (Raises \/ Skips) /\ Goto(q, "500")
  /\ UNCHANGED <<ideaVars, criteriaVars, evidence, linked, job, sweepVars,
                 deletePc, restarts>>

-----------------------------------------------------------------------------
\* Mutant: only criteria the founder was reminded of lapse.
ListReminded ==
  /\ sweep = "idle"
  /\ sweep' = "lapse"
  /\ \/ /\ Returns
        /\ todo' = {c \in Criteria : /\ status[c] = "pending"
                                     /\ deadline[c] = "passed"
                                     /\ reminded[c]}
     \/ (Raises \/ Skips) /\ todo' = {}
  /\ UNCHANGED <<ideaVars, criteriaVars, requestVars, target, deletePc, restarts>>

\* The tick of the scheduler: the lapse sweep lists and marks...
ListLapsable ==
  /\ sweep = "idle"
  /\ sweep' = "lapse"
  /\ \/ /\ Returns
        /\ todo' = {c \in Criteria : status[c] = "pending" /\ deadline[c] = "passed"}
     \/ (Raises \/ Skips) /\ todo' = {}
  /\ UNCHANGED <<ideaVars, criteriaVars, requestVars, target, deletePc, restarts>>

\* Mutants: the update does not ask for a pending criterion; it writes a
\* status that CriterionDocument does not have.
MarkAnyLapsed(c) ==
  /\ sweep = "lapse" /\ c \in todo
  /\ todo' = todo \ {c}
  /\ Returns
  /\ status' = [status EXCEPT ![c] = "lapsed"]
  /\ UNCHANGED <<ideaVars, deadline, reminded, emails, creating, requestVars,
                 sweep, target, deletePc, restarts>>

MarkExpired(c) ==
  /\ sweep = "lapse" /\ c \in todo
  /\ todo' = todo \ {c}
  /\ Returns
  /\ status' = [status EXCEPT ![c] = IF @ = "pending" THEN "expired" ELSE @]
  /\ UNCHANGED <<ideaVars, deadline, reminded, emails, creating, requestVars,
                 sweep, target, deletePc, restarts>>

\* mark_lapsed: conditional on the criterion being pending still.
MarkLapsed(c) ==
  /\ sweep = "lapse" /\ c \in todo
  /\ todo' = todo \ {c}
  /\ \/ /\ Returns \/ Raises
        /\ status' = [status EXCEPT ![c] = IF @ = "pending" THEN "lapsed" ELSE @]
     \/ (Raises \/ Skips) /\ UNCHANGED status
  /\ UNCHANGED <<ideaVars, deadline, reminded, emails, creating, requestVars,
                 sweep, target, deletePc, restarts>>

\* Mutant: the filter forgets reminder_sent_at.
ListEveryNear ==
  /\ sweep = "lapse" /\ todo = {}
  /\ sweep' = "remind"
  /\ Returns
  /\ todo' = {c \in Criteria : status[c] = "pending" /\ deadline[c] = "near"}
  /\ UNCHANGED <<ideaVars, criteriaVars, requestVars, target, deletePc, restarts>>

\* ... then the reminder sweep lists, sends and marks, one criterion at a time.
ListNeedingReminder ==
  /\ sweep = "lapse" /\ todo = {}
  /\ sweep' = "remind"
  /\ \/ /\ Returns
        /\ todo' = {c \in Criteria : /\ status[c] = "pending"
                                     /\ deadline[c] = "near"
                                     /\ ~reminded[c]}
     \/ (Raises \/ Skips) /\ todo' = {}
  /\ UNCHANGED <<ideaVars, criteriaVars, requestVars, target, deletePc, restarts>>

\* The idea and its owner's address; without either, the next criterion.
FindOwner(c) ==
  /\ sweep = "remind" /\ c \in todo
  /\ todo' = todo \ {c}
  /\ \/ Returns /\ ideaExists /\ claimed /\ sweep' = "send" /\ target' = c
     \/ Returns /\ ~(ideaExists /\ claimed) /\ UNCHANGED <<sweep, target>>
     \/ (Raises \/ Skips) /\ UNCHANGED <<sweep, target>>
  /\ UNCHANGED <<ideaVars, criteriaVars, requestVars, deletePc, restarts>>

\* The provider accepts the message, or refuses it; if it raises, the tick
\* gives the sweep up.
SendReminder ==
  /\ sweep = "send"
  /\ \/ /\ emails' = [emails EXCEPT ![target] = @ + 1]
        /\ sweep' = "mark"
        /\ UNCHANGED <<todo, target>>
     \/ sweep' = "remind" /\ target' = None /\ UNCHANGED <<emails, todo>>
     \/ sweep' = "idle" /\ target' = None /\ todo' = {} /\ UNCHANGED emails
  /\ UNCHANGED <<ideaVars, status, deadline, reminded, creating, requestVars,
                 systemVars>>

\* mark_reminder_sent.
MarkReminded ==
  /\ sweep = "mark"
  /\ sweep' = "remind" /\ target' = None
  /\ \/ /\ Returns \/ Raises
        /\ reminded' = [reminded EXCEPT ![target] = @ \/ InCollection(target)]
     \/ (Raises \/ Skips) /\ UNCHANGED reminded
  /\ UNCHANGED <<ideaVars, status, deadline, emails, creating, requestVars, todo,
                 deletePc, restarts>>

\* The loop goes to sleep until the next tick.
EndTick ==
  /\ sweep = "remind" /\ todo = {}
  /\ sweep' = "idle"
  /\ UNCHANGED <<ideaVars, criteriaVars, requestVars, todo, target, systemVars>>

-----------------------------------------------------------------------------
\* The claim flow gives the idea an account.
Claim ==
  /\ Returns /\ ideaExists /\ ~claimed
  /\ claimed' = TRUE
  /\ UNCHANGED <<ideaExists, criteriaVars, requestVars, sweepVars, deletePc,
                 restarts>>

\* delete_idea_cascade.  The snapshots go first (ScoreHistory); every delete is
\* tried whatever became of the one before.
StartDelete ==
  /\ FounderMayDelete /\ Returns /\ ideaExists /\ deletePc \in {"never", "done"}
  /\ deletePc' = "criteria"
  /\ UNCHANGED <<ideaVars, criteriaVars, requestVars, sweepVars, restarts>>

DeleteCriteria ==
  /\ deletePc = "criteria"
  /\ deletePc' = "evidence"
  /\ \/ /\ Returns \/ Raises
        /\ status' = [c \in Criteria |-> IF InCollection(c) THEN "gone" ELSE status[c]]
     \/ (Raises \/ Skips) /\ UNCHANGED status
  /\ UNCHANGED <<ideaVars, deadline, reminded, emails, creating, requestVars,
                 sweepVars, restarts>>

DeleteEvidence ==
  /\ deletePc = "evidence"
  /\ deletePc' = "idea"
  /\ \/ (Returns \/ Raises) /\ evidence' = {} /\ linked' = {}
     \/ (Raises \/ Skips) /\ UNCHANGED <<evidence, linked>>
  /\ UNCHANGED <<ideaVars, criteriaVars, pc, job, sweepVars, restarts>>

DeleteIdea ==
  /\ deletePc = "idea"
  /\ deletePc' = "done"
  /\ \/ (Returns \/ Raises) /\ ideaExists' = FALSE
     \/ (Raises \/ Skips) /\ UNCHANGED ideaExists
  /\ UNCHANGED <<claimed, criteriaVars, requestVars, sweepVars, restarts>>

\* The process dies with everything in flight, and is started again.
Restart ==
  /\ restarts < MaxRestarts
  /\ restarts' = restarts + 1
  /\ mongoAvailable' \in BOOLEAN
  /\ creating' = {}
  /\ pc' = [q \in Requests |-> IF pc[q] \in {"idle"} \cup Answers THEN pc[q]
                               ELSE "lost"]
  /\ sweep' = "idle" /\ todo' = {} /\ target' = None
  /\ deletePc' = IF deletePc = "never" THEN "never" ELSE "done"
  /\ UNCHANGED <<ideaVars, status, deadline, reminded, emails, evidence, linked, job>>

RequestStep(q) ==
  ReadIdea(q) \/ Resolve(q) \/ CreateEvidence(q) \/ Rescore(q) \/ LinkSnapshot(q)
    \/ Reread(q)

SweepStep ==
  \/ ListLapsable \/ ListNeedingReminder \/ SendReminder \/ MarkReminded \/ EndTick
  \/ \E c \in Criteria : MarkLapsed(c) \/ FindOwner(c)

Next ==
  \/ \E c \in Criteria : StartCreate(c) \/ InsertCriterion(c) \/ Pass(c)
  \/ \E q \in Resolvers, c \in Criteria, o \in Outcomes : ReadCriterion(q, c, o)
  \/ \E q \in Requests : RequestStep(q)
  \/ SweepStep
  \/ Claim
  \/ StartDelete \/ DeleteCriteria \/ DeleteEvidence \/ DeleteIdea
  \/ Restart

Spec == Init /\ [][Next]_vars

\* The loop ticks for ever, and each of its awaits returns.
FairSpec == Spec /\ WF_vars(SweepStep)

-----------------------------------------------------------------------------
\* An outcome the founder recorded is never overwritten by silence: the lapse
\* sweep works from a list that may be stale by the time it writes.
ResolutionSurvivesSweep ==
  [][\A c \in Criteria : status[c] \in Outcomes => status'[c] \in Outcomes \cup {"gone"}]_vars

\* The log never holds the outcome of a criterion that is open or lapsed: a
\* resolution's evidence is there only with its criterion resolved (or deleted),
\* in whatever order requests, sweeps and failures come.
EvidenceMatchesResolution ==
  \A q \in evidence \cap Resolvers :
    status[job[q].criterion] \in Outcomes \cup {"gone"}

\* One process reminds a founder of a criterion once, even if MongoDB fails
\* between the mail and its mark: it then stays marked unavailable, and
\* nothing is listed any more.
RemindersBounded == \A c \in Criteria : emails[c] =< 1 + restarts

\* "Silence is a signal": a criterion that nobody resolves lapses after its
\* deadline, unless MongoDB is out of reach.
SilenceIsRecorded ==
  \A c \in Criteria :
    status[c] = "pending" /\ deadline[c] = "passed"
      ~> status[c] # "pending" \/ ~mongoAvailable

\* What the founder is told holds: an answer of success means that the evidence
\* is in the log, unless the idea was being deleted, and that the criterion is
\* resolved; though resolve_criterion ignores what create_evidence returns.  A
\* document that names its snapshot is in the log.
AnswersAreTrue ==
  /\ \A q \in Requests :
       pc[q] \in {"200", "201"} => q \in evidence \/ deletePc # "never"
  /\ \A q \in Resolvers :
       pc[q] = "200" => status[job[q].criterion] \in Outcomes \cup {"gone"}
  /\ linked \subseteq evidence

\* "Exactly one reminder... never sent twice" (sweep_deadline_reminders).
ReminderSentOnce == \A c \in Criteria : emails[c] =< 1

\* A second resolution is answered "409 Criterion already ..." (the route and
\* its tests), so a criterion has one outcome in the log.
ResolvedOnce ==
  \A p, q \in evidence \cap Resolvers :
    job[p].criterion = job[q].criterion => p = q
=============================================================================
