------------------------------- MODULE RunLife -------------------------------
(***************************************************************************)
(* The life of one isolated run, from its creation to its promotion or the *)
(* cleanup of its candidate, as the commands write it into run.json and    *)
(* the publication checks admit it.                                        *)
(*                                                                         *)
(* Every command reads the run, decides by checks of its own that it may   *)
(* proceed (MayX), builds the run it intends (the primed value) and hands  *)
(* both to the publication, which decides again by the evidence on disk    *)
(* (RunAuthority).  Writing evidence and publishing the run that refers to *)
(* it are one action here: what lies between them is in ProviderLedger,    *)
(* EvaluationAuthority and RunPersistence.                                 *)
(***************************************************************************)
EXTENDS RunAuthority

CONSTANTS MaxAttempt,     \* bound: attempts of a provider step
          MaxEvals,       \* bound: evaluation attempts
          MaxRecoveries,  \* bound: recovery decisions
          MaxClock        \* bound: seconds; they only pass once a human has approved

ASSUME LifeAssumption ==
  {MaxAttempt, MaxEvals, MaxRecoveries, MaxClock} \subseteq Nat

VARIABLES run,    \* run.json
          files,  \* the evaluation and recovery evidence
          clock   \* now_timestamp

vars == <<run, files, clock>>

Pristine ==
  [status |-> "Pending", step |-> Steps[1],
   steps |-> [s \in StepNames |-> [st |-> "Pending", art |-> 0]],
   cand |-> [life |-> "provisioning", phase |-> "none", diff |-> 0,
             started |-> None, cleaned |-> None],
   policy |-> {}, ledger |-> <<>>, approval |-> None, promotion |-> None,
   report |-> 0, recovery |-> 0, updated |-> 0]

Init == run = Pristine /\ files = [evals |-> <<>>, recoveries |-> <<>>] /\ clock = 0

\* A run that is admitted is published.  (The condition is a value, so that TLC
\* evaluates it and does not split it into branches of the action.)
Publish(admitted, int) == admitted = TRUE /\ run' = int /\ UNCHANGED clock

-----------------------------------------------------------------------------
(* Provisioning and the provider steps.                                    *)

Provision ==
  LET int == [run EXCEPT !.cand.life = "active"] IN
  /\ Publish(run.cand.life = "provisioning" /\ PublishesFull(run, int, files), int)
  /\ UNCHANGED files

\* next_runnable_step and the human review execution barrier.
Runnable(s) ==
  /\ run.status \in {"Pending", "Running"} /\ run.cand.life = "active"
  /\ s \in ProviderNames
  /\ run.steps[s].st \in {"Pending", "Running"}
  /\ \A t \in StepNames : Position[t] < Position[s] => run.steps[t].st \notin {"Pending", "Running"}

Patched(s) == s = "output_review" => run.cand.phase = "applied"

MayBegin(s) == Runnable(s) /\ Patched(s) /\ run.steps[s].st = "Pending"

Begun(s) == [run EXCEPT !.status = "Running", !.step = s, !.steps[s].st = "Running",
                        !.updated = clock]

Begin(s) ==
  /\ Publish(MayBegin(s) /\ PublishesOrdinary(run, Begun(s), files), Begun(s))
  /\ UNCHANGED files

Working(s) == Runnable(s) /\ Patched(s) /\ run.steps[s].st = "Running"

\* A revision whose first request is still to be asked.
PendingRevision ==
  Kind(run, files) = "revise" /\ run.ledger = files.recoveries[run.recovery].source.ledger

\* The last record of the attempt the step is at; None before its first request.
HeadOf(s) ==
  IF run.ledger # <<>> /\ Last(run.ledger).step = s /\ ~PendingRevision
  THEN Last(run.ledger) ELSE None

Question(s) ==
  LET head == HeadOf(s) IN
  IF head = None
  THEN [step |-> s, attempt |-> LastAttempt(run.ledger, s) + 1, index |-> 1,
        kind |-> "initial", phase |-> "request", outcome |-> None]
  ELSE [head EXCEPT !.index = @ + 1, !.kind = "repair", !.phase = "request", !.outcome = None]

WantsAnswer(s) == HeadOf(s) # None /\ HeadOf(s).phase = "request"

WantsRepair(s) ==
  /\ HeadOf(s) # None /\ HeadOf(s).phase = "response"
  /\ HeadOf(s).outcome = "invalid" /\ HeadOf(s).kind = "initial"

MayAsk(s) == Working(s) /\ (HeadOf(s) = None \/ WantsRepair(s))

PublishesHead(int) ==
  ~IsFrozen(run) /\ MayStand(int, files)

Ask(s) ==
  LET int == [run EXCEPT !.ledger = Append(@, Question(s))] IN
  /\ Question(s).attempt <= MaxAttempt
  /\ Publish(MayAsk(s) /\ PublishesHead(int), int)
  /\ UNCHANGED files

Answer(s, outcome) ==
  LET int == [run EXCEPT !.ledger =
                Append(@, [HeadOf(s) EXCEPT !.phase = "response", !.outcome = outcome])] IN
  /\ Publish(Working(s) /\ WantsAnswer(s) /\ PublishesHead(int), int)
  /\ UNCHANGED files

\* The verdict on an answered step: the policy gate may still block a patch.
Verdicts(s) ==
  LET good == IF s = "output_review" THEN "Passed" ELSE "Completed" IN
  IF HeadOf(s).outcome = "stop" THEN {"Blocked"}
  ELSE IF HeadOf(s).outcome = "invalid" THEN {"Failed"}
  ELSE {good} \cup IF s = "development" THEN {"Blocked"} ELSE {}

MayFinish(s) ==
  Working(s) /\ HeadOf(s) # None /\ HeadOf(s).phase = "response" /\ ~WantsRepair(s)

\* finish_step, after append_policy_decisions.
Finished(s, verdict) ==
  LET good == verdict \in {"Completed", "Passed"}
      a    == HeadOf(s).attempt IN
  [run EXCEPT
     !.steps[s] = [st |-> verdict, art |-> IF good THEN a ELSE 0],
     !.step = IF good THEN Steps[Position[s] + 1] ELSE s,
     !.status = IF ~good THEN verdict
                ELSE IF s = "output_review" THEN "AwaitingHumanReview" ELSE "Running",
     !.policy = IF s = "development" /\ HeadOf(s).outcome = "advance" THEN {a} ELSE @,
     !.updated = clock]

PublishesFinish(int) ==
  IF IsFrozen(int) THEN PublishesFull(run, int, files) ELSE PublishesOrdinary(run, int, files)

Finish(s, verdict) ==
  /\ Publish(/\ MayFinish(s) /\ verdict \in Verdicts(s)
             /\ PublishesFinish(Finished(s, verdict)), Finished(s, verdict))
  /\ UNCHANGED files

\* The patch transaction of a completed Development.
MayApply == run.status = "Running" /\ AtStep(run, "development", "Completed")

\* Defective variant: the patch of the first attempt is applied.
ApplyTheFirst(phase) ==
  [run EXCEPT !.cand.phase = phase, !.cand.diff = IF phase = "applied" THEN 1 ELSE 0]

ApplyTo(phase) ==
  [run EXCEPT !.cand.phase = phase,
              !.cand.diff = IF phase = "applied" THEN run.steps["development"].art ELSE 0]

Apply(from, to) ==
  /\ Publish(MayApply /\ run.cand.phase = from /\ PublishesFull(run, ApplyTo(to), files),
             ApplyTo(to))
  /\ UNCHANGED files

-----------------------------------------------------------------------------
(* Approval, evaluation and promotion.                                     *)

MayApprove == run.status = "AwaitingHumanReview" /\ run.cand.life = "active"

ReviewRequest ==
  CHOOSE e \in ToSet(run.ledger) : IsInitialRequest(e) /\ Group(e) = Group(Last(run.ledger))

Approved ==
  [run EXCEPT !.status = "Approved", !.updated = clock,
              !.approval = [at |-> clock, diff |-> run.cand.diff,
                            policy |-> CHOOSE p \in run.policy : TRUE,
                            review |-> run.steps["output_review"].art,
                            request |-> ReviewRequest, response |-> Last(run.ledger)]]

Approve ==
  /\ Publish(MayApprove /\ PublishesFull(run, Approved, files), Approved)
  /\ UNCHANGED files

\* A decision is consumed by what it authorises.
RecoveryIsConsumed ==
  run.recovery = 0 \/
    CASE Kind(run, files) = "revise"     ->
           RevisionIsConsumed(run, run.recovery, files, ChainStands(run.recovery, files))
      [] Kind(run, files) = "invalidate" -> InvalidationIsConsumed(run, run.recovery, files)
      [] OTHER                           -> FALSE

\* The intent of an attempt: the first without a recovery, the next after the
\* invalidation of the one before.
MayEvaluate ==
  /\ run.status = "Approved" /\ run.cand.life = "active"
  /\ \/ files.evals = <<>> /\ Kind(run, files) \in {"none", "revise"} /\ RecoveryIsConsumed
     \/ /\ Kind(run, files) = "invalidate" /\ ~RecoveryIsConsumed
        /\ files.recoveries[run.recovery].attempt = Len(files.evals)

Intend ==
  /\ MayEvaluate = TRUE /\ Len(files.evals) < MaxEvals
  /\ files' = [files EXCEPT !.evals =
       Append(@, [run |-> run, recovery |-> IF @ = <<>> THEN 0 ELSE run.recovery,
                  stage |-> "intent", passed |-> FALSE, at |-> 0])]
  /\ UNCHANGED <<run, clock>>

Attempt == Len(files.evals)

InProgress(stage) ==
  /\ run.status = "Approved" /\ Attempt > 0 /\ files.evals[Attempt].stage = stage
  /\ files.evals[Attempt].run = run

\* One process writes intent, Testing evidence, report and verdict in this order
\* and may stop after any of them; no later one goes on for it.
Test(passed) ==
  /\ InProgress("intent")
  /\ files' = [files EXCEPT !.evals[Attempt].stage = "testing",
                            !.evals[Attempt].passed = passed, !.evals[Attempt].at = clock]
  /\ UNCHANGED <<run, clock>>

Report ==
  /\ InProgress("testing")
  /\ files' = [files EXCEPT !.evals[Attempt].stage = "report"]
  /\ UNCHANGED <<run, clock>>

Concluded == FinishedRun(run, files.evals[Attempt].passed, Attempt, files.evals[Attempt].at)

Conclude ==
  /\ Publish(InProgress("report") /\ PublishesFull(run, Concluded, files), Concluded)
  /\ UNCHANGED files

MayPromote == run.status = "EvalPassed"

Promoted ==
  [run EXCEPT !.status = "Promoted", !.updated = clock,
     !.promotion = [at |-> clock, passedAt |-> run.updated, diff |-> run.approval.diff,
                    policy |-> run.approval.policy, testing |-> run.steps["testing"].art,
                    report |-> run.report, predecessor |-> run]]

Promote ==
  /\ Publish(MayPromote /\ PublishesFull(run, Promoted, files), Promoted)
  /\ UNCHANGED files

-----------------------------------------------------------------------------
(* Recovery decisions.                                                     *)

Decide(r) == [files EXCEPT !.recoveries = Append(@, r)]

\* Defective variant: an evaluation of the approved run does not matter.
MayReviseEvaluated(s) ==
  /\ run.status \in {"AwaitingHumanReview", "Approved"} /\ s = "output_review"
  /\ run.cand.life = "active" /\ run.recovery = 0

\* validate_creation_eligibility and the source attempt of a revision.
MayRevise(s) ==
  /\ run.cand.life = "active" /\ files.evals = <<>>
  /\ run.recovery # 0 => Kind(run, files) = "revise" /\ RecoveryIsConsumed
  /\ \/ /\ run.status \in {"Blocked", "Failed"} /\ run.approval = None
        /\ \/ run.cand.phase = "none" /\ Position[s] <= Position["development"]
              /\ Position[s] <= Position[run.step]
           \/ run.cand.phase = "applied" /\ s = "output_review"
     \/ /\ run.status \in {"AwaitingHumanReview", "Approved"}
        /\ run.cand.phase = "applied" /\ s = "output_review"
  /\ \E i \in DOMAIN run.ledger :
       /\ Group(run.ledger[i]) = <<s, LastAttempt(run.ledger, s)>>
       /\ run.ledger[i].phase = "response"

Revision(s) ==
  [kind |-> "revise", source |-> run, step |-> s, created |-> clock,
   next |-> LastAttempt(run.ledger, s) + 1, attempt |-> 0, approved |-> None, passed |-> FALSE]

Revise(s) ==
  LET int == RevisedRun(run, s, run.recovery + 1, clock) IN
  /\ Publish(MayRevise(s) /\ PublishesRevision(run, int, Decide(Revision(s))), int)
  /\ files' = Decide(Revision(s))

\* Defective variant: the attempt need not be one of the run as it stands.
MayAdoptAnyAttempt ==
  /\ run.status = "Approved" /\ run.cand.life = "active"
  /\ Attempt > 0 /\ files.evals[Attempt].stage # "intent"

\* A complete attempt of the Approved run that no process concluded.
MayAdopt ==
  /\ run.status = "Approved" /\ run.cand.life = "active"
  /\ Attempt > 0 /\ files.evals[Attempt].stage # "intent" /\ files.evals[Attempt].run = run
  /\ RecoveryIsConsumed

Adoption ==
  [kind |-> "adopt", source |-> run, step |-> "testing", created |-> clock, next |-> 0,
   attempt |-> Attempt, approved |-> run, passed |-> files.evals[Attempt].passed]

WithAdoption ==
  [Decide(Adoption) EXCEPT !.evals[Attempt].stage = "report"]

Adopt ==
  LET int == AdoptedRun(Adoption, run.recovery + 1) IN
  /\ Publish(MayAdopt /\ PublishesAdoption(run, int, WithAdoption), int)
  /\ files' = WithAdoption

\* next_invalidation_recovery_id.
PriorAdmitsInvalidation ==
  CASE Kind(run, files) = "adopt"      -> run.status = "Failed"
    [] Kind(run, files) = "invalidate" ->
         RecoveryIsConsumed /\ Attempt = files.recoveries[run.recovery].attempt + 1
    [] OTHER -> RecoveryIsConsumed

InvalidationSource == IF run.status = "Approved" THEN run ELSE ApprovedOf(run, files)

\* An incomplete attempt of the Approved run, or a reported failure whose
\* candidate is still there.
MayInvalidate ==
  /\ Attempt > 0 /\ run.cand.life = "active"
  /\ \/ run.status = "Approved" /\ files.evals[Attempt].stage = "intent"
        /\ files.evals[Attempt].run = run
     \/ run.status = "Failed" /\ run.approval # None
  /\ PriorAdmitsInvalidation

Invalidation ==
  [kind |-> "invalidate", source |-> run, step |-> "testing", created |-> clock, next |-> 0,
   attempt |-> Attempt, approved |-> InvalidationSource, passed |-> FALSE]

Invalidate ==
  LET int == InvalidatedRun(Invalidation.approved, run.recovery + 1, clock) IN
  /\ Publish(MayInvalidate /\ PublishesInvalidation(run, int, Decide(Invalidation)), int)
  /\ files' = Decide(Invalidation)

-----------------------------------------------------------------------------
(* Cleanup of the candidate.                                               *)

MayClean == run.status \in {"Blocked", "Failed"}

Cleaning == [run EXCEPT !.cand.life = "cleaning", !.cand.started = clock]
Cleaned  == [run EXCEPT !.cand.life = "cleaned", !.cand.cleaned = clock]

CleanStart ==
  /\ Publish(MayClean /\ run.cand.life = "active" /\ PublishesFull(run, Cleaning, files), Cleaning)
  /\ UNCHANGED files

CleanFinish ==
  /\ Publish(MayClean /\ run.cand.life = "cleaning" /\ PublishesFull(run, Cleaned, files), Cleaned)
  /\ UNCHANGED files

Tick ==
  /\ run.approval # None /\ clock < MaxClock
  /\ clock' = clock + 1
  /\ UNCHANGED <<run, files>>

-----------------------------------------------------------------------------
Step(s) ==
  \/ Begin(s) \/ Ask(s)
  \/ \E outcome \in {"advance", "stop", "invalid"} : Answer(s, outcome)
  \/ \E verdict \in {"Completed", "Passed", "Blocked", "Failed"} : Finish(s, verdict)

Decision ==
  /\ Len(files.recoveries) < MaxRecoveries
  /\ (\E s \in ProviderNames : Revise(s)) \/ Adopt \/ Invalidate

Next ==
  \/ Provision
  \/ \E s \in ProviderNames : Step(s)
  \/ Apply("none", "applying") \/ Apply("applying", "applied")
  \/ Approve
  \/ Intend \/ (\E passed \in BOOLEAN : Test(passed)) \/ Report \/ Conclude
  \/ Promote
  \/ Decision
  \/ CleanStart \/ CleanFinish
  \/ Tick

Spec == Init /\ [][Next]_vars

-----------------------------------------------------------------------------
(* Properties.                                                             *)

\* Some attempt of the ledger was authorised by a revision.
Revised == \E n \in 1..run.recovery : files.recoveries[n].kind = "revise"

\* What the checks of a command accept, its publication accepts: no command does
\* its work and is then refused the run it made of it.  The two cases in which the
\* code breaks this are stated below.
WritersAgree ==
  /\ \A s \in ProviderNames :
       /\ MayBegin(s) => PublishesOrdinary(run, Begun(s), files)
       /\ MayAsk(s) => PublishesHead([run EXCEPT !.ledger = Append(@, Question(s))])
       /\ MayFinish(s) => \A v \in Verdicts(s) : PublishesFinish(Finished(s, v))
       /\ MayRevise(s) =>
            PublishesRevision(run, RevisedRun(run, s, run.recovery + 1, clock), Decide(Revision(s)))
  /\ MayApprove => PublishesFull(run, Approved, files)
  /\ InProgress("report") => PublishesFull(run, Concluded, files)
  /\ MayPromote => PublishesFull(run, Promoted, files)
  /\ MayClean /\ run.cand.life = "active" /\ Kind(run, files) # "adopt" =>
       PublishesFull(run, Cleaning, files)
  /\ MayAdopt /\ ~Revised =>
       PublishesAdoption(run, AdoptedRun(Adoption, run.recovery + 1), WithAdoption)
  /\ MayInvalidate /\ ~Revised =>
       PublishesInvalidation(run, InvalidatedRun(InvalidationSource, run.recovery + 1, clock),
                             Decide(Invalidation))

\* What was authenticated when it was published stays authentic whatever is written
\* after it: the run on disk can always be read back, with every decision behind it.
LineageKept ==
  /\ MayStand(run, files)
  /\ ChainStands(run.recovery, files)

\* A promoted run went through every gate with one and the same patch: the attempt
\* that wrote it, the policy decision, the review that is the last word of the
\* ledger, the human's approval and a passing evaluation of exactly that run.
PromotedIsEarned ==
  run.status = "Promoted" =>
    /\ run.policy = {run.cand.diff} /\ run.approval.diff = run.cand.diff
    /\ run.steps["development"].art = run.cand.diff
    /\ run.approval.response = Last(run.ledger) /\ Last(run.ledger).outcome = "advance"
    /\ LET e == Last(files.evals) IN
       e.passed /\ e.run.approval = run.approval /\ e.run.cand = run.cand

\* An approval is given up for one thing only, another review of the same patch, and
\* never after an evaluation of what it approved has been recorded.
ApprovalStays ==
  [][run.approval # None /\ run'.approval # run.approval =>
       /\ run'.approval = None /\ run'.step = "output_review" /\ run'.status = "Pending"
       /\ run'.cand = run.cand /\ files.evals = <<>> /\ files'.evals = <<>>]_vars

\* docs/production-use-implementation-plan.md: the final authority "validates pass/fail,
\* Failed-cleanup, and Promoted descendants": the candidate of a failure that was adopted
\* can be cleaned up like that of any other failure.
AdoptedFailureIsCleanable ==
  MayClean /\ run.cand.life = "active" => PublishesFull(run, Cleaning, files)

\* docs/production-readiness-roadmap.md: "mixed provider-v1/evaluation-v2 lineage is
\* authenticated": a run one of whose provider steps was revised can adopt its evaluation
\* like any other.
RevisedRunAdopts ==
  MayAdopt => PublishesAdoption(run, AdoptedRun(Adoption, run.recovery + 1), WithAdoption)

-----------------------------------------------------------------------------
(* The inductive invariant.                                                *)

Entry ==
  [step : ProviderNames, attempt : Nat \ {0}, index : Nat, kind : {"initial", "repair"},
   phase : {"request"}, outcome : {None}]
  \cup
  [step : ProviderNames, attempt : Nat \ {0}, index : Nat, kind : {"initial", "repair"},
   phase : {"response"}, outcome : {"advance", "stop", "invalid"}]

Candidate ==
  [life : {"provisioning", "active", "cleaning", "cleaned"}, phase : {"none", "applying", "applied"},
   diff : Nat, started : Nat \cup {None}, cleaned : Nat \cup {None}]

Approval == [at : Nat, diff : Nat, policy : Nat, review : Nat, request : Entry, response : Entry]

RunsWith(promotions) ==
  [status : {"Pending", "Running", "Blocked", "Failed", "AwaitingHumanReview", "Approved",
             "EvalPassed", "Promoted"},
   step : StepNames,
   steps : [StepNames -> [st : {"Pending", "Running", "Completed", "Passed", "Blocked", "Failed"},
                          art : Nat]],
   cand : Candidate, policy : SUBSET Nat, ledger : Seq(Entry), approval : Approval \cup {None},
   promotion : promotions, report : Nat, recovery : Nat, updated : Nat]

\* A run that has not been promoted; a promotion keeps the one it was given to.
LiveRun == RunsWith({None})

Promotion ==
  [at : Nat, passedAt : Nat, diff : Nat, policy : Nat, testing : Nat, report : Nat,
   predecessor : LiveRun]

AnyRun == RunsWith(Promotion \cup {None})

Evaluation ==
  [run : LiveRun, recovery : Nat, stage : {"intent", "testing", "report"}, passed : BOOLEAN, at : Nat]

RecoveryDecision ==
  [kind : {"revise", "adopt", "invalidate"}, source : LiveRun, step : StepNames, created : Nat,
   next : Nat, attempt : Nat, approved : LiveRun \cup {None}, passed : BOOLEAN]

TypeOK ==
  /\ run \in AnyRun
  /\ files \in [evals : Seq(Evaluation), recoveries : Seq(RecoveryDecision)]
  /\ clock \in Nat

\* The decision on the policy is that of the attempt that completed Development, and
\* so is the patch that the candidate carries.
PatchIsDecided(r) ==
  /\ AtStep(r, "development", "Completed") => r.policy = {r.steps["development"].art}
  /\ r.cand.phase # "none" => AtStep(r, "development", "Completed")
  /\ r.cand.phase = "applied" => r.cand.diff = r.steps["development"].art

\* Every decision has been taken up into run.json.
DecisionsAreTaken == run.recovery = Len(files.recoveries)

\* A decision about an evaluation names the attempt, and one that gives it up the
\* Approved run to go back to.
DecisionsAreNamed(f) ==
  \A n \in DOMAIN f.recoveries :
    /\ f.recoveries[n].kind # "revise" => f.recoveries[n].attempt > 0
    /\ f.recoveries[n].kind = "invalidate" => f.recoveries[n].approved \in LiveRun

IInv ==
  TypeOK /\ PatchIsDecided(run) /\ DecisionsAreTaken /\ DecisionsAreNamed(files) /\ LineageKept

-----------------------------------------------------------------------------
(* What the writers rely on.                                               *)

ASSUME AbsenceAssumption ==
  /\ None \notin Nat /\ None \notin Entry /\ None \notin Approval
  /\ None \notin Promotion /\ None \notin LiveRun

\* Work on the provider steps goes on, or has stopped short of a review.
IsOpen ==
  run.status \in {"Pending", "Running", "Blocked"} \/ (run.status = "Failed" /\ run.approval = None)

Good == {"Completed", "Passed"}

\* The steps are passed in order: the ones before the current step are done, and
\* nothing has happened to the ones after it.
StepsInOrder ==
  /\ IsOpen =>
       /\ run.step \in ProviderNames /\ run.report = 0
       /\ run.steps[run.step].st \in
            IF run.status = "Running" THEN {"Pending", "Running"} ELSE {run.status}
       /\ \A t \in StepNames :
            /\ Position[t] < Position[run.step] => run.steps[t].st \in Good
            /\ Position[run.step] < Position[t] => run.steps[t] = [st |-> "Pending", art |-> 0]
  /\ run.status \in {"AwaitingHumanReview", "Approved"} =>
       \A i \in DOMAIN EarlySteps : run.steps[EarlySteps[i]].st \in Good

\* The ledger ends with what the current step follows from: an unanswered revision, a
\* record of that step, or the approving answer of the step before.
LedgerLeads ==
  /\ IsOpen /\ PendingRevision =>
       files.recoveries[run.recovery].step = run.step /\ Last(run.ledger).phase = "response"
  /\ IsOpen /\ ~PendingRevision /\ run.ledger # <<>> =>
       \/ Last(run.ledger).step = run.step
       \/ run.step = NextProviderStep(Last(run.ledger).step) /\ Last(run.ledger).outcome = "advance"
  /\ IsOpen /\ run.status \in {"Blocked", "Failed"} => Last(run.ledger).phase = "response"
  /\ run.ledger # <<>> =>
       Last(run.ledger).attempt = LastAttempt(run.ledger, Last(run.ledger).step)
  /\ Kind(run, files) = "revise" =>
       Len(files.recoveries[run.recovery].source.ledger) <= Len(run.ledger)

\* Where a run is after the last decision about it.
DecisionsFit ==
  /\ Kind(run, files) = "adopt" => IsFinal(run)
  /\ Kind(run, files) = "invalidate" => run.approval # None
  /\ run.status = "Approved" =>
       IF Kind(run, files) = "invalidate"
       THEN LET r == files.recoveries[run.recovery] IN
            run = InvalidatedRun(r.approved, run.recovery, r.created) /\ Attempt <= r.attempt + 1
       ELSE run.updated = run.approval.at
  /\ \A n \in DOMAIN files.recoveries :
       files.recoveries[n].kind = "invalidate" => files.recoveries[n].approved.recovery < n

\* Attempts bind the decision that authorised them, and time does not go back.
AttemptsFit ==
  /\ \A k \in DOMAIN files.evals :
       /\ files.evals[k].recovery = IF k = 1 THEN 0 ELSE files.evals[k].run.recovery
       /\ files.evals[k].at <= clock
  /\ run.updated <= clock

LifeInv == IInv /\ StepsInOrder /\ LedgerLeads /\ DecisionsFit /\ AttemptsFit

=============================================================================
