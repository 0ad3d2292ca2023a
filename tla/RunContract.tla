---------------------------- MODULE RunContract ----------------------------
(***************************************************************************)
(* What run.json may say: validate_loop_run, the check every writer makes  *)
(* before a run is published and every reader after it was read.           *)
(*                                                                         *)
(* A run is a record of                                                    *)
(*   status, step     LoopRun.status and current_step                      *)
(*   steps            per step its status and its artifact: 0, or the      *)
(*                    number of the attempt that wrote it                  *)
(*   cand             the candidate: lifecycle, phase of its patch         *)
(*                    transaction, diff (0 is the empty diff, otherwise    *)
(*                    the Development attempt applied), cleanup times      *)
(*   policy           the Development attempts whose decision it carries   *)
(*   ledger           provider_exchange_records, each with the outcome of  *)
(*                    the record it refers to                              *)
(*   approval, promotion   the evidence of the two human decisions         *)
(*   report           eval_report_path: 0, or the evaluation attempt       *)
(*   recovery         latest_recovery: 0, or the recovery id               *)
(*   updated          updated_at                                           *)
(* A digest of a value is the value. Runs are isolated_candidate runs with *)
(* schema-2 candidates.                                                    *)
(***************************************************************************)
EXTENDS Naturals, Sequences, SequencesExt

CONSTANTS EarlySteps,  \* the provider steps before Development, in order
          None         \* an absent value

ASSUME EarlyStepsAssumption ==
  /\ EarlySteps \in Seq(ToSet(EarlySteps)) /\ EarlySteps # <<>> /\ IsInjective(EarlySteps)
  /\ ToSet(EarlySteps) \cap
       {"development", "output_review", "testing", "eval_report"} = {}

ASSUME NoneAssumption == None \notin {"advance", "stop", "invalid"}

ProviderSteps == EarlySteps \o <<"development", "output_review">>
Steps         == ProviderSteps \o <<"testing", "eval_report">>
StepNames     == ToSet(Steps)
ProviderNames == ToSet(ProviderSteps)

Position == [s \in StepNames |-> CHOOSE i \in DOMAIN Steps : Steps[i] = s]

\* The successor a step's good answer leads to; OutputReview has none.
NextProviderStep(s) ==
  IF s = "output_review" THEN None ELSE Steps[Position[s] + 1]

AtStep(run, s, status) == run.steps[s].st = status

-----------------------------------------------------------------------------
(* The ledger by itself: groups of one step attempt, never reordered, each *)
(* a strict alternation that starts with the initial request.              *)

Group(e) == <<e.step, e.attempt>>

IsInitialRequest(e) == e.kind = "initial" /\ e.phase = "request" /\ e.index = 1

OpensGroup(ledger, i) == i = 1 \/ Group(ledger[i]) # Group(ledger[i - 1])

GroupIsFresh(ledger, i) ==
  /\ i > 1 => ledger[i - 1].phase = "response"
  /\ \A j \in 1..(i - 1) : Group(ledger[j]) # Group(ledger[i])
  /\ IsInitialRequest(ledger[i])

Alternates(previous, e) ==
  \/ /\ e.phase = "response" /\ previous.phase = "request"
     /\ e.index = previous.index /\ e.kind = previous.kind
  \/ /\ e.phase = "request" /\ previous.phase = "response"
     /\ e.index = previous.index + 1

LedgerIsWellFormed(ledger) ==
  \A i \in DOMAIN ledger :
    /\ ledger[i].step \in ProviderNames /\ ledger[i].attempt > 0
    /\ IF OpensGroup(ledger, i) THEN GroupIsFresh(ledger, i)
                                ELSE Alternates(ledger[i - 1], ledger[i])

-----------------------------------------------------------------------------
(* The candidate by itself.                                                *)

CleanupTimes(cand) ==
  CASE cand.life \in {"provisioning", "active"} -> cand.started = None /\ cand.cleaned = None
    [] cand.life = "cleaning" -> cand.started # None /\ cand.cleaned = None
    [] OTHER                  -> cand.started # None /\ cand.cleaned # None

CandidateIsWellFormed(cand) ==
  /\ CleanupTimes(cand)
  /\ cand.life = "provisioning" => cand.phase = "none"
  /\ (cand.phase = "applied") <=> (cand.diff # 0)

\* Nothing has happened to the run while its candidate is provisioned.
Untouched(run) ==
  /\ run.status = "Pending" /\ run.step = Steps[1]
  /\ \A s \in StepNames : run.steps[s] = [st |-> "Pending", art |-> 0]
  /\ run.policy = {} /\ run.ledger = <<>> /\ run.report = 0

CandidateFitsRun(run) ==
  /\ CandidateIsWellFormed(run.cand)
  /\ run.status = "Running" => run.cand.life = "active"
  /\ run.status = "Pending" => run.cand.life \in {"provisioning", "active"}
  /\ run.cand.life = "provisioning" => Untouched(run)

ActiveApplied(cand) == cand.life = "active" /\ cand.phase = "applied"

-----------------------------------------------------------------------------
(* The human review barrier.                                               *)

ReviewLedger(run) ==
  /\ run.ledger # <<>>
  /\ LET last == Last(run.ledger) IN
     /\ last.step = "output_review" /\ last.phase = "response"
     /\ \E i \in DOMAIN run.ledger :
          Group(run.ledger[i]) = Group(last) /\ IsInitialRequest(run.ledger[i])

AwaitingStep(run, s, status, hasArtifact) ==
  /\ AtStep(run, s, status)
  /\ (run.steps[s].art # 0) = hasArtifact

AwaitsReview(run) ==
  /\ run.step = "testing"
  /\ ActiveApplied(run.cand)
  /\ AtStep(run, "development", "Completed")
  /\ AwaitingStep(run, "output_review", "Passed", TRUE)
  /\ AwaitingStep(run, "testing", "Pending", FALSE)
  /\ AwaitingStep(run, "eval_report", "Pending", FALSE)
  /\ run.report = 0
  /\ ReviewLedger(run)

\* An approval binds the diff, the policy decision, and the first and the last
\* record of the review it approves, which must be the last of the ledger.
ApprovalBinds(run) ==
  /\ run.approval # None
  /\ LET a == run.approval IN
     /\ a.diff = run.cand.diff
     /\ a.review = run.steps["output_review"].art
     /\ a.request \in ToSet(run.ledger) /\ a.response = Last(run.ledger)
     /\ IsInitialRequest(a.request) /\ a.response.phase = "response"
     /\ a.request.step = "output_review"
     /\ Group(a.request) = Group(a.response)
     /\ run.policy = {a.policy}

-----------------------------------------------------------------------------
(* The final evaluation and the promotion.                                 *)

FinalRun(run, passed) ==
  /\ run.step = "eval_report"
  /\ run.cand.phase = "applied" /\ (passed => run.cand.life = "active")
  /\ \A i \in DOMAIN EarlySteps : run.steps[EarlySteps[i]].st \in {"Completed", "Passed"}
  /\ AtStep(run, "development", "Completed") /\ AtStep(run, "output_review", "Passed")
  /\ \A s \in {"testing", "eval_report"} :
       AwaitingStep(run, s, IF passed THEN "Passed" ELSE "Failed", TRUE)
  /\ run.report = run.steps["eval_report"].art

\* The EvalPassed run a promoted one comes from, by its own account.
Predecessor(run) ==
  [run EXCEPT !.status = "EvalPassed", !.updated = run.promotion.passedAt,
              !.promotion = None]

PromotionBinds(run) ==
  /\ run.promotion # None
  /\ LET p == run.promotion IN
     /\ p.at = run.updated /\ p.at >= p.passedAt
     /\ p.diff = run.approval.diff /\ p.policy = run.approval.policy
     /\ p.testing = run.steps["testing"].art
     /\ p.report = run.steps["eval_report"].art
     /\ p.predecessor = Predecessor(run)

StatusIsEarned(run) ==
  CASE run.status = "AwaitingHumanReview" -> AwaitsReview(run) /\ run.approval = None
    [] run.status = "Approved"   -> AwaitsReview(run) /\ ApprovalBinds(run)
    [] run.status = "EvalPassed" -> FinalRun(run, TRUE) /\ ApprovalBinds(run)
    [] run.status = "Promoted"   ->
         FinalRun(run, TRUE) /\ ApprovalBinds(run) /\ PromotionBinds(run)
    [] run.status = "Failed" /\ run.approval # None ->
         FinalRun(run, FALSE) /\ ApprovalBinds(run)
    [] OTHER -> run.approval = None

ValidRun(run) ==
  /\ LedgerIsWellFormed(run.ledger)
  /\ CandidateFitsRun(run)
  /\ StatusIsEarned(run)
  /\ run.promotion # None => run.status = "Promoted"

-----------------------------------------------------------------------------
(* The statuses the publication rules speak of.                            *)

IsFinal(run) ==
  \/ run.status \in {"EvalPassed", "Promoted"}
  \/ run.status = "Failed" /\ run.approval # None

IsFrozen(run) ==
  \/ run.status \in {"AwaitingHumanReview", "Approved", "EvalPassed", "Promoted"}
  \/ /\ run.status = "Failed" /\ run.step = "eval_report"
     /\ run.approval # None /\ run.report # 0
=============================================================================
