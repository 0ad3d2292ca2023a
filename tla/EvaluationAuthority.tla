------------------------ MODULE EvaluationAuthority ------------------------
(***************************************************************************)
(* The authority a SEAF run carries from the end of its output review to   *)
(* the promoted patch: human approval, the local evaluation attempts, the  *)
(* audited recoveries (revise, adopt, invalidate), cleanup and promotion.  *)
(*                                                                         *)
(* The state is what survives a crash: run.json and the create-only files  *)
(* of the run directory, the candidate worktree and the target checkout.   *)
(* One command at a time holds the candidate lock of the run; `cmd' is the *)
(* memory of that process, and Crash loses it between any two durable      *)
(* steps.  A failed authentication of the code (a drifted candidate, a     *)
(* changed source worktree) ends the command as Crash does.                *)
(***************************************************************************)
EXTENDS Integers, Sequences

CONSTANTS
  Operators,      \* the pairs <actor, reason> commands are issued with
  NumChecks,      \* evals.required of the canonical eval-config snapshot
  MaxAttempts,    \* bound: evaluation attempts
  MaxRecoveries,  \* bound: recovery ids
  MaxReviews,     \* bound: OutputReview provider attempts
  MaxCrashes,     \* bound: processes lost with the candidate lock held
  None            \* an absent file or field

Attempts   == 1 .. MaxAttempts
Recoveries == 1 .. MaxRecoveries
Checks     == 1 .. NumChecks

Statuses   == {"Pending", "Running", "AwaitingHumanReview", "Approved",
               "EvalPassed", "Failed", "Blocked", "Promoted"}
Lifecycles == {"Active", "Cleaning", "Cleaned"}
Kinds      == {"revise", "adopt", "invalidate"}   \* schema versions 1, 2, 3
Targets    == {"clean", "patched", "other"}

\* run.json, as far as this authority goes.  review: the OutputReview attempts
\* requested; recovery: latest_recovery; selected: the attempt whose Testing
\* and EvalReport the step records name.
Run == [status    : Statuses,
        approval  : Operators \cup {None},
        review    : 1 .. MaxReviews,
        recovery  : 0 .. MaxRecoveries,
        selected  : 0 .. MaxAttempts,
        candidate : Lifecycles]

Intent   == [run : Run, recovery : 0 .. MaxRecoveries]
Verdicts == [Checks -> BOOLEAN]

\* A recovery source snapshots the run it was taken from; `report' says that an
\* adoption verifies a report already present rather than creating it.
Source   == [kind : Kinds, who : Operators \cup {None}, run : Run, approved : Run,
             attempt : 0 .. MaxAttempts, report : BOOLEAN]

\* next: the provider or evaluation attempt the decision authorizes (revise,
\* invalidate), or the attempt it adopts.
Decision == [kind : Kinds, who : Operators, next : 1 .. (MaxAttempts + MaxReviews)]

Promotion == [who : Operators, run : Run]

Commands == {"none", "revise", "evaluate", "adopt", "invalidate", "cleanup", "promote"}
Points   == {"none", "decision", "spawn", "stdout", "stderr", "testing", "report",
             "publish", "remove", "apply"}
Command  == [name : Commands, at : Points, who : Operators \cup {None}, base : Run,
             attempt : 0 .. MaxAttempts, recovery : 0 .. MaxRecoveries,
             results : Seq(BOOLEAN)]

ASSUME BoundsAssumption ==
  /\ NumChecks \in Nat \ {0}
  /\ MaxAttempts \in Nat \ {0}
  /\ MaxRecoveries \in Nat
  /\ MaxReviews \in Nat \ {0}
  /\ MaxCrashes \in Nat

ASSUME NoneAssumption ==
  None \notin Operators \cup Intent \cup Verdicts \cup Source \cup Decision \cup Promotion

VARIABLES
  run,        \* run.json
  intent,     \* attempt -> 07-testing.attempt-NNN.intent.json
  logs,       \* attempt -> the number of stdout and stderr logs published
  testing,    \* attempt -> 07-testing.attempt-NNN.json
  report,     \* attempt -> whether 08-eval-report.attempt-NNN.json exists
  source,     \* recovery id -> recovery-NNN.source-run.json
  decision,   \* recovery id -> recovery-NNN.json
  promotion,  \* 09-promotion.intent.json
  target,     \* the source checkout the patch is promoted to
  worktree,   \* whether the candidate worktree exists
  ran,        \* history: attempt -> what every spawned command answered
  cmd,        \* the process that holds the candidate lock
  crashes     \* bound: how many such processes were lost

evidence == <<intent, logs, testing, report>>
recoveryFiles == <<source, decision>>
promotionState == <<promotion, target>>
vars == <<run, intent, logs, testing, report, source, decision, promotion, target,
          worktree, ran, cmd, crashes>>

FirstRun == [status |-> "Running", approval |-> None, review |-> 1, recovery |-> 0,
             selected |-> 0, candidate |-> "Active"]

Idle == [name |-> "none", at |-> "none", who |-> None, base |-> FirstRun,
         attempt |-> 0, recovery |-> 0, results |-> << >>]

\* The provider loop has applied the candidate patch and requested its first
\* OutputReview.
Init ==
  /\ run = FirstRun
  /\ intent = [a \in Attempts |-> None]
  /\ logs = [a \in Attempts |-> 0]
  /\ testing = [a \in Attempts |-> None]
  /\ report = [a \in Attempts |-> FALSE]
  /\ source = [i \in Recoveries |-> None]
  /\ decision = [i \in Recoveries |-> None]
  /\ promotion = None
  /\ target = "clean"
  /\ worktree = TRUE
  /\ ran = [a \in Attempts |-> << >>]
  /\ cmd = Idle
  /\ crashes = 0

-----------------------------------------------------------------------------
(* What the code derives from the files before it acts.                    *)

\* Defective variant: an attempt counts from its Testing evidence on.
OccupiedByTesting(a) == testing[a] # None

Occupied(a) == intent[a] # None

IsLatest(a) == Occupied(a) /\ \A b \in Attempts : Occupied(b) => b <= a

\* Attempt a is the exact next one: everything before it, nothing from it on.
IsFresh(a) == \A b \in Attempts : Occupied(b) <=> b < a

NoAttempt == \A a \in Attempts : ~Occupied(a)

\* Defective variant: one passing check passes the attempt.
PassedAny(a) == \E c \in Checks : testing[a][c]

Passed(a) == \A c \in Checks : testing[a][c]

FinalStatus(r) == r.status = "EvalPassed" \/ (r.status = "Failed" /\ r.approval # None)

\* The Approved run a final run was decided from.
ApprovedRunOf(r) ==
  IF r.recovery # 0 /\ decision[r.recovery].kind = "adopt"
    THEN source[r.recovery].run
    ELSE [r EXCEPT !.status = "Approved", !.selected = 0, !.candidate = "Active"]

\* The recovery an attempt's intent must name: none for the first one.
AttemptRecovery(a, approved) == IF a = 1 THEN 0 ELSE approved.recovery

IntentBinds(a, approved) ==
  intent[a] = [run |-> approved, recovery |-> AttemptRecovery(a, approved)]

FinalAuthority(r) ==
  \E a \in Attempts :
    /\ IsLatest(a) /\ r.selected = a
    /\ IntentBinds(a, ApprovedRunOf(r))
    /\ testing[a] # None /\ report[a]
    /\ r.status # "Failed" <=> Passed(a)

\* A recovery is consumed by the first request, or the intent, it authorizes.
RevisionConsumed(r) ==
  decision[r.recovery].kind = "revise" /\ r.review >= decision[r.recovery].next

InvalidationConsumed(r) ==
  /\ decision[r.recovery].kind = "invalidate"
  /\ intent[decision[r.recovery].next] # None

\* recovery-NNN files are contiguous up to the latest persisted id, and only
\* the next id may exist as an orphan.
Namespace(latest) ==
  \A i \in Recoveries :
    /\ i <= latest => source[i] # None /\ decision[i] # None
    /\ i > latest + 1 => source[i] = None /\ decision[i] = None

\* Every publication derives the storage commitment of the run it leaves in
\* run.json, which refuses an evaluation recovery source staged for another run.
Superseded(r) ==
  /\ r.recovery # 0
  /\ decision[r.recovery].kind = "invalidate"
  /\ ~Occupied(decision[r.recovery].next)

\* Defective variant: a staged source need not be of the run that is published.
StorageAdmitsAny(r) ==
  LET i == r.recovery + 1 IN
  i \in Recoveries => source[i] # None \/ decision[i] = None

StorageAdmits(r) ==
  LET i == r.recovery + 1 IN
  i \in Recoveries =>
    \/ r.status = "Approved" /\ Superseded(r)
    \/ source[i] = None /\ decision[i] = None
    \/ source[i] # None /\ (source[i].kind = "revise" \/ source[i].run = r)

\* Atomic replacement of run.json by full comparison with what was loaded.
Publish(expected, r) == run = expected /\ StorageAdmits(r) /\ run' = r

\* Create-only publication succeeds on an absent or byte-identical file.
MayCreate(file, bytes) == file = None \/ file = bytes

Begin(name, at, who, a, i) ==
  /\ cmd = Idle
  /\ cmd' = [name |-> name, at |-> at, who |-> who, base |-> run, attempt |-> a,
             recovery |-> i, results |-> << >>]

At(name, at) == cmd.name = name /\ cmd.at = at
GoTo(at) == cmd' = [cmd EXCEPT !.at = at]
Finish == cmd' = Idle

-----------------------------------------------------------------------------
(* The provider loop, outside the candidate lock: the first request of the *)
(* OutputReview attempt a revision authorized, and how an attempt ends.    *)

ReviewRequest ==
  /\ run.status = "Pending"
  /\ run.review < MaxReviews
  /\ decision[run.recovery].next = run.review + 1
  /\ Publish(run, [run EXCEPT !.status = "Running", !.review = @ + 1])
  /\ UNCHANGED <<evidence, recoveryFiles, promotionState, worktree, ran, cmd, crashes>>

ReviewOutcome(status) ==
  /\ run.status = "Running"
  /\ Publish(run, [run EXCEPT !.status = status])
  /\ UNCHANGED <<evidence, recoveryFiles, promotionState, worktree, ran, cmd, crashes>>

-----------------------------------------------------------------------------
(* approve: one compare-and-swap.                                          *)

Approve(op) ==
  /\ cmd = Idle
  /\ run.status = "AwaitingHumanReview" /\ run.approval = None
  /\ Publish(run, [run EXCEPT !.status = "Approved", !.approval = op])
  /\ UNCHANGED <<evidence, recoveryFiles, promotionState, worktree, ran, cmd, crashes>>

-----------------------------------------------------------------------------
(* revise --from-step output_review: source, decision, reset of run.json.  *)

\* Defective variant: an evaluation prefix does not stop a revision.
RevisionEligibleAfterAttempt ==
  /\ run.candidate = "Active"
  /\ \/ run.status \in {"AwaitingHumanReview", "Approved"}
     \/ run.status \in {"Blocked", "Failed"} /\ run.approval = None
  /\ run.recovery # 0 => RevisionConsumed(run)

RevisionEligible ==
  /\ run.candidate = "Active"
  /\ NoAttempt
  /\ \/ run.status \in {"AwaitingHumanReview", "Approved"}
     \/ run.status \in {"Blocked", "Failed"} /\ run.approval = None
  /\ run.recovery # 0 => RevisionConsumed(run)

RevisionSource(i) == [kind |-> "revise", who |-> None, run |-> run, approved |-> run,
                      attempt |-> 0, report |-> FALSE]

RevisionDecision(op) == [kind |-> "revise", who |-> op, next |-> run.review + 1]

RevisionReset(r, i) == [r EXCEPT !.status = "Pending", !.approval = None, !.recovery = i]

\* Defective variant: run.json is reset before the decision is published.
ReviseSourceOnly(op) ==
  LET i == run.recovery + 1 IN
  /\ i <= MaxRecoveries /\ run.review < MaxReviews
  /\ RevisionEligible
  /\ Namespace(run.recovery)
  /\ MayCreate(source[i], RevisionSource(i))
  /\ StorageAdmits(run)
  /\ Begin("revise", "publish", op, 0, i)
  /\ source' = [source EXCEPT ![i] = RevisionSource(i)]
  /\ UNCHANGED <<run, evidence, decision, promotionState, worktree, ran, crashes>>

ReviseSource(op) ==
  LET i == run.recovery + 1 IN
  /\ i <= MaxRecoveries /\ run.review < MaxReviews
  /\ RevisionEligible
  /\ Namespace(run.recovery)
  /\ MayCreate(source[i], RevisionSource(i))
  /\ MayCreate(decision[i], RevisionDecision(op))
  /\ StorageAdmits(run)
  /\ Begin("revise", "decision", op, 0, i)
  /\ source' = [source EXCEPT ![i] = RevisionSource(i)]
  /\ UNCHANGED <<run, evidence, decision, promotionState, worktree, ran, crashes>>

ReviseDecision ==
  /\ At("revise", "decision")
  /\ MayCreate(decision[cmd.recovery], RevisionDecision(cmd.who))
  /\ StorageAdmits(run)
  /\ decision' = [decision EXCEPT ![cmd.recovery] = RevisionDecision(cmd.who)]
  /\ GoTo("publish")
  /\ UNCHANGED <<run, evidence, source, promotionState, worktree, ran, crashes>>

RevisePublish ==
  /\ At("revise", "publish")
  /\ RevisionEligible
  /\ Publish(cmd.base, RevisionReset(cmd.base, cmd.recovery))
  /\ Finish
  /\ UNCHANGED <<evidence, recoveryFiles, promotionState, worktree, ran, crashes>>

-----------------------------------------------------------------------------
(* resume and rerun: one evaluation attempt, from its intent to run.json.  *)

\* The intent of attempt a commits the storage of the whole attempt.
PublishIntent(a, i) ==
  /\ run.status = "Approved"
  /\ a \in Attempts /\ IsFresh(a)
  /\ intent' = [intent EXCEPT ![a] = [run |-> run, recovery |-> i]]
  /\ Begin("evaluate", "spawn", None, a, i)
  /\ UNCHANGED <<run, logs, testing, report, recoveryFiles, promotionState, worktree,
                 ran, crashes>>

\* Without an authorization the inventory must be empty.
Evaluate ==
  /\ NoAttempt
  /\ PublishIntent(1, 0)

\* Defective variant: the reset run does not name the recovery it was reset by.
InvalidationResetUnnamed(approved, i) == approved

InvalidationReset(approved, i) == [approved EXCEPT !.recovery = i]

\* The run is the exact reset of its latest invalidation, whose attempt is still
\* the latest.
RequestedInvalidation(i) ==
  /\ i # 0
  /\ decision[i].kind = "invalidate"
  /\ run = InvalidationReset(source[i].approved, i)
  /\ IsLatest(source[i].attempt)
  /\ ~InvalidationConsumed(run)

\* rerun --recovery; a run whose verdict consumed it already is only synced again.
Rerun ==
  /\ RequestedInvalidation(run.recovery)
  /\ PublishIntent(decision[run.recovery].next, run.recovery)

\* The pre-spawn callback re-authenticates under the run lock, then the command
\* runs; what it answers is only in memory until Testing is published.
Spawn(answer) ==
  LET a == cmd.attempt IN
  /\ At("evaluate", "spawn")
  /\ Len(cmd.results) < NumChecks
  /\ run = cmd.base
  /\ logs[a] = 2 * Len(cmd.results) /\ testing[a] = None /\ ~report[a]
  /\ ran' = [ran EXCEPT ![a] = Append(@, answer)]
  /\ cmd' = [cmd EXCEPT !.at = "stdout", !.results = Append(@, answer)]
  /\ UNCHANGED <<run, evidence, recoveryFiles, promotionState, worktree, crashes>>

PublishLog(at, next) ==
  /\ At("evaluate", at)
  /\ StorageAdmits(run)
  /\ logs' = [logs EXCEPT ![cmd.attempt] = @ + 1]
  /\ GoTo(next)
  /\ UNCHANGED <<run, intent, testing, report, recoveryFiles, promotionState, worktree,
                 ran, crashes>>

PublishStdout == PublishLog("stdout", "stderr")
PublishStderr == PublishLog("stderr", "spawn")

\* Defective variant: the first failing command ends the attempt.
PublishTestingFailFast ==
  /\ At("evaluate", "spawn")
  /\ Len(cmd.results) = NumChecks \/ FALSE \in {cmd.results[c] : c \in 1 .. Len(cmd.results)}
  /\ run = cmd.base
  /\ testing[cmd.attempt] = None /\ StorageAdmits(run)
  /\ testing' = [testing EXCEPT ![cmd.attempt] = cmd.results]
  /\ GoTo("report")
  /\ UNCHANGED <<run, intent, logs, report, recoveryFiles, promotionState, worktree,
                 ran, crashes>>

PublishTesting ==
  /\ At("evaluate", "spawn")
  /\ Len(cmd.results) = NumChecks
  /\ run = cmd.base
  /\ testing[cmd.attempt] = None /\ StorageAdmits(run)
  /\ testing' = [testing EXCEPT ![cmd.attempt] = cmd.results]
  /\ GoTo("report")
  /\ UNCHANGED <<run, intent, logs, report, recoveryFiles, promotionState, worktree,
                 ran, crashes>>

PublishReport ==
  /\ At("evaluate", "report")
  /\ ~report[cmd.attempt] /\ StorageAdmits(run)
  /\ report' = [report EXCEPT ![cmd.attempt] = TRUE]
  /\ GoTo("publish")
  /\ UNCHANGED <<run, intent, logs, testing, recoveryFiles, promotionState, worktree,
                 ran, crashes>>

Decided(r, a, i) ==
  [r EXCEPT !.status = IF Passed(a) THEN "EvalPassed" ELSE "Failed",
            !.selected = a, !.recovery = i]

EvaluatePublish ==
  /\ At("evaluate", "publish")
  /\ FinalAuthority(Decided(cmd.base, cmd.attempt, cmd.base.recovery))
  /\ Publish(cmd.base, Decided(cmd.base, cmd.attempt, cmd.base.recovery))
  /\ Finish
  /\ UNCHANGED <<evidence, recoveryFiles, promotionState, worktree, ran, crashes>>

-----------------------------------------------------------------------------
(* revise --eval-recovery adopt: a complete prefix, without any command.   *)

AdoptableRun ==
  /\ run.status = "Approved" /\ promotion = None
  /\ run.candidate = "Active"
  /\ run.recovery # 0 => RevisionConsumed(run) \/ InvalidationConsumed(run)

AdoptablePrefix(a) ==
  /\ IsLatest(a) /\ testing[a] # None
  /\ logs[a] = 2 * NumChecks
  /\ IntentBinds(a, run)

AdoptionSource(op, a, verify) ==
  [kind |-> "adopt", who |-> op, run |-> run, approved |-> run, attempt |-> a,
   report |-> verify]

AdoptionDecision(op, a) == [kind |-> "adopt", who |-> op, next |-> a]

\* Defective variant: any orphan is refused, the operator's own one too.
OrphanRefused(kind, op, i) == source[i] = None /\ decision[i] = None

\* An orphan must be of the same kind, actor and reason; a decision needs its
\* source.
OrphanFits(kind, op, i) ==
  /\ source[i] # None => source[i].kind = kind /\ source[i].who = op
  /\ decision[i] # None => source[i] # None /\ decision[i].kind = kind
                           /\ decision[i].who = op

\* What the report is for this adoption: the orphan's answer, else what is there.
VerifiesReport(a, i) == IF source[i] # None THEN source[i].report ELSE report[a]

CanAdopt(op, a) ==
  LET i == run.recovery + 1 IN
  /\ i <= MaxRecoveries
  /\ AdoptableRun
  /\ AdoptablePrefix(a)
  /\ Namespace(run.recovery)
  /\ OrphanFits("adopt", op, i)
  /\ VerifiesReport(a, i) => report[a]
  /\ MayCreate(source[i], AdoptionSource(op, a, VerifiesReport(a, i)))
  /\ MayCreate(decision[i], AdoptionDecision(op, a))
  /\ StorageAdmits(run)

AdoptSource(op, a) ==
  LET i == run.recovery + 1 IN
  /\ CanAdopt(op, a)
  /\ Begin("adopt", "decision", op, a, i)
  /\ source' = [source EXCEPT ![i] = AdoptionSource(op, a, VerifiesReport(a, i))]
  /\ UNCHANGED <<run, evidence, decision, promotionState, worktree, ran, crashes>>

AdoptDecision ==
  /\ At("adopt", "decision")
  /\ MayCreate(decision[cmd.recovery], AdoptionDecision(cmd.who, cmd.attempt))
  /\ StorageAdmits(run)
  /\ decision' = [decision EXCEPT ![cmd.recovery] = AdoptionDecision(cmd.who, cmd.attempt)]
  /\ GoTo(IF source[cmd.recovery].report THEN "publish" ELSE "report")
  /\ UNCHANGED <<run, evidence, source, promotionState, worktree, ran, crashes>>

\* CreateMissing: the report is deterministic, so an existing one is identical.
AdoptReport ==
  /\ At("adopt", "report")
  /\ StorageAdmits(run)
  /\ report' = [report EXCEPT ![cmd.attempt] = TRUE]
  /\ GoTo("publish")
  /\ UNCHANGED <<run, intent, logs, testing, recoveryFiles, promotionState, worktree,
                 ran, crashes>>

AdoptPublish ==
  /\ At("adopt", "publish")
  /\ promotion = None
  /\ FinalAuthority(Decided(cmd.base, cmd.attempt, cmd.recovery))
  /\ Publish(cmd.base, Decided(cmd.base, cmd.attempt, cmd.recovery))
  /\ Finish
  /\ UNCHANGED <<evidence, recoveryFiles, promotionState, worktree, ran, crashes>>

-----------------------------------------------------------------------------
(* revise --eval-recovery invalidate: an incomplete prefix of an Approved  *)
(* run, or the failed verdict of a final one.                              *)

InvalidatableRun ==
  /\ promotion = None
  /\ run.status = "Approved" \/ (run.status = "Failed" /\ run.approval # None)
  /\ run.status = "Failed" => FinalAuthority(run)
  /\ run.candidate = "Active"

ObservedApproved == IF run.status = "Approved" THEN run ELSE ApprovedRunOf(run)

PriorAllowsInvalidation(a) ==
  run.recovery # 0 =>
    \/ RevisionConsumed(run)
    \/ decision[run.recovery].kind = "adopt" /\ run.status = "Failed"
    \/ decision[run.recovery].next = a /\ InvalidationConsumed(run)

InvalidationSource(op, a) ==
  [kind |-> "invalidate", who |-> op, run |-> run, approved |-> ObservedApproved,
   attempt |-> a, report |-> report[a]]

InvalidationDecision(op, a) == [kind |-> "invalidate", who |-> op, next |-> a + 1]

\* Defective variant: complete Testing evidence can be invalidated too.
InvalidatablePrefixComplete(a) ==
  /\ IsLatest(a)
  /\ IntentBinds(a, ObservedApproved)
  /\ a > 1 => ObservedApproved.recovery # 0

InvalidatablePrefix(a) ==
  /\ IsLatest(a)
  /\ IntentBinds(a, ObservedApproved)
  /\ a > 1 => ObservedApproved.recovery # 0
  /\ run.status = "Approved" => testing[a] = None

CanInvalidate(op, a) ==
  LET i == run.recovery + 1 IN
  /\ i <= MaxRecoveries /\ a < MaxAttempts
  /\ InvalidatableRun
  /\ InvalidatablePrefix(a)
  /\ PriorAllowsInvalidation(a)
  /\ Namespace(run.recovery)
  /\ OrphanFits("invalidate", op, i)
  /\ MayCreate(source[i], InvalidationSource(op, a))
  /\ MayCreate(decision[i], InvalidationDecision(op, a))
  /\ StorageAdmits(run)

InvalidateSource(op, a) ==
  LET i == run.recovery + 1 IN
  /\ CanInvalidate(op, a)
  /\ Begin("invalidate", "decision", op, a, i)
  /\ source' = [source EXCEPT ![i] = InvalidationSource(op, a)]
  /\ UNCHANGED <<run, evidence, decision, promotionState, worktree, ran, crashes>>

InvalidateDecision ==
  /\ At("invalidate", "decision")
  /\ MayCreate(decision[cmd.recovery], InvalidationDecision(cmd.who, cmd.attempt))
  /\ StorageAdmits(run)
  /\ decision' = [decision EXCEPT
                    ![cmd.recovery] = InvalidationDecision(cmd.who, cmd.attempt)]
  /\ GoTo("publish")
  /\ UNCHANGED <<run, evidence, source, promotionState, worktree, ran, crashes>>

InvalidatePublish ==
  /\ At("invalidate", "publish")
  /\ promotion = None
  /\ IsLatest(cmd.attempt)
  /\ Publish(cmd.base, InvalidationReset(source[cmd.recovery].approved, cmd.recovery))
  /\ Finish
  /\ UNCHANGED <<evidence, recoveryFiles, promotionState, worktree, ran, crashes>>

-----------------------------------------------------------------------------
(* promote: intent, git apply under the repository lock, run.json.         *)

\* HEAD, index, tracked and untracked files are as committed.
TargetClean == target = "clean"

\* Exactly the evaluated patch is in the working files, and nothing in the index.
ExactPatch == target = "patched"

\* The intent on disk binds this operator and this run, field by field.
ExactIntent(op, base) == promotion = [who |-> op, run |-> base]

PromoteIntent(op) ==
  /\ run.status = "EvalPassed"
  /\ FinalAuthority(run)
  /\ promotion = None => TargetClean
  /\ MayCreate(promotion, [who |-> op, run |-> run])
  /\ StorageAdmits(run)
  /\ promotion' = [who |-> op, run |-> run]
  /\ Begin("promote", "apply", op, 0, 0)
  /\ UNCHANGED <<run, evidence, recoveryFiles, target, worktree, ran, crashes>>

\* A clean target takes the patch, the exact patch is adopted, anything else is
\* refused.
PromoteApply ==
  /\ At("promote", "apply")
  /\ run = cmd.base
  /\ ExactIntent(cmd.who, cmd.base)
  /\ TargetClean \/ ExactPatch
  /\ target' = "patched"
  /\ GoTo("publish")
  /\ UNCHANGED <<run, evidence, recoveryFiles, promotion, worktree, ran, crashes>>

\* Defective variant: the target is not verified again inside the publication.
PromotePublishUnverified ==
  /\ At("promote", "publish")
  /\ ExactIntent(cmd.who, cmd.base)
  /\ FinalAuthority(run)
  /\ Publish(cmd.base, [cmd.base EXCEPT !.status = "Promoted"])
  /\ Finish
  /\ UNCHANGED <<evidence, recoveryFiles, promotionState, worktree, ran, crashes>>

PromotePublish ==
  /\ At("promote", "publish")
  /\ ExactIntent(cmd.who, cmd.base)
  /\ ExactPatch
  /\ FinalAuthority(run)
  /\ Publish(cmd.base, [cmd.base EXCEPT !.status = "Promoted"])
  /\ Finish
  /\ UNCHANGED <<evidence, recoveryFiles, promotionState, worktree, ran, crashes>>

-----------------------------------------------------------------------------
(* cleanup: Cleaning, git worktree remove, Cleaned.                        *)

\* Defective variant: every terminal status is cleaned.
CleanupAdmittedTerminal == run.status \in {"Blocked", "Failed", "EvalPassed", "Promoted"}

CleanupAdmitted == run.status \in {"Blocked", "Failed"}

CleanupStart ==
  /\ cmd = Idle
  /\ CleanupAdmitted
  /\ run.candidate = "Active" /\ worktree
  /\ Publish(run, [run EXCEPT !.candidate = "Cleaning"])
  /\ cmd' = [Idle EXCEPT !.name = "cleanup", !.at = "remove",
                         !.base = [run EXCEPT !.candidate = "Cleaning"]]
  /\ UNCHANGED <<evidence, recoveryFiles, promotionState, worktree, ran, crashes>>

CleanupResume ==
  /\ CleanupAdmitted
  /\ run.candidate = "Cleaning"
  /\ Begin("cleanup", "remove", None, 0, 0)
  /\ UNCHANGED <<run, evidence, recoveryFiles, promotionState, worktree, ran, crashes>>

\* Path and registration go together; both being gone already is accepted.
RemoveWorktree ==
  /\ At("cleanup", "remove")
  /\ worktree' = FALSE
  /\ GoTo("publish")
  /\ UNCHANGED <<run, evidence, recoveryFiles, promotionState, ran, crashes>>

CleanupPublish ==
  /\ At("cleanup", "publish")
  /\ Publish(cmd.base, [cmd.base EXCEPT !.candidate = "Cleaned"])
  /\ Finish
  /\ UNCHANGED <<evidence, recoveryFiles, promotionState, worktree, ran, crashes>>

-----------------------------------------------------------------------------
(* The environment: a lost process, and people working in the target.      *)

Crash ==
  /\ cmd # Idle
  /\ crashes < MaxCrashes
  /\ crashes' = crashes + 1
  /\ cmd' = Idle
  /\ UNCHANGED <<run, evidence, recoveryFiles, promotionState, worktree, ran>>

\* git apply dies between two files.
PartialApply ==
  /\ At("promote", "apply")
  /\ run = cmd.base
  /\ target = "clean"
  /\ crashes < MaxCrashes
  /\ crashes' = crashes + 1
  /\ target' = "other"
  /\ cmd' = Idle
  /\ UNCHANGED <<run, evidence, recoveryFiles, promotion, worktree, ran>>

\* People edit the target; what they do before a promotion can start is not
\* distinguished.
EditTarget(state) ==
  /\ run.status \in {"EvalPassed", "Promoted"}
  /\ target # state
  /\ target' = state
  /\ UNCHANGED <<run, evidence, recoveryFiles, promotion, worktree, ran, cmd, crashes>>

-----------------------------------------------------------------------------
ProviderLoop ==
  \/ ReviewRequest
  \/ \E s \in {"AwaitingHumanReview", "Blocked", "Failed"} : ReviewOutcome(s)

Revision == ReviseDecision \/ RevisePublish

Evaluation ==
  \/ Spawn(TRUE) \/ Spawn(FALSE)
  \/ PublishStdout \/ PublishStderr \/ PublishTesting \/ PublishReport \/ EvaluatePublish

Adoption == AdoptDecision \/ AdoptReport \/ AdoptPublish

Invalidation == InvalidateDecision \/ InvalidatePublish

PromotionSteps == PromoteApply \/ PromotePublish

Cleanup == RemoveWorktree \/ CleanupPublish

\* A command that holds the candidate lock goes on.
Progress == Revision \/ Evaluation \/ Adoption \/ Invalidation \/ PromotionSteps \/ Cleanup

\* What an operator can start.
Issue(op) ==
  \/ Approve(op)
  \/ ReviseSource(op)
  \/ \E a \in Attempts : AdoptSource(op, a) \/ InvalidateSource(op, a)
  \/ PromoteIntent(op)

Resume == Evaluate \/ Rerun

StartCleanup == CleanupStart \/ CleanupResume

Environment == Crash \/ PartialApply \/ \E s \in {"clean", "other"} : EditTarget(s)

Next ==
  \/ ProviderLoop
  \/ \E op \in Operators : Issue(op)
  \/ Resume
  \/ StartCleanup
  \/ Progress
  \/ Environment

Spec == Init /\ [][Next]_vars

\* Fairness: a process that holds the lock and is not lost goes on, and the
\* operators do not give up on an Approved run; nothing is assumed of the
\* provider loop, of promotion or of the target.
Recover(op) == \E a \in Attempts : AdoptSource(op, a) \/ InvalidateSource(op, a)

FairSpec ==
  /\ Spec
  /\ WF_vars(Progress)
  /\ WF_vars(Resume)
  /\ \A op \in Operators : WF_vars(Recover(op))

-----------------------------------------------------------------------------
(* Properties.                                                             *)

TypeOK ==
  /\ run \in Run
  /\ intent \in [Attempts -> Intent \cup {None}]
  /\ logs \in [Attempts -> Nat]
  /\ testing \in [Attempts -> Verdicts \cup {None}]
  /\ report \in [Attempts -> BOOLEAN]
  /\ source \in [Recoveries -> Source \cup {None}]
  /\ decision \in [Recoveries -> Decision \cup {None}]
  /\ promotion \in Promotion \cup {None}
  /\ target \in Targets
  /\ worktree \in BOOLEAN
  /\ ran \in [Attempts -> Seq(BOOLEAN)]
  /\ cmd \in Command
  /\ crashes \in 0 .. MaxCrashes

\* A command of the eval config is spawned at most once in an attempt, in order,
\* and never before the attempt's intent is durable: a crash is never answered
\* by replaying the attempt in place (refuse_incomplete_attempt, the fresh
\* commitment of the intent).
NoReplay ==
  \A a \in Attempts :
    /\ Len(ran[a]) <= NumChecks
    /\ ran[a] # << >> => Occupied(a)
    /\ testing[a] # None => testing[a] = ran[a]

\* A final verdict, decided by the evaluation or by an adoption after a crash,
\* is what the commands of the latest attempt answered, all of them, under the
\* human approval the run still carries.
EarnedVerdict ==
  FinalStatus(run) \/ run.status = "Promoted" =>
    \E a \in Attempts :
      /\ run.selected = a /\ IsLatest(a)
      /\ Len(ran[a]) = NumChecks
      /\ (run.status # "Failed") <=> \A c \in Checks : ran[a][c]
      /\ run.approval # None
      /\ intent[a].run.approval = run.approval

\* All evaluation evidence of a run is evidence under one approval of one output
\* review: revise refuses a run with any factual evaluation prefix, so an
\* approval can be withdrawn only before the first attempt.
OneApproval ==
  \A a \in Attempts :
    Occupied(a) =>
      /\ run.approval # None
      /\ intent[a].run.approval = run.approval
      /\ intent[a].run.review = run.review

\* Every attempt after the first was authorized by one audited invalidation of
\* the attempt before it, whose evidence was incomplete or failed: passing
\* evidence is never discarded, and no authorization serves two attempts.
AuditedAttempts ==
  \A a \in Attempts :
    Occupied(a) /\ a > 1 =>
      LET i == intent[a].recovery IN
      /\ i \in Recoveries
      /\ decision[i] # None /\ decision[i].kind = "invalidate" /\ decision[i].next = a
      /\ source[i] # None /\ source[i].attempt = a - 1
      /\ Occupied(a - 1)
      /\ testing[a - 1] # None => \E c \in Checks : ~testing[a - 1][c]

\* The recovery files are an append-only audit log: both files of every id up to
\* latest_recovery, at most one orphan id after it, and no decision without the
\* source of the same kind.
RecoveryLog ==
  /\ Namespace(run.recovery)
  /\ \A i \in Recoveries :
       decision[i] # None => source[i] # None /\ source[i].kind = decision[i].kind

\* What the operators decided is on record, and every new attempt is one of it.
AuditedRecovery == AuditedAttempts /\ RecoveryLog

\* Once a promotion intent is durable the run is the EvalPassed run it binds, or
\* its Promoted successor, whatever crashes and retries follow; and only then
\* can the target hold the patch.
PromotionBound ==
  /\ promotion # None =>
       /\ promotion.run.status = "EvalPassed"
       /\ run \in {promotion.run, [promotion.run EXCEPT !.status = "Promoted"]}
  /\ target = "patched" => promotion # None

\* No status that still needs the candidate survives its removal, and a cleanup
\* never strands a staged evaluation recovery of the run it closes.
CleanupCloses ==
  /\ ~worktree => run.candidate # "Active"
  /\ run.candidate # "Active" =>
       /\ run.status \in {"Blocked", "Failed"}
       /\ \A i \in Recoveries :
            i = run.recovery + 1 /\ source[i] # None => source[i].kind = "revise"

\* The candidate is promoted, or given up, only as the verdict says.
CandidateFollowsVerdict == PromotionBound /\ CleanupCloses

\* EvalPassed is immutable until the patch stands in the target, and Promoted
\* for good.
PassedIsImmutable ==
  [][/\ run.status = "EvalPassed" =>
          \/ run' = run
          \/ run' = [run EXCEPT !.status = "Promoted"] /\ target = "patched"
     /\ run.status = "Promoted" => run' = run]_vars

\* A reported failure is only reopened by a new, persisted invalidation of the
\* attempt that failed; otherwise it only loses its candidate.
FailureReopensAudited ==
  [][FinalStatus(run) /\ run.status = "Failed" /\ run' # run =>
       \/ run' \in {[run EXCEPT !.candidate = l] : l \in Lifecycles}
       \/ /\ run'.status = "Approved" /\ run'.recovery = run.recovery + 1
          /\ decision[run'.recovery] # None
          /\ decision[run'.recovery].kind = "invalidate"
          /\ source[run'.recovery].attempt = run.selected]_vars

\* An approved run gets its verdict, whichever process is lost where, as long as
\* ids and attempts are left and no lost revision left its source under the next id
\* (CompletePrefixIsAdoptable).
Exhausted == run.recovery = MaxRecoveries \/ Occupied(MaxAttempts)

Obstructed ==
  LET i == run.recovery + 1 IN
  i <= MaxRecoveries /\ source[i] # None /\ source[i].kind = "revise"

ApprovedReachesVerdict ==
  [](run.status = "Approved" => <>(run.status # "Approved" \/ Exhausted \/ Obstructed))

\* README.md: "A complete interrupted evaluation prefix is adopted without
\* provider or command calls".
CompletePrefixIsAdoptable ==
  cmd = Idle /\ run.status = "Approved" /\ ~Superseded(run) /\ run.recovery < MaxRecoveries =>
    \A a \in Attempts :
      IsLatest(a) /\ testing[a] # None => \E op \in Operators : CanAdopt(op, a)

-----------------------------------------------------------------------------
(* The inductive invariant behind NoReplay, OneApproval and EarnedVerdict.  *)

\* What the memory of a command can be, given where it stands.
CommandMemory ==
  /\ cmd.name \in {"evaluate", "adopt", "invalidate"} => cmd.attempt \in Attempts
  /\ cmd.name \in {"revise", "adopt", "invalidate"} =>
       cmd.who \in Operators /\ cmd.recovery \in Recoveries /\ source[cmd.recovery] # None
  /\ cmd.name \in {"evaluate", "adopt"} => cmd.base.status = "Approved"
  /\ cmd.name = "invalidate" => cmd.base.status \in {"Approved", "Failed"}
  /\ cmd.name = "promote" => cmd.base.status = "EvalPassed" /\ cmd.who \in Operators
  /\ cmd.name = "cleanup" => cmd.base.status \in {"Blocked", "Failed"}

\* An attempt runs what its process remembers running.
AttemptMemory ==
  cmd.name = "evaluate" =>
    /\ Occupied(cmd.attempt)
    /\ ran[cmd.attempt] = cmd.results
    /\ Len(cmd.results) <= NumChecks

\* Where a run can carry an approval, and that intents snapshot Approved runs.
ApprovalByStatus ==
  /\ run.status \in {"Pending", "Running", "AwaitingHumanReview", "Blocked"} =>
       run.approval = None
  /\ run.status \in {"Approved", "EvalPassed", "Promoted"} => run.approval # None
  /\ \A a \in Attempts : Occupied(a) => intent[a].run.status = "Approved"

\* The Approved run an invalidation goes back to.
InvalidationMemory ==
  cmd.name = "invalidate" =>
    LET approved == source[cmd.recovery].approved IN
    /\ approved.status = "Approved"
    /\ cmd.base.approval # None
    /\ approved.approval = cmd.base.approval
    /\ approved.review = cmd.base.review

IInv ==
  /\ TypeOK
  /\ CommandMemory
  /\ AttemptMemory
  /\ ApprovalByStatus
  /\ InvalidationMemory
  /\ NoReplay
  /\ OneApproval
  /\ EarnedVerdict
-----------------------------------------------------------------------------
(* What AuditedRecovery, CandidateFollowsVerdict and FailureReopensAudited  *)
(* rest on besides IInv.                                                    *)

\* A recovery in progress writes the next id, of a run that has its candidate.
RecoveryMemory ==
  /\ cmd.name \in Kinds =>
       /\ cmd.recovery = run.recovery + 1
       /\ cmd.base.candidate = "Active"
       /\ source[cmd.recovery].kind = cmd.name
       /\ cmd.at \in {"report", "publish"} => decision[cmd.recovery] # None
  /\ cmd.name = "invalidate" => source[cmd.recovery].attempt = cmd.attempt
  /\ cmd.name = "cleanup" => run.candidate # "Active"

\* The attempt is there, nobody is evaluating it, and it did not pass.
Discarded(a) ==
  /\ a \in Attempts /\ Occupied(a)
  /\ ~(cmd.name = "evaluate" /\ cmd.attempt = a)
  /\ testing[a] # None => \E c \in Checks : ~testing[a][c]

\* A source is of a run that has its candidate; what an invalidation discards stays
\* as it was.
SourceMemory ==
  \A i \in Recoveries : source[i] # None =>
    /\ source[i].run.candidate = "Active" /\ source[i].approved.candidate = "Active"
    /\ source[i].kind = "invalidate" => Discarded(source[i].attempt)

\* Who authorized attempt a.
AuthorizedBy(a, i) ==
  /\ i \in 1 .. run.recovery
  /\ decision[i].kind = "invalidate" /\ decision[i].next = a
  /\ source[i].attempt = a - 1

AttemptAuthority == \A a \in Attempts : Occupied(a) /\ a > 1 => AuthorizedBy(a, intent[a].recovery)

AuditLog == RecoveryLog /\ RecoveryMemory /\ SourceMemory /\ AttemptAuthority

AuditInv == IInv /\ AuditLog /\ PromotionBound /\ CleanupCloses
=============================================================================
