--------------------- MODULE EvaluationAuthorityProofs ---------------------
(***************************************************************************)
(* IInv is inductive, and the safety properties that follow from it hold   *)
(* for every number of operators, checks, attempts, recoveries, reviews    *)
(* and crashes.  Actions that only replace run.json and actions that leave *)
(* it alone each share a lemma for the conjuncts they cannot disturb.      *)
(***************************************************************************)
EXTENDS EvaluationAuthority, SequenceTheorems, TLAPS

LEMMA IdleTyped ==
  /\ FirstRun \in Run /\ Idle \in Command
  /\ Idle.name = "none" /\ Idle.at = "none" /\ Idle.base = FirstRun
  BY BoundsAssumption DEF FirstRun, Run, Statuses, Lifecycles, Idle, Command, Commands, Points

LEMMA NoneApart ==
  /\ None \notin Operators /\ None \notin Intent /\ None \notin Verdicts
  /\ None \notin Source /\ None \notin Decision /\ None \notin Promotion
  BY NoneAssumption

LEMMA InitIInv == Init => IInv
<1> SUFFICES ASSUME Init PROVE IInv
  OBVIOUS
<1> USE DEF Init
<1>1. TypeOK
  BY BoundsAssumption, IdleTyped DEF TypeOK, Targets
<1>2. CommandMemory /\ AttemptMemory /\ InvalidationMemory
  BY IdleTyped DEF CommandMemory, AttemptMemory, InvalidationMemory
<1>3. ApprovalByStatus
  BY DEF ApprovalByStatus, FirstRun, Occupied
<1>4. NoReplay
  BY BoundsAssumption DEF NoReplay
<1>5. OneApproval
  BY DEF OneApproval, Occupied
<1>6. EarnedVerdict
  BY DEF EarnedVerdict, FinalStatus, FirstRun
<1>7. QED
  BY <1>1, <1>2, <1>3, <1>4, <1>5, <1>6 DEF IInv

-----------------------------------------------------------------------------
(* Frames.                                                                 *)

\* What memory a command may hold after a step that only replaces run.json.
Quiet(c) == c = cmd \/ c.name = "none" \/ (c.name = "cleanup" /\ c.base.status \in {"Blocked", "Failed"})

LEMMA RunReplaced ==
  ASSUME IInv, run' \in Run, cmd' \in Command, Quiet(cmd'),
         UNCHANGED <<evidence, recoveryFiles, promotion, target, ran, crashes>>,
         worktree' \in BOOLEAN
  PROVE  TypeOK' /\ CommandMemory' /\ AttemptMemory' /\ InvalidationMemory' /\ NoReplay'
<1> USE DEF IInv, evidence, recoveryFiles, Quiet
<1>1. TypeOK'
  BY DEF TypeOK
<1>2. CommandMemory'
  BY DEF CommandMemory
<1>3. AttemptMemory'
  BY DEF AttemptMemory, Occupied
<1>4. InvalidationMemory'
  BY DEF InvalidationMemory
<1>5. NoReplay'
  BY DEF NoReplay, Occupied
<1>6. QED
  BY <1>1, <1>2, <1>3, <1>4, <1>5

LEMMA RunKept ==
  ASSUME IInv, UNCHANGED <<run, intent, testing, ran>>
  PROVE  ApprovalByStatus' /\ NoReplay' /\ OneApproval' /\ EarnedVerdict'
<1> USE DEF IInv, Occupied
<1>1. ApprovalByStatus'
  BY DEF ApprovalByStatus
<1>2. NoReplay'
  BY DEF NoReplay
<1>3. OneApproval'
  BY DEF OneApproval
<1>4. EarnedVerdict'
  BY DEF EarnedVerdict, FinalStatus, IsLatest
<1>5. QED
  BY <1>1, <1>2, <1>3, <1>4

\* A run.json that differs in nothing the verdict reads.
LEMMA VerdictKept ==
  ASSUME IInv, UNCHANGED <<intent, ran>>,
         run'.approval = run.approval, run'.selected = run.selected,
         \/ run'.status = run.status
         \/ run.status = "EvalPassed" /\ run'.status = "Promoted"
  PROVE  EarnedVerdict'
  BY DEF IInv, EarnedVerdict, FinalStatus, IsLatest, Occupied

-----------------------------------------------------------------------------
(* Replacements of run.json.                                               *)

LEMMA ReviewRequestStep ==
  ASSUME IInv, ReviewRequest PROVE IInv'
<1>a. run \in Run /\ run.review + 1 \in 1 .. MaxReviews
  BY BoundsAssumption DEF ReviewRequest, IInv, TypeOK, Run
<1>0. /\ run.status = "Pending" /\ run' \in Run
      /\ run'.status = "Running" /\ run'.approval = run.approval
  BY <1>a DEF ReviewRequest, Publish, Run, Statuses
<1>1. TypeOK' /\ CommandMemory' /\ AttemptMemory' /\ InvalidationMemory' /\ NoReplay'
  BY <1>0, RunReplaced DEF ReviewRequest, Quiet, promotionState, IInv, TypeOK
<1>2. run.approval = None /\ \A a \in Attempts : ~Occupied(a)
  BY <1>0 DEF IInv, ApprovalByStatus, OneApproval
<1>u. UNCHANGED <<intent, ran>>
  BY DEF ReviewRequest, evidence
<1>3. ApprovalByStatus' /\ OneApproval'
  BY <1>0, <1>2, <1>u DEF ApprovalByStatus, OneApproval, Occupied
<1>4. EarnedVerdict'
  BY <1>0 DEF EarnedVerdict, FinalStatus
<1>5. QED
  BY <1>1, <1>3, <1>4 DEF IInv

LEMMA ReviewOutcomeStep ==
  ASSUME IInv, NEW s \in {"AwaitingHumanReview", "Blocked", "Failed"}, ReviewOutcome(s)
  PROVE  IInv'
<1>0. /\ run \in Run /\ run.status = "Running" /\ run' \in Run
      /\ run'.status = s /\ run'.approval = run.approval
  BY DEF ReviewOutcome, Publish, IInv, TypeOK, Run, Statuses
<1>1. TypeOK' /\ CommandMemory' /\ AttemptMemory' /\ InvalidationMemory' /\ NoReplay'
  BY <1>0, RunReplaced DEF ReviewOutcome, Quiet, promotionState, IInv, TypeOK
<1>2. run.approval = None /\ \A a \in Attempts : ~Occupied(a)
  BY <1>0 DEF IInv, ApprovalByStatus, OneApproval
<1>u. UNCHANGED <<intent, ran>>
  BY DEF ReviewOutcome, evidence
<1>3. ApprovalByStatus' /\ OneApproval'
  BY <1>0, <1>2, <1>u DEF ApprovalByStatus, OneApproval, Occupied
<1>4. EarnedVerdict'
  BY <1>0, <1>2 DEF EarnedVerdict, FinalStatus
<1>5. QED
  BY <1>1, <1>3, <1>4 DEF IInv

LEMMA ApproveStep ==
  ASSUME IInv, NEW op \in Operators, Approve(op)
  PROVE  IInv'
<1>0. /\ run \in Run /\ run.status = "AwaitingHumanReview" /\ run' \in Run
      /\ run'.status = "Approved" /\ run'.approval = op
  BY DEF Approve, Publish, IInv, TypeOK, Run, Statuses
<1>1. TypeOK' /\ CommandMemory' /\ AttemptMemory' /\ InvalidationMemory' /\ NoReplay'
  BY <1>0, RunReplaced DEF Approve, Quiet, promotionState, IInv, TypeOK
<1>2. \A a \in Attempts : ~Occupied(a)
  BY <1>0 DEF IInv, ApprovalByStatus, OneApproval
<1>u. UNCHANGED <<intent, ran>>
  BY DEF Approve, evidence
<1>3. ApprovalByStatus' /\ OneApproval'
  BY <1>0, <1>2, <1>u, NoneApart DEF ApprovalByStatus, OneApproval, Occupied
<1>4. EarnedVerdict'
  BY <1>0 DEF EarnedVerdict, FinalStatus
<1>5. QED
  BY <1>1, <1>3, <1>4 DEF IInv

LEMMA RevisePublishStep ==
  ASSUME IInv, RevisePublish PROVE IInv'
<1>0. /\ run \in Run /\ run' \in Run
      /\ run'.status = "Pending" /\ run'.approval = None
  BY DEF RevisePublish, RevisionReset, Publish, IInv, TypeOK, Run, Statuses, Command
<1>1. TypeOK' /\ CommandMemory' /\ AttemptMemory' /\ InvalidationMemory' /\ NoReplay'
  BY <1>0, RunReplaced, IdleTyped
     DEF RevisePublish, Finish, Quiet, promotionState, IInv, TypeOK
<1>2. \A a \in Attempts : ~Occupied(a)
  BY DEF RevisePublish, RevisionEligible, NoAttempt
<1>u. UNCHANGED <<intent, ran>>
  BY DEF RevisePublish, evidence
<1>3. ApprovalByStatus' /\ OneApproval'
  BY <1>0, <1>2, <1>u DEF ApprovalByStatus, OneApproval, Occupied
<1>4. EarnedVerdict'
  BY <1>0 DEF EarnedVerdict, FinalStatus
<1>5. QED
  BY <1>1, <1>3, <1>4 DEF IInv

\* A verdict published by an evaluation or an adoption: FinalAuthority of the
\* decided run gives the attempt it selects.
LEMMA DecidedStep ==
  ASSUME IInv, NEW a \in Attempts, NEW i \in 0 .. MaxRecoveries, NEW r \in Run,
         run = r, run' = Decided(r, a, i), FinalAuthority(run'),
         UNCHANGED <<intent, testing, ran>>
  PROVE  run' \in Run /\ ApprovalByStatus' /\ OneApproval' /\ EarnedVerdict'
<1>0. /\ run' \in Run /\ run'.selected = a
      /\ run'.approval = run.approval /\ run'.review = run.review
      /\ run'.status \in {"EvalPassed", "Failed"}
  <2> DEFINE st == IF Passed(a) THEN "EvalPassed" ELSE "Failed"
  <2>1. run' = [r EXCEPT !.status = st, !.selected = a, !.recovery = i]
    BY DEF Decided
  <2>2. st \in {"EvalPassed", "Failed"} /\ a \in 0 .. MaxAttempts
    BY BoundsAssumption DEF Attempts
  <2> HIDE DEF st
  <2> QED
    BY <2>1, <2>2 DEF Run, Statuses
<1>1. PICK b \in Attempts :
        /\ IsLatest(b) /\ run'.selected = b
        /\ testing[b] # None
        /\ (run'.status # "Failed" <=> Passed(b))
  BY DEF FinalAuthority
<1>2. b = a
  BY <1>0, <1>1
<1>3. run.approval # None /\ intent[a].run.approval = run.approval
  BY <1>1, <1>2 DEF IInv, OneApproval, IsLatest
<1>4. /\ testing[a] = ran[a] /\ testing[a] \in Verdicts /\ ran[a] \in Seq(BOOLEAN)
      /\ ran[a] \in [Checks -> BOOLEAN]
  BY <1>1, <1>2 DEF IInv, NoReplay, TypeOK, Verdicts
<1>5. Len(ran[a]) = NumChecks
  BY <1>4, LenProperties, BoundsAssumption DEF Checks
<1>6. run'.status # "Failed" <=> \A c \in Checks : ran[a][c]
  BY <1>1, <1>2, <1>4 DEF Passed
<1>7. ApprovalByStatus' /\ OneApproval'
  BY <1>0, <1>3 DEF IInv, ApprovalByStatus, OneApproval, Occupied
<1>8. IsLatest(a)'
  BY <1>1, <1>2 DEF IsLatest, Occupied
<1>9. EarnedVerdict'
  BY <1>0, <1>3, <1>5, <1>6, <1>8 DEF EarnedVerdict
<1>10. QED
  BY <1>0, <1>7, <1>9

LEMMA EvaluatePublishStep ==
  ASSUME IInv, EvaluatePublish PROVE IInv'
<1>1. /\ cmd.attempt \in Attempts /\ cmd.base \in Run /\ cmd.base.recovery \in 0 .. MaxRecoveries
      /\ run = cmd.base /\ run' = Decided(cmd.base, cmd.attempt, cmd.base.recovery)
      /\ FinalAuthority(run') /\ UNCHANGED <<intent, testing, ran>>
  BY DEF EvaluatePublish, At, Publish, evidence, IInv, CommandMemory, TypeOK, Command, Run
<1>2. run' \in Run /\ ApprovalByStatus' /\ OneApproval' /\ EarnedVerdict'
  BY <1>1, DecidedStep
<1>3. TypeOK' /\ CommandMemory' /\ AttemptMemory' /\ InvalidationMemory' /\ NoReplay'
  BY <1>2, RunReplaced, IdleTyped
     DEF EvaluatePublish, Finish, Quiet, promotionState, IInv, TypeOK
<1>4. QED
  BY <1>2, <1>3 DEF IInv

LEMMA AdoptPublishStep ==
  ASSUME IInv, AdoptPublish PROVE IInv'
<1>1. /\ cmd.attempt \in Attempts /\ cmd.base \in Run /\ cmd.recovery \in 0 .. MaxRecoveries
      /\ run = cmd.base /\ run' = Decided(cmd.base, cmd.attempt, cmd.recovery)
      /\ FinalAuthority(run') /\ UNCHANGED <<intent, testing, ran>>
  BY DEF AdoptPublish, At, Publish, evidence, IInv, CommandMemory, TypeOK, Command
<1>2. run' \in Run /\ ApprovalByStatus' /\ OneApproval' /\ EarnedVerdict'
  BY <1>1, DecidedStep
<1>3. TypeOK' /\ CommandMemory' /\ AttemptMemory' /\ InvalidationMemory' /\ NoReplay'
  BY <1>2, RunReplaced, IdleTyped
     DEF AdoptPublish, Finish, Quiet, promotionState, IInv, TypeOK
<1>4. QED
  BY <1>2, <1>3 DEF IInv

LEMMA InvalidatePublishStep ==
  ASSUME IInv, InvalidatePublish PROVE IInv'
<1> DEFINE approved == source[cmd.recovery].approved
<1>1. /\ run = cmd.base /\ run' = InvalidationReset(approved, cmd.recovery)
      /\ cmd.recovery \in 0 .. MaxRecoveries /\ approved \in Run
  BY DEF InvalidatePublish, At, Publish, IInv, CommandMemory, TypeOK, Command, Recoveries, Source
<1>2. /\ approved.status = "Approved" /\ approved.approval = run.approval
      /\ approved.review = run.review /\ run.approval # None
  BY <1>1 DEF InvalidatePublish, At, IInv, InvalidationMemory
<1>u. UNCHANGED <<intent, ran>>
  BY DEF InvalidatePublish, evidence
<1>3. /\ run' \in Run /\ run'.status = "Approved" /\ run'.approval = run.approval
      /\ run'.review = run.review
  <2> HIDE DEF approved
  <2> QED
    BY <1>1, <1>2 DEF InvalidationReset, Run
<1>4. TypeOK' /\ CommandMemory' /\ AttemptMemory' /\ InvalidationMemory' /\ NoReplay'
  BY <1>3, RunReplaced, IdleTyped
     DEF InvalidatePublish, Finish, Quiet, promotionState, IInv, TypeOK
<1>5. ApprovalByStatus' /\ OneApproval'
  BY <1>2, <1>3, <1>u DEF IInv, ApprovalByStatus, OneApproval, Occupied
<1>6. EarnedVerdict'
  BY <1>3 DEF EarnedVerdict, FinalStatus
<1>7. QED
  BY <1>4, <1>5, <1>6 DEF IInv

LEMMA PromotePublishStep ==
  ASSUME IInv, PromotePublish PROVE IInv'
<1>1. /\ run \in Run /\ run.status = "EvalPassed" /\ run' \in Run
      /\ run'.status = "Promoted" /\ run'.approval = run.approval
      /\ run'.review = run.review /\ run'.selected = run.selected
  BY DEF PromotePublish, At, Publish, IInv, CommandMemory, TypeOK, Run, Statuses
<1>2. TypeOK' /\ CommandMemory' /\ AttemptMemory' /\ InvalidationMemory' /\ NoReplay'
  BY <1>1, RunReplaced, IdleTyped
     DEF PromotePublish, Finish, Quiet, promotionState, IInv, TypeOK
<1>u. UNCHANGED <<intent, ran>>
  BY DEF PromotePublish, evidence
<1>3. ApprovalByStatus' /\ OneApproval'
  BY <1>1, <1>u DEF IInv, ApprovalByStatus, OneApproval, Occupied
<1>4. EarnedVerdict'
  BY <1>1, <1>u, VerdictKept
<1>5. QED
  BY <1>2, <1>3, <1>4 DEF IInv

\* Cleanup changes the candidate's lifecycle only.
LEMMA LifecycleStep ==
  ASSUME IInv, NEW l \in Lifecycles, run.status \in {"Blocked", "Failed"},
         run' = [run EXCEPT !.candidate = l], Quiet(cmd'), cmd' \in Command,
         UNCHANGED <<evidence, recoveryFiles, promotion, target, worktree, ran, crashes>>
  PROVE  IInv'
<1>1. /\ run \in Run /\ run' \in Run /\ run'.status = run.status
      /\ run'.approval = run.approval
      /\ run'.review = run.review /\ run'.selected = run.selected
  BY DEF IInv, TypeOK, Run
<1>2. TypeOK' /\ CommandMemory' /\ AttemptMemory' /\ InvalidationMemory' /\ NoReplay'
  BY <1>1, RunReplaced DEF IInv, TypeOK
<1>u. UNCHANGED <<intent, ran>>
  BY DEF evidence
<1>3. ApprovalByStatus' /\ OneApproval'
  BY <1>1, <1>u DEF IInv, ApprovalByStatus, OneApproval, Occupied
<1>4. EarnedVerdict'
  BY <1>1, <1>u, VerdictKept
<1>5. QED
  BY <1>2, <1>3, <1>4 DEF IInv

LEMMA CleanupStartStep ==
  ASSUME IInv, CleanupStart PROVE IInv'
<1> DEFINE cleaning == [run EXCEPT !.candidate = "Cleaning"]
<1>1. cleaning \in Run /\ cleaning.status = run.status /\ run.status \in {"Blocked", "Failed"}
  BY DEF IInv, TypeOK, Run, Lifecycles, CleanupStart, CleanupAdmitted
<1>2. /\ cmd' = [Idle EXCEPT !.name = "cleanup", !.at = "remove", !.base = cleaning]
      /\ run' = cleaning
  BY DEF CleanupStart, Publish
<1> HIDE DEF cleaning
<1>3. cmd' \in Command /\ cmd'.name = "cleanup" /\ cmd'.base.status = run.status
  BY <1>1, <1>2, IdleTyped DEF Command, Commands, Points
<1>4. Quiet(cmd')
  BY <1>1, <1>3 DEF Quiet
<1>5. QED
  BY <1>1, <1>2, <1>3, <1>4, LifecycleStep DEF CleanupStart, promotionState, Lifecycles, cleaning

LEMMA CleanupPublishStep ==
  ASSUME IInv, CleanupPublish PROVE IInv'
<1>1. /\ run' = [run EXCEPT !.candidate = "Cleaned"] /\ run.status \in {"Blocked", "Failed"}
      /\ cmd' \in Command /\ Quiet(cmd')
  BY IdleTyped DEF CleanupPublish, At, Publish, Finish, Quiet, IInv, CommandMemory
<1>2. QED
  BY <1>1, LifecycleStep DEF CleanupPublish, promotionState, Lifecycles

-----------------------------------------------------------------------------
(* Commands that start, and the recovery files they publish.               *)

LEMMA BegunTyped ==
  ASSUME IInv, NEW name \in Commands, NEW at \in Points,
         NEW who \in Operators \cup {None}, NEW a \in 0 .. MaxAttempts,
         NEW i \in 0 .. MaxRecoveries, Begin(name, at, who, a, i)
  PROVE  /\ cmd = Idle /\ cmd' \in Command
         /\ cmd'.name = name /\ cmd'.at = at /\ cmd'.who = who /\ cmd'.base = run
         /\ cmd'.attempt = a /\ cmd'.recovery = i /\ cmd'.results = << >>
  BY DEF Begin, IInv, TypeOK, Command

\* A command that goes on without touching what its memory is about.
LEMMA MovedOn ==
  ASSUME IInv, NEW at \in Points, GoTo(at), UNCHANGED <<intent, ran>>,
         \A i \in Recoveries : source[i] # None => source'[i] = source[i]
  PROVE  cmd' \in Command /\ CommandMemory' /\ AttemptMemory' /\ InvalidationMemory'
<1>1. /\ cmd' \in Command
      /\ cmd'.name = cmd.name /\ cmd'.who = cmd.who /\ cmd'.base = cmd.base
      /\ cmd'.attempt = cmd.attempt /\ cmd'.recovery = cmd.recovery
      /\ cmd'.results = cmd.results
  BY DEF GoTo, IInv, TypeOK, Command
<1>2. CommandMemory'
  BY <1>1 DEF IInv, CommandMemory
<1>3. AttemptMemory'
  BY <1>1 DEF IInv, AttemptMemory, Occupied
<1>4. InvalidationMemory'
  BY <1>1 DEF IInv, InvalidationMemory, CommandMemory
<1>5. QED
  BY <1>1, <1>2, <1>3, <1>4

LEMMA ReviseSourceStep ==
  ASSUME IInv, NEW op \in Operators, ReviseSource(op) PROVE IInv'
<1> DEFINE i == run.recovery + 1
<1>0. run \in Run /\ i \in Recoveries
  BY BoundsAssumption DEF ReviseSource, IInv, TypeOK, Run, Recoveries
<1>1. RevisionSource(i) \in Source /\ RevisionSource(i) # None
  <2>1. 0 \in 0 .. MaxAttempts /\ "revise" \in Kinds
    BY BoundsAssumption DEF Kinds
  <2>2. RevisionSource(i) \in Source
    BY <1>0, <2>1 DEF RevisionSource, Source
  <2>3. QED
    BY <2>2, NoneApart
<1> HIDE DEF i
<1>2. /\ cmd' \in Command /\ cmd'.name = "revise" /\ cmd'.who = op /\ cmd'.recovery = i
      /\ source' = [source EXCEPT ![i] = RevisionSource(i)]
  <2>1. Begin("revise", "decision", op, 0, i)
    BY DEF ReviseSource, i
  <2>2. /\ "revise" \in Commands /\ "decision" \in Points /\ op \in Operators \cup {None}
        /\ 0 \in 0 .. MaxAttempts /\ i \in 0 .. MaxRecoveries
    BY <1>0, BoundsAssumption DEF Commands, Points, Recoveries
  <2>3. QED
    BY <2>1, <2>2, BegunTyped DEF ReviseSource, i
<1>3. TypeOK'
  BY <1>1, <1>2 DEF ReviseSource, evidence, promotionState, IInv, TypeOK
<1>4. source'[i] # None
  BY <1>0, <1>1, <1>2 DEF IInv, TypeOK
<1>5. CommandMemory' /\ AttemptMemory' /\ InvalidationMemory'
  BY <1>0, <1>2, <1>4 DEF CommandMemory, AttemptMemory, InvalidationMemory
<1>6. ApprovalByStatus' /\ NoReplay' /\ OneApproval' /\ EarnedVerdict'
  BY RunKept DEF ReviseSource, evidence
<1>7. QED
  BY <1>3, <1>5, <1>6 DEF IInv

LEMMA AdoptSourceStep ==
  ASSUME IInv, NEW op \in Operators, NEW a \in Attempts, AdoptSource(op, a) PROVE IInv'
<1> DEFINE i == run.recovery + 1
           s == AdoptionSource(op, a, VerifiesReport(a, i))
<1>0. run \in Run /\ i \in Recoveries /\ a \in 0 .. MaxAttempts
      /\ run.status = "Approved"
  BY BoundsAssumption
     DEF AdoptSource, CanAdopt, AdoptableRun, IInv, TypeOK, Run, Recoveries, Attempts
<1>1. s \in Source /\ s # None
  <2>1. VerifiesReport(a, i) \in BOOLEAN
    BY <1>0 DEF VerifiesReport, IInv, TypeOK, Source
  <2>2. QED
    BY <1>0, <2>1, NoneApart DEF AdoptionSource, Source, Kinds
<1>2. source' = [source EXCEPT ![i] = s]
  BY DEF AdoptSource
<1> HIDE DEF s, i
<1>3. /\ cmd' \in Command /\ cmd'.name = "adopt" /\ cmd'.who = op /\ cmd'.recovery = i
      /\ cmd'.attempt = a /\ cmd'.base = run
  <2>1. Begin("adopt", "decision", op, a, i)
    BY DEF AdoptSource, i
  <2>2. /\ "adopt" \in Commands /\ "decision" \in Points /\ op \in Operators \cup {None}
        /\ a \in 0 .. MaxAttempts /\ i \in 0 .. MaxRecoveries
    BY <1>0, BoundsAssumption DEF Commands, Points, Recoveries
  <2>3. QED
    BY <2>1, <2>2, BegunTyped
<1>u. UNCHANGED <<run, evidence, decision, promotionState, worktree, ran, crashes>>
  BY DEF AdoptSource
<1>4. TypeOK'
  BY <1>1, <1>2, <1>3, <1>u DEF evidence, promotionState, IInv, TypeOK
<1>5. source'[i] # None
  BY <1>0, <1>1, <1>2 DEF IInv, TypeOK
<1>6. CommandMemory' /\ AttemptMemory' /\ InvalidationMemory'
  BY <1>0, <1>3, <1>5 DEF CommandMemory, AttemptMemory, InvalidationMemory
<1>7. ApprovalByStatus' /\ NoReplay' /\ OneApproval' /\ EarnedVerdict'
  BY <1>u, RunKept DEF evidence
<1>8. QED
  BY <1>4, <1>6, <1>7 DEF IInv

\* What an invalidation goes back to is an Approved run of the same approval:
\* the run itself, or the one the verified final authority was decided from.
LEMMA ObservedApprovedTyped ==
  ASSUME IInv, InvalidatableRun
  PROVE  /\ ObservedApproved \in Run /\ ObservedApproved.status = "Approved"
         /\ ObservedApproved.approval = run.approval
         /\ ObservedApproved.review = run.review
         /\ run.approval # None /\ run.status \in {"Approved", "Failed"}
<1>1. CASE run.status = "Approved"
  BY <1>1 DEF ObservedApproved, IInv, TypeOK, ApprovalByStatus
<1>2. CASE run.status # "Approved"
  <2>1. run.status = "Failed" /\ run.approval # None /\ FinalAuthority(run)
    BY <1>2 DEF InvalidatableRun
  <2>2. PICK a \in Attempts : Occupied(a) /\ IntentBinds(a, ApprovedRunOf(run))
    BY <2>1 DEF FinalAuthority, IsLatest
  <2>3. intent[a] \in Intent /\ intent[a].run = ApprovedRunOf(run)
    BY <2>2 DEF IntentBinds, Occupied, IInv, TypeOK
  <2>4. /\ ApprovedRunOf(run) \in Run /\ ApprovedRunOf(run).status = "Approved"
        /\ ApprovedRunOf(run).approval = run.approval
        /\ ApprovedRunOf(run).review = run.review
    BY <2>2, <2>3 DEF Intent, IInv, ApprovalByStatus, OneApproval
  <2>5. QED
    BY <1>2, <2>1, <2>4 DEF ObservedApproved
<1>3. QED
  BY <1>1, <1>2

LEMMA InvalidateSourceStep ==
  ASSUME IInv, NEW op \in Operators, NEW a \in Attempts, InvalidateSource(op, a)
  PROVE  IInv'
<1> DEFINE i == run.recovery + 1
           s == InvalidationSource(op, a)
<1>0. run \in Run /\ i \in Recoveries /\ a \in 0 .. MaxAttempts
  BY BoundsAssumption
     DEF InvalidateSource, CanInvalidate, IInv, TypeOK, Run, Recoveries, Attempts
<1>a. /\ ObservedApproved \in Run /\ ObservedApproved.status = "Approved"
      /\ ObservedApproved.approval = run.approval
      /\ ObservedApproved.review = run.review
      /\ run.approval # None /\ run.status \in {"Approved", "Failed"}
  BY ObservedApprovedTyped DEF InvalidateSource, CanInvalidate
<1>1. s \in Source /\ s # None /\ s.approved = ObservedApproved
  BY <1>0, <1>a, NoneApart DEF InvalidationSource, Source, Kinds, IInv, TypeOK
<1>2. source' = [source EXCEPT ![i] = s]
  BY DEF InvalidateSource
<1> HIDE DEF s, i
<1>3. /\ cmd' \in Command /\ cmd'.name = "invalidate" /\ cmd'.who = op /\ cmd'.recovery = i
      /\ cmd'.attempt = a /\ cmd'.base = run
  <2>1. Begin("invalidate", "decision", op, a, i)
    BY DEF InvalidateSource, i
  <2>2. /\ "invalidate" \in Commands /\ "decision" \in Points /\ op \in Operators \cup {None}
        /\ a \in 0 .. MaxAttempts /\ i \in 0 .. MaxRecoveries
    BY <1>0, BoundsAssumption DEF Commands, Points, Recoveries
  <2>3. QED
    BY <2>1, <2>2, BegunTyped
<1>u. UNCHANGED <<run, evidence, decision, promotionState, worktree, ran, crashes>>
  BY DEF InvalidateSource
<1>4. TypeOK'
  BY <1>1, <1>2, <1>3, <1>u DEF evidence, promotionState, IInv, TypeOK
<1>5. source'[i] = s
  BY <1>0, <1>1, <1>2 DEF IInv, TypeOK
<1>6. CommandMemory' /\ AttemptMemory'
  BY <1>0, <1>a, <1>1, <1>3, <1>5 DEF CommandMemory, AttemptMemory
<1>7. InvalidationMemory'
  BY <1>a, <1>1, <1>3, <1>5 DEF InvalidationMemory
<1>8. ApprovalByStatus' /\ NoReplay' /\ OneApproval' /\ EarnedVerdict'
  BY <1>u, RunKept DEF evidence
<1>9. QED
  BY <1>4, <1>6, <1>7, <1>8 DEF IInv

LEMMA DecisionTyped ==
  ASSUME IInv
  PROVE  /\ cmd.name = "revise" => RevisionDecision(cmd.who) \in Decision
         /\ cmd.name = "adopt" => AdoptionDecision(cmd.who, cmd.attempt) \in Decision
         /\ cmd.name = "invalidate" => InvalidationDecision(cmd.who, cmd.attempt) \in Decision
<1>1. run.review \in 1 .. MaxReviews
  BY DEF IInv, TypeOK, Run
<1>2. ASSUME cmd.name \in {"adopt", "invalidate"} PROVE cmd.attempt \in 1 .. MaxAttempts
  BY <1>2 DEF IInv, CommandMemory, Attempts
<1>3. /\ run.review + 1 \in 1 .. (MaxAttempts + MaxReviews)
      /\ cmd.name \in {"adopt", "invalidate"} =>
           /\ cmd.attempt \in 1 .. (MaxAttempts + MaxReviews)
           /\ cmd.attempt + 1 \in 1 .. (MaxAttempts + MaxReviews)
  BY <1>1, <1>2, BoundsAssumption
<1>4. cmd.name \in {"revise", "adopt", "invalidate"} => cmd.who \in Operators
  BY DEF IInv, CommandMemory
<1>5. QED
  BY <1>3, <1>4 DEF RevisionDecision, AdoptionDecision, InvalidationDecision, Decision, Kinds

\* The three decisions differ in what they publish only.
LEMMA DecisionStep ==
  ASSUME IInv, NEW d \in Decision, NEW at \in Points, GoTo(at),
         decision' = [decision EXCEPT ![cmd.recovery] = d],
         UNCHANGED <<run, evidence, source, promotionState, worktree, ran, crashes>>
  PROVE  IInv'
<1>1. cmd' \in Command /\ CommandMemory' /\ AttemptMemory' /\ InvalidationMemory'
  BY MovedOn DEF evidence
<1>2. TypeOK'
  BY <1>1 DEF evidence, promotionState, IInv, TypeOK
<1>3. ApprovalByStatus' /\ NoReplay' /\ OneApproval' /\ EarnedVerdict'
  BY RunKept DEF evidence
<1>4. QED
  BY <1>1, <1>2, <1>3 DEF IInv

LEMMA DecisionsStep ==
  ASSUME IInv, ReviseDecision \/ AdoptDecision \/ InvalidateDecision PROVE IInv'
<1>1. CASE ReviseDecision
  BY <1>1, DecisionTyped, DecisionStep DEF ReviseDecision, At, Points
<1>2. CASE AdoptDecision
  <2> DEFINE at == IF source[cmd.recovery].report THEN "publish" ELSE "report"
  <2>1. at \in Points /\ GoTo(at)
    BY <1>2 DEF AdoptDecision, Points
  <2> HIDE DEF at
  <2>2. QED
    BY <1>2, <2>1, DecisionTyped, DecisionStep DEF AdoptDecision, At
<1>3. CASE InvalidateDecision
  BY <1>3, DecisionTyped, DecisionStep DEF InvalidateDecision, At, Points
<1>4. QED
  BY <1>1, <1>2, <1>3

-----------------------------------------------------------------------------
(* The evaluation attempt.                                                 *)

LEMMA PublishIntentStep ==
  ASSUME IInv, NEW a \in Attempts, NEW i \in 0 .. MaxRecoveries, PublishIntent(a, i)
  PROVE  IInv'
<1>0. /\ run \in Run /\ run.status = "Approved" /\ a \in Attempts /\ ~Occupied(a)
      /\ a \in 0 .. MaxAttempts
  BY BoundsAssumption DEF PublishIntent, IsFresh, IInv, TypeOK, Attempts
<1>1. [run |-> run, recovery |-> i] \in Intent
  BY <1>0 DEF Intent
<1>2. /\ intent' = [intent EXCEPT ![a] = [run |-> run, recovery |-> i]]
      /\ UNCHANGED <<run, logs, testing, report, recoveryFiles, promotionState, worktree,
                     ran, crashes>>
  BY DEF PublishIntent
<1>3. /\ cmd' \in Command /\ cmd'.name = "evaluate" /\ cmd'.attempt = a
      /\ cmd'.base = run /\ cmd'.results = << >>
  <2>1. Begin("evaluate", "spawn", None, a, i)
    BY DEF PublishIntent
  <2>2. "evaluate" \in Commands /\ "spawn" \in Points /\ None \in Operators \cup {None}
    BY DEF Commands, Points
  <2>3. QED
    BY <1>0, <2>1, <2>2, BegunTyped
<1>4. ran[a] = << >>
  BY <1>0 DEF IInv, NoReplay
<1>5. TypeOK'
  BY <1>1, <1>2, <1>3 DEF recoveryFiles, promotionState, IInv, TypeOK
<1>6. intent'[a].run = run /\ \A b \in Attempts : b # a => intent'[b] = intent[b]
  BY <1>0, <1>2 DEF IInv, TypeOK
<1>7. intent'[a] # None
  BY <1>0, <1>1, <1>2, NoneApart DEF IInv, TypeOK
<1>8. CommandMemory' /\ AttemptMemory' /\ InvalidationMemory'
  <2>1. Len(<< >>) = 0 /\ NumChecks \in Nat
    BY BoundsAssumption
  <2>2. QED
    BY <1>0, <1>2, <1>3, <1>4, <1>7, <2>1
       DEF CommandMemory, AttemptMemory, InvalidationMemory, Occupied
<1>9. ApprovalByStatus' /\ OneApproval'
  BY <1>0, <1>2, <1>6 DEF IInv, ApprovalByStatus, OneApproval, Occupied
<1>10. NoReplay'
  BY <1>0, <1>2, <1>6, <1>7 DEF IInv, NoReplay, Occupied
<1>11. EarnedVerdict'
  BY <1>0, <1>2 DEF EarnedVerdict, FinalStatus
<1>12. QED
  BY <1>5, <1>8, <1>9, <1>10, <1>11 DEF IInv

LEMMA EvaluateStep ==
  ASSUME IInv, Evaluate \/ Rerun PROVE IInv'
<1>1. CASE Evaluate
  <2>1. 1 \in Attempts /\ 0 \in 0 .. MaxRecoveries
    BY BoundsAssumption DEF Attempts
  <2>2. QED
    BY <1>1, <2>1, PublishIntentStep DEF Evaluate
<1>2. CASE Rerun
  <2> DEFINE i == run.recovery
             next == decision[i].next
  <2>1. PublishIntent(next, i) /\ next \in Attempts /\ i \in 0 .. MaxRecoveries
    BY <1>2 DEF Rerun, PublishIntent, IInv, TypeOK, Run
  <2>2. QED
    BY <2>1, PublishIntentStep
<1>3. QED
  BY <1>1, <1>2

\* What a command answers goes to the history and to the memory of its process.
LEMMA SpawnStep ==
  ASSUME IInv, NEW answer \in BOOLEAN, Spawn(answer) PROVE IInv'
<1> DEFINE a == cmd.attempt
           results == Append(cmd.results, answer)
<1>0. /\ cmd.name = "evaluate" /\ run = cmd.base /\ run.status = "Approved"
      /\ a \in Attempts /\ testing[a] = None /\ Occupied(a) /\ ran[a] = cmd.results
      /\ ran' = [ran EXCEPT ![a] = Append(ran[a], answer)]
      /\ UNCHANGED <<run, evidence, recoveryFiles, promotionState, worktree, crashes>>
  BY DEF Spawn, At, IInv, CommandMemory, AttemptMemory
<1>1. results \in Seq(BOOLEAN) /\ Len(results) <= NumChecks
  BY BoundsAssumption DEF Spawn, IInv, TypeOK, Command
<1>2. ran'[a] = results /\ \A b \in Attempts : b # a => ran'[b] = ran[b]
  BY <1>0 DEF IInv, TypeOK
<1>3. ran' \in [Attempts -> Seq(BOOLEAN)]
  BY <1>0, <1>1 DEF IInv, TypeOK
<1>4. cmd' = [cmd EXCEPT !.at = "stdout", !.results = results]
  BY DEF Spawn
<1> HIDE DEF results
<1>5. /\ cmd' \in Command /\ cmd'.name = "evaluate" /\ cmd'.attempt = a
      /\ cmd'.base = run /\ cmd'.results = results
  BY <1>0, <1>1, <1>4 DEF IInv, TypeOK, Command, Points
<1>6. TypeOK'
  BY <1>0, <1>3, <1>5 DEF evidence, recoveryFiles, promotionState, IInv, TypeOK
<1>7. CommandMemory' /\ AttemptMemory' /\ InvalidationMemory'
  BY <1>0, <1>1, <1>2, <1>5
     DEF evidence, CommandMemory, AttemptMemory, InvalidationMemory, Occupied
<1>8. ApprovalByStatus' /\ OneApproval'
  BY <1>0 DEF evidence, IInv, ApprovalByStatus, OneApproval, Occupied
<1>9. NoReplay'
  BY <1>0, <1>1, <1>2 DEF evidence, IInv, NoReplay, Occupied
<1>10. EarnedVerdict'
  BY <1>0 DEF EarnedVerdict, FinalStatus
<1>11. QED
  BY <1>6, <1>7, <1>8, <1>9, <1>10 DEF IInv

LEMMA PublishTestingStep ==
  ASSUME IInv, PublishTesting PROVE IInv'
<1> DEFINE a == cmd.attempt
<1>0. /\ cmd.name = "evaluate" /\ run = cmd.base /\ run.status = "Approved"
      /\ a \in Attempts /\ ran[a] = cmd.results
      /\ testing' = [testing EXCEPT ![a] = cmd.results]
      /\ UNCHANGED <<run, intent, logs, report, recoveryFiles, promotionState, worktree,
                     ran, crashes>>
  BY DEF PublishTesting, At, IInv, CommandMemory, AttemptMemory
<1>1. cmd.results \in Verdicts
  <2>1. cmd.results \in Seq(BOOLEAN) /\ Len(cmd.results) = NumChecks
    BY DEF PublishTesting, IInv, TypeOK, Command
  <2>2. QED
    BY <2>1, LenProperties DEF Verdicts, Checks
<1>2. cmd' \in Command /\ CommandMemory' /\ AttemptMemory' /\ InvalidationMemory'
  <2>1. GoTo("report") /\ "report" \in Points
    BY DEF PublishTesting, Points
  <2>2. QED
    BY <1>0, <2>1, MovedOn DEF recoveryFiles
<1>3. TypeOK'
  BY <1>0, <1>1, <1>2 DEF recoveryFiles, promotionState, IInv, TypeOK
<1>4. ApprovalByStatus' /\ OneApproval'
  BY <1>0 DEF IInv, ApprovalByStatus, OneApproval, Occupied
<1>5. NoReplay'
  BY <1>0 DEF IInv, TypeOK, NoReplay, Occupied
<1>6. EarnedVerdict'
  BY <1>0 DEF EarnedVerdict, FinalStatus
<1>7. QED
  BY <1>2, <1>3, <1>4, <1>5, <1>6 DEF IInv

\* Logs and reports are in none of the proved properties.
LEMMA LogOrReportStep ==
  ASSUME IInv, NEW at \in Points, GoTo(at),
         logs' \in [Attempts -> Nat], report' \in [Attempts -> BOOLEAN],
         UNCHANGED <<run, intent, testing, recoveryFiles, promotionState, worktree, ran,
                     crashes>>
  PROVE  IInv'
<1>1. cmd' \in Command /\ CommandMemory' /\ AttemptMemory' /\ InvalidationMemory'
  BY MovedOn DEF recoveryFiles
<1>2. TypeOK'
  BY <1>1 DEF recoveryFiles, promotionState, IInv, TypeOK
<1>3. ApprovalByStatus' /\ NoReplay' /\ OneApproval' /\ EarnedVerdict'
  BY RunKept
<1>4. QED
  BY <1>1, <1>2, <1>3 DEF IInv

LEMMA LogsAndReportsStep ==
  ASSUME IInv, PublishStdout \/ PublishStderr \/ PublishReport \/ AdoptReport PROVE IInv'
<1>1. "stderr" \in Points /\ "spawn" \in Points /\ "publish" \in Points
  BY DEF Points
<1>2. CASE PublishStdout \/ PublishStderr
  <2>1. logs' \in [Attempts -> Nat] /\ report' \in [Attempts -> BOOLEAN]
    <3>1. /\ logs' = [logs EXCEPT ![cmd.attempt] = logs[cmd.attempt] + 1]
          /\ report' = report /\ cmd.attempt \in Attempts
      BY <1>2 DEF PublishStdout, PublishStderr, PublishLog, At, IInv, CommandMemory
    <3>2. logs \in [Attempts -> Nat] /\ logs[cmd.attempt] + 1 \in Nat
      BY <3>1 DEF IInv, TypeOK
    <3>3. QED
      BY <3>1, <3>2 DEF IInv, TypeOK
  <2>2. QED
    BY <1>1, <1>2, <2>1, LogOrReportStep DEF PublishStdout, PublishStderr, PublishLog
<1>3. CASE PublishReport \/ AdoptReport
  <2>1. logs' \in [Attempts -> Nat] /\ report' \in [Attempts -> BOOLEAN]
    BY <1>3 DEF PublishReport, AdoptReport, IInv, TypeOK
  <2>2. QED
    BY <1>1, <1>3, <2>1, LogOrReportStep DEF PublishReport, AdoptReport
<1>4. QED
  BY <1>2, <1>3

-----------------------------------------------------------------------------
(* Promotion, cleanup and the environment leave run.json and the evidence  *)
(* alone.                                                                  *)

LEMMA PromoteIntentStep ==
  ASSUME IInv, NEW op \in Operators, PromoteIntent(op) PROVE IInv'
<1>0. /\ run \in Run /\ run.status = "EvalPassed"
      /\ promotion' = [who |-> op, run |-> run]
      /\ UNCHANGED <<run, evidence, recoveryFiles, target, worktree, ran, crashes>>
  BY DEF PromoteIntent, IInv, TypeOK
<1>1. /\ cmd' \in Command /\ cmd'.name = "promote" /\ cmd'.who = op /\ cmd'.base = run
  <2>1. Begin("promote", "apply", op, 0, 0)
    BY DEF PromoteIntent
  <2>2. /\ "promote" \in Commands /\ "apply" \in Points /\ op \in Operators \cup {None}
        /\ 0 \in 0 .. MaxAttempts /\ 0 \in 0 .. MaxRecoveries
    BY BoundsAssumption DEF Commands, Points
  <2>3. QED
    BY <2>1, <2>2, BegunTyped
<1>2. TypeOK'
  BY <1>0, <1>1 DEF evidence, recoveryFiles, IInv, TypeOK, Promotion
<1>3. CommandMemory' /\ AttemptMemory' /\ InvalidationMemory'
  BY <1>0, <1>1 DEF CommandMemory, AttemptMemory, InvalidationMemory
<1>4. ApprovalByStatus' /\ NoReplay' /\ OneApproval' /\ EarnedVerdict'
  BY <1>0, RunKept DEF evidence
<1>5. QED
  BY <1>2, <1>3, <1>4 DEF IInv

LEMMA CleanupResumeStep ==
  ASSUME IInv, CleanupResume PROVE IInv'
<1>0. /\ run.status \in {"Blocked", "Failed"}
      /\ UNCHANGED <<run, evidence, recoveryFiles, promotionState, worktree, ran, crashes>>
  BY DEF CleanupResume, CleanupAdmitted
<1>1. cmd' \in Command /\ cmd'.name = "cleanup" /\ cmd'.base = run
  <2>1. Begin("cleanup", "remove", None, 0, 0)
    BY DEF CleanupResume
  <2>2. /\ "cleanup" \in Commands /\ "remove" \in Points /\ None \in Operators \cup {None}
        /\ 0 \in 0 .. MaxAttempts /\ 0 \in 0 .. MaxRecoveries
    BY BoundsAssumption DEF Commands, Points
  <2>3. QED
    BY <2>1, <2>2, BegunTyped
<1>2. TypeOK'
  BY <1>0, <1>1 DEF evidence, recoveryFiles, promotionState, IInv, TypeOK
<1>3. CommandMemory' /\ AttemptMemory' /\ InvalidationMemory'
  BY <1>0, <1>1 DEF CommandMemory, AttemptMemory, InvalidationMemory
<1>4. ApprovalByStatus' /\ NoReplay' /\ OneApproval' /\ EarnedVerdict'
  BY <1>0, RunKept DEF evidence
<1>5. QED
  BY <1>2, <1>3, <1>4 DEF IInv

LEMMA OutsideStep ==
  ASSUME IInv, PromoteApply \/ RemoveWorktree PROVE IInv'
<1>0. /\ UNCHANGED <<run, evidence, recoveryFiles, promotion, ran, crashes>>
      /\ target' \in Targets /\ worktree' \in BOOLEAN
  BY DEF PromoteApply, RemoveWorktree, promotionState, IInv, TypeOK, Targets
<1>1. "publish" \in Points /\ GoTo("publish")
  BY DEF PromoteApply, RemoveWorktree, Points
<1>2. cmd' \in Command /\ CommandMemory' /\ AttemptMemory' /\ InvalidationMemory'
  BY <1>0, <1>1, MovedOn DEF evidence, recoveryFiles
<1>3. TypeOK'
  BY <1>0, <1>2 DEF evidence, recoveryFiles, IInv, TypeOK
<1>4. ApprovalByStatus' /\ NoReplay' /\ OneApproval' /\ EarnedVerdict'
  BY <1>0, RunKept DEF evidence
<1>5. QED
  BY <1>2, <1>3, <1>4 DEF IInv

LEMMA EnvironmentStep ==
  ASSUME IInv, Environment \/ UNCHANGED vars PROVE IInv'
<1>0. /\ UNCHANGED <<run, evidence, recoveryFiles, promotion, worktree, ran>>
      /\ cmd' \in {cmd, Idle} /\ target' \in Targets
      /\ crashes' \in 0 .. MaxCrashes
  <2>1. CASE Crash \/ PartialApply
    BY <2>1, BoundsAssumption
       DEF Crash, PartialApply, promotionState, IInv, TypeOK, Targets
  <2>2. CASE \E s \in {"clean", "other"} : EditTarget(s)
    BY <2>2 DEF EditTarget, IInv, TypeOK, Targets
  <2>3. CASE UNCHANGED vars
    BY <2>3 DEF vars, evidence, recoveryFiles, IInv, TypeOK
  <2>4. QED
    BY <2>1, <2>2, <2>3 DEF Environment
<1>1. TypeOK'
  BY <1>0, IdleTyped DEF evidence, recoveryFiles, IInv, TypeOK
<1>2. CommandMemory' /\ AttemptMemory' /\ InvalidationMemory'
  <2>1. CASE cmd' = cmd
    BY <1>0, <2>1 DEF evidence, recoveryFiles, IInv, CommandMemory, AttemptMemory,
                      InvalidationMemory, Occupied
  <2>2. CASE cmd' = Idle
    BY <2>2, IdleTyped DEF CommandMemory, AttemptMemory, InvalidationMemory
  <2>3. QED
    BY <1>0, <2>1, <2>2
<1>3. ApprovalByStatus' /\ NoReplay' /\ OneApproval' /\ EarnedVerdict'
  BY <1>0, RunKept DEF evidence
<1>4. QED
  BY <1>1, <1>2, <1>3 DEF IInv

-----------------------------------------------------------------------------
(* The theorems.                                                           *)

\* No action of the provider loop, of an operator or of a lost process breaks
\* the inductive invariant.
THEOREM IInvInductive == IInv /\ [Next]_vars => IInv'
<1> SUFFICES ASSUME IInv, [Next]_vars PROVE IInv'
  OBVIOUS
<1>1. CASE ProviderLoop
  BY <1>1, ReviewRequestStep, ReviewOutcomeStep DEF ProviderLoop
<1>2. ASSUME NEW op \in Operators, Issue(op) PROVE IInv'
  BY <1>2, ApproveStep, ReviseSourceStep, AdoptSourceStep, InvalidateSourceStep,
     PromoteIntentStep DEF Issue
<1>3. CASE Resume
  BY <1>3, EvaluateStep DEF Resume
<1>4. CASE StartCleanup
  BY <1>4, CleanupStartStep, CleanupResumeStep DEF StartCleanup
<1>5. CASE Progress
  <2>1. CASE Revision \/ Invalidation
    BY <2>1, DecisionsStep, RevisePublishStep, InvalidatePublishStep DEF Revision, Invalidation
  <2>2. CASE Evaluation
    BY <2>2, SpawnStep, LogsAndReportsStep, PublishTestingStep, EvaluatePublishStep
       DEF Evaluation
  <2>3. CASE Adoption
    BY <2>3, DecisionsStep, LogsAndReportsStep, AdoptPublishStep DEF Adoption
  <2>4. CASE PromotionSteps \/ Cleanup
    BY <2>4, OutsideStep, PromotePublishStep, CleanupPublishStep
       DEF PromotionSteps, Cleanup
  <2>5. QED
    BY <1>5, <2>1, <2>2, <2>3, <2>4 DEF Progress
<1>6. CASE Environment \/ UNCHANGED vars
  BY <1>6, EnvironmentStep
<1>7. QED
  BY <1>1, <1>2, <1>3, <1>4, <1>5, <1>6 DEF Next

\* Every reachable state satisfies the inductive invariant.
THEOREM IInvHolds == Spec => []IInv
<1>1. Init => IInv
  BY InitIInv
<1>2. IInv /\ [Next]_vars => IInv'
  BY IInvInductive
<1>3. QED
  BY <1>1, <1>2, PTL DEF Spec

\* run.json and every published file keep the shape the loaders expect, whatever
\* is interleaved or lost.
THEOREM TypesHold == Spec => []TypeOK
<1>1. IInv => TypeOK
  BY DEF IInv
<1>2. QED
  BY <1>1, IInvHolds, PTL

\* For any number of checks, attempts and crashes, no command of an attempt is
\* spawned twice, none before the durable intent, and Testing is what they said.
THEOREM NeverReplayed == Spec => []NoReplay
<1>1. IInv => NoReplay
  BY DEF IInv
<1>2. QED
  BY <1>1, IInvHolds, PTL

\* Every attempt's evidence is evidence under the approval the run carries.
THEOREM ApprovalIsOne == Spec => []OneApproval
<1>1. IInv => OneApproval
  BY DEF IInv
<1>2. QED
  BY <1>1, IInvHolds, PTL

\* A verdict in run.json, published by the evaluation or adopted after a crash,
\* is what all commands of the latest attempt answered.
THEOREM VerdictIsEarned == Spec => []EarnedVerdict
<1>1. IInv => EarnedVerdict
  BY DEF IInv
<1>2. QED
  BY <1>1, IInvHolds, PTL

\* What a step may do to a run that passed.
Immutable ==
  /\ run.status = "EvalPassed" =>
       \/ run' = run
       \/ run' = [run EXCEPT !.status = "Promoted"] /\ target = "patched"
  /\ run.status = "Promoted" => run' = run

LEMMA PassedKept == ASSUME IInv, [Next]_vars PROVE Immutable
<1> USE DEF Immutable
<1>1. CASE ProviderLoop
  BY <1>1 DEF ProviderLoop, ReviewRequest, ReviewOutcome
<1>2. ASSUME NEW op \in Operators, Issue(op) PROVE Immutable
  BY <1>2 DEF Issue, Approve, ReviseSource, AdoptSource, InvalidateSource, PromoteIntent
<1>3. CASE Resume
  BY <1>3 DEF Resume, Evaluate, Rerun, PublishIntent
<1>4. CASE StartCleanup
  BY <1>4 DEF StartCleanup, CleanupStart, CleanupResume, CleanupAdmitted
<1>5. CASE Revision \/ Invalidation
  BY <1>5
     DEF Revision, Invalidation, ReviseDecision, RevisePublish, RevisionEligible,
         InvalidateDecision, InvalidatePublish, Publish, At, IInv, CommandMemory
<1>6. CASE Evaluation \/ Adoption
  BY <1>6
     DEF Evaluation, Adoption, Spawn, PublishStdout, PublishStderr, PublishLog,
         PublishTesting, PublishReport, EvaluatePublish, AdoptDecision, AdoptReport,
         AdoptPublish, Publish, At, IInv, CommandMemory
<1>7. CASE PromotionSteps \/ Cleanup
  BY <1>7
     DEF PromotionSteps, Cleanup, PromoteApply, PromotePublish, ExactPatch, RemoveWorktree,
         CleanupPublish, Publish, At, IInv, CommandMemory
<1>8. CASE Environment \/ UNCHANGED vars
  BY <1>8 DEF Environment, Crash, PartialApply, EditTarget, vars
<1>9. QED
  BY <1>1, <1>2, <1>3, <1>4, <1>5, <1>6, <1>7, <1>8 DEF Next, Progress

\* No command takes a verdict back: from EvalPassed the only way on is Promoted,
\* with the patch in the target; from Promoted there is none.
THEOREM PassedStays == Spec => PassedIsImmutable
<1>1. IInv /\ [Next]_vars => [Immutable]_vars
  BY PassedKept
<1>2. QED
  BY <1>1, IInvHolds, PTL DEF Spec, PassedIsImmutable, Immutable

-----------------------------------------------------------------------------
(***************************************************************************)
(* The audit log of a run, what follows from a verdict, and how a failure  *)
(* is reopened, for every value of the constants.  AuditLog is disturbed   *)
(* by four kinds of steps: the publication of a source, of a decision, of  *)
(* the run a recovery leads to, and of an intent; every other step keeps   *)
(* the files it speaks of (FilesKept).                                     *)
(***************************************************************************)

LEMMA InitAudit == Init => AuditInv
<1> SUFFICES ASSUME Init PROVE AuditInv
  OBVIOUS
<1>1. IInv
  BY InitIInv
<1> USE DEF Init
<1>2. run.recovery = 0 /\ run.candidate = "Active" /\ cmd.name = "none"
  BY IdleTyped DEF FirstRun
<1>3. RecoveryLog /\ AttemptAuthority
  BY <1>2 DEF RecoveryLog, Namespace, Recoveries, AttemptAuthority, Occupied
<1>4. RecoveryMemory /\ SourceMemory
  BY <1>2 DEF RecoveryMemory, SourceMemory, Kinds
<1>5. PromotionBound /\ CleanupCloses
  BY <1>2 DEF PromotionBound, CleanupCloses
<1>6. QED
  BY <1>1, <1>3, <1>4, <1>5 DEF AuditInv, AuditLog

\* Facts about the recovery in progress, and where the latest one stands.
LEMMA Latest ==
  ASSUME AuditInv
  PROVE  /\ run \in Run /\ run.recovery \in 0 .. MaxRecoveries /\ MaxRecoveries \in Nat
         /\ \A i \in 1 .. run.recovery :
              /\ i \in Recoveries /\ source[i] # None /\ decision[i] # None
              /\ source[i].kind = decision[i].kind
         /\ cmd.name \in Kinds => cmd.recovery \in Recoveries /\ cmd.recovery = run.recovery + 1
<1>1. run \in Run /\ run.recovery \in 0 .. MaxRecoveries /\ MaxRecoveries \in Nat
  BY BoundsAssumption DEF AuditInv, IInv, TypeOK, Run
<1>2. ASSUME NEW i \in 1 .. run.recovery
      PROVE  /\ i \in Recoveries /\ source[i] # None /\ decision[i] # None
             /\ source[i].kind = decision[i].kind
  BY <1>1, <1>2 DEF AuditInv, AuditLog, RecoveryLog, Namespace, Recoveries
<1>3. cmd.name \in Kinds => cmd.recovery \in Recoveries /\ cmd.recovery = run.recovery + 1
  BY DEF AuditInv, AuditLog, RecoveryMemory, IInv, CommandMemory, Kinds
<1>4. QED
  BY <1>1, <1>2, <1>3

-----------------------------------------------------------------------------
(* The audit log.                                                          *)

\* What a step that writes no recovery file may do to the memory of the command.
Keeps ==
  \/ cmd'.name \in {"none", "promote"}
  \/ cmd'.name = "cleanup" /\ run'.candidate # "Active"
  \/ /\ cmd'.name = cmd.name /\ cmd'.recovery = cmd.recovery /\ cmd'.base = cmd.base
     /\ cmd'.attempt = cmd.attempt /\ run'.candidate = run.candidate
     /\ cmd'.at = cmd.at \/ cmd.at = "report" \/ cmd.name \notin Kinds

LEMMA FilesKept ==
  ASSUME AuditInv, Keeps, UNCHANGED <<source, decision, intent, testing>>,
         run'.recovery = run.recovery
  PROVE  AuditLog'
<1> USE DEF AuditInv, AuditLog
<1>1. RecoveryLog'
  BY DEF RecoveryLog, Namespace
<1>2. RecoveryMemory'
  BY DEF Keeps, RecoveryMemory, Kinds
<1>3. SourceMemory'
  BY DEF Keeps, SourceMemory, Discarded, Occupied
<1>4. AttemptAuthority'
  BY DEF AttemptAuthority, AuthorizedBy, Occupied
<1>5. QED
  BY <1>1, <1>2, <1>3, <1>4

\* The next source, of a kind that an orphaned decision under the same id shares.
LEMMA SourcePublished ==
  ASSUME AuditInv, NEW i \in Recoveries, NEW s \in Source,
         i = run.recovery + 1, source' = [source EXCEPT ![i] = s],
         decision[i] # None => decision[i].kind = s.kind,
         s.run.candidate = "Active", s.approved.candidate = "Active",
         s.kind = "invalidate" => Discarded(s.attempt)',
         UNCHANGED <<run, decision, intent, testing>>,
         cmd'.name = s.kind, cmd'.at = "decision", cmd'.recovery = i, cmd'.base.candidate = "Active",
         s.kind = "invalidate" => cmd'.attempt = s.attempt
  PROVE  AuditLog'
<1> USE DEF AuditInv, AuditLog
<1>1. /\ source'[i] = s /\ \A j \in Recoveries : j # i => source'[j] = source[j]
      /\ s # None /\ s.kind \in Kinds
  BY NoneApart DEF IInv, TypeOK, Source
<1>2. RecoveryLog'
  BY <1>1, Latest DEF RecoveryLog, Namespace
<1>3. RecoveryMemory'
  BY <1>1 DEF RecoveryMemory, Kinds
<1>4. SourceMemory'
  BY <1>1 DEF SourceMemory, Discarded, Occupied, Kinds
<1>5. AttemptAuthority'
  BY <1>1, Latest DEF AttemptAuthority, AuthorizedBy, Occupied
<1>6. QED
  BY <1>2, <1>3, <1>4, <1>5

\* The decision of the recovery in progress.
LEMMA DecisionPublished ==
  ASSUME AuditInv, cmd.name \in Kinds, NEW d \in Decision, d.kind = cmd.name,
         decision' = [decision EXCEPT ![cmd.recovery] = d],
         UNCHANGED <<run, source, intent, testing>>, NEW at, GoTo(at)
  PROVE  AuditLog'
<1> USE DEF AuditInv, AuditLog
<1> DEFINE i == cmd.recovery
<1>1. /\ i \in Recoveries /\ i = run.recovery + 1 /\ source[i] # None
      /\ source[i].kind = cmd.name
  BY Latest DEF RecoveryMemory, IInv, CommandMemory, Kinds
<1>2. /\ decision'[i] = d /\ \A j \in Recoveries : j # i => decision'[j] = decision[j]
      /\ d # None
  BY <1>1, NoneApart DEF IInv, TypeOK
<1>3. /\ cmd'.name = cmd.name /\ cmd'.recovery = i /\ cmd'.base = cmd.base
      /\ cmd'.attempt = cmd.attempt
  BY DEF GoTo, IInv, TypeOK, Command
<1>4. RecoveryLog'
  BY <1>1, <1>2, Latest DEF RecoveryLog, Namespace
<1>5. RecoveryMemory'
  BY <1>1, <1>2, <1>3 DEF RecoveryMemory, Kinds
<1>6. SourceMemory'
  BY <1>3 DEF SourceMemory, Discarded, Occupied
<1>7. AttemptAuthority'
  BY <1>1, <1>2, Latest DEF AttemptAuthority, AuthorizedBy, Occupied
<1>8. QED
  BY <1>4, <1>5, <1>6, <1>7

\* run.json comes to name the recovery in progress.
LEMMA RecoveryPublished ==
  ASSUME AuditInv, cmd.name \in Kinds, cmd.at = "publish", cmd' = Idle,
         run'.recovery = cmd.recovery, UNCHANGED <<source, decision, intent, testing>>
  PROVE  AuditLog'
<1> USE DEF AuditInv, AuditLog
<1>1. /\ cmd.recovery \in Recoveries /\ cmd.recovery = run.recovery + 1
      /\ source[cmd.recovery] # None /\ decision[cmd.recovery] # None
  BY Latest DEF RecoveryMemory, IInv, CommandMemory, Kinds
<1>2. RecoveryLog'
  BY <1>1, Latest DEF RecoveryLog, Namespace, Recoveries
<1>3. RecoveryMemory' /\ SourceMemory'
  BY IdleTyped DEF RecoveryMemory, SourceMemory, Discarded, Occupied, Kinds
<1>4. AttemptAuthority'
  BY <1>1, Latest DEF AttemptAuthority, AuthorizedBy, Occupied
<1>5. QED
  BY <1>2, <1>3, <1>4

-----------------------------------------------------------------------------
(* Recoveries.                                                             *)

\* What Begin leaves in the memory of a command.
LEMMA BegunFields ==
  ASSUME NEW name, NEW at, NEW who, NEW a, NEW i, Begin(name, at, who, a, i)
  PROVE  /\ cmd'.name = name /\ cmd'.at = at /\ cmd'.base = run
         /\ cmd'.attempt = a /\ cmd'.recovery = i
  BY DEF Begin

LEMMA ReviseSourceLog ==
  ASSUME AuditInv, NEW op \in Operators, ReviseSource(op)
  PROVE  AuditLog' /\ run.candidate = "Active"
<1> DEFINE i == run.recovery + 1
           s == RevisionSource(i)
<1>1. /\ i \in Recoveries /\ run \in Run /\ run.candidate = "Active"
      /\ decision[i] # None => decision[i] = RevisionDecision(op)
      /\ source' = [source EXCEPT ![i] = s]
      /\ Begin("revise", "decision", op, 0, i)
      /\ UNCHANGED <<run, decision, intent, testing>>
  BY Latest DEF ReviseSource, RevisionEligible, MayCreate, evidence, Recoveries
<1>2. /\ s \in Source /\ s.kind = "revise"
      /\ s.run.candidate = "Active" /\ s.approved.candidate = "Active"
  BY <1>1, BoundsAssumption DEF RevisionSource, Source, Kinds
<1>3. decision[i] # None => decision[i].kind = "revise"
  BY <1>1 DEF RevisionDecision
<1>4. /\ cmd'.name = "revise" /\ cmd'.at = "decision" /\ cmd'.base = run
      /\ cmd'.recovery = i
  BY <1>1, BegunFields
<1> HIDE DEF s
<1>5. QED
  BY <1>1, <1>2, <1>3, <1>4, SourcePublished

LEMMA AdoptSourceLog ==
  ASSUME AuditInv, NEW op \in Operators, NEW a \in Attempts, AdoptSource(op, a)
  PROVE  AuditLog' /\ run.candidate = "Active"
<1> DEFINE i == run.recovery + 1
           s == AdoptionSource(op, a, VerifiesReport(a, i))
<1>1. /\ i \in Recoveries /\ run \in Run /\ run.candidate = "Active"
      /\ decision[i] # None => decision[i] = AdoptionDecision(op, a)
      /\ source' = [source EXCEPT ![i] = s]
      /\ Begin("adopt", "decision", op, a, i)
      /\ UNCHANGED <<run, decision, intent, testing>>
  BY Latest DEF AdoptSource, CanAdopt, AdoptableRun, MayCreate, evidence, Recoveries
<1>2. VerifiesReport(a, i) \in BOOLEAN
  BY <1>1 DEF VerifiesReport, AuditInv, IInv, TypeOK, Source
<1>3. /\ s \in Source /\ s.kind = "adopt"
      /\ s.run.candidate = "Active" /\ s.approved.candidate = "Active"
  BY <1>1, <1>2, BoundsAssumption DEF AdoptionSource, Source, Kinds, Attempts
<1>4. decision[i] # None => decision[i].kind = "adopt"
  BY <1>1 DEF AdoptionDecision
<1>5. /\ cmd'.name = "adopt" /\ cmd'.at = "decision" /\ cmd'.base = run
      /\ cmd'.recovery = i
  BY <1>1, BegunFields
<1> HIDE DEF s
<1>6. QED
  BY <1>1, <1>3, <1>4, <1>5, SourcePublished

\* The Approved run behind a failure still had its candidate.
LEMMA ObservedIsActive ==
  ASSUME AuditInv, run.candidate = "Active"
  PROVE  ObservedApproved.candidate = "Active"
<1>1. CASE run.recovery # 0 /\ decision[run.recovery].kind = "adopt"
  <2>1. run.recovery \in 1 .. run.recovery
    BY <1>1, Latest
  <2>2. source[run.recovery].run.candidate = "Active"
    BY <2>1, Latest DEF AuditInv, AuditLog, SourceMemory
  <2>3. QED
    BY <1>1, <2>2 DEF ObservedApproved, ApprovedRunOf
<1>2. CASE ~(run.recovery # 0 /\ decision[run.recovery].kind = "adopt")
  <2>1. run \in Run
    BY Latest
  <2>2. QED
    BY <1>2, <2>1 DEF ObservedApproved, ApprovedRunOf, Run
<1>3. QED
  BY <1>1, <1>2

\* An invalidation is of a prefix without Testing evidence, or of a failure.
LEMMA InvalidationDiscards ==
  ASSUME AuditInv, NEW op \in Operators, NEW a \in Attempts, CanInvalidate(op, a)
  PROVE  Occupied(a) /\ (testing[a] # None => \E c \in Checks : ~testing[a][c])
<1>1. IsLatest(a) /\ Occupied(a)
  BY DEF CanInvalidate, InvalidatablePrefix, IsLatest
<1>2. CASE run.status = "Approved"
  BY <1>1, <1>2 DEF CanInvalidate, InvalidatablePrefix
<1>3. CASE run.status = "Failed"
  <2>1. PICK b \in Attempts : IsLatest(b) /\ ~Passed(b)
    BY <1>3 DEF CanInvalidate, InvalidatableRun, FinalAuthority
  <2>2. a = b
    BY <1>1, <2>1 DEF IsLatest, Attempts
  <2>3. QED
    BY <1>1, <2>1, <2>2 DEF Passed
<1>4. QED
  BY <1>2, <1>3 DEF CanInvalidate, InvalidatableRun

LEMMA InvalidateSourceLog ==
  ASSUME AuditInv, NEW op \in Operators, NEW a \in Attempts, InvalidateSource(op, a)
  PROVE  AuditLog' /\ run.candidate = "Active"
<1> DEFINE i == run.recovery + 1
           s == InvalidationSource(op, a)
<1>1. /\ i \in Recoveries /\ run \in Run /\ run.candidate = "Active"
      /\ decision[i] # None => decision[i] = InvalidationDecision(op, a)
      /\ source' = [source EXCEPT ![i] = s]
      /\ Begin("invalidate", "decision", op, a, i)
      /\ UNCHANGED <<run, decision, intent, testing>>
  BY Latest DEF InvalidateSource, CanInvalidate, InvalidatableRun, MayCreate, evidence,
                Recoveries
<1>2. ObservedApproved.candidate = "Active" /\ ObservedApproved \in Run
  <2>1. FinalStatus(run) \/ run.status = "Approved"
    BY DEF InvalidateSource, CanInvalidate, InvalidatableRun, FinalStatus
  <2>2. QED
    BY <1>1, <2>1, ObservedIsActive, ObservedApprovedTyped
       DEF AuditInv, InvalidateSource, CanInvalidate, InvalidatablePrefix, InvalidatableRun
<1>3. /\ s \in Source /\ s.kind = "invalidate" /\ s.attempt = a
      /\ s.run.candidate = "Active" /\ s.approved.candidate = "Active"
  BY <1>1, <1>2, BoundsAssumption
     DEF InvalidationSource, Source, Kinds, Attempts, AuditInv, IInv, TypeOK
<1>4. decision[i] # None => decision[i].kind = "invalidate"
  BY <1>1 DEF InvalidationDecision
<1>5. /\ cmd'.name = "invalidate" /\ cmd'.at = "decision" /\ cmd'.base = run
      /\ cmd'.recovery = i /\ cmd'.attempt = a
  BY <1>1, BegunFields
<1>6. Discarded(a)'
  BY <1>1, <1>5, InvalidationDiscards DEF InvalidateSource, Discarded, Occupied
<1> HIDE DEF s
<1>7. QED
  BY <1>1, <1>3, <1>4, <1>5, <1>6, SourcePublished

LEMMA DecisionsLog ==
  ASSUME AuditInv, ReviseDecision \/ AdoptDecision \/ InvalidateDecision PROVE AuditLog'
<1>0. IInv
  BY DEF AuditInv
<1>1. CASE ReviseDecision
  <2>1. RevisionDecision(cmd.who).kind = "revise"
    BY DEF RevisionDecision
  <2>2. QED
    BY <1>0, <1>1, <2>1, DecisionTyped, DecisionPublished DEF ReviseDecision, At, evidence, Kinds
<1>2. CASE AdoptDecision
  <2>1. AdoptionDecision(cmd.who, cmd.attempt).kind = "adopt"
    BY DEF AdoptionDecision
  <2>2. QED
    BY <1>0, <1>2, <2>1, DecisionTyped, DecisionPublished DEF AdoptDecision, At, evidence, Kinds
<1>3. CASE InvalidateDecision
  <2>1. InvalidationDecision(cmd.who, cmd.attempt).kind = "invalidate"
    BY DEF InvalidationDecision
  <2>2. QED
    BY <1>0, <1>3, <2>1, DecisionTyped, DecisionPublished
       DEF InvalidateDecision, At, evidence, Kinds
<1>4. QED
  BY <1>1, <1>2, <1>3

\* The run a recovery leads to still has its candidate.
LEMMA PublishesLog ==
  ASSUME AuditInv, RevisePublish \/ AdoptPublish \/ InvalidatePublish
  PROVE  /\ AuditLog' /\ run.candidate = "Active" /\ run'.candidate = "Active"
         /\ worktree' = worktree
<1>1. /\ cmd.name \in Kinds /\ cmd.at = "publish" /\ cmd' = Idle /\ run = cmd.base
      /\ UNCHANGED <<source, decision, intent, testing, worktree>>
  BY DEF RevisePublish, AdoptPublish, InvalidatePublish, At, Finish, Publish, Kinds,
         evidence, recoveryFiles
<1>2. run.candidate = "Active" /\ run \in Run
  BY <1>1, Latest DEF AuditInv, AuditLog, RecoveryMemory
<1>3. run'.recovery = cmd.recovery /\ run'.candidate = "Active"
  <2>1. CASE RevisePublish
    BY <1>1, <1>2, <2>1 DEF RevisePublish, Publish, RevisionReset, Run
  <2>2. CASE AdoptPublish
    BY <1>1, <1>2, <2>2 DEF AdoptPublish, Publish, Decided, Run
  <2>3. CASE InvalidatePublish
    <3> DEFINE approved == source[cmd.recovery].approved
    <3>1. approved \in Run /\ approved.candidate = "Active"
      BY <1>1, Latest
         DEF AuditInv, AuditLog, SourceMemory, IInv, TypeOK, CommandMemory, Kinds, Source
    <3>2. run' = InvalidationReset(approved, cmd.recovery)
      BY <2>3 DEF InvalidatePublish, Publish
    <3> HIDE DEF approved
    <3>3. QED
      BY <3>1, <3>2 DEF InvalidationReset, Run
  <2>4. QED
    BY <2>1, <2>2, <2>3
<1>4. QED
  BY <1>1, <1>2, <1>3, RecoveryPublished

-----------------------------------------------------------------------------
(* Attempts.                                                               *)

LEMMA IntentPublished ==
  ASSUME AuditInv, NEW a \in Attempts, NEW i \in 0 .. MaxRecoveries, PublishIntent(a, i),
         a > 1 => AuthorizedBy(a, i)
  PROVE  AuditLog'
<1> USE DEF AuditInv, AuditLog
<1>1. /\ UNCHANGED <<run, source, decision, testing>> /\ ~Occupied(a)
      /\ cmd'.name = "evaluate" /\ cmd'.attempt = a
  BY BegunFields DEF PublishIntent, IsFresh, recoveryFiles, Attempts
<1>2. /\ intent'[a] = [run |-> run, recovery |-> i]
      /\ \A b \in Attempts : b # a => intent'[b] = intent[b]
  BY DEF PublishIntent, IInv, TypeOK
<1>3. RecoveryLog' /\ RecoveryMemory'
  BY <1>1 DEF RecoveryLog, RecoveryMemory, Namespace, Kinds
<1>4. SourceMemory'
  BY <1>1, <1>2 DEF SourceMemory, Discarded, Occupied
<1>5. AttemptAuthority'
  BY <1>1, <1>2 DEF AttemptAuthority, AuthorizedBy, Occupied
<1>6. QED
  BY <1>3, <1>4, <1>5

\* The attempt a rerun starts is the one after what its invalidation discarded.
LEMMA RerunAuthorized ==
  ASSUME AuditInv, Rerun
  PROVE  AuthorizedBy(decision[run.recovery].next, run.recovery)
<1> DEFINE i == run.recovery
           a == decision[i].next
           discarded == source[i].attempt
<1>1. i \in 1 .. run.recovery /\ decision[i].kind = "invalidate"
  BY Latest DEF Rerun, RequestedInvalidation
<1>2. discarded \in Attempts /\ IsLatest(discarded)
  BY <1>1, Latest DEF Rerun, RequestedInvalidation, AuditInv, AuditLog, SourceMemory, Discarded
<1>3. a \in Attempts /\ IsFresh(a)
  BY DEF Rerun, PublishIntent
<1> HIDE DEF a, discarded
<1>4. discarded < a
  BY <1>2, <1>3 DEF IsLatest, IsFresh
<1>5. ~(discarded + 1 < a)
  <2>1. SUFFICES ASSUME discarded + 1 < a PROVE FALSE
    OBVIOUS
  <2>2. discarded + 1 \in Attempts
    BY <1>2, <1>3, <2>1, BoundsAssumption DEF Attempts
  <2>3. Occupied(discarded + 1)
    BY <1>3, <2>1, <2>2 DEF IsFresh
  <2>4. QED
    BY <1>2, <2>2, <2>3, BoundsAssumption DEF IsLatest, Attempts
<1>6. discarded = a - 1
  BY <1>2, <1>3, <1>4, <1>5, BoundsAssumption DEF Attempts
<1>7. QED
  BY <1>1, <1>6 DEF AuthorizedBy, a, discarded

LEMMA ResumeLog ==
  ASSUME AuditInv, Resume PROVE AuditLog'
<1>1. CASE Evaluate
  <2>1. 1 \in Attempts /\ 0 \in 0 .. MaxRecoveries
    BY BoundsAssumption DEF Attempts
  <2>2. QED
    BY <1>1, <2>1, IntentPublished DEF Evaluate
<1>2. CASE Rerun
  <2>1. /\ PublishIntent(decision[run.recovery].next, run.recovery)
        /\ decision[run.recovery].next \in Attempts
    BY <1>2 DEF Rerun, PublishIntent
  <2>2. QED
    BY <1>2, <2>1, Latest, RerunAuthorized, IntentPublished
<1>3. QED
  BY <1>1, <1>2 DEF Resume

\* Testing evidence is published by the process that evaluates the attempt.
LEMMA PublishTestingLog ==
  ASSUME AuditInv, PublishTesting PROVE AuditLog'
<1> USE DEF AuditInv, AuditLog
<1>1. /\ cmd.name = "evaluate" /\ cmd'.name = "evaluate" /\ cmd'.attempt = cmd.attempt
      /\ UNCHANGED <<run, source, decision, intent>>
  BY DEF PublishTesting, At, GoTo, recoveryFiles, IInv, TypeOK, Command
<1>2. \A b \in Attempts : b # cmd.attempt => testing'[b] = testing[b]
  BY DEF PublishTesting, IInv, TypeOK
<1>3. RecoveryLog' /\ RecoveryMemory'
  BY <1>1 DEF RecoveryLog, RecoveryMemory, Namespace, Kinds
<1>4. SourceMemory'
  BY <1>1, <1>2 DEF SourceMemory, Discarded, Occupied
<1>5. AttemptAuthority'
  BY <1>1 DEF AttemptAuthority, AuthorizedBy, Occupied
<1>6. QED
  BY <1>3, <1>4, <1>5

-----------------------------------------------------------------------------
(* Everything else keeps the log.                                          *)

LEMMA ProviderLog ==
  ASSUME AuditInv, ProviderLoop \/ \E op \in Operators : Approve(op)
  PROVE  /\ AuditLog' /\ run.candidate = "Active" /\ run'.candidate = "Active"
         /\ worktree' = worktree
<1>1. run \in Run
  BY Latest
<1>2. /\ run'.recovery = run.recovery /\ run'.candidate = run.candidate
      /\ run.status \in {"Pending", "Running", "AwaitingHumanReview"}
      /\ cmd' = cmd /\ UNCHANGED <<source, decision, intent, testing, worktree>>
  BY <1>1 DEF ProviderLoop, ReviewRequest, ReviewOutcome, Approve, Publish, Run, evidence,
              recoveryFiles
<1>3. Keeps
  BY <1>2 DEF Keeps
<1>4. run.candidate = "Active"
  BY <1>2 DEF AuditInv, CleanupCloses
<1>5. QED
  BY <1>2, <1>3, <1>4, FilesKept

LEMMA EvaluationLog ==
  ASSUME AuditInv, Evaluation \/ AdoptReport PROVE AuditLog'
<1>1. CASE PublishTesting
  BY <1>1, PublishTestingLog
<1>2. CASE Spawn(TRUE) \/ Spawn(FALSE)
  <2>1. /\ cmd'.name = cmd.name /\ cmd'.recovery = cmd.recovery /\ cmd'.base = cmd.base
        /\ cmd'.attempt = cmd.attempt /\ cmd.name = "evaluate"
        /\ UNCHANGED <<run, source, decision, intent, testing>>
    BY <1>2 DEF Spawn, At, evidence, recoveryFiles, AuditInv, IInv, TypeOK, Command
  <2>2. QED
    BY <2>1, FilesKept DEF Keeps, Kinds
<1>3. CASE PublishStdout \/ PublishStderr \/ PublishReport \/ AdoptReport
  <2>1. /\ cmd'.name = cmd.name /\ cmd'.recovery = cmd.recovery /\ cmd'.base = cmd.base
        /\ cmd'.attempt = cmd.attempt
        /\ cmd.name = "evaluate" \/ cmd.at = "report"
        /\ UNCHANGED <<run, source, decision, intent, testing>>
    BY <1>3 DEF PublishStdout, PublishStderr, PublishLog, PublishReport, AdoptReport, GoTo, At,
                recoveryFiles, AuditInv, IInv, TypeOK, Command
  <2>2. QED
    BY <2>1, FilesKept DEF Keeps, Kinds
<1>4. CASE EvaluatePublish
  <2>1. /\ run \in Run /\ run = cmd.base /\ cmd' = Idle
        /\ run' = Decided(run, cmd.attempt, run.recovery)
        /\ UNCHANGED <<source, decision, intent, testing>>
    BY <1>4, Latest DEF EvaluatePublish, Publish, Finish, evidence, recoveryFiles
  <2>2. run'.recovery = run.recovery
    BY <2>1 DEF Decided, Run
  <2>3. QED
    BY <2>1, <2>2, FilesKept, IdleTyped DEF Keeps
<1>5. QED
  BY <1>1, <1>2, <1>3, <1>4 DEF Evaluation

LEMMA PromotionLog ==
  ASSUME AuditInv, PromotionSteps \/ \E op \in Operators : PromoteIntent(op) PROVE AuditLog'
<1>1. CASE \E op \in Operators : PromoteIntent(op)
  BY <1>1, BegunFields, FilesKept DEF PromoteIntent, Keeps, evidence, recoveryFiles
<1>2. CASE PromoteApply
  <2>1. /\ cmd'.name = "promote" /\ UNCHANGED <<run, source, decision, intent, testing>>
    BY <1>2 DEF PromoteApply, GoTo, At, evidence, recoveryFiles, AuditInv, IInv, TypeOK, Command
  <2>2. QED
    BY <2>1, FilesKept DEF Keeps
<1>3. CASE PromotePublish
  <2>1. /\ run \in Run /\ run' = [run EXCEPT !.status = "Promoted"] /\ cmd' = Idle
        /\ UNCHANGED <<source, decision, intent, testing>>
    BY <1>3, Latest DEF PromotePublish, Publish, Finish, evidence, recoveryFiles
  <2>2. QED
    BY <2>1, FilesKept, IdleTyped DEF Keeps, Run
<1>4. QED
  BY <1>1, <1>2, <1>3 DEF PromotionSteps

LEMMA CleanupLog ==
  ASSUME AuditInv, StartCleanup \/ Cleanup PROVE AuditLog'
<1>0. run \in Run
  BY Latest
<1>1. CASE CleanupStart
  <2>1. /\ run' = [run EXCEPT !.candidate = "Cleaning"]
        /\ cmd' = [Idle EXCEPT !.name = "cleanup", !.at = "remove", !.base = run']
        /\ UNCHANGED <<source, decision, intent, testing>>
    BY <1>1 DEF CleanupStart, Publish, evidence, recoveryFiles
  <2>2. cmd'.name = "cleanup"
    BY <2>1, IdleTyped DEF Command
  <2>3. QED
    BY <1>0, <2>1, <2>2, FilesKept DEF Keeps, Run
<1>2. CASE CleanupResume
  BY <1>2, BegunFields, FilesKept DEF CleanupResume, Keeps, evidence, recoveryFiles
<1>3. CASE RemoveWorktree
  <2>1. /\ cmd.name = "cleanup" /\ cmd'.name = "cleanup" /\ cmd'.base = cmd.base
        /\ UNCHANGED <<run, source, decision, intent, testing>>
    BY <1>3 DEF RemoveWorktree, GoTo, At, evidence, recoveryFiles, AuditInv, IInv, TypeOK, Command
  <2>2. run.candidate # "Active"
    BY <2>1 DEF AuditInv, AuditLog, RecoveryMemory
  <2>3. QED
    BY <2>1, <2>2, FilesKept DEF Keeps
<1>4. CASE CleanupPublish
  <2>1. /\ run' = [run EXCEPT !.candidate = "Cleaned"] /\ cmd' = Idle
        /\ UNCHANGED <<source, decision, intent, testing>>
    BY <1>4 DEF CleanupPublish, Publish, Finish, evidence, recoveryFiles
  <2>2. QED
    BY <1>0, <2>1, FilesKept, IdleTyped DEF Keeps, Run
<1>5. QED
  BY <1>1, <1>2, <1>3, <1>4 DEF StartCleanup, Cleanup

LEMMA EnvironmentLog ==
  ASSUME AuditInv, Environment \/ UNCHANGED vars PROVE AuditLog'
<1>1. UNCHANGED <<run, source, decision, intent, testing>> /\ cmd' \in {cmd, Idle}
  BY DEF Environment, Crash, PartialApply, EditTarget, vars, evidence, recoveryFiles
<1>2. QED
  BY <1>1, FilesKept, IdleTyped DEF Keeps

LEMMA AuditLogKept ==
  ASSUME AuditInv, [Next]_vars PROVE AuditLog'
<1>1. CASE ProviderLoop
  BY <1>1, ProviderLog
<1>2. ASSUME NEW op \in Operators, Issue(op) PROVE AuditLog'
  BY <1>2, ProviderLog, ReviseSourceLog, AdoptSourceLog, InvalidateSourceLog, PromotionLog
     DEF Issue
<1>3. CASE Resume
  BY <1>3, ResumeLog
<1>4. CASE StartCleanup
  BY <1>4, CleanupLog
<1>5. CASE Progress
  BY <1>5, DecisionsLog, PublishesLog, EvaluationLog, PromotionLog, CleanupLog
     DEF Progress, Revision, Adoption, Invalidation
<1>6. CASE Environment \/ UNCHANGED vars
  BY <1>6, EnvironmentLog
<1>7. QED
  BY <1>1, <1>2, <1>3, <1>4, <1>5, <1>6 DEF Next

-----------------------------------------------------------------------------
(* The verdict and the candidate.                                          *)

LEMMA PromotionStaysBound ==
  ASSUME AuditInv, [Next]_vars PROVE PromotionBound'
<1> USE DEF AuditInv
<1>1. /\ promotion' = promotion \/ \E op \in Operators : PromoteIntent(op)
      /\ target' # "patched" \/ target' = target \/ PromoteApply
  <2> USE DEF promotionState
  <2>1. CASE ProviderLoop \/ Resume \/ StartCleanup
    BY <2>1 DEF ProviderLoop, ReviewRequest, ReviewOutcome, Resume, Evaluate, Rerun,
                PublishIntent, StartCleanup, CleanupStart, CleanupResume
  <2>2. ASSUME NEW op \in Operators, Issue(op)
        PROVE  /\ promotion' = promotion \/ PromoteIntent(op)
               /\ target' = target
    BY <2>2 DEF Issue, Approve, ReviseSource, AdoptSource, InvalidateSource, PromoteIntent
  <2>3. CASE Revision \/ Adoption \/ Invalidation
    BY <2>3 DEF Revision, ReviseDecision, RevisePublish, Adoption, AdoptDecision, AdoptReport,
                AdoptPublish, Invalidation, InvalidateDecision, InvalidatePublish
  <2>4. CASE Evaluation
    BY <2>4 DEF Evaluation, Spawn, PublishStdout, PublishStderr, PublishLog, PublishTesting,
                PublishReport, EvaluatePublish
  <2>5. CASE PromotionSteps \/ Cleanup
    BY <2>5 DEF PromotionSteps, PromoteApply, PromotePublish, Cleanup, RemoveWorktree,
                CleanupPublish
  <2>6. CASE Environment \/ UNCHANGED vars
    BY <2>6 DEF Environment, Crash, PartialApply, EditTarget, vars
  <2>7. QED
    BY <2>1, <2>2, <2>3, <2>4, <2>5, <2>6 DEF Next, Progress
<1>2. CASE \E op \in Operators : PromoteIntent(op)
  <2>1. PICK op \in Operators : PromoteIntent(op)
    BY <1>2
  <2>2. /\ promotion' = [who |-> op, run |-> run] /\ run.status = "EvalPassed"
        /\ run' = run /\ promotion' # None
    BY <2>1, NoneApart DEF PromoteIntent, Promotion, IInv, TypeOK
  <2>3. QED
    BY <2>2 DEF PromotionBound
<1>3. CASE promotion' = promotion
  <2>1. promotion # None =>
          /\ promotion.run.status = "EvalPassed"
          /\ run' \in {promotion.run, [promotion.run EXCEPT !.status = "Promoted"]}
    <3>1. SUFFICES ASSUME promotion # None
                   PROVE  /\ promotion.run.status = "EvalPassed"
                          /\ run' \in {promotion.run, [promotion.run EXCEPT !.status = "Promoted"]}
      OBVIOUS
    <3>2. promotion.run \in Run /\ Immutable
      BY <3>1, PassedKept DEF IInv, TypeOK, Promotion
    <3>3. CASE run = promotion.run
      BY <3>1, <3>2, <3>3 DEF PromotionBound, Immutable
    <3>4. CASE run = [promotion.run EXCEPT !.status = "Promoted"]
      BY <3>1, <3>2, <3>4 DEF PromotionBound, Immutable, Run
    <3>5. QED
      BY <3>1, <3>3, <3>4 DEF PromotionBound
  <2>2. PromoteApply => promotion # None
    BY NoneApart DEF PromoteApply, ExactIntent, At, IInv, CommandMemory, TypeOK, Command, Promotion
  <2>3. QED
    BY <1>1, <1>3, <2>1, <2>2 DEF PromotionBound
<1>4. QED
  BY <1>1, <1>2, <1>3

\* While the run has its candidate, nothing of CleanupCloses is at stake.
LEMMA ActiveCloses ==
  ASSUME AuditInv, run.candidate = "Active", run'.candidate = "Active", worktree' = worktree
  PROVE  CleanupCloses'
  BY DEF AuditInv, CleanupCloses

LEMMA CleanupStaysClosed ==
  ASSUME AuditInv, [Next]_vars PROVE CleanupCloses'
<1> USE DEF AuditInv
<1>0. run \in Run
  BY Latest
<1>1. CASE UNCHANGED <<run, source, worktree>>
  BY <1>1 DEF CleanupCloses
<1>2. CASE ProviderLoop \/ \E op \in Operators : Approve(op)
  BY <1>2, ProviderLog, ActiveCloses
<1>3. ASSUME NEW op \in Operators,
             \/ ReviseSource(op)
             \/ \E a \in Attempts : AdoptSource(op, a) \/ InvalidateSource(op, a)
      PROVE  CleanupCloses'
  <2>1. run.candidate = "Active" /\ UNCHANGED <<run, worktree>>
    BY <1>3, ReviseSourceLog, AdoptSourceLog, InvalidateSourceLog
       DEF ReviseSource, AdoptSource, InvalidateSource
  <2>2. QED
    BY <2>1, ActiveCloses
<1>4. CASE RevisePublish \/ AdoptPublish \/ InvalidatePublish
  BY <1>4, PublishesLog, ActiveCloses
<1>5. CASE EvaluatePublish \/ PromotePublish
  <2>1. run.status \in {"Approved", "EvalPassed"} /\ worktree' = worktree
    BY <1>5 DEF EvaluatePublish, PromotePublish, Publish, At, IInv, CommandMemory
  <2>2. run.candidate = "Active"
    BY <2>1 DEF CleanupCloses
  <2>3. run'.candidate = run.candidate
    BY <1>0, <1>5 DEF EvaluatePublish, PromotePublish, Publish, Decided, Run
  <2>4. QED
    BY <2>1, <2>2, <2>3, ActiveCloses
<1>6. CASE CleanupStart
  <2>1. /\ run.status \in {"Blocked", "Failed"} /\ worktree
        /\ run' = [run EXCEPT !.candidate = "Cleaning"] /\ StorageAdmits(run')
        /\ UNCHANGED <<source, worktree>>
    BY <1>6 DEF CleanupStart, CleanupAdmitted, Publish, recoveryFiles
  <2>2. /\ run'.status = run.status /\ run'.recovery = run.recovery
        /\ run'.candidate = "Cleaning"
    BY <1>0, <2>1 DEF Run
  <2>3. ASSUME NEW i \in Recoveries, i = run.recovery + 1, source[i] # None
        PROVE  source[i].kind = "revise"
    <3>1. source[i].run # run'
      BY <2>2, <2>3 DEF AuditLog, SourceMemory
    <3>2. QED
      BY <2>1, <2>2, <2>3, <3>1 DEF StorageAdmits
  <2>4. QED
    BY <2>1, <2>2, <2>3 DEF CleanupCloses
<1>7. CASE RemoveWorktree
  BY <1>7 DEF RemoveWorktree, At, recoveryFiles, AuditLog, RecoveryMemory, CleanupCloses
<1>8. CASE CleanupPublish
  <2>1. /\ run' = [run EXCEPT !.candidate = "Cleaned"] /\ run.candidate # "Active"
        /\ source' = source
    BY <1>8 DEF CleanupPublish, Publish, At, recoveryFiles, AuditLog, RecoveryMemory
  <2>2. /\ run'.status = run.status /\ run'.recovery = run.recovery
        /\ run'.candidate = "Cleaned"
    BY <1>0, <2>1 DEF Run
  <2>3. QED
    BY <2>1, <2>2 DEF CleanupCloses
<1>9. CASE UNCHANGED vars \/ Resume \/ Environment
  BY <1>1, <1>9 DEF vars, recoveryFiles, Resume, Evaluate, Rerun, PublishIntent, Environment,
                    Crash, PartialApply, EditTarget
<1>10. CASE \/ \E op \in Operators : PromoteIntent(op)
            \/ CleanupResume \/ PromoteApply \/ AdoptReport
            \/ ReviseDecision \/ AdoptDecision \/ InvalidateDecision
  BY <1>1, <1>10 DEF PromoteIntent, CleanupResume, PromoteApply, AdoptReport, ReviseDecision,
                     AdoptDecision, InvalidateDecision, recoveryFiles
<1>11. CASE \/ Spawn(TRUE) \/ Spawn(FALSE) \/ PublishStdout \/ PublishStderr
            \/ PublishTesting \/ PublishReport
  BY <1>1, <1>11 DEF Spawn, PublishStdout, PublishStderr, PublishLog, PublishTesting,
                     PublishReport, recoveryFiles
<1>12. QED
  BY <1>2, <1>3, <1>4, <1>5, <1>6, <1>7, <1>8, <1>9, <1>10, <1>11
     DEF Next, Issue, StartCleanup, Progress, Revision, Evaluation, Adoption, Invalidation,
         PromotionSteps, Cleanup

-----------------------------------------------------------------------------
(* The theorems.                                                           *)

\* No step breaks the audit log, the bond between verdict and promotion, or the rule
\* for the candidate.
THEOREM AuditInvInductive == AuditInv /\ [Next]_vars => AuditInv'
<1> SUFFICES ASSUME AuditInv, [Next]_vars PROVE AuditInv'
  OBVIOUS
<1>1. IInv'
  BY IInvInductive DEF AuditInv
<1>2. QED
  BY <1>1, AuditLogKept, PromotionStaysBound, CleanupStaysClosed DEF AuditInv

\* Every reachable state satisfies AuditInv.
THEOREM AuditInvHolds == Spec => []AuditInv
<1>1. Init => AuditInv
  BY InitAudit
<1>2. AuditInv /\ [Next]_vars => AuditInv'
  BY AuditInvInductive
<1>3. QED
  BY <1>1, <1>2, PTL DEF Spec

\* Whatever operators, lost processes and retries do, every attempt after the first is
\* the one an invalidation on record authorizes, of an attempt that did not pass, and
\* the recovery files form a gapless log.
THEOREM AuditHolds == Spec => []AuditedRecovery
<1>1. ASSUME AuditInv PROVE AuditedRecovery
  <2>1. RecoveryLog
    BY <1>1 DEF AuditInv, AuditLog
  <2>2. ASSUME NEW a \in Attempts, Occupied(a), a > 1
        PROVE  LET i == intent[a].recovery IN
               /\ i \in Recoveries
               /\ decision[i] # None /\ decision[i].kind = "invalidate" /\ decision[i].next = a
               /\ source[i] # None /\ source[i].attempt = a - 1
               /\ Occupied(a - 1)
               /\ testing[a - 1] # None => \E c \in Checks : ~testing[a - 1][c]
    <3> DEFINE i == intent[a].recovery
    <3>1. AuthorizedBy(a, i)
      BY <1>1, <2>2 DEF AuditInv, AuditLog, AttemptAuthority
    <3>2. /\ i \in Recoveries /\ decision[i] # None /\ source[i] # None
          /\ source[i].kind = "invalidate"
      BY <1>1, <3>1, Latest DEF AuthorizedBy
    <3>3. Discarded(a - 1)
      BY <1>1, <3>1, <3>2 DEF AuthorizedBy, AuditInv, AuditLog, SourceMemory
    <3>4. QED
      BY <3>1, <3>2, <3>3 DEF AuthorizedBy, Discarded
  <2>3. QED
    BY <2>1, <2>2 DEF AuditedRecovery, AuditedAttempts
<1>2. QED
  BY <1>1, AuditInvHolds, PTL

\* The target takes the patch only of the run a durable intent binds, and a candidate
\* is removed only when no status and no staged recovery needs it.
THEOREM CandidateHolds == Spec => []CandidateFollowsVerdict
<1>1. AuditInv => CandidateFollowsVerdict
  BY DEF AuditInv, CandidateFollowsVerdict
<1>2. QED
  BY <1>1, AuditInvHolds, PTL

\* What a step may do to a reported failure.
Reopens ==
  FinalStatus(run) /\ run.status = "Failed" /\ run' # run =>
    \/ run' \in {[run EXCEPT !.candidate = l] : l \in Lifecycles}
    \/ /\ run'.status = "Approved" /\ run'.recovery = run.recovery + 1
       /\ decision[run'.recovery] # None
       /\ decision[run'.recovery].kind = "invalidate"
       /\ source[run'.recovery].attempt = run.selected

LEMMA FailureKept == ASSUME AuditInv, [Next]_vars PROVE Reopens
<1> SUFFICES ASSUME run.status = "Failed", run.approval # None, run' # run PROVE Reopens
  BY DEF Reopens, FinalStatus
<1>1. CASE CleanupStart \/ CleanupPublish
  BY <1>1 DEF CleanupStart, CleanupPublish, Publish, Lifecycles, Reopens
<1>2. CASE InvalidatePublish
  <2> DEFINE i == cmd.recovery
  <2>1. /\ cmd.name = "invalidate" /\ cmd.name \in Kinds /\ cmd.at = "publish"
        /\ IsLatest(cmd.attempt) /\ run = cmd.base
        /\ run' = InvalidationReset(source[i].approved, i)
    BY <1>2 DEF InvalidatePublish, At, Publish, Kinds
  <2>2. /\ i \in Recoveries /\ i = run.recovery + 1 /\ decision[i] # None
        /\ source[i].kind = "invalidate" /\ source[i].attempt = cmd.attempt
    BY <2>1, Latest DEF AuditInv, AuditLog, RecoveryMemory
  <2>3. decision[i].kind = "invalidate"
    BY <2>2 DEF AuditInv, AuditLog, RecoveryLog
  <2>4. /\ source[i].approved \in Run /\ source[i].approved.status = "Approved"
        /\ cmd.attempt \in Attempts
    BY <2>1, <2>2
       DEF AuditInv, IInv, TypeOK, CommandMemory, InvalidationMemory, Source
  <2>5. run'.status = "Approved" /\ run'.recovery = i
    BY <2>1, <2>4 DEF InvalidationReset, Run
  <2>6. run.selected = cmd.attempt
    <3>1. PICK a \in Attempts : run.selected = a /\ IsLatest(a)
      BY DEF AuditInv, IInv, EarnedVerdict, FinalStatus
    <3>2. QED
      BY <2>1, <2>4, <3>1 DEF IsLatest, Attempts
  <2>7. QED
    BY <2>2, <2>3, <2>5, <2>6 DEF Reopens
<1>3. CASE RevisePublish
  BY <1>3 DEF RevisePublish, RevisionEligible
<1>4. CASE EvaluatePublish \/ AdoptPublish \/ PromotePublish
  BY <1>4 DEF EvaluatePublish, AdoptPublish, PromotePublish, Publish, At, AuditInv, IInv,
              CommandMemory
<1>5. CASE ProviderLoop \/ \E op \in Operators : Approve(op)
  BY <1>5 DEF ProviderLoop, ReviewRequest, ReviewOutcome, Approve
<1>6. QED
  BY <1>1, <1>2, <1>3, <1>4, <1>5
     DEF Next, Issue, ReviseSource, AdoptSource, InvalidateSource, PromoteIntent, Resume,
         Evaluate, Rerun, PublishIntent, StartCleanup, CleanupResume, Progress, Revision,
         ReviseDecision, Evaluation, Spawn, PublishStdout, PublishStderr, PublishLog,
         PublishTesting, PublishReport, Adoption, AdoptDecision, AdoptReport, Invalidation,
         InvalidateDecision, PromotionSteps, PromoteApply, Cleanup, RemoveWorktree,
         Environment, Crash, PartialApply, EditTarget, vars

\* A failure that was reported is only reopened by the next recovery on record, an
\* invalidation of the attempt that failed.
THEOREM FailureReopens == Spec => FailureReopensAudited
<1>1. AuditInv /\ [Next]_vars => [Reopens]_vars
  BY FailureKept
<1>2. QED
  BY <1>1, AuditInvHolds, PTL DEF Spec, FailureReopensAudited, Reopens
=============================================================================
