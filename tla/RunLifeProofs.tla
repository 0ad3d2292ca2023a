---------------------------- MODULE RunLifeProofs ----------------------------
(***************************************************************************)
(* What run.json says of its own past can always be read back, a promotion *)
(* is earned, an approval is given up for one thing only, and what the     *)
(* checks of a command accept its publication accepts; for any early steps *)
(* and any bounds.                                                         *)
(***************************************************************************)
EXTENDS RunLife, SequenceTheorems, WellFoundedInduction, TLAPS

-----------------------------------------------------------------------------
(* The steps and their order.                                              *)

LEMMA StepsAreListed ==
  /\ EarlySteps \in Seq(ToSet(EarlySteps)) /\ Len(EarlySteps) \in Nat \ {0}
  /\ DOMAIN Steps = 1 .. Len(EarlySteps) + 4
  /\ DOMAIN ProviderSteps = 1 .. Len(EarlySteps) + 2
  /\ \A i \in 1 .. Len(EarlySteps) + 2 : ProviderSteps[i] = Steps[i]
  /\ \A i \in 1 .. Len(EarlySteps) : Steps[i] = EarlySteps[i] /\ EarlySteps[i] \in ToSet(EarlySteps)
  /\ Steps[Len(EarlySteps) + 1] = "development"
  /\ Steps[Len(EarlySteps) + 2] = "output_review"
  /\ Steps[Len(EarlySteps) + 3] = "testing"
  /\ Steps[Len(EarlySteps) + 4] = "eval_report"
<1> DEFINE n == Len(EarlySteps)
           Names == ToSet(EarlySteps) \cup {"development", "output_review", "testing", "eval_report"}
<1>1. EarlySteps \in Seq(Names) /\ EarlySteps # <<>> /\ EarlySteps \in Seq(ToSet(EarlySteps))
  <2>1. ToSet(EarlySteps) \subseteq Names
    OBVIOUS
  <2>2. EarlySteps \in Seq(ToSet(EarlySteps))
    BY EarlyStepsAssumption
  <2> HIDE DEF Names
  <2>3. EarlySteps \in Seq(Names)
    BY <2>1, <2>2, SeqMonotonic
  <2>4. QED
    BY <2>2, <2>3, EarlyStepsAssumption
<1>2. {"development", "output_review", "testing", "eval_report"} \subseteq Names
  OBVIOUS
<1> HIDE DEF Names
<1>3. n \in Nat \ {0} /\ DOMAIN EarlySteps = 1 .. n
  BY <1>1
<1>4. /\ ProviderSteps \in Seq(Names) /\ Len(ProviderSteps) = n + 2
      /\ \A i \in 1 .. n : ProviderSteps[i] = EarlySteps[i]
      /\ ProviderSteps[n + 1] = "development" /\ ProviderSteps[n + 2] = "output_review"
  BY <1>1, <1>2, <1>3 DEF ProviderSteps
<1>5. /\ Steps \in Seq(Names) /\ Len(Steps) = n + 4
      /\ \A i \in 1 .. n + 2 : Steps[i] = ProviderSteps[i]
      /\ Steps[n + 3] = "testing" /\ Steps[n + 4] = "eval_report"
  <2> HIDE DEF n
  <2>1. QED
    BY <1>2, <1>3, <1>4 DEF Steps
<1>6. \A i \in 1 .. n : EarlySteps[i] \in ToSet(EarlySteps)
  BY <1>3 DEF ToSet
<1>7. DOMAIN Steps = 1 .. n + 4 /\ DOMAIN ProviderSteps = 1 .. n + 2
  <2> HIDE DEF n
  <2>1. QED
    BY <1>3, <1>4, <1>5
<1> HIDE DEF n
<1>8. /\ n \in Nat \ {0}
      /\ \A i \in 1 .. n : Steps[i] = EarlySteps[i] /\ EarlySteps[i] \in ToSet(EarlySteps)
      /\ Steps[n + 1] = "development" /\ Steps[n + 2] = "output_review"
  BY <1>3, <1>4, <1>5, <1>6
<1>9. QED
  BY <1>1, <1>5, <1>7, <1>8 DEF n

\* No step is listed twice.
LEMMA StepsAreDistinct ==
  \A i, j \in DOMAIN Steps : Steps[i] = Steps[j] => i = j
<1> DEFINE n == Len(EarlySteps)
<1>1. SUFFICES ASSUME NEW i \in 1 .. n + 4, NEW j \in 1 .. n + 4, Steps[i] = Steps[j], i < j
               PROVE  FALSE
  <2>1. n \in Nat
    BY StepsAreListed
  <2> HIDE DEF n
  <2>2. QED
    BY <2>1, StepsAreListed DEF n
<1>2. n \in Nat \ {0} /\ DOMAIN EarlySteps = 1 .. n
  BY StepsAreListed
<1>3. /\ \A k \in 1 .. n : Steps[k] = EarlySteps[k] /\ Steps[k] \in ToSet(EarlySteps)
      /\ Steps[n + 1] = "development" /\ Steps[n + 2] = "output_review"
      /\ Steps[n + 3] = "testing" /\ Steps[n + 4] = "eval_report"
  BY StepsAreListed
<1>4. \A k, l \in 1 .. n : EarlySteps[k] = EarlySteps[l] => k = l
  BY <1>2, EarlyStepsAssumption DEF IsInjective
<1>5. \A k \in 1 .. n : Steps[k] \notin {"development", "output_review", "testing", "eval_report"}
  BY <1>3, EarlyStepsAssumption
<1> HIDE DEF n
<1>6. CASE j \in 1 .. n
  <2>1. i \in 1 .. n
    BY <1>1, <1>2, <1>6
  <2>2. QED
    BY <1>1, <1>3, <1>4, <1>6, <2>1
<1>7. CASE j \notin 1 .. n
  <2>1. j \in {n + 1, n + 2, n + 3, n + 4}
    BY <1>1, <1>2, <1>7
  <2>2. i \in 1 .. n \/ i \in {n + 1, n + 2, n + 3, n + 4}
    BY <1>1, <1>2
  <2>3. QED
    BY <1>1, <1>2, <1>3, <1>5, <2>1, <2>2
<1>8. QED
  BY <1>6, <1>7

LEMMA PositionOfStep ==
  /\ \A s \in StepNames : Position[s] \in DOMAIN Steps /\ Steps[Position[s]] = s
  /\ \A i \in DOMAIN Steps : Steps[i] \in StepNames /\ Position[Steps[i]] = i
<1>1. \A s \in StepNames : \E i \in DOMAIN Steps : Steps[i] = s
  BY DEF StepNames, ToSet
<1>2. \A s \in StepNames : Position[s] \in DOMAIN Steps /\ Steps[Position[s]] = s
  BY <1>1 DEF Position
<1>3. \A i \in DOMAIN Steps : Steps[i] \in StepNames
  BY DEF StepNames, ToSet
<1>4. QED
  BY <1>2, <1>3, StepsAreDistinct

LEMMA PositionsOfLast ==
  /\ {"development", "output_review"} \subseteq ProviderNames
  /\ {"development", "output_review", "testing", "eval_report"} \subseteq StepNames
  /\ Position["output_review"] = Position["development"] + 1
  /\ Position["testing"] = Position["development"] + 2
  /\ Position["eval_report"] = Position["development"] + 3
  /\ Position["development"] = Len(EarlySteps) + 1
<1>1. \A k \in {1, 2, 3, 4} : Len(EarlySteps) + k \in DOMAIN Steps
  BY StepsAreListed
<1>2. \A k \in {1, 2} : Len(EarlySteps) + k \in DOMAIN ProviderSteps
  BY StepsAreListed
<1>3. {"development", "output_review"} \subseteq ProviderNames
  BY <1>2, StepsAreListed DEF ProviderNames, ToSet
<1>4. QED
  BY <1>1, <1>3, StepsAreListed, PositionOfStep

LEMMA ProviderPositions ==
  ASSUME NEW s \in ProviderNames
  PROVE  /\ s \in StepNames /\ s \notin {"testing", "eval_report"}
         /\ Position[s] \in 1 .. Position["output_review"]
         /\ Position[s] + 1 \in DOMAIN Steps
         /\ Steps[Position[s] + 1] \in StepNames
<1>1. PICK i \in DOMAIN ProviderSteps : ProviderSteps[i] = s
  BY DEF ProviderNames, ToSet
<1>2. i \in 1 .. Len(EarlySteps) + 2 /\ Steps[i] = s /\ i \in DOMAIN Steps /\ i + 1 \in DOMAIN Steps
  BY <1>1, StepsAreListed
<1>3. Position[s] = i /\ s \in StepNames
  BY <1>2, PositionOfStep
<1>4. Len(EarlySteps) \in Nat /\ Position["output_review"] = Len(EarlySteps) + 2
  BY StepsAreListed, PositionsOfLast
<1>5. s \notin {"testing", "eval_report"}
  <2>1. Position["testing"] = Len(EarlySteps) + 3 /\ Position["eval_report"] = Len(EarlySteps) + 4
    BY <1>4, PositionsOfLast
  <2>2. QED
    BY <1>2, <1>3, <1>4, <2>1
<1>6. QED
  BY <1>2, <1>3, <1>4, <1>5, PositionOfStep

-----------------------------------------------------------------------------
(* The runs that decisions and evaluations make.                           *)

LEMMA LiveRunsAreRuns == LiveRun \subseteq AnyRun
  BY DEF LiveRun, AnyRun, RunsWith

LEMMA LiveRunIs ==
  ASSUME NEW r \in AnyRun, r.promotion = None
  PROVE  r \in LiveRun
  BY DEF LiveRun, AnyRun, RunsWith

\* A step that is reset, and no other.
LEMMA ResetFields ==
  ASSUME NEW P, NEW r \in RunsWith(P), NEW s \in StepNames
  PROVE  /\ ResetStep(r, s) \in RunsWith(P)
         /\ ResetStep(r, s).steps[s] = [st |-> "Pending", art |-> 0]
         /\ \A t \in StepNames \ {s} : ResetStep(r, s).steps[t] = r.steps[t]
         /\ ResetStep(r, s) = [r EXCEPT !.steps = ResetStep(r, s).steps]
  BY DEF ResetStep, RunsWith

LEMMA EvaluationResetFields ==
  ASSUME NEW P, NEW r \in RunsWith(P)
  PROVE  LET e == EvaluationReset(r) IN
         /\ e \in RunsWith(P)
         /\ \A s \in {"testing", "eval_report"} : e.steps[s] = [st |-> "Pending", art |-> 0]
         /\ \A t \in StepNames \ {"testing", "eval_report"} : e.steps[t] = r.steps[t]
         /\ e = [r EXCEPT !.steps = e.steps]
<1> DEFINE a == ResetStep(r, "testing")
           b == ResetStep(a, "eval_report")
<1>1. {"testing", "eval_report"} \subseteq StepNames
  BY PositionsOfLast
<1>2. /\ a \in RunsWith(P) /\ a.steps["testing"] = [st |-> "Pending", art |-> 0]
      /\ \A t \in StepNames \ {"testing"} : a.steps[t] = r.steps[t]
      /\ a = [r EXCEPT !.steps = a.steps]
  BY <1>1, ResetFields
<1> HIDE DEF a
<1>3. /\ b \in RunsWith(P) /\ b.steps["eval_report"] = [st |-> "Pending", art |-> 0]
      /\ \A t \in StepNames \ {"eval_report"} : b.steps[t] = a.steps[t]
      /\ b = [a EXCEPT !.steps = b.steps]
  BY <1>1, <1>2, ResetFields
<1> HIDE DEF b
<1>4. b = [r EXCEPT !.steps = b.steps]
  BY <1>2, <1>3 DEF RunsWith
<1>5. /\ \A s \in {"testing", "eval_report"} : b.steps[s] = [st |-> "Pending", art |-> 0]
      /\ \A t \in StepNames \ {"testing", "eval_report"} : b.steps[t] = r.steps[t]
  BY <1>1, <1>2, <1>3
<1>6. EvaluationReset(r) = b
  BY DEF EvaluationReset, a, b
<1>7. QED
  BY <1>3, <1>4, <1>5, <1>6

LEMMA InvalidatedFields ==
  ASSUME NEW P, None \in P, NEW r \in RunsWith(P), NEW id \in Nat, NEW at \in Nat
  PROVE  LET i == InvalidatedRun(r, id, at) IN
         /\ i \in RunsWith(P) /\ i.promotion = None /\ i \in LiveRun
         /\ i.status = "Approved" /\ i.step = "testing" /\ i.updated = at /\ i.recovery = id
         /\ i.report = 0 /\ i.cand = r.cand /\ i.policy = r.policy /\ i.ledger = r.ledger
         /\ i.approval = r.approval
         /\ i.steps["development"] = r.steps["development"]
<1> DEFINE e == EvaluationReset(r)
<1>1. /\ e \in RunsWith(P)
      /\ \A s \in {"testing", "eval_report"} : e.steps[s] = [st |-> "Pending", art |-> 0]
      /\ \A t \in StepNames \ {"testing", "eval_report"} : e.steps[t] = r.steps[t]
      /\ e = [r EXCEPT !.steps = e.steps]
  BY EvaluationResetFields
<1>2. "testing" \in StepNames
  BY PositionsOfLast
<1> HIDE DEF e
<1>3. /\ e.cand = r.cand /\ e.policy = r.policy /\ e.ledger = r.ledger /\ e.approval = r.approval
  BY <1>1 DEF RunsWith
<1>4. InvalidatedRun(r, id, at) =
        [e EXCEPT !.status = "Approved", !.step = "testing", !.updated = at, !.recovery = id,
                  !.report = 0, !.promotion = None]
  BY DEF InvalidatedRun, e
<1> DEFINE i == InvalidatedRun(r, id, at)
<1>5. i \in RunsWith(P) /\ i \in RunsWith({None})
  <2>1. e \in RunsWith(P)
    BY <1>1
  <2>2. i \in RunsWith(P)
    <3>1. /\ e.steps \in [StepNames ->
                [st : {"Pending", "Running", "Completed", "Passed", "Blocked", "Failed"}, art : Nat]]
          /\ e.cand \in Candidate /\ e.policy \in SUBSET Nat /\ e.ledger \in Seq(Entry)
          /\ e.approval \in Approval \cup {None}
      BY <2>1 DEF RunsWith
    <3>2. i = [status |-> "Approved", step |-> "testing", steps |-> e.steps, cand |-> e.cand,
               policy |-> e.policy, ledger |-> e.ledger, approval |-> e.approval,
               promotion |-> None, report |-> 0, recovery |-> id, updated |-> at]
      BY <1>4, <2>1 DEF RunsWith
    <3>3. QED
      BY <1>2, <3>1, <3>2 DEF RunsWith
  <2>3. i.promotion = None
    BY <1>4, <2>1 DEF RunsWith
  <2>4. QED
    BY <2>2, <2>3 DEF RunsWith
<1>6. /\ i.status = "Approved" /\ i.step = "testing" /\ i.updated = at /\ i.recovery = id
      /\ i.report = 0 /\ i.promotion = None /\ i.steps = e.steps
      /\ i.cand = e.cand /\ i.policy = e.policy /\ i.ledger = e.ledger /\ i.approval = e.approval
  BY <1>1, <1>4 DEF RunsWith
<1> HIDE DEF i
<1>7. i.steps["development"] = r.steps["development"]
  BY <1>1, <1>6, PositionsOfLast
<1>8. QED
  BY <1>1, <1>3, <1>5, <1>6, <1>7 DEF LiveRun, i

LEMMA RevisedFields ==
  ASSUME NEW P, None \in P, NEW r \in RunsWith(P), NEW s \in ProviderNames,
         NEW id \in Nat, NEW at \in Nat
  PROVE  LET i == RevisedRun(r, s, id, at) IN
         /\ i \in RunsWith(P) /\ i.status = "Pending" /\ i.step = s /\ i.recovery = id
         /\ i.cand = r.cand /\ i.ledger = r.ledger
         /\ s = "output_review" => i.approval = None
         /\ s # "output_review" => i.approval = r.approval
         /\ Position[s] <= Position["development"] =>
              i.policy = {} /\ i.steps["development"].st = "Pending"
         /\ ~(Position[s] <= Position["development"]) => i.policy = r.policy
         /\ Position["development"] < Position[s] => i.steps["development"] = r.steps["development"]
<1>1. s \in StepNames /\ "development" \in StepNames
  BY ProviderPositions, PositionsOfLast
<1>2. Position[s] \in Nat /\ Position["development"] \in Nat
  BY ProviderPositions, PositionsOfLast, StepsAreListed
<1> DEFINE i == RevisedRun(r, s, id, at)
           st == [t \in StepNames |-> IF Position[t] < Position[s] THEN r.steps[t]
                                      ELSE [st |-> "Pending", art |-> 0]]
           policy == IF Position[s] <= Position["development"] THEN {} ELSE r.policy
           approval == IF s = "output_review" THEN None ELSE r.approval
           report == IF s = "output_review" THEN 0 ELSE r.report
<1>3. i = [r EXCEPT !.status = "Pending", !.step = s, !.updated = at, !.recovery = id,
                    !.steps = st, !.policy = policy, !.approval = approval, !.report = report,
                    !.promotion = None]
  BY DEF RevisedRun, RunsWith
<1>4. /\ st \in [StepNames ->
             [st : {"Pending", "Running", "Completed", "Passed", "Blocked", "Failed"}, art : Nat]]
      /\ policy \in SUBSET Nat /\ approval \in Approval \cup {None} /\ report \in Nat
  BY DEF RunsWith
<1>5. /\ Position[s] <= Position["development"] =>
           policy = {} /\ st["development"].st = "Pending"
      /\ ~(Position[s] <= Position["development"]) => policy = r.policy
      /\ Position["development"] < Position[s] => st["development"] = r.steps["development"]
      /\ s = "output_review" => approval = None
      /\ s # "output_review" => approval = r.approval
  BY <1>1, <1>2
<1> HIDE DEF i, st, policy, approval, report
<1>6. /\ i \in RunsWith(P) /\ i.status = "Pending" /\ i.step = s /\ i.recovery = id
      /\ i.cand = r.cand /\ i.ledger = r.ledger /\ i.policy = policy /\ i.approval = approval
      /\ i.steps = st
  BY <1>1, <1>3, <1>4 DEF RunsWith
<1>7. QED
  BY <1>5, <1>6 DEF i

\* The same of the run that was published.
LEMMA RevisedIs ==
  ASSUME NEW r \in AnyRun, NEW s \in ProviderNames, NEW id \in Nat, NEW at \in Nat,
         NEW i, i = RevisedRun(r, s, id, at)
  PROVE  /\ i \in AnyRun /\ i.status = "Pending" /\ i.step = s /\ i.recovery = id
         /\ i.cand = r.cand
         /\ s = "output_review" => i.approval = None
         /\ s # "output_review" => i.approval = r.approval
         /\ Position[s] <= Position["development"] => i.steps["development"].st = "Pending"
         /\ ~(Position[s] <= Position["development"]) => i.policy = r.policy
         /\ Position["development"] < Position[s] => i.steps["development"] = r.steps["development"]
<1> DEFINE P == Promotion \cup {None}
<1>1. r \in RunsWith(P) /\ None \in P /\ AnyRun = RunsWith(P)
  BY DEF AnyRun
<1> HIDE DEF P
<1>2. QED
  BY <1>1, RevisedFields

\* The verdict of an evaluation, and what it leaves alone.
LEMMA FinishedFields ==
  ASSUME NEW P, NEW r \in RunsWith(P), NEW passed, NEW a \in Nat, NEW at \in Nat
  PROVE  LET i == FinishedRun(r, passed, a, at) IN
         /\ i \in RunsWith(P) /\ i.promotion = r.promotion
         /\ i.cand = r.cand /\ i.policy = r.policy /\ i.ledger = r.ledger
         /\ i.approval = r.approval /\ i.recovery = r.recovery
         /\ i.steps["development"] = r.steps["development"]
<1>1. {"testing", "eval_report"} \subseteq StepNames /\ "development" \in StepNames
  BY PositionsOfLast
<1>2. QED
  BY <1>1 DEF FinishedRun, RunsWith

LEMMA AdoptedFields ==
  ASSUME NEW P, NEW id \in Nat, NEW d, d.source \in RunsWith(P),
         d.attempt \in Nat, d.created \in Nat
  PROVE  LET i == AdoptedRun(d, id) IN
         /\ i \in RunsWith(P) /\ i.recovery = id /\ i.cand = d.source.cand
         /\ i.policy = d.source.policy /\ i.approval = d.source.approval
         /\ i.steps["development"] = d.source.steps["development"]
<1> DEFINE f == FinishedRun(d.source, d.passed, d.attempt, d.created)
<1>1. /\ f \in RunsWith(P) /\ f.cand = d.source.cand /\ f.policy = d.source.policy
      /\ f.approval = d.source.approval
      /\ f.steps["development"] = d.source.steps["development"]
  BY FinishedFields
<1> HIDE DEF f
<1>2. AdoptedRun(d, id) = [f EXCEPT !.recovery = id]
  BY DEF AdoptedRun, f
<1> DEFINE i == AdoptedRun(d, id)
<1>3. i = [f EXCEPT !.recovery = id]
  BY <1>2
<1> HIDE DEF i
<1>4. i \in RunsWith(P) /\ i.recovery = id /\ i.cand = f.cand /\ i.policy = f.policy
      /\ i.approval = f.approval /\ i.steps = f.steps
  BY <1>1, <1>3 DEF RunsWith
<1>5. QED
  BY <1>1, <1>4 DEF i

-----------------------------------------------------------------------------
(* Evidence is only added: what was authentic stays so.                    *)

\* g is what f has become: decisions are added, attempts are added, and an attempt
\* that has Testing evidence keeps its verdict.
Grows(f, g) ==
  /\ Len(f.recoveries) <= Len(g.recoveries) /\ Len(f.evals) <= Len(g.evals)
  /\ \A n \in 1 .. Len(f.recoveries) : g.recoveries[n] = f.recoveries[n]
  /\ \A k \in 1 .. Len(f.evals) :
       /\ g.evals[k].run = f.evals[k].run /\ g.evals[k].recovery = f.evals[k].recovery
       /\ f.evals[k].stage # "intent" =>
            g.evals[k].stage \in {"testing", "report"} /\ g.evals[k].passed = f.evals[k].passed

Evidence == [evals : Seq(Evaluation), recoveries : Seq(RecoveryDecision)]

LEMMA AuthorizedGrows ==
  ASSUME NEW f \in Evidence, NEW g \in Evidence, Grows(f, g),
         NEW r, r.recovery \in Nat, r.recovery <= Len(f.recoveries),
         NEW prefix, NEW e, NEW sound
  PROVE  Authorized(r, prefix, e, f, sound) <=> Authorized(r, prefix, e, g, sound)
<1>1. \A n \in 1 .. r.recovery : g.recoveries[n] = f.recoveries[n]
  <2>1. Len(f.recoveries) \in Nat
    BY DEF Evidence
  <2>2. QED
    BY <2>1 DEF Grows
<1>2. \A n \in 1 .. r.recovery : \A m \in n .. r.recovery : g.recoveries[m] = f.recoveries[m]
  BY <1>1
<1>3. QED
  BY <1>1, <1>2 DEF Authorized

LEMMA LedgerStandsGrows ==
  ASSUME NEW f \in Evidence, NEW g \in Evidence, Grows(f, g),
         NEW r, r.recovery \in Nat, r.recovery <= Len(f.recoveries), NEW sound
  PROVE  LedgerStands(r, f, sound) <=> LedgerStands(r, g, sound)
<1>1. ASSUME NEW prefix, NEW e
      PROVE  OpensAttempt(r, prefix, e, f, sound) <=> OpensAttempt(r, prefix, e, g, sound)
  BY AuthorizedGrows DEF OpensAttempt
<1>2. QED
  BY <1>1 DEF LedgerStands

LEMMA DescendsGrows ==
  ASSUME NEW f \in Evidence, NEW g \in Evidence, Grows(f, g), NEW r, NEW n \in 1 .. Len(f.recoveries), NEW sound,
         Descends(r, n, f, sound)
  PROVE  Descends(r, n, g, sound)
<1>1. g.recoveries[n] = f.recoveries[n]
  BY DEF Grows
<1>2. r.recovery = n
  BY DEF Descends
<1>3. n \in Nat /\ n <= Len(f.recoveries)
  BY DEF Evidence
<1>4. LedgerStands(r, f, sound) <=> LedgerStands(r, g, sound)
  BY <1>2, <1>3, LedgerStandsGrows
<1>5. QED
  BY <1>1, <1>4 DEF Descends

LEMMA RevisionGrows ==
  ASSUME NEW f \in Evidence, NEW g \in Evidence, Grows(f, g), NEW r, NEW n \in 1 .. Len(f.recoveries), NEW sound,
         RevisionIsConsumed(r, n, f, sound)
  PROVE  RevisionIsConsumed(r, n, g, sound)
<1>1. g.recoveries[n] = f.recoveries[n]
  BY DEF Grows
<1>2. QED
  BY <1>1, DescendsGrows DEF RevisionIsConsumed

LEMMA InvalidationGrows ==
  ASSUME NEW f \in Evidence, NEW g \in Evidence, Grows(f, g), NEW r, NEW n \in 1 .. Len(f.recoveries),
         f.recoveries[n].kind # "revise", DecisionsAreNamed(f), InvalidationIsConsumed(r, n, f)
  PROVE  InvalidationIsConsumed(r, n, g)
<1> DEFINE a == f.recoveries[n].attempt
<1>1. g.recoveries[n] = f.recoveries[n]
  BY DEF Grows
<1>2. Len(f.evals) \in Nat /\ f.recoveries[n] \in RecoveryDecision /\ n \in DOMAIN f.recoveries
  BY DEF Evidence
<1>3. a \in Nat \ {0}
  BY <1>2 DEF DecisionsAreNamed, RecoveryDecision
<1>4. a + 1 <= Len(f.evals)
  BY DEF InvalidationIsConsumed
<1> HIDE DEF a
<1>5. a + 1 \in 1 .. Len(f.evals) /\ Len(f.evals) <= Len(g.evals)
  BY <1>2, <1>3, <1>4 DEF Grows
<1>6. /\ g.evals[a + 1].run = f.evals[a + 1].run
      /\ g.evals[a + 1].recovery = f.evals[a + 1].recovery
  BY <1>5 DEF Grows
<1>7. a + 1 <= Len(g.evals)
  <2>1. Len(g.evals) \in Nat
    BY DEF Evidence
  <2>2. QED
    BY <1>2, <1>3, <1>5, <2>1
<1>8. QED
  BY <1>1, <1>6, <1>7 DEF InvalidationIsConsumed, a

LEMMA ConsumedGrows ==
  ASSUME NEW f \in Evidence, NEW g \in Evidence, Grows(f, g), DecisionsAreNamed(f),
         NEW child, NEW n \in 1 .. Len(f.recoveries), Consumed(child, n, f)
  PROVE  Consumed(child, n, g)
<1>1. g.recoveries[n] = f.recoveries[n]
  BY DEF Grows
<1>2. f.recoveries[n].kind \in {"revise", "adopt", "invalidate"}
  <2>1. f.recoveries[n] \in RecoveryDecision
    BY DEF Evidence
  <2>2. QED
    BY <2>1 DEF RecoveryDecision
<1>3. CASE f.recoveries[n].kind = "revise"
  BY <1>1, <1>3, RevisionGrows DEF Consumed
<1>4. CASE f.recoveries[n].kind = "adopt"
  BY <1>1, <1>4 DEF Consumed, AdoptionIsExact
<1>5. CASE f.recoveries[n].kind = "invalidate"
  BY <1>1, <1>5, InvalidationGrows DEF Consumed
<1>6. QED
  BY <1>2, <1>3, <1>4, <1>5

\* The attempt a decision names.
LEMMA AttemptGrows ==
  ASSUME NEW f \in Evidence, NEW g \in Evidence, Grows(f, g), NEW a \in Nat \ {0}, a <= Len(f.evals)
  PROVE  /\ a <= Len(g.evals) /\ a \in 1 .. Len(f.evals)
         /\ g.evals[a].run = f.evals[a].run /\ g.evals[a].recovery = f.evals[a].recovery
         /\ f.evals[a].stage # "intent" =>
              g.evals[a].stage \in {"testing", "report"} /\ g.evals[a].passed = f.evals[a].passed
<1>1. Len(f.evals) \in Nat /\ Len(g.evals) \in Nat /\ Len(f.evals) <= Len(g.evals)
  BY DEF Evidence, Grows
<1>2. a \in 1 .. Len(f.evals) /\ a <= Len(g.evals)
  BY <1>1
<1>3. QED
  BY <1>2 DEF Grows

LEMMA EntryGrows ==
  ASSUME NEW f \in Evidence, NEW g \in Evidence, Grows(f, g), DecisionsAreNamed(f),
         NEW n \in 1 .. Len(f.recoveries), EntryStands(n, f)
  PROVE  EntryStands(n, g)
<1> DEFINE r == f.recoveries[n]
<1>1. g.recoveries[n] = r
  BY DEF Grows
<1>2. /\ n \in DOMAIN f.recoveries /\ r \in RecoveryDecision
      /\ n \in Nat \ {0} /\ Len(f.recoveries) \in Nat /\ n <= Len(f.recoveries)
  BY DEF Evidence
<1>3. r.kind # "revise" => r.attempt \in Nat \ {0}
  BY <1>2 DEF DecisionsAreNamed, RecoveryDecision
<1>4. r.source.recovery = n - 1
  BY DEF EntryStands
<1> HIDE DEF r
<1>5. ASSUME r.kind = "adopt", AdoptionBinds(r, f)
      PROVE  AdoptionBinds(r, g)
  <2>1. LedgerStands(r.source, f, TRUE) <=> LedgerStands(r.source, g, TRUE)
    <3>1. r.source.recovery \in Nat /\ r.source.recovery <= Len(f.recoveries)
      BY <1>2, <1>4
    <3>2. QED
      BY <3>1, LedgerStandsGrows
  <2>2. r.attempt <= Len(f.evals) /\ f.evals[r.attempt].stage # "intent"
    BY <1>5 DEF AdoptionBinds
  <2>3. /\ r.attempt <= Len(g.evals)
        /\ g.evals[r.attempt].run = f.evals[r.attempt].run
        /\ g.evals[r.attempt].recovery = f.evals[r.attempt].recovery
        /\ g.evals[r.attempt].stage \in {"testing", "report"}
        /\ g.evals[r.attempt].passed = f.evals[r.attempt].passed
    BY <1>3, <1>5, <2>2, AttemptGrows
  <2>4. QED
    BY <1>5, <2>1, <2>3 DEF AdoptionBinds
<1>6. ASSUME r.kind = "invalidate", InvalidationBinds(r, f)
      PROVE  InvalidationBinds(r, g)
  <2>1. r.attempt <= Len(f.evals)
    BY <1>6 DEF InvalidationBinds
  <2>2. /\ r.attempt <= Len(g.evals)
        /\ g.evals[r.attempt].run = f.evals[r.attempt].run
        /\ f.evals[r.attempt].stage # "intent" =>
             /\ g.evals[r.attempt].stage \in {"testing", "report"}
             /\ g.evals[r.attempt].passed = f.evals[r.attempt].passed
    BY <1>3, <1>6, <2>1, AttemptGrows
  <2>3. QED
    BY <1>6, <2>2 DEF InvalidationBinds
<1>7. r.kind \in {"revise", "adopt", "invalidate"}
  BY <1>2 DEF RecoveryDecision
<1>8. ValidRun(r.source) /\ CASE r.kind = "revise" -> RevisionBinds(r)
                              [] r.kind = "adopt" -> AdoptionBinds(r, f)
                              [] OTHER -> InvalidationBinds(r, f)
  BY DEF EntryStands, r
<1>9. (CASE r.kind = "revise" -> RevisionBinds(r)
         [] r.kind = "adopt" -> AdoptionBinds(r, g)
         [] OTHER -> InvalidationBinds(r, g))
  BY <1>5, <1>6, <1>7, <1>8
<1>10. QED
  BY <1>1, <1>4, <1>8, <1>9 DEF EntryStands

\* The decisions that stand go on standing.
LEMMA ChainGrows ==
  ASSUME NEW f \in Evidence, NEW g \in Evidence, Grows(f, g), DecisionsAreNamed(f),
         NEW n \in 0 .. Len(f.recoveries), ChainStands(n, f)
  PROVE  ChainStands(n, g)
<1>1. SUFFICES ASSUME NEW m \in 1 .. n
               PROVE  (m > 1 => Consumed(f.recoveries[m], m - 1, g)) /\ EntryStands(m, g)
  <2>1. \A m \in 1 .. n : g.recoveries[m] = f.recoveries[m]
    <3>1. n \in Nat /\ n <= Len(f.recoveries) /\ Len(f.recoveries) \in Nat
      BY DEF Evidence
    <3>2. QED
      BY <3>1 DEF Grows
  <2>2. QED
    BY <1>1, <2>1 DEF ChainStands
<1>2. m \in 1 .. Len(f.recoveries) /\ m \in Nat /\ (m > 1 => m - 1 \in 1 .. Len(f.recoveries))
  BY DEF Evidence
<1>3. (m > 1 => Consumed(f.recoveries[m], m - 1, f)) /\ EntryStands(m, f)
  BY DEF ChainStands
<1>4. QED
  BY <1>2, <1>3, ConsumedGrows, EntryGrows

-----------------------------------------------------------------------------
(* The attempts of a step.                                                 *)

Less == {ss \in Nat \X Nat : ss[1] < ss[2]}

LEMMA Least ==
  ASSUME NEW S, S \subseteq Nat, S # {}
  PROVE  \E n \in S : \A m \in S : n <= m
<1>1. IsWellFoundedOn(Less, Nat)
  BY NatLessThanWellFounded, Zenon DEF OpToRel, Less
<1>2. PICK n \in S : \A m \in S : ~(<<m, n>> \in Less)
  BY <1>1, WFMin
<1>3. \A m \in S : ~(m < n)
  BY <1>2 DEF Less
<1>4. QED
  BY <1>3

LEMMA Greatest ==
  ASSUME NEW S, S \subseteq Nat, S # {}, NEW b \in Nat, \A n \in S : n <= b
  PROVE  \E n \in S : \A m \in S : m <= n
<1> DEFINE T == {b - n : n \in S}
<1>1. \A n \in S : n \in Nat /\ b - n \in Nat
  OBVIOUS
<1>2. T \subseteq Nat /\ T # {}
  BY <1>1
<1>3. PICK t \in T : \A u \in T : t <= u
  BY <1>2, Least
<1>4. PICK n \in S : t = b - n
  BY <1>3
<1>5. \A m \in S : b - m \in T
  OBVIOUS
<1>6. \A m \in S : m <= n
  BY <1>1, <1>3, <1>4, <1>5
<1>7. QED
  BY <1>6

\* The numbers of a finite sequence are bounded: a first prefix that is not would be
\* one entry longer than one that is.
LEMMA Bounded ==
  ASSUME NEW N \in Nat, NEW a, \A i \in 1 .. N : a[i] \in Nat
  PROVE  \E b \in Nat : \A i \in 1 .. N : a[i] <= b
<1> DEFINE Has(k) == \E b \in Nat : \A i \in 1 .. k : a[i] <= b
           Not == {k \in 0 .. N : ~Has(k)}
<1>1. SUFFICES Not = {}
  <2>1. N \in 0 .. N
    OBVIOUS
  <2>2. QED
    BY <1>1, <2>1
<1>2. SUFFICES ASSUME Not # {} PROVE FALSE
  OBVIOUS
<1>3. PICK k \in Not : \A j \in Not : k <= j
  <2>1. Not \subseteq Nat
    OBVIOUS
  <2>2. QED
    BY <1>2, <2>1, Least
<1>4. k \in 0 .. N /\ ~Has(k)
  OBVIOUS
<1>5. k # 0
  <2>1. Has(0)
    <3>1. 0 \in Nat /\ \A i \in 1 .. 0 : a[i] <= 0
      OBVIOUS
    <3>2. QED
      BY <3>1
  <2>2. QED
    BY <1>4, <2>1
<1>6. Has(k - 1)
  <2>1. k - 1 \in 0 .. N /\ ~(k <= k - 1)
    BY <1>4, <1>5
  <2>2. QED
    BY <1>3, <2>1
<1>7. PICK b \in Nat : \A i \in 1 .. k - 1 : a[i] <= b
  BY <1>6
<1>8. a[k] \in Nat
  BY <1>4, <1>5
<1>9. PICK c \in Nat : b <= c /\ a[k] <= c
  <2>1. b + a[k] \in Nat /\ b <= b + a[k] /\ a[k] <= b + a[k]
    BY <1>8
  <2>2. QED
    BY <2>1
<1>10. \A i \in 1 .. k : a[i] <= c
  <2>1. ASSUME NEW i \in 1 .. k PROVE a[i] <= c
    <3>1. CASE i = k
      BY <1>9, <3>1
    <3>2. CASE i # k
      <4>1. i \in 1 .. k - 1 /\ i \in 1 .. N
        BY <1>4, <1>5, <3>2
      <4>2. a[i] <= b /\ a[i] \in Nat
        BY <1>7, <4>1
      <4>3. QED
        BY <1>9, <4>2
    <3>3. QED
      BY <3>1, <3>2
  <2>2. QED
    BY <2>1
<1>11. Has(k)
  BY <1>9, <1>10
<1>12. QED
  BY <1>4, <1>11

LEMMA LastAttemptIs ==
  ASSUME NEW l \in Seq(Entry), NEW s
  PROVE  /\ LastAttempt(l, s) \in Nat
         /\ \A i \in DOMAIN l : l[i].step = s => l[i].attempt <= LastAttempt(l, s)
         /\ (\E i \in DOMAIN l : l[i].step = s) =>
              \E i \in DOMAIN l : Group(l[i]) = <<s, LastAttempt(l, s)>>
         /\ LastAttempt(l, s) # 0 <=> \E i \in DOMAIN l : l[i].step = s
<1> DEFINE A == Attempts(l, s)
           a == [i \in DOMAIN l |-> l[i].attempt]
<1>1. Len(l) \in Nat /\ DOMAIN l = 1 .. Len(l) /\ \A i \in DOMAIN l : l[i] \in Entry
  OBVIOUS
<1>2. \A i \in DOMAIN l : l[i].attempt \in Nat \ {0}
  BY <1>1 DEF Entry
<1>3. /\ \A i \in DOMAIN l : l[i].step = s => l[i].attempt \in A
      /\ \A x \in A : \E i \in DOMAIN l : l[i].step = s /\ x = l[i].attempt
  BY DEF Attempts
<1>4. A \subseteq Nat \ {0}
  BY <1>2, <1>3
<1>5. PICK b \in Nat : \A i \in 1 .. Len(l) : a[i] <= b
  <2>1. \A i \in 1 .. Len(l) : a[i] \in Nat
    BY <1>1, <1>2
  <2> HIDE DEF a
  <2>2. QED
    BY <1>1, <2>1, Bounded
<1>6. \A x \in A : x <= b
  BY <1>1, <1>3, <1>5
<1> HIDE DEF A, a
<1>7. CASE A = {}
  BY <1>3, <1>7 DEF LastAttempt, A
<1>8. CASE A # {}
  <2>1. PICK x \in A : \A y \in A : y <= x
    BY <1>4, <1>6, <1>8, Greatest
  <2>2. LastAttempt(l, s) = CHOOSE x1 \in A : \A y \in A : y <= x1
    BY <1>8 DEF LastAttempt, A
  <2>3. LastAttempt(l, s) \in A /\ \A y \in A : y <= LastAttempt(l, s)
    BY <2>1, <2>2
  <2>4. LastAttempt(l, s) \in Nat \ {0}
    BY <1>4, <2>3
  <2>5. PICK i \in DOMAIN l : l[i].step = s /\ LastAttempt(l, s) = l[i].attempt
    BY <1>3, <2>3
  <2>6. Group(l[i]) = <<s, LastAttempt(l, s)>>
    BY <2>5 DEF Group
  <2>7. QED
    BY <1>3, <2>3, <2>4, <2>5, <2>6
<1>9. QED
  BY <1>7, <1>8

-----------------------------------------------------------------------------
(* The steps of the run.                                                   *)

LEMMA LiveUnlessPromoted ==
  ASSUME NEW r \in AnyRun, ValidRun(r), r.status # "Promoted"
  PROVE  r \in LiveRun
  BY LiveRunIs DEF ValidRun

\* A run that stands beside its evidence stands beside what that becomes.
LEMMA StandsGrows ==
  ASSUME NEW f \in Evidence, NEW g \in Evidence, Grows(f, g), DecisionsAreNamed(f),
         NEW r, r.recovery \in 0 .. Len(f.recoveries), ~IsFinal(r),
         MayStand(r, f), ChainStands(r.recovery, f)
  PROVE  MayStand(r, g) /\ ChainStands(r.recovery, g)
<1>1. ChainStands(r.recovery, g)
  BY ChainGrows
<1>2. ChainStands(r.recovery, f) = TRUE /\ ChainStands(r.recovery, g) = TRUE
  BY <1>1 DEF ChainStands
<1>3. LedgerStands(r, f, TRUE)
  BY <1>2 DEF MayStand
<1>4. LedgerStands(r, g, TRUE)
  <2>1. r.recovery \in Nat /\ r.recovery <= Len(f.recoveries)
    BY DEF Evidence
  <2>2. QED
    BY <1>3, <2>1, LedgerStandsGrows
<1>5. LedgerStands(r, g, ChainStands(r.recovery, g))
  BY <1>2, <1>4
<1>6. QED
  BY <1>1, <1>5 DEF MayStand

\* What is published beside the evidence as it is.
LEMMA Published ==
  ASSUME IInv, NEW int \in AnyRun, int.recovery = run.recovery, MayStand(int, files),
         PatchIsDecided(int), run' = int, files' = files, clock' \in Nat
  PROVE  IInv'
<1>1. TypeOK'
  BY DEF IInv, TypeOK
<1>2. PatchIsDecided(run)' /\ DecisionsAreTaken' /\ DecisionsAreNamed(files)'
  BY DEF IInv, PatchIsDecided, DecisionsAreTaken, DecisionsAreNamed, AtStep
<1>3. MayStand(run, files)'
  BY DEF MayStand, LedgerStands
<1>4. ChainStands(run.recovery, files)'
  BY DEF IInv, LineageKept
<1>5. QED
  BY <1>1, <1>2, <1>3, <1>4 DEF IInv, LineageKept

LEMMA Known ==
  ASSUME IInv
  PROVE  /\ run \in AnyRun /\ files \in Evidence /\ clock \in Nat
         /\ ValidRun(run) /\ MayStand(run, files) /\ ChainStands(run.recovery, files)
         /\ PatchIsDecided(run) /\ run.recovery = Len(files.recoveries) /\ run.recovery \in Nat
         /\ DecisionsAreNamed(files)
         /\ run.status # "Promoted" => run \in LiveRun
<1>1. run \in AnyRun /\ ValidRun(run)
  BY DEF IInv, TypeOK, LineageKept, MayStand
<1>2. run.status # "Promoted" => run \in LiveRun
  BY <1>1, LiveUnlessPromoted
<1>3. run.recovery \in Nat
  BY <1>1 DEF AnyRun, RunsWith
<1>4. QED
  BY <1>1, <1>2, <1>3 DEF IInv, TypeOK, LineageKept, DecisionsAreTaken, Evidence

\* A run and its parts.
LEMMA CandidateKeeps ==
  ASSUME NEW r \in AnyRun, PatchIsDecided(r), NEW c \in Candidate,
         c.phase = r.cand.phase, c.diff = r.cand.diff, NEW int, int = [r EXCEPT !.cand = c]
  PROVE  int \in AnyRun /\ int.recovery = r.recovery /\ PatchIsDecided(int)
<1>1. int \in AnyRun /\ int.recovery = r.recovery
  BY DEF AnyRun, RunsWith
<1>2. int.cand = c /\ int.policy = r.policy /\ int.steps = r.steps
  BY DEF AnyRun, RunsWith
<1>3. QED
  BY <1>1, <1>2 DEF PatchIsDecided, AtStep

LEMMA ProvisionKeeps ==
  ASSUME IInv, Provision
  PROVE  IInv'
<1> DEFINE int == [run EXCEPT !.cand.life = "active"]
<1>1. run \in AnyRun /\ PatchIsDecided(run)
  BY Known
<1>2. int \in AnyRun /\ PatchIsDecided(int) /\ int.recovery = run.recovery
  <2> DEFINE c == [run.cand EXCEPT !.life = "active"]
  <2>1. run.cand \in Candidate
    BY <1>1 DEF AnyRun, RunsWith
  <2>2. c \in Candidate /\ c.phase = run.cand.phase /\ c.diff = run.cand.diff
    BY <2>1 DEF Candidate
  <2>3. int = [run EXCEPT !.cand = c]
    BY <1>1 DEF AnyRun, RunsWith
  <2> HIDE DEF c, int
  <2>4. QED
    BY <1>1, <2>2, <2>3, CandidateKeeps
<1>3. /\ run' = int /\ files' = files /\ clock' \in Nat /\ MayStand(int, files)
  BY Known DEF Provision, Publish, PublishesFull
<1>4. QED
  BY <1>2, <1>3, Published

LEMMA BeginKeeps ==
  ASSUME IInv, NEW s \in ProviderNames, Begin(s)
  PROVE  IInv'
<1>1. run \in AnyRun /\ PatchIsDecided(run) /\ clock \in Nat /\ s \in StepNames
  BY Known, ProviderPositions
<1>2. run.steps[s].st = "Pending" /\ run' = Begun(s) /\ files' = files /\ clock' = clock
      /\ MayStand(Begun(s), files)
  BY DEF Begin, Publish, MayBegin, PublishesOrdinary
<1> DEFINE st == [run.steps EXCEPT ![s].st = "Running"]
<1>3. /\ Begun(s) \in AnyRun /\ Begun(s).recovery = run.recovery
      /\ Begun(s).cand = run.cand /\ Begun(s).policy = run.policy /\ Begun(s).steps = st
  <2>1. run.steps \in [StepNames ->
          [st : {"Pending", "Running", "Completed", "Passed", "Blocked", "Failed"}, art : Nat]]
    BY <1>1 DEF AnyRun, RunsWith
  <2>2. st \in [StepNames ->
          [st : {"Pending", "Running", "Completed", "Passed", "Blocked", "Failed"}, art : Nat]]
    BY <1>1, <2>1
  <2>3. Begun(s) = [run EXCEPT !.status = "Running", !.step = s, !.steps = st, !.updated = clock]
    BY <1>1 DEF AnyRun, RunsWith, Begun
  <2> HIDE DEF st
  <2>4. QED
    BY <1>1, <2>2, <2>3 DEF AnyRun, RunsWith
<1>4. PatchIsDecided(Begun(s))
  <2>1. \A t \in StepNames : t # s => st[t] = run.steps[t]
    BY <1>1 DEF AnyRun, RunsWith
  <2>2. st[s].st = "Running"
    BY <1>1 DEF AnyRun, RunsWith
  <2> HIDE DEF st
  <2>3. "development" \in StepNames
    BY PositionsOfLast
  <2>4. QED
    BY <1>1, <1>2, <1>3, <2>1, <2>2, <2>3 DEF PatchIsDecided, AtStep
<1>5. QED
  BY <1>1, <1>2, <1>3, <1>4, Published

\* The record the ledger goes on with.
LEMMA HeadIsEntry ==
  ASSUME IInv, NEW s \in ProviderNames
  PROVE  /\ HeadOf(s) # None => HeadOf(s) \in Entry /\ HeadOf(s) = Last(run.ledger)
         /\ Question(s) \in Entry
<1>1. run.ledger \in Seq(Entry)
  BY Known DEF AnyRun, RunsWith
<1>2. run.ledger # <<>> => Last(run.ledger) \in Entry
  BY <1>1 DEF Last
<1>3. HeadOf(s) # None => HeadOf(s) \in Entry /\ HeadOf(s) = Last(run.ledger)
  BY <1>2 DEF HeadOf
<1>4. LastAttempt(run.ledger, s) \in Nat
  BY <1>1, LastAttemptIs
<1>5. Question(s) \in Entry
  <2>1. CASE HeadOf(s) = None
    BY <1>4, <2>1 DEF Question, Entry
  <2>2. CASE HeadOf(s) # None
    <3> DEFINE head == HeadOf(s)
    <3>1. Question(s) = [head EXCEPT !.index = @ + 1, !.kind = "repair", !.phase = "request",
                                     !.outcome = None]
      BY <2>2 DEF Question
    <3>2. head \in Entry
      BY <1>3, <2>2
    <3> HIDE DEF head
    <3>3. head.index + 1 \in Nat
      BY <3>2 DEF Entry
    <3>4. Question(s) = [step |-> head.step, attempt |-> head.attempt, index |-> head.index + 1,
                         kind |-> "repair", phase |-> "request", outcome |-> None]
      BY <3>1, <3>2 DEF Entry
    <3>5. QED
      BY <3>2, <3>3, <3>4 DEF Entry
  <2>3. QED
    BY <2>1, <2>2
<1>6. QED
  BY <1>3, <1>5

LEMMA LedgerKeeps ==
  ASSUME IInv, NEW e \in Entry, NEW int, int = [run EXCEPT !.ledger = Append(@, e)],
         MayStand(int, files), run' = int, files' = files, clock' = clock
  PROVE  IInv'
<1>1. run \in AnyRun /\ PatchIsDecided(run) /\ clock \in Nat
  BY Known
<1>2. Append(run.ledger, e) \in Seq(Entry)
  BY <1>1 DEF AnyRun, RunsWith
<1>3. /\ int \in AnyRun /\ int.recovery = run.recovery
      /\ int.cand = run.cand /\ int.policy = run.policy /\ int.steps = run.steps
  BY <1>1, <1>2 DEF AnyRun, RunsWith
<1>4. PatchIsDecided(int)
  BY <1>1, <1>3 DEF PatchIsDecided, AtStep
<1>5. QED
  BY <1>1, <1>3, <1>4, Published

LEMMA AskKeeps ==
  ASSUME IInv, NEW s \in ProviderNames, Ask(s)
  PROVE  IInv'
<1>1. Question(s) \in Entry
  BY HeadIsEntry
<1>2. QED
  BY <1>1, LedgerKeeps DEF Ask, Publish, PublishesHead

LEMMA AnswerKeeps ==
  ASSUME IInv, NEW s \in ProviderNames, NEW outcome \in {"advance", "stop", "invalid"},
         Answer(s, outcome)
  PROVE  IInv'
<1> DEFINE head == HeadOf(s)
           e == [head EXCEPT !.phase = "response", !.outcome = outcome]
<1>1. head \in Entry
  BY HeadIsEntry DEF Answer, Publish, WantsAnswer
<1>2. run' = [run EXCEPT !.ledger = Append(@, e)] /\ files' = files /\ clock' = clock
      /\ MayStand([run EXCEPT !.ledger = Append(@, e)], files)
  BY DEF Answer, Publish, PublishesHead
<1> HIDE DEF head
<1>3. e \in Entry
  BY <1>1 DEF Entry
<1> HIDE DEF e
<1>4. QED
  BY <1>2, <1>3, LedgerKeeps

StepStates ==
  [StepNames -> [st : {"Pending", "Running", "Completed", "Passed", "Blocked", "Failed"}, art : Nat]]

LEMMA FinishKeeps ==
  ASSUME IInv, NEW s \in ProviderNames, NEW verdict \in {"Completed", "Passed", "Blocked", "Failed"},
         Finish(s, verdict)
  PROVE  IInv'
<1> DEFINE head == HeadOf(s)
           good == verdict \in {"Completed", "Passed"}
           a    == head.attempt
           st   == [run.steps EXCEPT ![s] = [st |-> verdict, art |-> IF good THEN a ELSE 0]]
           next == IF good THEN Steps[Position[s] + 1] ELSE s
           status == IF ~good THEN verdict
                     ELSE IF s = "output_review" THEN "AwaitingHumanReview" ELSE "Running"
           policy == IF s = "development" /\ head.outcome = "advance" THEN {a} ELSE run.policy
           int  == Finished(s, verdict)
<1>1. run \in AnyRun /\ PatchIsDecided(run) /\ clock \in Nat
  BY Known
<1>2. s \in StepNames /\ Steps[Position[s] + 1] \in StepNames /\ "development" \in StepNames
  BY ProviderPositions, PositionsOfLast
<1>3. /\ Working(s) /\ head # None /\ head.phase = "response" /\ verdict \in Verdicts(s)
      /\ run' = int /\ files' = files /\ clock' = clock /\ MayStand(int, files)
  BY DEF Finish, Publish, MayFinish, PublishesFinish, PublishesFull, PublishesOrdinary
<1>4. head \in Entry
  BY <1>3, HeadIsEntry
<1> HIDE DEF head
<1>5. a \in Nat /\ head.outcome \in {"advance", "stop", "invalid"}
  BY <1>3, <1>4 DEF Entry
<1>6. run.steps \in StepStates /\ run.policy \subseteq Nat
  BY <1>1 DEF AnyRun, RunsWith, StepStates
<1>7. st \in StepStates /\ st[s] = [st |-> verdict, art |-> IF good THEN a ELSE 0]
      /\ \A t \in StepNames \ {s} : st[t] = run.steps[t]
  BY <1>2, <1>5, <1>6 DEF StepStates
<1>8. int = [run EXCEPT !.steps = st, !.step = next, !.status = status, !.policy = policy,
                        !.updated = clock]
  BY <1>1 DEF Finished, head, AnyRun, RunsWith
<1>9. next \in StepNames /\ policy \subseteq Nat
      /\ status \in {"Blocked", "Failed", "AwaitingHumanReview", "Running"}
  BY <1>2, <1>5, <1>6
<1> HIDE DEF st, next, status, policy, int
<1>10. int \in AnyRun
  BY <1>1, <1>7, <1>8, <1>9 DEF AnyRun, RunsWith, StepStates
<1>11. /\ int.recovery = run.recovery /\ int.cand = run.cand /\ int.policy = policy
       /\ int.steps = st
  BY <1>1, <1>8 DEF AnyRun, RunsWith
<1>12. PatchIsDecided(int)
  <2>1. CASE s = "development"
    <3>1. verdict = "Completed" => head.outcome = "advance"
      <4>1. HeadOf(s).outcome = head.outcome
        BY DEF head
      <4>2. head.outcome = "stop" => verdict = "Blocked"
        BY <1>3, <4>1 DEF Verdicts
      <4>3. head.outcome = "invalid" => verdict = "Failed"
        BY <1>3, <4>1 DEF Verdicts
      <4>4. QED
        BY <1>5, <4>2, <4>3
    <3>2. verdict = "Completed" => policy = {a} /\ st[s].art = a
      BY <1>7, <2>1, <3>1 DEF policy
    <3>3. run.cand.phase = "none"
      BY <1>1, <1>3, <2>1 DEF Working, PatchIsDecided, AtStep
    <3>4. st[s].st = verdict
      BY <1>7
    <3>5. QED
      BY <1>11, <2>1, <3>2, <3>3, <3>4 DEF PatchIsDecided, AtStep
  <2>2. CASE s # "development"
    <3>1. st["development"] = run.steps["development"] /\ policy = run.policy
      BY <1>2, <1>7, <2>2 DEF policy
    <3>2. QED
      BY <1>1, <1>11, <3>1 DEF PatchIsDecided, AtStep
  <2>3. QED
    BY <2>1, <2>2
<1>13. QED
  BY <1>1, <1>3, <1>10, <1>11, <1>12, Published

LEMMA ApplyKeeps ==
  ASSUME IInv, NEW from, NEW to \in {"applying", "applied"}, Apply(from, to)
  PROVE  IInv'
<1> DEFINE c == [run.cand EXCEPT !.phase = to,
                                 !.diff = IF to = "applied" THEN run.steps["development"].art ELSE 0]
           int == ApplyTo(to)
<1>1. run \in AnyRun /\ PatchIsDecided(run) /\ clock \in Nat
  BY Known
<1>2. /\ AtStep(run, "development", "Completed")
      /\ run' = int /\ files' = files /\ clock' = clock /\ MayStand(int, files)
  BY DEF Apply, Publish, MayApply, PublishesFull
<1>3. run.cand \in Candidate /\ run.steps["development"].art \in Nat
  BY <1>1, PositionsOfLast DEF AnyRun, RunsWith
<1>4. /\ c \in Candidate /\ c.phase = to
      /\ c.diff = IF to = "applied" THEN run.steps["development"].art ELSE 0
  BY <1>3 DEF Candidate
<1>5. int = [run EXCEPT !.cand = c]
  BY <1>1, <1>3 DEF ApplyTo, AnyRun, RunsWith, Candidate
<1> HIDE DEF c, int
<1>6. /\ int \in AnyRun /\ int.recovery = run.recovery /\ int.cand = c
      /\ int.policy = run.policy /\ int.steps = run.steps
  BY <1>1, <1>4, <1>5 DEF AnyRun, RunsWith
<1>7. PatchIsDecided(int)
  BY <1>1, <1>2, <1>4, <1>6 DEF PatchIsDecided, AtStep
<1>8. QED
  BY <1>1, <1>2, <1>6, <1>7, Published

LEMMA ApproveKeeps ==
  ASSUME IInv, Approve
  PROVE  IInv'
<1> DEFINE a == [at |-> clock, diff |-> run.cand.diff,
                 policy |-> CHOOSE p \in run.policy : TRUE,
                 review |-> run.steps["output_review"].art,
                 request |-> ReviewRequest, response |-> Last(run.ledger)]
<1>1. run \in AnyRun /\ PatchIsDecided(run) /\ clock \in Nat
  BY Known
<1>2. /\ run' = Approved /\ files' = files /\ clock' = clock /\ MayStand(Approved, files)
  BY DEF Approve, Publish, PublishesFull
<1>3. Approved = [run EXCEPT !.status = "Approved", !.updated = clock, !.approval = a]
  BY DEF Approved
<1> HIDE DEF a
<1>4. /\ Approved.status = "Approved" /\ Approved.approval = a /\ Approved.ledger = run.ledger
      /\ Approved.policy = run.policy /\ Approved.recovery = run.recovery
      /\ Approved.cand = run.cand /\ Approved.steps = run.steps
  BY <1>1, <1>3 DEF AnyRun, RunsWith
<1>5. ReviewLedger(Approved) /\ ApprovalBinds(Approved)
  BY <1>2, <1>4 DEF MayStand, ValidRun, StatusIsEarned, AwaitsReview
<1>6. /\ run.ledger # <<>> /\ a.request \in ToSet(run.ledger) /\ run.policy = {a.policy}
  BY <1>4, <1>5 DEF ReviewLedger, ApprovalBinds
<1>7. run.ledger \in Seq(Entry) /\ run.policy \subseteq Nat /\ run.cand.diff \in Nat
      /\ run.steps["output_review"].art \in Nat
  BY <1>1, PositionsOfLast DEF AnyRun, RunsWith, Candidate
<1>8. a.request \in Entry /\ Last(run.ledger) \in Entry /\ a.policy \in Nat
  BY <1>6, <1>7 DEF ToSet, Last
<1>9. a \in Approval
  BY <1>1, <1>7, <1>8 DEF a, Approval
<1>10. Approved \in AnyRun
  BY <1>1, <1>3, <1>9 DEF AnyRun, RunsWith
<1>11. PatchIsDecided(Approved)
  BY <1>1, <1>4 DEF PatchIsDecided, AtStep
<1>12. QED
  BY <1>1, <1>2, <1>4, <1>10, <1>11, Published

\* The verdict of an evaluation changes nothing about the patch.
LEMMA ConcludeKeeps ==
  ASSUME IInv, Conclude
  PROVE  IInv'
<1> DEFINE e == files.evals[Attempt]
<1>1. run \in AnyRun /\ PatchIsDecided(run) /\ clock \in Nat /\ files \in Evidence
  BY Known
<1>2. /\ Attempt > 0 /\ run' = Concluded /\ files' = files /\ clock' = clock
      /\ MayStand(Concluded, files)
  BY DEF Conclude, Publish, PublishesFull, InProgress
<1>3. Attempt \in Nat /\ e \in Evaluation
  BY <1>1, <1>2 DEF Attempt, Evidence
<1>4. e.passed \in BOOLEAN /\ e.at \in Nat
  BY <1>3 DEF Evaluation
<1>5. /\ Concluded \in AnyRun /\ Concluded.recovery = run.recovery
      /\ Concluded.cand = run.cand /\ Concluded.policy = run.policy
      /\ Concluded.steps["development"] = run.steps["development"]
  <2> DEFINE P == Promotion \cup {None}
             i == FinishedRun(run, e.passed, Attempt, e.at)
  <2>1. run \in RunsWith(P) /\ Concluded = i
    BY <1>1 DEF AnyRun, Concluded
  <2>2. Attempt \in Nat /\ e.at \in Nat
    BY <1>3, <1>4
  <2> HIDE DEF P, e
  <2>3. /\ i \in RunsWith(P) /\ i.recovery = run.recovery /\ i.cand = run.cand /\ i.policy = run.policy
        /\ i.steps["development"] = run.steps["development"]
    BY <2>1, <2>2, FinishedFields
  <2> HIDE DEF i
  <2>4. QED
    BY <2>1, <2>3 DEF AnyRun, P
<1>6. PatchIsDecided(Concluded)
  BY <1>1, <1>5 DEF PatchIsDecided, AtStep
<1>7. QED
  BY <1>1, <1>2, <1>5, <1>6, Published

LEMMA PromoteKeeps ==
  ASSUME IInv, Promote
  PROVE  IInv'
<1> DEFINE p == [at |-> clock, passedAt |-> run.updated, diff |-> run.approval.diff,
                 policy |-> run.approval.policy, testing |-> run.steps["testing"].art,
                 report |-> run.report, predecessor |-> run]
<1>1. run \in AnyRun /\ PatchIsDecided(run) /\ clock \in Nat /\ ValidRun(run)
  BY Known
<1>2. /\ run.status = "EvalPassed"
      /\ run' = Promoted /\ files' = files /\ clock' = clock /\ MayStand(Promoted, files)
  BY DEF Promote, Publish, PublishesFull, MayPromote
<1>3. run.approval # None /\ run \in LiveRun
  BY <1>1, <1>2, Known DEF ValidRun, StatusIsEarned, ApprovalBinds
<1>4. run.approval.diff \in Nat /\ run.approval.policy \in Nat /\ run.updated \in Nat
      /\ run.steps["testing"].art \in Nat /\ run.report \in Nat
  BY <1>1, <1>3, PositionsOfLast DEF AnyRun, RunsWith, Approval
<1>5. p \in Promotion
  BY <1>1, <1>3, <1>4 DEF Promotion
<1>6. Promoted = [run EXCEPT !.status = "Promoted", !.updated = clock, !.promotion = p]
  BY DEF Promoted
<1> HIDE DEF p
<1>7. /\ Promoted \in AnyRun /\ Promoted.recovery = run.recovery /\ Promoted.cand = run.cand
      /\ Promoted.policy = run.policy /\ Promoted.steps = run.steps
  BY <1>1, <1>5, <1>6 DEF AnyRun, RunsWith
<1>8. PatchIsDecided(Promoted)
  BY <1>1, <1>7 DEF PatchIsDecided, AtStep
<1>9. QED
  BY <1>1, <1>2, <1>7, <1>8, Published

LEMMA CleanKeeps ==
  ASSUME IInv, CleanStart \/ CleanFinish
  PROVE  IInv'
<1>1. run \in AnyRun /\ PatchIsDecided(run) /\ clock \in Nat
  BY Known
<1>2. run.cand \in Candidate
  BY <1>1 DEF AnyRun, RunsWith
<1>3. CASE CleanStart
  <2> DEFINE c == [run.cand EXCEPT !.life = "cleaning", !.started = clock]
  <2>1. c \in Candidate /\ c.phase = run.cand.phase /\ c.diff = run.cand.diff
    BY <1>1, <1>2 DEF Candidate
  <2>2. Cleaning = [run EXCEPT !.cand = c]
    BY <1>1, <1>2 DEF Cleaning, AnyRun, RunsWith, Candidate
  <2> HIDE DEF c
  <2>3. run' = Cleaning /\ files' = files /\ clock' = clock /\ MayStand(Cleaning, files)
    BY <1>3 DEF CleanStart, Publish, PublishesFull
  <2>4. QED
    BY <1>1, <2>1, <2>2, <2>3, CandidateKeeps, Published
<1>4. CASE CleanFinish
  <2> DEFINE c == [run.cand EXCEPT !.life = "cleaned", !.cleaned = clock]
  <2>1. c \in Candidate /\ c.phase = run.cand.phase /\ c.diff = run.cand.diff
    BY <1>1, <1>2 DEF Candidate
  <2>2. Cleaned = [run EXCEPT !.cand = c]
    BY <1>1, <1>2 DEF Cleaned, AnyRun, RunsWith, Candidate
  <2> HIDE DEF c
  <2>3. run' = Cleaned /\ files' = files /\ clock' = clock /\ MayStand(Cleaned, files)
    BY <1>4 DEF CleanFinish, Publish, PublishesFull
  <2>4. QED
    BY <1>1, <2>1, <2>2, <2>3, CandidateKeeps, Published
<1>5. QED
  BY <1>3, <1>4

LEMMA TickKeeps ==
  ASSUME IInv, Tick
  PROVE  IInv'
<1>1. run \in AnyRun /\ PatchIsDecided(run) /\ clock \in Nat /\ MayStand(run, files)
  BY Known
<1>2. run' = run /\ files' = files /\ clock' \in Nat
  BY <1>1 DEF Tick
<1>3. QED
  BY <1>1, <1>2, Published

-----------------------------------------------------------------------------
(* The steps of the evaluation: evidence is written, run.json stays.       *)

LEMMA Written ==
  ASSUME IInv, NEW g \in Evidence, Grows(files, g), g.recoveries = files.recoveries,
         ~IsFinal(run), run' = run, files' = g, clock' = clock
  PROVE  IInv' /\ Grows(files, files')
<1>1. run.recovery \in 0 .. Len(files.recoveries)
  BY Known DEF Evidence
<1>2. MayStand(run, g) /\ ChainStands(run.recovery, g)
  BY <1>1, Known, StandsGrows
<1>3. TypeOK'
  BY DEF IInv, TypeOK, Evidence
<1>4. PatchIsDecided(run)' /\ DecisionsAreTaken' /\ DecisionsAreNamed(files)'
  BY DEF IInv, PatchIsDecided, DecisionsAreTaken, DecisionsAreNamed, AtStep
<1>5. LineageKept'
  BY <1>2 DEF LineageKept
<1>6. QED
  BY <1>3, <1>4, <1>5 DEF IInv

\* Another attempt leaves the recoveries.
LEMMA AttemptAppended ==
  ASSUME NEW f \in Evidence, NEW x \in Evaluation
  PROVE  /\ f.evals \in Seq(Evaluation)
         /\ [f EXCEPT !.evals = Append(f.evals, x)] \in Evidence
         /\ [f EXCEPT !.evals = Append(f.evals, x)].recoveries = f.recoveries
         /\ [f EXCEPT !.evals = Append(f.evals, x)].evals = Append(f.evals, x)
<1>1. f.evals \in Seq(Evaluation) /\ f.recoveries \in Seq(RecoveryDecision)
  BY DEF Evidence
<1>2. Append(f.evals, x) \in Seq(Evaluation)
  BY <1>1
<1>3. QED
  BY <1>1, <1>2 DEF Evidence

LEMMA IntendKeeps ==
  ASSUME IInv, Intend
  PROVE  IInv' /\ Grows(files, files')
<1> DEFINE e == [run |-> run, recovery |-> IF files.evals = <<>> THEN 0 ELSE run.recovery,
                 stage |-> "intent", passed |-> FALSE, at |-> 0]
           g == [files EXCEPT !.evals = Append(files.evals, e)]
<1>1. run.status = "Approved" /\ run' = run /\ files' = g /\ clock' = clock
  BY DEF Intend, MayEvaluate
<1>2. run \in LiveRun /\ run.recovery \in Nat /\ files \in Evidence
  BY <1>1, Known
<1>3. e \in Evaluation
  BY <1>2 DEF Evaluation
<1> HIDE DEF e
<1>4. /\ files.evals \in Seq(Evaluation) /\ g \in Evidence /\ g.recoveries = files.recoveries
      /\ g.evals = Append(files.evals, e)
  BY <1>2, <1>3, AttemptAppended
<1>5. Grows(files, g)
  <2>1. Len(g.evals) = Len(files.evals) + 1 /\ Len(files.evals) \in Nat
        /\ \A k \in 1 .. Len(files.evals) : g.evals[k] = files.evals[k] /\ files.evals[k] \in Evaluation
    BY <1>3, <1>4
  <2>2. Len(files.recoveries) \in Nat
    BY <1>2 DEF Evidence
  <2>3. \A k \in 1 .. Len(files.evals) :
          files.evals[k].stage # "intent" => files.evals[k].stage \in {"testing", "report"}
    BY <2>1 DEF Evaluation
  <2> HIDE DEF g
  <2>4. QED
    BY <1>4, <2>1, <2>2, <2>3 DEF Grows
<1>6. ~IsFinal(run)
  BY <1>1 DEF IsFinal
<1>7. QED
  BY <1>1, <1>4, <1>5, <1>6, Written

\* A later stage of the last attempt, which had no verdict or keeps it.
LEMMA StageKeeps ==
  ASSUME IInv, Attempt > 0, ~IsFinal(run), NEW e \in Evaluation,
         e.run = files.evals[Attempt].run, e.recovery = files.evals[Attempt].recovery,
         files.evals[Attempt].stage # "intent" =>
           e.stage \in {"testing", "report"} /\ e.passed = files.evals[Attempt].passed,
         run' = run, files' = [files EXCEPT !.evals[Attempt] = e], clock' = clock
  PROVE  IInv' /\ Grows(files, files')
<1> DEFINE g == [files EXCEPT !.evals[Attempt] = e]
<1>1. files \in Evidence /\ files.evals \in Seq(Evaluation) /\ Len(files.recoveries) \in Nat
  BY Known DEF Evidence
<1>2. Attempt \in DOMAIN files.evals /\ Attempt \in Nat /\ Attempt = Len(files.evals)
  BY <1>1 DEF Attempt
<1>3. /\ [files.evals EXCEPT ![Attempt] = e] \in Seq(Evaluation)
      /\ Len([files.evals EXCEPT ![Attempt] = e]) = Len(files.evals)
      /\ \A k \in 1 .. Len(files.evals) :
           [files.evals EXCEPT ![Attempt] = e][k] = IF k = Attempt THEN e ELSE files.evals[k]
  BY <1>1, <1>2, ExceptSeq
<1>4. g \in Evidence /\ g.recoveries = files.recoveries
      /\ g.evals = [files.evals EXCEPT ![Attempt] = e]
  BY <1>1, <1>3 DEF Evidence
<1>5. \A k \in 1 .. Len(files.evals) : files.evals[k] \in Evaluation
  BY <1>1
<1>6. \A k \in 1 .. Len(files.evals) :
        files.evals[k].stage # "intent" => files.evals[k].stage \in {"testing", "report"}
  BY <1>5 DEF Evaluation
<1> HIDE DEF g
<1>7. Grows(files, g)
  BY <1>1, <1>2, <1>3, <1>4, <1>6 DEF Grows
<1>8. QED
  BY <1>4, <1>7, Written DEF g

LEMMA TestKeeps ==
  ASSUME IInv, NEW passed \in BOOLEAN, Test(passed)
  PROVE  IInv' /\ Grows(files, files')
<1> DEFINE o == files.evals[Attempt]
           e == [o EXCEPT !.stage = "testing", !.passed = passed, !.at = clock]
<1>1. /\ run.status = "Approved" /\ Attempt > 0 /\ o.stage = "intent"
      /\ files' = [files EXCEPT !.evals[Attempt].stage = "testing",
                                !.evals[Attempt].passed = passed, !.evals[Attempt].at = clock]
      /\ run' = run /\ clock' = clock
  BY DEF Test, InProgress
<1>2. files \in Evidence /\ files.evals \in Seq(Evaluation) /\ clock \in Nat
  BY Known DEF Evidence
<1>3. Attempt \in DOMAIN files.evals /\ o \in Evaluation
  BY <1>1, <1>2 DEF Attempt
<1>4. e \in Evaluation /\ e.run = o.run /\ e.recovery = o.recovery
  BY <1>2, <1>3 DEF Evaluation
<1>5. files' = [files EXCEPT !.evals[Attempt] = e]
  BY <1>1, <1>2, <1>3 DEF Evidence, Evaluation
<1>6. ~IsFinal(run)
  BY <1>1 DEF IsFinal
<1> HIDE DEF e
<1>7. QED
  BY <1>1, <1>4, <1>5, <1>6, StageKeeps

LEMMA ReportKeeps ==
  ASSUME IInv, Report
  PROVE  IInv' /\ Grows(files, files')
<1> DEFINE o == files.evals[Attempt]
           e == [o EXCEPT !.stage = "report"]
<1>1. /\ run.status = "Approved" /\ Attempt > 0
      /\ files' = [files EXCEPT !.evals[Attempt].stage = "report"]
      /\ run' = run /\ clock' = clock
  BY DEF Report, InProgress
<1>2. files \in Evidence /\ files.evals \in Seq(Evaluation)
  BY Known DEF Evidence
<1>3. Attempt \in DOMAIN files.evals /\ o \in Evaluation
  BY <1>1, <1>2 DEF Attempt
<1>4. /\ e \in Evaluation /\ e.run = o.run /\ e.recovery = o.recovery
      /\ e.stage = "report" /\ e.passed = o.passed
  BY <1>3 DEF Evaluation
<1>5. files' = [files EXCEPT !.evals[Attempt] = e]
  BY <1>1, <1>2, <1>3 DEF Evidence, Evaluation
<1>6. ~IsFinal(run)
  BY <1>1 DEF IsFinal
<1> HIDE DEF e
<1>7. QED
  BY <1>1, <1>4, <1>5, <1>6, StageKeeps

-----------------------------------------------------------------------------
(* The recovery decisions.                                                 *)

LEMMA DecideIs ==
  ASSUME IInv, NEW r \in RecoveryDecision,
         r.kind # "revise" => r.attempt > 0, r.kind = "invalidate" => r.approved \in LiveRun
  PROVE  LET g == Decide(r) IN
         /\ g \in Evidence /\ g.evals = files.evals /\ Grows(files, g) /\ DecisionsAreNamed(g)
         /\ Len(g.recoveries) = run.recovery + 1 /\ g.recoveries[run.recovery + 1] = r
         /\ \A n \in 1 .. run.recovery : g.recoveries[n] = files.recoveries[n]
<1> DEFINE g == Decide(r)
           n == run.recovery
<1>1. /\ files \in Evidence /\ n = Len(files.recoveries) /\ n \in Nat /\ DecisionsAreNamed(files)
  BY Known
<1>2. /\ g.evals = files.evals /\ g.recoveries = Append(files.recoveries, r) /\ g \in Evidence
  BY <1>1 DEF Decide, Evidence
<1>3. /\ Len(g.recoveries) = n + 1 /\ g.recoveries[n + 1] = r /\ DOMAIN g.recoveries = 1 .. n + 1
      /\ \A k \in 1 .. n : g.recoveries[k] = files.recoveries[k]
  BY <1>1, <1>2 DEF Evidence
<1> HIDE DEF g
<1>4. Grows(files, g)
  <2>1. Len(files.evals) \in Nat /\ \A k \in 1 .. Len(files.evals) : files.evals[k] \in Evaluation
    BY <1>1 DEF Evidence
  <2>2. \A k \in 1 .. Len(files.evals) :
          files.evals[k].stage # "intent" => files.evals[k].stage \in {"testing", "report"}
    BY <2>1 DEF Evaluation
  <2> HIDE DEF n
  <2>3. QED
    BY <1>1, <1>2, <1>3, <2>1, <2>2 DEF Grows
<1>5. DecisionsAreNamed(g)
  <2>1. DOMAIN files.recoveries = 1 .. n
    BY <1>1 DEF Evidence
  <2>2. \A k \in 1 .. n + 1 : k \in 1 .. n \/ k = n + 1
    BY <1>1
  <2> HIDE DEF n
  <2>3. QED
    BY <1>1, <1>3, <2>1, <2>2 DEF DecisionsAreNamed
<1>6. QED
  BY <1>2, <1>3, <1>4, <1>5 DEF g

LEMMA Decided ==
  ASSUME IInv, NEW g \in Evidence, Len(g.recoveries) = run.recovery + 1, DecisionsAreNamed(g),
         NEW int \in AnyRun, int.recovery = run.recovery + 1, PatchIsDecided(int),
         MayStand(int, g), ChainStands(int.recovery, g), run' = int, files' = g, clock' = clock
  PROVE  IInv'
<1>1. TypeOK'
  BY DEF IInv, TypeOK, Evidence
<1>2. PatchIsDecided(run)' /\ DecisionsAreTaken' /\ DecisionsAreNamed(files)'
  BY DEF PatchIsDecided, DecisionsAreTaken, DecisionsAreNamed, AtStep
<1>3. LineageKept'
  BY DEF LineageKept
<1>4. QED
  BY <1>1, <1>2, <1>3 DEF IInv

\* Every group of a ledger starts with its initial request.
LEMMA GroupHasRequest ==
  ASSUME NEW l \in Seq(Entry), LedgerIsWellFormed(l), NEW i \in DOMAIN l
  PROVE  \E j \in DOMAIN l : IsInitialRequest(l[j]) /\ Group(l[j]) = Group(l[i])
<1> DEFINE S == {j \in DOMAIN l : Group(l[j]) = Group(l[i])}
<1>1. DOMAIN l = 1 .. Len(l) /\ Len(l) \in Nat
  OBVIOUS
<1>2. S \subseteq Nat /\ i \in S
  BY <1>1
<1>3. PICK j \in S : \A k \in S : j <= k
  BY <1>2, Least
<1>4. OpensGroup(l, j)
  <2>1. CASE j = 1
    BY <2>1 DEF OpensGroup
  <2>2. CASE j # 1
    <3>1. j - 1 \in DOMAIN l /\ ~(j <= j - 1)
      BY <1>1, <2>2
    <3>2. j - 1 \notin S
      BY <1>3, <3>1
    <3>3. QED
      BY <3>1, <3>2 DEF OpensGroup
  <2>3. QED
    BY <2>1, <2>2
<1>5. IsInitialRequest(l[j])
  BY <1>4 DEF LedgerIsWellFormed, GroupIsFresh
<1>6. QED
  BY <1>5

\* A revision that its command accepts follows from the decisions before it.
LEMMA RevisionStands ==
  ASSUME IInv, NEW s \in ProviderNames, MayRevise(s)
  PROVE  LET d == Revision(s)
             g == Decide(d) IN
         /\ d.kind = "revise" /\ d.source = run /\ d.step = s
         /\ g \in Evidence /\ Grows(files, g) /\ g.evals = files.evals /\ DecisionsAreNamed(g)
         /\ Len(g.recoveries) = run.recovery + 1 /\ g.recoveries[run.recovery + 1] = d
         /\ \A k \in 1 .. run.recovery : g.recoveries[k] = files.recoveries[k]
         /\ ChainStands(run.recovery + 1, g)
<1> DEFINE n == run.recovery
           d == Revision(s)
           g == Decide(d)
<1>1. /\ run \in AnyRun /\ files \in Evidence /\ clock \in Nat /\ ValidRun(run)
      /\ ChainStands(n, files) /\ n = Len(files.recoveries) /\ n \in Nat
      /\ DecisionsAreNamed(files)
  BY Known
<1>2. run \in LiveRun
  BY Known DEF MayRevise
<1>3. s \in StepNames
  BY ProviderPositions
<1>4. run.ledger \in Seq(Entry) /\ LastAttempt(run.ledger, s) \in Nat
  BY <1>1, LastAttemptIs DEF AnyRun, RunsWith
<1>5. /\ d \in RecoveryDecision /\ d.kind = "revise" /\ d.source = run /\ d.step = s
      /\ d.next = LastAttempt(run.ledger, s) + 1
  BY <1>1, <1>2, <1>3, <1>4 DEF Revision, RecoveryDecision
<1> HIDE DEF d
<1>6. /\ g \in Evidence /\ Grows(files, g) /\ g.evals = files.evals /\ DecisionsAreNamed(g)
      /\ Len(g.recoveries) = n + 1 /\ g.recoveries[n + 1] = d
      /\ \A k \in 1 .. n : g.recoveries[k] = files.recoveries[k]
  BY <1>5, DecideIs
<1> HIDE DEF g
<1>7. EntryStands(n + 1, g)
  <2>1. RevisionBinds(d)
    <3>1. PICK i \in DOMAIN run.ledger :
            /\ Group(run.ledger[i]) = <<s, LastAttempt(run.ledger, s)>>
            /\ run.ledger[i].phase = "response"
      BY DEF MayRevise
    <3>2. \E j \in DOMAIN run.ledger :
            IsInitialRequest(run.ledger[j]) /\ Group(run.ledger[j]) = Group(run.ledger[i])
      BY <1>1, <1>4, GroupHasRequest DEF ValidRun
    <3>3. d.next - 1 = LastAttempt(run.ledger, s)
      BY <1>4, <1>5
    <3>4. QED
      BY <1>5, <3>1, <3>2, <3>3 DEF RevisionBinds
  <2>2. n + 1 - 1 = n
    BY <1>1
  <2>3. QED
    BY <1>1, <1>5, <1>6, <2>1, <2>2 DEF EntryStands
<1>8. n + 1 > 1 => Consumed(g.recoveries[n + 1], n, g)
  <2>1. SUFFICES ASSUME n # 0 PROVE Consumed(d, n, g)
    BY <1>1, <1>6
  <2>2. n \in 1 .. Len(files.recoveries)
    BY <1>1, <2>1
  <2>3. files.recoveries[n].kind = "revise" /\ RecoveryIsConsumed
    BY <2>1 DEF MayRevise, Kind
  <2>4. RevisionIsConsumed(run, n, files, ChainStands(n, files))
    BY <2>1, <2>3 DEF RecoveryIsConsumed, Kind
  <2>5. ChainStands(n, files) = TRUE
    BY <1>1 DEF ChainStands
  <2>6. RevisionIsConsumed(run, n, files, TRUE)
    BY <2>4, <2>5
  <2>7. RevisionIsConsumed(run, n, g, TRUE)
    BY <1>1, <1>6, <2>2, <2>6, RevisionGrows
  <2>8. g.recoveries[n].kind = "revise"
    BY <1>1, <1>6, <2>2, <2>3
  <2>9. QED
    BY <1>5, <2>7, <2>8 DEF Consumed
<1>9. ChainStands(n + 1, g)
  <2>1. ChainStands(n, g)
    BY <1>1, <1>6, ChainGrows
  <2>2. \A m \in 1 .. n + 1 : m \in 1 .. n \/ (m = n + 1 /\ m - 1 = n)
    BY <1>1
  <2>3. QED
    BY <1>7, <1>8, <2>1, <2>2 DEF ChainStands
<1>10. QED
  BY <1>5, <1>6, <1>9 DEF d, g

LEMMA ReviseKeeps ==
  ASSUME IInv, NEW s \in ProviderNames, Revise(s)
  PROVE  /\ IInv' /\ Grows(files, files') /\ files.evals = <<>> /\ files'.evals = <<>>
         /\ run'.step = s /\ run'.status = "Pending" /\ run'.cand = run.cand
         /\ s = "output_review" => run'.approval = None
         /\ s # "output_review" => run'.approval = run.approval
<1> DEFINE n == run.recovery
           d == Revision(s)
           g == Decide(d)
           int == RevisedRun(run, s, n + 1, clock)
<1>1. /\ run \in AnyRun /\ files \in Evidence /\ clock \in Nat /\ ValidRun(run)
      /\ ChainStands(n, files) /\ PatchIsDecided(run) /\ n = Len(files.recoveries) /\ n \in Nat
      /\ DecisionsAreNamed(files)
  BY Known
<1>2. /\ MayRevise(s) /\ MayStand(int, g)
      /\ run' = int /\ files' = g /\ clock' = clock
  BY DEF Revise, Publish, PublishesRevision
<1>3. s \in StepNames /\ "development" \in StepNames
      /\ Position["output_review"] = Position["development"] + 1
      /\ Position["development"] \in Nat /\ Position[s] \in Nat
  BY ProviderPositions, PositionsOfLast, StepsAreListed
<1>4. /\ g \in Evidence /\ Grows(files, g) /\ g.evals = files.evals /\ DecisionsAreNamed(g)
      /\ Len(g.recoveries) = n + 1 /\ ChainStands(n + 1, g)
  BY <1>2, RevisionStands
<1> HIDE DEF d, g
<1>5. /\ int \in AnyRun /\ int.recovery = n + 1 /\ int.cand = run.cand
      /\ int.step = s /\ int.status = "Pending"
      /\ s = "output_review" => int.approval = None
      /\ s # "output_review" => int.approval = run.approval
      /\ Position[s] <= Position["development"] => int.steps["development"].st = "Pending"
      /\ Position["development"] < Position[s] =>
            int.policy = run.policy /\ int.steps["development"] = run.steps["development"]
  <2>1. /\ run \in AnyRun /\ clock \in Nat /\ n + 1 \in Nat
        /\ int = RevisedRun(run, s, n + 1, clock)
    BY <1>1
  <2> HIDE DEF n, int
  <2>2. /\ int \in AnyRun /\ int.recovery = n + 1 /\ int.cand = run.cand
        /\ int.step = s /\ int.status = "Pending"
        /\ Position[s] <= Position["development"] => int.steps["development"].st = "Pending"
        /\ ~(Position[s] <= Position["development"]) => int.policy = run.policy
        /\ Position["development"] < Position[s] =>
             int.steps["development"] = run.steps["development"]
    BY <2>1, RevisedIs, SMTT(60)
  <2>3. s = "output_review" => int.approval = None
    BY <2>1, RevisedIs, SMTT(60)
  <2>4. s # "output_review" => int.approval = run.approval
    BY <2>1, RevisedIs, SMTT(60)
  <2>7. QED
    BY <1>3, <2>2, <2>3, <2>4
<1> HIDE DEF int
<1>6. PatchIsDecided(int)
  <2>1. CASE s = "output_review"
    <3>0. Position["development"] < Position[s]
      BY <1>3, <2>1
    <3>1. int.steps["development"] = run.steps["development"] /\ int.policy = run.policy
      BY <3>0, <1>5
    <3>2. QED
      BY <1>1, <1>5, <3>1 DEF PatchIsDecided, AtStep
  <2>2. CASE s # "output_review"
    <3>1. run.cand.phase = "none" /\ Position[s] <= Position["development"]
      BY <1>2, <2>2 DEF MayRevise
    <3>2. int.steps["development"].st = "Pending"
      BY <1>3, <1>5, <3>1
    <3>3. QED
      BY <1>5, <3>1, <3>2 DEF PatchIsDecided, AtStep
  <2>3. QED
    BY <2>1, <2>2
<1>7. files.evals = <<>> /\ g.evals = <<>>
  BY <1>2, <1>4 DEF MayRevise
<1>8. QED
  BY <1>2, <1>4, <1>5, <1>6, <1>7, Decided

\* What an adoption that its command accepts writes.
LEMMA AdoptionIsWritten ==
  ASSUME IInv, MayAdopt
  PROVE  LET d == Adoption
             g == WithAdoption IN
         /\ run \in LiveRun /\ Attempt \in 1 .. Len(files.evals) /\ Attempt = Len(files.evals)
         /\ d \in RecoveryDecision /\ d.kind = "adopt" /\ d.source = run /\ d.attempt = Attempt
         /\ d.created = clock /\ d.passed = files.evals[Attempt].passed /\ d.passed \in BOOLEAN
         /\ g \in Evidence /\ Grows(files, g) /\ DecisionsAreNamed(g)
         /\ Len(g.recoveries) = run.recovery + 1 /\ g.recoveries[run.recovery + 1] = d
         /\ \A k \in 1 .. run.recovery : g.recoveries[k] = files.recoveries[k]
         /\ Len(g.evals) = Len(files.evals) /\ g.evals[Attempt].stage = "report"
         /\ g.evals[Attempt].passed = d.passed
<1> DEFINE n == run.recovery
           o == files.evals[Attempt]
           e == [o EXCEPT !.stage = "report"]
           h == Decide(Adoption)
           g == WithAdoption
<1>1. files \in Evidence /\ clock \in Nat /\ n \in Nat
  BY Known
<1>2. run.status = "Approved" /\ Attempt > 0 /\ o.stage # "intent"
  BY DEF MayAdopt
<1>3. run \in LiveRun
  BY <1>2, Known
<1>4. Attempt = Len(files.evals) /\ Attempt \in 1 .. Len(files.evals) /\ Attempt \in Nat
      /\ files.evals \in Seq(Evaluation)
  BY <1>1, <1>2 DEF Attempt, Evidence
<1>5. o \in Evaluation /\ e \in Evaluation
  <2>1. o \in Evaluation
    BY <1>4
  <2> HIDE DEF o
  <2>2. QED
    BY <2>1 DEF Evaluation
<1>6. /\ Adoption \in RecoveryDecision /\ Adoption.kind = "adopt" /\ Adoption.attempt = Attempt
      /\ Adoption.source = run /\ Adoption.created = clock /\ Adoption.passed = o.passed
      /\ o.passed \in BOOLEAN
  <2>1. o.passed \in BOOLEAN
    BY <1>5 DEF Evaluation
  <2>2. "testing" \in StepNames
    BY PositionsOfLast
  <2>3. QED
    BY <1>1, <1>3, <1>4, <2>1, <2>2 DEF Adoption, RecoveryDecision
<1>7. /\ h \in Evidence /\ Grows(files, h) /\ h.evals = files.evals /\ Len(h.recoveries) = n + 1
      /\ DecisionsAreNamed(h) /\ h.recoveries[n + 1] = Adoption
      /\ \A k \in 1 .. n : h.recoveries[k] = files.recoveries[k]
  BY <1>2, <1>6, DecideIs
<1>8. g = [h EXCEPT !.evals = [files.evals EXCEPT ![Attempt] = e]]
  <2>1. g = [h EXCEPT !.evals[Attempt].stage = "report"]
    BY DEF WithAdoption
  <2> HIDE DEF h, g
  <2>2. QED
    BY <1>4, <1>7, <2>1 DEF Evidence
<1> HIDE DEF g, h, e
<1>9. g \in Evidence /\ g.recoveries = h.recoveries /\ g.evals = [files.evals EXCEPT ![Attempt] = e]
  <2>1. [files.evals EXCEPT ![Attempt] = e] \in Seq(Evaluation)
    BY <1>4, <1>5, ExceptSeq
  <2>2. QED
    BY <1>7, <1>8, <2>1 DEF Evidence
<1>10. DecisionsAreNamed(g)
  BY <1>7, <1>9 DEF DecisionsAreNamed
<1>11. /\ Len(g.evals) = Len(files.evals)
       /\ \A k \in 1 .. Len(files.evals) : g.evals[k] = IF k = Attempt THEN e ELSE files.evals[k]
  BY <1>4, <1>5, <1>9, ExceptSeq
<1>12. /\ e.run = o.run /\ e.recovery = o.recovery /\ e.stage = "report" /\ e.passed = o.passed
  BY <1>5 DEF e, Evaluation
<1>13. Grows(files, g)
  BY <1>7, <1>9, <1>11, <1>12 DEF Grows
<1>14. g.evals[Attempt].stage = "report" /\ g.evals[Attempt].passed = o.passed
  BY <1>4, <1>11, <1>12
<1>15. QED
  BY <1>3, <1>4, <1>6, <1>7, <1>9, <1>10, <1>11, <1>13, <1>14 DEF g

LEMMA AdoptKeeps ==
  ASSUME IInv, Adopt
  PROVE  IInv' /\ Grows(files, files') /\ run'.approval = run.approval
<1> DEFINE n == run.recovery
           P == Promotion \cup {None}
           g == WithAdoption
           int == AdoptedRun(Adoption, n + 1)
<1>1. run \in RunsWith(P) /\ n \in Nat /\ PatchIsDecided(run)
  BY Known DEF AnyRun
<1>2. /\ MayAdopt /\ int.recovery = n + 1 /\ ChainStands(int.recovery, g) /\ MayStand(int, g)
      /\ run' = int /\ files' = g /\ clock' = clock
  BY DEF Adopt, Publish, PublishesAdoption
<1>3. /\ g \in Evidence /\ Grows(files, g) /\ DecisionsAreNamed(g) /\ Len(g.recoveries) = n + 1
      /\ Adoption \in RecoveryDecision /\ Adoption.source = run
  BY <1>2, AdoptionIsWritten
<1> HIDE DEF g, int
<1>4. /\ int \in AnyRun /\ int.cand = run.cand /\ int.policy = run.policy
      /\ int.approval = run.approval
      /\ int.steps["development"] = run.steps["development"]
  <2>1. Adoption.source \in RunsWith(P) /\ Adoption.attempt \in Nat /\ Adoption.created \in Nat
        /\ n + 1 \in Nat
    BY <1>1, <1>3 DEF RecoveryDecision
  <2> HIDE DEF P, n
  <2>2. /\ int \in RunsWith(P) /\ int.cand = Adoption.source.cand
        /\ int.policy = Adoption.source.policy /\ int.approval = Adoption.source.approval
        /\ int.steps["development"] = Adoption.source.steps["development"]
    BY <2>1, AdoptedFields DEF int
  <2>3. QED
    BY <1>3, <2>2 DEF AnyRun, P
<1>5. PatchIsDecided(int)
  BY <1>1, <1>4 DEF PatchIsDecided, AtStep
<1>6. QED
  BY <1>2, <1>3, <1>4, <1>5, Decided

\* The Approved run that an invalidation goes back to.
LEMMA SourceIsRun ==
  ASSUME IInv, MayInvalidate
  PROVE  InvalidationSource \in LiveRun /\ run \in LiveRun
<1>1. /\ run \in AnyRun /\ files \in Evidence /\ ValidRun(run) /\ MayStand(run, files)
      /\ run.recovery = Len(files.recoveries) /\ run.recovery \in Nat /\ DecisionsAreNamed(files)
  BY Known
<1>2. run \in LiveRun
  BY Known DEF MayInvalidate
<1>3. CASE run.status = "Approved"
  BY <1>2, <1>3 DEF InvalidationSource
<1>4. CASE run.status # "Approved"
  <2> DEFINE n == run.recovery
             r == files.recoveries[n]
             source == IF Kind(run, files) = "adopt" THEN r.source
                       ELSE InvalidatedRun(r.approved, n, r.created)
             approved == UnrecoveredApproved(run)
  <2>1. run.status = "Failed" /\ run.approval # None
    BY <1>4 DEF MayInvalidate
  <2>2. ApprovedOf(run, files) # None /\ InvalidationSource = ApprovedOf(run, files)
    BY <1>1, <1>4, <2>1 DEF MayStand, IsFinal, FinalStands, Evaluated, InvalidationSource
  <2>3. n # 0 => n \in DOMAIN files.recoveries /\ r \in RecoveryDecision
    BY <1>1 DEF Evidence
  <2>4. Kind(run, files) \in {"none", "revise", "adopt", "invalidate"}
    BY <2>3 DEF Kind, RecoveryDecision
  <2>5. approved \in LiveRun
    <3>1. run.approval \in Approval /\ run.cand \in Candidate
      BY <1>2, <2>1 DEF LiveRun, RunsWith
    <3>2. run.approval.at \in Nat
      BY <3>1 DEF Approval
    <3> DEFINE b == EvaluationReset(run)
               c == [run.cand EXCEPT !.life = "active", !.started = None, !.cleaned = None]
    <3>3. b \in LiveRun /\ b = [run EXCEPT !.steps = b.steps]
      BY <1>2, EvaluationResetFields DEF LiveRun
    <3>4. c \in Candidate
      BY <3>1 DEF Candidate
    <3> HIDE DEF b
    <3>5. b.cand = run.cand
      BY <1>2, <3>3 DEF LiveRun, RunsWith
    <3>6. approved = [b EXCEPT !.status = "Approved", !.step = "testing", !.report = 0,
                               !.updated = run.approval.at, !.cand.life = "active",
                               !.cand.started = None, !.cand.cleaned = None]
      BY DEF UnrecoveredApproved, b
    <3>7. approved = [b EXCEPT !.status = "Approved", !.step = "testing", !.report = 0,
                               !.updated = run.approval.at, !.cand = c]
      BY <3>3, <3>5, <3>6 DEF LiveRun, RunsWith
    <3> HIDE DEF c, approved
    <3>8. "testing" \in StepNames
      BY PositionsOfLast
    <3>9. QED
      BY <3>2, <3>3, <3>4, <3>7, <3>8 DEF LiveRun, RunsWith
  <2>6. Kind(run, files) = "adopt" => n # 0 /\ source \in LiveRun
    BY <2>3 DEF Kind, RecoveryDecision
  <2>7. Kind(run, files) = "invalidate" => source \in LiveRun
    <3>1. SUFFICES ASSUME Kind(run, files) = "invalidate" PROVE source \in LiveRun
      OBVIOUS
    <3>2. n # 0 /\ r.kind = "invalidate"
      BY <3>1 DEF Kind
    <3>3. r.approved \in LiveRun /\ r.created \in Nat
      BY <1>1, <2>3, <3>2 DEF DecisionsAreNamed, RecoveryDecision
    <3>4. n \in Nat /\ None \in {None}
      BY <1>1
    <3>5. InvalidatedRun(r.approved, n, r.created) \in LiveRun
      <4> DEFINE P == {None}
      <4>1. r.approved \in RunsWith(P) /\ None \in P
        BY <3>3 DEF LiveRun
      <4> HIDE DEF P
      <4>2. QED
        BY <3>3, <3>4, <4>1, InvalidatedFields
    <3>6. QED
      BY <3>1, <3>5
  <2>8. ApprovedOf(run, files) \in {approved, source, None}
    BY DEF ApprovedOf
  <2>9. Kind(run, files) \in {"none", "revise"} => ApprovedOf(run, files) = approved
    BY DEF ApprovedOf
  <2>10. QED
    BY <1>2, <2>2, <2>4, <2>5, <2>6, <2>7, <2>8, <2>9
<1>5. QED
  BY <1>2, <1>3, <1>4

LEMMA InvalidateKeeps ==
  ASSUME IInv, Invalidate
  PROVE  IInv' /\ Grows(files, files') /\ run'.approval = run.approval
<1> DEFINE n == run.recovery
           a == InvalidationSource
           g == Decide(Invalidation)
           int == InvalidatedRun(a, n + 1, clock)
<1>1. /\ run \in AnyRun /\ files \in Evidence /\ clock \in Nat /\ n \in Nat /\ PatchIsDecided(run)
  BY Known
<1>2. Invalidation.approved = a
  BY DEF Invalidation
<1>3. /\ MayInvalidate /\ Attempt > 0
      /\ int.recovery = n + 1 /\ ChainStands(int.recovery, g) /\ MayStand(int, g)
      /\ run' = int /\ files' = g /\ clock' = clock
  BY <1>2 DEF Invalidate, Publish, PublishesInvalidation, MayInvalidate
<1>4. a \in LiveRun /\ run \in LiveRun
  BY <1>3, SourceIsRun
<1>5. /\ Invalidation \in RecoveryDecision /\ Invalidation.kind = "invalidate"
      /\ Invalidation.attempt > 0 /\ Invalidation.source = run
  <2>1. Attempt \in Nat /\ "testing" \in StepNames
    BY <1>1, PositionsOfLast DEF Attempt, Evidence
  <2>2. QED
    BY <1>1, <1>3, <1>4, <2>1 DEF Invalidation, RecoveryDecision
<1>6. /\ g \in Evidence /\ Grows(files, g) /\ Len(g.recoveries) = n + 1 /\ DecisionsAreNamed(g)
      /\ g.recoveries[n + 1] = Invalidation
  BY <1>2, <1>4, <1>5, DecideIs
<1> HIDE DEF a, g
<1>7. /\ int \in LiveRun /\ int.cand = a.cand /\ int.policy = a.policy
      /\ int.approval = a.approval
      /\ int.steps["development"] = a.steps["development"]
  <2>1. n + 1 \in Nat /\ a \in RunsWith({None})
    BY <1>1, <1>4 DEF LiveRun
  <2> HIDE DEF n
  <2>2. QED
    BY <1>1, <2>1, InvalidatedFields DEF LiveRun
<1> HIDE DEF int
<1>8. /\ run.cand = a.cand /\ run.policy = a.policy /\ run.approval = a.approval
      /\ run.steps["development"] = a.steps["development"]
  <2>1. n + 1 \in 1 .. int.recovery
    BY <1>1, <1>3
  <2>2. EntryStands(n + 1, g)
    BY <1>3, <2>1 DEF ChainStands
  <2>3. InvalidationBinds(Invalidation, g)
    BY <1>5, <1>6, <2>2 DEF EntryStands
  <2> DEFINE b == EvaluationReset(run)
  <2>4. /\ run.cand = a.cand
        /\ \/ run = a
           \/ [b EXCEPT !.status = "Approved", !.step = "testing", !.updated = a.updated,
                        !.report = 0, !.promotion = None, !.recovery = a.recovery] = a
    BY <1>2, <1>5, <2>3 DEF InvalidationBinds
  <2>5. b \in LiveRun /\ b = [run EXCEPT !.steps = b.steps]
        /\ b.steps["development"] = run.steps["development"]
    BY <1>4, EvaluationResetFields, PositionsOfLast DEF LiveRun
  <2> HIDE DEF b
  <2>6. b.policy = run.policy /\ b.approval = run.approval
    BY <1>4, <2>5 DEF LiveRun, RunsWith
  <2>7. CASE run = a
    BY <2>7
  <2>8. CASE [b EXCEPT !.status = "Approved", !.step = "testing", !.updated = a.updated,
                       !.report = 0, !.promotion = None, !.recovery = a.recovery] = a
    <3>1. a.policy = b.policy /\ a.steps = b.steps /\ a.approval = b.approval
      BY <2>5, <2>8 DEF LiveRun, RunsWith
    <3>2. QED
      BY <2>4, <2>5, <2>6, <3>1
  <2>9. QED
    BY <2>4, <2>7, <2>8
<1>9. PatchIsDecided(int) /\ int \in AnyRun
  BY <1>1, <1>7, <1>8, LiveRunsAreRuns DEF PatchIsDecided, AtStep
<1>10. QED
  BY <1>3, <1>6, <1>7, <1>8, <1>9, Decided

-----------------------------------------------------------------------------
(* What holds of every run.                                                *)

LEMMA InitHolds ==
  ASSUME Init
  PROVE  IInv
<1>1. run = Pristine /\ files = [evals |-> <<>>, recoveries |-> <<>>] /\ clock = 0
  BY DEF Init
<1>2. Steps[1] \in StepNames /\ "development" \in StepNames
  <2>1. 1 \in DOMAIN Steps
    BY StepsAreListed
  <2>2. QED
    BY <2>1, PositionOfStep, PositionsOfLast
<1>3. /\ Pristine.status = "Pending" /\ Pristine.step = Steps[1]
      /\ \A s \in StepNames : Pristine.steps[s] = [st |-> "Pending", art |-> 0]
      /\ Pristine.cand = [life |-> "provisioning", phase |-> "none", diff |-> 0,
                          started |-> None, cleaned |-> None]
      /\ Pristine.policy = {} /\ Pristine.ledger = <<>> /\ Pristine.approval = None
      /\ Pristine.promotion = None /\ Pristine.report = 0 /\ Pristine.recovery = 0
  BY DEF Pristine
<1>4. Pristine \in AnyRun
  BY <1>2 DEF Pristine, AnyRun, RunsWith, Candidate
<1>5. TypeOK
  BY <1>1, <1>4 DEF TypeOK
<1>6. PatchIsDecided(run) /\ DecisionsAreTaken /\ DecisionsAreNamed(files)
  BY <1>1, <1>2, <1>3 DEF PatchIsDecided, DecisionsAreTaken, DecisionsAreNamed, AtStep
<1>7. ValidRun(Pristine)
  <2>1. LedgerIsWellFormed(Pristine.ledger)
    BY <1>3 DEF LedgerIsWellFormed
  <2>2. CandidateFitsRun(Pristine)
    BY <1>3 DEF CandidateFitsRun, CandidateIsWellFormed, CleanupTimes, Untouched
  <2>3. StatusIsEarned(Pristine)
    BY <1>3 DEF StatusIsEarned
  <2>4. QED
    BY <1>3, <2>1, <2>2, <2>3 DEF ValidRun
<1>8. MayStand(run, files)
  BY <1>1, <1>3, <1>7 DEF MayStand, LedgerStands, IsFinal
<1>9. ChainStands(run.recovery, files)
  BY <1>1, <1>3 DEF ChainStands
<1>10. QED
  BY <1>5, <1>6, <1>8, <1>9 DEF IInv, LineageKept

\* What a step does to the evidence and to the approval.
StepKeeps ==
  /\ Grows(files, files')
  /\ run.approval # None /\ run'.approval # run.approval =>
       /\ run'.approval = None /\ run'.step = "output_review" /\ run'.status = "Pending"
       /\ run'.cand = run.cand /\ files.evals = <<>> /\ files'.evals = <<>>

LEMMA EvidenceStands ==
  ASSUME IInv
  PROVE  Grows(files, files)
<1>1. Len(files.evals) \in Nat /\ Len(files.recoveries) \in Nat
      /\ \A k \in 1 .. Len(files.evals) : files.evals[k] \in Evaluation
  BY Known DEF Evidence
<1>2. \A k \in 1 .. Len(files.evals) :
        files.evals[k].stage # "intent" => files.evals[k].stage \in {"testing", "report"}
  BY <1>1 DEF Evaluation
<1>3. QED
  BY <1>1, <1>2 DEF Grows

LEMMA StepHolds ==
  ASSUME IInv, Next
  PROVE  IInv' /\ StepKeeps
<1>1. run \in AnyRun /\ ValidRun(run)
  BY Known
<1>2. ASSUME files' = files, run'.approval = run.approval PROVE StepKeeps
  BY <1>2, EvidenceStands DEF StepKeeps
<1>3. CASE Provision
  <2>1. files' = files /\ run'.approval = run.approval
    BY <1>1, <1>3 DEF Provision, Publish, AnyRun, RunsWith
  <2>2. QED
    BY <1>2, <1>3, <2>1, ProvisionKeeps
<1>4. ASSUME NEW s \in ProviderNames, Begin(s) PROVE IInv' /\ StepKeeps
  <2>1. files' = files /\ run'.approval = run.approval
    BY <1>1, <1>4 DEF Begin, Begun, Publish, AnyRun, RunsWith
  <2>2. QED
    BY <1>2, <1>4, <2>1, BeginKeeps
<1>5. ASSUME NEW s \in ProviderNames, Ask(s) PROVE IInv' /\ StepKeeps
  <2>1. files' = files /\ run'.approval = run.approval
    BY <1>1, <1>5 DEF Ask, Publish, AnyRun, RunsWith
  <2>2. QED
    BY <1>2, <1>5, <2>1, AskKeeps
<1>6. ASSUME NEW s \in ProviderNames, NEW outcome \in {"advance", "stop", "invalid"},
             Answer(s, outcome)
      PROVE  IInv' /\ StepKeeps
  <2>1. files' = files /\ run'.approval = run.approval
    BY <1>1, <1>6 DEF Answer, Publish, AnyRun, RunsWith
  <2>2. QED
    BY <1>2, <1>6, <2>1, AnswerKeeps
<1>7. ASSUME NEW s \in ProviderNames,
             NEW verdict \in {"Completed", "Passed", "Blocked", "Failed"}, Finish(s, verdict)
      PROVE  IInv' /\ StepKeeps
  <2>1. files' = files /\ run'.approval = run.approval
    BY <1>1, <1>7 DEF Finish, Finished, Publish, AnyRun, RunsWith
  <2>2. QED
    BY <1>2, <1>7, <2>1, FinishKeeps
<1>8. ASSUME NEW from, NEW to \in {"applying", "applied"}, Apply(from, to) PROVE IInv' /\ StepKeeps
  <2>1. files' = files /\ run'.approval = run.approval
    BY <1>1, <1>8 DEF Apply, ApplyTo, Publish, AnyRun, RunsWith
  <2>2. QED
    BY <1>2, <1>8, <2>1, ApplyKeeps
<1>9. CASE Approve
  <2>1. files' = files /\ run.approval = None
    BY <1>1, <1>9 DEF Approve, MayApprove, Publish, ValidRun, StatusIsEarned
  <2>2. QED
    BY <1>9, <2>1, ApproveKeeps, EvidenceStands DEF StepKeeps
<1>10. CASE Intend
  <2>1. run' = run
    BY <1>10 DEF Intend
  <2>2. QED
    BY <1>10, <2>1, IntendKeeps DEF StepKeeps
<1>11. ASSUME NEW passed \in BOOLEAN, Test(passed) PROVE IInv' /\ StepKeeps
  <2>1. run' = run
    BY <1>11 DEF Test
  <2>2. QED
    BY <1>11, <2>1, TestKeeps DEF StepKeeps
<1>12. CASE Report
  <2>1. run' = run
    BY <1>12 DEF Report
  <2>2. QED
    BY <1>12, <2>1, ReportKeeps DEF StepKeeps
<1>13. CASE Conclude
  <2>1. files' = files /\ run'.approval = run.approval
    BY <1>1, <1>13 DEF Conclude, Concluded, FinishedRun, Publish, AnyRun, RunsWith
  <2>2. QED
    BY <1>2, <1>13, <2>1, ConcludeKeeps
<1>14. CASE Promote
  <2>1. files' = files /\ run'.approval = run.approval
    BY <1>1, <1>14 DEF Promote, Promoted, Publish, AnyRun, RunsWith
  <2>2. QED
    BY <1>2, <1>14, <2>1, PromoteKeeps
<1>15. ASSUME NEW s \in ProviderNames, Revise(s) PROVE IInv' /\ StepKeeps
  BY <1>15, ReviseKeeps DEF StepKeeps
<1>16. CASE Adopt
  BY <1>16, AdoptKeeps DEF StepKeeps
<1>17. CASE Invalidate
  BY <1>17, InvalidateKeeps DEF StepKeeps
<1>18. CASE CleanStart \/ CleanFinish
  <2>1. files' = files /\ run'.approval = run.approval
    BY <1>1, <1>18 DEF CleanStart, CleanFinish, Cleaning, Cleaned, Publish, AnyRun, RunsWith
  <2>2. QED
    BY <1>2, <1>18, <2>1, CleanKeeps
<1>19. CASE Tick
  <2>1. files' = files /\ run' = run
    BY <1>19 DEF Tick
  <2>2. QED
    BY <1>2, <1>19, <2>1, TickKeeps
<1>20. QED
  BY <1>3, <1>4, <1>5, <1>6, <1>7, <1>8, <1>9, <1>10, <1>11, <1>12, <1>13, <1>14, <1>15, <1>16,
     <1>17, <1>18, <1>19 DEF Next, Step, Decision

LEMMA StutterHolds ==
  ASSUME IInv, UNCHANGED vars
  PROVE  IInv' /\ StepKeeps
<1>1. run' = run /\ files' = files /\ clock' = clock
  BY DEF vars
<1>2. run \in AnyRun /\ PatchIsDecided(run) /\ clock \in Nat /\ MayStand(run, files)
  BY Known
<1>3. QED
  BY <1>1, <1>2, Published, EvidenceStands DEF StepKeeps

\* The inductive invariant holds in every reachable state of every instance.
THEOREM IInvHolds == Spec => []IInv
<1>1. Init => IInv
  BY InitHolds
<1>2. IInv /\ [Next]_vars => IInv'
  BY StepHolds, StutterHolds
<1>3. QED
  BY <1>1, <1>2, PTL DEF Spec

\* The run on disk can always be read back with every decision behind it: what the
\* publication authenticated once, the evidence written since has not put in doubt.
THEOREM LineageHolds == Spec => []LineageKept
<1>1. IInv => LineageKept
  BY DEF IInv
<1>2. QED
  BY <1>1, IInvHolds, PTL

\* A decision is never changed or taken back, and an evaluation attempt that has a
\* verdict keeps the verdict and the run it is of.
THEOREM EvidenceOnlyGrows == Spec => [][Grows(files, files')]_vars
<1>1. IInv /\ [Next]_vars => [Grows(files, files')]_vars
  BY StepHolds DEF StepKeeps
<1>2. QED
  BY <1>1, IInvHolds, PTL DEF Spec

\* An approval is given up for one thing only, another review of the same patch, and
\* never after an evaluation of what it approved has been recorded.
THEOREM ApprovalKept == Spec => ApprovalStays
<1> DEFINE Kept ==
      run.approval # None /\ run'.approval # run.approval =>
        /\ run'.approval = None /\ run'.step = "output_review" /\ run'.status = "Pending"
        /\ run'.cand = run.cand /\ files.evals = <<>> /\ files'.evals = <<>>
<1>1. IInv /\ [Next]_vars => [Kept]_vars
  BY StepHolds DEF StepKeeps
<1> HIDE DEF Kept
<1>2. Spec => [][Kept]_vars
  BY <1>1, IInvHolds, PTL DEF Spec
<1>3. QED
  BY <1>2 DEF ApprovalStays, Kept

\* The Approved run behind a final one differs from it in nothing that was approved.
LEMMA ApprovedIs ==
  ASSUME NEW f \in Evidence, NEW r \in LiveRun, r.approval # None, r.recovery <= Len(f.recoveries),
         ApprovedOf(r, f) # None, CleanupTimes(r.cand), r.cand.life = "active"
  PROVE  ApprovedOf(r, f).approval = r.approval /\ ApprovedOf(r, f).cand = r.cand
<1> DEFINE n == r.recovery
           d == f.recoveries[n]
           approved == UnrecoveredApproved(r)
           source == IF Kind(r, f) = "adopt" THEN d.source
                     ELSE InvalidatedRun(d.approved, n, d.created)
           c == [r.cand EXCEPT !.life = "active", !.started = None, !.cleaned = None]
           b == EvaluationReset(r)
<1>1. r.cand \in Candidate /\ r.approval \in Approval
  BY DEF LiveRun, RunsWith
<1>2. c = r.cand
  BY <1>1 DEF CleanupTimes, Candidate
<1>3. b \in LiveRun /\ b = [r EXCEPT !.steps = b.steps]
  BY EvaluationResetFields DEF LiveRun
<1>4. approved = [b EXCEPT !.status = "Approved", !.step = "testing", !.report = 0,
                           !.updated = r.approval.at, !.cand.life = "active",
                           !.cand.started = None, !.cand.cleaned = None]
  BY DEF UnrecoveredApproved
<1> HIDE DEF b
<1>5. b.cand = r.cand /\ b.approval = r.approval
  BY <1>3 DEF LiveRun, RunsWith
<1>6. [b.cand EXCEPT !.life = "active", !.started = None, !.cleaned = None] = c
  BY <1>5
<1> HIDE DEF c
<1>7. approved = [b EXCEPT !.status = "Approved", !.step = "testing", !.report = 0,
                           !.updated = r.approval.at, !.cand = c]
  BY <1>3, <1>4, <1>6 DEF LiveRun, RunsWith
<1> HIDE DEF approved, c
<1>8. approved.approval = r.approval /\ approved.cand = r.cand
  BY <1>2, <1>3, <1>5, <1>7 DEF LiveRun, RunsWith
<1>9. \/ ApprovedOf(r, f) = approved
      \/ /\ ApprovedOf(r, f) = source
         /\ source = [approved EXCEPT !.recovery = source.recovery, !.updated = source.updated]
  BY DEF ApprovedOf, approved
<1> HIDE DEF source
<1>10. ASSUME source = [approved EXCEPT !.recovery = source.recovery, !.updated = source.updated]
       PROVE  source.approval = approved.approval /\ source.cand = approved.cand
  BY <1>3, <1>7, <1>10 DEF LiveRun, RunsWith
<1>11. QED
  BY <1>8, <1>9, <1>10

LEMMA PromotedHolds ==
  ASSUME IInv
  PROVE  PromotedIsEarned
<1> DEFINE final == Predecessor(run)
           a == final.steps["testing"].art
           e == Last(files.evals)
<1>1. SUFFICES ASSUME run.status = "Promoted"
               PROVE  /\ run.policy = {run.cand.diff} /\ run.approval.diff = run.cand.diff
                      /\ run.steps["development"].art = run.cand.diff
                      /\ run.approval.response = Last(run.ledger) /\ Last(run.ledger).outcome = "advance"
                      /\ e.passed /\ e.run.approval = run.approval /\ e.run.cand = run.cand
  BY DEF PromotedIsEarned
<1>2. /\ run \in AnyRun /\ files \in Evidence /\ ValidRun(run) /\ MayStand(run, files)
      /\ PatchIsDecided(run) /\ run.recovery = Len(files.recoveries) /\ run.recovery \in Nat
  BY Known
<1>3. FinalRun(run, TRUE) /\ ApprovalBinds(run) /\ PromotionBinds(run)
  BY <1>1, <1>2 DEF ValidRun, StatusIsEarned
<1>4. /\ run.cand.phase = "applied" /\ run.cand.life = "active"
      /\ AtStep(run, "development", "Completed")
  BY <1>3 DEF FinalRun
<1>5. run.policy = {run.cand.diff} /\ run.steps["development"].art = run.cand.diff
  BY <1>2, <1>4 DEF PatchIsDecided
<1>6. /\ run.approval # None /\ run.approval.diff = run.cand.diff
      /\ run.approval.response = Last(run.ledger)
  BY <1>3 DEF ApprovalBinds
<1>7. Last(run.ledger).outcome = "advance"
  BY <1>2, <1>6 DEF MayStand, ReviewStands
<1>8. /\ a = Len(files.evals) /\ ApprovedOf(final, files) # None
      /\ files.evals[a].run = ApprovedOf(final, files)
      /\ files.evals[a].passed = (final.status = "EvalPassed")
  BY <1>1, <1>2 DEF MayStand, IsFinal, FinalStands, Evaluated
<1>9. /\ final \in LiveRun /\ final.status = "EvalPassed" /\ final.approval = run.approval
      /\ final.cand = run.cand /\ final.recovery = run.recovery
  <2>1. run.promotion \in Promotion
    BY <1>2, <1>3 DEF AnyRun, RunsWith, PromotionBinds
  <2>2. run.promotion.passedAt \in Nat
    BY <2>1 DEF Promotion
  <2>3. QED
    BY <1>2, <2>2 DEF Predecessor, AnyRun, LiveRun, RunsWith
<1> HIDE DEF final
<1>10. e = files.evals[a]
  BY <1>8 DEF Last
<1>11. e.passed
  BY <1>8, <1>9, <1>10
<1>12. CleanupTimes(run.cand)
  BY <1>2 DEF ValidRun, CandidateFitsRun, CandidateIsWellFormed
<1>13. final.recovery <= Len(files.recoveries)
  BY <1>2, <1>9
<1>14. ApprovedOf(final, files).approval = run.approval /\ ApprovedOf(final, files).cand = run.cand
  BY <1>2, <1>4, <1>6, <1>8, <1>9, <1>12, <1>13, ApprovedIs
<1>15. QED
  BY <1>5, <1>6, <1>7, <1>8, <1>10, <1>11, <1>14

\* A promoted run went through every gate with one and the same patch.
THEOREM PromotionEarned == Spec => []PromotedIsEarned
<1>1. IInv => PromotedIsEarned
  BY PromotedHolds
<1>2. QED
  BY <1>1, IInvHolds, PTL

-----------------------------------------------------------------------------
(* What the writers rely on is kept by every step.                         *)

\* What a run looks like.
LEMMA LifeFacts ==
  ASSUME LifeInv
  PROVE  /\ run.ledger \in Seq(Entry) /\ run.steps \in StepStates /\ run.step \in StepNames
         /\ run.status \in {"Pending", "Running", "Blocked", "Failed", "AwaitingHumanReview",
                            "Approved", "EvalPassed", "Promoted"}
         /\ run.cand \in Candidate /\ run.approval \in Approval \cup {None} /\ run.updated \in Nat
         /\ run.policy \subseteq Nat /\ run.report \in Nat
         /\ run.status \notin {"Approved", "EvalPassed", "Promoted", "Failed"} => run.approval = None
         /\ run.status \in {"Approved", "EvalPassed", "Promoted"} => run.approval # None
         /\ run.ledger # <<>> => Last(run.ledger) \in Entry
<1>1. run \in AnyRun /\ ValidRun(run)
  BY Known DEF LifeInv
<1>2. /\ run.ledger \in Seq(Entry) /\ run.steps \in StepStates /\ run.step \in StepNames
      /\ run.status \in {"Pending", "Running", "Blocked", "Failed", "AwaitingHumanReview",
                         "Approved", "EvalPassed", "Promoted"}
      /\ run.cand \in Candidate /\ run.approval \in Approval \cup {None} /\ run.updated \in Nat
      /\ run.policy \subseteq Nat /\ run.report \in Nat
  BY <1>1 DEF AnyRun, RunsWith, StepStates
<1>3. run.status \notin {"Approved", "EvalPassed", "Promoted", "Failed"} => run.approval = None
  BY <1>1, <1>2 DEF ValidRun, StatusIsEarned
<1>4. run.status \in {"Approved", "EvalPassed", "Promoted"} => run.approval # None
  BY <1>1 DEF ValidRun, StatusIsEarned, ApprovalBinds
<1>5. run.ledger # <<>> => Last(run.ledger) \in Entry
  BY <1>2 DEF Last
<1>6. QED
  BY <1>2, <1>3, <1>4, <1>5

LEMMA PositionsDiffer ==
  /\ \A t \in StepNames : Position[t] \in Nat
  /\ \A t, u \in StepNames : Position[t] = Position[u] => t = u
  BY PositionOfStep, StepsAreListed

\* The step that may run is the current one.
LEMMA RunnableIs ==
  ASSUME LifeInv, NEW s \in ProviderNames, Runnable(s)
  PROVE  run.step = s /\ IsOpen /\ run.approval = None /\ run.status \in {"Pending", "Running"}
<1>1. run.status \in {"Pending", "Running"} /\ run.approval = None /\ IsOpen
  BY LifeFacts DEF Runnable, IsOpen
<1>2. run.step \in StepNames /\ s \in StepNames
  BY LifeFacts, ProviderPositions
<1>3. /\ run.steps[run.step].st \in {"Pending", "Running"}
      /\ Position[s] < Position[run.step] => run.steps[s].st \in Good
  BY <1>1, <1>2 DEF LifeInv, StepsInOrder
<1>4. ~(Position[run.step] < Position[s])
  BY <1>2, <1>3 DEF Runnable
<1>5. ~(Position[s] < Position[run.step])
  BY <1>3 DEF Runnable, Good
<1>6. QED
  BY <1>1, <1>2, <1>4, <1>5, PositionsDiffer

\* A step that leaves the cursor.
LEMMA StepsKept ==
  ASSUME StepsInOrder, run'.status = run.status, run'.step = run.step, run'.steps = run.steps,
         run'.report = run.report, run'.approval = run.approval
  PROVE  StepsInOrder'
  BY DEF StepsInOrder, IsOpen

LEMMA KindKept ==
  ASSUME run'.recovery = run.recovery, files'.recoveries = files.recoveries
  PROVE  Kind(run', files') = Kind(run, files)
  BY DEF Kind

\* A step that leaves the ledger, and the current step where there is one.
LEMMA LedgerKept ==
  ASSUME LedgerLeads, run'.recovery = run.recovery, files'.recoveries = files.recoveries,
         run'.ledger = run.ledger,
         IsOpen' => /\ IsOpen /\ run'.step = run.step
                    /\ run'.status \in {"Blocked", "Failed"} => run.status \in {"Blocked", "Failed"}
  PROVE  LedgerLeads'
<1>1. Kind(run', files') = Kind(run, files)
  BY KindKept
<1>2. PendingRevision' <=> PendingRevision
  BY <1>1 DEF PendingRevision
<1>3. QED
  BY <1>1, <1>2 DEF LedgerLeads

\* A step that leaves the decisions, of a run that is not Approved after it.
LEMMA DecisionsKept ==
  ASSUME DecisionsFit, run'.recovery = run.recovery, files'.recoveries = files.recoveries,
         IsFinal(run) => IsFinal(run'), run.approval # None => run'.approval # None,
         run'.status # "Approved"
  PROVE  DecisionsFit'
<1>1. Kind(run', files') = Kind(run, files)
  BY KindKept
<1>2. QED
  BY <1>1 DEF DecisionsFit

LEMMA AttemptsKept ==
  ASSUME AttemptsFit, files \in Evidence, clock \in Nat, clock' \in Nat, clock <= clock',
         files'.evals = files.evals,
         run'.updated \in {run.updated, clock'}, run.updated \in Nat
  PROVE  AttemptsFit'
<1>1. \A k \in DOMAIN files.evals : files.evals[k].at \in Nat
  <2>1. \A k \in DOMAIN files.evals : files.evals[k] \in Evaluation
    BY DEF Evidence
  <2>2. QED
    BY <2>1 DEF Evaluation
<1>2. \A k \in DOMAIN files.evals : files.evals[k].at <= clock'
  BY <1>1 DEF AttemptsFit
<1>3. run'.updated <= clock'
  BY DEF AttemptsFit
<1>4. QED
  BY <1>2, <1>3 DEF AttemptsFit

LEMMA ProvisionLives ==
  ASSUME LifeInv, Provision
  PROVE  LifeInv'
<1>1. IInv' /\ run \in AnyRun /\ files \in Evidence /\ clock \in Nat /\ ValidRun(run)
  BY Known, ProvisionKeeps DEF LifeInv
<1>2. /\ run' = [run EXCEPT !.cand.life = "active"] /\ files' = files /\ clock' = clock
      /\ run.cand.life = "provisioning"
  BY DEF Provision, Publish
<1>3. run.status = "Pending"
  BY <1>1, <1>2 DEF ValidRun, CandidateFitsRun, Untouched
<1>4. /\ run'.status = run.status /\ run'.step = run.step /\ run'.steps = run.steps
      /\ run'.report = run.report /\ run'.approval = run.approval /\ run'.ledger = run.ledger
      /\ run'.recovery = run.recovery /\ run'.updated = run.updated
  BY <1>1, <1>2 DEF AnyRun, RunsWith
<1>5. StepsInOrder'
  BY <1>4, StepsKept DEF LifeInv
<1>6. LedgerLeads'
  BY <1>2, <1>4, LedgerKept DEF LifeInv, IsOpen
<1>7. DecisionsFit'
  BY <1>2, <1>3, <1>4, DecisionsKept DEF LifeInv, IsFinal
<1>8. AttemptsFit'
  BY <1>1, <1>2, <1>4, LifeFacts, AttemptsKept DEF LifeInv
<1>9. QED
  BY <1>1, <1>5, <1>6, <1>7, <1>8 DEF LifeInv

LEMMA BeginLives ==
  ASSUME LifeInv, NEW s \in ProviderNames, Begin(s)
  PROVE  LifeInv'
<1>1. IInv' /\ run \in AnyRun /\ files \in Evidence /\ clock \in Nat
  BY Known, BeginKeeps DEF LifeInv
<1>2. /\ run' = Begun(s) /\ files' = files /\ clock' = clock /\ Runnable(s)
  BY DEF Begin, Publish, MayBegin
<1>3. s = run.step /\ IsOpen /\ run.approval = None /\ s \in StepNames
  BY <1>2, RunnableIs, ProviderPositions
<1> DEFINE st == [run.steps EXCEPT ![s].st = "Running"]
<1>4. run.steps \in StepStates
  BY LifeFacts
<1>5. Begun(s) = [run EXCEPT !.status = "Running", !.step = s, !.steps = st, !.updated = clock]
  BY <1>1 DEF AnyRun, RunsWith, Begun
<1>6. st[s].st = "Running" /\ \A t \in StepNames : t # s => st[t] = run.steps[t]
  BY <1>3, <1>4 DEF StepStates
<1> HIDE DEF st
<1>7. /\ run'.status = "Running" /\ run'.step = run.step /\ run'.steps = st
      /\ run'.report = run.report /\ run'.approval = run.approval /\ run'.ledger = run.ledger
      /\ run'.recovery = run.recovery /\ run'.updated = clock
  BY <1>1, <1>2, <1>3, <1>5 DEF AnyRun, RunsWith
<1>8. StepsInOrder'
  <2>1. \A t \in StepNames :
          /\ Position[t] < Position[s] => t # s
          /\ Position[s] < Position[t] => t # s
    BY <1>3, PositionsDiffer
  <2>2. QED
    BY <1>3, <1>6, <1>7, <2>1 DEF LifeInv, StepsInOrder
<1>9. LedgerLeads'
  BY <1>2, <1>3, <1>7, LedgerKept DEF LifeInv
<1>10. DecisionsFit'
  BY <1>2, <1>3, <1>7, DecisionsKept DEF LifeInv, IsFinal, IsOpen
<1>11. AttemptsFit'
  BY <1>1, <1>2, <1>7, LifeFacts, AttemptsKept DEF LifeInv
<1>12. QED
  BY <1>1, <1>8, <1>9, <1>10, <1>11 DEF LifeInv

\* The last attempt of a ledger that goes on with a record of it, or of a later one.
LEMMA LastAttemptAppended ==
  ASSUME NEW l \in Seq(Entry), NEW e \in Entry, LastAttempt(l, e.step) <= e.attempt
  PROVE  LastAttempt(Append(l, e), e.step) = e.attempt
<1> DEFINE m == Append(l, e)
           a == LastAttempt(m, e.step)
<1>1. /\ m \in Seq(Entry) /\ Len(l) \in Nat /\ DOMAIN l = 1 .. Len(l) /\ DOMAIN m = 1 .. Len(l) + 1
      /\ m[Len(l) + 1] = e /\ \A i \in 1 .. Len(l) : m[i] = l[i]
  OBVIOUS
<1> HIDE DEF m
<1>2. Len(l) + 1 \in DOMAIN m /\ a \in Nat /\ e.attempt <= a
  BY <1>1, LastAttemptIs
<1>3. PICK i \in DOMAIN m : Group(m[i]) = <<e.step, a>>
  BY <1>1, <1>2, LastAttemptIs
<1>4. e.attempt \in Nat /\ m[i].step = e.step /\ m[i].attempt = a
  BY <1>3 DEF Entry, Group
<1>5. CASE i = Len(l) + 1
  BY <1>1, <1>4, <1>5 DEF m
<1>6. CASE i # Len(l) + 1
  <2>1. i \in DOMAIN l /\ m[i] = l[i]
    BY <1>1, <1>6
  <2>2. a <= LastAttempt(l, e.step) /\ LastAttempt(l, e.step) \in Nat
    BY <1>4, <2>1, LastAttemptIs
  <2>3. a = e.attempt
    BY <1>2, <1>4, <2>2
  <2>4. QED
    BY <2>3 DEF m
<1>7. QED
  BY <1>5, <1>6

\* A record that the step at work adds to the ledger.
LEMMA RecordLives ==
  ASSUME LifeInv, NEW s \in ProviderNames, Working(s), NEW e \in Entry, e.step = s,
         LastAttempt(run.ledger, s) <= e.attempt,
         run' = [run EXCEPT !.ledger = Append(@, e)], files' = files, clock' = clock, IInv'
  PROVE  LifeInv'
<1>1. run \in AnyRun /\ files \in Evidence /\ clock \in Nat /\ run.ledger \in Seq(Entry)
  BY Known, LifeFacts DEF LifeInv
<1>2. s = run.step /\ IsOpen /\ run.approval = None /\ run.status \in {"Pending", "Running"}
  BY RunnableIs DEF Working
<1>3. /\ run'.status = run.status /\ run'.step = run.step /\ run'.steps = run.steps
      /\ run'.report = run.report /\ run'.approval = run.approval
      /\ run'.ledger = Append(run.ledger, e)
      /\ run'.recovery = run.recovery /\ run'.updated = run.updated
  BY <1>1 DEF AnyRun, RunsWith
<1>4. /\ Len(run'.ledger) = Len(run.ledger) + 1 /\ Len(run.ledger) \in Nat
      /\ run'.ledger # <<>> /\ Last(run'.ledger) = e
  BY <1>1, <1>3 DEF Last
<1>5. StepsInOrder'
  BY <1>3, StepsKept DEF LifeInv
<1>6. LedgerLeads'
  <2>1. Kind(run', files') = Kind(run, files)
    BY <1>3, KindKept
  <2> DEFINE old == files.recoveries[run.recovery].source.ledger
  <2>2. Kind(run, files) = "revise" => Len(old) <= Len(run.ledger) /\ Len(old) \in Nat
    <3>1. SUFFICES ASSUME Kind(run, files) = "revise" PROVE Len(old) \in Nat
      BY DEF LifeInv, LedgerLeads
    <3>2. run.recovery \in DOMAIN files.recoveries
      BY <1>1, <3>1, Known DEF LifeInv, Kind, Evidence
    <3>3. files.recoveries[run.recovery] \in RecoveryDecision
      BY <1>1, <3>2 DEF Evidence
    <3>4. old \in Seq(Entry)
      BY <3>3 DEF RecoveryDecision, LiveRun, RunsWith
    <3> HIDE DEF old
    <3>5. QED
      BY <3>4
  <2>3. ~PendingRevision'
    <3>1. SUFFICES ASSUME Kind(run, files) = "revise" PROVE run'.ledger # old
      BY <1>3, <2>1 DEF PendingRevision
    <3>2. QED
      BY <1>4, <2>2, <3>1
  <2>4. Last(run'.ledger).attempt = LastAttempt(run'.ledger, Last(run'.ledger).step)
    BY <1>1, <1>3, <1>4, LastAttemptAppended
  <2>5. Kind(run, files) = "revise" => Len(old) <= Len(run'.ledger)
    BY <1>4, <2>2
  <2>6. QED
    BY <1>2, <1>3, <1>4, <2>1, <2>3, <2>4, <2>5 DEF LedgerLeads
<1>7. DecisionsFit'
  BY <1>2, <1>3, DecisionsKept DEF LifeInv, IsFinal
<1>8. AttemptsFit'
  BY <1>1, <1>3, LifeFacts, AttemptsKept DEF LifeInv
<1>9. QED
  BY <1>5, <1>6, <1>7, <1>8 DEF LifeInv

\* What the head of the ledger is to the step at work.
LEMMA HeadIs ==
  ASSUME LifeInv, NEW s \in ProviderNames, HeadOf(s) # None
  PROVE  /\ HeadOf(s) = Last(run.ledger) /\ HeadOf(s) \in Entry /\ HeadOf(s).step = s
         /\ HeadOf(s).attempt = LastAttempt(run.ledger, s) /\ run.ledger # <<>> /\ ~PendingRevision
<1>1. /\ run.ledger # <<>> /\ Last(run.ledger).step = s /\ ~PendingRevision
      /\ HeadOf(s) = Last(run.ledger)
  BY DEF HeadOf
<1>2. QED
  BY <1>1, LifeFacts DEF LifeInv, LedgerLeads

LEMMA AskLives ==
  ASSUME LifeInv, NEW s \in ProviderNames, Ask(s)
  PROVE  LifeInv'
<1>1. IInv' /\ Question(s) \in Entry /\ LastAttempt(run.ledger, s) \in Nat
  BY AskKeeps, HeadIsEntry, LifeFacts, LastAttemptIs DEF LifeInv
<1>2. /\ Working(s) /\ run' = [run EXCEPT !.ledger = Append(@, Question(s))] /\ files' = files
      /\ clock' = clock
  BY DEF Ask, Publish, MayAsk
<1>3. Question(s).step = s /\ LastAttempt(run.ledger, s) <= Question(s).attempt
  <2>1. CASE HeadOf(s) = None
    BY <1>1, <2>1 DEF Question
  <2>2. CASE HeadOf(s) # None
    BY <1>1, <2>2, HeadIs DEF Question, Entry
  <2>3. QED
    BY <2>1, <2>2
<1>4. QED
  BY <1>1, <1>2, <1>3, RecordLives

LEMMA AnswerLives ==
  ASSUME LifeInv, NEW s \in ProviderNames, NEW outcome \in {"advance", "stop", "invalid"},
         Answer(s, outcome)
  PROVE  LifeInv'
<1> DEFINE head == HeadOf(s)
           e == [head EXCEPT !.phase = "response", !.outcome = outcome]
<1>1. IInv' /\ LastAttempt(run.ledger, s) \in Nat
  BY AnswerKeeps, LifeFacts, LastAttemptIs DEF LifeInv
<1>2. /\ Working(s) /\ run' = [run EXCEPT !.ledger = Append(@, e)] /\ files' = files
      /\ clock' = clock /\ head # None
  BY DEF Answer, Publish, WantsAnswer
<1>3. head \in Entry /\ head.step = s /\ head.attempt = LastAttempt(run.ledger, s)
  BY <1>2, HeadIs
<1> HIDE DEF head
<1>4. e \in Entry /\ e.step = s /\ LastAttempt(run.ledger, s) <= e.attempt
  <2>1. e \in Entry /\ e.step = head.step /\ e.attempt = head.attempt
    BY <1>3 DEF Entry
  <2> HIDE DEF e
  <2>2. QED
    BY <1>1, <1>3, <2>1
<1> HIDE DEF e
<1>5. QED
  BY <1>1, <1>2, <1>4, RecordLives

\* The step after one that is not the last of the provider steps.
LEMMA NextStepIs ==
  ASSUME NEW s \in ProviderNames, s # "output_review"
  PROVE  /\ Steps[Position[s] + 1] \in ProviderNames
         /\ Position[Steps[Position[s] + 1]] = Position[s] + 1 /\ Position[s] \in Nat
         /\ NextProviderStep(s) = Steps[Position[s] + 1]
<1>1. /\ s \in StepNames /\ Position[s] \in 1 .. Position["output_review"]
      /\ Position[s] + 1 \in DOMAIN Steps
  BY ProviderPositions
<1>2. /\ Position["output_review"] = Len(EarlySteps) + 2 /\ Len(EarlySteps) \in Nat
      /\ "output_review" \in StepNames
  BY PositionsOfLast, StepsAreListed
<1>3. Position[s] # Position["output_review"]
  BY <1>1, <1>2, PositionsDiffer
<1>4. Position[s] + 1 \in DOMAIN ProviderSteps /\ ProviderSteps[Position[s] + 1] = Steps[Position[s] + 1]
  BY <1>1, <1>2, <1>3, StepsAreListed
<1>5. Steps[Position[s] + 1] \in ProviderNames
  BY <1>4 DEF ProviderNames, ToSet
<1>6. QED
  BY <1>1, <1>2, <1>5, PositionOfStep DEF NextProviderStep

\* An answered step, done or not, is what the ledger ends with.
LEMMA FinishedLeads ==
  ASSUME LifeInv, NEW s \in ProviderNames, HeadOf(s) # None, HeadOf(s).phase = "response",
         run'.ledger = run.ledger, run'.recovery = run.recovery, files' = files,
         IsOpen' => \/ run'.step = s
                    \/ /\ run'.step = NextProviderStep(s) /\ HeadOf(s).outcome = "advance"
                       /\ run'.status \notin {"Blocked", "Failed"}
  PROVE  LedgerLeads'
<1>1. HeadOf(s) = Last(run.ledger) /\ HeadOf(s).step = s /\ run.ledger # <<>> /\ ~PendingRevision
  BY HeadIs
<1>2. Kind(run', files') = Kind(run, files)
  BY KindKept
<1>3. ~PendingRevision'
  BY <1>1, <1>2 DEF PendingRevision
<1>4. QED
  BY <1>1, <1>2, <1>3 DEF LifeInv, LedgerLeads

LEMMA FinishLives ==
  ASSUME LifeInv, NEW s \in ProviderNames, NEW verdict \in {"Completed", "Passed", "Blocked", "Failed"},
         Finish(s, verdict)
  PROVE  LifeInv'
<1> DEFINE head == HeadOf(s)
           good == verdict \in {"Completed", "Passed"}
           st   == [run.steps EXCEPT ![s] = [st |-> verdict, art |-> IF good THEN head.attempt ELSE 0]]
           next == IF good THEN Steps[Position[s] + 1] ELSE s
           status == IF ~good THEN verdict
                     ELSE IF s = "output_review" THEN "AwaitingHumanReview" ELSE "Running"
           policy == IF s = "development" /\ head.outcome = "advance" THEN {head.attempt} ELSE run.policy
<1>1. IInv' /\ run \in AnyRun /\ files \in Evidence /\ clock \in Nat /\ run.steps \in StepStates
  BY Known, FinishKeeps, LifeFacts DEF LifeInv
<1>2. /\ Working(s) /\ head # None /\ head.phase = "response" /\ verdict \in Verdicts(s)
      /\ run' = Finished(s, verdict) /\ files' = files /\ clock' = clock
  BY DEF Finish, Publish, MayFinish
<1>3. s = run.step /\ IsOpen /\ run.approval = None /\ s \in StepNames
      /\ run.status \in {"Pending", "Running"}
  BY <1>2, RunnableIs, ProviderPositions DEF Working
<1>4. good => head.outcome = "advance"
  <2>1. head \in Entry
    BY <1>2, HeadIs
  <2>2. head.outcome \in {"advance", "stop", "invalid"}
    BY <1>2, <2>1 DEF Entry
  <2>3. head.outcome \in {"stop", "invalid"} => ~good
    BY <1>2 DEF Verdicts
  <2>4. QED
    BY <2>2, <2>3
<1>5. Finished(s, verdict) = [run EXCEPT !.steps = st, !.step = next, !.status = status,
                                         !.policy = policy, !.updated = clock]
  BY <1>1 DEF Finished, AnyRun, RunsWith
<1>6. st[s].st = verdict /\ \A t \in StepNames : t # s => st[t] = run.steps[t]
  BY <1>1, <1>3 DEF StepStates
<1> HIDE DEF st, policy
<1>7. /\ run'.status = status /\ run'.step = next /\ run'.steps = st
      /\ run'.report = run.report /\ run'.approval = None /\ run'.ledger = run.ledger
      /\ run'.recovery = run.recovery /\ run'.updated = clock
  BY <1>1, <1>2, <1>3, <1>5 DEF AnyRun, RunsWith
<1>8. /\ run.report = 0
      /\ \A t \in StepNames :
           /\ Position[t] < Position[s] => run.steps[t].st \in Good
           /\ Position[s] < Position[t] => run.steps[t] = [st |-> "Pending", art |-> 0]
  BY <1>3 DEF LifeInv, StepsInOrder
<1>9. \A t \in StepNames :
        /\ Position[t] \in Nat
        /\ Position[t] < Position[s] => st[t].st \in Good
        /\ Position[s] < Position[t] => st[t] = [st |-> "Pending", art |-> 0]
  BY <1>3, <1>6, <1>8, PositionsDiffer
<1>10. CASE ~good
  <2>1. run'.status = verdict /\ verdict \in {"Blocked", "Failed"} /\ run'.step = s
    BY <1>7, <1>10
  <2>2. StepsInOrder'
    BY <1>6, <1>7, <1>8, <1>9, <2>1 DEF StepsInOrder, IsOpen
  <2>3. LedgerLeads'
    BY <1>2, <1>7, <2>1, FinishedLeads
  <2>4. QED
    BY <1>1, <1>2, <1>3, <1>7, <2>1, <2>2, <2>3, LifeFacts, DecisionsKept, AttemptsKept
       DEF LifeInv, IsFinal
<1>11. CASE good /\ s = "output_review"
  <2>1. run'.status = "AwaitingHumanReview"
    BY <1>7, <1>11
  <2>2. \A i \in DOMAIN EarlySteps : EarlySteps[i] \in StepNames /\ Position[EarlySteps[i]] < Position[s]
    <3>1. ASSUME NEW i \in 1 .. Len(EarlySteps)
          PROVE  Steps[i] = EarlySteps[i] /\ i \in DOMAIN Steps
      BY StepsAreListed
    <3>2. /\ Position["output_review"] = Len(EarlySteps) + 2
          /\ DOMAIN EarlySteps = 1 .. Len(EarlySteps) /\ Len(EarlySteps) \in Nat
      BY PositionsOfLast, StepsAreListed
    <3>3. ASSUME NEW i \in DOMAIN EarlySteps
          PROVE  EarlySteps[i] \in StepNames /\ Position[EarlySteps[i]] < Position[s]
      <4>1. Steps[i] = EarlySteps[i] /\ i \in DOMAIN Steps /\ i \in 1 .. Len(EarlySteps)
        BY <3>1, <3>2
      <4>2. Position[EarlySteps[i]] = i /\ EarlySteps[i] \in StepNames
        BY <4>1, PositionOfStep
      <4>3. QED
        BY <1>11, <3>2, <4>1, <4>2
    <3>4. QED
      BY <3>3
  <2>3. StepsInOrder'
    BY <1>7, <1>9, <2>1, <2>2 DEF StepsInOrder, IsOpen
  <2>4. LedgerLeads'
    BY <1>2, <1>7, <2>1, FinishedLeads DEF IsOpen
  <2>5. QED
    BY <1>1, <1>2, <1>3, <1>7, <2>1, <2>3, <2>4, LifeFacts, DecisionsKept, AttemptsKept
       DEF LifeInv, IsFinal
<1>12. CASE good /\ s # "output_review"
  <2>1. run'.status = "Running" /\ run'.step = Steps[Position[s] + 1]
    BY <1>7, <1>12
  <2>2. /\ run'.step \in ProviderNames /\ Position[run'.step] = Position[s] + 1
        /\ Position[s] \in Nat /\ NextProviderStep(s) = run'.step
    BY <1>12, <2>1, NextStepIs
  <2>3. StepsInOrder'
    <3>1. run'.step \in StepNames
      BY <2>2, ProviderPositions
    <3>2. ASSUME NEW t \in StepNames, Position[t] < Position[run'.step] PROVE st[t].st \in Good
      <4>1. Position[t] < Position[s] \/ Position[t] = Position[s]
        BY <1>9, <2>2, <3>2
      <4>2. QED
        BY <1>3, <1>6, <1>9, <1>12, <4>1, PositionsDiffer DEF Good
    <3>3. ASSUME NEW t \in StepNames, Position[run'.step] < Position[t] \/ t = run'.step
          PROVE  st[t] = [st |-> "Pending", art |-> 0]
      <4>1. Position[s] < Position[t]
        BY <1>9, <2>2, <3>3
      <4>2. QED
        BY <1>9, <4>1
    <3>4. st[run'.step].st = "Pending"
      BY <3>1, <3>3
    <3>5. QED
      BY <1>7, <1>8, <2>1, <2>2, <3>2, <3>3, <3>4 DEF StepsInOrder
  <2>4. LedgerLeads'
    BY <1>2, <1>4, <1>7, <1>12, <2>1, <2>2, FinishedLeads
  <2>5. QED
    BY <1>1, <1>2, <1>3, <1>7, <2>1, <2>3, <2>4, LifeFacts, DecisionsKept, AttemptsKept
       DEF LifeInv, IsFinal
<1>13. QED
  BY <1>10, <1>11, <1>12

LEMMA ApplyLives ==
  ASSUME LifeInv, NEW from, NEW to \in {"applying", "applied"}, Apply(from, to)
  PROVE  LifeInv'
<1>1. IInv' /\ run \in AnyRun /\ files \in Evidence /\ clock \in Nat
  BY Known, ApplyKeeps DEF LifeInv
<1>2. /\ run' = ApplyTo(to) /\ files' = files /\ clock' = clock /\ run.status = "Running"
  BY DEF Apply, Publish, MayApply
<1>3. /\ run'.status = run.status /\ run'.step = run.step /\ run'.steps = run.steps
      /\ run'.report = run.report /\ run'.approval = run.approval /\ run'.ledger = run.ledger
      /\ run'.recovery = run.recovery /\ run'.updated = run.updated
  BY <1>1, <1>2 DEF ApplyTo, AnyRun, RunsWith
<1>4. StepsInOrder' /\ LedgerLeads'
  BY <1>2, <1>3, StepsKept, LedgerKept DEF LifeInv, IsOpen
<1>5. DecisionsFit' /\ AttemptsFit'
  BY <1>1, <1>2, <1>3, LifeFacts, DecisionsKept, AttemptsKept DEF LifeInv, IsFinal
<1>6. QED
  BY <1>1, <1>4, <1>5 DEF LifeInv

LEMMA ApproveLives ==
  ASSUME LifeInv, Approve
  PROVE  LifeInv'
<1>1. IInv' /\ run \in AnyRun /\ files \in Evidence /\ clock \in Nat
  BY Known, ApproveKeeps DEF LifeInv
<1>2. /\ run' = Approved /\ files' = files /\ clock' = clock /\ run.status = "AwaitingHumanReview"
  BY DEF Approve, Publish, MayApprove
<1> DEFINE a == [at |-> clock, diff |-> run.cand.diff,
                 policy |-> CHOOSE p \in run.policy : TRUE,
                 review |-> run.steps["output_review"].art,
                 request |-> ReviewRequest, response |-> Last(run.ledger)]
<1>3. Approved = [run EXCEPT !.status = "Approved", !.updated = clock, !.approval = a]
  BY DEF Approved
<1>4. a.at = clock
  OBVIOUS
<1> HIDE DEF a
<1>5. /\ run'.status = "Approved" /\ run'.step = run.step /\ run'.steps = run.steps
      /\ run'.report = run.report /\ run'.approval = a /\ run'.ledger = run.ledger
      /\ run'.recovery = run.recovery /\ run'.updated = clock
  BY <1>1, <1>2, <1>3 DEF AnyRun, RunsWith
<1>6. run.approval = None /\ ~IsFinal(run)
  BY <1>2, LifeFacts DEF IsFinal
<1>7. Kind(run', files') \notin {"adopt", "invalidate"} /\ Kind(run', files') = Kind(run, files)
  BY <1>2, <1>5, <1>6, KindKept DEF LifeInv, DecisionsFit
<1>8. StepsInOrder'
  BY <1>2, <1>5 DEF LifeInv, StepsInOrder, IsOpen
<1>9. LedgerLeads'
  BY <1>2, <1>5, LedgerKept DEF LifeInv, IsOpen
<1>10. DecisionsFit'
  BY <1>2, <1>4, <1>5, <1>7 DEF LifeInv, DecisionsFit
<1>11. AttemptsFit'
  BY <1>1, <1>2, <1>5, LifeFacts, AttemptsKept DEF LifeInv
<1>12. QED
  BY <1>1, <1>8, <1>9, <1>10, <1>11 DEF LifeInv

\* A run that is or becomes final.
LEMMA FinalLives ==
  ASSUME LifeInv, IInv', run'.status \in {"EvalPassed", "Promoted", "Failed"},
         run.approval # None, run'.approval = run.approval, run'.ledger = run.ledger,
         run'.recovery = run.recovery, files' = files, clock' = clock,
         run'.updated <= clock
  PROVE  LifeInv'
<1>1. IsFinal(run') /\ ~IsOpen'
  BY DEF IsFinal, IsOpen
<1>2. StepsInOrder' /\ LedgerLeads'
  BY <1>1, LedgerKept DEF StepsInOrder, LifeInv
<1>3. DecisionsFit'
  BY <1>1, DecisionsKept DEF LifeInv
<1>4. AttemptsFit'
  BY DEF LifeInv, AttemptsFit
<1>5. QED
  BY <1>2, <1>3, <1>4 DEF LifeInv

LEMMA ConcludeLives ==
  ASSUME LifeInv, Conclude
  PROVE  LifeInv'
<1> DEFINE e == files.evals[Attempt]
           verdict == [st |-> IF e.passed THEN "Passed" ELSE "Failed", art |-> Attempt]
           st == [run.steps EXCEPT !["testing"] = verdict, !["eval_report"] = verdict]
<1>1. IInv' /\ run \in AnyRun /\ files \in Evidence /\ clock \in Nat
  BY Known, ConcludeKeeps DEF LifeInv
<1>2. /\ run.status = "Approved" /\ Attempt > 0 /\ run' = Concluded /\ files' = files /\ clock' = clock
  BY DEF Conclude, Publish, InProgress
<1>3. Attempt \in DOMAIN files.evals
  BY <1>1, <1>2 DEF Attempt, Evidence
<1>4. e.at <= clock
  BY <1>3 DEF LifeInv, AttemptsFit
<1>5. Concluded = [run EXCEPT !.status = IF e.passed THEN "EvalPassed" ELSE "Failed",
                     !.step = "eval_report", !.steps = st, !.report = Attempt, !.updated = e.at]
  BY <1>1 DEF Concluded, FinishedRun, AnyRun, RunsWith
<1> HIDE DEF st, e
<1>6. /\ run'.status \in {"EvalPassed", "Failed"} /\ run'.approval = run.approval
      /\ run'.ledger = run.ledger /\ run'.recovery = run.recovery /\ run'.updated = e.at
  BY <1>1, <1>2, <1>5 DEF AnyRun, RunsWith
<1>7. run.approval # None
  BY <1>2, LifeFacts
<1>8. QED
  BY <1>1, <1>2, <1>4, <1>6, <1>7, FinalLives

LEMMA PromoteLives ==
  ASSUME LifeInv, Promote
  PROVE  LifeInv'
<1>1. IInv' /\ run \in AnyRun /\ files \in Evidence /\ clock \in Nat
  BY Known, PromoteKeeps DEF LifeInv
<1>2. /\ run.status = "EvalPassed" /\ run' = Promoted /\ files' = files /\ clock' = clock
  BY DEF Promote, Publish, MayPromote
<1>3. /\ run'.status = "Promoted" /\ run'.approval = run.approval
      /\ run'.ledger = run.ledger /\ run'.recovery = run.recovery /\ run'.updated = clock
  BY <1>1, <1>2 DEF Promoted, AnyRun, RunsWith
<1>4. run.approval # None
  BY <1>2, LifeFacts
<1>5. QED
  BY <1>1, <1>2, <1>3, <1>4, FinalLives

LEMMA CleanLives ==
  ASSUME LifeInv, CleanStart \/ CleanFinish
  PROVE  LifeInv'
<1>1. IInv' /\ run \in AnyRun /\ files \in Evidence /\ clock \in Nat
  BY Known, CleanKeeps DEF LifeInv
<1>2. /\ run' \in {Cleaning, Cleaned} /\ files' = files /\ clock' = clock
      /\ run.status \in {"Blocked", "Failed"}
  BY DEF CleanStart, CleanFinish, Publish, MayClean
<1>3. /\ run'.status = run.status /\ run'.step = run.step /\ run'.steps = run.steps
      /\ run'.report = run.report /\ run'.approval = run.approval /\ run'.ledger = run.ledger
      /\ run'.recovery = run.recovery /\ run'.updated = run.updated
  BY <1>1, <1>2 DEF Cleaning, Cleaned, AnyRun, RunsWith
<1>4. StepsInOrder' /\ LedgerLeads'
  BY <1>2, <1>3, StepsKept, LedgerKept DEF LifeInv, IsOpen
<1>5. DecisionsFit' /\ AttemptsFit'
  BY <1>1, <1>2, <1>3, LifeFacts, DecisionsKept, AttemptsKept DEF LifeInv, IsFinal
<1>6. QED
  BY <1>1, <1>4, <1>5 DEF LifeInv

\* The run as it is, with other evidence of its attempts or at another time.
LEMMA RunStays ==
  ASSUME LifeInv, IInv', run' = run, files'.recoveries = files.recoveries, AttemptsFit',
         run.status = "Approved" /\ Kind(run, files) = "invalidate" =>
           Attempt' <= files.recoveries[run.recovery].attempt + 1
  PROVE  LifeInv'
<1>1. Kind(run', files') = Kind(run, files)
  BY KindKept
<1>2. PendingRevision' <=> PendingRevision
  BY <1>1 DEF PendingRevision
<1>3. StepsInOrder' /\ LedgerLeads'
  BY <1>2, StepsKept, LedgerKept DEF LifeInv, IsOpen
<1>4. DecisionsFit'
  BY <1>1 DEF LifeInv, DecisionsFit
<1>5. QED
  BY <1>3, <1>4 DEF LifeInv

LEMMA TickLives ==
  ASSUME LifeInv, Tick
  PROVE  LifeInv'
<1>1. IInv' /\ files \in Evidence /\ clock \in Nat
  BY Known, TickKeeps DEF LifeInv
<1>2. run' = run /\ files' = files /\ clock' = clock + 1
  BY DEF Tick
<1>3. AttemptsFit'
  BY <1>1, <1>2, LifeFacts, AttemptsKept DEF LifeInv
<1>4. Attempt' = Attempt
  BY <1>2 DEF Attempt
<1>5. QED
  BY <1>1, <1>2, <1>3, <1>4, RunStays DEF LifeInv, DecisionsFit

LEMMA IntendLives ==
  ASSUME LifeInv, Intend
  PROVE  LifeInv'
<1> DEFINE n == IF files.evals = <<>> THEN 0 ELSE run.recovery
           e == [run |-> run, recovery |-> n, stage |-> "intent", passed |-> FALSE, at |-> 0]
<1>1. /\ IInv' /\ files \in Evidence /\ clock \in Nat /\ run \in AnyRun
      /\ files.evals \in Seq(Evaluation)
  BY Known, IntendKeeps DEF LifeInv, Evidence
<1>2. /\ MayEvaluate /\ run' = run /\ clock' = clock
      /\ files' = [files EXCEPT !.evals = Append(files.evals, e)]
  BY DEF Intend
<1>3. e.recovery = n /\ e.run = run /\ e.at = 0
  OBVIOUS
<1> HIDE DEF e
<1>4. files'.recoveries = files.recoveries /\ files'.evals = Append(files.evals, e)
  BY <1>1, <1>2 DEF Evidence
<1>5. /\ Len(files.evals) \in Nat /\ DOMAIN files.evals = 1 .. Len(files.evals)
      /\ DOMAIN files'.evals = 1 .. Len(files.evals) + 1 /\ Len(files'.evals) = Len(files.evals) + 1
      /\ files'.evals[Len(files.evals) + 1] = e
      /\ \A k \in 1 .. Len(files.evals) : files'.evals[k] = files.evals[k]
  BY <1>1, <1>4
<1>6. AttemptsFit'
  <2>1. ASSUME NEW k \in DOMAIN files'.evals
        PROVE  /\ files'.evals[k].recovery = IF k = 1 THEN 0 ELSE files'.evals[k].run.recovery
               /\ files'.evals[k].at <= clock
    <3>1. CASE k \in 1 .. Len(files.evals)
      BY <1>5, <3>1 DEF LifeInv, AttemptsFit
    <3>2. CASE k = Len(files.evals) + 1
      <4>1. k = 1 <=> files.evals = <<>>
        BY <1>1, <1>5, <3>2
      <4>2. QED
        BY <1>1, <1>3, <1>5, <3>2, <4>1
    <3>3. QED
      BY <1>5, <3>1, <3>2
  <2>2. QED
    BY <1>2, <2>1 DEF LifeInv, AttemptsFit
<1>7. Kind(run, files) = "invalidate" => Attempt' <= files.recoveries[run.recovery].attempt + 1
  <2>1. Kind(run, files) = "invalidate" =>
          files.recoveries[run.recovery].attempt = Len(files.evals)
    BY <1>2 DEF MayEvaluate
  <2>2. QED
    BY <1>5, <2>1 DEF Attempt
<1>8. QED
  BY <1>1, <1>2, <1>4, <1>6, <1>7, RunStays

\* Another stage of the last attempt.
LEMMA StageLives ==
  ASSUME LifeInv, IInv', run' = run, clock' = clock, Attempt > 0, NEW e,
         e.run = files.evals[Attempt].run, e.recovery = files.evals[Attempt].recovery,
         e.at \in {files.evals[Attempt].at, clock},
         files'.recoveries = files.recoveries,
         files'.evals = [files.evals EXCEPT ![Attempt] = e]
  PROVE  LifeInv'
<1>1. /\ files \in Evidence /\ clock \in Nat /\ files.evals \in Seq(Evaluation)
  BY Known DEF LifeInv, Evidence
<1>2. /\ Attempt = Len(files.evals) /\ Attempt \in DOMAIN files.evals
      /\ DOMAIN files'.evals = DOMAIN files.evals
      /\ files'.evals[Attempt] = e
      /\ \A k \in DOMAIN files.evals : k # Attempt => files'.evals[k] = files.evals[k]
  BY <1>1 DEF Attempt
<1>3. AttemptsFit'
  <2>1. files.evals[Attempt].at <= clock /\ clock <= clock
    BY <1>1, <1>2 DEF LifeInv, AttemptsFit
  <2>2. ASSUME NEW k \in DOMAIN files'.evals
        PROVE  /\ files'.evals[k].recovery = IF k = 1 THEN 0 ELSE files'.evals[k].run.recovery
               /\ files'.evals[k].at <= clock
    <3>1. CASE k = Attempt
      BY <1>2, <2>1, <3>1 DEF LifeInv, AttemptsFit
    <3>2. CASE k # Attempt
      BY <1>2, <3>2 DEF LifeInv, AttemptsFit
    <3>3. QED
      BY <3>1, <3>2
  <2>3. QED
    BY <2>2 DEF LifeInv, AttemptsFit
<1>4. Attempt' = Attempt
  <2>1. Len(files'.evals) = Len(files.evals)
    BY <1>1
  <2>2. QED
    BY <2>1 DEF Attempt
<1>5. QED
  BY <1>3, <1>4, RunStays DEF LifeInv, DecisionsFit

LEMMA TestLives ==
  ASSUME LifeInv, NEW passed \in BOOLEAN, Test(passed)
  PROVE  LifeInv'
<1> DEFINE o == files.evals[Attempt]
           e == [o EXCEPT !.stage = "testing", !.passed = passed, !.at = clock]
<1>1. /\ IInv' /\ files \in Evidence /\ files.evals \in Seq(Evaluation)
  BY Known, TestKeeps DEF LifeInv, Evidence
<1>2. /\ Attempt > 0 /\ run' = run /\ clock' = clock
      /\ files' = [files EXCEPT !.evals[Attempt].stage = "testing",
                                !.evals[Attempt].passed = passed, !.evals[Attempt].at = clock]
  BY DEF Test, InProgress
<1>3. Attempt \in DOMAIN files.evals /\ o \in Evaluation
  BY <1>1, <1>2 DEF Attempt
<1>4. e.run = o.run /\ e.recovery = o.recovery /\ e.at = clock
  BY <1>3 DEF Evaluation
<1>5. files' = [files EXCEPT !.evals[Attempt] = e]
  BY <1>1, <1>2, <1>3 DEF Evidence, Evaluation
<1> HIDE DEF e
<1>6. files'.recoveries = files.recoveries /\ files'.evals = [files.evals EXCEPT ![Attempt] = e]
  BY <1>1, <1>5 DEF Evidence
<1>7. QED
  BY <1>1, <1>2, <1>4, <1>6, StageLives

LEMMA ReportLives ==
  ASSUME LifeInv, Report
  PROVE  LifeInv'
<1> DEFINE o == files.evals[Attempt]
           e == [o EXCEPT !.stage = "report"]
<1>1. /\ IInv' /\ files \in Evidence /\ files.evals \in Seq(Evaluation)
  BY Known, ReportKeeps DEF LifeInv, Evidence
<1>2. /\ Attempt > 0 /\ run' = run /\ clock' = clock
      /\ files' = [files EXCEPT !.evals[Attempt].stage = "report"]
  BY DEF Report, InProgress
<1>3. Attempt \in DOMAIN files.evals /\ o \in Evaluation
  BY <1>1, <1>2 DEF Attempt
<1>4. e.run = o.run /\ e.recovery = o.recovery /\ e.at = o.at
  BY <1>3 DEF Evaluation
<1>5. files' = [files EXCEPT !.evals[Attempt] = e]
  BY <1>1, <1>2, <1>3 DEF Evidence, Evaluation
<1> HIDE DEF e
<1>6. files'.recoveries = files.recoveries /\ files'.evals = [files.evals EXCEPT ![Attempt] = e]
  BY <1>1, <1>5 DEF Evidence
<1>7. QED
  BY <1>1, <1>2, <1>4, <1>6, StageLives

\* The early steps are the ones before Development.
LEMMA EarlyIs ==
  /\ \A i \in DOMAIN EarlySteps :
       /\ EarlySteps[i] \in StepNames \ {"development", "output_review", "testing", "eval_report"}
       /\ Position[EarlySteps[i]] < Position["development"]
  /\ \A t \in StepNames :
       Position[t] < Position["development"] => \E i \in DOMAIN EarlySteps : t = EarlySteps[i]
<1>1. /\ DOMAIN EarlySteps = 1 .. Len(EarlySteps) /\ Len(EarlySteps) \in Nat
      /\ Position["development"] = Len(EarlySteps) + 1
  BY StepsAreListed, PositionsOfLast
<1>2. ASSUME NEW i \in DOMAIN EarlySteps
      PROVE  /\ EarlySteps[i] \in StepNames \ {"development", "output_review", "testing", "eval_report"}
             /\ Position[EarlySteps[i]] < Position["development"]
  <2>1. i \in 1 .. Len(EarlySteps)
    BY <1>1
  <2>2. Steps[i] = EarlySteps[i] /\ EarlySteps[i] \in ToSet(EarlySteps) /\ i \in DOMAIN Steps
    BY <2>1, StepsAreListed
  <2>3. EarlySteps[i] \in StepNames /\ Position[EarlySteps[i]] = i
    BY <2>2, PositionOfStep
  <2>4. QED
    BY <1>1, <2>1, <2>2, <2>3, EarlyStepsAssumption
<1>3. ASSUME NEW t \in StepNames, Position[t] < Position["development"]
      PROVE  \E i \in DOMAIN EarlySteps : t = EarlySteps[i]
  <2>1. Position[t] \in DOMAIN Steps /\ Steps[Position[t]] = t
    BY PositionOfStep
  <2>2. Position[t] \in 1 .. Len(EarlySteps)
    BY <1>1, <1>3, <2>1, StepsAreListed
  <2>3. Steps[Position[t]] = EarlySteps[Position[t]]
    BY <2>2, StepsAreListed
  <2>4. QED
    BY <1>1, <2>1, <2>2, <2>3
<1>4. QED
  BY <1>2, <1>3

\* The steps of a revised run, and its report.
LEMMA RevisedSteps ==
  ASSUME NEW r \in AnyRun, NEW s \in ProviderNames, NEW id, NEW at, NEW i, i = RevisedRun(r, s, id, at)
  PROVE  /\ i.ledger = r.ledger /\ i.updated = at /\ i.promotion = None
         /\ i.report = IF s = "output_review" THEN 0 ELSE r.report
         /\ \A t \in StepNames :
              i.steps[t] = IF Position[t] < Position[s] THEN r.steps[t]
                           ELSE [st |-> "Pending", art |-> 0]
<1> DEFINE st == [t \in StepNames |-> IF Position[t] < Position[s] THEN r.steps[t]
                                      ELSE [st |-> "Pending", art |-> 0]]
           policy == IF Position[s] <= Position["development"] THEN {} ELSE r.policy
           approval == IF s = "output_review" THEN None ELSE r.approval
           report == IF s = "output_review" THEN 0 ELSE r.report
<1>1. i = [r EXCEPT !.status = "Pending", !.step = s, !.updated = at, !.recovery = id,
                    !.steps = st, !.policy = policy, !.approval = approval, !.report = report,
                    !.promotion = None]
  BY DEF RevisedRun, AnyRun, RunsWith
<1>2. \A t \in StepNames :
        st[t] = IF Position[t] < Position[s] THEN r.steps[t] ELSE [st |-> "Pending", art |-> 0]
  OBVIOUS
<1> HIDE DEF st, policy, approval
<1>3. /\ i.ledger = r.ledger /\ i.updated = at /\ i.promotion = None /\ i.report = report
      /\ i.steps = st
  BY <1>1 DEF AnyRun, RunsWith
<1>4. QED
  BY <1>2, <1>3

LEMMA ReviseLives ==
  ASSUME LifeInv, NEW s \in ProviderNames, Revise(s)
  PROVE  LifeInv'
<1> DEFINE n == run.recovery
           d == Revision(s)
           g == Decide(d)
<1>1. /\ IInv' /\ run \in AnyRun /\ files \in Evidence /\ clock \in Nat /\ n \in Nat
      /\ ValidRun(run) /\ PatchIsDecided(run) /\ n = Len(files.recoveries)
  BY Known, ReviseKeeps DEF LifeInv
<1>2. /\ MayRevise(s) /\ run' = RevisedRun(run, s, n + 1, clock) /\ files' = g /\ clock' = clock
  BY DEF Revise, Publish
<1>3. /\ s \in StepNames /\ "development" \in StepNames /\ "output_review" \in StepNames
      /\ Position["output_review"] = Position["development"] + 1
      /\ \A t \in StepNames : Position[t] \in Nat
      /\ \A t, u \in StepNames : Position[t] = Position[u] => t = u
  BY ProviderPositions, PositionsOfLast, PositionsDiffer
<1>4. /\ run'.status = "Pending" /\ run'.step = s /\ run'.recovery = n + 1
      /\ run'.ledger = run.ledger /\ run'.updated = clock
      /\ run'.report = IF s = "output_review" THEN 0 ELSE run.report
      /\ \A t \in StepNames :
           run'.steps[t] = IF Position[t] < Position[s] THEN run.steps[t]
                           ELSE [st |-> "Pending", art |-> 0]
  <2>1. n + 1 \in Nat
    BY <1>1
  <2>2. run'.status = "Pending" /\ run'.step = s /\ run'.recovery = n + 1
    <3> HIDE DEF n, g
    <3>1. QED
      BY <1>1, <1>2, <2>1, RevisedIs, SMTT(60)
  <2>3. /\ run'.ledger = run.ledger /\ run'.updated = clock
        /\ run'.report = IF s = "output_review" THEN 0 ELSE run.report
        /\ \A t \in StepNames :
             run'.steps[t] = IF Position[t] < Position[s] THEN run.steps[t]
                             ELSE [st |-> "Pending", art |-> 0]
    BY <1>1, <1>2, RevisedSteps
  <2>4. QED
    BY <2>2, <2>3
<1>5. /\ d.kind = "revise" /\ d.source = run /\ d.step = s /\ files'.evals = files.evals
      /\ files'.recoveries = Append(files.recoveries, d)
  BY <1>1, <1>2 DEF Revision, Decide, Evidence
<1> HIDE DEF d, g
<1>6. /\ DOMAIN files'.recoveries = 1 .. n + 1 /\ files'.recoveries[n + 1] = d
      /\ DOMAIN files.recoveries = 1 .. n
      /\ \A k \in 1 .. n : files'.recoveries[k] = files.recoveries[k]
  BY <1>1, <1>5 DEF Evidence
<1>7. ASSUME run.status \in {"Blocked", "Failed"}, run.approval = None
      PROVE  StepsInOrder' /\ Last(run.ledger).phase = "response"
  <2>1. IsOpen /\ run.report = 0 /\ run.step \in ProviderNames /\ run.step \in StepNames
    BY <1>7, LifeFacts DEF IsOpen, LifeInv, StepsInOrder
  <2>2. /\ run.steps[run.step].st = run.status
        /\ \A t \in StepNames :
            /\ Position[t] < Position[run.step] => run.steps[t].st \in Good
            /\ Position[run.step] < Position[t] => run.steps[t] = [st |-> "Pending", art |-> 0]
    BY <1>7, <2>1 DEF LifeInv, StepsInOrder
  <2>3. Position[s] <= Position[run.step]
    <3>1. CASE run.cand.phase = "applied" /\ s = "output_review"
      <4>1. run.steps["development"].st = "Completed"
        BY <1>1, <3>1 DEF PatchIsDecided, AtStep
      <4>2. run.step # "development" /\ ~(Position[run.step] < Position["development"])
        BY <1>3, <1>7, <2>2, <4>1
      <4>3. Position["development"] < Position[run.step]
        BY <1>3, <2>1, <4>2
      <4>4. Position["development"] \in Nat /\ Position[run.step] \in Nat
        BY <1>3, <2>1
      <4>5. QED
        BY <1>3, <3>1, <4>3, <4>4
    <3>2. QED
      BY <1>2, <1>7, <3>1 DEF MayRevise
  <2>4. \A t \in StepNames : Position[t] < Position[s] => run.steps[t].st \in Good
    BY <1>3, <2>1, <2>2, <2>3
  <2>5. StepsInOrder'
    BY <1>3, <1>4, <2>1, <2>4 DEF StepsInOrder
  <2>6. Last(run.ledger).phase = "response"
    BY <1>7, <2>1 DEF LifeInv, LedgerLeads
  <2>7. QED
    BY <2>5, <2>6
<1>8. ASSUME run.status \in {"AwaitingHumanReview", "Approved"}
      PROVE  StepsInOrder' /\ Last(run.ledger).phase = "response"
  <2>1. /\ s = "output_review" /\ AwaitsReview(run)
        /\ \A i \in DOMAIN EarlySteps : run.steps[EarlySteps[i]].st \in Good
    BY <1>1, <1>2, <1>8 DEF MayRevise, ValidRun, StatusIsEarned, LifeInv, StepsInOrder
  <2>2. \A t \in StepNames : Position[t] < Position[s] => run.steps[t].st \in Good
    <3>1. SUFFICES ASSUME NEW t \in StepNames, Position[t] < Position[s]
                   PROVE  run.steps[t].st \in Good
      OBVIOUS
    <3>2. Position[t] < Position["development"] \/ t = "development"
      BY <1>3, <2>1, <3>1
    <3>3. run.steps["development"].st = "Completed"
      BY <2>1 DEF AwaitsReview, AtStep
    <3>4. QED
      BY <2>1, <3>2, <3>3, EarlyIs DEF Good
  <2>3. StepsInOrder'
    BY <1>3, <1>4, <2>1, <2>2 DEF StepsInOrder
  <2>4. QED
    BY <2>1, <2>3 DEF AwaitsReview, ReviewLedger
<1>9. StepsInOrder' /\ Last(run.ledger).phase = "response"
  BY <1>2, <1>7, <1>8 DEF MayRevise
<1>10. Kind(run', files') = "revise" /\ run'.recovery = n + 1 /\ n + 1 # 0
  BY <1>1, <1>4, <1>5, <1>6 DEF Kind
<1>11. LedgerLeads'
  <2>1. PendingRevision' /\ files'.recoveries[run'.recovery].step = run'.step
    BY <1>4, <1>5, <1>6, <1>10 DEF PendingRevision
  <2>2. files'.recoveries[run'.recovery].source.ledger = run'.ledger
    BY <1>4, <1>5, <1>6
  <2>3. Len(run'.ledger) \in Nat
    BY <1>4, LifeFacts
  <2>4. QED
    BY <1>4, <1>9, <2>1, <2>2, <2>3 DEF LifeInv, LedgerLeads
<1>12. DecisionsFit'
  <2>1. \A k \in DOMAIN files'.recoveries :
          files'.recoveries[k].kind = "invalidate" => files'.recoveries[k].approved.recovery < k
    <3>1. ASSUME NEW k \in DOMAIN files'.recoveries, files'.recoveries[k].kind = "invalidate"
          PROVE  files'.recoveries[k].approved.recovery < k
      <4>1. k \in 1 .. n
        BY <1>1, <1>5, <1>6, <3>1
      <4>2. QED
        BY <1>6, <3>1, <4>1 DEF LifeInv, DecisionsFit
    <3>2. QED
      BY <3>1
  <2>2. QED
    BY <1>4, <1>10, <2>1 DEF DecisionsFit
<1>13. AttemptsFit'
  BY <1>1, <1>2, <1>4, <1>5, LifeFacts, AttemptsKept DEF LifeInv
<1>14. QED
  BY <1>1, <1>9, <1>11, <1>12, <1>13 DEF LifeInv

LEMMA AdoptLives ==
  ASSUME LifeInv, Adopt
  PROVE  LifeInv'
<1> DEFINE n == run.recovery
           o == files.evals[Attempt]
           e == [o EXCEPT !.stage = "report"]
           d == Adoption
           h == Decide(d)
           f == FinishedRun(run, o.passed, Attempt, clock)
<1>1. /\ IInv' /\ run \in AnyRun /\ files \in Evidence /\ clock \in Nat /\ n \in Nat
      /\ n = Len(files.recoveries) /\ files.evals \in Seq(Evaluation)
  BY Known, AdoptKeeps DEF LifeInv, Evidence
<1>2. /\ run.status = "Approved" /\ Attempt > 0 /\ run' = AdoptedRun(d, n + 1)
      /\ files' = WithAdoption /\ clock' = clock
  BY DEF Adopt, Publish, MayAdopt
<1>3. /\ Attempt = Len(files.evals) /\ Attempt \in DOMAIN files.evals /\ o \in Evaluation
      /\ Attempt \in Nat
  BY <1>1, <1>2 DEF Attempt
<1>4. /\ d.kind = "adopt" /\ d.source = run /\ d.created = clock /\ d.attempt = Attempt
      /\ d.passed = o.passed
  BY DEF Adoption
<1>5. /\ h.evals = files.evals /\ h.recoveries = Append(files.recoveries, d) /\ h \in Evidence
  <2>1. d \in RecoveryDecision
    <3>1. o.passed \in BOOLEAN /\ run \in LiveRun /\ "testing" \in StepNames
      BY <1>2, <1>3, Known, PositionsOfLast DEF Evaluation, LifeInv
    <3>2. QED
      BY <1>1, <1>3, <3>1 DEF Adoption, RecoveryDecision
  <2> HIDE DEF d
  <2>2. QED
    BY <1>1, <2>1 DEF Decide, Evidence
<1>6. WithAdoption = [h EXCEPT !.evals[Attempt].stage = "report"]
  BY DEF WithAdoption
<1> HIDE DEF h, d, o
<1>7. e.run = o.run /\ e.recovery = o.recovery /\ e.at = o.at
  BY <1>3 DEF Evaluation
<1>8. /\ files'.recoveries = Append(files.recoveries, d)
      /\ files'.evals = [files.evals EXCEPT ![Attempt] = e]
  BY <1>1, <1>2, <1>3, <1>5, <1>6 DEF Evidence, o
<1> HIDE DEF e
<1>9. f.status \in {"EvalPassed", "Failed"} /\ f.approval = run.approval /\ f.ledger = run.ledger
      /\ f.updated = clock /\ f \in AnyRun
  <2>1. f.status \in {"EvalPassed", "Failed"} /\ f.approval = run.approval /\ f.ledger = run.ledger
        /\ f.updated = clock
    BY <1>1 DEF FinishedRun, AnyRun, RunsWith
  <2> DEFINE P == Promotion \cup {None}
  <2>2. run \in RunsWith(P)
    BY <1>1 DEF AnyRun
  <2> HIDE DEF P
  <2>3. f \in RunsWith(P)
    BY <1>1, <1>3, <2>2, FinishedFields
  <2>4. QED
    BY <2>1, <2>3 DEF AnyRun, P
<1>10. run' = [f EXCEPT !.recovery = n + 1]
  BY <1>2, <1>4 DEF AdoptedRun
<1> HIDE DEF f
<1>11. /\ run'.status \in {"EvalPassed", "Failed"} /\ run'.approval = run.approval
       /\ run'.ledger = run.ledger /\ run'.updated = clock /\ run'.recovery = n + 1
  BY <1>9, <1>10 DEF AnyRun, RunsWith
<1>12. run'.approval # None /\ IsFinal(run') /\ ~IsOpen' /\ run'.status # "Approved"
  BY <1>2, <1>11, LifeFacts DEF IsFinal, IsOpen
<1>13. /\ DOMAIN files'.recoveries = 1 .. n + 1 /\ files'.recoveries[n + 1] = d
       /\ DOMAIN files.recoveries = 1 .. n
       /\ \A k \in 1 .. n : files'.recoveries[k] = files.recoveries[k]
  BY <1>1, <1>8 DEF Evidence
<1>14. Kind(run', files') = "adopt"
  BY <1>1, <1>4, <1>11, <1>13 DEF Kind
<1>15. StepsInOrder' /\ LedgerLeads'
  BY <1>11, <1>12, <1>14 DEF LifeInv, StepsInOrder, LedgerLeads
<1>16. DecisionsFit'
  <2>1. ASSUME NEW k \in DOMAIN files'.recoveries, files'.recoveries[k].kind = "invalidate"
        PROVE  files'.recoveries[k].approved.recovery < k
    <3>1. k \in 1 .. n
      BY <1>1, <1>4, <1>13, <2>1
    <3>2. QED
      BY <1>13, <2>1, <3>1 DEF LifeInv, DecisionsFit
  <2>2. QED
    BY <1>12, <1>14, <2>1 DEF DecisionsFit
<1>17. AttemptsFit'
  <2>1. /\ DOMAIN files'.evals = DOMAIN files.evals /\ files'.evals[Attempt] = e
        /\ \A k \in DOMAIN files.evals : k # Attempt => files'.evals[k] = files.evals[k]
    BY <1>1, <1>3, <1>8
  <2>2. ASSUME NEW k \in DOMAIN files'.evals
        PROVE  /\ files'.evals[k].recovery = IF k = 1 THEN 0 ELSE files'.evals[k].run.recovery
               /\ files'.evals[k].at <= clock
    <3>1. CASE k = Attempt
      BY <1>3, <1>7, <2>1, <3>1 DEF LifeInv, AttemptsFit, o
    <3>2. CASE k # Attempt
      BY <2>1, <3>2 DEF LifeInv, AttemptsFit
    <3>3. QED
      BY <3>1, <3>2
  <2>3. run'.updated <= clock
    BY <1>1, <1>11
  <2>4. QED
    BY <1>2, <2>2, <2>3 DEF AttemptsFit
<1>18. QED
  BY <1>1, <1>15, <1>16, <1>17 DEF LifeInv

Moved(u, id, at) == [u EXCEPT !.recovery = id, !.updated = at]

\* What a run says of itself before it is approved keeps the evaluation steps as they were:
\* the run an invalidation restores differs from it only in its recovery and its time.
LEMMA InvalidatedIs ==
  ASSUME NEW a \in LiveRun, AwaitsReview(a), a.status = "Approved", NEW id \in Nat, NEW at \in Nat
  PROVE  InvalidatedRun(a, id, at) = Moved(a, id, at)
<1> DEFINE e == EvaluationReset(a)
<1>1. /\ e \in LiveRun /\ e = [a EXCEPT !.steps = e.steps]
      /\ \A s \in {"testing", "eval_report"} : e.steps[s] = [st |-> "Pending", art |-> 0]
      /\ \A t \in StepNames \ {"testing", "eval_report"} : e.steps[t] = a.steps[t]
  BY EvaluationResetFields DEF LiveRun
<1>2. /\ a.steps \in StepStates /\ a.promotion = None /\ e.steps \in StepStates
  BY <1>1 DEF LiveRun, RunsWith, StepStates
<1>3. a.report = 0 /\ a.step = "testing"
  BY DEF AwaitsReview
<1>4. \A s \in {"testing", "eval_report"} : a.steps[s] = [st |-> "Pending", art |-> 0]
  <2>1. \A s \in {"testing", "eval_report"} : s \in StepNames
    BY PositionsOfLast
  <2>2. \A s \in {"testing", "eval_report"} : a.steps[s].st = "Pending" /\ ~(a.steps[s].art # 0)
    BY DEF AwaitsReview, AwaitingStep, AtStep
  <2>3. QED
    BY <1>2, <2>1, <2>2 DEF StepStates
<1>5. InvalidatedRun(a, id, at) =
        [e EXCEPT !.status = "Approved", !.step = "testing", !.updated = at, !.recovery = id,
                  !.report = 0, !.promotion = None]
  BY DEF InvalidatedRun
<1> HIDE DEF e
<1>6. e.steps = a.steps
  <2>1. \A t \in StepNames : e.steps[t] = a.steps[t]
    BY <1>1, <1>4
  <2>2. QED
    BY <1>2, <2>1 DEF StepStates
<1>7. e = a
  BY <1>1, <1>6 DEF LiveRun, RunsWith
<1>8. QED
  BY <1>2, <1>3, <1>5, <1>7 DEF LiveRun, RunsWith, Moved

\* An Approved run with another time and another decision.
LEMMA ApprovedMoves ==
  ASSUME NEW a \in LiveRun, ValidRun(a), a.status = "Approved", NEW id \in Nat, NEW at \in Nat,
         NEW int, int = Moved(a, id, at)
  PROVE  /\ int \in LiveRun /\ ValidRun(int) /\ int.status = "Approved" /\ int.step = "testing"
         /\ int.report = 0 /\ int.recovery = id /\ int.updated = at /\ int.ledger = a.ledger
         /\ int.approval = a.approval /\ int.cand = a.cand /\ int.steps = a.steps
         /\ int.policy = a.policy /\ int.promotion = None /\ ~IsFinal(int)
<1>1. AwaitsReview(a) /\ ApprovalBinds(a)
  BY DEF ValidRun, StatusIsEarned
<1>2. /\ int \in LiveRun /\ int.status = a.status /\ int.step = a.step
      /\ int.report = a.report /\ int.recovery = id /\ int.updated = at /\ int.ledger = a.ledger
      /\ int.approval = a.approval /\ int.cand = a.cand /\ int.steps = a.steps
      /\ int.policy = a.policy /\ int.promotion = None
  BY DEF LiveRun, RunsWith, Moved
<1>3. AwaitsReview(int) /\ ApprovalBinds(int)
  BY <1>1, <1>2 DEF AwaitsReview, ApprovalBinds, AwaitingStep, AtStep, ReviewLedger
<1>4. ValidRun(int)
  BY <1>2, <1>3 DEF ValidRun, StatusIsEarned, CandidateFitsRun, Untouched
<1>5. QED
  BY <1>1, <1>2, <1>4 DEF AwaitsReview, IsFinal

\* The two ways to say what an Approved run is to a later one.
Unevaluated(b, time) ==
  [b EXCEPT !.status = "Approved", !.step = "testing", !.report = 0, !.updated = time]

GoneBack(b, id, at) ==
  [b EXCEPT !.status = "Approved", !.step = "testing", !.updated = at,
            !.report = 0, !.promotion = None, !.recovery = id]

LEMMA ApprovedAgain ==
  ASSUME NEW b \in LiveRun, NEW at, NEW id, NEW time, NEW x, x = Moved(Unevaluated(b, time), id, at)
  PROVE  /\ x.status = "Approved" /\ x.step = "testing" /\ x.ledger = b.ledger
         /\ x.cand = b.cand /\ x.approval = b.approval
         /\ GoneBack(b, id, at) = x
<1>1. b.promotion = None
  BY DEF LiveRun, RunsWith
<1>2. QED
  BY <1>1 DEF LiveRun, RunsWith, Unevaluated, Moved, GoneBack

\* The Approved run behind a failure that was reported, whose candidate is still there.
LEMMA FailedSource ==
  ASSUME IInv, run.status = "Failed", run.approval # None, run.cand.life = "active"
  PROVE  LET a == ApprovedOf(run, files) IN
         /\ a # None /\ ValidRun(a) /\ a.status = "Approved" /\ a.step = "testing"
         /\ a.ledger = run.ledger /\ a.cand = run.cand /\ a.approval = run.approval
         /\ a.recovery <= run.recovery
         /\ [EvaluationReset(run) EXCEPT
              !.status = "Approved", !.step = "testing", !.updated = a.updated,
              !.report = 0, !.promotion = None, !.recovery = a.recovery] = a
         /\ run.report = Attempt /\ run.steps["testing"].art = Attempt /\ Attempt \in DOMAIN files.evals
         /\ files.evals[Attempt].run = a /\ files.evals[Attempt].stage = "report"
         /\ ~files.evals[Attempt].passed
         /\ Kind(run, files) = "adopt" => AdoptionIsExact(run, run.recovery, files)
<1> DEFINE a == ApprovedOf(run, files)
           n == run.recovery
           r == files.recoveries[n]
           b == EvaluationReset(run)
           u == UnrecoveredApproved(run)
           source == IF Kind(run, files) = "adopt" THEN r.source
                     ELSE InvalidatedRun(r.approved, n, r.created)
           c == [run.cand EXCEPT !.life = "active", !.started = None, !.cleaned = None]
<1>1. /\ run \in LiveRun /\ files \in Evidence /\ ValidRun(run) /\ MayStand(run, files)
      /\ n = Len(files.recoveries) /\ n \in Nat /\ DecisionsAreNamed(files)
      /\ ChainStands(n, files) /\ files.evals \in Seq(Evaluation)
  BY Known DEF Evidence
<1>2. /\ run.steps["testing"].art = run.report /\ run.report = Len(files.evals)
      /\ files.evals[run.report].stage = "report" /\ a # None /\ ValidRun(a)
      /\ files.evals[run.report].run = a
      /\ files.evals[run.report].passed = (run.status = "EvalPassed")
  BY <1>1 DEF MayStand, IsFinal, FinalStands, Evaluated
<1>3. run.report # 0
  BY <1>1, <1>2 DEF ValidRun, StatusIsEarned, FinalRun, AwaitingStep
<1>4. /\ run.report = Attempt /\ run.steps["testing"].art = Attempt /\ Attempt \in DOMAIN files.evals
      /\ files.evals[Attempt].run = a /\ files.evals[Attempt].stage = "report"
      /\ ~files.evals[Attempt].passed
  <2> HIDE DEF a
  <2>1. run.report = Attempt /\ Attempt \in DOMAIN files.evals
    BY <1>1, <1>2, <1>3 DEF Attempt
  <2>2. files.evals[run.report].passed = FALSE
    BY <1>2
  <2>3. QED
    BY <1>2, <2>1, <2>2
<1>5. CleanupTimes(run.cand) /\ run.cand \in Candidate /\ run.promotion = None
      /\ run.approval \in Approval
  BY <1>1 DEF ValidRun, CandidateFitsRun, CandidateIsWellFormed, LiveRun, RunsWith
<1>6. c = run.cand
  BY <1>5 DEF CleanupTimes, Candidate
<1>7. b \in LiveRun /\ b = [run EXCEPT !.steps = b.steps]
  BY <1>1, EvaluationResetFields DEF LiveRun
<1>8. u = [b EXCEPT !.status = "Approved", !.step = "testing", !.report = 0,
                    !.updated = run.approval.at, !.cand.life = "active",
                    !.cand.started = None, !.cand.cleaned = None]
  BY DEF UnrecoveredApproved
<1> HIDE DEF b, u
<1>9. /\ b.cand = run.cand /\ b.approval = run.approval /\ b.ledger = run.ledger
      /\ b.promotion = None /\ b.recovery = n
  BY <1>1, <1>5, <1>7 DEF LiveRun, RunsWith
<1>10. [b.cand EXCEPT !.life = "active", !.started = None, !.cleaned = None] = run.cand
  BY <1>6, <1>9
<1> HIDE DEF c
<1>11. u = [b EXCEPT !.status = "Approved", !.step = "testing", !.report = 0,
                     !.updated = run.approval.at]
  BY <1>7, <1>8, <1>9, <1>10 DEF LiveRun, RunsWith
<1>12. /\ u.status = "Approved" /\ u.step = "testing" /\ u.ledger = run.ledger
       /\ u.cand = run.cand /\ u.approval = run.approval /\ u.recovery = n
       /\ DOMAIN u = DOMAIN b
  BY <1>7, <1>9, <1>11 DEF LiveRun, RunsWith
<1>13. ASSUME NEW x, x = [u EXCEPT !.recovery = x.recovery, !.updated = x.updated]
       PROVE  /\ x.status = "Approved" /\ x.step = "testing" /\ x.ledger = run.ledger
              /\ x.cand = run.cand /\ x.approval = run.approval
              /\ [b EXCEPT !.status = "Approved", !.step = "testing", !.updated = x.updated,
                           !.report = 0, !.promotion = None, !.recovery = x.recovery] = x
  <2>1. /\ x.status = "Approved" /\ x.step = "testing" /\ x.ledger = b.ledger
        /\ x.cand = b.cand /\ x.approval = b.approval
        /\ [b EXCEPT !.status = "Approved", !.step = "testing", !.updated = x.updated,
                     !.report = 0, !.promotion = None, !.recovery = x.recovery] = x
    <3> DEFINE time == run.approval.at
    <3>1. x = Moved(Unevaluated(b, time), x.recovery, x.updated)
      BY <1>11, <1>13 DEF Moved, Unevaluated
    <3> HIDE DEF time
    <3>2. /\ x.status = "Approved" /\ x.step = "testing" /\ x.ledger = b.ledger
          /\ x.cand = b.cand /\ x.approval = b.approval
          /\ GoneBack(b, x.recovery, x.updated) = x
      BY <1>7, <3>1, ApprovedAgain
    <3>3. QED
      BY <3>2 DEF GoneBack
  <2>2. QED
    BY <1>9, <2>1
<1>14. u = [u EXCEPT !.recovery = u.recovery, !.updated = u.updated]
  BY <1>7, <1>11 DEF LiveRun, RunsWith
<1>15. n # 0 => n \in 1 .. n /\ n \in DOMAIN files.recoveries /\ r \in RecoveryDecision
  BY <1>1 DEF Evidence
<1> HIDE DEF r, source
<1>16. CASE Kind(run, files) \in {"none", "revise"}
  <2>1. a = u
    BY <1>16 DEF ApprovedOf, u
  <2>2. a = [u EXCEPT !.recovery = a.recovery, !.updated = a.updated] /\ a.recovery <= n
    <3> HIDE DEF n, a
    <3>1. n <= n
      BY <1>1
    <3>2. QED
      BY <1>12, <1>14, <2>1, <3>1
  <2> HIDE DEF a
  <2>3. QED
    BY <1>2, <1>4, <1>13, <1>16, <2>2 DEF b, a
<1>17. CASE Kind(run, files) = "adopt"
  <2>1. /\ a = source /\ source = [u EXCEPT !.recovery = source.recovery, !.updated = source.updated]
        /\ CleanupMatchesUpdate(run, r.created)
        /\ AdoptedRun(r, n) = [run EXCEPT !.updated = r.created, !.cand.life = "active",
                                         !.cand.started = None, !.cand.cleaned = None]
    BY <1>2, <1>17 DEF ApprovedOf, u, source, r
  <2>2. n # 0 /\ source = r.source
    BY <1>17 DEF Kind, source
  <2>3. source.recovery = n - 1
    BY <1>1, <1>15, <2>2 DEF ChainStands, EntryStands, r
  <2>4. AdoptionIsExact(run, n, files)
    <3>1. run.updated = r.created
      BY <2>1 DEF CleanupMatchesUpdate
    <3>2. [run EXCEPT !.updated = r.created, !.cand.life = "active",
                      !.cand.started = None, !.cand.cleaned = None]
            = [run EXCEPT !.updated = r.created, !.cand = c]
      BY <1>1, <1>5 DEF c, LiveRun, RunsWith
    <3>3. [run EXCEPT !.updated = r.created, !.cand = c] = run
      BY <1>1, <1>6, <3>1 DEF LiveRun, RunsWith
    <3>4. QED
      BY <2>1, <3>2, <3>3 DEF AdoptionIsExact, r
  <2>5. a = [u EXCEPT !.recovery = a.recovery, !.updated = a.updated] /\ a.recovery <= n
    BY <1>1, <2>1, <2>3
  <2> HIDE DEF a
  <2>6. QED
    BY <1>2, <1>4, <1>13, <2>4, <2>5 DEF b, a
<1>18. CASE Kind(run, files) = "invalidate"
  <2>1. /\ a = source /\ source = [u EXCEPT !.recovery = source.recovery, !.updated = source.updated]
    BY <1>2, <1>18 DEF ApprovedOf, u, source, r
  <2>2. n # 0 /\ r.kind = "invalidate" /\ source = InvalidatedRun(r.approved, n, r.created)
    BY <1>18 DEF Kind, source, r
  <2>3. r.approved \in LiveRun /\ r.created \in Nat
    BY <1>1, <1>15, <2>2 DEF DecisionsAreNamed, RecoveryDecision, r
  <2>4. source.recovery = n
    <3> DEFINE P == {None}
    <3>1. r.approved \in RunsWith(P) /\ None \in P
      BY <2>3 DEF LiveRun
    <3> HIDE DEF P
    <3>2. QED
      <4>1. n \in Nat /\ r.created \in Nat
        BY <1>1, <2>3
      <4> HIDE DEF n
      <4>2. InvalidatedRun(r.approved, n, r.created).recovery = n
        BY <3>1, <4>1, InvalidatedFields
      <4>3. QED
        BY <2>2, <4>2
  <2>5. a = [u EXCEPT !.recovery = a.recovery, !.updated = a.updated] /\ a.recovery <= n
    BY <1>1, <2>1, <2>4
  <2> HIDE DEF a
  <2>6. QED
    BY <1>2, <1>4, <1>13, <1>18, <2>5 DEF b, a
<1>19. Kind(run, files) \in {"none", "revise", "adopt", "invalidate"}
  BY <1>15 DEF Kind, RecoveryDecision, r
<1>20. QED
  BY <1>16, <1>17, <1>18, <1>19

\* The Approved run that an invalidation goes back to, and what binds it.
LEMMA SourceIs ==
  ASSUME LifeInv, MayInvalidate
  PROVE  LET a == InvalidationSource IN
         /\ a \in LiveRun /\ ValidRun(a) /\ a.status = "Approved"
         /\ a.ledger = run.ledger /\ a.cand = run.cand /\ a.approval = run.approval
         /\ run.approval # None /\ a.recovery <= run.recovery
         /\ \A i \in DOMAIN EarlySteps : a.steps[EarlySteps[i]].st \in Good
         /\ InvalidationBinds(Invalidation, files)
         /\ Kind(run, files) = "adopt" => AdoptionIsExact(run, run.recovery, files)
<1> DEFINE a == InvalidationSource
           b == EvaluationReset(run)
<1>1. /\ run \in LiveRun /\ ValidRun(run) /\ files \in Evidence /\ a \in LiveRun
      /\ Attempt > 0 /\ run.cand.life = "active" /\ run.recovery \in Nat
  BY Known, SourceIsRun DEF LifeInv, MayInvalidate
<1>2. /\ Invalidation.source = run /\ Invalidation.approved = a /\ Invalidation.attempt = Attempt
  BY DEF Invalidation
<1>3. CASE run.status = "Approved"
  <2>1. a = run
    BY <1>3 DEF InvalidationSource
  <2>2. /\ AwaitsReview(run) /\ run.approval # None /\ ~IsFinal(run)
    BY <1>1, <1>3 DEF ValidRun, StatusIsEarned, ApprovalBinds, IsFinal
  <2>3. files.evals[Attempt].run = run /\ Attempt <= Len(files.evals)
    <3>1. Len(files.evals) \in Nat
      BY <1>1 DEF Evidence
    <3>2. QED
      BY <1>3, <3>1 DEF MayInvalidate, Attempt
  <2>4. InvalidationBinds(Invalidation, files)
    BY <1>1, <1>2, <1>3, <2>1, <2>2, <2>3 DEF InvalidationBinds, AwaitsReview
  <2>5. \A i \in DOMAIN EarlySteps : run.steps[EarlySteps[i]].st \in Good
    BY <1>3 DEF LifeInv, StepsInOrder
  <2>6. Kind(run, files) # "adopt"
    BY <2>2 DEF LifeInv, DecisionsFit
  <2> HIDE DEF a
  <2>7. QED
    BY <1>1, <1>3, <2>1, <2>2, <2>4, <2>5, <2>6 DEF a
<1>4. CASE run.status # "Approved"
  <2>1. run.status = "Failed" /\ run.approval # None
    BY <1>4 DEF MayInvalidate
  <2>2. a = ApprovedOf(run, files)
    BY <1>4 DEF InvalidationSource
  <2> HIDE DEF a, b
  <2>3. /\ a # None /\ ValidRun(a) /\ a.status = "Approved" /\ a.step = "testing"
        /\ a.ledger = run.ledger /\ a.cand = run.cand /\ a.approval = run.approval
        /\ a.recovery <= run.recovery
        /\ [b EXCEPT
             !.status = "Approved", !.step = "testing", !.updated = a.updated,
             !.report = 0, !.promotion = None, !.recovery = a.recovery] = a
        /\ run.report = Attempt /\ run.steps["testing"].art = Attempt /\ Attempt \in DOMAIN files.evals
        /\ files.evals[Attempt].run = a /\ files.evals[Attempt].stage = "report"
        /\ ~files.evals[Attempt].passed
        /\ Kind(run, files) = "adopt" => AdoptionIsExact(run, run.recovery, files)
    BY <1>1, <2>1, <2>2, FailedSource DEF LifeInv, b
  <2>4. Attempt <= Len(files.evals)
    <3>1. Len(files.evals) \in Nat
      BY <1>1 DEF Evidence
    <3>2. QED
      BY <3>1 DEF Attempt
  <2>5. InvalidationBinds(Invalidation, files)
    BY <1>2, <2>1, <2>3, <2>4 DEF InvalidationBinds, b
  <2>6. \A i \in DOMAIN EarlySteps : a.steps[EarlySteps[i]].st \in Good
    <3>1. /\ b \in LiveRun
          /\ \A t \in StepNames \ {"testing", "eval_report"} : b.steps[t] = run.steps[t]
      BY <1>1, EvaluationResetFields DEF b, LiveRun
    <3>2. GoneBack(b, a.recovery, a.updated) = a
      BY <2>3 DEF GoneBack
    <3>3. a.steps = b.steps
      BY <3>1, <3>2 DEF GoneBack, LiveRun, RunsWith
    <3>4. FinalRun(run, FALSE)
      BY <1>1, <2>1 DEF ValidRun, StatusIsEarned
    <3>5. QED
      BY <3>1, <3>3, <3>4, EarlyIs DEF FinalRun, Good
  <2>7. QED
    BY <1>1, <2>1, <2>3, <2>5, <2>6 DEF a
<1>5. QED
  BY <1>3, <1>4

LEMMA InvalidateLives ==
  ASSUME LifeInv, Invalidate
  PROVE  LifeInv'
<1> DEFINE n == run.recovery
           a == InvalidationSource
           d == Invalidation
           g == Decide(d)
<1>1. /\ IInv' /\ run \in AnyRun /\ files \in Evidence /\ clock \in Nat /\ n \in Nat
      /\ n = Len(files.recoveries)
  BY Known, InvalidateKeeps DEF LifeInv
<1>2. /\ MayInvalidate /\ run' = InvalidatedRun(a, n + 1, clock) /\ files' = g /\ clock' = clock
  BY DEF Invalidate, Publish, Invalidation
<1>3. /\ a \in LiveRun /\ ValidRun(a) /\ a.status = "Approved"
      /\ a.ledger = run.ledger /\ a.approval = run.approval
      /\ run.approval # None /\ a.recovery <= n /\ a.recovery \in Nat
      /\ \A i \in DOMAIN EarlySteps : a.steps[EarlySteps[i]].st \in Good
  <2>1. a.recovery \in Nat
    BY <1>2, SourceIs DEF LiveRun, RunsWith
  <2> HIDE DEF a
  <2>2. QED
    BY <1>2, <2>1, SourceIs DEF a
<1>4. /\ d.kind = "invalidate" /\ d.source = run /\ d.approved = a /\ d.attempt = Attempt
      /\ d.created = clock
      /\ files'.evals = files.evals /\ files'.recoveries = Append(files.recoveries, d)
  BY <1>1, <1>2 DEF Invalidation, Decide, Evidence
<1> HIDE DEF a, d, g
<1>5. /\ DOMAIN files'.recoveries = 1 .. n + 1 /\ files'.recoveries[n + 1] = d
      /\ DOMAIN files.recoveries = 1 .. n
      /\ \A k \in 1 .. n : files'.recoveries[k] = files.recoveries[k]
  BY <1>1, <1>4 DEF Evidence
<1>6. /\ run'.status = "Approved" /\ run'.recovery = n + 1 /\ run'.updated = clock
      /\ run'.ledger = run.ledger /\ run'.approval = run.approval /\ run'.steps = a.steps
  <2>1. AwaitsReview(a) /\ n + 1 \in Nat
    BY <1>1, <1>3 DEF ValidRun, StatusIsEarned
  <2>2. run' = Moved(a, n + 1, clock)
    BY <1>1, <1>2, <1>3, <2>1, InvalidatedIs
  <2> HIDE DEF n
  <2>3. /\ run'.status = "Approved" /\ run'.recovery = n + 1 /\ run'.updated = clock
        /\ run'.ledger = a.ledger /\ run'.approval = a.approval /\ run'.steps = a.steps
    <3> DEFINE id == n + 1
               int == Moved(a, id, clock)
    <3>1. id \in Nat /\ clock \in Nat /\ a \in LiveRun /\ ValidRun(a) /\ a.status = "Approved"
      BY <1>1, <1>3, <2>1
    <3> HIDE DEF id
    <3>2. /\ int.status = "Approved" /\ int.recovery = id /\ int.updated = clock
          /\ int.ledger = a.ledger /\ int.approval = a.approval /\ int.steps = a.steps
      BY <3>1, ApprovedMoves
    <3>3. QED
      BY <2>2, <3>2 DEF id
  <2>4. QED
    BY <1>3, <2>3
<1>7. Kind(run', files') = "invalidate"
  BY <1>1, <1>4, <1>5, <1>6 DEF Kind
<1>8. ~IsOpen'
  BY <1>6 DEF IsOpen
<1>9. StepsInOrder'
  BY <1>3, <1>6, <1>8 DEF StepsInOrder
<1>10. LedgerLeads'
  BY <1>6, <1>7, <1>8 DEF LifeInv, LedgerLeads
<1>11. DecisionsFit'
  <2>1. ASSUME NEW k \in DOMAIN files'.recoveries, files'.recoveries[k].kind = "invalidate"
        PROVE  files'.recoveries[k].approved.recovery < k
    <3>1. CASE k \in 1 .. n
      BY <1>5, <2>1, <3>1 DEF LifeInv, DecisionsFit
    <3>2. CASE k = n + 1
      BY <1>1, <1>3, <1>4, <1>5, <3>2
    <3>3. QED
      BY <1>1, <1>5, <3>1, <3>2
  <2>2. Attempt' = Attempt /\ Attempt \in Nat
    BY <1>1, <1>4 DEF Attempt, Evidence
  <2>3. files'.recoveries[run'.recovery] = d /\ Attempt' <= d.attempt + 1
    <3>1. Attempt <= Attempt + 1
      BY <2>2
    <3>2. QED
      BY <1>4, <1>5, <1>6, <2>2, <3>1
  <2>4. run' = InvalidatedRun(d.approved, run'.recovery, d.created)
    BY <1>2, <1>4, <1>6
  <2>5. QED
    BY <1>3, <1>6, <1>7, <2>1, <2>3, <2>4 DEF DecisionsFit, IsFinal
<1>12. AttemptsFit'
  BY <1>1, <1>2, <1>4, <1>6, LifeFacts, AttemptsKept DEF LifeInv
<1>13. QED
  BY <1>1, <1>9, <1>10, <1>11, <1>12 DEF LifeInv

LEMMA InitLives ==
  ASSUME Init
  PROVE  LifeInv
<1>1. IInv
  BY InitHolds
<1>2. run = Pristine /\ files = [evals |-> <<>>, recoveries |-> <<>>] /\ clock = 0
  BY DEF Init
<1>3. /\ run.status = "Pending" /\ run.step = Steps[1]
      /\ \A s \in StepNames : run.steps[s] = [st |-> "Pending", art |-> 0]
      /\ run.ledger = <<>> /\ run.approval = None /\ run.report = 0 /\ run.recovery = 0
      /\ run.updated = 0
  BY <1>2 DEF Pristine
<1>4. /\ Steps[1] \in ProviderNames /\ Steps[1] \in StepNames
      /\ \A t \in StepNames : ~(Position[t] < Position[Steps[1]])
  <2>1. 1 \in DOMAIN ProviderSteps /\ ProviderSteps[1] = Steps[1] /\ 1 \in DOMAIN Steps
    BY StepsAreListed
  <2>2. Steps[1] \in ProviderNames
    BY <2>1 DEF ProviderNames, ToSet
  <2>3. Position[Steps[1]] = 1 /\ \A t \in StepNames : Position[t] \in 1 .. Len(EarlySteps) + 4
    BY <2>1, PositionOfStep, StepsAreListed
  <2>4. Len(EarlySteps) \in Nat
    BY StepsAreListed
  <2>5. \A t \in StepNames : ~(Position[t] < 1)
    BY <2>3, <2>4
  <2>6. QED
    BY <2>1, <2>2, <2>3, <2>5, PositionOfStep
<1>5. Kind(run, files) = "none" /\ ~PendingRevision
  BY <1>3 DEF Kind, PendingRevision
<1>6. StepsInOrder
  BY <1>3, <1>4 DEF StepsInOrder
<1>7. LedgerLeads
  BY <1>3, <1>5 DEF LedgerLeads
<1>8. DecisionsFit /\ AttemptsFit
  BY <1>2, <1>3, <1>5 DEF DecisionsFit, AttemptsFit
<1>9. QED
  BY <1>1, <1>6, <1>7, <1>8 DEF LifeInv

LEMMA StepLives ==
  ASSUME LifeInv, Next
  PROVE  LifeInv'
BY ProvisionLives, BeginLives, AskLives, AnswerLives, FinishLives, ApplyLives, ApproveLives,
   IntendLives, TestLives, ReportLives, ConcludeLives, PromoteLives, ReviseLives, AdoptLives,
   InvalidateLives, CleanLives, TickLives DEF Next, Step, Decision

LEMMA StutterLives ==
  ASSUME LifeInv, UNCHANGED vars
  PROVE  LifeInv'
<1>1. run' = run /\ files' = files /\ clock' = clock /\ IInv'
  BY StutterHolds DEF vars, LifeInv
<1>2. files \in Evidence /\ clock \in Nat
  BY Known DEF LifeInv
<1>3. AttemptsFit'
  BY <1>1, <1>2, LifeFacts, AttemptsKept DEF LifeInv
<1>4. Attempt' = Attempt
  BY <1>1 DEF Attempt
<1>5. QED
  BY <1>1, <1>3, <1>4, RunStays DEF LifeInv, DecisionsFit

\* What the writers rely on holds in every reachable state of every instance.
THEOREM LifeInvHolds == Spec => []LifeInv
<1>1. Init => LifeInv
  BY InitLives
<1>2. LifeInv /\ [Next]_vars => LifeInv'
  BY StepLives, StutterLives
<1>3. QED
  BY <1>1, <1>2, PTL DEF Spec

-----------------------------------------------------------------------------
(* What a command accepts, its publication accepts.                        *)

\* What the exchanges rest on is the ledger and the decisions, not the rest of the run.
LEMMA SameLedger ==
  ASSUME NEW r, NEW int, int.ledger = r.ledger, int.recovery = r.recovery, NEW f, NEW sound,
         LedgerStands(r, f, sound)
  PROVE  LedgerStands(int, f, sound)
  BY DEF LedgerStands, OpensAttempt, Authorized

LEMMA Sound ==
  ASSUME IInv
  PROVE  LedgerStands(run, files, TRUE) /\ ChainStands(run.recovery, files) = TRUE
<1>1. ChainStands(run.recovery, files) /\ MayStand(run, files)
  BY Known
<1>2. ChainStands(run.recovery, files) = TRUE
  BY <1>1 DEF ChainStands
<1>3. QED
  BY <1>1, <1>2 DEF MayStand

\* A run at work, or stopped short of the review.
LEMMA OpenStands ==
  ASSUME NEW int, NEW f, int.status \in {"Pending", "Running", "Blocked", "Failed"},
         int.approval = None, int.promotion = None, CandidateIsWellFormed(int.cand),
         int.cand.life = "active" \/ (int.status \in {"Blocked", "Failed"} /\ int.cand.life # "provisioning"),
         LedgerIsWellFormed(int.ledger), LedgerStands(int, f, ChainStands(int.recovery, f))
  PROVE  MayStand(int, f) /\ ~IsFinal(int) /\ ~IsFrozen(int)
<1>1. ValidRun(int)
  BY DEF ValidRun, CandidateFitsRun, StatusIsEarned
<1>2. QED
  BY <1>1 DEF MayStand, IsFinal, IsFrozen

\* The run that a step is at work on.
LEMMA WorkedOn ==
  ASSUME LifeInv, NEW s \in ProviderNames, Runnable(s)
  PROVE  /\ run \in AnyRun /\ files \in Evidence /\ s = run.step /\ IsOpen /\ run.approval = None
         /\ run.promotion = None /\ run.status \in {"Pending", "Running"} /\ run.cand.life = "active"
         /\ CandidateIsWellFormed(run.cand) /\ LedgerIsWellFormed(run.ledger)
         /\ ~IsFinal(run) /\ ~IsFrozen(run) /\ LedgerStands(run, files, TRUE)
         /\ ChainStands(run.recovery, files) = TRUE
         /\ run.ledger \in Seq(Entry) /\ run.steps \in StepStates /\ PatchIsDecided(run)
<1>1. s = run.step /\ IsOpen /\ run.approval = None /\ run.status \in {"Pending", "Running"}
  BY RunnableIs
<1>2. run \in AnyRun /\ files \in Evidence /\ ValidRun(run) /\ PatchIsDecided(run)
  BY Known DEF LifeInv
<1>3. LedgerStands(run, files, TRUE) /\ ChainStands(run.recovery, files) = TRUE
  BY Sound DEF LifeInv
<1>4. QED
  BY <1>1, <1>2, <1>3, LifeFacts DEF ValidRun, CandidateFitsRun, Runnable, IsFinal, IsFrozen

\* A step that may begin is begun.
LEMMA BeginAgrees ==
  ASSUME LifeInv, NEW s \in ProviderNames, MayBegin(s)
  PROVE  PublishesOrdinary(run, Begun(s), files)
<1> DEFINE int == Begun(s)
<1>1. Runnable(s)
  BY DEF MayBegin
<1>2. /\ int.status = "Running" /\ int.approval = run.approval /\ int.promotion = run.promotion
      /\ int.cand = run.cand /\ int.ledger = run.ledger /\ int.recovery = run.recovery
  BY <1>1, WorkedOn DEF Begun, AnyRun, RunsWith
<1> HIDE DEF int
<1>3. LedgerStands(int, files, ChainStands(int.recovery, files))
  BY <1>1, <1>2, WorkedOn, SameLedger
<1>4. MayStand(int, files) /\ ~IsFinal(int) /\ ~IsFrozen(int)
  <2>1. /\ int.status \in {"Pending", "Running", "Blocked", "Failed"} /\ int.approval = None
        /\ int.promotion = None /\ CandidateIsWellFormed(int.cand) /\ int.cand.life = "active"
        /\ LedgerIsWellFormed(int.ledger)
    BY <1>1, <1>2, WorkedOn
  <2>2. QED
    BY <1>3, <2>1, OpenStands
<1>5. QED
  BY <1>1, <1>2, <1>4, WorkedOn DEF PublishesOrdinary, MaySucceed, int

\* A ledger that goes on with a record.
LEMMA LedgerAppended ==
  ASSUME NEW r \in AnyRun, LedgerIsWellFormed(r.ledger), NEW f, LedgerStands(r, f, TRUE),
         NEW e \in Entry, NEW int, int.ledger = Append(r.ledger, e), int.recovery = r.recovery,
         IF r.ledger = <<>> \/ Group(e) # Group(Last(r.ledger))
         THEN /\ \A j \in DOMAIN r.ledger : Group(r.ledger[j]) # Group(e)
              /\ r.ledger # <<>> => Last(r.ledger).phase = "response"
              /\ OpensAttempt(r, r.ledger, e, f, TRUE)
         ELSE Alternates(Last(r.ledger), e) /\ ContinuesAttempt(Last(r.ledger), e)
  PROVE  LedgerIsWellFormed(int.ledger) /\ LedgerStands(int, f, TRUE)
<1> DEFINE l == r.ledger
           m == int.ledger
           n == Len(l)
<1>1. l \in Seq(Entry)
  BY DEF AnyRun, RunsWith
<1>2. /\ n \in Nat /\ DOMAIN l = 1 .. n /\ m \in Seq(Entry) /\ DOMAIN m = 1 .. n + 1
      /\ m[n + 1] = e /\ \A i \in 1 .. n : m[i] = l[i]
      /\ l = <<>> <=> n = 0
  BY <1>1
<1>3. Last(l) = l[n]
  BY DEF Last
<1>4. e.step \in ProviderNames /\ e.attempt \in Nat \ {0}
  BY DEF Entry
<1>5. /\ \A i \in 1 .. n + 1 : SubSeq(m, 1, i - 1) = SubSeq(l, 1, i - 1)
      /\ SubSeq(m, 1, n + 1 - 1) = l
  <2>1. ASSUME NEW i \in 1 .. n + 1 PROVE SubSeq(m, 1, i - 1) = SubSeq(l, 1, i - 1)
    BY <1>1, <1>2
  <2>2. SubSeq(l, 1, n) = l /\ n + 1 - 1 = n /\ n + 1 \in 1 .. n + 1
    BY <1>1, <1>2
  <2>3. QED
    BY <2>1, <2>2
<1> HIDE DEF m, n
<1>6. ASSUME NEW i \in 1 .. n
      PROVE  OpensGroup(m, i) <=> OpensGroup(l, i)
  BY <1>2, <1>6 DEF OpensGroup
<1>7. OpensGroup(m, n + 1) <=> (l = <<>> \/ Group(e) # Group(Last(l)))
  <2>1. n + 1 = 1 <=> l = <<>>
    BY <1>2
  <2>2. n + 1 - 1 = n /\ (n # 0 => m[n] = l[n])
    BY <1>2
  <2>3. QED
    BY <1>2, <1>3, <2>1, <2>2 DEF OpensGroup
<1>8. LedgerIsWellFormed(m)
  <2>1. ASSUME NEW i \in 1 .. n
        PROVE  /\ m[i].step \in ProviderNames /\ m[i].attempt > 0
               /\ IF OpensGroup(m, i) THEN GroupIsFresh(m, i) ELSE Alternates(m[i - 1], m[i])
    <3>1. /\ l[i].step \in ProviderNames /\ l[i].attempt > 0
          /\ IF OpensGroup(l, i) THEN GroupIsFresh(l, i) ELSE Alternates(l[i - 1], l[i])
      BY <1>2, <2>1 DEF LedgerIsWellFormed
    <3>2. i # 1 => i - 1 \in 1 .. n
      BY <1>2, <2>1
    <3>3. \A j \in 1 .. i - 1 : j \in 1 .. n
      BY <1>2, <2>1
    <3>4. CASE OpensGroup(l, i)
      <4>1. GroupIsFresh(m, i)
        BY <1>2, <2>1, <3>1, <3>2, <3>3, <3>4 DEF GroupIsFresh
      <4>2. QED
        BY <1>2, <1>6, <3>1, <3>4, <4>1
    <3>5. CASE ~OpensGroup(l, i)
      <4>1. i # 1
        BY <3>5 DEF OpensGroup
      <4>2. QED
        BY <1>2, <1>6, <3>1, <3>2, <3>5, <4>1
    <3>6. QED
      BY <3>4, <3>5
  <2>2. IF OpensGroup(m, n + 1) THEN GroupIsFresh(m, n + 1) ELSE Alternates(m[n + 1 - 1], m[n + 1])
    <3>1. n + 1 - 1 = n /\ (l # <<>> => m[n] = l[n] /\ n \in 1 .. n)
      BY <1>2
    <3>2. CASE OpensGroup(m, n + 1)
      <4>1. /\ \A j \in DOMAIN l : Group(l[j]) # Group(e)
            /\ l # <<>> => Last(l).phase = "response"
            /\ IsInitialRequest(e)
        BY <1>7, <3>2 DEF OpensAttempt
      <4>2. n + 1 > 1 => l # <<>>
        BY <1>2
      <4>3. QED
        BY <1>2, <1>3, <3>1, <3>2, <4>1, <4>2 DEF GroupIsFresh
    <3>3. CASE ~OpensGroup(m, n + 1)
      <4>1. l # <<>> /\ Alternates(Last(l), e)
        BY <1>7, <3>3
      <4>2. QED
        BY <1>2, <1>3, <3>1, <3>3, <4>1
    <3>4. QED
      BY <3>2, <3>3
  <2>3. \A i \in DOMAIN m : i \in 1 .. n \/ i = n + 1
    BY <1>2
  <2>4. e.attempt > 0
    BY <1>4
  <2>5. QED
    BY <1>2, <1>4, <2>1, <2>2, <2>3, <2>4 DEF LedgerIsWellFormed
<1>9. ASSUME NEW prefix, NEW x
      PROVE  OpensAttempt(int, prefix, x, f, TRUE) <=> OpensAttempt(r, prefix, x, f, TRUE)
  BY DEF OpensAttempt, Authorized
<1>10. LedgerStands(int, f, TRUE)
  <2>1. ASSUME NEW i \in 1 .. n
        PROVE  LET prefix == SubSeq(m, 1, i - 1) IN
               IF OpensGroup(m, i) THEN OpensAttempt(int, prefix, m[i], f, TRUE)
                                   ELSE ContinuesAttempt(Last(prefix), m[i])
    <3>1. LET prefix == SubSeq(l, 1, i - 1) IN
          IF OpensGroup(l, i) THEN OpensAttempt(r, prefix, l[i], f, TRUE)
                              ELSE ContinuesAttempt(Last(prefix), l[i])
      BY <1>2, <2>1 DEF LedgerStands
    <3>2. i \in 1 .. n + 1
      BY <1>2, <2>1
    <3>3. QED
      BY <1>2, <1>5, <1>6, <1>9, <3>1, <3>2
  <2>2. IF OpensGroup(m, n + 1) THEN OpensAttempt(int, l, e, f, TRUE)
                                ELSE ContinuesAttempt(Last(l), e)
    BY <1>7, <1>9
  <2>3. \A i \in DOMAIN m : i \in 1 .. n \/ i = n + 1
    BY <1>2
  <2>4. ASSUME NEW i \in DOMAIN m
        PROVE  LET prefix == SubSeq(m, 1, i - 1) IN
               IF OpensGroup(m, i) THEN OpensAttempt(int, prefix, m[i], f, TRUE)
                                   ELSE ContinuesAttempt(Last(prefix), m[i])
    <3>1. CASE i \in 1 .. n
      BY <2>1, <3>1
    <3>2. CASE i = n + 1
      <4>1. SubSeq(m, 1, i - 1) = l /\ m[i] = e
        BY <1>2, <1>5, <3>2
      <4>2. QED
        BY <2>2, <3>2, <4>1
    <3>3. QED
      BY <2>3, <3>1, <3>2
  <2>5. QED
    BY <2>4 DEF LedgerStands, m
<1>11. QED
  BY <1>8, <1>10 DEF m

\* An unanswered revision authorises the attempt that its step asks for.
LEMMA RevisionAuthorizes ==
  ASSUME LifeInv, NEW s \in ProviderNames, Runnable(s), PendingRevision, HeadOf(s) = None
  PROVE  Authorized(run, run.ledger, Question(s), files, TRUE)
<1> DEFINE n == run.recovery
           r == files.recoveries[n]
<1>1. s = run.step /\ IsOpen /\ run.ledger \in Seq(Entry)
  BY WorkedOn
<1>2. Kind(run, files) = "revise" /\ run.ledger = r.source.ledger
  BY DEF PendingRevision
<1>3. n \in Nat /\ n # 0 /\ r.kind = "revise" /\ ChainStands(n, files)
  BY <1>2, Known DEF LifeInv, Kind
<1>4. n \in 1 .. n
  BY <1>3
<1>5. RevisionBinds(r)
  BY <1>3, <1>4 DEF ChainStands, EntryStands
<1>6. r.step = s /\ r.next = LastAttempt(run.ledger, r.step) + 1
  BY <1>1, <1>2, <1>5 DEF RevisionBinds, LifeInv, LedgerLeads
<1>7. IsPrefix(run.ledger, run.ledger)
  BY <1>1 DEF IsPrefix
<1>8. Question(s).step = s /\ Question(s).attempt = LastAttempt(run.ledger, s) + 1
  BY DEF Question
<1>9. \A m \in n .. n : files.recoveries[m].kind = "revise"
  BY <1>3
<1>10. QED
  BY <1>2, <1>4, <1>6, <1>7, <1>8, <1>9 DEF Authorized

\* The next question of a step at work is one its ledger admits.
LEMMA AskAgrees ==
  ASSUME LifeInv, NEW s \in ProviderNames, MayAsk(s)
  PROVE  PublishesHead([run EXCEPT !.ledger = Append(@, Question(s))])
<1> DEFINE l == run.ledger
           q == Question(s)
           int == [run EXCEPT !.ledger = Append(@, q)]
<1>1. Runnable(s) /\ (HeadOf(s) = None \/ WantsRepair(s))
  BY DEF MayAsk, Working
<1>2. q \in Entry /\ l \in Seq(Entry) /\ run \in AnyRun /\ LastAttempt(l, s) \in Nat
  BY <1>1, HeadIsEntry, WorkedOn, LastAttemptIs DEF LifeInv
<1>3. /\ int.status = run.status /\ int.approval = run.approval /\ int.promotion = run.promotion
      /\ int.cand = run.cand /\ int.ledger = Append(l, q) /\ int.recovery = run.recovery
  BY <1>2 DEF AnyRun, RunsWith
<1>4. ASSUME HeadOf(s) = None
      PROVE  /\ \A j \in DOMAIN l : Group(l[j]) # Group(q)
             /\ l # <<>> => Last(l).phase = "response"
             /\ OpensAttempt(run, l, q, files, TRUE)
             /\ l = <<>> \/ Group(q) # Group(Last(l))
  <2>1. q = [step |-> s, attempt |-> LastAttempt(l, s) + 1, index |-> 1,
             kind |-> "initial", phase |-> "request", outcome |-> None]
    BY <1>4 DEF Question
  <2>2. \A j \in DOMAIN l : Group(l[j]) # Group(q)
    <3>1. ASSUME NEW j \in DOMAIN l, Group(l[j]) = Group(q) PROVE FALSE
      <4>1. l[j].step = s /\ l[j].attempt = LastAttempt(l, s) + 1
        BY <2>1, <3>1 DEF Group
      <4>2. l[j].attempt <= LastAttempt(l, s)
        BY <1>2, <4>1, LastAttemptIs
      <4>3. QED
        BY <1>2, <4>1, <4>2
    <3>2. QED
      BY <3>1
  <2>3. ASSUME l # <<>>
        PROVE  /\ Last(l).phase = "response"
               /\ \/ s = NextProviderStep(Last(l).step) /\ Last(l).outcome = "advance"
                  \/ Authorized(run, l, q, files, TRUE)
    <3>1. Last(l) \in Entry
      BY <2>3, LifeFacts
    <3>2. CASE PendingRevision
      BY <1>1, <1>4, <3>2, RevisionAuthorizes, WorkedOn DEF LifeInv, LedgerLeads
    <3>3. CASE ~PendingRevision
      <4>1. Last(l).step # s
        BY <1>4, <2>3, <3>3, LifeFacts, AbsenceAssumption DEF HeadOf
      <4>2. s = NextProviderStep(Last(l).step) /\ Last(l).outcome = "advance"
        BY <1>1, <2>3, <3>3, <4>1, WorkedOn DEF LifeInv, LedgerLeads
      <4>3. Last(l).phase = "response"
        BY <3>1, <4>2, NoneAssumption DEF Entry
      <4>4. QED
        BY <4>2, <4>3
    <3>4. QED
      BY <3>2, <3>3
  <2>4. OpensAttempt(run, l, q, files, TRUE)
    <3>1. IsInitialRequest(q) /\ q.attempt = LastAttempt(l, q.step) + 1 /\ q.step = s
      BY <2>1 DEF IsInitialRequest
    <3>2. CASE l = <<>>
      <4>1. LastAttempt(l, s) = 0
        <5>1. \A i \in DOMAIN l : FALSE
          BY <3>2
        <5> HIDE DEF l
        <5>2. QED
          BY <5>1, <1>2, LastAttemptIs
      <4>2. q.attempt = 1
        BY <3>1, <4>1
      <4>3. QED
        BY <3>1, <3>2, <4>2 DEF OpensAttempt
    <3>3. CASE l # <<>>
      <4>1. Last(l) \in Entry /\ Last(l).phase = "response"
        BY <2>3, <3>3, LifeFacts
      <4>2. Last(l).outcome # None
        BY <4>1, NoneAssumption DEF Entry
      <4>3. QED
        BY <2>3, <3>1, <3>3, <4>2 DEF OpensAttempt
    <3>4. QED
      BY <3>2, <3>3
  <2>5. l = <<>> \/ Group(q) # Group(Last(l))
    <3>1. l # <<>> => Len(l) \in DOMAIN l
      BY <1>2
    <3>2. QED
      BY <2>2, <3>1 DEF Last
  <2>6. QED
    BY <2>2, <2>3, <2>4, <2>5
<1>5. ASSUME HeadOf(s) # None
      PROVE  /\ l # <<>> /\ Group(q) = Group(Last(l))
             /\ Alternates(Last(l), q) /\ ContinuesAttempt(Last(l), q)
  <2> DEFINE head == Last(l)
  <2>1. /\ HeadOf(s) = head /\ head \in Entry /\ l # <<>>
    BY <1>5, HeadIs
  <2>2. head.phase = "response" /\ head.outcome = "invalid" /\ head.kind = "initial"
    BY <1>1, <1>5, <2>1 DEF WantsRepair
  <2>3. q = [head EXCEPT !.index = @ + 1, !.kind = "repair", !.phase = "request", !.outcome = None]
    BY <1>5, <2>1 DEF Question
  <2> HIDE DEF head
  <2>4. /\ q.step = head.step /\ q.attempt = head.attempt /\ q.index = head.index + 1
        /\ q.kind = "repair" /\ q.phase = "request"
    BY <2>1, <2>3 DEF Entry
  <2> HIDE DEF q
  <2>5. QED
    BY <2>1, <2>2, <2>4 DEF Group, Alternates, ContinuesAttempt, head
<1> HIDE DEF q, int
<1>6. LedgerIsWellFormed(int.ledger) /\ LedgerStands(int, files, TRUE)
  <2>1. IF l = <<>> \/ Group(q) # Group(Last(l))
        THEN /\ \A j \in DOMAIN l : Group(l[j]) # Group(q)
             /\ l # <<>> => Last(l).phase = "response"
             /\ OpensAttempt(run, l, q, files, TRUE)
        ELSE Alternates(Last(l), q) /\ ContinuesAttempt(Last(l), q)
    BY <1>4, <1>5
  <2>2. QED
    BY <1>1, <1>2, <1>3, <2>1, WorkedOn, LedgerAppended
<1>7. LedgerStands(int, files, ChainStands(int.recovery, files))
  BY <1>1, <1>3, <1>6, WorkedOn
<1>8. MayStand(int, files)
  <2>1. /\ int.status \in {"Pending", "Running", "Blocked", "Failed"} /\ int.approval = None
        /\ int.promotion = None /\ CandidateIsWellFormed(int.cand) /\ int.cand.life = "active"
    BY <1>1, <1>3, WorkedOn
  <2>2. QED
    BY <1>6, <1>7, <2>1, OpenStands
<1>9. QED
  BY <1>1, <1>8, WorkedOn DEF PublishesHead, int, q

\* Every verdict on an answered step is one its run may carry.
LEMMA FinishAgrees ==
  ASSUME LifeInv, NEW s \in ProviderNames, MayFinish(s), NEW v \in Verdicts(s)
  PROVE  PublishesFinish(Finished(s, v))
<1> DEFINE head == HeadOf(s)
           good == v \in {"Completed", "Passed"}
           st == [run.steps EXCEPT ![s] = [st |-> v, art |-> IF good THEN head.attempt ELSE 0]]
           policy == IF s = "development" /\ head.outcome = "advance" THEN {head.attempt}
                     ELSE run.policy
           next == IF good THEN Steps[Position[s] + 1] ELSE s
           status == IF ~good THEN v
                     ELSE IF s = "output_review" THEN "AwaitingHumanReview" ELSE "Running"
           int == Finished(s, v)
<1>1. /\ Runnable(s) /\ Patched(s) /\ head # None /\ head.phase = "response"
      /\ head.outcome \in {"advance", "stop", "invalid"}
  <2>1. Runnable(s) /\ Patched(s) /\ head # None /\ head.phase = "response"
    BY DEF MayFinish, Working
  <2>2. QED
    BY <2>1, HeadIs DEF Entry
<1>2. /\ v \in {"Completed", "Passed", "Blocked", "Failed"}
      /\ good /\ s = "output_review" => v = "Passed" /\ head.outcome = "advance"
  BY <1>1 DEF Verdicts
<1>3. int = [run EXCEPT !.steps = st, !.step = next, !.status = status, !.policy = policy,
                        !.updated = clock]
  BY <1>1, WorkedOn DEF Finished, AnyRun, RunsWith
<1>4. s \in StepNames /\ {"development", "testing", "eval_report"} \subseteq StepNames
  BY ProviderPositions, PositionsOfLast
<1>5. st[s] = [st |-> v, art |-> IF good THEN head.attempt ELSE 0]
      /\ \A t \in StepNames \ {s} : st[t] = run.steps[t]
  BY <1>1, <1>4, WorkedOn DEF StepStates
<1>6. status \in {"Blocked", "Failed", "AwaitingHumanReview", "Running"}
  BY <1>2
<1>7. status = "AwaitingHumanReview" <=> good /\ s = "output_review"
  BY <1>2
<1> HIDE DEF st, policy, int, status
<1>8. /\ int.status = status /\ int.step = next /\ int.steps = st /\ int.approval = run.approval
      /\ int.promotion = run.promotion /\ int.cand = run.cand /\ int.ledger = run.ledger
      /\ int.recovery = run.recovery /\ int.report = run.report
  BY <1>1, <1>3, WorkedOn DEF AnyRun, RunsWith
<1>9. LedgerStands(int, files, ChainStands(int.recovery, files))
  BY <1>1, <1>8, WorkedOn, SameLedger
<1>10. CASE status # "AwaitingHumanReview"
  <2>1. /\ int.status \in {"Pending", "Running", "Blocked", "Failed"} /\ int.approval = None
        /\ int.promotion = None /\ CandidateIsWellFormed(int.cand) /\ int.cand.life = "active"
        /\ LedgerIsWellFormed(int.ledger)
    BY <1>1, <1>6, <1>8, <1>10, WorkedOn
  <2>2. MayStand(int, files) /\ ~IsFinal(int) /\ ~IsFrozen(int)
    BY <1>9, <2>1, OpenStands
  <2>3. QED
    BY <1>1, <1>8, <2>2, WorkedOn DEF PublishesFinish, PublishesOrdinary, MaySucceed, int
<1>11. CASE status = "AwaitingHumanReview"
  <2>1. good /\ s = "output_review" /\ v = "Passed" /\ head.outcome = "advance"
    BY <1>2, <1>7, <1>11
  <2>2. int.step = "testing"
    BY <1>8, <2>1, PositionsOfLast, PositionOfStep, StepsAreListed
  <2>3. /\ head = Last(run.ledger) /\ head \in Entry /\ head.step = s /\ run.ledger # <<>>
        /\ head.attempt = LastAttempt(run.ledger, s)
    BY <1>1, HeadIs
  <2>4. ActiveApplied(int.cand) /\ AtStep(int, "development", "Completed")
    BY <1>1, <1>4, <1>5, <1>8, <2>1, WorkedOn DEF Patched, ActiveApplied, PatchIsDecided, AtStep
  <2>5. AwaitingStep(int, "output_review", "Passed", TRUE)
    <3>1. head.attempt # 0
      BY <2>3 DEF Entry
    <3>2. QED
      BY <1>5, <1>8, <2>1, <3>1 DEF AwaitingStep, AtStep
  <2>6. \A t \in {"testing", "eval_report"} : int.steps[t] = [st |-> "Pending", art |-> 0]
    <3>1. \A t \in {"testing", "eval_report"} : Position[run.step] < Position[t]
      <4>1. run.step = "output_review"
        BY <1>1, <2>1, WorkedOn
      <4>2. Position["development"] \in Nat
        BY PositionsOfLast, StepsAreListed
      <4>3. /\ Position["output_review"] < Position["testing"]
            /\ Position["output_review"] < Position["eval_report"]
        BY <4>2, PositionsOfLast
      <4>4. QED
        BY <4>1, <4>3
    <3>2. \A t \in {"testing", "eval_report"} : run.steps[t] = [st |-> "Pending", art |-> 0]
      BY <1>1, <1>4, <3>1, WorkedOn DEF LifeInv, StepsInOrder
    <3>3. QED
      BY <1>4, <1>5, <1>8, <2>1, <3>2
  <2>7. int.report = 0
    BY <1>1, <1>8, WorkedOn DEF LifeInv, StepsInOrder
  <2>8. ReviewLedger(int)
    <3>1. Len(run.ledger) \in DOMAIN run.ledger
      BY <1>1, <2>3, WorkedOn
    <3>2. \E j \in DOMAIN run.ledger :
            IsInitialRequest(run.ledger[j]) /\ Group(run.ledger[j]) = Group(Last(run.ledger))
      BY <1>1, <3>1, WorkedOn, GroupHasRequest DEF Last
    <3>3. QED
      BY <1>1, <1>8, <2>1, <2>3, <3>2 DEF ReviewLedger
  <2>9. AwaitsReview(int)
    BY <2>2, <2>4, <2>5, <2>6, <2>7, <2>8 DEF AwaitsReview, AwaitingStep, AtStep
  <2>10. ValidRun(int) /\ ~IsFinal(int) /\ IsFrozen(int)
    BY <1>1, <1>8, <1>11, <2>9, WorkedOn
       DEF ValidRun, CandidateFitsRun, StatusIsEarned, IsFinal, IsFrozen
  <2>11. ReviewStands(int)
    BY <1>1, <1>8, <2>1, <2>3, WorkedOn DEF ReviewStands
  <2>12. MayStand(int, files)
    BY <1>9, <2>10, <2>11 DEF MayStand
  <2>13. QED
    BY <1>1, <1>8, <2>10, <2>12, WorkedOn DEF PublishesFinish, PublishesFull, MaySucceed, int
<1>12. QED
  BY <1>10, <1>11

\* The exchanges of a run stand with other decisions if every attempt that the ones
\* before authorised is authorised still.
LEMMA LedgerMoves ==
  ASSUME NEW r, NEW int, int.ledger = r.ledger, NEW f, NEW g, LedgerStands(r, f, TRUE),
         \A prefix, e : Authorized(r, prefix, e, f, TRUE) => Authorized(int, prefix, e, g, TRUE)
  PROVE  LedgerStands(int, g, TRUE)
<1>1. ASSUME NEW prefix, NEW e, OpensAttempt(r, prefix, e, f, TRUE)
      PROVE  OpensAttempt(int, prefix, e, g, TRUE)
  BY <1>1 DEF OpensAttempt
<1>2. QED
  BY <1>1 DEF LedgerStands

\* A revision that its command accepts leaves a run that may stand.
LEMMA ReviseAgrees ==
  ASSUME LifeInv, NEW s \in ProviderNames, MayRevise(s)
  PROVE  PublishesRevision(run, RevisedRun(run, s, run.recovery + 1, clock), Decide(Revision(s)))
<1> DEFINE n == run.recovery
           d == Revision(s)
           g == Decide(d)
           int == RevisedRun(run, s, n + 1, clock)
<1>1. /\ IInv /\ run \in AnyRun /\ files \in Evidence /\ clock \in Nat /\ ValidRun(run)
      /\ n \in Nat /\ n + 1 \in Nat
  BY Known DEF LifeInv
<1>2. /\ run.cand.life = "active"
      /\ \/ run.status \in {"Blocked", "Failed"} /\ run.approval = None
         \/ run.status \in {"AwaitingHumanReview", "Approved"} /\ s = "output_review"
  BY DEF MayRevise
<1>3. /\ d.kind = "revise" /\ Len(g.recoveries) = n + 1 /\ g.recoveries[n + 1] = d
      /\ \A k \in 1 .. n : g.recoveries[k] = files.recoveries[k]
      /\ ChainStands(n + 1, g) = TRUE
  <2>1. ChainStands(n + 1, g)
    BY <1>1, RevisionStands
  <2>2. ChainStands(n + 1, g) = TRUE
    BY <2>1 DEF ChainStands
  <2>3. QED
    BY <1>1, <2>2, RevisionStands
<1> HIDE DEF d, g
<1>4. int.ledger = run.ledger /\ int.promotion = None
  <2>1. int = RevisedRun(run, s, n + 1, clock)
    OBVIOUS
  <2> HIDE DEF int, n
  <2>2. QED
    BY <1>1, <2>1, RevisedSteps
<1>5. /\ int.status = "Pending" /\ int.recovery = n + 1 /\ int.cand = run.cand
      /\ s = "output_review" => int.approval = None
      /\ s # "output_review" => int.approval = run.approval
  <2>1. int = RevisedRun(run, s, n + 1, clock)
    OBVIOUS
  <2> HIDE DEF int, n
  <2>2. int.status = "Pending" /\ int.recovery = n + 1 /\ int.cand = run.cand
    BY <1>1, <2>1, RevisedIs, SMTT(60)
  <2>3. s = "output_review" => int.approval = None
    BY <1>1, <2>1, RevisedIs, SMTT(60)
  <2>4. s # "output_review" => int.approval = run.approval
    BY <1>1, <2>1, RevisedIs, SMTT(60)
  <2>5. QED
    BY <2>2, <2>3, <2>4
<1> HIDE DEF int
<1>6. int.approval = None
  BY <1>2, <1>5
<1>7. ASSUME NEW prefix, NEW e, Authorized(run, prefix, e, files, TRUE)
      PROVE  Authorized(int, prefix, e, g, TRUE)
  <2>1. PICK k \in 1 .. n :
          /\ files.recoveries[k].step = e.step /\ files.recoveries[k].next = e.attempt
          /\ \A m \in k .. n : files.recoveries[m].kind = "revise"
          /\ IsPrefix(files.recoveries[k].source.ledger, prefix)
    BY <1>7 DEF Authorized
  <2>2. k \in 1 .. n + 1 /\ \A m \in k .. n + 1 : m = n + 1 \/ (m \in k .. n /\ m \in 1 .. n)
    BY <1>1, <2>1
  <2>3. \A m \in k .. n + 1 : g.recoveries[m].kind = "revise"
    BY <1>3, <2>1, <2>2
  <2>4. QED
    BY <1>3, <1>5, <2>1, <2>2, <2>3 DEF Authorized
<1>8. LedgerStands(int, g, ChainStands(int.recovery, g))
  <2>1. LedgerStands(int, g, TRUE)
    BY <1>1, <1>4, <1>7, Sound, LedgerMoves
  <2>2. QED
    BY <1>3, <1>5, <2>1
<1>9. MayStand(int, g) /\ ~IsFinal(int)
  <2>1. CandidateIsWellFormed(int.cand) /\ LedgerIsWellFormed(int.ledger) /\ int.cand.life = "active"
    BY <1>1, <1>2, <1>4, <1>5 DEF ValidRun, CandidateFitsRun
  <2>2. QED
    BY <1>4, <1>5, <1>6, <1>8, <2>1, OpenStands
<1>10. ~IsFinal(run)
  BY <1>2 DEF IsFinal
<1>11. QED
  BY <1>4, <1>5, <1>9, <1>10 DEF PublishesRevision, MaySucceed, int, g, d

\* What a human approves binds the patch, the decision and the review of the run.
LEMMA ApproveAgrees ==
  ASSUME LifeInv, MayApprove
  PROVE  PublishesFull(run, Approved, files)
<1> DEFINE l == run.ledger
           policy == CHOOSE p \in run.policy : TRUE
           approval == [at |-> clock, diff |-> run.cand.diff, policy |-> policy,
                        review |-> run.steps["output_review"].art,
                        request |-> ReviewRequest, response |-> Last(l)]
           int == Approved
<1>1. /\ IInv /\ run \in AnyRun /\ clock \in Nat /\ ValidRun(run) /\ MayStand(run, files)
      /\ PatchIsDecided(run) /\ run.status = "AwaitingHumanReview" /\ run.cand.life = "active"
      /\ l \in Seq(Entry) /\ run.cand \in Candidate /\ run.steps \in StepStates
  BY Known, LifeFacts DEF LifeInv, MayApprove
<1>2. AwaitsReview(run) /\ run.approval = None /\ ReviewStands(run) /\ run.promotion = None
  BY <1>1 DEF ValidRun, StatusIsEarned, MayStand
<1>3. /\ l # <<>> /\ Last(l).step = "output_review" /\ Last(l).phase = "response"
      /\ \E e \in ToSet(l) : IsInitialRequest(e) /\ Group(e) = Group(Last(l))
  BY <1>2 DEF AwaitsReview, ReviewLedger, ToSet
<1>4. /\ ReviewRequest \in ToSet(l) /\ IsInitialRequest(ReviewRequest)
      /\ Group(ReviewRequest) = Group(Last(l))
  BY <1>3 DEF ReviewRequest
<1>5. ToSet(l) \subseteq Entry /\ Last(l) \in Entry
  BY <1>1, <1>3, LifeFacts DEF ToSet
<1>6. run.policy = {policy} /\ policy \in Nat
  <2>1. run.policy = {run.steps["development"].art}
    BY <1>1, <1>2 DEF AwaitsReview, PatchIsDecided
  <2>2. run.policy = {policy}
    BY <2>1
  <2>3. QED
    BY <1>1, <2>2 DEF AnyRun, RunsWith
<1> HIDE DEF policy
<1>7. approval \in Approval
  BY <1>1, <1>4, <1>5, <1>6, PositionsOfLast DEF Approval, Candidate, StepStates
<1>8. int = [run EXCEPT !.status = "Approved", !.updated = clock, !.approval = approval]
  BY DEF Approved, policy
<1>9. /\ approval.diff = run.cand.diff /\ approval.policy = policy
      /\ approval.review = run.steps["output_review"].art
      /\ approval.request = ReviewRequest /\ approval.response = Last(l)
  OBVIOUS
<1> HIDE DEF approval, int
<1>10. /\ int.status = "Approved" /\ int.approval = approval /\ int.promotion = None
       /\ int.step = run.step /\ int.steps = run.steps /\ int.cand = run.cand
       /\ int.policy = run.policy /\ int.ledger = l /\ int.report = run.report
       /\ int.recovery = run.recovery
  BY <1>1, <1>2, <1>8 DEF AnyRun, RunsWith
<1>11. ApprovalBinds(int)
  <2>1. ReviewRequest.step = "output_review"
    BY <1>3, <1>4 DEF Group
  <2>2. approval # None
    BY <1>7, AbsenceAssumption
  <2>3. QED
    BY <1>3, <1>4, <1>6, <1>9, <1>10, <2>1, <2>2 DEF ApprovalBinds
<1>12. AwaitsReview(int)
  BY <1>2, <1>10 DEF AwaitsReview, AwaitingStep, AtStep, ReviewLedger
<1>13. ValidRun(int) /\ ~IsFinal(int) /\ ~IsFinal(run)
  BY <1>1, <1>10, <1>11, <1>12
     DEF ValidRun, StatusIsEarned, CandidateFitsRun, Untouched, IsFinal
<1>14. ReviewStands(int)
  BY <1>2, <1>9, <1>10 DEF ReviewStands
<1>15. LedgerStands(int, files, ChainStands(int.recovery, files))
  BY <1>1, <1>10, SameLedger DEF MayStand
<1>16. MayStand(int, files)
  BY <1>13, <1>14, <1>15 DEF MayStand
<1>17. QED
  BY <1>10, <1>13, <1>16 DEF PublishesFull, MaySucceed, int

\* An Approved run that has got its verdict, under whichever decision.
Verdict(u, passed, a, at, id) == [FinishedRun(u, passed, a, at) EXCEPT !.recovery = id]

\* A move of time and decision can be taken back.
LEMMA MovedBack ==
  ASSUME NEW u \in LiveRun, NEW id, NEW at, NEW x, x = Moved(u, id, at)
  PROVE  /\ Moved(x, u.recovery, u.updated) = u
         /\ id = u.recovery /\ at = u.updated => x = u
  BY DEF Moved, LiveRun, RunsWith

\* The candidate of an active run is what it is after the times of a cleanup are taken
\* from it.
LEMMA ActiveCandidate ==
  ASSUME NEW c \in Candidate, CleanupTimes(c), c.life = "active"
  PROVE  [c EXCEPT !.life = "active", !.started = None, !.cleaned = None] = c
  BY DEF CleanupTimes, Candidate

\* What a verdict makes of an Approved run, and the way back.
LEMMA VerdictIs ==
  ASSUME NEW u \in LiveRun, ValidRun(u), ReviewStands(u), u.status = "Approved",
         \A i \in DOMAIN EarlySteps : u.steps[EarlySteps[i]].st \in Good,
         NEW passed \in BOOLEAN, NEW a \in Nat \ {0}, NEW at \in Nat, NEW id \in Nat,
         NEW int, int = Verdict(u, passed, a, at, id)
  PROVE  /\ int \in LiveRun /\ int.recovery = id /\ int.ledger = u.ledger /\ int.updated = at
         /\ int.report = a /\ int.steps["testing"].art = a /\ int.cand = u.cand
         /\ int.status = (IF passed THEN "EvalPassed" ELSE "Failed")
         /\ IsFinal(int) /\ ValidRun(int) /\ ReviewStands(int) /\ int.approval = u.approval
         /\ UnrecoveredApproved(int) = Moved(u, id, u.approval.at)
         /\ u.cand \in Candidate /\ CleanupTimes(u.cand) /\ u.cand.life = "active"
<1> DEFINE verdict == [st |-> IF passed THEN "Passed" ELSE "Failed", art |-> a]
           st == [[u.steps EXCEPT !["testing"] = verdict] EXCEPT !["eval_report"] = verdict]
           status == IF passed THEN "EvalPassed" ELSE "Failed"
<1>1. AwaitsReview(u) /\ ApprovalBinds(u) /\ u.approval # None /\ CleanupTimes(u.cand)
      /\ LedgerIsWellFormed(u.ledger) /\ CandidateIsWellFormed(u.cand)
  BY DEF ValidRun, StatusIsEarned, ApprovalBinds, CandidateFitsRun, CandidateIsWellFormed
<1>2. /\ u.steps \in StepStates /\ u.cand \in Candidate /\ u.promotion = None
      /\ u.approval \in Approval /\ u.updated \in Nat /\ u.recovery \in Nat
  BY <1>1 DEF LiveRun, RunsWith, StepStates
<1>3. u.cand.life = "active" /\ u.cand.phase = "applied" /\ u.step = "testing" /\ u.report = 0
  BY <1>1 DEF AwaitsReview, ActiveApplied
<1>4. int = [u EXCEPT !.status = status, !.step = "eval_report", !.steps = st, !.report = a,
                      !.updated = at, !.recovery = id]
  BY DEF Verdict, FinishedRun, LiveRun, RunsWith
<1>5. /\ "testing" \in StepNames /\ "eval_report" \in StepNames
      /\ "development" \in StepNames /\ "output_review" \in StepNames
  BY PositionsOfLast
<1>6. /\ st \in StepStates /\ st["testing"] = verdict /\ st["eval_report"] = verdict
      /\ \A t \in StepNames \ {"testing", "eval_report"} : st[t] = u.steps[t]
  BY <1>2, <1>5 DEF StepStates
<1>7. /\ status \in {"EvalPassed", "Failed"} /\ verdict.art = a /\ verdict.art # 0
      /\ verdict.st = (IF passed THEN "Passed" ELSE "Failed")
  OBVIOUS
<1> HIDE DEF st, verdict
<1>8. /\ int \in LiveRun /\ int.recovery = id /\ int.ledger = u.ledger /\ int.updated = at
      /\ int.report = a /\ int.cand = u.cand /\ int.status = status /\ int.step = "eval_report"
      /\ int.steps = st /\ int.approval = u.approval /\ int.promotion = None /\ int.policy = u.policy
  BY <1>2, <1>4, <1>5, <1>6 DEF LiveRun, RunsWith, StepStates
<1>9. IsFinal(int)
  BY <1>1, <1>7, <1>8 DEF IsFinal
<1>10. FinalRun(int, passed)
  <2>1. \A i \in DOMAIN EarlySteps : int.steps[EarlySteps[i]].st \in {"Completed", "Passed"}
    BY <1>6, <1>8, EarlyIs DEF Good
  <2>2. AtStep(int, "development", "Completed") /\ AtStep(int, "output_review", "Passed")
    BY <1>1, <1>5, <1>6, <1>8 DEF AwaitsReview, AwaitingStep, AtStep
  <2>3. \A s \in {"testing", "eval_report"} :
          AwaitingStep(int, s, IF passed THEN "Passed" ELSE "Failed", TRUE)
    BY <1>6, <1>7, <1>8 DEF AwaitingStep, AtStep
  <2>4. int.report = int.steps["eval_report"].art
    BY <1>6, <1>7, <1>8
  <2>5. QED
    BY <1>3, <1>8, <2>1, <2>2, <2>3, <2>4 DEF FinalRun
<1>11. ApprovalBinds(int)
  BY <1>1, <1>5, <1>6, <1>8 DEF ApprovalBinds
<1>12. ValidRun(int)
  <2>1. CandidateFitsRun(int)
    BY <1>1, <1>3, <1>7, <1>8 DEF CandidateFitsRun
  <2>2. StatusIsEarned(int)
    <3>1. CASE passed
      BY <1>8, <1>10, <1>11, <3>1 DEF StatusIsEarned
    <3>2. CASE ~passed
      <4>1. FinalRun(int, FALSE)
        BY <1>10, <3>2
      <4>2. QED
        BY <1>1, <1>8, <1>11, <3>2, <4>1 DEF StatusIsEarned
    <3>3. QED
      BY <3>1, <3>2
  <2>3. QED
    BY <1>1, <1>8, <2>1, <2>2 DEF ValidRun
<1>13. ReviewStands(int)
  BY <1>8 DEF ReviewStands
<1>14. UnrecoveredApproved(int) = Moved(u, id, u.approval.at)
  <2> DEFINE e == EvaluationReset(int)
             y == UnrecoveredApproved(int)
             c == [e.cand EXCEPT !.life = "active", !.started = None, !.cleaned = None]
  <2>1. /\ e \in LiveRun /\ e = [int EXCEPT !.steps = e.steps]
        /\ \A s \in {"testing", "eval_report"} : e.steps[s] = [st |-> "Pending", art |-> 0]
        /\ \A t \in StepNames \ {"testing", "eval_report"} : e.steps[t] = int.steps[t]
    BY <1>8, EvaluationResetFields DEF LiveRun
  <2>2. y = [e EXCEPT !.status = "Approved", !.step = "testing", !.report = 0,
                      !.updated = int.approval.at, !.cand.life = "active",
                      !.cand.started = None, !.cand.cleaned = None]
    BY DEF UnrecoveredApproved
  <2> HIDE DEF e, y
  <2>3. e.cand = u.cand /\ e.steps \in StepStates
    BY <1>8, <2>1 DEF LiveRun, RunsWith, StepStates
  <2>4. c = u.cand
    BY <1>1, <1>2, <1>3, <2>3, ActiveCandidate
  <2>5. y = [e EXCEPT !.status = "Approved", !.step = "testing", !.report = 0,
                      !.updated = int.approval.at, !.cand = c]
    BY <2>1, <2>2 DEF LiveRun, RunsWith
  <2> HIDE DEF c
  <2>6. e.steps = u.steps
    <3>1. \A s \in {"testing", "eval_report"} : u.steps[s] = [st |-> "Pending", art |-> 0]
      <4>1. \A s \in {"testing", "eval_report"} : u.steps[s].st = "Pending" /\ ~(u.steps[s].art # 0)
        BY <1>1 DEF AwaitsReview, AwaitingStep, AtStep
      <4>2. QED
        BY <1>2, <1>5, <4>1 DEF StepStates
    <3>2. \A t \in StepNames : e.steps[t] = u.steps[t]
      BY <1>6, <1>8, <2>1, <3>1
    <3>3. QED
      BY <1>2, <2>3, <3>2 DEF StepStates
  <2>7. y = [e EXCEPT !.status = "Approved", !.step = "testing", !.report = 0,
                      !.updated = u.approval.at]
    <3>1. e.cand = c /\ int.approval.at = u.approval.at
      BY <1>8, <2>3, <2>4
    <3>2. QED
      BY <2>1, <2>5, <3>1 DEF LiveRun, RunsWith
  <2>8. e = [int EXCEPT !.steps = u.steps]
    BY <2>1, <2>6
  <2>9. e = [u EXCEPT !.status = status, !.step = "eval_report", !.report = a,
                      !.updated = at, !.recovery = id]
    BY <1>4, <2>8 DEF LiveRun, RunsWith
  <2>10. y = [u EXCEPT !.recovery = id, !.updated = u.approval.at]
    BY <1>3, <2>7, <2>9 DEF LiveRun, RunsWith
  <2>11. QED
    BY <2>10 DEF y, Moved
<1>15. QED
  BY <1>1, <1>2, <1>3, <1>6, <1>7, <1>8, <1>9, <1>12, <1>13, <1>14

\* What a conclusion says of an evaluation leads back to the run that was evaluated.
LEMMA VerdictLeadsBack ==
  ASSUME LifeInv, run.status = "Approved", Attempt > 0, files.evals[Attempt].run = run,
         NEW int, int.recovery = run.recovery, int.report = Attempt,
         UnrecoveredApproved(int) = Moved(run, run.recovery, run.approval.at)
  PROVE  ApprovedOf(int, files) = run
<1> DEFINE n == run.recovery
           r == files.recoveries[n]
           u == Moved(run, n, run.approval.at)
           source == InvalidatedRun(r.approved, n, r.created)
           k == Kind(run, files)
<1>1. /\ run \in LiveRun /\ files \in Evidence /\ n \in Nat /\ n = Len(files.recoveries)
      /\ ChainStands(n, files) /\ DecisionsAreNamed(files) /\ Attempt \in Nat
      /\ Attempt \in DOMAIN files.evals /\ Attempt = Len(files.evals)
  <2>1. run \in LiveRun /\ files \in Evidence /\ n \in Nat /\ n = Len(files.recoveries)
        /\ ChainStands(n, files) /\ DecisionsAreNamed(files)
    BY Known DEF LifeInv
  <2>2. QED
    BY <2>1 DEF Evidence, Attempt
<1>2. Kind(int, files) = k
  BY DEF Kind
<1>3. n # 0 => n \in 1 .. n /\ n \in DOMAIN files.recoveries /\ r \in RecoveryDecision
  BY <1>1 DEF Evidence
<1>4. k \in {"none", "revise", "invalidate"}
  <2>1. k \in {"none", "revise", "adopt", "invalidate"}
    BY <1>3 DEF Kind, RecoveryDecision
  <2>2. ~IsFinal(run)
    BY DEF IsFinal
  <2>3. QED
    BY <2>1, <2>2 DEF LifeInv, DecisionsFit
<1>5. u = Moved(run, run.recovery, run.approval.at)
  OBVIOUS
<1> HIDE DEF u, source
<1>6. /\ Moved(u, run.recovery, run.updated) = run
      /\ run.updated = run.approval.at => u = run
  <2> DEFINE at == run.approval.at
             id == run.recovery
  <2>1. u = Moved(run, id, at)
    BY <1>5
  <2>2. id = run.recovery
    OBVIOUS
  <2> HIDE DEF at, id
  <2>3. /\ Moved(u, run.recovery, run.updated) = run
        /\ id = run.recovery /\ at = run.updated => u = run
    BY <1>1, <2>1, MovedBack
  <2>4. QED
    BY <2>2, <2>3 DEF at
<1>7. CASE k \in {"none", "revise"}
  <2>1. ApprovedOf(int, files) = u
    BY <1>2, <1>7 DEF ApprovedOf, u
  <2>2. run.updated = run.approval.at
    BY <1>7 DEF LifeInv, DecisionsFit
  <2>3. u = run
    BY <1>6, <2>2
  <2>4. QED
    BY <2>1, <2>3
<1>8. CASE k = "invalidate"
  <2>1. run = source /\ Attempt <= r.attempt + 1
    BY <1>8 DEF LifeInv, DecisionsFit, source
  <2>2. n # 0 /\ r.kind = "invalidate"
    BY <1>8 DEF Kind
  <2>3. r.attempt \in Nat /\ r.attempt > 0 /\ r.approved.recovery < n
    BY <1>3, <2>2, <1>1 DEF DecisionsAreNamed, RecoveryDecision, LifeInv, DecisionsFit
  <2>4. r.attempt <= Len(files.evals) /\ files.evals[r.attempt].run = r.approved
    BY <1>1, <1>3, <2>2 DEF ChainStands, EntryStands, InvalidationBinds
  <2>5. r.attempt # Attempt
    BY <1>1, <2>3, <2>4
  <2>6. Attempt = r.attempt + 1 /\ Attempt # 1
    BY <1>1, <2>1, <2>3, <2>4, <2>5
  <2>7. files.evals[Attempt].recovery = n
    BY <1>1, <2>6 DEF LifeInv, AttemptsFit
  <2>8. Moved(u, run.recovery, run.updated) = run
    BY <1>6
  <2>9. source = [u EXCEPT !.recovery = source.recovery, !.updated = source.updated]
    BY <2>1, <2>8 DEF Moved
  <2>10. UnrecoveredApproved(int) = u
    BY DEF u
  <2>11. /\ int.report = r.attempt + 1
         /\ files.evals[int.report].run = source /\ files.evals[int.report].recovery = n
    BY <2>1, <2>6, <2>7
  <2>12. ApprovedOf(int, files) = source
    BY <1>2, <1>8, <2>9, <2>10, <2>11 DEF ApprovedOf, source
  <2>13. QED
    BY <2>1, <2>12
<1>9. QED
  BY <1>4, <1>7, <1>8

\* The verdict on a reported attempt is that of the run it evaluated.
LEMMA ConcludeAgrees ==
  ASSUME LifeInv, InProgress("report")
  PROVE  PublishesFull(run, Concluded, files)
<1> DEFINE n == run.recovery
           e == files.evals[Attempt]
           int == Concluded
<1>1. /\ run \in LiveRun /\ files \in Evidence /\ n \in Nat /\ ValidRun(run) /\ MayStand(run, files)
      /\ ChainStands(n, files) /\ run.status = "Approved" /\ Attempt > 0
      /\ e.stage = "report" /\ e.run = run
  BY Known DEF LifeInv, InProgress
<1>2. Attempt \in Nat \ {0} /\ Attempt = Len(files.evals) /\ e \in Evaluation
  BY <1>1 DEF Evidence, Attempt
<1>3. e.passed \in BOOLEAN /\ e.at \in Nat
  BY <1>2 DEF Evaluation
<1>4. run.approval # None /\ ReviewStands(run) /\ ~IsFinal(run)
  BY <1>1 DEF ValidRun, StatusIsEarned, ApprovalBinds, MayStand, IsFinal
<1>5. \A i \in DOMAIN EarlySteps : run.steps[EarlySteps[i]].st \in Good
  BY <1>1 DEF LifeInv, StepsInOrder
<1>6. int = Verdict(run, e.passed, Attempt, e.at, n)
  <2>1. int \in LiveRun /\ int.recovery = n
    BY <1>1, <1>2, <1>3, FinishedFields DEF Concluded, LiveRun
  <2>2. [int EXCEPT !.recovery = n] = int
    BY <2>1 DEF LiveRun, RunsWith
  <2>3. QED
    BY <2>2 DEF Verdict, Concluded
<1> HIDE DEF int, e
<1>7. /\ int.recovery = n /\ int.ledger = run.ledger
      /\ int.report = Attempt /\ int.steps["testing"].art = Attempt
      /\ int.status = (IF e.passed THEN "EvalPassed" ELSE "Failed")
      /\ IsFinal(int) /\ ValidRun(int) /\ ReviewStands(int)
      /\ UnrecoveredApproved(int) = Moved(run, n, run.approval.at)
  BY <1>1, <1>2, <1>3, <1>4, <1>5, <1>6, VerdictIs
<1>8. ApprovedOf(int, files) = run
  BY <1>1, <1>7, VerdictLeadsBack DEF e
<1>9. Evaluated(int) = int
  BY <1>7 DEF Evaluated
<1>10. FinalStands(int, files)
  <2>1. e.passed = (int.status = "EvalPassed")
    BY <1>3, <1>7
  <2>2. files.evals[Attempt].passed = (int.status = "EvalPassed")
    BY <2>1 DEF e
  <2>3. files.evals[Attempt].stage = "report" /\ files.evals[Attempt].run = run
    BY <1>1 DEF e
  <2>4. run # None
    BY <1>1, AbsenceAssumption
  <2>5. QED
    BY <1>1, <1>2, <1>7, <1>8, <1>9, <2>2, <2>3, <2>4 DEF FinalStands
<1>11. LedgerStands(int, files, ChainStands(int.recovery, files))
  BY <1>1, <1>7, SameLedger DEF MayStand
<1>12. MayStand(int, files)
  BY <1>7, <1>10, <1>11 DEF MayStand
<1>13. QED
  BY <1>1, <1>4, <1>7, <1>8, <1>10, <1>12 DEF PublishesFull, MaySucceed, int

\* A promotion has the run that passed for its predecessor.
LEMMA PromoteAgrees ==
  ASSUME LifeInv, MayPromote
  PROVE  PublishesFull(run, Promoted, files)
<1> DEFINE p == [at |-> clock, passedAt |-> run.updated, diff |-> run.approval.diff,
                 policy |-> run.approval.policy, testing |-> run.steps["testing"].art,
                 report |-> run.report, predecessor |-> run]
           int == Promoted
<1>1. /\ run \in LiveRun /\ clock \in Nat /\ ValidRun(run) /\ MayStand(run, files)
      /\ run.status = "EvalPassed" /\ run.updated <= clock
  BY Known DEF LifeInv, MayPromote, AttemptsFit
<1>2. FinalRun(run, TRUE) /\ ApprovalBinds(run) /\ run.promotion = None /\ IsFinal(run)
  BY <1>1 DEF ValidRun, StatusIsEarned, IsFinal
<1>3. FinalStands(run, files) /\ ReviewStands(run)
  BY <1>1, <1>2 DEF MayStand, ApprovalBinds
<1>4. p \in Promotion /\ p # None
  <2>1. run.approval \in Approval /\ run.steps \in StepStates /\ run.report \in Nat /\ run.updated \in Nat
    BY <1>1, <1>2 DEF ApprovalBinds, LiveRun, RunsWith, StepStates
  <2>2. p \in Promotion
    BY <1>1, <2>1, PositionsOfLast DEF Promotion, Approval, StepStates
  <2>3. QED
    BY <2>2, AbsenceAssumption
<1>5. int = [run EXCEPT !.status = "Promoted", !.updated = clock, !.promotion = p]
  BY DEF Promoted
<1>6. /\ p.at = clock /\ p.passedAt = run.updated /\ p.diff = run.approval.diff
      /\ p.policy = run.approval.policy /\ p.testing = run.steps["testing"].art
      /\ p.report = run.report /\ p.predecessor = run
  OBVIOUS
<1> HIDE DEF p, int
<1>7. /\ int.status = "Promoted" /\ int.updated = clock /\ int.promotion = p
      /\ int.step = run.step /\ int.steps = run.steps /\ int.cand = run.cand
      /\ int.policy = run.policy /\ int.ledger = run.ledger /\ int.approval = run.approval
      /\ int.report = run.report /\ int.recovery = run.recovery
  BY <1>1, <1>5 DEF LiveRun, RunsWith
<1>8. Predecessor(int) = run
  <2>1. Predecessor(int) =
          [int EXCEPT !.status = "EvalPassed", !.updated = run.updated, !.promotion = None]
    BY <1>6, <1>7 DEF Predecessor
  <2>2. Predecessor(int) =
          [run EXCEPT !.status = "EvalPassed", !.updated = run.updated, !.promotion = None]
    BY <1>5, <2>1
  <2>3. QED
    BY <1>1, <1>2, <2>2 DEF LiveRun, RunsWith
<1>9. PromotionBinds(int)
  <2>1. run.report = run.steps["eval_report"].art
    BY <1>2 DEF FinalRun
  <2>2. clock >= run.updated
    BY <1>1 DEF LiveRun, RunsWith
  <2>3. QED
    BY <1>4, <1>6, <1>7, <1>8, <2>1, <2>2 DEF PromotionBinds
<1>10. FinalRun(int, TRUE) /\ ApprovalBinds(int)
  BY <1>2, <1>7 DEF FinalRun, ApprovalBinds, AtStep, AwaitingStep
<1>11. ValidRun(int) /\ IsFinal(int)
  BY <1>1, <1>7, <1>9, <1>10
     DEF ValidRun, StatusIsEarned, CandidateFitsRun, Untouched, IsFinal
<1>12. Evaluated(int) = run /\ Evaluated(run) = run
  BY <1>1, <1>7, <1>8 DEF Evaluated
<1>13. FinalStands(int, files)
  BY <1>3, <1>11, <1>12 DEF FinalStands
<1>14. ReviewStands(int)
  BY <1>3, <1>7 DEF ReviewStands
<1>15. LedgerStands(int, files, ChainStands(int.recovery, files))
  BY <1>1, <1>7, SameLedger DEF MayStand
<1>16. MayStand(int, files)
  BY <1>11, <1>13, <1>14, <1>15 DEF MayStand
<1>17. QED
  BY <1>1, <1>6, <1>7, <1>11, <1>12, <1>13, <1>16 DEF PublishesFull, MaySucceed, SameLineage, int

\* The Approved run behind a final one does not depend on its candidate's lifecycle.
LEMMA CleaningLeadsBack ==
  ASSUME NEW r \in LiveRun, NEW c \in Candidate, c.phase = r.cand.phase, c.diff = r.cand.diff,
         NEW int, int = [r EXCEPT !.cand = c]
  PROVE  UnrecoveredApproved(int) = UnrecoveredApproved(r)
<1> DEFINE e == EvaluationReset(r)
           d == EvaluationReset(int)
           x == [e.cand EXCEPT !.life = "active", !.started = None, !.cleaned = None]
           y == [d.cand EXCEPT !.life = "active", !.started = None, !.cleaned = None]
<1>1. r.cand \in Candidate
  BY DEF LiveRun, RunsWith
<1>2. e \in LiveRun /\ e = [r EXCEPT !.steps = e.steps]
  BY EvaluationResetFields DEF LiveRun
<1>3. d = [e EXCEPT !.cand = c]
  BY DEF EvaluationReset, ResetStep, LiveRun, RunsWith
<1>4. UnrecoveredApproved(r) =
        [e EXCEPT !.status = "Approved", !.step = "testing", !.report = 0,
                  !.updated = r.approval.at, !.cand.life = "active",
                  !.cand.started = None, !.cand.cleaned = None]
  BY DEF UnrecoveredApproved
<1>5. UnrecoveredApproved(int) =
        [d EXCEPT !.status = "Approved", !.step = "testing", !.report = 0,
                  !.updated = int.approval.at, !.cand.life = "active",
                  !.cand.started = None, !.cand.cleaned = None]
  BY DEF UnrecoveredApproved
<1> HIDE DEF d, e
<1>6. e.cand = r.cand /\ d.cand = c /\ int.approval = r.approval
  BY <1>2, <1>3 DEF LiveRun, RunsWith
<1>7. x = y
  BY <1>1, <1>6 DEF Candidate
<1>8. UnrecoveredApproved(r) =
        [e EXCEPT !.status = "Approved", !.step = "testing", !.report = 0,
                  !.updated = r.approval.at, !.cand = x]
  BY <1>2, <1>4 DEF LiveRun, RunsWith
<1>9. d \in LiveRun
  BY <1>2, <1>3 DEF LiveRun, RunsWith
<1>10. UnrecoveredApproved(int) =
         [d EXCEPT !.status = "Approved", !.step = "testing", !.report = 0,
                   !.updated = r.approval.at, !.cand = y]
  BY <1>5, <1>6, <1>9 DEF LiveRun, RunsWith
<1> HIDE DEF x, y
<1>11. QED
  BY <1>2, <1>3, <1>7, <1>8, <1>10 DEF LiveRun, RunsWith

\* A run that ended loses its candidate and nothing else.
LEMMA CleanAgrees ==
  ASSUME LifeInv, MayClean, run.cand.life = "active", Kind(run, files) # "adopt"
  PROVE  PublishesFull(run, Cleaning, files)
<1> DEFINE c == [run.cand EXCEPT !.life = "cleaning", !.started = clock]
           int == Cleaning
<1>1. /\ IInv /\ run \in LiveRun /\ files \in Evidence /\ clock \in Nat /\ ValidRun(run)
      /\ MayStand(run, files) /\ run.status \in {"Blocked", "Failed"} /\ run.cand \in Candidate
  BY Known, LifeFacts DEF LifeInv, MayClean
<1>2. /\ run.promotion = None /\ CandidateIsWellFormed(run.cand) /\ LedgerIsWellFormed(run.ledger)
      /\ LedgerStands(run, files, ChainStands(run.recovery, files))
  BY <1>1 DEF ValidRun, CandidateFitsRun, MayStand
<1>3. /\ c \in Candidate /\ c.life = "cleaning" /\ c.started = clock /\ c.cleaned = None
      /\ c.phase = run.cand.phase /\ c.diff = run.cand.diff
  BY <1>1, <1>2 DEF Candidate, CandidateIsWellFormed, CleanupTimes
<1>4. int = [run EXCEPT !.cand = c]
  BY <1>1 DEF Cleaning, LiveRun, RunsWith
<1>5. CandidateIsWellFormed(c)
  BY <1>1, <1>2, <1>3, AbsenceAssumption DEF CandidateIsWellFormed, CleanupTimes
<1> HIDE DEF c, int
<1>6. /\ int.status = run.status /\ int.updated = run.updated /\ int.promotion = None
      /\ int.step = run.step /\ int.steps = run.steps /\ int.cand = c
      /\ int.policy = run.policy /\ int.ledger = run.ledger /\ int.approval = run.approval
      /\ int.report = run.report /\ int.recovery = run.recovery
  BY <1>1, <1>2, <1>4 DEF LiveRun, RunsWith
<1>7. LedgerStands(int, files, ChainStands(int.recovery, files))
  BY <1>2, <1>6, SameLedger
<1>8. CASE run.approval = None
  <2>1. MayStand(int, files) /\ ~IsFinal(int)
    BY <1>1, <1>2, <1>3, <1>5, <1>6, <1>7, <1>8, OpenStands
  <2>2. ~IsFinal(run)
    BY <1>1, <1>8 DEF IsFinal
  <2>3. QED
    BY <1>6, <2>1, <2>2 DEF PublishesFull, MaySucceed, int
<1>9. CASE run.approval # None
  <2>1. run.status = "Failed" /\ FinalRun(run, FALSE) /\ ApprovalBinds(run)
    BY <1>1, <1>9 DEF ValidRun, StatusIsEarned
  <2>2. IsFinal(run) /\ IsFinal(int) /\ Evaluated(run) = run /\ Evaluated(int) = int
    BY <1>6, <1>9, <2>1 DEF IsFinal, Evaluated
  <2>3. FinalStands(run, files) /\ ReviewStands(run)
    BY <1>1, <1>9, <2>2 DEF MayStand
  <2>4. FinalRun(int, FALSE) /\ ApprovalBinds(int)
    BY <1>3, <1>6, <2>1 DEF FinalRun, ApprovalBinds, AtStep, AwaitingStep
  <2>5. ValidRun(int)
    BY <1>2, <1>3, <1>5, <1>6, <1>9, <2>1, <2>4 DEF ValidRun, StatusIsEarned, CandidateFitsRun
  <2>6. UnrecoveredApproved(int) = UnrecoveredApproved(run)
    BY <1>1, <1>3, <1>4, CleaningLeadsBack
  <2>7. ApprovedOf(int, files) = ApprovedOf(run, files)
    <3>1. Kind(int, files) = Kind(run, files)
      BY <1>6 DEF Kind
    <3>2. Kind(run, files) # "adopt"
      OBVIOUS
    <3>3. QED
      BY <1>6, <2>6, <3>1, <3>2 DEF ApprovedOf
  <2>8. FinalStands(int, files)
    BY <1>6, <2>2, <2>3, <2>5, <2>7 DEF FinalStands
  <2>9. ReviewStands(int)
    BY <1>6, <2>3 DEF ReviewStands
  <2>10. MayStand(int, files)
    BY <1>7, <2>5, <2>8, <2>9 DEF MayStand
  <2>11. SameLineage(run, int, files)
    BY <2>2, <2>7 DEF SameLineage
  <2> DEFINE completed == files.evals[int.report].at
  <2>12. completed \in Nat /\ completed <= clock
    <3>1. int.report = Len(files.evals) /\ int.report # 0
      BY <1>6, <2>1, <2>2, <2>3 DEF FinalStands, FinalRun, AwaitingStep
    <3>2. int.report \in DOMAIN files.evals /\ files.evals[int.report] \in Evaluation
      BY <1>1, <3>1 DEF Evidence
    <3>3. QED
      BY <3>2 DEF LifeInv, AttemptsFit, Evaluation
  <2> HIDE DEF completed
  <2>13. CleanupIsOrdered(run.cand, completed) /\ CleanupIsOrdered(int.cand, completed)
    BY <1>1, <1>3, <1>6, <2>12 DEF CleanupIsOrdered
  <2>14. CleanupStep(run, int)
    <3>1. int.cand.life = "cleaning" /\ int.cand.started = clock
      BY <1>3, <1>6
    <3>2. int = [run EXCEPT !.cand.life = "cleaning", !.cand.started = int.cand.started,
                            !.updated = int.updated]
      BY <1>1, <1>6, <3>1 DEF int, Cleaning, LiveRun, RunsWith
    <3>3. QED
      BY <1>6, <3>1, <3>2 DEF CleanupStep
  <2>15. MaySucceed(run, int, files)
    BY <1>1, <1>6, <1>9, <2>1, <2>2, <2>8, <2>11, <2>13, <2>14 DEF MaySucceed, completed
  <2>16. QED
    BY <1>6, <2>10, <2>15 DEF PublishesFull, int
<1>10. QED
  BY <1>8, <1>9

\* The exchanges of a run that was never revised need no decision.
LEMMA PlainLedger ==
  ASSUME LifeInv, ~Revised, NEW r, r.ledger = run.ledger, NEW g
  PROVE  LedgerStands(r, g, TRUE)
<1>1. ASSUME NEW prefix, NEW e, Authorized(run, prefix, e, files, TRUE)
      PROVE  Authorized(r, prefix, e, g, TRUE)
  <2>1. PICK k \in 1 .. run.recovery : \A m \in k .. run.recovery : files.recoveries[m].kind = "revise"
    BY <1>1 DEF Authorized
  <2>2. k \in k .. run.recovery
    BY <2>1, Known DEF LifeInv
  <2>3. Revised
    BY <2>1, <2>2 DEF Revised
  <2>4. QED
    BY <2>3
<1>2. QED
  BY <1>1, Sound, LedgerMoves DEF LifeInv

\* What the decision before the next one was, in a run that was never revised.
LEMMA PlainKind ==
  ASSUME LifeInv, ~Revised, run.recovery # 0
  PROVE  LET n == run.recovery IN
         /\ n \in 1 .. Len(files.recoveries) /\ n \in Nat
         /\ files.recoveries[n].kind \in {"adopt", "invalidate"}
         /\ Kind(run, files) = files.recoveries[n].kind
<1>1. /\ run.recovery \in 1 .. run.recovery /\ run.recovery \in Nat
      /\ run.recovery = Len(files.recoveries) /\ files \in Evidence
  BY Known DEF LifeInv
<1>2. files.recoveries[run.recovery] \in RecoveryDecision
  BY <1>1 DEF Evidence
<1>3. files.recoveries[run.recovery].kind # "revise"
  BY <1>1 DEF Revised
<1>4. QED
  BY <1>1, <1>2, <1>3 DEF Kind, RecoveryDecision

\* The chain with an adoption stands, and so does the run that is adopted.
LEMMA AdoptionStands ==
  ASSUME LifeInv, MayAdopt, ~Revised
  PROVE  ChainStands(run.recovery + 1, WithAdoption) /\ MayStand(run, WithAdoption)
<1> DEFINE n == run.recovery
           d == Adoption
           g == WithAdoption
<1>1. /\ IInv /\ run \in LiveRun /\ files \in Evidence /\ ValidRun(run) /\ MayStand(run, files)
      /\ ChainStands(n, files) /\ n = Len(files.recoveries) /\ n \in Nat /\ DecisionsAreNamed(files)
      /\ n \in 0 .. Len(files.recoveries)
  BY Known, AdoptionIsWritten DEF LifeInv
<1>2. /\ Attempt \in 1 .. Len(files.evals) /\ Attempt = Len(files.evals)
      /\ d.kind = "adopt" /\ d.source = run /\ d.attempt = Attempt
      /\ d.created = clock /\ d.passed = files.evals[Attempt].passed
      /\ g \in Evidence /\ Grows(files, g) /\ g.recoveries[n + 1] = d
      /\ \A k \in 1 .. n : g.recoveries[k] = files.recoveries[k]
      /\ Len(g.evals) = Len(files.evals) /\ g.evals[Attempt].stage = "report"
      /\ g.evals[Attempt].passed = d.passed
  BY <1>1, AdoptionIsWritten
<1>3. run.status = "Approved" /\ files.evals[Attempt].run = run /\ RecoveryIsConsumed
  BY DEF MayAdopt
<1> HIDE DEF d, g
<1>4. run.step = "testing" /\ ~IsFinal(run)
  BY <1>1, <1>3 DEF ValidRun, StatusIsEarned, AwaitsReview, IsFinal
<1>5. AdoptionBinds(d, g)
  <2>1. LedgerStands(run, g, TRUE)
    BY PlainLedger
  <2>2. g.evals[Attempt].run = run /\ g.evals[Attempt].recovery = files.evals[Attempt].recovery
    BY <1>2, <1>3 DEF Grows
  <2>3. files.evals[Attempt].recovery = IF Attempt = 1 THEN 0 ELSE run.recovery
    <3>1. Attempt \in DOMAIN files.evals
      BY <1>1, <1>2 DEF Evidence
    <3>2. QED
      BY <1>3, <3>1 DEF LifeInv, AttemptsFit
  <2>4. Attempt <= Len(g.evals)
    BY <1>2
  <2>5. QED
    BY <1>2, <1>3, <1>4, <2>1, <2>2, <2>3, <2>4 DEF AdoptionBinds
<1>6. EntryStands(n + 1, g)
  <2>1. n + 1 - 1 = n
    BY <1>1
  <2>2. QED
    BY <1>1, <1>2, <1>5, <2>1 DEF EntryStands
<1>7. n + 1 > 1 => Consumed(g.recoveries[n + 1], n, g)
  <2>1. SUFFICES ASSUME n # 0 PROVE Consumed(d, n, g)
    BY <1>1, <1>2
  <2>2. /\ n \in 1 .. Len(files.recoveries) /\ files.recoveries[n].kind \in {"adopt", "invalidate"}
        /\ Kind(run, files) = files.recoveries[n].kind
    BY <2>1, PlainKind
  <2>3. files.recoveries[n].kind = "invalidate"
    BY <1>4, <2>2 DEF LifeInv, DecisionsFit
  <2>4. InvalidationIsConsumed(run, n, files)
    BY <1>3, <2>1, <2>2, <2>3 DEF RecoveryIsConsumed
  <2>5. InvalidationIsConsumed(run, n, g)
    BY <1>1, <1>2, <2>2, <2>3, <2>4, InvalidationGrows
  <2>6. g.recoveries[n].kind = "invalidate" /\ d.source = run /\ d.kind = "adopt"
    BY <1>1, <1>2, <2>2, <2>3
  <2>7. QED
    BY <2>5, <2>6 DEF Consumed
<1>8. ChainStands(n + 1, g)
  <2>1. ChainStands(n, g)
    BY <1>1, <1>2, ChainGrows
  <2>2. \A m \in 1 .. n + 1 : m \in 1 .. n \/ (m = n + 1 /\ m - 1 = n)
    BY <1>1
  <2>3. QED
    BY <1>6, <1>7, <2>1, <2>2 DEF ChainStands
<1>9. MayStand(run, g)
  BY <1>1, <1>2, <1>4, StandsGrows
<1>10. QED
  BY <1>8, <1>9 DEF g

\* An adopted verdict leads back to the run it is adopted for.
LEMMA AdoptAgrees ==
  ASSUME LifeInv, MayAdopt, ~Revised
  PROVE  PublishesAdoption(run, AdoptedRun(Adoption, run.recovery + 1), WithAdoption)
<1> DEFINE n == run.recovery
           d == Adoption
           g == WithAdoption
           int == AdoptedRun(d, n + 1)
           u == Moved(run, n + 1, run.approval.at)
<1>1. /\ IInv /\ run \in LiveRun /\ ValidRun(run) /\ MayStand(run, files) /\ clock \in Nat
      /\ n \in Nat /\ n + 1 \in Nat
  BY Known, AdoptionIsWritten DEF LifeInv
<1>2. /\ Attempt \in 1 .. Len(files.evals) /\ Attempt \in Nat \ {0} /\ Attempt = Len(files.evals)
      /\ d.kind = "adopt" /\ d.source = run /\ d.attempt = Attempt
      /\ d.created = clock /\ d.passed \in BOOLEAN
      /\ Grows(files, g) /\ g.recoveries[n + 1] = d
      /\ Len(g.evals) = Len(files.evals) /\ g.evals[Attempt].stage = "report"
      /\ g.evals[Attempt].passed = d.passed
  BY <1>1, AdoptionIsWritten
<1>3. run.status = "Approved" /\ files.evals[Attempt].run = run
  BY DEF MayAdopt
<1>4. ChainStands(n + 1, g) /\ ChainStands(n + 1, g) = TRUE /\ MayStand(run, g)
  <2>1. ChainStands(n + 1, g) /\ MayStand(run, g)
    BY AdoptionStands
  <2>2. QED
    BY <2>1 DEF ChainStands
<1> HIDE DEF d, g
<1>5. run.step = "testing" /\ ~IsFinal(run) /\ run.approval # None /\ ReviewStands(run)
  BY <1>1, <1>3 DEF ValidRun, StatusIsEarned, AwaitsReview, ApprovalBinds, IsFinal, MayStand
<1>6. int = Verdict(run, d.passed, Attempt, clock, n + 1)
  BY <1>2 DEF AdoptedRun, Verdict
<1>7. \A i \in DOMAIN EarlySteps : run.steps[EarlySteps[i]].st \in Good
  BY <1>3 DEF LifeInv, StepsInOrder
<1>8. int = AdoptedRun(d, n + 1)
  OBVIOUS
<1> HIDE DEF int
<1>9. /\ int \in LiveRun /\ int.recovery = n + 1 /\ int.ledger = run.ledger /\ int.updated = clock
      /\ int.report = Attempt /\ int.steps["testing"].art = Attempt /\ int.cand = run.cand
      /\ int.status = (IF d.passed THEN "EvalPassed" ELSE "Failed")
      /\ IsFinal(int) /\ ValidRun(int) /\ ReviewStands(int)
      /\ UnrecoveredApproved(int) = u
      /\ run.cand \in Candidate /\ CleanupTimes(run.cand) /\ run.cand.life = "active"
  <2> DEFINE id == n + 1
             passed == d.passed
             at == clock
  <2>1. int = Verdict(run, passed, Attempt, at, id) /\ id \in Nat /\ at \in Nat /\ passed \in BOOLEAN
    BY <1>1, <1>2, <1>6
  <2> HIDE DEF id, passed, at
  <2>2. /\ run \in LiveRun /\ ValidRun(run) /\ ReviewStands(run) /\ run.status = "Approved"
        /\ \A i \in DOMAIN EarlySteps : run.steps[EarlySteps[i]].st \in Good
        /\ Attempt \in Nat \ {0}
    BY <1>1, <1>2, <1>3, <1>5, <1>7
  <2>3. /\ int \in LiveRun /\ int.recovery = id /\ int.ledger = run.ledger /\ int.updated = at
        /\ int.report = Attempt /\ int.steps["testing"].art = Attempt /\ int.cand = run.cand
        /\ int.status = (IF passed THEN "EvalPassed" ELSE "Failed")
        /\ IsFinal(int) /\ ValidRun(int) /\ ReviewStands(int)
        /\ UnrecoveredApproved(int) = Moved(run, id, run.approval.at)
        /\ run.cand \in Candidate /\ CleanupTimes(run.cand) /\ run.cand.life = "active"
    BY <2>1, <2>2, VerdictIs
  <2>4. QED
    BY <2>3 DEF id, passed, at
<1>10. ApprovedOf(int, g) = run
  <2>1. Kind(int, g) = "adopt" /\ g.recoveries[int.recovery] = d
    BY <1>1, <1>2, <1>9 DEF Kind
  <2>2. CleanupMatchesUpdate(int, d.created)
    BY <1>2, <1>9 DEF CleanupMatchesUpdate
  <2> DEFINE c == [int.cand EXCEPT !.life = "active", !.started = None, !.cleaned = None]
  <2>3. c = int.cand
    BY <1>9, ActiveCandidate
  <2>4. [int EXCEPT !.updated = d.created, !.cand.life = "active",
                    !.cand.started = None, !.cand.cleaned = None]
          = [int EXCEPT !.updated = d.created, !.cand = c]
    BY <1>9 DEF LiveRun, RunsWith
  <2> HIDE DEF c
  <2>5. [int EXCEPT !.updated = d.created, !.cand = c] = int
    BY <1>2, <1>9, <2>3 DEF LiveRun, RunsWith
  <2>6. AdoptedRun(d, int.recovery) =
          [int EXCEPT !.updated = d.created, !.cand.life = "active",
                      !.cand.started = None, !.cand.cleaned = None]
    BY <1>9, <1>8, <2>4, <2>5
  <2>7. Moved(u, run.recovery, run.updated) = run
    <3> DEFINE at == run.approval.at
               id == n + 1
    <3>1. u = Moved(run, id, at)
      OBVIOUS
    <3> HIDE DEF u, at, id
    <3>2. QED
      BY <1>1, <3>1, MovedBack
  <2> HIDE DEF u
  <2>8. run = [u EXCEPT !.recovery = run.recovery, !.updated = run.updated]
    BY <2>7 DEF Moved
  <2>9. int.report = d.attempt /\ d.source = run /\ UnrecoveredApproved(int) = u
    BY <1>2, <1>9
  <2>10. QED
    BY <2>1, <2>2, <2>6, <2>8, <2>9 DEF ApprovedOf
<1>11. Evaluated(int) = int
  BY <1>9 DEF Evaluated
<1>12. FinalStands(int, g)
  <2>1. g.evals[Attempt].run = run
    BY <1>2, <1>3 DEF Grows
  <2>2. g.evals[Attempt].passed = (int.status = "EvalPassed")
    <3>1. d.passed = (int.status = "EvalPassed")
      BY <1>2, <1>9
    <3>2. QED
      BY <1>2, <3>1
  <2>3. run # None
    BY <1>1, AbsenceAssumption
  <2>4. QED
    BY <1>1, <1>2, <1>4, <1>9, <1>10, <1>11, <2>1, <2>2, <2>3 DEF FinalStands
<1>13. LedgerStands(int, g, ChainStands(int.recovery, g))
  BY <1>4, <1>9, PlainLedger
<1>14. MayStand(int, g)
  BY <1>9, <1>12, <1>13 DEF MayStand
<1>15. MaySucceed(run, int, g)
  BY <1>3, <1>4, <1>5, <1>9, <1>10, <1>12 DEF MaySucceed
<1>16. QED
  BY <1>2, <1>3, <1>4, <1>5, <1>9, <1>14, <1>15 DEF PublishesAdoption, int, g, d

\* The chain with an invalidation stands.
LEMMA InvalidationStands ==
  ASSUME LifeInv, MayInvalidate, ~Revised
  PROVE  LET g == Decide(Invalidation) IN
         /\ g.recoveries[run.recovery + 1] = Invalidation
         /\ ChainStands(run.recovery + 1, g)
<1> DEFINE n == run.recovery
           a == InvalidationSource
           d == Invalidation
           g == Decide(d)
<1>1. /\ IInv /\ files \in Evidence /\ clock \in Nat /\ ValidRun(run)
      /\ ChainStands(n, files) /\ n = Len(files.recoveries) /\ n \in Nat
      /\ n \in 0 .. Len(files.recoveries) /\ DecisionsAreNamed(files)
  BY Known DEF LifeInv
<1>2. a \in LiveRun /\ run \in LiveRun /\ Attempt > 0
  BY <1>1, SourceIsRun DEF MayInvalidate
<1>3. /\ d \in RecoveryDecision /\ d.kind = "invalidate" /\ d.attempt > 0 /\ d.approved = a
      /\ d.source = run
  <2>1. Attempt \in Nat /\ "testing" \in StepNames
    BY <1>1, PositionsOfLast DEF Attempt, Evidence
  <2>2. QED
    BY <1>1, <1>2, <2>1 DEF Invalidation, RecoveryDecision
<1>4. InvalidationBinds(d, files) /\ (Kind(run, files) = "adopt" => AdoptionIsExact(run, n, files))
  BY SourceIs
<1> HIDE DEF d
<1>5. /\ g \in Evidence /\ g.evals = files.evals /\ Grows(files, g)
      /\ g.recoveries[n + 1] = d /\ \A k \in 1 .. n : g.recoveries[k] = files.recoveries[k]
  BY <1>1, <1>2, <1>3, DecideIs
<1> HIDE DEF g
<1>6. EntryStands(n + 1, g)
  <2>1. InvalidationBinds(d, g)
    BY <1>4, <1>5 DEF InvalidationBinds
  <2>2. n + 1 - 1 = n
    BY <1>1
  <2>3. QED
    BY <1>1, <1>3, <1>5, <2>1, <2>2 DEF EntryStands
<1>7. n + 1 > 1 => Consumed(g.recoveries[n + 1], n, g)
  <2>1. SUFFICES ASSUME n # 0 PROVE Consumed(d, n, g)
    BY <1>1, <1>5
  <2>2. /\ n \in 1 .. Len(files.recoveries) /\ files.recoveries[n].kind \in {"adopt", "invalidate"}
        /\ Kind(run, files) = files.recoveries[n].kind
    BY <2>1, PlainKind
  <2>3. g.recoveries[n] = files.recoveries[n]
    BY <1>1, <1>5, <2>2
  <2>4. CASE files.recoveries[n].kind = "adopt"
    <3>1. AdoptionIsExact(run, n, g)
      BY <1>4, <2>2, <2>3, <2>4 DEF AdoptionIsExact
    <3>2. QED
      BY <1>3, <2>3, <2>4, <3>1 DEF Consumed
  <2>5. CASE files.recoveries[n].kind = "invalidate"
    <3>1. RecoveryIsConsumed
      BY <2>2, <2>5 DEF MayInvalidate, PriorAdmitsInvalidation
    <3>2. InvalidationIsConsumed(run, n, files)
      BY <2>1, <2>2, <2>5, <3>1 DEF RecoveryIsConsumed
    <3>3. InvalidationIsConsumed(run, n, g)
      BY <1>1, <1>5, <2>2, <2>5, <3>2, InvalidationGrows
    <3>4. QED
      BY <1>3, <2>3, <2>5, <3>3 DEF Consumed
  <2>6. QED
    BY <2>2, <2>4, <2>5
<1>8. ChainStands(n + 1, g)
  <2>1. ChainStands(n, g)
    BY <1>1, <1>5, ChainGrows
  <2>2. \A m \in 1 .. n + 1 : m \in 1 .. n \/ (m = n + 1 /\ m - 1 = n)
    BY <1>1
  <2>3. QED
    BY <1>6, <1>7, <2>1, <2>2 DEF ChainStands
<1>9. QED
  BY <1>5, <1>8 DEF d, g

\* What an invalidation goes back to is a run under review that may stand.
LEMMA InvalidateAgrees ==
  ASSUME LifeInv, MayInvalidate, ~Revised
  PROVE  PublishesInvalidation(run, InvalidatedRun(InvalidationSource, run.recovery + 1, clock),
                               Decide(Invalidation))
<1> DEFINE n == run.recovery
           id == n + 1
           a == InvalidationSource
           g == Decide(Invalidation)
           int == InvalidatedRun(a, id, clock)
<1>1. /\ clock \in Nat /\ id \in Nat /\ MayStand(run, files)
  BY Known DEF LifeInv
<1>2. /\ a \in LiveRun /\ ValidRun(a) /\ a.status = "Approved" /\ a.ledger = run.ledger
      /\ a.approval = run.approval /\ run.approval # None
  BY SourceIs
<1>3. g.recoveries[id] = Invalidation /\ ChainStands(id, g) /\ ChainStands(id, g) = TRUE
  <2>1. g.recoveries[id] = Invalidation /\ ChainStands(id, g)
    BY InvalidationStands
  <2>2. QED
    BY <2>1 DEF ChainStands
<1>4. AwaitsReview(a)
  BY <1>2 DEF ValidRun, StatusIsEarned
<1>5. int = InvalidatedRun(a, id, clock)
  OBVIOUS
<1> HIDE DEF id, a, g, int
<1>6. int = Moved(a, id, clock)
  BY <1>1, <1>2, <1>4, <1>5, InvalidatedIs
<1>7. /\ ValidRun(int) /\ int.status = "Approved" /\ int.step = "testing"
      /\ int.report = 0 /\ int.recovery = id /\ int.ledger = a.ledger
      /\ int.approval = a.approval /\ ~IsFinal(int)
  <2> DEFINE m == Moved(a, id, clock)
  <2>1. /\ ValidRun(m) /\ m.status = "Approved" /\ m.step = "testing"
        /\ m.report = 0 /\ m.recovery = id /\ m.ledger = a.ledger
        /\ m.approval = a.approval /\ ~IsFinal(m)
    BY <1>1, <1>2, ApprovedMoves
  <2>2. QED
    BY <1>6, <2>1
<1>8. ReviewStands(int)
  <2>1. ReviewStands(run)
    BY <1>1, <1>2 DEF MayStand
  <2>2. QED
    BY <1>2, <1>7, <2>1 DEF ReviewStands
<1>9. LedgerStands(int, g, ChainStands(int.recovery, g))
  <2>1. LedgerStands(int, g, TRUE)
    BY <1>2, <1>7, PlainLedger
  <2>2. QED
    BY <1>3, <1>7, <2>1
<1>10. MayStand(int, g)
  BY <1>7, <1>8, <1>9 DEF MayStand
<1>11. Invalidation.source = run
  BY DEF Invalidation
<1>12. PublishesInvalidation(run, int, g)
  BY <1>3, <1>7, <1>10, <1>11 DEF PublishesInvalidation, id
<1>13. QED
  BY <1>12 DEF int, id, a, g

LEMMA WritersAgreeHolds ==
  ASSUME LifeInv
  PROVE  WritersAgree
BY BeginAgrees, AskAgrees, FinishAgrees, ReviseAgrees, ApproveAgrees, ConcludeAgrees,
   PromoteAgrees, CleanAgrees, AdoptAgrees, InvalidateAgrees DEF WritersAgree

\* What the checks of a command accept its publication accepts, in every reachable state
\* of every instance: of the provider steps, the revisions, the approval, the evaluation
\* and the promotion without exception, of a cleanup, an adoption and an invalidation but
\* for the cases that the code refuses (AdoptedFailureIsCleanable, RevisedRunAdopts).
THEOREM WritersHold == Spec => []WritersAgree
<1>1. LifeInv => WritersAgree
  BY WritersAgreeHolds
<1>2. QED
  BY <1>1, LifeInvHolds, PTL

=============================================================================
