------------------------------- MODULE RoleChain -------------------------------
(***************************************************************************)
(* The role steps of an isolated run as one chain: what each provider      *)
(* request carries, what each answer is turned into, and what a process    *)
(* that was killed, or an operator who revises a step, leaves for the next *)
(* process to continue from (model_runner.rs, runner.rs, artifacts.rs, the *)
(* resume and rerun commands of seaf-cli).                                 *)
(*                                                                         *)
(* run is run.json, files the create-only evidence below artifacts/ and    *)
(* prompts/, proc the one process at work.  A ledger entry and the         *)
(* publication of a recovery are atomic here: ProviderLedger and RunLife   *)
(* take them apart.  Worker edits of the candidate are left out.           *)
(***************************************************************************)
EXTENDS ResponseGate, ContextChain

CONSTANTS
  Steps,         \* bound: the provider steps of the run, in order
  Answers,       \* bound: step -> the results a provider may give
  Diffs,         \* patch -> its unified diff
  Fits,          \* the patches git apply accepts on the candidate
  Policy,        \* the policy of the run
  Tree, Order,   \* path -> file, and the paths in order
  Relevant,      \* the ticket's relevant files
  ApplyPatch,    \* autonomy.apply_patch of the ticket
  RunCap,        \* context retries in a run and of a step (8 and 2)
  StepCap,
  MaxRevisions,  \* bound: revisions by the operator
  MaxCrashes     \* bound: processes killed

VARIABLES
  run,      \* [status, step, st, art, ledger, decision, recovery, patch]
  files,    \* create-only files: <<kind, step, attempt>> or with a round -> content
  proc,     \* the process: where it is and what it holds in memory
  revisions, crashes

chainVars == <<run, files, proc, revisions, crashes>>

Null == [null |-> TRUE]   \* no recovery, decision, output and so on
NoStep == "none"
StepNames == ToSet(Steps)
EarlySteps == {"research", "analysis", "spec_creation", "spec_review"} \cap StepNames

RoleOf ==
  [research |-> "researcher", analysis |-> "analyzer", spec_creation |-> "spec_writer",
   spec_review |-> "spec_reviewer", development |-> "developer",
   output_review |-> "output_reviewer"]

Prerequisites ==
  [research |-> {}, analysis |-> {"research"}, spec_creation |-> {"research", "analysis"},
   spec_review |-> {"spec_creation"}, development |-> {"spec_creation", "spec_review"},
   output_review |-> {"spec_creation", "spec_review"}]

\* LOOP_STEPS, as far as a provider is asked.
Rank ==
  [research |-> 1, analysis |-> 2, spec_creation |-> 3, spec_review |-> 4, development |-> 5,
   output_review |-> 6]

\* What a provider may give as a result, and the lines of a patch.
Path == Seq(STRING)

Result ==
  [ok : BOOLEAN, fits : BOOLEAN, clean : BOOLEAN, form : {"text", "json", "object"},
   shaped : BOOLEAN, role : STRING, says : STRING, text : STRING,
   ask : [paths : Seq(Path), reason : STRING], patch : DOMAIN Diffs \cup {NoPatch},
   stray : BOOLEAN]

DiffLine ==
  [is : {"git"}, paths : Seq(Path)] \cup [is : {"old", "new"}, path : Path]
  \cup [is : {"binary", "text"}]

ASSUME AnswersAssumption ==
  /\ Answers \in [StepNames -> SUBSET Result]
  /\ \A p \in DOMAIN Diffs : Diffs[p] \in Seq(DiffLine)

\* The steps of a run are in the order of the code, and none is there twice; the
\* four that a patch goes through are there.
ASSUME StepsAssumption ==
  /\ Steps \in Seq(DOMAIN Rank)
  /\ \A i, j \in DOMAIN Steps : i < j => Rank[Steps[i]] < Rank[Steps[j]]
  /\ {"spec_creation", "spec_review", "development", "output_review"} \subseteq StepNames

\* Every path that is named has a file in the tree, a missing one too.
ASSUME TreeAssumption ==
  /\ Limits.file \in Nat /\ Limits.total \in Nat
  /\ \A p \in DOMAIN Tree : Tree[p].size \in Nat /\ Tree[p].width \in Nat \ {0}
  /\ Order \in Seq(DOMAIN Tree)
  /\ Relevant \in Seq(Path)
  /\ \A k \in DOMAIN Relevant : NormalPath(Relevant[k]) \in DOMAIN Tree \cup {<<>>}

PosOf(s) == CHOOSE k \in DOMAIN Steps : Steps[k] = s
Terminal == {"completed", "passed", "blocked", "failed"}

NextStep(r) ==
  LET open == {k \in DOMAIN Steps : r.st[Steps[k]] \in {"pending", "running"}}
  IN  IF open = {} THEN NoStep ELSE Steps[Min(open)]

\* Where the records of one attempt stand in the ledger, and the initial requests.
RecordsOf(r, s, a) ==
  {k \in DOMAIN r.ledger : r.ledger[k].step = s /\ r.ledger[k].attempt = a}

Initials(r) ==
  {r.ledger[k] : k \in {j \in DOMAIN r.ledger :
                          r.ledger[j].kind = "initial" /\ r.ledger[j].phase = "request"}}

DurableAttempts(r, s) == {0} \cup {r.ledger[k].attempt : k \in {j \in DOMAIN r.ledger :
                                                               r.ledger[j].step = s}}
PromptAttempts(s) == {0} \cup {f[3] : f \in {g \in DOMAIN files : g[1] = "prompt" /\ g[2] = s}}

Durable(r, s) == Max(DurableAttempts(r, s))
LatestPrompt(s) == Max(PromptAttempts(s))

With(f, key, value) == [k \in DOMAIN f \cup {key} |-> IF k = key THEN value ELSE f[k]]

\* publish_create_only
Free(key, content) == key \notin DOMAIN files \/ files[key] = content
Publish(key, content) == files' = With(files, key, content)

Idle == [pc |-> "idle"]

-----------------------------------------------------------------------------
(* Recoveries.                                                             *)

PendingRecovery(r) ==
  /\ r.recovery # Null
  /\ \A e \in Initials(r) : <<e.step, e.attempt>> # <<r.recovery.step, r.recovery.attempt>>

\* SpecCreation is written again only from a review that asked for changes.
RevisionArtifact(source, s, status) ==
  IF source.st[s] = status THEN files[<<"artifact", s, source.art[s]>>] ELSE Null

RevisionContext(r) ==
  LET source == r.recovery.source
      spec == RevisionArtifact(source, "spec_creation", "completed")
      review == RevisionArtifact(source, "spec_review", "blocked")
  IN  IF /\ source.status = "blocked" /\ source.step = "spec_review"
         /\ spec # Null /\ review # Null /\ review.result = "role"
         /\ review.answer.is = "request_changes"
      THEN [spec |-> spec, feedback |-> review] ELSE Null

NeedsRevisionContext(r) ==
  /\ NextStep(r) = "spec_creation"
  /\ r.recovery # Null /\ r.recovery.step = "spec_creation"

\* Eligibility, as far as the provider steps go.
MayRevise(r, s) ==
  /\ ~PendingRecovery(r)
  /\ \/ /\ r.status \in {"blocked", "failed"} /\ r.patch = "none"
        /\ PosOf(s) <= PosOf("development") /\ PosOf(s) <= PosOf(r.step)
     \/ /\ r.status \in {"blocked", "failed", "awaiting"} /\ r.patch = "applied"
        /\ s = "output_review"
  /\ Durable(r, s) = LatestPrompt(s) /\ Durable(r, s) > 0

ResetFrom(r, s) ==
  LET again(t) == PosOf(t) >= PosOf(s)
  IN  [r EXCEPT !.status = "pending", !.step = s,
                !.st = [t \in StepNames |-> IF again(t) THEN "pending" ELSE @[t]],
                !.art = [t \in StepNames |-> IF again(t) THEN 0 ELSE @[t]],
                !.decision = IF PosOf(s) <= PosOf("development") THEN Null ELSE @]

\* seaf loop revise: the revision is published and the run reset.
Revise(s) ==
  /\ proc.pc = "idle" /\ revisions < MaxRevisions /\ MayRevise(run, s)
  /\ run' = [ResetFrom(run, s) EXCEPT
               !.recovery = [step |-> s, attempt |-> Durable(run, s) + 1,
                             source |-> [status |-> run.status, step |-> run.step,
                                         st |-> run.st, art |-> run.art]]]
  /\ revisions' = revisions + 1
  /\ UNCHANGED <<files, proc, crashes>>

-----------------------------------------------------------------------------
(* Preparing a process.                                                    *)

\* The attempt a process continues or starts at.  One that has a prompt but no
\* ledger entry is taken up again; authorised is the attempt of a rerun.
RecoveredAttempt(r, s, authorised) ==
  IF authorised > 0 THEN authorised
  ELSE IF r.st[s] = "running" /\ LatestPrompt(s) > Durable(r, s) THEN LatestPrompt(s)
  ELSE IF r.st[s] = "running" /\ r.ledger # <<>> /\ Last(r.ledger).step = s
       THEN Last(r.ledger).attempt
  ELSE 0

\* A later attempt follows the advancing answer of the step before, or a recovery.
AttemptAuthorised(r, s, a) ==
  \/ a = 1
  \/ r.recovery # Null /\ r.recovery.step = s /\ r.recovery.attempt = a
  \/ /\ PosOf(s) > 1 /\ r.ledger # <<>>
     /\ Last(r.ledger).phase = "response" /\ Last(r.ledger).step = Steps[PosOf(s) - 1]
     /\ Last(r.ledger).answer.is \in {"passed", "approve_spec", "patch_proposed"}

AttemptPrepared(r, s, authorised) ==
  IF authorised > 0 THEN authorised \in {LatestPrompt(s), LatestPrompt(s) + 1}
  ELSE r.st[s] = "running" /\ LatestPrompt(s) > Durable(r, s) =>
         LatestPrompt(s) = Durable(r, s) + 1 /\ AttemptAuthorised(r, s, LatestPrompt(s))

\* Defective variant: the artifact of the first attempt is read, whatever run.json names.
LoadFixed(r, s) ==
  [path |-> 1, response |-> files[<<"artifact", s, 1>>]]

LoadEarly(r, s) == [path |-> r.art[s], response |-> files[<<"artifact", s, r.art[s]>>]]

\* A finished early step has to have a role artifact, not the record of a failure.
EarlyLoads(r) ==
  \A s \in EarlySteps : r.st[s] \in Terminal => LoadEarly(r, s).response.result = "role"

Concluded(r, s) == s \in StepNames /\ r.st[s] \in Terminal

\* The artifact of a decided Development holds the one decision run.json holds.
DevelopmentEvidence(r) ==
  LET artifact == files[<<"artifact", "development", r.art["development"]>>]
  IN  IF r.st["development"] = "blocked" THEN artifact.result = "role"
      ELSE artifact.result = "evidence" /\ artifact.decision = r.decision

DownstreamLoads(r) ==
  /\ Concluded(r, "development") => DevelopmentEvidence(r)
  /\ Concluded(r, "output_review") =>
       files[<<"artifact", "output_review", r.art["output_review"]>>].result = "role"

EarlyOf(r) == [s \in {t \in EarlySteps : r.st[t] \in Terminal} |-> LoadEarly(r, s)]

Approved(early) ==
  "spec_review" \in DOMAIN early /\ early["spec_review"].response.answer.is = "approve_spec"

\* What the first request of an output review is made of, and what it has to be.
SubjectsHold(r) ==
  \A e \in Initials(r) : e.step = "output_review" =>
    /\ r.st["development"] = "completed" /\ r.patch = "applied"
    /\ \A s \in {"spec_creation", "spec_review"} : e.request.prereq[s] = LoadEarly(r, s)

\* Once the ledger has a request, the bundle is the one that request carries.
InitialBundle(r) ==
  IF Initials(r) = {} THEN PackContext(Tree, Relevant) ELSE r.ledger[1].request.bundle

MayPrepare(r, authorised) ==
  LET s == NextStep(r)
  IN  /\ s # NoStep /\ EarlyLoads(r) /\ DownstreamLoads(r) /\ SubjectsHold(r)
      /\ Concluded(r, "development") => Approved(EarlyOf(r))
      /\ Initials(r) = {} => ~LiveRefused(Tree, Relevant)
      /\ AttemptPrepared(r, s, authorised)
      /\ NeedsRevisionContext(r) =>
           /\ RevisionContext(r) # Null
           /\ RecoveredAttempt(r, s, authorised) = r.recovery.attempt

Prepared(r, authorised, apply) ==
  LET s == NextStep(r)
      recovered == RecoveredAttempt(r, s, authorised)
  IN  [pc |-> "step", step |-> s,
       attempt |-> IF recovered > 0 THEN recovered ELSE LatestPrompt(s) + 1,
       early |-> EarlyOf(r), bundle |-> InitialBundle(r),
       revision |-> IF NeedsRevisionContext(r) THEN RevisionContext(r) ELSE Null,
       apply |-> apply, next |-> Null, output |-> Null]

\* A completed Development whose patch is not in the candidate yet is applied first.
Normalized(r) ==
  IF r.st["development"] = "completed" THEN [r EXCEPT !.patch = "applied"] ELSE r

MayNormalize(r) ==
  r.st["development"] = "completed" /\ r.patch = "none" =>
    /\ r.status = "running" /\ r.st["output_review"] = "pending"
    /\ \A e \in Initials(r) : e.step # "output_review"
    /\ \A p \in files[<<"artifact", "development", r.art["development"]>>].answer.what : p \in Fits

PersistedApply(r) == r.decision # Null /\ r.decision.apply

\* seaf loop resume, for a run that needs its provider.
Resume ==
  /\ proc.pc = "idle" /\ run.status \in {"pending", "running"}
  /\ ~PendingRecovery(run) /\ MayNormalize(run)
  /\ run' = Normalized(run)
  /\ MayPrepare(run', 0) = TRUE
  /\ proc' = Prepared(run', 0, ApplyPatch /\ PersistedApply(run'))
  /\ UNCHANGED <<files, revisions, crashes>>

\* seaf loop rerun --recovery: the pending recovery names step and attempt.
Rerun ==
  /\ proc.pc = "idle" /\ PendingRecovery(run)
  /\ MayNormalize(run) /\ run' = Normalized(run)
  /\ NextStep(run') = run.recovery.step /\ MayPrepare(run', run.recovery.attempt) = TRUE
  /\ proc' = Prepared(run', run.recovery.attempt, ApplyPatch /\ PersistedApply(run'))
  /\ UNCHANGED <<files, revisions, crashes>>

-----------------------------------------------------------------------------
(* One step of the process.                                                *)

Entries == RecordsOf(run, proc.step, proc.attempt)
FirstEntry == run.ledger[Min(Entries)]
LastEntry == run.ledger[Max(Entries)]

MayStart ==
  /\ run.status \in {"pending", "running"} /\ NextStep(run) # NoStep
  /\ NextStep(run) \in {"development", "output_review"} => Approved(proc.early)
  /\ NextStep(run) = "output_review" => run.patch = "applied"

\* The first step of a process has its attempt from the preparation.
StartStep ==
  LET s == NextStep(run)
  IN  /\ proc.pc = "step" /\ MayStart
      /\ run' = [run EXCEPT !.status = "running", !.step = s, !.st[s] = "running"]
      /\ proc' = [proc EXCEPT !.pc = "prompt", !.step = s,
                              !.attempt = IF proc.step = s THEN @ ELSE LatestPrompt(s) + 1,
                              !.revision = IF proc.step = s THEN @ ELSE Null]
      /\ UNCHANGED <<files, revisions, crashes>>

EndProcess ==
  /\ proc.pc = "step" /\ ~MayStart
  /\ proc' = Idle
  /\ UNCHANGED <<run, files, revisions, crashes>>

Asking(s, prereq) ==
  [step |-> s, prereq |-> prereq, bundle |-> proc.bundle, revision |-> Null, patch |-> <<>>,
   files |-> <<>>, repaired |-> FALSE]

\* An early role is given the responses before it and, when SpecCreation is written
\* again, what the review said; Development the artifacts with their paths.
EarlyPrompt(s) ==
  [Asking(s, [t \in Prerequisites[s] \cap StepNames |-> [proc.early[t] EXCEPT !.path = 0]])
     EXCEPT !.revision = IF s = "spec_creation" THEN proc.revision ELSE Null]

DevelopmentPrompt ==
  Asking("development", [t \in Prerequisites["development"] |-> proc.early[t]])

\* An output review sees the decided patch and no file of the repository.
OutputReviewSubject ==
  [Asking("output_review", [t \in Prerequisites["output_review"] |-> proc.early[t]])
     EXCEPT !.bundle = <<>>, !.patch = run.decision.patch]

RoleRequest ==
  CASE proc.step = "development"   -> DevelopmentPrompt
    [] proc.step = "output_review" -> OutputReviewSubject
    [] OTHER                       -> EarlyPrompt(proc.step)

Entry(kind, round, phase, request, chain) ==
  [step |-> proc.step, attempt |-> proc.attempt, kind |-> kind, round |-> round,
   phase |-> phase, request |-> request, chain |-> chain, answer |-> Null]

\* write_step_request; what follows depends on the ledger of the attempt.
WritePrompt ==
  LET key == <<"prompt", proc.step, proc.attempt>>
  IN  /\ proc.pc = "prompt"
      /\ IF Free(key, RoleRequest)
         THEN /\ Publish(key, RoleRequest)
              /\ proc' = [proc EXCEPT !.pc = "call",
                                      !.next = IF Entries # {} THEN Null
                                               ELSE Entry("initial", 0, "request", RoleRequest, <<>>)]
         ELSE proc' = Idle /\ UNCHANGED files
      /\ UNCHANGED <<run, revisions, crashes>>

AppendRequest ==
  /\ proc.pc = "call" /\ proc.next # Null
  /\ run' = [run EXCEPT !.ledger = Append(@, proc.next)]
  /\ proc' = [proc EXCEPT !.next = Null]
  /\ UNCHANGED <<files, revisions, crashes>>

\* The provider is called for the request at the tail; what is ledgered is its
\* bounded and screened audit, and this is how every later process reads it.
Ask ==
  /\ proc.pc = "call" /\ proc.next = Null /\ LastEntry.phase = "request"
  /\ \E result \in Answers[proc.step] :
       run' = [run EXCEPT !.ledger =
                 Append(@, [LastEntry EXCEPT
                              !.phase = "response",
                              !.answer = ReadAnswer(Diffs, RoleOf[proc.step], result)])]
  /\ UNCHANGED <<files, proc, revisions, crashes>>

Answered(kinds) ==
  /\ proc.pc = "call" /\ proc.next = Null
  /\ LastEntry.phase = "response" /\ LastEntry.answer.is \in kinds

Output(status, artifact, decision) ==
  [status |-> status, artifact |-> artifact, decision |-> decision]

Finishes(output) == [proc EXCEPT !.pc = "artifact", !.output = output]

Failure(why) == Output("failed", [result |-> why], Null)

\* One repair per request; a provider failure or a second bad answer ends the step.
RepairJson ==
  /\ Answered({"invalid_json"}) /\ LastEntry.kind # "repair"
  /\ proc' = [proc EXCEPT !.next = Entry("repair", LastEntry.round, "request",
                                         [LastEntry.request EXCEPT !.repaired = TRUE], LastEntry.chain)]
  /\ UNCHANGED <<run, files, revisions, crashes>>

FailStep ==
  /\ Answered({"invalid_json", "invalid_response", "provider_failure"})
  /\ LastEntry.answer.is = "invalid_json" => LastEntry.kind = "repair"
  /\ proc' = Finishes(Failure(IF LastEntry.answer.is = "provider_failure" THEN "provider_failure"
                              ELSE "invalid_response"))
  /\ UNCHANGED <<run, files, revisions, crashes>>

Retries(s) == {k \in DOMAIN run.ledger : /\ run.ledger[k].kind = "retry"
                                         /\ run.ledger[k].phase = "request"
                                         /\ run.ledger[k].step \in s}

CapReached ==
  \/ Cardinality(Retries(StepNames)) >= RunCap
  \/ Cardinality(Retries({proc.step})) >= StepCap

\* Defective variant: a retry adds the files of its own round only.
LastRoundFiles(chain) == Last(chain).files

RetryFiles(chain) == ChainFiles(chain)

Asked ==
  Expand(Tree, Order,
         [step |-> proc.step, attempt |-> proc.attempt, bundle |-> proc.bundle],
         LastEntry.chain, LastEntry.answer.what)

RetryRequest(chain) == [FirstEntry.request EXCEPT !.files = RetryFiles(chain)]

\* A role asks for more files: an expansion is published before the retry request
\* is ledgered; the request is the initial one and every file of the chain.
PublishExpansion(key, expansion, chain) ==
  IF Free(key, expansion)
  THEN /\ Publish(key, expansion)
       /\ proc' = [proc EXCEPT !.next = Entry("retry", expansion.round, "request",
                                              RetryRequest(chain), chain)]
  ELSE proc' = Idle /\ UNCHANGED files

Grant(made) ==
  /\ made.refused = ""
  /\ PublishExpansion(<<"expansion", proc.step, proc.attempt, made.expansion.round>>,
                      made.expansion, Append(LastEntry.chain, made.expansion))

ExpandContext ==
  /\ Answered({"needs_context"}) /\ ~CapReached /\ Grant(Asked)
  /\ UNCHANGED <<run, revisions, crashes>>

Denied == Output("blocked", [result |-> "context_denied"], Null)

RefuseFor(refused) ==
  /\ refused # ""
  /\ proc' = Finishes(IF refused = "invalid" THEN Failure("context_audit_failure") ELSE Denied)

RefuseContext ==
  /\ Answered({"needs_context"})
  /\ RefuseFor(IF CapReached THEN "cap" ELSE Asked.refused)
  /\ UNCHANGED <<run, files, revisions, crashes>>

Statuses ==
  [passed |-> "completed", approve_spec |-> "passed", approve_for_tests |-> "passed",
   blocked |-> "blocked", request_changes |-> "blocked", reject |-> "failed"]

FinishResponse ==
  /\ Answered(DOMAIN Statuses)
  /\ proc' = Finishes(Output(Statuses[LastEntry.answer.is],
                             [result |-> "role", answer |-> LastEntry.answer], Null))
  /\ UNCHANGED <<run, files, revisions, crashes>>

-----------------------------------------------------------------------------
(* The patch of a Developer.                                               *)

PatchOf(answer) == CHOOSE p \in answer.what : TRUE

PublishOr(key, content, next, failed) ==
  IF Free(key, content) THEN Publish(key, content) /\ proc' = next
                        ELSE proc' = failed /\ UNCHANGED files

PublishDiff ==
  /\ Answered({"patch_proposed"})
  /\ PublishOr(<<"diff", proc.step, proc.attempt>>, Diffs[PatchOf(LastEntry.answer)],
               [proc EXCEPT !.pc = "decide"], Finishes(Failure("post_response_failure")))
  /\ UNCHANGED <<run, revisions, crashes>>

Evidence(answer, decision) == [result |-> "evidence", answer |-> answer, decision |-> decision]

Gated(decision) ==
  IF EvidenceAligned(decision.patch, decision)
  THEN Output(IF decision.kind = "rejected" THEN "failed" ELSE "completed",
              Evidence(LastEntry.answer, decision), decision)
  ELSE Failure("post_response_failure")

Decided(decision) ==
  PublishOr(<<"decision", proc.step, proc.attempt>>, decision,
            Finishes(Gated(decision)), Finishes(Failure("post_response_failure")))

\* The decision file is create-only: one published by a process with another apply
\* authority stays, and the step fails.
Decide ==
  /\ proc.pc = "decide"
  /\ Decided(GatePatch(Policy, Diffs[PatchOf(LastEntry.answer)], proc.apply,
                       PatchOf(LastEntry.answer) \in Fits))
  /\ UNCHANGED <<run, revisions, crashes>>

-----------------------------------------------------------------------------
(* The end of a step.                                                      *)

\* Defective variant: every attempt writes the conventional name.
ConventionalName(s, a) == <<"artifact", s, 1>>

ArtifactName(s, a) == <<"artifact", s, a>>

\* write_step_artifact: by the latest prompt's attempt, never beside a fixed pointer.
WriteArtifact ==
  LET key == ArtifactName(proc.step, proc.attempt)
  IN  /\ proc.pc = "artifact"
      /\ IF /\ LatestPrompt(proc.step) = proc.attempt
            /\ proc.attempt > 1 => run.art[proc.step] # 1
            /\ Free(key, proc.output.artifact)
         THEN Publish(key, proc.output.artifact) /\ proc' = [proc EXCEPT !.pc = "persist"]
         ELSE proc' = Idle /\ UNCHANGED files
      /\ UNCHANGED <<run, revisions, crashes>>

Advances(status) == status \in {"completed", "passed"}

StatusAfter(s, status) ==
  IF ~Advances(status) THEN status
  ELSE IF s = "output_review" THEN "awaiting" ELSE "running"

\* The artifact kept in memory for the next request goes by the name of attempt 1.
Persist ==
  LET s == proc.step
      status == proc.output.status
      stepped == [run EXCEPT !.st[s] = status, !.art[s] = proc.attempt]
  IN  /\ proc.pc = "persist"
      /\ run' = [stepped EXCEPT
                   !.status = StatusAfter(s, status),
                   !.step = IF Advances(status) /\ NextStep(stepped) # NoStep
                            THEN NextStep(stepped) ELSE s,
                   !.decision = IF proc.output.decision # Null THEN proc.output.decision ELSE @]
      /\ proc' = [proc EXCEPT
                    !.pc = IF s = "development" /\ status = "completed" THEN "apply" ELSE "step",
                    !.early = IF s \in EarlySteps /\ proc.output.artifact.result = "role"
                              THEN With(@, s, [path |-> 1, response |-> proc.output.artifact])
                              ELSE @,
                    !.output = Null]
      /\ UNCHANGED <<files, revisions, crashes>>

\* The completed patch goes into the candidate, or the process ends with an error.
ApplyPatchToCandidate ==
  LET patch == PatchOf(LastEntry.answer)
  IN  /\ proc.pc = "apply"
      /\ IF patch \in Fits
         THEN run' = [run EXCEPT !.patch = "applied"] /\ proc' = [proc EXCEPT !.pc = "step"]
         ELSE proc' = Idle /\ UNCHANGED run
      /\ UNCHANGED <<files, revisions, crashes>>

Crash ==
  /\ proc.pc # "idle" /\ crashes < MaxCrashes
  /\ proc' = Idle /\ crashes' = crashes + 1
  /\ UNCHANGED <<run, files, revisions>>

-----------------------------------------------------------------------------

\* seaf loop run, once the run is scaffolded.
ChainInit ==
  /\ run = [status |-> "pending", step |-> Steps[1], st |-> [s \in StepNames |-> "pending"],
            art |-> [s \in StepNames |-> 0], ledger |-> <<>>, decision |-> Null,
            recovery |-> Null, patch |-> "none"]
  /\ files = <<>> /\ revisions = 0 /\ crashes = 0
  /\ ~LiveRefused(Tree, Relevant)
  /\ proc = [pc |-> "step", step |-> Steps[1], attempt |-> 1, early |-> <<>>,
             bundle |-> PackContext(Tree, Relevant), revision |-> Null, apply |-> ApplyPatch,
             next |-> Null, output |-> Null]

ChainNext ==
  \/ Resume \/ Rerun \/ Crash
  \/ \E s \in StepNames : Revise(s)
  \/ StartStep \/ EndProcess \/ WritePrompt \/ AppendRequest \/ Ask
  \/ RepairJson \/ FailStep \/ ExpandContext \/ RefuseContext \/ FinishResponse
  \/ PublishDiff \/ Decide \/ WriteArtifact \/ Persist \/ ApplyPatchToCandidate

ChainSpec == ChainInit /\ [][ChainNext]_chainVars

-----------------------------------------------------------------------------
(* Properties.                                                             *)

\* The place of the last request of a step, in the ledger; 0 when it has none.
LastAsked(s) ==
  Max({0} \cup {k \in DOMAIN run.ledger : run.ledger[k].step = s})

Answer(s) == files[<<"artifact", s, run.art[s]>>].answer

\* What a role was asked about still stands: once a step is past its first request
\* the responses that request carried are those run.json names for the earlier
\* steps, whatever was revised, resumed or killed in between; a patch is asked for
\* only against the very spec that the spec review approved; and a run waits for a
\* human only on the approval that is the output reviewer's own
\* (prepare_provider_workspace, development_prompt, output_review_subject,
\* classify_provider_exchange_response).
CarriesWhatStands ==
  /\ run.status = "awaiting" => Answer("output_review").is = "approve_for_tests"
  /\ \A s \in StepNames :
       LET k == LastAsked(s)
           request == run.ledger[k].request
       IN  k > 0 /\ (\A t \in DOMAIN request.prereq : LastAsked(t) < k /\ run.st[t] \in Terminal) =>
           /\ \A t \in DOMAIN request.prereq : request.prereq[t].response.answer = Answer(t)
           /\ s = "development" =>
                /\ request.prereq["spec_review"].response.answer.is = "approve_spec"
                /\ run.ledger[LastAsked("spec_review")].request.prereq["spec_creation"].response
                     = request.prereq["spec_creation"].response

\* Every request of a run carries one bundle, what it carries stays below the total
\* limit, no file is there twice or forbidden, and what a role was granted in one
\* round is still there in the next (pack_context, create_context_expansion,
\* context_retry_request).
ContextIsBounded ==
  \A k \in DOMAIN run.ledger :
    LET e == run.ledger[k]
        carried == e.request.bundle \o e.request.files
        earlier == {j \in 1 .. k - 1 : run.ledger[j].step = e.step
                                       /\ run.ledger[j].attempt = e.attempt}
    IN  /\ Bytes(carried) <= Limits.total
        /\ Cardinality(Paths(carried)) = Len(carried)
        /\ \A p \in Paths(carried) : ~MatchesAny(p, Forbidden)
        /\ e.step # "output_review" => e.request.bundle = run.ledger[1].request.bundle
        /\ \A j \in earlier : Paths(run.ledger[j].request.files) \subseteq Paths(e.request.files)

\* The paths a diff names, by every header in it.
Touched(diff) ==
  (UNION {IF diff[k].is = "git" THEN {PatchPath(p) : p \in ToSet(diff[k].paths)}
          ELSE {PatchPath(diff[k].path)} :
            k \in {j \in DOMAIN diff : diff[j].is \in {"git", "old", "new"}}}) \ {<<>>}

\* What reaches the candidate is the patch of the current Development attempt, by
\* the one decision on file for it; it names no forbidden path by any of its
\* headers, and an unreviewed one touches nothing the policy wants reviewed
\* (gate_patch_with_execution, classify_paths, append_policy_decisions).
DecisionStands ==
  run.patch = "applied" =>
    LET a == run.art["development"]
        diff == files[<<"diff", "development", a>>]
        decision == files[<<"decision", "development", a>>]
    IN  /\ decision = run.decision /\ decision.patch = diff
        /\ \A p \in Touched(diff) :
             /\ ~MatchesAny(p, Policy.forbidden)
             /\ decision.kind = "allowed" => ~MatchesAny(p, ReviewPatterns(Policy))

\* docs/production-use-implementation-plan.md: the exact artifact paths and digests go
\* into the requests of later roles, and a durable request can be continued.  The
\* subject of an output review is then what run.json names.
SubjectsAgree == SubjectsHold(run)

-----------------------------------------------------------------------------
(* The inductive invariant.                                                *)

Open == {"pending", "running"}
Standing(s) == files[<<"artifact", s, run.art[s]>>]
Needs(s) == Prerequisites[s] \cap StepNames

\* Records are compared field by field: nothing is said of what a request carries
\* besides the responses of the earlier steps.
IsRequest(q, s) ==
  /\ q = [step |-> q.step, prereq |-> q.prereq, bundle |-> q.bundle, revision |-> q.revision,
          patch |-> q.patch, files |-> q.files, repaired |-> q.repaired]
  /\ DOMAIN q.prereq = Needs(s)
  /\ s = "development" => q.prereq["spec_review"].response.answer.is = "approve_spec"

Read(s) == {ReadAnswer(Diffs, RoleOf[s], result) : result \in Answers[s]}

IsEntry(e) ==
  /\ e = [step |-> e.step, attempt |-> e.attempt, kind |-> e.kind, round |-> e.round,
          phase |-> e.phase, request |-> e.request, chain |-> e.chain, answer |-> e.answer]
  /\ e.step \in StepNames /\ e.attempt \in Nat \ {0}
  /\ IsRequest(e.request, e.step)
  /\ e.phase = "response" => e.answer \in Read(e.step)

RunIsTyped ==
  /\ run = [status |-> run.status, step |-> run.step, st |-> run.st, art |-> run.art,
            ledger |-> run.ledger, decision |-> run.decision, recovery |-> run.recovery,
            patch |-> run.patch]
  /\ run.status \in {"pending", "running", "blocked", "failed", "awaiting"}
  /\ run.step \in StepNames /\ run.patch \in {"none", "applied"}
  /\ run.st \in [StepNames -> Open \cup Terminal] /\ run.art \in [StepNames -> Nat]
  /\ run.ledger \in Seq(ToSet(run.ledger))
  /\ run.recovery # Null => run.recovery.step \in StepNames /\ run.recovery.attempt \in Nat \ {0}
  /\ IsFiniteSet(DOMAIN files) /\ \A f \in DOMAIN files : f[3] \in Nat

\* The steps that are still to be done are the last ones, and those that are done
\* left an artifact.
StepsInOrder ==
  /\ \A s, t \in StepNames : Rank[s] < Rank[t] /\ run.st[s] \in Open => run.st[t] = "pending"
  /\ \A s \in StepNames :
       run.st[s] \in Terminal => <<"artifact", s, run.art[s]>> \in DOMAIN files

SameAttempt(e, f) == e.step = f.step /\ e.attempt = f.attempt

\* An attempt has a prompt and begins with an initial request; what a request carries
\* of a step stands until that step is asked again.
LedgerHolds ==
  /\ \A k \in DOMAIN run.ledger :
       LET e == run.ledger[k]
       IN  /\ IsEntry(e) /\ <<"prompt", e.step, e.attempt>> \in DOMAIN files
           /\ \E i \in Initials(run) : SameAttempt(i, e)
           /\ \A j \in DOMAIN run.ledger :
                SameAttempt(run.ledger[j], e) => run.ledger[j].request.prereq = e.request.prereq
           /\ \A t \in Needs(e.step) : LastAsked(t) < k /\ run.st[t] \in Terminal =>
                e.request.prereq[t].response = Standing(t)
  /\ \A t \in StepNames : run.st[t] \in Terminal =>
       /\ LastAsked(t) > 0
       /\ \A s \in StepNames : Rank[s] < Rank[t] => LastAsked(s) < LastAsked(t)

\* The records of the attempt a process is at are the last of the ledger.
AtTheEnd == Entries # {} => Len(run.ledger) \in Entries

ProcIsTyped ==
  /\ proc.pc \in {"idle", "step", "prompt", "call", "decide", "artifact", "persist", "apply"}
  /\ proc.pc # "idle" =>
       /\ proc = [pc |-> proc.pc, step |-> proc.step, attempt |-> proc.attempt,
                  early |-> proc.early, bundle |-> proc.bundle, revision |-> proc.revision,
                  apply |-> proc.apply, next |-> proc.next, output |-> proc.output]
       /\ proc.step \in StepNames /\ proc.attempt \in Nat \ {0}
       /\ proc.next # Null => proc.pc = "call"

\* A process has in memory what stands on disk.
MemoryStands ==
  proc.pc # "idle" /\ run.status \in Open =>
    \A t \in EarlySteps : run.st[t] \in Terminal =>
      /\ t \in DOMAIN proc.early
      /\ proc.early[t] = [path |-> proc.early[t].path, response |-> Standing(t)]

AtWork == proc.pc \in {"prompt", "call", "decide", "artifact", "persist"}

StepIsRunning ==
  AtWork =>
    /\ run.status = "running" /\ run.st[proc.step] = "running"
    /\ proc.step = "development" => Approved(proc.early)

AttemptIsLast ==
  /\ proc.pc = "step" /\ proc.step = NextStep(run) => AtTheEnd
  /\ AtWork => AtTheEnd
  /\ AtWork /\ proc.pc # "prompt" =>
       /\ <<"prompt", proc.step, proc.attempt>> \in DOMAIN files
       /\ proc.next = Null => Entries # {}

NextHolds(e) ==
  /\ IsEntry(e) /\ SameAttempt(e, proc) /\ e.phase = "request"
  /\ Entries = {} => e.kind = "initial"
  /\ \A j \in Entries : run.ledger[j].request.prereq = e.request.prereq
  /\ \A t \in Needs(e.step) : e.request.prereq[t].response = Standing(t)

NextStands == proc.pc = "call" /\ proc.next # Null => NextHolds(proc.next)

\* What a decision that lets a patch through says of the patch.
Clears(decision, diff) ==
  /\ decision # Null /\ decision.patch = diff
  /\ \A p \in Touched(diff) :
       /\ ~MatchesAny(p, Policy.forbidden)
       /\ decision.kind = "allowed" => ~MatchesAny(p, ReviewPatterns(Policy))

OnFile(a, decision) ==
  /\ <<"diff", "development", a>> \in DOMAIN files
  /\ <<"decision", "development", a>> \in DOMAIN files
  /\ files[<<"decision", "development", a>>] = decision
  /\ Clears(decision, files[<<"diff", "development", a>>])

PatchIsDecided ==
  /\ run.st["development"] = "completed" => OnFile(run.art["development"], run.decision)
  /\ run.patch = "applied" => run.st["development"] = "completed"

\* The gate decides on the patch that was published.
GateStands ==
  /\ proc.pc = "apply" => proc.step = "development" /\ run.st["development"] = "completed"
  /\ proc.pc = "decide" =>
       /\ proc.step = "development" /\ PatchOf(LastEntry.answer) \in DOMAIN Diffs
       /\ <<"diff", "development", proc.attempt>> \in DOMAIN files
       /\ files[<<"diff", "development", proc.attempt>>] = Diffs[PatchOf(LastEntry.answer)]

OutputHolds(output) ==
  /\ output = [status |-> output.status, artifact |-> output.artifact, decision |-> output.decision]
  /\ output.status \in {"completed", "passed", "blocked", "failed"}
  /\ proc.step # "development" =>
       output.decision = Null /\ (Advances(output.status) => output.artifact.result = "role")
  /\ proc.step = "output_review" /\ Advances(output.status) =>
       output.artifact.answer.is = "approve_for_tests"
  /\ proc.step = "development" /\ output.status = "completed" =>
       OnFile(proc.attempt, output.decision)

OutputStands ==
  /\ proc.pc \in {"artifact", "persist"} => OutputHolds(proc.output)
  /\ proc.pc = "persist" =>
       /\ <<"artifact", proc.step, proc.attempt>> \in DOMAIN files
       /\ files[<<"artifact", proc.step, proc.attempt>>] = proc.output.artifact

AwaitsApproval ==
  run.status = "awaiting" =>
    run.st["output_review"] \in Terminal /\ Answer("output_review").is = "approve_for_tests"

DiskInv == RunIsTyped /\ StepsInOrder /\ LedgerHolds /\ PatchIsDecided /\ AwaitsApproval

ProcInv ==
  /\ ProcIsTyped /\ MemoryStands /\ StepIsRunning /\ AttemptIsLast /\ NextStands /\ GateStands
  /\ OutputStands

ChainInv == DiskInv /\ ProcInv

-----------------------------------------------------------------------------
(* What requests carry of the repository.                                  *)

Packed == PackContext(Tree, Relevant)

File == [path : {p \in DOMAIN Tree : ~MatchesAny(p, Forbidden)}, bytes : Nat]

IsChain(chain) ==
  chain \in Seq(ToSet(chain)) /\ \A k \in DOMAIN chain : chain[k].files \in Seq(File)

\* The bundle of a request and the files of its chain fit together, and the next round
\* counts from them.
ChainFits(chain) ==
  LET asked == ChainFiles(chain)
      total == TotalBefore([bundle |-> Packed], chain, Len(chain) + 1)
  IN  /\ IsChain(chain)
      /\ total = Bytes(Packed) + Bytes(asked) /\ total <= Limits.total
      /\ LoadedBefore([bundle |-> Packed], chain, Len(chain) + 1) = Paths(Packed) \cup Paths(asked)
      /\ Paths(Packed) \cap Paths(asked) = {}
      /\ Cardinality(Paths(asked)) = Len(asked)

CarriesContext(e) ==
  /\ ChainFits(e.chain)
  /\ e.request.files = ChainFiles(e.chain)
  /\ e.request.bundle = IF e.step = "output_review" THEN <<>> ELSE Packed

CarriesOver(e, f) == Paths(e.request.files) \subseteq Paths(f.request.files)

BundleStands == proc.pc # "idle" => proc.bundle = Packed

\* No run begins with the review of an output, which carries no bundle, and nothing that
\* was granted is left out of a later request of the attempt.
LedgerCarries ==
  /\ run.ledger # <<>> => run.ledger[1].step # "output_review"
  /\ \A k \in DOMAIN run.ledger : CarriesContext(run.ledger[k])
  /\ \A j, k \in DOMAIN run.ledger :
       j < k /\ SameAttempt(run.ledger[j], run.ledger[k]) =>
         CarriesOver(run.ledger[j], run.ledger[k])

NextCarries ==
  proc.pc = "call" /\ proc.next # Null =>
    CarriesContext(proc.next) /\ \A j \in Entries : CarriesOver(run.ledger[j], proc.next)

ContextInv == ~LiveRefused(Tree, Relevant) /\ BundleStands /\ LedgerCarries /\ NextCarries

==============================================================================
