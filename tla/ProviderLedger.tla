--------------------------- MODULE ProviderLedger ---------------------------
(***************************************************************************)
(* The provider exchange ledger of a run and the step runners that write   *)
(* it: request and response files, the records that bind them, the head in *)
(* run.json, reconciliation after a death, context rounds, JSON repair and *)
(* revisions of a provider step.                                           *)
(*                                                                         *)
(* Several `seaf loop' processes may work on one run.  Everything done     *)
(* under one acquisition of the run mutation lock is one action; a death   *)
(* inside it is a cut, after which a prefix of its writes is on disk.      *)
(***************************************************************************)
EXTENDS Integers, Sequences, SequencesExt, FiniteSets

CONSTANTS
  Runners,       \* processes: loop run, loop resume, loop rerun
  LastStep,      \* OutputReview; provider steps are 1 .. LastStep
  Development,   \* the step whose completion applies the candidate patch
  Answers,       \* the answers a provider may give
  StepRounds,    \* accepted context rounds of a step (two)
  RunRounds,     \* accepted context rounds of a run (eight)
  MaxAttempt,    \* bound: attempts of a step
  MaxRecords,    \* bound: length of the ledger
  MaxFaults      \* bound: deaths and I/O failures

Steps == 1 .. LastStep

ASSUME LedgerAssumption ==
  /\ LastStep \in Nat \ {0}
  /\ Development \in Steps
  /\ Answers \subseteq {"advance", "gated", "context", "malformed", "incompatible",
                        "stop", "failure"}
  /\ StepRounds \in Nat /\ RunRounds \in Nat
  /\ MaxAttempt \in Nat /\ MaxRecords \in Nat /\ MaxFaults \in Nat

Kinds == {"initial", "context", "repair"}
Phases == {"request", "response"}
NoAnswer == "none"
NoRecord == << >>

VARIABLES
  run,           \* run.json
  requests,      \* the request files
  responses,     \* the response files
  filed,         \* the record files
  expansions,    \* the context expansion files
  prompts,       \* the conventional prompt files, by step and attempt
  revisions,     \* the recovery artifacts, in order
  runner,        \* runner -> its progress
  faults         \* history: deaths and I/O failures so far

files == <<requests, responses, filed, expansions, prompts>>
vars == <<run, files, revisions, runner, faults>>

Coordinate(x) == [step |-> x.step, attempt |-> x.attempt, index |-> x.index]

\* The path of a record file; file and content are fixed once it exists.
Key(x) == <<x.step, x.attempt, x.index, x.phase>>

Fresh == [ledger |-> << >>, step |-> 1, status |-> "pending", revision |-> 0]

View(rn) == [ledger |-> rn.ledger, revision |-> rn.revision]

\* Before the attempt it was given, or (0) before the next one of the step.
Ready(rn, a) == [at |-> "ready", run |-> rn, view |-> View(rn), attempt |-> a, index |-> 0,
                 kind |-> "initial", round |-> 0, answer |-> NoAnswer]

Idle == [Ready(Fresh, 0) EXCEPT !.at = "idle"]

Init ==
  /\ run = Fresh
  /\ requests = {} /\ responses = {} /\ filed = {} /\ expansions = {} /\ prompts = {}
  /\ revisions = << >>
  /\ runner = [p \in Runners |-> Idle]
  /\ faults = 0

Goto(p, at) == runner' = [runner EXCEPT ![p].at = at]

Leave(p) == runner' = [runner EXCEPT ![p] = Idle]

-----------------------------------------------------------------------------
(* Reading the ledger.                                                     *)

HeadKey(led) == IF led = << >> THEN NoRecord ELSE Key(Last(led))

\* Where the ledger has the records of an attempt.
Group(led, s, a) == {i \in DOMAIN led : led[i].step = s /\ led[i].attempt = a}

AttemptsOf(led, s) == {led[i].attempt : i \in {j \in DOMAIN led : led[j].step = s}}

Highest(S) == IF S = {} THEN 0 ELSE CHOOSE n \in S : \A m \in S : m <= n

LastAttempt(led, s) == Highest(AttemptsOf(led, s))

LastPrompt(s) == Highest({a \in 1 .. MaxAttempt : <<s, a>> \in prompts})

Retries(led) == {i \in DOMAIN led : led[i].phase = "request" /\ led[i].kind = "context"}

\* Only a durable context retry request counts, whichever attempt it belongs to.
Rounds(led, S) == Cardinality({i \in Retries(led) : led[i].step \in S})

AttemptRounds(led, s, a) == Cardinality(Retries(led) \cap Group(led, s, a))

\* Defective variant: a new attempt starts with fresh rounds.
CapReachedOfAttempt(led, s) ==
  \/ Rounds(led, Steps) >= RunRounds
  \/ AttemptRounds(led, s, LastAttempt(led, s)) >= StepRounds

CapReached(led, s) == Rounds(led, Steps) >= RunRounds \/ Rounds(led, {s}) >= StepRounds

Advancing(answer) == answer \in {"advance", "gated"}

\* A revision of the authenticated chain that authorizes this attempt.
Authorized(led, n, s, a) ==
  \E i \in 1 .. n : /\ revisions[i].step = s /\ revisions[i].attempt = a
                    /\ IsPrefix(revisions[i].base, led)

FollowsResponse(led, x) ==
  LET last == Last(led) IN
  /\ last.phase = "response"
  /\ x.index = last.index + 1
  /\ \/ /\ last.answer = "context"
        /\ x.kind = "context"
        /\ x.round = AttemptRounds(led, x.step, x.attempt) + 1
     \/ /\ last.answer = "malformed" /\ last.kind # "repair"
        /\ x.kind = "repair"
        /\ x.round = last.round

StartsGroup(rn, led, x) ==
  /\ x.kind = "initial" /\ x.index = 1
  /\ led # << >> => Last(led).phase = "response"
  /\ led # << >> => x.attempt = LastAttempt(led, x.step) + 1
  /\ \/ /\ x.step = rn.step /\ rn.status \in {"pending", "running"}
        /\ (led = << >> /\ x.attempt = 1) \/ Authorized(led, rn.revision, x.step, x.attempt)
     \/ /\ led # << >>
        /\ x.step = Last(led).step + 1 /\ Advancing(Last(led).answer)

\* validate_append_link for a run whose ledger is led.
Links(rn, led, x) ==
  /\ x.prev = HeadKey(led)
  /\ IF x.phase = "response"
       THEN /\ led # << >>
            /\ Last(led).phase = "request" /\ Coordinate(Last(led)) = Coordinate(x)
       ELSE IF led # << >> /\ Last(led).step = x.step /\ Last(led).attempt = x.attempt
              THEN FollowsResponse(led, x)
              ELSE StartsGroup(rn, led, x)

-----------------------------------------------------------------------------
(* Reconciliation.                                                         *)

Unreferenced == {x \in filed : \A i \in DOMAIN run.ledger : run.ledger[i] # x}

\* The one order in which the staged records can be adopted, every one being the
\* only one that links where it is adopted.
Adopts(suffix) ==
  \A n \in DOMAIN suffix :
    LET led == run.ledger \o SubSeq(suffix, 1, n - 1) IN
    \A m \in n .. Len(suffix) : Links(run, led, suffix[m]) <=> m = n

Bound(led) ==
  /\ \A c \in requests : \E i \in DOMAIN led : Coordinate(led[i]) = c
  /\ \A f \in responses :
       \E i \in DOMAIN led : led[i].phase = "response" /\ Coordinate(led[i]) = f.to
  /\ \A e \in expansions :
       \E i \in DOMAIN led : <<led[i].step, led[i].attempt, led[i].round>> = e

Prompted(led) ==
  \A i \in DOMAIN led : led[i].kind = "initial" => <<led[i].step, led[i].attempt>> \in prompts

\* The ledgers a reconciliation may publish: at most one.
Reconciled == {led \in {run.ledger \o s : s \in {t \in SetToSeqs(Unreferenced) : Adopts(t)}} :
                 Bound(led) /\ Prompted(led)}

\* The first exact request of a revision is durable.
Consumed(led, n) ==
  LET base == revisions[n].base IN
  /\ Len(led) > Len(base)
  /\ Key(led[Len(base) + 1]) = <<revisions[n].step, revisions[n].attempt, 1, "request">>

\* Between the reset and its first request the run may only have been marked.
Descends(led) ==
  LET base == revisions[run.revision].base IN
  led = base \/ (IsPrefix(base, led) /\ Consumed(led, run.revision))

-----------------------------------------------------------------------------
(* Resume and rerun: resync_exact_run, prepare_run, and the attempt that   *)
(* is worked on.                                                           *)

MayFollow(led, s, a) ==
  \/ Authorized(led, run.revision, s, a)
  \/ /\ led # << >> /\ Last(led).phase = "response"
     /\ Advancing(Last(led).answer) /\ s = Last(led).step + 1

\* The attempts a resumed runner may continue with; none if prompts and ledger
\* disagree.
ResumedAttempt(led) ==
  LET s == run.step
      prompt == LastPrompt(s)
      durable == LastAttempt(led, s)
  IN  {a \in 1 .. MaxAttempt :
         IF run.status = "running" /\ prompt > durable
           THEN a = prompt /\ a = durable + 1 /\ (a = 1 \/ MayFollow(led, s, a))
           ELSE IF run.status = "running" /\ led # << >> /\ Last(led).step = s
                  THEN a = Last(led).attempt
                  ELSE a = prompt + 1}

Prepare(p, led, a) ==
  /\ run' = [run EXCEPT !.ledger = led]
  /\ runner' = [runner EXCEPT ![p] = Ready(run', a)]

Runnable == run.status \in {"pending", "running"}

\* seaf loop run and seaf loop resume, which refuse a pending revision.
Resume(p) ==
  /\ runner[p].at = "idle"
  /\ Runnable
  /\ \E led \in Reconciled :
       /\ run.revision # 0 => Consumed(led, run.revision)
       /\ \E a \in ResumedAttempt(led) : Prepare(p, led, a)
  /\ UNCHANGED <<files, revisions, faults>>

\* seaf loop rerun --recovery, for the latest revision while it is pending.
Rerun(p) ==
  /\ runner[p].at = "idle"
  /\ Runnable /\ run.revision # 0
  /\ \E led \in Reconciled :
       /\ Descends(led) /\ ~Consumed(led, run.revision)
       /\ LET a == revisions[run.revision].attempt
              s == revisions[run.revision].step
          IN  /\ run.step = s
              /\ a \in {LastPrompt(s), LastPrompt(s) + 1}
              /\ Prepare(p, led, a)
  /\ UNCHANGED <<files, revisions, faults>>

-----------------------------------------------------------------------------
(* run_next_step until the provider is involved.                           *)

\* Defective variant: the whole of run.json is replaced from a copy.
MayPublishBlindly(expected, intended) == TRUE

\* A run waits for human review on the approving answer to the latest prompt.
MayFreeze(rn) ==
  /\ rn.ledger # << >> /\ Last(rn.ledger).step = LastStep
  /\ Last(rn.ledger).answer = "advance"
  /\ Last(rn.ledger).attempt = LastPrompt(LastStep)

\* persist_ordinary_run_with_full_compare, and persist_run_with_full_compare for
\* a run that freezes.  The time in run.json has a resolution of a second: two
\* runners that make the same transition within one write the same run.
MayPublish(expected, intended) ==
  IF intended.status = "review" THEN run = expected /\ MayFreeze(intended)
  ELSE run \in {expected, intended}

NextAttempt(p) == IF runner[p].attempt # 0 THEN runner[p].attempt
                  ELSE LastPrompt(runner[p].run.step) + 1

Marked(p) == [runner[p].run EXCEPT !.status = "running"]

MarkRunning(p) ==
  /\ runner[p].at = "ready"
  /\ NextAttempt(p) <= MaxAttempt
  /\ MayPublish(runner[p].run, Marked(p))
  /\ run' = Marked(p)
  /\ runner' = [runner EXCEPT ![p] = [@ EXCEPT !.at = "marked", !.run = Marked(p),
                                               !.attempt = NextAttempt(p)]]
  /\ UNCHANGED <<files, revisions, faults>>

\* run_audited_provider_step goes on where the ledger ends.
Entered(p) ==
  LET group == Group(runner[p].view.ledger, runner[p].run.step, runner[p].attempt)
      last == runner[p].view.ledger[Highest(group)]
  IN
  IF group = {}
    THEN [runner[p] EXCEPT !.at = "request", !.index = 1, !.kind = "initial", !.round = 0]
    ELSE [runner[p] EXCEPT !.at = IF last.phase = "request" THEN "ask" ELSE "decide",
                           !.index = last.index, !.kind = last.kind,
                           !.round = last.round, !.answer = last.answer]

\* The prompt is create-only; one that is there has the same bytes.
WritePrompt(p) ==
  /\ runner[p].at = "marked"
  /\ prompts' = prompts \cup {<<runner[p].run.step, runner[p].attempt>>}
  /\ runner' = [runner EXCEPT ![p] = Entered(p)]
  /\ UNCHANGED <<run, requests, responses, filed, expansions, revisions, faults>>

-----------------------------------------------------------------------------
(* One exchange.                                                           *)

Record(p, phase, answer) ==
  [step |-> runner[p].run.step, attempt |-> runner[p].attempt, index |-> runner[p].index,
   kind |-> runner[p].kind, round |-> runner[p].round, phase |-> phase, answer |-> answer,
   prev |-> HeadKey(runner[p].view.ledger)]

Here(p) == Coordinate(Record(p, "request", NoAnswer))

\* Status and current step are not part of the comparison.
SameAuthority(p) ==
  /\ run.ledger = runner[p].view.ledger
  /\ run.revision = runner[p].view.revision

Frozen == run.status = "review"

\* Defective variant: the authority the runner saw is not compared.
MayRequestStale(p) ==
  LET x == Record(p, "request", NoAnswer) IN
  ~Frozen /\ Here(p) \notin requests /\ x \notin filed

MayRequest(p) ==
  LET x == Record(p, "request", NoAnswer) IN
  /\ SameAuthority(p) /\ ~Frozen
  /\ Here(p) \notin requests
  /\ \A y \in filed : Key(y) # Key(x)
  /\ Links(run, run.ledger, x)

\* The request file, its record and the head in run.json are written under one
\* lock; after a death only the first `cut' of them are there.
PublishRequest(p, cut) ==
  /\ runner[p].at = "request"
  /\ Len(run.ledger) < MaxRecords
  /\ MayRequest(p)
  /\ requests' = IF cut >= 1 THEN requests \cup {Here(p)} ELSE requests
  /\ filed' = IF cut >= 2 THEN filed \cup {Record(p, "request", NoAnswer)} ELSE filed
  /\ run' = IF cut = 3 THEN [run EXCEPT !.ledger = Append(@, Record(p, "request", NoAnswer))]
            ELSE run
  /\ IF cut = 3
       THEN /\ runner' = [runner EXCEPT ![p] = [@ EXCEPT !.at = "ask", !.view = View(run')]]
            /\ UNCHANGED faults
       ELSE Leave(p) /\ faults < MaxFaults /\ faults' = faults + 1
  /\ UNCHANGED <<responses, expansions, prompts, revisions>>

Answered(c) == \E f \in responses : f.to = c

OpenRequest(p) ==
  /\ run.ledger # << >>
  /\ Last(run.ledger).phase = "request" /\ Coordinate(Last(run.ledger)) = Here(p)

\* Defective variant: the response file is not looked for.
MayAskAgain(p) == SameAuthority(p) /\ OpenRequest(p)

\* reauthenticate_provider_call_commitment; the lock is released before the call.
MayAsk(p) == SameAuthority(p) /\ OpenRequest(p) /\ ~Answered(Here(p))

Ask(p) ==
  /\ runner[p].at = "ask"
  /\ MayAsk(p)
  /\ Goto(p, "call")
  /\ UNCHANGED <<run, files, revisions, faults>>

ResponseFile(p, a) == [to |-> Here(p), answer |-> a]

\* Defective variant: a response file is replaced.
MayOverwrite(p, a) == OpenRequest(p)

\* An existing file has to hold the same bytes; a new one consumes the slot that
\* was reserved for the request at the head.
MayRespond(p, a) ==
  IF Answered(Here(p)) THEN ResponseFile(p, a) \in responses ELSE OpenRequest(p)

\* The provider answers.
WriteResponse(p, a) ==
  /\ runner[p].at = "call"
  /\ MayRespond(p, a)
  /\ responses' = {f \in responses : f.to # Here(p)} \cup {ResponseFile(p, a)}
  /\ runner' = [runner EXCEPT ![p] = [@ EXCEPT !.at = "stage", !.answer = a]]
  /\ UNCHANGED <<run, requests, filed, expansions, prompts, revisions, faults>>

Response(p) == Record(p, "response", runner[p].answer)

MayStage(p) ==
  IF \E y \in filed : Key(y) = Key(Response(p))
    THEN /\ Response(p) \in filed
         /\ \A i \in DOMAIN run.ledger : run.ledger[i] = Response(p) => i = Len(run.ledger)
    ELSE OpenRequest(p)

StageResponse(p) ==
  /\ runner[p].at = "stage"
  /\ MayStage(p)
  /\ filed' = filed \cup {Response(p)}
  /\ Goto(p, "bind")
  /\ UNCHANGED <<run, requests, responses, expansions, prompts, revisions, faults>>

IsHead(x) == run.ledger # << >> /\ Last(run.ledger) = x

MayBind(p) ==
  /\ ~Frozen
  /\ IsHead(Response(p)) \/ Links(run, run.ledger, Response(p))

BindResponse(p) ==
  /\ runner[p].at = "bind"
  /\ MayBind(p)
  /\ run' = IF IsHead(Response(p)) THEN run
            ELSE [run EXCEPT !.ledger = Append(@, Response(p))]
  /\ runner' = [runner EXCEPT ![p] = [@ EXCEPT !.at = "decide", !.view = View(run')]]
  /\ UNCHANGED <<files, revisions, faults>>

-----------------------------------------------------------------------------
(* What follows from a response.                                           *)

\* Defective variant: a step that is denied context counts as done.
EndingDenied(p) ==
  IF runner[p].answer \in {"advance", "context"} THEN "completed" ELSE "failed"

Ending(p) ==
  CASE runner[p].answer = "advance" -> "completed"
    [] runner[p].answer \in {"gated", "stop", "context"} -> "blocked"
    [] OTHER -> "failed"

Repairs(p) == runner[p].answer = "malformed" /\ runner[p].kind # "repair"

WantsContext(p) ==
  runner[p].answer = "context" /\ ~CapReached(runner[p].view.ledger, runner[p].run.step)

\* The next request of the attempt.
NextRequest(p, kind, round) ==
  [at |-> "request", run |-> runner[p].run, view |-> runner[p].view,
   attempt |-> runner[p].attempt, index |-> runner[p].index + 1, kind |-> kind,
   round |-> round, answer |-> NoAnswer]

Repair(p) ==
  /\ runner[p].at = "decide"
  /\ Repairs(p)
  /\ runner' = [runner EXCEPT ![p] = NextRequest(p, "repair", @.round)]
  /\ UNCHANGED <<run, files, revisions, faults>>

\* The expansion is published create-only, without a look at run.json.
Expand(p) ==
  /\ runner[p].at = "decide"
  /\ WantsContext(p)
  /\ expansions' =
       expansions \cup {<<runner[p].run.step, runner[p].attempt, runner[p].round + 1>>}
  /\ runner' = [runner EXCEPT ![p] = NextRequest(p, "context", @.round + 1)]
  /\ UNCHANGED <<run, requests, responses, filed, prompts, revisions, faults>>

Imported(p) == [runner[p].run EXCEPT !.ledger = runner[p].view.ledger]

\* Defective variant: the last step is not told from the others.
FinishedPastTheLast(p, ending) ==
  IF ending # "completed" THEN [Imported(p) EXCEPT !.status = ending]
  ELSE [Imported(p) EXCEPT !.step = @ + 1, !.status = "pending"]

Finished(p, ending) ==
  LET here == Imported(p) IN
  IF ending # "completed" THEN [here EXCEPT !.status = ending]
  ELSE IF here.step = LastStep THEN [here EXCEPT !.status = "review"]
  ELSE [here EXCEPT !.step = @ + 1, !.status = "pending"]

\* finish_step and its publication; the step is left for the next one.
Finish(p, ending) ==
  LET finished == Finished(p, ending) IN
  /\ IsPrefix(runner[p].run.ledger, runner[p].view.ledger)
  /\ MayPublish(Imported(p), finished)
  /\ run' = finished
  /\ IF finished.status = "pending"
       THEN runner' = [runner EXCEPT ![p] = Ready(finished, 0)]
       ELSE Leave(p)
  /\ UNCHANGED <<files, revisions>>

Decide(p) ==
  /\ runner[p].at = "decide"
  /\ ~Repairs(p) /\ ~WantsContext(p)
  /\ Finish(p, Ending(p))
  /\ UNCHANGED faults

\* Reading the evidence for an expansion fails; the step fails with it.
ExpansionFails(p) ==
  /\ runner[p].at = "decide"
  /\ WantsContext(p)
  /\ faults < MaxFaults /\ faults' = faults + 1
  /\ Finish(p, "failed")

-----------------------------------------------------------------------------
(* Revision of a provider step, refusals and deaths.                       *)

Eligible(s) ==
  IF run.status \in {"blocked", "failed"}
    THEN IF run.step <= Development THEN s <= run.step ELSE s = LastStep
    ELSE run.status = "review" /\ s = LastStep

SourceAttempt(s) ==
  {a \in AttemptsOf(run.ledger, s) :
     /\ a = LastAttempt(run.ledger, s) /\ a = LastPrompt(s)
     /\ \E i \in DOMAIN run.ledger :
          /\ run.ledger[i].step = s /\ run.ledger[i].attempt = a
          /\ run.ledger[i].phase = "response"}

Revise(s) ==
  /\ Eligible(s)
  /\ run.ledger \in Reconciled
  /\ run.revision # 0 => Consumed(run.ledger, run.revision)
  /\ \E a \in SourceAttempt(s) :
       /\ a < MaxAttempt
       /\ revisions' = Append(revisions, [step |-> s, attempt |-> a + 1, base |-> run.ledger])
  /\ run' = [run EXCEPT !.step = s, !.status = "pending", !.revision = Len(revisions')]
  /\ UNCHANGED <<files, runner, faults>>

\* A command that is refused where it stands returns its error.
Refused(p) ==
  CASE runner[p].at = "request" -> ~MayRequest(p)
    [] runner[p].at = "ask" -> ~MayAsk(p)
    [] runner[p].at = "call" -> \E a \in Answers : ~MayRespond(p, a)
    [] runner[p].at = "stage" -> ~MayStage(p)
    [] runner[p].at = "bind" -> ~MayBind(p)
    [] runner[p].at = "ready" -> ~MayPublish(runner[p].run, Marked(p))
    [] runner[p].at = "decide" -> ~MayPublish(Imported(p), Finished(p, Ending(p)))
    [] OTHER -> FALSE

Refuse(p) ==
  /\ Refused(p)
  /\ Leave(p)
  /\ UNCHANGED <<run, files, revisions, faults>>

Die(p) ==
  /\ runner[p].at # "idle"
  /\ faults < MaxFaults /\ faults' = faults + 1
  /\ Leave(p)
  /\ UNCHANGED <<run, files, revisions>>

-----------------------------------------------------------------------------
Exchange(p) ==
  \/ \E cut \in 0 .. 3 : PublishRequest(p, cut)
  \/ Ask(p)
  \/ \E a \in Answers : WriteResponse(p, a)
  \/ StageResponse(p) \/ BindResponse(p)

Step(p) ==
  \/ Resume(p) \/ Rerun(p) \/ MarkRunning(p) \/ WritePrompt(p)
  \/ Exchange(p)
  \/ Repair(p) \/ Expand(p) \/ Decide(p) \/ ExpansionFails(p)
  \/ Refuse(p) \/ Die(p)

Next == (\E p \in Runners : Step(p)) \/ (\E s \in Steps : Revise(s))

Spec == Init /\ [][Next]_vars

-----------------------------------------------------------------------------
(* Properties.                                                             *)

Records ==
  [step : Steps, attempt : 1 .. MaxAttempt, index : Nat \ {0}, kind : Kinds, round : Nat,
   phase : Phases, answer : Answers \cup {NoAnswer},
   prev : {NoRecord} \cup (Steps \X (1 .. MaxAttempt) \X (Nat \ {0}) \X Phases)]

Coordinates == [step : Steps, attempt : 1 .. MaxAttempt, index : Nat \ {0}]

Runs == [ledger : Seq(Records), step : Steps,
         status : {"pending", "running", "blocked", "failed", "review"}, revision : Nat]

Revisions == [step : Steps, attempt : 1 .. MaxAttempt, base : Seq(Records)]

Points == {"idle", "ready", "marked", "request", "ask", "call", "stage",
           "bind", "decide"}

Progress == [at : Points, run : Runs, view : [ledger : Seq(Records), revision : Nat],
             attempt : 0 .. MaxAttempt, index : Nat, kind : Kinds, round : Nat,
             answer : Answers \cup {NoAnswer}]

TypeOK ==
  /\ run \in Runs /\ run.revision <= Len(revisions)
  /\ requests \subseteq Coordinates
  /\ responses \subseteq [to : Coordinates, answer : Answers]
  /\ filed \subseteq Records
  /\ expansions \subseteq Steps \X (1 .. MaxAttempt) \X Nat
  /\ prompts \subseteq Steps \X (1 .. MaxAttempt)
  /\ revisions \in Seq(Revisions)
  /\ runner \in [Runners -> Progress]
  /\ faults \in 0 .. MaxFaults

\* The evidence of every ledgered record is on disk: its own file, its request, its
\* expansion and, for a response, exactly the answer it was classified by.
EvidenceIsBound ==
  \A i \in DOMAIN run.ledger :
    LET x == run.ledger[i] IN
    /\ x \in filed /\ Coordinate(x) \in requests
    /\ x.round > 0 => <<x.step, x.attempt, x.round>> \in expansions
    /\ x.phase = "response" =>
         {f \in responses : f.to = Coordinate(x)} = {[to |-> Coordinate(x), answer |-> x.answer]}

\* Every step the run is past was ended by the approving answer that is the last one
\* of the step in the ledger, whoever published the transition.
Ended(led, s) ==
  LET here == {i \in DOMAIN led : led[i].step = s} IN
  /\ here # {}
  /\ led[Highest(here)].phase = "response" /\ led[Highest(here)].answer = "advance"

ProgressIsLedgered ==
  \A s \in Steps : s < run.step \/ run.status = "review" => Ended(run.ledger, s)

\* Revisions do not reset the context rounds of a step or of the run.
CapsHold ==
  /\ Rounds(run.ledger, Steps) <= RunRounds
  /\ \A s \in Steps : Rounds(run.ledger, {s}) <= StepRounds

\* Steps are passed by their answers, in a bounded number of context rounds.
ProgressIsBounded == ProgressIsLedgered /\ CapsHold

\* Nothing but a death or an I/O failure leaves evidence that no record binds, and
\* with it a run that no command can go on with.
OrphansNeedAFault ==
  faults = 0 /\ (\A p \in Runners : runner[p].at = "idle") => run.ledger \in Reconciled

\* What is on disk and what run.json names go together, both ways.
EvidenceIsLedgered == EvidenceIsBound /\ OrphansNeedAFault

\* A provider is never asked again for what is already answered on disk, by
\* whichever process.
AskedUnanswered ==
  [][\A p \in Runners :
       runner'[p].at = "call" /\ runner[p].at # "call" => ~Answered(Here(p))]_vars

(* The inductive invariant.                                                *)

Exchanging == {"request", "ask", "call", "stage", "bind", "decide"}

Expanded(s, a, n) == n > 0 => <<s, a, n>> \in expansions

\* What a runner goes by is on disk: the ledger it saw, the expansion of its round,
\* the answer it got, and a context round was open when it asked for it.
RunnerFact(p) ==
  LET r == runner[p] IN
  /\ r.at \notin {"idle", "ready"} => r.attempt # 0
  /\ r.at \in Exchanging => r.index # 0 /\ Expanded(r.run.step, r.attempt, r.round)
  /\ \A i \in DOMAIN r.view.ledger : r.view.ledger[i] \in filed
  /\ r.at = "request" /\ r.kind = "context" => ~CapReached(r.view.ledger, r.run.step)
  /\ r.at \in {"stage", "bind"} => ResponseFile(p, r.answer) \in responses
  /\ r.at = "bind" => Response(p) \in filed

\* Requests and their responses take turns and each names the one before it.
LedgerOK ==
  /\ \A i \in DOMAIN run.ledger :
       LET x == run.ledger[i] IN
       /\ x \in filed
       /\ x.phase = "request" <=> i % 2 = 1
       /\ i > 1 => x.prev = Key(run.ledger[i - 1])
       /\ x.phase = "response" => Coordinate(x) = Coordinate(run.ledger[i - 1])
  /\ IsInjective(run.ledger)

\* A staged request follows a record that is in the ledger, which had a context round
\* left there if it takes one.
Follows(x) ==
  \/ x.prev = NoRecord
  \/ \E n \in DOMAIN run.ledger :
       /\ Key(run.ledger[n]) = x.prev
       /\ x.kind = "context" => ~CapReached(SubSeq(run.ledger, 1, n), x.step)

\* A staged response answers a request that is in the ledger.
AnswersRequest(x) ==
  /\ [to |-> Coordinate(x), answer |-> x.answer] \in responses
  /\ \E i \in DOMAIN run.ledger :
       run.ledger[i].phase = "request" /\ Coordinate(run.ledger[i]) = Coordinate(x)

FiledFact(x) ==
  /\ Expanded(x.step, x.attempt, x.round)
  /\ x.phase = "request" => Coordinate(x) \in requests /\ Follows(x)
  /\ x.phase = "response" => AnswersRequest(x)

FiledOK ==
  /\ IsFiniteSet(filed)
  /\ \A x, y \in filed : Key(x) = Key(y) => x = y
  /\ \A x \in filed : FiledFact(x)

OneAnswer == \A f, g \in responses : f.to = g.to => f = g

\* IInv says what the ledger, its files and the runners have to do with each other.
IInv ==
  /\ TypeOK
  /\ \A p \in Runners : RunnerFact(p)
  /\ LedgerOK /\ FiledOK /\ OneAnswer /\ CapsHold

\* The run is at most one step past the last record and waits for review at the end.
StepOK ==
  /\ IF run.ledger = << >> THEN run.step = 1 ELSE run.step <= Last(run.ledger).step + 1
  /\ run.status = "review" => run.step = LastStep

\* A run that has passed Development does not come back, so that there is nothing of
\* the steps after the one it is at.
ReachedFact(x) ==
  /\ x.step <= run.step \/ x.step <= Development
  /\ <<x.step, x.attempt>> \in prompts
  /\ x.phase = "request" => x.answer = NoAnswer

\* A revision opens an attempt that its ledger does not have.
RevisedFact(r) == \A i \in DOMAIN r.base : r.base[i].step = r.step => r.base[i].attempt < r.attempt

\* The attempt a runner continues is the last thing in the ledger it saw, or not in
\* it; what it decides on is the last answer; unless the run was revised, the run is
\* not behind a runner that opens an attempt.
ContinuesFact(p) ==
  LET r == runner[p]
      led == r.view.ledger
      group == Group(led, r.run.step, r.attempt)
  IN
  /\ r.view.revision <= Len(revisions)
  /\ r.at \in Exchanging => <<r.run.step, r.attempt>> \in prompts
  /\ r.at \in {"ready", "marked"} /\ r.attempt # 0 => group = {} \/ Len(led) \in group
  /\ r.at = "decide" =>
       /\ led # << >>
       /\ Last(led).step = r.run.step /\ Last(led).phase = "response"
       /\ Last(led).answer = r.answer
  /\ /\ r.at \in {"ready", "marked"} \/ (r.at = "request" /\ r.kind = "initial")
     /\ r.view.revision = run.revision
     => r.run.step <= run.step

\* PInv says how far the run is.
PInv ==
  /\ ProgressIsLedgered /\ StepOK
  /\ \A x \in filed : ReachedFact(x)
  /\ \A i \in DOMAIN revisions : RevisedFact(revisions[i])
  /\ \A p \in Runners : ContinuesFact(p)

\* The last response ends its attempt: it neither calls for a repair nor for context.
Settled(led) ==
  /\ led # << >> /\ Last(led).phase = "response"
  /\ Last(led).answer = "malformed" => Last(led).kind = "repair"
  /\ Last(led).answer = "context" => CapReached(led, Last(led).step)

\* The indices of an attempt do not go back, its rounds are counted, and an open
\* context round is followed by its request.
OrderedAt(led, n) ==
  LET x == led[n]
      now == SubSeq(led, 1, n)
  IN
  /\ \A i \in Group(now, x.step, x.attempt) : now[i].index <= x.index
  /\ x.round = AttemptRounds(now, x.step, x.attempt)
  /\ n < Len(led) /\ x.answer = "context" /\ ~CapReached(now, x.step) =>
       LET y == led[n + 1] IN
       y.step = x.step /\ y.attempt = x.attempt /\ y.round = x.round + 1

InOrder == \A n \in DOMAIN run.ledger : OrderedAt(run.ledger, n)

\* A revision starts from an attempt that has ended, and the next request is its own.
RevisionOK(n) ==
  LET base == revisions[n].base IN
  /\ IsPrefix(base, run.ledger) /\ Settled(base)
  /\ Consumed(run.ledger, n) \/ (n = Len(revisions) /\ base = run.ledger)

StoppedOK ==
  run.status \in {"blocked", "failed", "review"} =>
    /\ Settled(run.ledger)
    /\ run.status # "review" => run.step = Last(run.ledger).step

Pending(led) == run.revision # 0 /\ led = revisions[run.revision].base

\* A runner that goes on with an attempt goes on with the last record it saw; one that
\* has seen a pending revision opens the attempt of the revision.
GoesOn(p) ==
  LET r == runner[p]
      led == r.view.ledger
      last == Last(led)
  IN
  /\ IsPrefix(led, run.ledger)
  /\ r.at \in {"ready", "marked"} => r.view.revision = r.run.revision
  /\ r.run.revision <= Len(revisions)
  /\ r.run.revision # 0 => Len(revisions[r.run.revision].base) <= Len(led)
  /\ r.at # "idle" /\ led = run.ledger => r.view.revision = run.revision \/ Settled(led)
  /\ r.at \in {"ask", "call", "stage", "bind", "decide"} =>
       /\ led # << >> /\ Coordinate(last) = Here(p)
       /\ last.kind = r.kind /\ last.round = r.round
       /\ last.phase = IF r.at = "decide" THEN "response" ELSE "request"
  /\ r.at = "request" /\ r.kind = "initial" => r.index = 1 /\ r.round = 0
  /\ r.at = "request" /\ r.kind = "context" =>
       /\ led # << >> /\ last.phase = "response" /\ last.answer = "context"
       /\ last.step = r.run.step /\ last.attempt = r.attempt
       /\ r.index = last.index + 1 /\ r.round = last.round + 1
  /\ r.at \in {"ready", "marked", "request"} /\ Pending(led) /\ r.view.revision = run.revision =>
       /\ r.run.step = revisions[run.revision].step
       /\ r.attempt = revisions[run.revision].attempt
       /\ r.at = "request" => r.index = 1
  /\ r.at = "decide" /\ Pending(led) => r.run.revision # run.revision

\* What no record binds belongs to a runner that is about to bind it, and can.
RequestsBound == \A c \in requests : \E i \in DOMAIN run.ledger :
  run.ledger[i].phase = "request" /\ Coordinate(run.ledger[i]) = c

Staged(p) == runner[p].at = "bind" /\ OpenRequest(p)
RecordsHeld == \A x \in Unreferenced : \E p \in Runners : Staged(p) /\ x = Response(p)

ResponseBound(f) == \E i \in DOMAIN run.ledger :
  run.ledger[i].phase = "response" /\ Coordinate(run.ledger[i]) = f.to
Responding(p, f) == runner[p].at \in {"stage", "bind"} /\ OpenRequest(p) /\ Here(p) = f.to
ResponsesHeld ==
  \A f \in responses : ResponseBound(f) \/ \E p \in Runners : Responding(p, f)

ExpansionBound(e) == \E i \in DOMAIN run.ledger :
  <<run.ledger[i].step, run.ledger[i].attempt, run.ledger[i].round>> = e
Expanding(p, e) ==
  /\ runner[p].at = "request" /\ runner[p].kind = "context" /\ SameAuthority(p)
  /\ <<runner[p].run.step, runner[p].attempt, runner[p].round>> = e
ExpansionsHeld ==
  \A e \in expansions : ExpansionBound(e) \/ \E p \in Runners : Expanding(p, e)

Held ==
  /\ InOrder /\ StoppedOK
  /\ run.revision = Len(revisions) /\ \A n \in DOMAIN revisions : RevisionOK(n)
  /\ \A p \in Runners : GoesOn(p)
  /\ RequestsBound /\ RecordsHeld /\ ResponsesHeld /\ ExpansionsHeld

\* HInv says who holds what no record binds, as long as nothing has failed.
HInv == faults = 0 => Held

-----------------------------------------------------------------------------
\* The ledger in run.json, seen as the log of questions and answers.
Questions(led) ==
  [n \in 1 .. (Len(led) + 1) \div 2 |->
     [step |-> led[2 * n - 1].step, attempt |-> led[2 * n - 1].attempt,
      answer |-> IF 2 * n <= Len(led) THEN led[2 * n].answer ELSE "open"]]

Log == INSTANCE ExchangeLog
         WITH Attempts <- 1 .. MaxAttempt, Open <- "open", log <- Questions(run.ledger)

\* No exchange is lost, replaced or answered twice, whichever process writes run.json
\* from whichever copy and wherever it dies.
IsExchangeLog == Log!Spec

=============================================================================
