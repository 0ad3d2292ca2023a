---------------------------- MODULE RunAuthority ----------------------------
(***************************************************************************)
(* What a publication of run.json demands of the evidence beside it: the   *)
(* provider exchange records and what authorises their attempts, the chain *)
(* of recovery decisions of three schemas, the evaluation attempts, and    *)
(* the relation between the run that is locked and the one intended.       *)
(*                                                                         *)
(* The evidence is a record `files' of                                     *)
(*   evals        the evaluation attempts: the Approved run and the        *)
(*                recovery the intent binds, how far it got, its verdict,  *)
(*                and when its Testing evidence was completed              *)
(*   recoveries   the recovery decisions in the order of their ids, each   *)
(*                with the snapshot of its source run                      *)
(***************************************************************************)
EXTENDS RunContract

Attempts(ledger, s)   == {ledger[i].attempt : i \in {j \in DOMAIN ledger : ledger[j].step = s}}
LastAttempt(ledger, s) ==
  IF Attempts(ledger, s) = {} THEN 0
  ELSE CHOOSE a \in Attempts(ledger, s) : \A b \in Attempts(ledger, s) : b <= a

-----------------------------------------------------------------------------
(* The runs a recovery decision resets to and an adoption finishes.        *)

ResetStep(run, s) == [run EXCEPT !.steps[s] = [st |-> "Pending", art |-> 0]]

EvaluationReset(run) == ResetStep(ResetStep(run, "testing"), "eval_report")

RevisedRun(source, step, id, at) ==
  [source EXCEPT
     !.status = "Pending", !.step = step, !.updated = at, !.recovery = id,
     !.steps = [s \in StepNames |-> IF Position[s] < Position[step] THEN source.steps[s]
                                    ELSE [st |-> "Pending", art |-> 0]],
     !.policy = IF Position[step] <= Position["development"] THEN {} ELSE @,
     !.approval = IF step = "output_review" THEN None ELSE @,
     !.report = IF step = "output_review" THEN 0 ELSE @,
     !.promotion = None]

InvalidatedRun(approved, id, at) ==
  [EvaluationReset(approved) EXCEPT
     !.status = "Approved", !.step = "testing", !.updated = at, !.recovery = id,
     !.report = 0, !.promotion = None]

FinishedRun(approved, passed, attempt, at) ==
  LET verdict == [st |-> IF passed THEN "Passed" ELSE "Failed", art |-> attempt] IN
  [approved EXCEPT
     !.status = IF passed THEN "EvalPassed" ELSE "Failed", !.step = "eval_report",
     !.steps["testing"] = verdict, !.steps["eval_report"] = verdict,
     !.report = attempt, !.updated = at]

AdoptedRun(r, id) ==
  [FinishedRun(r.source, r.passed, r.attempt, r.created) EXCEPT !.recovery = id]

-----------------------------------------------------------------------------
(* The exchange chain and the recovery chain, which authenticate each      *)
(* other: an attempt after the first needs a recovery decision, and a      *)
(* decision is only taken on a run whose exchanges stand.                  *)

\* A revision of this step in the chain, all of it provider revisions, when the
\* chain of the run is sound.
Authorized(run, prefix, e, files, sound) ==
  /\ sound
  /\ \E n \in 1..run.recovery :
       /\ files.recoveries[n].step = e.step /\ files.recoveries[n].next = e.attempt
       /\ \A m \in n..run.recovery : files.recoveries[m].kind = "revise"
       /\ IsPrefix(files.recoveries[n].source.ledger, prefix)

OpensAttempt(run, prefix, e, files, sound) ==
  /\ IsInitialRequest(e)
  /\ IF prefix = <<>>
     THEN e.attempt = 1 \/ Authorized(run, prefix, e, files, sound)
     ELSE /\ Last(prefix).outcome # None
          /\ e.attempt = LastAttempt(prefix, e.step) + 1
          /\ \/ /\ e.step = NextProviderStep(Last(prefix).step)
                /\ Last(prefix).outcome = "advance"
             \/ Authorized(run, prefix, e, files, sound)

ContinuesAttempt(previous, e) ==
  IF e.phase = "response" THEN previous.phase = "request"
  ELSE /\ previous.outcome = "invalid"
       /\ e.kind = "repair" /\ previous.kind # "repair"

LedgerStands(run, files, sound) ==
  \A i \in DOMAIN run.ledger :
    LET prefix == SubSeq(run.ledger, 1, i - 1) IN
    IF OpensGroup(run.ledger, i) THEN OpensAttempt(run, prefix, run.ledger[i], files, sound)
                                 ELSE ContinuesAttempt(Last(prefix), run.ledger[i])

\* The exact run a revision left, that run with its step begun, or one whose
\* ledger goes on with the authorised request.
Descends(run, n, files, sound) ==
  LET r     == files.recoveries[n]
      reset == RevisedRun(r.source, r.step, n, r.created)
      begun == [reset EXCEPT !.status = "Running", !.updated = run.updated,
                             !.steps[r.step].st = "Running"] IN
  /\ ValidRun(run) /\ run.recovery = n
  /\ IsPrefix(r.source.ledger, run.ledger) /\ LedgerStands(run, files, sound)
  /\ \/ run \in {reset, begun}
     \/ /\ Len(run.ledger) > Len(r.source.ledger)
        /\ LET e == run.ledger[Len(r.source.ledger) + 1] IN
           IsInitialRequest(e) /\ Group(e) = <<r.step, r.next>>

RevisionIsConsumed(run, n, files, sound) ==
  LET r == files.recoveries[n] IN
  /\ \E i \in DOMAIN run.ledger :
       /\ IsInitialRequest(run.ledger[i]) /\ Group(run.ledger[i]) = <<r.step, r.next>>
       /\ SubSeq(run.ledger, 1, i - 1) = r.source.ledger
  /\ Descends(run, n, files, sound)

\* An intent of the attempt an invalidation authorised binds the run it left.
InvalidationIsConsumed(run, n, files) ==
  LET r == files.recoveries[n] IN
  /\ run.recovery = n
  /\ r.attempt + 1 <= Len(files.evals)
  /\ files.evals[r.attempt + 1].recovery = n
  /\ files.evals[r.attempt + 1].run = InvalidatedRun(r.approved, n, r.created)

AdoptionIsExact(run, n, files) ==
  run.status = "Failed" /\ run = AdoptedRun(files.recoveries[n], n)

\* What may stand between a decision, itself sound, and the one that follows it.
Consumed(child, n, files) ==
  CASE files.recoveries[n].kind = "revise" -> RevisionIsConsumed(child.source, n, files, TRUE)
    [] files.recoveries[n].kind = "adopt" ->
         child.kind = "invalidate" /\ AdoptionIsExact(child.source, n, files)
    [] OTHER -> child.kind # "revise" /\ InvalidationIsConsumed(child.source, n, files)

\* The attempt a revision repeats is the last of its step, and was answered.
RevisionBinds(r) ==
  LET l == r.source.ledger IN
  /\ r.next = LastAttempt(l, r.step) + 1
  /\ \E i \in DOMAIN l : IsInitialRequest(l[i]) /\ Group(l[i]) = <<r.step, r.next - 1>>
  /\ \E i \in DOMAIN l : l[i].phase = "response" /\ Group(l[i]) = <<r.step, r.next - 1>>

\* An adoption binds the Approved run whose complete attempt it adopts, and whose
\* own chain is sound.
AdoptionBinds(r, files) ==
  /\ r.source.status = "Approved" /\ r.source.step = "testing"
  /\ LedgerStands(r.source, files, TRUE)
  /\ r.attempt <= Len(files.evals)
  /\ LET e == files.evals[r.attempt] IN
     /\ e.run = r.source /\ e.stage \in {"testing", "report"} /\ e.passed = r.passed
     /\ e.recovery = IF r.attempt = 1 THEN 0 ELSE r.source.recovery

\* An invalidation binds an Approved run, or the Failed run that goes back to it.
InvalidationBinds(r, files) ==
  /\ ValidRun(r.approved) /\ r.approved.status = "Approved" /\ r.approved.step = "testing"
  /\ r.source.ledger = r.approved.ledger /\ r.source.cand = r.approved.cand
  /\ \/ r.source = r.approved
     \/ /\ r.source.status = "Failed" /\ r.source.approval # None
        /\ r.source.report = r.attempt /\ r.source.steps["testing"].art = r.attempt
        /\ [EvaluationReset(r.source) EXCEPT
              !.status = "Approved", !.step = "testing", !.updated = r.approved.updated,
              !.report = 0, !.promotion = None, !.recovery = r.approved.recovery] = r.approved
  /\ r.attempt <= Len(files.evals) /\ files.evals[r.attempt].run = r.approved
  /\ r.source.status = "Failed" => files.evals[r.attempt].stage # "intent" /\ ~files.evals[r.attempt].passed

EntryStands(n, files) ==
  LET r == files.recoveries[n] IN
  /\ ValidRun(r.source) /\ r.source.recovery = n - 1
  /\ CASE r.kind = "revise" -> RevisionBinds(r)
       [] r.kind = "adopt"  -> AdoptionBinds(r, files)
       [] OTHER             -> InvalidationBinds(r, files)

\* The decisions 1..n stand, each of them the next after one its source has consumed.
ChainStands(n, files) ==
  \A m \in 1..n : /\ m > 1 => Consumed(files.recoveries[m], m - 1, files)
                  /\ EntryStands(m, files)

-----------------------------------------------------------------------------
(* Final evaluation authority: the Approved run a final one came from.     *)

Evaluated(run) == IF run.status = "Promoted" THEN Predecessor(run) ELSE run

UnrecoveredApproved(run) ==
  [EvaluationReset(run) EXCEPT
     !.status = "Approved", !.step = "testing", !.report = 0, !.updated = run.approval.at,
     !.cand.life = "active", !.cand.started = None, !.cand.cleaned = None]

Kind(run, files) == IF run.recovery = 0 THEN "none" ELSE files.recoveries[run.recovery].kind

\* An adopted failure may be cleaned up, at times that are also its last update.
CleanupMatchesUpdate(run, created) ==
  /\ run.cand.life = "active" => run.updated = created
  /\ run.cand.life \in {"cleaning", "cleaned"} =>
       run.status = "Failed" /\ run.cand.started >= created
  /\ run.cand.life = "cleaning" => run.updated = run.cand.started
  /\ run.cand.life = "cleaned" =>
       run.updated = run.cand.cleaned /\ run.cand.cleaned >= run.cand.started

\* The Approved run behind a final one; None when its recovery is not the one
\* its evidence selects.
ApprovedOf(run, files) ==
  LET n        == run.recovery
      r        == files.recoveries[n]
      approved == UnrecoveredApproved(run)
      source   == IF Kind(run, files) = "adopt" THEN r.source
                  ELSE InvalidatedRun(r.approved, n, r.created) IN
  CASE Kind(run, files) \in {"none", "revise"} -> approved
    [] /\ Kind(run, files) = "adopt"
       /\ run.report = r.attempt
       /\ CleanupMatchesUpdate(run, r.created)
       /\ AdoptedRun(r, n) = [run EXCEPT !.updated = r.created, !.cand.life = "active",
                                        !.cand.started = None, !.cand.cleaned = None]
       /\ source = [approved EXCEPT !.recovery = source.recovery, !.updated = source.updated]
       -> source
    [] /\ Kind(run, files) = "invalidate"
       /\ run.report = r.attempt + 1
       /\ files.evals[run.report].run = source /\ files.evals[run.report].recovery = n
       /\ source = [approved EXCEPT !.recovery = source.recovery, !.updated = source.updated]
       -> source
    [] OTHER -> None

FinalStands(run, files) ==
  LET final == Evaluated(run)
      a     == final.steps["testing"].art IN
  /\ IsFinal(run) /\ ValidRun(run)
  /\ a = final.report /\ a = Len(files.evals) /\ files.evals[a].stage = "report"
  /\ ChainStands(final.recovery, files)
  /\ ApprovedOf(final, files) # None /\ ValidRun(ApprovedOf(final, files))
  /\ files.evals[a].run = ApprovedOf(final, files)
  /\ files.evals[a].passed = (final.status = "EvalPassed")

-----------------------------------------------------------------------------
(* Publication.                                                            *)

\* A run under review carries an authenticated approving answer to the current
\* attempt, and after the approval the evidence it was given on.
ReviewStands(run) ==
  LET last == Last(run.ledger) IN
  /\ last.outcome = "advance"
  /\ last.attempt = LastAttempt(run.ledger, "output_review")
  /\ run.approval # None => run.approval.response.outcome = "advance"

MayStand(run, files) ==
  /\ ValidRun(run)
  /\ LedgerStands(run, files, ChainStands(run.recovery, files))
  /\ (run.status = "AwaitingHumanReview" \/ run.approval # None) => ReviewStands(run)
  /\ IsFinal(run) => FinalStands(run, files)

CleanupIsOrdered(cand, completed) ==
  /\ cand.life # "active" => cand.started >= completed
  /\ cand.life = "cleaned" => cand.cleaned >= cand.started

\* A reported failure only loses its candidate, one stage at a time.
CleanupStep(cur, int) ==
  \/ int = cur
  \/ /\ cur.cand.life = "active" /\ int.cand.life = "cleaning"
     /\ int.updated \in {cur.updated, int.cand.started}
     /\ int = [cur EXCEPT !.cand.life = "cleaning", !.cand.started = int.cand.started,
                          !.updated = int.updated]
  \/ /\ cur.cand.life = "cleaning" /\ int.cand.life = "cleaned"
     /\ int.updated \in {cur.updated, int.cand.cleaned}
     /\ int = [cur EXCEPT !.cand.life = "cleaned", !.cand.cleaned = int.cand.cleaned,
                          !.updated = int.updated]

SameLineage(cur, int, files) ==
  ApprovedOf(Evaluated(cur), files) = ApprovedOf(Evaluated(int), files)

MaySucceed(cur, int, files) ==
  /\ IsFinal(cur) => IsFinal(int)
  /\ IsFinal(int) =>
       /\ MayStand(cur, files) /\ FinalStands(int, files)
       /\ CASE cur.status = "Approved" -> ApprovedOf(int, files) = cur
            [] cur.status = "EvalPassed" ->
                 /\ IF int.status = "Promoted" THEN int.promotion.predecessor = cur
                                               ELSE int = cur
                 /\ SameLineage(cur, int, files)
            [] cur.status = "Promoted" -> int = cur
            [] cur.status = "Failed" /\ cur.approval # None ->
                 /\ int.status = "Failed" /\ SameLineage(cur, int, files)
                 /\ LET completed == files.evals[int.report].at IN
                    CleanupIsOrdered(cur.cand, completed) /\ CleanupIsOrdered(int.cand, completed)
                 /\ CleanupStep(cur, int)
            [] OTHER -> FALSE

\* compare_and_swap_run: the runner's own steps.
PublishesOrdinary(cur, int, files) ==
  /\ cur.recovery = int.recovery /\ cur.ledger = int.ledger /\ cur.cand = int.cand
  /\ ~IsFrozen(cur) /\ ~IsFrozen(int)
  /\ MaySucceed(cur, int, files) /\ MayStand(int, files)

\* persist_run_with_full_compare: everything but a recovery.
PublishesFull(cur, int, files) ==
  cur.recovery = int.recovery /\ MaySucceed(cur, int, files) /\ MayStand(int, files)

\* The three writers that may move latest_recovery.
PublishesRevision(cur, int, files) ==
  /\ int.status = "Pending" /\ cur.ledger = int.ledger /\ cur.cand = int.cand
  /\ MaySucceed(cur, int, files) /\ MayStand(int, files)

PublishesAdoption(cur, int, files) ==
  /\ cur.status = "Approved" /\ cur.step = "testing" /\ int.recovery = cur.recovery + 1
  /\ files.recoveries[int.recovery].source = cur
  /\ ChainStands(int.recovery, files)
  /\ MaySucceed(cur, int, files) /\ MayStand(int, files)

\* Defective variant: the run an invalidation restores is not authenticated.
PublishesInvalidationUnread(cur, int, files) ==
  int.status = "Approved" /\ int.recovery = cur.recovery + 1

PublishesInvalidation(cur, int, files) ==
  /\ int.status = "Approved" /\ int.step = "testing" /\ int.report = 0
  /\ int.recovery = cur.recovery + 1
  /\ files.recoveries[int.recovery].source = cur
  /\ ChainStands(int.recovery, files)
  /\ MayStand(int, files)
=============================================================================
