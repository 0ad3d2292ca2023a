------------------------------ MODULE Retention ------------------------------
(***************************************************************************)
(* `loop purge`: one batch after another, each of at most one run.  A      *)
(* batch publishes a create-only intent that binds the decision, renames   *)
(* the run to its tombstone, removes it part by part, replaces the audit   *)
(* result by rename and removes the intent.  A purge that finds an intent  *)
(* resumes it, whoever left it.                                            *)
(*                                                                         *)
(* An inventory is one step, though it reads one run after another: the    *)
(* runs it may select are locked while it runs.                            *)
(***************************************************************************)
EXTENDS RunsRoot

-----------------------------------------------------------------------------
(* The inventory.                                                          *)

Protection(r) ==
  CASE ~source[r].done -> "active"
    [] source[r].done /\ source[r].from # 0 -> "migration evidence"
    [] source[r].done /\ source[r].from = 0 /\ ~Free(source[r].ino) -> "locked"
    [] OTHER -> "eligible"

Managed == {r \in Runs : There(source[r])}
ManagedBytes == Cardinality(Managed)
Eligible == {r \in Managed : Protection(r) = "eligible"}

\* What a report says of a run: its ID, status, updated_at and digests, not its identity.
Summary(t) == [run |-> t.run, edit |-> t.edit, done |-> t.done, from |-> t.from, owner |-> t.owner]

\* The tombstone name hashes the summary and the identity of the directory.
TombstoneName(t) == <<Summary(t), t.ino>>

\* Siblings under other dot names are listed and left alone.
Excluded ==
  ({"staged"} \X {r \in Runs : There(staged[r])}) \cup ({"backup"} \X {r \in Runs : There(backup[r])})
    \cup ({"intent"} \X {r \in Runs : There(pending[r])})

ControlState ==
  [intent |-> There(intent), result |-> There(result), temp |-> There(temp),
   tombs |-> {TombstoneName(t) : t \in tombs}]

Snapshot ==
  [runs |-> {<<Summary(source[r]), Protection(r)>> : r \in Managed},
   excluded |-> Excluded, control |-> ControlState]

ConvergedControlState == [intent |-> FALSE, result |-> TRUE, temp |-> FALSE, tombs |-> {}]

\* A new operation starts from a root without an intent, a temporary or a tombstone.
RootIsClean == ~There(intent) /\ ~There(temp) /\ tombs = {}

Older(r) == {o \in Eligible : source[o].edit < source[r].edit}

\* Oldest first, as many eligible runs as bring the total to the budget.
Surplus(budget) == {r \in Eligible : ManagedBytes - Cardinality(Older(r)) > budget}

\* One run is a batch.
Selection(budget) == {source[r] : r \in {s \in Surplus(budget) : Older(s) = {}}}

-----------------------------------------------------------------------------
(* Intent and result.                                                      *)

AuditDigest(report) == <<report.budget, report.deleted, report.converged>>

PriorDigest(prior) == IF There(prior) THEN AuditDigest(prior) ELSE Nothing

NewIntent(budget, view, chosen, prior) ==
  [budget |-> budget, decision |-> view, selected |-> chosen, prior |-> PriorDigest(prior)]

\* An intent that can be read: canonical, with its digest and the tombstone name it implies.
IntentIsValid == IsRecord(intent) /\ Cardinality(intent.selected) <= 1

\* A pending intent is resumed by a purge with the same budget.
MayResume(budget) == IntentIsValid /\ intent.budget = budget

\* A result that still describes the root is returned as it is.
StillTrue(report) == report.converged = Snapshot

\* An unfinished result is continued.
PriorFor(budget) ==
  IF There(result) /\ result.budget = budget /\ result.more THEN result ELSE Nothing

AlreadyPurged(budget) ==
  There(result) /\ result.budget = budget /\ ~result.more /\ StillTrue(result)

RunsIn(deleted) == {deleted[i].run : i \in DOMAIN deleted}

\* The result of a batch whose intent is still there.
Completes(report, it) == There(report) /\ report.intent = it

CompletesCleanly(report, it) ==
  /\ Completes(report, it)
  /\ Cardinality(RunsIn(report.deleted)) = Len(report.deleted)

\* Defective variant: the deletions of earlier batches are dropped.
DeletedAfresh(it) ==
  IF it.selected = {} THEN <<>> ELSE <<Summary(CHOOSE t \in it.selected : TRUE)>>

\* The cumulative deletions of the operation.
Deleted(it) ==
  (IF There(it.prior) THEN result.deleted ELSE <<>>)
    \o (IF it.selected = {} THEN <<>> ELSE <<Summary(CHOOSE t \in it.selected : TRUE)>>)

\* The prior result an intent was chained to must still be there.
PriorIsThere(it) == There(it.prior) => There(result) /\ AuditDigest(result) = it.prior

Report(it) ==
  [budget |-> it.budget, intent |-> it, deleted |-> Deleted(it),
   converged |-> [Snapshot EXCEPT !.control = ConvergedControlState],
   more |-> ManagedBytes > it.budget /\ Surplus(it.budget) # {}]

-----------------------------------------------------------------------------
(* One batch.                                                              *)

\* The inventory of a new batch keeps the locks of the eligible runs.
Plans(p, budget, prior) ==
  IF RootIsClean
  THEN /\ proc' = [proc EXCEPT ![p] =
                     [at |-> "planned", it |-> NewIntent(budget, Snapshot, Selection(budget), prior)]]
       /\ holder' = (holder \ LocksOf(p)) \cup {<<source[r].ino, p>> : r \in Eligible}
  ELSE Ends(p)

\* A batch: resume the intent, return the result, or start.
Batch(p, budget) ==
  CASE There(intent) /\ MayResume(budget) ->
         proc' = [proc EXCEPT ![p] = [at |-> "resumed", it |-> intent]] /\ UNCHANGED holder
    [] There(intent) /\ ~MayResume(budget) -> Ends(p)
    [] ~There(intent) /\ AlreadyPurged(budget) -> Ends(p)
    [] OTHER -> Plans(p, budget, PriorFor(budget))

\* Purger: a purge is called.
Purge(p, budget) ==
  /\ proc[p] = idle /\ calls < MaxCalls
  /\ calls' = calls + 1
  /\ Batch(p, budget)
  /\ UNCHANGED <<files, clock, deaths, chain>>

\* The selected tree is the one that was decided on, and its tombstone name is free.
SelectionHolds(it) ==
  \A t \in it.selected : source[t.run] = t /\ \A o \in tombs : TombstoneName(o) # TombstoneName(t)

\* Purger: the intent is created and the locks of the other runs are released.
PublishIntent(p) ==
  /\ proc[p].at = "planned"
  /\ LET it == proc[p].it
     IN  IF SelectionHolds(it) /\ ~There(intent)
         THEN /\ intent' = it
              /\ chain' = IF There(it.prior) THEN chain ELSE {}
              /\ holder' = holder \ {h \in LocksOf(p) : h[1] \notin {t.ino : t \in it.selected}}
              /\ Goes(p, "deleting")
         ELSE Ends(p) /\ UNCHANGED <<intent, chain>>
  /\ UNCHANGED <<source, migrationFiles, tombs, result, temp, clock, calls, deaths>>

Entombed(t) == {o \in tombs : TombstoneName(o) = TombstoneName(t)}

\* The identity of the directory, and what its manifest and run.json say.
SameDirectory(o, t) == o.ino = t.ino
Manifest(t) == <<t.edit, t.done, t.from, t.owner, t.parts>>

\* Defective variant: the manifest is not compared.
IsSelectedDirectory(t) == There(source[t.run]) /\ SameDirectory(source[t.run], t)

\* The tree under the name of the run is the one the intent binds.
IsSelected(t) ==
  There(source[t.run]) /\ SameDirectory(source[t.run], t) /\ Manifest(source[t.run]) = Manifest(t)

\* What is left under the tombstone name is part of it.
IsRemainder(o, t) == SameDirectory(o, t) /\ o.parts \subseteq t.parts

\* Its run.json, while there is one, is the selected one.
AuthorityIsSelected(o, t) == "authority" \in o.parts => o.edit = t.edit /\ o.done = t.done

\* Defective variant: a resumed purge does not need the lock.
MayLockAlways(p, n) == TRUE

\* The lock is held since the inventory, or a resumed purge can take it.
MayLock(p, n) == Holds(p, n) \/ (proc[p].at = "resumed" /\ Free(n))

Deleting(p) == proc[p].at \in {"deleting", "resumed"}

\* What is left of the selected run to remove.
Remains(t) == Entombed(t) # {} \/ There(source[t.run])

\* The result of this intent is not there yet, or is not looked at.
NotAdopted(p) == proc[p].at = "resumed" => ~Completes(result, proc[p].it)

\* Purger: the selected run is renamed to its tombstone.
Entomb(p) ==
  /\ Deleting(p) /\ NotAdopted(p)
  /\ \E t \in proc[p].it.selected :
       /\ Entombed(t) = {} /\ IsSelected(t) /\ MayLock(p, t.ino)
       /\ tombs' = tombs \cup {source[t.run]}
       /\ source' = [source EXCEPT ![t.run] = Nothing]
       /\ chain' = chain \cup {source[t.run].edit}
       /\ holder' = holder \cup {<<t.ino, p>>}
  /\ UNCHANGED <<migrationFiles, intent, result, temp, proc, clock, calls, deaths>>

\* Contents first, then run.json, then the lock.
NextPart(o) ==
  CASE "contents" \in o.parts -> "contents"
    [] "contents" \notin o.parts /\ "authority" \in o.parts -> "authority"
    [] OTHER -> "lock"

\* Purger: the next part of the tombstone is removed.
Strip(p) ==
  /\ Deleting(p) /\ NotAdopted(p)
  /\ \E t \in proc[p].it.selected : \E o \in Entombed(t) :
       /\ o.parts # {} /\ MayLock(p, o.ino)
       /\ IsRemainder(o, t) /\ AuthorityIsSelected(o, t)
       /\ tombs' = (tombs \ {o}) \cup {[o EXCEPT !.parts = @ \ {NextPart(o)}]}
       /\ holder' = holder \cup {<<o.ino, p>>}
  /\ UNCHANGED <<source, migrationFiles, intent, result, temp, proc, clock, calls, deaths, chain>>

\* Purger: the empty tombstone is removed, with its lock.
Bury(p) ==
  /\ Deleting(p) /\ NotAdopted(p)
  /\ \E t \in proc[p].it.selected : \E o \in Entombed(t) :
       /\ o.parts = {}
       /\ tombs' = tombs \ {o}
       /\ holder' = holder \ {<<o.ino, p>>}
  /\ UNCHANGED <<source, migrationFiles, intent, result, temp, proc, clock, calls, deaths, chain>>

\* Purger: the selected run is busy, was changed or replaced; the intent stays.
Refuse(p) ==
  /\ Deleting(p) /\ NotAdopted(p)
  /\ \E t \in proc[p].it.selected :
       /\ Remains(t)
       /\ IF Entombed(t) # {} THEN \E o \in Entombed(t) : o.parts # {} /\ ~MayLock(p, o.ino)
          ELSE ~IsSelected(t) \/ ~MayLock(p, t.ino)
  /\ Ends(p)
  /\ UNCHANGED <<files, clock, calls, deaths, chain>>

\* Purger: the selected run is gone; the report is made of a fresh inventory.
Audit(p) ==
  /\ Deleting(p) /\ NotAdopted(p)
  /\ \A t \in proc[p].it.selected : ~Remains(t)
  /\ IF PriorIsThere(proc[p].it)
     THEN /\ proc' = [proc EXCEPT ![p] =
                        [at |-> "audited", it |-> proc[p].it, report |-> Report(proc[p].it)]]
          /\ UNCHANGED holder
     ELSE Ends(p)
  /\ UNCHANGED <<files, clock, calls, deaths, chain>>

\* Purger: the temporary is written, or the one that is there has these very bytes.
WriteTemporary(p) ==
  /\ proc[p].at = "audited"
  /\ IF There(temp) /\ temp # proc[p].report
     THEN Ends(p) /\ UNCHANGED temp
     ELSE temp' = proc[p].report /\ Goes(p, "written") /\ UNCHANGED holder
  /\ UNCHANGED <<source, migrationFiles, tombs, intent, result, clock, calls, deaths, chain>>

\* Purger: the temporary is renamed over the result.
ReplaceResult(p) ==
  /\ proc[p].at = "written"
  /\ IF There(temp)
     THEN result' = temp /\ temp' = Nothing /\ Goes(p, "published") /\ UNCHANGED holder
     ELSE Ends(p) /\ UNCHANGED <<result, temp>>
  /\ UNCHANGED <<source, migrationFiles, tombs, intent, clock, calls, deaths, chain>>

\* Purger: whatever intent is there is removed.
RemoveIntent(p) ==
  /\ proc[p].at = "published"
  /\ intent' = Nothing /\ Goes(p, "checking")
  /\ UNCHANGED <<source, migrationFiles, tombs, result, temp, holder, clock, calls, deaths, chain>>

\* Purger: the root must look as the result says; then the next batch, or the end.
Check(p) ==
  /\ proc[p].at = "checking"
  /\ IF proc[p].report.converged = Snapshot /\ proc[p].report.more
     THEN Batch(p, proc[p].it.budget) ELSE Ends(p)
  /\ UNCHANGED <<files, clock, calls, deaths, chain>>

\* Purger: the result completes the pending intent, which is removed.
Adopt(p) ==
  /\ proc[p].at = "resumed" /\ Completes(result, proc[p].it)
  /\ IF CompletesCleanly(result, proc[p].it)
     THEN /\ intent' = Nothing /\ UNCHANGED holder
          /\ proc' = [proc EXCEPT ![p] = [at |-> "adopted", it |-> proc[p].it, report |-> result]]
     ELSE Ends(p) /\ UNCHANGED intent
  /\ UNCHANGED <<source, migrationFiles, tombs, result, temp, clock, calls, deaths, chain>>

\* Purger: the adopted result still holds, or it is continued.
Continue(p) ==
  /\ proc[p].at = "adopted"
  /\ LET existing == proc[p].report
         budget == proc[p].it.budget
     IN  CASE ~StillTrue(existing) -> Plans(p, budget, existing)
           [] StillTrue(existing) /\ existing.more -> Batch(p, budget)
           [] OTHER -> Ends(p)
  /\ UNCHANGED <<files, clock, calls, deaths, chain>>

\* Purger: it dies, at the worst with a control file created and not written.
PurgerDies(p) ==
  /\ proc[p] # idle /\ deaths < MaxDeaths
  /\ deaths' = deaths + 1
  /\ Ends(p)
  /\ \/ UNCHANGED <<intent, temp>>
     \/ proc[p].at = "planned" /\ ~There(intent) /\ intent' = Torn /\ UNCHANGED temp
     \/ proc[p].at = "audited" /\ ~There(temp) /\ temp' = Torn /\ UNCHANGED intent
  /\ UNCHANGED <<source, migrationFiles, tombs, result, clock, calls, chain>>

Purging ==
  \E p \in Purgers :
    \/ \E b \in Budgets : Purge(p, b)
    \/ PublishIntent(p) \/ Entomb(p) \/ Strip(p) \/ Bury(p) \/ Refuse(p) \/ Audit(p)
    \/ WriteTemporary(p) \/ ReplaceResult(p) \/ RemoveIntent(p) \/ Check(p)
    \/ Adopt(p) \/ Continue(p) \/ PurgerDies(p)
=============================================================================
