------------------------------ MODULE Migration ------------------------------
(***************************************************************************)
(* `loop migrate`: a v0 run is copied beside itself, the copy is rewritten *)
(* and authenticated, the run is renamed to its backup and the copy to the *)
(* run.  An intent that binds the source digest and the token of the       *)
(* staged tree is there from before the copy until after the renames; what *)
(* the four names show decides how an interrupted migration goes on.       *)
(***************************************************************************)
EXTENDS RunsRoot

Shape(r) == <<There(source[r]), There(staged[r]), There(backup[r]), There(pending[r])>>

\* The lock is taken on the run, or on its backup when the run is not there.
Selected(r) == IF There(source[r]) THEN source[r] ELSE backup[r]

\* The tree under the name is the one whose lock the command holds.
Guarded(p, t) == There(t) /\ Holds(p, t.ino)

\* What the inventory of a tree tells apart: every path, its kind, length and digest.
Contents(t) == <<t.edit, t.done, t.legacy, t.from, t.owner, t.parts>>

\* The migrated tree: rewritten, with the result and the marker.
Projected(t, token) == Contents([t EXCEPT !.legacy = FALSE, !.from = t.edit, !.owner = token])

\* An intent is bound to the tree by the digests of run.json and of the whole tree.
Bound(it, t) == IsRecord(it) /\ it.source = Contents(t)

Owned(t, it) == t.owner = it.token

\* The run and its artifacts are current, and made from the source the intent binds.
IsCurrent(t) == t.parts = Parts /\ ~t.legacy
MadeFrom(t, digest) == t.from # 0 /\ t.from = digest

\* Defective variant: what the copy holds is not authenticated.
IsMigratedLoosely(t, it) == Owned(t, it) /\ ~t.legacy

\* The staged tree is the projected one.
IsMigrated(t, it) ==
  Owned(t, it) /\ IsCurrent(t) /\ MadeFrom(t, it.digest) /\ Contents(t) = it.projected

\* The artifacts differ only where the migration wrote: nothing has been added since.
SameArtifacts(t, original) == t.edit = original.edit /\ original.from = 0 /\ original.owner = 0

\* A completed migration: the backup is the source of the run, which has not changed since.
IsCompleted(t, original) ==
  IsCurrent(t) /\ MadeFrom(t, original.edit) /\ SameArtifacts(t, original)

\* The same with its intent; a marker that is gone already is thought back.
IsCompletedAs(t, original, it) ==
  /\ IsCompleted(t, original) /\ MadeFrom(t, it.digest)
  /\ Contents([t EXCEPT !.owner = it.token]) = it.projected

\* Neither reserved path is taken.
CleanSource(t) == t.from = 0 /\ t.owner = 0

\* Migrator: a migration is called; a busy run is refused.
Migrate(p, r) ==
  /\ proc[p] = idle /\ calls < MaxCalls
  /\ There(Selected(r)) /\ Free(Selected(r).ino)
  /\ calls' = calls + 1
  /\ holder' = holder \cup {<<Selected(r).ino, p>>}
  /\ proc' = [proc EXCEPT ![p] = [at |-> "found", run |-> r]]
  /\ UNCHANGED <<files, clock, deaths, chain>>

At(p, place) == p \in Migrators /\ proc[p].at = place

-----------------------------------------------------------------------------
(* What the four names show.                                               *)

\* Nothing is under way.
IsUntouched(p, r) == Shape(r) = <<TRUE, FALSE, FALSE, FALSE>> /\ Guarded(p, source[r])

\* A migration was completed.
IsSettled(p, r) ==
  /\ Shape(r) = <<TRUE, FALSE, TRUE, FALSE>> /\ Guarded(p, source[r]) /\ Free(backup[r].ino)
  /\ source[r].owner = 0 /\ IsCompleted(source[r], backup[r])

\* An intent without a staged tree.
IsUnstarted(p, r) ==
  /\ Shape(r) = <<TRUE, FALSE, FALSE, TRUE>> /\ Guarded(p, source[r])
  /\ Bound(pending[r], source[r])

\* A staged tree with the marker of the intent.
IsStaged(p, r) ==
  /\ Shape(r) = <<TRUE, TRUE, FALSE, TRUE>> /\ Guarded(p, source[r])
  /\ Bound(pending[r], source[r]) /\ Owned(staged[r], pending[r])

\* The run is its backup already.
IsBacked(p, r) ==
  /\ Shape(r) = <<FALSE, TRUE, TRUE, TRUE>> /\ Guarded(p, backup[r])
  /\ Bound(pending[r], backup[r]) /\ IsMigrated(staged[r], pending[r])

\* Both renames are done.
IsPublished(p, r) ==
  /\ Shape(r) = <<TRUE, FALSE, TRUE, TRUE>> /\ Guarded(p, source[r]) /\ Free(backup[r].ino)
  /\ Bound(pending[r], backup[r])
  /\ source[r].owner = 0 \/ Owned(source[r], pending[r])
  /\ IsCompletedAs(source[r], backup[r], pending[r])

Recoverable(p, r) ==
  \/ IsUntouched(p, r) \/ IsSettled(p, r) \/ IsUnstarted(p, r)
  \/ IsStaged(p, r) \/ IsBacked(p, r) \/ IsPublished(p, r)

-----------------------------------------------------------------------------
(* How an interrupted migration goes on.                                   *)

\* Migrator: there is none, or a completed one is confirmed.
Settle(p) ==
  /\ At(p, "found")
  /\ \/ IsUntouched(p, proc[p].run) /\ Goes(p, "fresh") /\ UNCHANGED holder
     \/ IsSettled(p, proc[p].run) /\ Ends(p)
  /\ UNCHANGED <<files, clock, calls, deaths, chain>>

\* Migrator: the intent is dropped.
DropIntent(p) ==
  /\ At(p, "found") /\ IsUnstarted(p, proc[p].run)
  /\ pending' = [pending EXCEPT ![proc[p].run] = Nothing]
  /\ Goes(p, "fresh")
  /\ UNCHANGED <<source, staged, backup, purgeFiles, holder, clock, calls, deaths>>

\* Migrator: a staged tree that is whole is published.
Resume(p) ==
  /\ At(p, "found")
  /\ LET r == proc[p].run
     IN  /\ IsStaged(p, r) /\ IsMigrated(staged[r], pending[r])
         /\ holder' = holder \cup {<<staged[r].ino, p>>}
  /\ Goes(p, "ready")
  /\ UNCHANGED <<files, clock, calls, deaths, chain>>

\* Migrator: a staged tree that is not is removed, the marker first.
Discard(p) ==
  /\ At(p, "found")
  /\ LET r == proc[p].run
     IN  /\ IsStaged(p, r) /\ ~IsMigrated(staged[r], pending[r])
         /\ staged' = [staged EXCEPT ![r].owner = 0]
  /\ Goes(p, "discarding")
  /\ UNCHANGED <<source, backup, pending, purgeFiles, holder, clock, calls, deaths>>

DiscardRest(p) ==
  /\ At(p, "discarding")
  /\ staged' = [staged EXCEPT ![proc[p].run] = Nothing]
  /\ Goes(p, "discarded")
  /\ UNCHANGED <<source, backup, pending, purgeFiles, holder, clock, calls, deaths>>

DiscardIntent(p) ==
  /\ At(p, "discarded")
  /\ pending' = [pending EXCEPT ![proc[p].run] = Nothing]
  /\ Goes(p, "fresh")
  /\ UNCHANGED <<source, staged, backup, purgeFiles, holder, clock, calls, deaths>>

\* Migrator: the staged tree takes the name of the run.
FinishRename(p) ==
  /\ At(p, "found") /\ IsBacked(p, proc[p].run)
  /\ holder' = holder \cup {<<staged[proc[p].run].ino, p>>}
  /\ Goes(p, "backed")
  /\ UNCHANGED <<files, clock, calls, deaths, chain>>

\* Migrator: marker and intent are removed.
CleanUp(p) ==
  /\ At(p, "found") /\ IsPublished(p, proc[p].run)
  /\ holder' = holder \cup {<<backup[proc[p].run].ino, p>>}
  /\ Goes(p, IF source[proc[p].run].owner = 0 THEN "unmarked" ELSE "published")
  /\ UNCHANGED <<files, clock, calls, deaths, chain>>

\* Migrator: what shows is ambiguous or does not authenticate; it stays as it is.
Ambiguous(p) ==
  /\ At(p, "found") /\ ~Recoverable(p, proc[p].run)
  /\ Ends(p)
  /\ UNCHANGED <<files, clock, calls, deaths, chain>>

-----------------------------------------------------------------------------
(* A migration from its beginning.                                         *)

NewPending(r) ==
  [digest |-> source[r].edit, source |-> Contents(source[r]), token |-> clock + 1,
   projected |-> Projected(source[r], clock + 1)]

\* Migrator: a v0 run is authenticated, planned and bound by a new intent; a v1 run is left alone.
PlanMigration(p) ==
  /\ At(p, "fresh")
  /\ LET r == proc[p].run
     IN  IF /\ source[r].legacy /\ CleanSource(source[r])
            /\ ~There(backup[r]) /\ ~There(pending[r]) /\ clock < MaxClock
         THEN /\ pending' = [pending EXCEPT ![r] = NewPending(r)]
              /\ clock' = clock + 1 /\ Goes(p, "intended") /\ UNCHANGED holder
         ELSE Ends(p) /\ UNCHANGED <<pending, clock>>
  /\ UNCHANGED <<source, staged, backup, purgeFiles, calls, deaths>>

\* Migrator: the staged directory.
MakeStaged(p) ==
  /\ At(p, "intended")
  /\ LET r == proc[p].run
     IN  staged' = [staged EXCEPT ![r] =
                      [source[r] EXCEPT !.ino = pending[r].token, !.parts = {}]]
  /\ Goes(p, "made")
  /\ UNCHANGED <<source, backup, pending, purgeFiles, holder, clock, calls, deaths>>

\* Migrator: the ownership marker is its first file.
MarkStaged(p) ==
  /\ At(p, "made")
  /\ staged' = [staged EXCEPT ![proc[p].run].owner = pending[proc[p].run].token]
  /\ Goes(p, "marked")
  /\ UNCHANGED <<source, backup, pending, purgeFiles, holder, clock, calls, deaths>>

\* Migrator: the entries are copied one after another; then the copy is locked.
CopyEntries(p) ==
  /\ At(p, "marked")
  /\ LET r == proc[p].run
         rest == Parts \ staged[r].parts
     IN  IF rest = {}
         THEN /\ holder' = holder \cup {<<staged[r].ino, p>>}
              /\ Goes(p, "copied") /\ UNCHANGED staged
         ELSE /\ staged' = [staged EXCEPT ![r].parts =
                              @ \cup {IF "contents" \in rest THEN "contents" ELSE CHOOSE x \in rest : TRUE}]
              /\ UNCHANGED <<holder, proc>>
  /\ UNCHANGED <<source, backup, pending, purgeFiles, clock, calls, deaths>>

\* Migrator: the planned bytes replace the legacy ones.
Rewrite(p) ==
  /\ At(p, "copied")
  /\ staged' = [staged EXCEPT ![proc[p].run].legacy = FALSE]
  /\ Goes(p, "rewritten")
  /\ UNCHANGED <<source, backup, pending, purgeFiles, holder, clock, calls, deaths>>

\* Migrator: the result file completes the copy, which is authenticated.
Conclude(p) ==
  /\ At(p, "rewritten")
  /\ staged' = [staged EXCEPT ![proc[p].run].from = pending[proc[p].run].digest]
  /\ Goes(p, "ready")
  /\ UNCHANGED <<source, backup, pending, purgeFiles, holder, clock, calls, deaths>>

\* Migrator: the first rename.
PublishBackup(p) ==
  /\ At(p, "ready")
  /\ LET r == proc[p].run
     IN  /\ Guarded(p, source[r])
         /\ backup' = [backup EXCEPT ![r] = source[r]]
         /\ source' = [source EXCEPT ![r] = Nothing]
  /\ Goes(p, "backed")
  /\ UNCHANGED <<staged, pending, purgeFiles, holder, clock, calls, deaths>>

\* Migrator: the second rename; it fails on a name that was taken in between.
PublishMigrated(p) ==
  /\ At(p, "backed")
  /\ LET r == proc[p].run
     IN  IF There(source[r])
         THEN Ends(p) /\ UNCHANGED <<source, staged>>
         ELSE /\ source' = [source EXCEPT ![r] = staged[r]]
              /\ staged' = [staged EXCEPT ![r] = Nothing]
              /\ Goes(p, "published") /\ UNCHANGED holder
  /\ UNCHANGED <<backup, pending, purgeFiles, clock, calls, deaths>>

\* Migrator: the marker is removed, then the intent.
RemoveMarker(p) ==
  /\ At(p, "published")
  /\ source' = [source EXCEPT ![proc[p].run].owner = 0]
  /\ Goes(p, "unmarked")
  /\ UNCHANGED <<staged, backup, pending, purgeFiles, holder, clock, calls, deaths>>

RemovePending(p) ==
  /\ At(p, "unmarked")
  /\ pending' = [pending EXCEPT ![proc[p].run] = Nothing]
  /\ Ends(p)
  /\ UNCHANGED <<source, staged, backup, purgeFiles, clock, calls, deaths>>

\* Migrator: it dies, at the worst with an intent created and not written.  A torn
\* marker is refused like a missing one.
MigratorDies(p) ==
  /\ proc[p] # idle /\ deaths < MaxDeaths
  /\ deaths' = deaths + 1
  /\ Ends(p)
  /\ \/ UNCHANGED pending
     \/ /\ At(p, "fresh") /\ source[proc[p].run].legacy /\ ~There(pending[proc[p].run])
        /\ pending' = [pending EXCEPT ![proc[p].run] = Torn]
  /\ UNCHANGED <<source, staged, backup, purgeFiles, clock, calls>>

Migrating ==
  \E p \in Migrators :
    \/ \E r \in Runs : Migrate(p, r)
    \/ Settle(p) \/ DropIntent(p) \/ Resume(p) \/ Discard(p) \/ DiscardRest(p) \/ DiscardIntent(p)
    \/ FinishRename(p) \/ CleanUp(p) \/ Ambiguous(p) \/ PlanMigration(p)
    \/ MakeStaged(p) \/ MarkStaged(p) \/ CopyEntries(p) \/ Rewrite(p) \/ Conclude(p)
    \/ PublishBackup(p) \/ PublishMigrated(p) \/ RemoveMarker(p) \/ RemovePending(p)
    \/ MigratorDies(p)
=============================================================================
