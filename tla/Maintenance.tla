----------------------------- MODULE Maintenance -----------------------------
(***************************************************************************)
(* The runs root with everything that works on it: the commands that write *)
(* runs, `loop purge` and `loop migrate`.  Only the locks of the runs, the *)
(* dot names and the migration result keep them apart.                     *)
(***************************************************************************)
EXTENDS Retention, Migration

Next == Worker \/ Purging \/ Migrating

Spec == Init /\ [][Next]_vars

-----------------------------------------------------------------------------
(* The values of the variables.                                            *)

Tree ==
  [run : Runs, ino : Int, edit : 0 .. MaxClock, done : BOOLEAN, legacy : BOOLEAN,
   from : 0 .. MaxClock, owner : 0 .. MaxClock, parts : SUBSET Parts]

\* What Contents tells of a tree.
Inventories ==
  (0 .. MaxClock) \X BOOLEAN \X BOOLEAN \X (0 .. MaxClock) \X (0 .. MaxClock) \X SUBSET Parts

\* Migration intents.
Pendings ==
  [digest : 0 .. MaxClock, source : Inventories, token : 0 .. MaxClock, projected : Inventories]

ASSUME NothingAssumption ==
  Nothing # Torn /\ Nothing \notin Tree \cup Pendings /\ Torn \notin Tree \cup Pendings

\* Where a migration is that holds the run under its name, and has not renamed it.
EarlyPlaces ==
  {"fresh", "intended", "made", "marked", "copied", "rewritten", "ready", "discarding", "discarded"}
LatePlaces == {"published", "unmarked"}
MigratorPlaces == EarlyPlaces \cup LatePlaces \cup {"found", "backed"}

MigratorStates == [at : {"idle"}] \cup [at : MigratorPlaces, run : Runs]

TypeOK ==
  /\ source \in [Runs -> Tree \cup {Nothing}]
  /\ staged \in [Runs -> Tree \cup {Nothing}]
  /\ backup \in [Runs -> Tree \cup {Nothing}]
  /\ pending \in [Runs -> Pendings \cup {Nothing, Torn}]
  /\ tombs \subseteq Tree
  /\ holder \subseteq Int \X (Processes \cup {worker})
  /\ DOMAIN proc = Processes
  /\ \A p \in Migrators : proc[p] \in MigratorStates
  /\ clock \in 0 .. MaxClock

-----------------------------------------------------------------------------
(* Properties.                                                             *)

\* Every tombstone, and every part a resumed purge still removes, belongs to a tree
\* that the pending intent binds: it was finished, not migrated, and nothing was
\* written to it since.
TombstonesAreBound ==
  \A o \in tombs :
    /\ IsRecord(intent)
    /\ \E t \in intent.selected : t = [o EXCEPT !.parts = Parts] /\ t.done /\ t.from = 0

\* No deletion goes unaudited: whatever the current purge operation has renamed away is
\* named by the pending intent or by the cumulative result, across batches, deaths and
\* resumed purges.
DeletionsAreAudited ==
  chain \subseteq
    (IF There(result) THEN {result.deleted[i].edit : i \in DOMAIN result.deleted} ELSE {})
      \cup (IF IsRecord(intent) THEN {t.edit : t \in intent.selected} ELSE {})

\* A purge removes what it bound, and says so.
PurgeIsAccountable == TombstonesAreBound /\ DeletionsAreAudited

\* The tree a migration starts from is whole under the name of the run or of its backup.
IsOriginal(t, digest) ==
  There(t) /\ t.edit = digest /\ t.legacy /\ t.from = 0 /\ t.parts = Parts

\* Runs only move.  A run directory leaves its name whole, for its tombstone or its
\* backup; one that takes a name is new, or is a whole migrated tree whose original is
\* the backup; in place only the holder of the lock writes; a backup never changes.
RunMoves(r) ==
  /\ There(backup[r]) => backup'[r] = backup[r]
  /\ There(source[r]) /\ ~There(source'[r]) =>
       source[r].parts = Parts /\ (source[r] \in tombs' \/ source[r] = backup'[r])
  /\ There(source[r]) /\ There(source'[r]) /\ source'[r] # source[r] =>
       source'[r].ino = source[r].ino /\ ~Free(source[r].ino)
  /\ ~There(source[r]) /\ There(source'[r]) =>
       \/ source'[r].ino > clock
       \/ /\ source'[r].parts = Parts /\ ~source'[r].legacy
          /\ IsOriginal(backup[r], source'[r].from)

RunsOnlyMove == [][\A r \in Runs : RunMoves(r)]_vars

-----------------------------------------------------------------------------
(* The inductive invariant of the moves.                                   *)

\* The identities of the directories that no migration is making.
Inodes(f) == {f[r].ino : r \in {s \in Runs : There(f[s])}}
Settled == Inodes(source) \cup Inodes(backup) \cup {o.ino : o \in tombs}

\* A run is whole under its name; no directory and no lock is younger than the clock.
RunsAreWhole ==
  /\ \A r \in Runs : There(source[r]) => source[r].parts = Parts
  /\ \A n \in Settled \cup Inodes(staged) : n <= clock
  /\ \A h \in holder : h[1] <= clock

\* A migration intent binds a whole v0 run, and its token is its own.
IntentsArePlanned ==
  /\ \A r \in Runs : IsRecord(pending[r]) =>
       /\ pending[r].token <= clock
       /\ pending[r].source[1] = pending[r].digest /\ pending[r].source[3]
       /\ pending[r].source[4] = 0 /\ pending[r].source[6] = Parts
  /\ \A r, s \in Runs :
       r # s /\ IsRecord(pending[r]) /\ IsRecord(pending[s]) => pending[r].token # pending[s].token

\* The token of the intent a migration works with.
Token(p) == pending[proc[p].run].token

\* A staged directory, made or about to be, is none of the others.
CopiesAreApart ==
  /\ \A r \in Runs : There(staged[r]) => staged[r].ino \notin Settled
  /\ \A r, s \in Runs :
       r # s /\ There(staged[r]) /\ There(staged[s]) => staged[r].ino # staged[s].ino
  /\ \A p \in Migrators : proc[p].at = "intended" =>
       Token(p) \notin Settled \cup Inodes(staged) /\ Free(Token(p))

\* A lock has one holder; the lock of a staged directory, who publishes it.
OneHolder == \A h, k \in holder : h[1] = k[1] => h = k

CopiesAreLocked ==
  \A h \in holder : \A r \in Runs :
    There(staged[r]) /\ staged[r].ino = h[1] =>
      /\ h[2] \in Migrators /\ proc[h[2]] # idle /\ proc[h[2]].run = r
      /\ proc[h[2]].at \in {"copied", "rewritten", "ready", "backed"}

\* A migration holds the run it works on, and no backup is in the way until its rename.
HoldsRun(p, r) ==
  /\ proc[p].at \in EarlyPlaces \cup LatePlaces => Guarded(p, source[r])
  /\ proc[p].at \in EarlyPlaces => ~There(backup[r])
  /\ proc[p].at \in {"fresh", "intended", "discarded"} => ~There(staged[r])
  /\ proc[p].at = "fresh" => ~There(pending[r])

\* The intent binds the run while the copy is made.
CopiesRun(p, r) ==
  /\ proc[p].at \in {"intended", "made", "marked", "copied", "rewritten", "ready"} =>
       Bound(pending[r], source[r])
  /\ proc[p].at \in {"made", "marked", "copied", "rewritten", "ready"} => There(staged[r])
  /\ proc[p].at \in {"copied", "rewritten", "ready"} =>
       staged[r].parts = Parts /\ Holds(p, staged[r].ino)
  /\ proc[p].at \in {"rewritten", "ready"} => ~staged[r].legacy
  /\ proc[p].at = "ready" => staged[r].from = pending[r].digest

\* Between the renames the copy is whole, and its original is the backup.
MayFinish(p, r) ==
  proc[p].at = "backed" =>
    /\ Guarded(p, staged[r]) /\ Guarded(p, backup[r])
    /\ staged[r].parts = Parts /\ ~staged[r].legacy
    /\ IsOriginal(backup[r], staged[r].from)

MigratorsStand ==
  \A p \in Migrators : proc[p] # idle =>
    HoldsRun(p, proc[p].run) /\ CopiesRun(p, proc[p].run) /\ MayFinish(p, proc[p].run)

\* What a purge selects are trees.
SelectionsAreTrees ==
  /\ IsRecord(intent) => intent.selected \subseteq Tree
  /\ \A p \in Purgers : proc[p] # idle =>
       {"at", "it"} \subseteq DOMAIN proc[p] /\ proc[p].it.selected \subseteq Tree

MInv ==
  /\ TypeOK /\ RunsAreWhole /\ IntentsArePlanned /\ CopiesAreApart
  /\ OneHolder /\ CopiesAreLocked /\ MigratorsStand

-----------------------------------------------------------------------------
(* The inductive invariant of the purges, for one purger.                  *)

OnePurger == \A p, q \in Purgers : p = q

Summaries ==
  [run : Runs, edit : 0 .. MaxClock, done : BOOLEAN, from : 0 .. MaxClock, owner : 0 .. MaxClock]

Controls ==
  [intent : BOOLEAN, result : BOOLEAN, temp : BOOLEAN, tombs : SUBSET (Summaries \X Int)]

Snapshots ==
  [runs : SUBSET (Summaries \X {"active", "migration evidence", "locked", "eligible"}),
   excluded : SUBSET ({"staged", "backup", "intent"} \X Runs), control : Controls]

Intents ==
  [budget : Budgets, decision : Snapshots, selected : SUBSET Tree,
   prior : (Budgets \X Seq(Summaries) \X Snapshots) \cup {Nothing}]

Reports ==
  [budget : Budgets, intent : Intents, deleted : Seq(Summaries), converged : Snapshots,
   more : BOOLEAN]

ASSUME ControlAssumption ==
  Nothing \notin Intents \cup Reports /\ Torn \notin Intents \cup Reports

BatchPlaces == {"planned", "deleting", "resumed"}
ReportPlaces == {"audited", "written", "published", "checking", "adopted"}

PurgerStates ==
  [at : {"idle"}] \cup [at : BatchPlaces, it : Intents]
    \cup [at : ReportPlaces, it : Intents, report : Reports]

PurgeTypes ==
  /\ intent \in Intents \cup {Nothing, Torn}
  /\ result \in Reports \cup {Nothing}
  /\ temp \in Reports \cup {Nothing, Torn}
  /\ \A p \in Purgers : proc[p] \in PurgerStates

\* A run is under its name; no two runs were written at one time, and none after now.
EditsAreApart ==
  /\ \A r \in Runs : \A x \in {source[r], staged[r]} : There(x) => x.run = r /\ x.edit <= clock
  /\ \A r, s \in Runs : r # s =>
       \A x \in {source[r], staged[r]} : \A y \in {source[s], staged[s]} :
         There(x) /\ There(y) => x.edit # y.edit

\* A batch binds one whole finished run, whose directory no migration makes again.
BindsOne(it) ==
  /\ \A t, u \in it.selected : t = u
  /\ \A t \in it.selected :
       /\ t.done /\ t.from = 0 /\ t.parts = Parts /\ t.ino <= clock
       /\ There(staged[t.run]) => staged[t.run].ino # t.ino
       /\ \A p \in Migrators :
            proc[p].at = "intended" => Token(p) # t.ino
       /\ There(source[t.run]) /\ source[t.run].ino = t.ino => source[t.run].legacy = t.legacy

\* The directories of a batch that is over are not under their names.
IsGone(it) ==
  \A t \in it.selected : There(source[t.run]) => source[t.run].ino # t.ino

\* The batches that the control files and the purgers hold, and those that are over.
Batches ==
  (IF IsRecord(intent) THEN {intent} ELSE {}) \cup (IF There(result) THEN {result.intent} ELSE {})
    \cup {proc[p].it : p \in {q \in Purgers : proc[q] # idle}}

Finished ==
  (IF There(result) THEN {result.intent} ELSE {})
    \cup {proc[p].it : p \in {q \in Purgers : proc[q].at \in {"audited", "written"}}}

BatchesStand == (\A it \in Batches : BindsOne(it)) /\ (\A it \in Finished : IsGone(it))

EditsOf(deleted) == {deleted[i].edit : i \in DOMAIN deleted}
EditsIn(it) == {t.edit : t \in it.selected}

\* The result names all of the operation when the intent is still its own; the first
\* batch of an operation begins the chain.
ControlStands ==
  /\ There(result) /\ result.intent = intent => tombs = {} /\ chain \subseteq EditsOf(result.deleted)
  /\ IsRecord(intent) /\ ~There(intent.prior) => chain \subseteq EditsIn(intent)

\* A purger works on the intent that is there, and its report covers the chain.
PurgerStands(p) ==
  /\ proc[p].at \in {"planned", "checking", "adopted"} => intent = Nothing
  /\ proc[p].at \in {"deleting", "resumed", "audited", "written", "published"} =>
       intent = proc[p].it
  /\ proc[p].at \in {"audited", "written"} =>
       /\ proc[p].report.intent = intent
       /\ tombs = {} /\ chain \subseteq EditsOf(proc[p].report.deleted)
  /\ proc[p].at = "written" => temp = proc[p].report
  /\ proc[p].at = "published" => There(result) /\ result.intent = intent

PInv ==
  /\ PurgeTypes /\ EditsAreApart /\ BatchesStand /\ ControlStands
  /\ \A p \in Purgers : PurgerStands(p)
  /\ PurgeIsAccountable
=============================================================================
