------------------------------ MODULE RunsRoot ------------------------------
(***************************************************************************)
(* The runs root: the directories and control files that the maintenance   *)
(* commands share with the commands that work on a run.  A run directory   *)
(* is a record: what the commands tell apart of its tree, under the        *)
(* identity (device and inode) of the directory.  Its mutation lock        *)
(* belongs to that identity, so it follows the directory through a rename. *)
(***************************************************************************)
EXTENDS Integers, Sequences, FiniteSets

CONSTANTS
  Runs,        \* run IDs, ordered
  Purgers,     \* processes that may run `loop purge`
  Migrators,   \* processes that may run `loop migrate`
  Budgets,     \* the max-managed-bytes a purge may be given; a run is one byte
  Nothing,     \* no directory, no control file
  Torn,        \* a control file that was created and not written
  Roots,       \* bound: what the root holds at first, a kind per run
  MaxClock,    \* bound: timestamps, inodes and random tokens
  MaxCalls,    \* bound: maintenance commands
  MaxDeaths    \* bound: maintenance processes that die

ASSUME RunsRootAssumption ==
  /\ IsFiniteSet(Runs) /\ Runs = 1 .. Cardinality(Runs) /\ Budgets \subseteq Nat
  /\ {MaxClock, MaxCalls, MaxDeaths} \subseteq Nat /\ Cardinality(Runs) <= MaxClock
  /\ Purgers \cap Migrators = {} /\ "worker" \notin Purgers \cup Migrators
  /\ Roots \subseteq [Runs -> {"none", "active", "current", "legacy", "migrated"}]

VARIABLES
  source,    \* run -> the directory under the name of the run
  staged,    \* run -> .<run>.migration-v0-v1.staged
  backup,    \* run -> .<run>.migration-v0-v1.backup
  pending,   \* run -> .<run>.migration-v0-v1.intent.json
  tombs,     \* the directories under a purge tombstone name
  intent,    \* .retention-purge.intent.json
  result,    \* .retention-purge.result.json
  temp,      \* .retention-purge.result.tmp
  holder,    \* pairs of a directory and the process that holds its lock
  proc,      \* process -> where it is and what it has read
  clock,     \* the last timestamp, inode or token that was given out
  calls,     \* maintenance commands so far
  deaths,    \* deaths so far
  chain      \* history: what the current purge operation has entombed

files == <<source, staged, backup, pending, tombs, intent, result, temp>>
purgeFiles == <<tombs, intent, result, temp, chain>>
migrationFiles == <<staged, backup, pending>>
vars == <<files, holder, proc, clock, calls, deaths, chain>>

Processes == Purgers \cup Migrators

-----------------------------------------------------------------------------
(* Trees.  edit is updated_at and stands for the digests of the contents:  *)
(* no two edits have the same.  done: the run is Passed or Completed and   *)
(* has no live candidate.  from: the source digest in the migration        *)
(* result, 0 when the tree has none.  owner: the token of the staged       *)
(* ownership marker, 0 when there is no readable one.                      *)

Parts == {"contents", "authority", "lock"}

There(x) == x # Nothing
IsTorn(x) == x = Torn
IsRecord(x) == There(x) /\ ~IsTorn(x)

\* A new run directory.
NewTree(r, n) ==
  [run |-> r, ino |-> n, edit |-> n, done |-> FALSE, legacy |-> FALSE,
   from |-> 0, owner |-> 0, parts |-> Parts]

\* A run a root may hold: unfinished or finished, current, legacy or migrated.
FirstTree(r, kind) ==
  IF kind = "none" THEN Nothing
  ELSE [NewTree(r, r) EXCEPT !.done = kind # "active", !.legacy = kind = "legacy",
                             !.from = IF kind = "migrated" THEN r ELSE 0]

\* A migrated run keeps the tree it was made from as its backup.
BackupOf(t) ==
  IF There(t) /\ t.from # 0
  THEN [t EXCEPT !.ino = -t.run, !.legacy = TRUE, !.from = 0] ELSE Nothing

-----------------------------------------------------------------------------
(* The mutation lock of a run directory.                                   *)

Free(n) == \A h \in holder : h[1] # n

Holds(p, n) == <<n, p>> \in holder

LocksOf(p) == {h \in holder : h[2] = p}

-----------------------------------------------------------------------------
(* The commands that work on a run, under its lock.                        *)

worker == "worker"

\* Worker: a new run arrives under a name that is free.
Arrive(r) ==
  /\ ~There(source[r]) /\ clock < MaxClock
  /\ clock' = clock + 1
  /\ source' = [source EXCEPT ![r] = NewTree(r, clock + 1)]
  /\ UNCHANGED <<purgeFiles, migrationFiles, holder, proc, calls, deaths>>

\* Worker: a command takes the lock of a run.
Take(r) ==
  /\ There(source[r]) /\ Free(source[r].ino)
  /\ holder' = holder \cup {<<source[r].ino, worker>>}
  /\ UNCHANGED <<files, proc, clock, calls, deaths, chain>>

\* Worker: it has changed the run, and may have finished it, or has left it as it was.
Leave(r) ==
  /\ There(source[r]) /\ Holds(worker, source[r].ino)
  /\ holder' = holder \ {<<source[r].ino, worker>>}
  /\ \/ UNCHANGED <<source, clock>>
     \/ /\ clock < MaxClock /\ clock' = clock + 1
        /\ \E d \in {source[r].done, TRUE} :
             source' = [source EXCEPT ![r].edit = clock + 1, ![r].done = d]
  /\ UNCHANGED <<purgeFiles, migrationFiles, proc, calls, deaths>>

Worker == \E r \in Runs : Arrive(r) \/ Take(r) \/ Leave(r)

-----------------------------------------------------------------------------
(* Maintenance processes.                                                  *)

idle == [at |-> "idle"]

\* A command ends, with success or an error, or its process dies: its locks go.
Ends(p) ==
  /\ proc' = [proc EXCEPT ![p] = idle]
  /\ holder' = holder \ LocksOf(p)

Goes(p, place) == proc' = [proc EXCEPT ![p].at = place]

Init ==
  /\ \E root \in Roots : source = [r \in Runs |-> FirstTree(r, root[r])]
  /\ backup = [r \in Runs |-> BackupOf(source[r])]
  /\ staged = [r \in Runs |-> Nothing] /\ pending = [r \in Runs |-> Nothing]
  /\ tombs = {} /\ chain = {}
  /\ intent = Nothing /\ result = Nothing /\ temp = Nothing
  /\ holder = {} /\ proc = [p \in Processes |-> idle]
  /\ clock = Cardinality(Runs)
  /\ calls = 0 /\ deaths = 0
=============================================================================
