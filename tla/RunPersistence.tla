--------------------------- MODULE RunPersistence ---------------------------
(***************************************************************************)
(* How run.json is created and replaced: the run mutation lock, temporary  *)
(* files, rename and hard link, file and directory sync, processes that    *)
(* die and machines that lose power.                                       *)
(*                                                                         *)
(* The file system is one directory of names and the inodes behind them.   *)
(* `disk' is the set of directories a power loss may leave: every one since *)
(* the last sync of the directory.  The data of an inode that was not      *)
(* synced may be lost with it.  A process death loses neither.             *)
(***************************************************************************)
EXTENDS Naturals, Sequences, SequencesExt, FiniteSets

CONSTANTS
  Processes,
  Steps,       \* the transitions a publication can apply to a run
  Inodes,
  MaxLength,   \* bound: transitions of a run
  Absent,      \* no inode
  Nobody,      \* no process
  Torn         \* the bytes of a file that was not written completely

ASSUME FileSystemAssumption ==
  /\ Absent \notin Inodes
  /\ Nobody \notin Processes
  /\ Torn \notin Seq(Steps)
  /\ MaxLength \in Nat

\* A run is the sequence of the transitions it went through.
Runs == Seq(Steps)

Directory == [run : Inodes \cup {Absent}, temps : SUBSET Inodes]

\* save: write_run_file; provision: publish_prevalidated_isolated_run;
\* ordinary: persist_ordinary_run_with_full_compare; strict:
\* persist_run_with_full_compare; resync: resync_exact_run.
Modes == {"save", "provision", "ordinary", "strict", "resync"}

Points == {"idle", "waiting", "reclaim", "reclaimed", "compare", "create", "write",
           "flush", "rename", "link", "unlink", "syncfile", "syncdir"}

Call == [at : Points, mode : Modes, expected : Runs, intended : Runs,
         temp : Inodes \cup {Absent}]

VARIABLES
  content,     \* inode -> the bytes in it, as processes see them
  synced,      \* the inodes whose bytes a power loss keeps
  dir,         \* the run directory, as processes see it
  disk,        \* the directories a power loss may leave
  lock,        \* the owner of provider-exchange.lock
  call,        \* process -> the publication it is in
  stable       \* history: the run that was last acknowledged as durable

files == <<content, synced>>
names == <<dir, disk>>
vars == <<content, synced, dir, disk, lock, call, stable>>

Idle == [at |-> "idle", mode |-> "save", expected |-> << >>, intended |-> << >>,
         temp |-> Absent]

Init ==
  /\ content = [i \in Inodes |-> Torn]
  /\ synced = {}
  /\ dir = [run |-> Absent, temps |-> {}]
  /\ disk = {dir}
  /\ lock = Nobody
  /\ call = [p \in Processes |-> Idle]
  /\ stable = << >>

-----------------------------------------------------------------------------
Bytes(d) == IF d.run = Absent THEN << >> ELSE content[d.run]

\* What load_run and every comparison read.
Visible == Bytes(dir)

Links(i) == (IF dir.run = i THEN 1 ELSE 0) + (IF i \in dir.temps THEN 1 ELSE 0)

Free(i) ==
  /\ \A d \in disk : i # d.run /\ i \notin d.temps
  /\ \A p \in Processes : i # call[p].temp

\* A change of the directory reaches the disk some time before its next sync.
Change(d) == dir' = d /\ disk' = disk \cup {d}

\* The disk and everybody agree on directory d.  Of the bytes only those of the
\* inodes in `kept' are left; an inode that lost its last name is gone.
Settle(d, kept) ==
  /\ dir' = d /\ disk' = {d}
  /\ content' = [i \in Inodes |-> IF i \in kept THEN content[i] ELSE Torn]
  /\ synced' = synced \cap kept

Named(d) == {d.run} \cup d.temps

SyncDirectory == Settle(dir, Named(dir))

GoTo(p, at) == call' = [call EXCEPT ![p].at = at]

Return(p) == call' = [call EXCEPT ![p] = Idle]

-----------------------------------------------------------------------------
(* Callers.  A run is loaded without the lock and may be stale when the    *)
(* lock is taken.                                                          *)

Start(p, mode, expected, intended) ==
  /\ call[p].at = "idle"
  /\ Len(intended) <= MaxLength
  /\ call' = [call EXCEPT ![p] = [at |-> "waiting", mode |-> mode, expected |-> expected,
                                  intended |-> intended, temp |-> Absent]]
  /\ UNCHANGED <<files, names, lock, stable>>

Create(p, mode, s) == Start(p, mode, << >>, <<s>>)

Transition(p, mode, s) ==
  /\ dir.run # Absent
  /\ Visible # Torn
  /\ Start(p, mode, Visible, Append(Visible, s))

Resync(p) ==
  /\ dir.run # Absent
  /\ Visible # Torn
  /\ Start(p, "resync", Visible, Visible)

-----------------------------------------------------------------------------
(* RunMutationGuard::acquire.                                              *)

\* The lock is waited for five seconds.
Busy(p) ==
  /\ call[p].at = "waiting"
  /\ lock # Nobody
  /\ Return(p)
  /\ UNCHANGED <<files, names, lock, stable>>

\* Every temporary the new owner finds is an orphan, and has to be the only name
\* of its inode.
Reclaimable == \A i \in dir.temps : Links(i) = 1

\* Defective variant: orphans are left alone.
AcquireWithoutReclaim(p) ==
  /\ call[p].at = "waiting"
  /\ lock = Nobody
  /\ lock' = p
  /\ GoTo(p, "compare")
  /\ UNCHANGED <<files, names, stable>>

Acquire(p) ==
  /\ call[p].at = "waiting"
  /\ lock = Nobody
  /\ Reclaimable
  /\ lock' = p
  /\ GoTo(p, IF dir.temps = {} THEN "compare" ELSE "reclaim")
  /\ UNCHANGED <<files, names, stable>>

AcquireRefused(p) ==
  /\ call[p].at = "waiting"
  /\ lock = Nobody
  /\ ~Reclaimable
  /\ Return(p)
  /\ UNCHANGED <<files, names, lock, stable>>

Reclaim(p) ==
  /\ call[p].at = "reclaim"
  /\ Change([dir EXCEPT !.temps = {}])
  /\ GoTo(p, "reclaimed")
  /\ UNCHANGED <<files, lock, stable>>

SyncReclaimed(p) ==
  /\ call[p].at = "reclaimed"
  /\ SyncDirectory
  /\ GoTo(p, "compare")
  /\ UNCHANGED <<lock, stable>>

-----------------------------------------------------------------------------
(* The comparison under the lock: publish, sync what is there already, or  *)
(* refuse.                                                                 *)

\* Defective variant: what was loaded before the lock is trusted.
MayPublishStale(p) ==
  IF call[p].mode \in {"save", "provision"}
    THEN dir.run = Absent
    ELSE call[p].mode # "resync" /\ dir.run # Absent /\ Links(dir.run) = 1

MayPublish(p) ==
  IF call[p].mode \in {"save", "provision"}
    THEN dir.run = Absent
    ELSE /\ call[p].mode # "resync"
         /\ dir.run # Absent /\ Visible = call[p].expected
         /\ Links(dir.run) = 1

IsExactRetry(p) ==
  /\ call[p].mode \in {"save", "ordinary", "resync"}
  /\ dir.run # Absent /\ Visible = call[p].intended

Compare(p) ==
  /\ call[p].at = "compare"
  /\ \/ MayPublish(p) /\ GoTo(p, "create")
     \/ IsExactRetry(p) /\ GoTo(p, "syncfile")
  /\ UNCHANGED <<files, names, lock, stable>>

-----------------------------------------------------------------------------
(* publish_replacement_core and publish_create_only_core.                  *)

CreateTemp(p) ==
  /\ call[p].at = "create"
  /\ \E i \in Inodes :
       /\ Free(i)
       /\ content' = [content EXCEPT ![i] = Torn]
       /\ synced' = synced \ {i}
       /\ Change([dir EXCEPT !.temps = @ \cup {i}])
       /\ call' = [call EXCEPT ![p].at = "write", ![p].temp = i]
  /\ UNCHANGED <<lock, stable>>

WriteTemp(p) ==
  /\ call[p].at = "write"
  /\ content' = [content EXCEPT ![call[p].temp] = call[p].intended]
  /\ GoTo(p, "flush")
  /\ UNCHANGED <<synced, names, lock, stable>>

PublicationPoint(p) == IF call[p].mode \in {"save", "provision"} THEN "link" ELSE "rename"

\* Defective variant: the file is published without being synced.
FlushSkipped(p) ==
  /\ call[p].at = "flush"
  /\ GoTo(p, PublicationPoint(p))
  /\ UNCHANGED <<files, names, lock, stable>>

FlushTemp(p) ==
  /\ call[p].at = "flush"
  /\ synced' = synced \cup {call[p].temp}
  /\ GoTo(p, PublicationPoint(p))
  /\ UNCHANGED <<content, names, lock, stable>>

Rename(p) ==
  /\ call[p].at = "rename"
  /\ Change([run |-> call[p].temp, temps |-> dir.temps \ {call[p].temp}])
  /\ GoTo(p, "syncdir")
  /\ UNCHANGED <<files, lock, stable>>

HardLink(p) ==
  /\ call[p].at = "link"
  /\ dir.run = Absent
  /\ Change([dir EXCEPT !.run = call[p].temp])
  /\ GoTo(p, "unlink")
  /\ UNCHANGED <<files, lock, stable>>

UnlinkTemp(p) ==
  /\ call[p].at = "unlink"
  /\ Change([dir EXCEPT !.temps = @ \ {call[p].temp}])
  /\ GoTo(p, "syncdir")
  /\ UNCHANGED <<files, lock, stable>>

\* Defective variant: the file that is synced is not the one run.json names.
SyncOwnFile(p) ==
  /\ call[p].at = "syncfile"
  /\ synced' = synced \cup {call[p].temp}
  /\ GoTo(p, "syncdir")
  /\ UNCHANGED <<content, names, lock, stable>>

\* sync_existing: an exact retry makes durable what an earlier call may not have.
SyncFile(p) ==
  /\ call[p].at = "syncfile"
  /\ synced' = synced \cup {dir.run}
  /\ GoTo(p, "syncdir")
  /\ UNCHANGED <<content, names, lock, stable>>

\* Defective variant: success is reported without syncing the directory.
SyncParentSkipped(p) ==
  /\ call[p].at = "syncdir"
  /\ stable' = Visible
  /\ lock' = Nobody
  /\ Return(p)
  /\ UNCHANGED <<files, names>>

SyncParent(p) ==
  /\ call[p].at = "syncdir"
  /\ SyncDirectory
  /\ stable' = Visible
  /\ lock' = Nobody
  /\ Return(p)

\* A refused comparison or an I/O error at any step.  The temporary is removed if
\* it can be and still has its name.
Fail(p) ==
  /\ lock = p
  /\ lock' = Nobody
  /\ Return(p)
  /\ Change(dir) \/ Change([dir EXCEPT !.temps = @ \ {call[p].temp}])
  /\ UNCHANGED <<files, stable>>

-----------------------------------------------------------------------------
(* A process dies; the machine loses power.                                *)

Crash(p) ==
  /\ call[p].at # "idle"
  /\ lock' = IF lock = p THEN Nobody ELSE lock
  /\ Return(p)
  /\ UNCHANGED <<files, names, stable>>

PowerLoss ==
  /\ \E d \in disk : Settle(d, synced \cap Named(d))
  /\ lock' = Nobody
  /\ call' = [p \in Processes |-> Idle]
  /\ UNCHANGED stable

-----------------------------------------------------------------------------
Calls(p) ==
  \/ \E s \in Steps : \E mode \in {"save", "provision"} : Create(p, mode, s)
  \/ \E s \in Steps : \E mode \in {"ordinary", "strict"} : Transition(p, mode, s)
  \/ Resync(p)

Locking(p) == Busy(p) \/ Acquire(p) \/ AcquireRefused(p) \/ Reclaim(p) \/ SyncReclaimed(p)

Publication(p) ==
  \/ Compare(p) \/ CreateTemp(p) \/ WriteTemp(p) \/ FlushTemp(p)
  \/ Rename(p) \/ HardLink(p) \/ UnlinkTemp(p)
  \/ SyncFile(p) \/ SyncParent(p) \/ Fail(p)

Next ==
  \/ \E p \in Processes : Calls(p) \/ Locking(p) \/ Publication(p) \/ Crash(p)
  \/ PowerLoss

Spec == Init /\ [][Next]_vars

-----------------------------------------------------------------------------
(* Properties.                                                             *)

TypeOK ==
  /\ content \in [Inodes -> Runs \cup {Torn}]
  /\ synced \subseteq Inodes
  /\ dir \in Directory
  /\ disk \subseteq Directory
  /\ lock \in Processes \cup {Nobody}
  /\ call \in [Processes -> Call]
  /\ stable \in Runs

\* Readers, who take no lock, never see a run.json that was not written and
\* synced completely, whichever process died or power was lost before.
NeverTorn == dir.run # Absent => Visible # Torn

\* The run that some caller was told is durable is still there, whatever was lost
\* since, and everything visible was built upon it.
AcknowledgedStays == Visible # Torn /\ IsPrefix(stable, Visible)

\* Orphans do not accumulate: at most one temporary is in the run directory,
\* however many publications died.
OneTemporary == Cardinality(dir.temps) <= 1

\* No lost update: run.json is a register of transitions each of which is applied
\* to the run that is there, and loses only what was not acknowledged.
Register == INSTANCE RunRegister WITH value <- Visible, stable <- stable
IsRegister == Register!Spec

\* docs/production-readiness-roadmap.md: "exact retries reauthenticate and close
\* post-publication durability uncertainty"; a retry needs the lock.
RetryFindsLock == lock = Nobody => Reclaimable

-----------------------------------------------------------------------------
(* The inductive invariant behind NeverTorn, AcknowledgedStays and the     *)
(* refinement.                                                             *)

Outside == {"idle", "waiting"}

\* The lock is held by the one process that is past it.
Exclusion == \A p \in Processes : call[p].at \notin Outside <=> lock = p

\* A publication applies one transition to the run it expects.
OneTransition(c) ==
  /\ c.mode \in {"ordinary", "strict"} =>
       \E s \in Steps : c.intended = Append(c.expected, s)
  /\ c.mode \in {"save", "provision"} /\ c.at # "idle" =>
       c.expected = << >> /\ \E s \in Steps : c.intended = <<s>>

\* Until it publishes, the lock owner knows what is there and has its temporary
\* to itself.
OwnerKnows(c) ==
  /\ c.at \in {"create", "write", "flush", "rename", "link"} =>
       c.mode # "resync" /\ Visible = c.expected
  /\ c.at \in {"write", "flush", "rename", "link", "unlink"} => c.temp \in Inodes
  /\ c.at \in {"write", "flush", "rename", "link"} => \A d \in disk : d.run # c.temp
  /\ c.at \in {"flush", "rename", "link"} => content[c.temp] = c.intended
  /\ c.at \in {"rename", "link"} => c.temp \in synced
  /\ c.at = "syncfile" => dir.run # Absent

\* Every directory a power loss may leave names a complete run, between the
\* acknowledged one and the visible one.
EveryDiskIsARun ==
  /\ dir \in disk
  /\ \A d \in disk :
       /\ d.run # Absent => d.run \in synced /\ content[d.run] \in Runs
       /\ IsPrefix(stable, Bytes(d)) /\ IsPrefix(Bytes(d), Visible)

IInv ==
  /\ TypeOK
  /\ Exclusion
  /\ \A p \in Processes : OneTransition(call[p]) /\ OwnerKnows(call[p])
  /\ EveryDiskIsARun

\* Behind OneTemporary: no directory a power loss may leave has two temporaries, and
\* from the reclamation until its own temporary the lock owner sees none.
Unencumbered == {"reclaimed", "compare", "create"}

OrphansReclaimed ==
  /\ \A d \in disk : \A i, j \in d.temps : i = j
  /\ \A p \in Processes : call[p].at \in Unencumbered => dir.temps = {}
=============================================================================
