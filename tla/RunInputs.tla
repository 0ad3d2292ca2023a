----------------------------- MODULE RunInputs -----------------------------
(***************************************************************************)
(* The five inputs of a provider run (ticket, policy, project config,      *)
(* repository identity and eval config): how a command finds them among    *)
(* the files of a repository that people keep editing, how run.json fixes  *)
(* their digests, how their bytes become six immutable snapshots, and how  *)
(* a start that died anywhere on the way is taken up again.                *)
(*                                                                         *)
(* Canonical JSON and SHA-256 are taken to be injective: a digest is the   *)
(* value it was computed from.  The content of a file is replaced, never   *)
(* edited in place.  Candidate provisioning is one step here; its own      *)
(* crash points are in CandidateWorkspace, those of one publication in     *)
(* RunPersistence.                                                         *)
(***************************************************************************)
EXTENDS ProjectInit

CONSTANTS
  Procs,      \* commands running at the same time
  Starters,   \* those of them that may be starts
  Entrances,  \* how runs are resumed: "cli", or "library" without the CLI
  Changes,    \* bound: edits people make, <<name, content>>
  Content,    \* eval config file -> parsed content, None when it has none
  Aliases,    \* eval config files outside, reached through a symlink
  Arguments,  \* of commands, [config : BOOLEAN, policy, worktree]
  Prohibited, \* values a command's environment holds as secrets
  MaxEdits    \* bound: edits

\* Content knows every eval config file there may be, one cut short included.
ASSUME InputsAssumption ==
  /\ Entrances \subseteq {"cli", "library"} /\ Starters \subseteq Procs
  /\ "evals" \in DOMAIN Template /\ {Template["evals"], Broken} \subseteq DOMAIN Content \cup {None}
  /\ \A change \in Changes : change[1] = "evals" => change[2] \in DOMAIN Content \cup {None}

VARIABLES
  directory, \* the run directory exists
  run,       \* run.json: [inputs, lifecycle, status], or NoRun
  layout,    \* how much of the runtime scaffold exists
  snapshots, \* bytes of the input snapshots in the run directory
  lock,      \* holder of the run mutation lock
  pc, entrance,
  held,      \* the inputs a command has read
  opened,    \* the eval config file it inspected, then opened
  view,      \* the run.json it holds
  asked,     \* history: inputs under which a provider was asked
  edits

disk == <<files, directory, run, layout, snapshots>>
local == <<pc, entrance, held, opened, view>>
bounds == <<edits, faults>>
vars == <<disk, lock, local, asked, bounds, setup>>

NoRun == [lifecycle |-> "none"]

NoInputs == [ticket |-> None, policy |-> None, config |-> None, repository |-> None, eval |-> None]

-----------------------------------------------------------------------------
(* Finding the inputs.                                                     *)

\* --policy wins over a config; without either the root is searched.
PolicyNamed(f, a) ==
  IF a.policy # None THEN a.policy
  ELSE IF f["config"] # None THEN f["config"]
  ELSE "policy"

\* An explicit config is loaded even when --policy decides.
Resolves(f, a) ==
  /\ a.config => f["config"] # None
  /\ a.config \/ a.policy = None => f["config"] # Broken
  /\ f[PolicyNamed(f, a)] \notin {None, Broken}

Effective(f, a) ==
  [policy |-> f[PolicyNamed(f, a)], config |-> PolicyNamed(f, a), repository |-> a.worktree]

\* No component of the path is a symlink, and the last is a regular file.
RealFile(file) == file # None /\ file \notin Aliases

\* Defective variant: any regular file will do.
AnyFile(left, right) == right # None

\* Device and inode.
SameFile(left, right) == left = right

CurrentDigests(i) ==
  [ticket |-> i.ticket, policy |-> i.policy, config |-> i.config,
   repository |-> i.repository, eval_config |-> i.eval]

-----------------------------------------------------------------------------
(* Snapshots, in the order of publication.                                 *)

Entries(i) == <<i.ticket, i.policy, i.config, i.repository, i.eval, i.ticket>>

Expected(d) == <<d.ticket, d.policy, d.config, d.repository, d.eval_config, d.ticket>>

\* Defective variant: the caller is trusted to have compared the digests.
PayloadsTrusted(d, i) == TRUE

\* The redactor comes from the eval config: the variables its checks name.
PayloadsMatch(d, i) ==
  /\ ToSet(Entries(i)) \cap Prohibited = {}
  /\ Entries(i) = Expected(d)

\* run.json as it will be published, before and after provisioning, holds the
\* repository's paths besides the digests.
EnvelopeScreened(i) == i.repository \notin Prohibited

\* What is there is an exact prefix of what would be published.
ExactPrefix(bytes) == IsPrefix(snapshots, bytes)

\* The same of the digests run.json holds, before anything is resumed.
PersistedPrefix(d) == ExactPrefix(Expected(d))

\* Snapshots read back for a later phase of the run.
LoadsVerified(d) == Len(snapshots) = Len(Expected(d)) /\ snapshots = Expected(d)

Layout == <<"directories", "context-manifest.json", "log.md">>

\* Defective variant: the library opens the run the way the CLI does.
ReopensWhole(how) == run # NoRun /\ layout = Len(Layout)

\* LoopWorkspace::open wants the whole layout, open_minimal run.json only.
Reopens(how) == run # NoRun /\ (how = "cli" => layout = Len(Layout))

-----------------------------------------------------------------------------
(* What each step of a command wants; it gives up when it is not so.       *)

Unchanged(p) == run = view[p]

\* What the CLI compares before it hands the run to the library.
VerifiesResume(p) == CurrentDigests(held[p]) = view[p].inputs

\* preflight_authoritative_run_inputs: a second reading of run.json.
PreflightResume(p) ==
  Unchanged(p) /\ PayloadsMatch(view[p].inputs, held[p]) /\ ExactPrefix(Entries(held[p]))

Wants(p) ==
  CASE pc[p] = "inspect" -> RealFile(files["evals"])
    [] pc[p] = "open" -> SameFile(opened[p], files["evals"])
    [] pc[p] = "read" -> /\ RealFile(files["evals"]) /\ SameFile(opened[p], files["evals"])
                         /\ Content[opened[p]] # None
    [] pc[p] = "create" -> /\ PayloadsMatch(CurrentDigests(held[p]), held[p])
                           /\ EnvelopeScreened(held[p]) /\ ~directory
    [] pc[p] = "recover" -> /\ entrance[p] = "cli" => VerifiesResume(p) /\ PreflightResume(p)
                            /\ Unchanged(p) /\ PayloadsMatch(view[p].inputs, held[p])
                            /\ PersistedPrefix(view[p].inputs)
    [] pc[p] = "preflight" -> PreflightResume(p)
    [] pc[p] = "ask" -> Unchanged(p)
    [] OTHER -> TRUE

Goto(p, from, to) ==
  /\ pc[p] = from /\ Wants(p)
  /\ pc' = [pc EXCEPT ![p] = to]

\* The command ends: its locks are released, what it held is gone.
Ends(p) ==
  /\ pc' = [pc EXCEPT ![p] = "idle"]
  /\ held' = [held EXCEPT ![p] = NoInputs]
  /\ opened' = [opened EXCEPT ![p] = None]
  /\ view' = [view EXCEPT ![p] = NoRun]
  /\ entrance' = [entrance EXCEPT ![p] = None]
  /\ lock' = IF lock = p THEN None ELSE lock

Refuse(p) ==
  /\ \/ pc[p] # "idle" /\ ~Wants(p)
     \/ pc[p] = "resolve" /\ \E a \in Arguments : ~Resolves(files, a)
  /\ Ends(p)
  /\ UNCHANGED <<disk, asked, bounds, setup>>

-----------------------------------------------------------------------------
(* Reading the inputs; other people may edit between any two reads.        *)

\* A start loads the ticket, a resume run.json first.
Begin(p, how) ==
  /\ pc[p] = "idle" /\ files["ticket"] \notin {None, Broken}
  /\ how \in Entrances => Reopens(how)
  /\ pc' = [pc EXCEPT ![p] = "resolve"]
  /\ entrance' = [entrance EXCEPT ![p] = how]
  /\ held' = [held EXCEPT ![p].ticket = files["ticket"]]
  /\ view' = [view EXCEPT ![p] = IF how \in Entrances THEN run ELSE NoRun]
  /\ UNCHANGED <<disk, lock, opened, asked, bounds, setup>>

Resolve(p, a) ==
  /\ Goto(p, "resolve", "inspect") /\ Resolves(files, a)
  /\ LET e == Effective(files, a)
     IN held' = [held EXCEPT ![p].policy = e.policy, ![p].config = e.config,
                             ![p].repository = e.repository]
  /\ UNCHANGED <<disk, lock, entrance, opened, view, asked, bounds, setup>>

\* The path is walked and canonicalized.
InspectEval(p) ==
  /\ Goto(p, "inspect", "open")
  /\ opened' = [opened EXCEPT ![p] = files["evals"]]
  /\ UNCHANGED <<disk, lock, entrance, held, view, asked, bounds, setup>>

\* What is opened must be the file that was inspected.
OpenEval(p) ==
  /\ Goto(p, "open", "read")
  /\ opened' = [opened EXCEPT ![p] = files["evals"]]
  /\ UNCHANGED <<disk, lock, entrance, held, view, asked, bounds, setup>>

\* The path is walked again before the open file is read and parsed.
ReadEval(p) ==
  /\ Goto(p, "read", IF entrance[p] = "start" THEN "create" ELSE "recover")
  /\ held' = [held EXCEPT ![p].eval = Content[opened[p]]]
  /\ UNCHANGED <<disk, lock, entrance, opened, view, asked, bounds, setup>>

-----------------------------------------------------------------------------
(* A new run.                                                              *)

CreateDirectory(p) ==
  /\ Goto(p, "create", "publish")
  /\ directory' = TRUE
  /\ UNCHANGED <<files, run, layout, snapshots, lock, entrance, held, opened, view, asked,
                 bounds, setup>>

PublishRun(p) ==
  /\ Goto(p, "publish", "provision")
  /\ run' = [inputs |-> CurrentDigests(held[p]), lifecycle |-> "Provisioning", status |-> "Pending"]
  /\ UNCHANGED <<files, directory, layout, snapshots, lock, entrance, held, opened, view,
                 asked, bounds, setup>>

\* The directory goes again when nothing but the lock file is in it.
PublishRunFails(p) ==
  /\ pc[p] = "publish" /\ faults < MaxFaults
  /\ directory' = FALSE
  /\ Ends(p)
  /\ faults' = faults + 1
  /\ UNCHANGED <<files, run, layout, snapshots, asked, edits, setup>>

\* The worktree is created or adopted, and the run becomes Active.
Provision(p) ==
  /\ Goto(p, "provision", "scaffold")
  /\ run' = [run EXCEPT !.lifecycle = "Active"]
  /\ view' = [view EXCEPT ![p] = run']
  /\ UNCHANGED <<files, directory, layout, snapshots, lock, entrance, held, opened, asked,
                 bounds, setup>>

-----------------------------------------------------------------------------
(* A run taken up again.                                                   *)

ResumeIsolated(p) ==
  /\ Goto(p, "recover", IF view[p].lifecycle = "Provisioning" THEN "provision" ELSE "scaffold")
  /\ UNCHANGED <<disk, lock, entrance, held, opened, view, asked, bounds, setup>>

-----------------------------------------------------------------------------
(* Scaffold, snapshots, provider.                                          *)

Lock(p, from, to) ==
  /\ lock = None /\ Goto(p, from, to)
  /\ lock' = p
  /\ UNCHANGED <<disk, entrance, held, opened, view, asked, bounds, setup>>

Unlock(p, from, to) ==
  /\ Goto(p, from, to)
  /\ lock' = None
  /\ UNCHANGED <<disk, entrance, held, opened, view, asked, bounds, setup>>

\* Existing directories and files are kept, missing ones are added in order.
ScaffoldNext(p) ==
  /\ pc[p] = "layout" /\ layout < Len(Layout)
  /\ layout' = layout + 1
  /\ UNCHANGED <<files, directory, run, snapshots, lock, local, asked, bounds, setup>>

Scaffold(p) ==
  \/ Lock(p, "scaffold", "layout")
  \/ ScaffoldNext(p)
  \/ layout = Len(Layout) /\ Unlock(p, "layout", "preflight")

\* publish_authoritative_inputs compares before it takes the lock.
PreflightInputs(p) ==
  /\ Goto(p, "preflight", "lock")
  /\ UNCHANGED <<disk, lock, entrance, held, opened, view, asked, bounds, setup>>

\* Publication is create-only: the same bytes are accepted, others refused.
PublishSnapshot(p) ==
  /\ pc[p] = "snapshots" /\ IsPrefix(snapshots, Entries(held[p]))
  /\ Len(snapshots) < Len(Entries(held[p]))
  /\ snapshots' = Append(snapshots, Entries(held[p])[Len(snapshots) + 1])
  /\ UNCHANGED <<files, directory, run, layout, lock, local, asked, bounds, setup>>

\* Defective variant: a set of snapshots that was begun is taken for complete.
AnyPublished(p) == snapshots # <<>>

AllPublished(p) == Len(snapshots) = Len(Entries(held[p]))

PublishInputs(p) ==
  \/ Lock(p, "lock", "snapshots")
  \/ ~AllPublished(p) /\ PublishSnapshot(p)
  \/ AllPublished(p) /\ Unlock(p, "snapshots", "ask")

\* The provider is asked under the inputs the command holds in memory.
AskProvider(p) ==
  /\ pc[p] = "ask" /\ Wants(p)
  /\ run' = [run EXCEPT !.status = "Running"]
  /\ asked' = asked \cup {held[p]}
  /\ Ends(p)
  /\ UNCHANGED <<files, directory, layout, snapshots, bounds, setup>>

-----------------------------------------------------------------------------
(* The world.                                                              *)

Edit ==
  /\ edits < MaxEdits
  /\ \E change \in Changes : /\ files[change[1]] # change[2]
                             /\ files' = [files EXCEPT ![change[1]] = change[2]]
  /\ edits' = edits + 1
  /\ UNCHANGED <<directory, run, layout, snapshots, lock, local, asked, faults, setup>>

Crash(p) ==
  /\ pc[p] # "idle" /\ faults < MaxFaults
  /\ faults' = faults + 1
  /\ Ends(p)
  /\ UNCHANGED <<disk, asked, edits, setup>>

Init ==
  /\ SetupInit
  /\ directory = FALSE /\ run = NoRun /\ layout = 0 /\ snapshots = <<>>
  /\ lock = None
  /\ pc = [p \in Procs |-> "idle"] /\ entrance = [p \in Procs |-> None]
  /\ held = [p \in Procs |-> NoInputs]
  /\ opened = [p \in Procs |-> None] /\ view = [p \in Procs |-> NoRun]
  /\ asked = {} /\ edits = 0

Step(p) ==
  \/ InspectEval(p) \/ OpenEval(p) \/ ReadEval(p)
  \/ CreateDirectory(p) \/ PublishRun(p) \/ Provision(p)
  \/ ResumeIsolated(p) \/ Scaffold(p) \/ PreflightInputs(p) \/ PublishInputs(p) \/ AskProvider(p)

Next ==
  \/ \E p \in Procs :
       \/ p \in Starters /\ Begin(p, "start")
       \/ \E how \in Entrances : Begin(p, how)
       \/ \E a \in Arguments : Resolve(p, a)
       \/ Step(p) \/ Refuse(p) \/ PublishRunFails(p) \/ Crash(p)
  \/ Edit
  \/ \E i \in Inits :
       /\ Setup(i)
       /\ UNCHANGED <<directory, run, layout, snapshots, lock, local, asked, edits>>

Spec == Init /\ [][Next]_vars

\* A command that runs goes on, and somebody who is not starting runs keeps
\* resuming this one, with every set of arguments again and again.
Fairness ==
  /\ \A p \in Procs : WF_vars(Step(p)) /\ WF_vars(Refuse(p))
  /\ \A p \in Procs \ Starters :
       /\ \A how \in Entrances : SF_vars(Begin(p, how))
       /\ \A a \in Arguments : SF_vars(Resolve(p, a))

FairSpec == Spec /\ Fairness

-----------------------------------------------------------------------------
(* Properties.                                                             *)

TypeOK ==
  /\ SetupTypes /\ files["evals"] \in DOMAIN Content \cup {None} /\ edits \in Nat
  /\ directory \in BOOLEAN /\ layout \in 0 .. Len(Layout) /\ lock \in Procs \cup {None}
  /\ DOMAIN pc = Procs /\ DOMAIN entrance = Procs /\ DOMAIN opened = Procs
  /\ DOMAIN view = Procs /\ DOMAIN held = Procs
  /\ \A p \in Procs : DOMAIN held[p] = DOMAIN NoInputs

\* However many run it, and whatever fails, `seaf init` leaves the planned
\* files whole or takes all of them back (create_init_with_rollback), as long
\* as nobody else edits and no init is killed.
InitIsWhole ==
  (\A i \in Inits : phase[i] \in {"new", "over"}) /\ ~died /\ edits = 0 => Whole

\* The snapshots on disk are, at every moment and whoever publishes them, a
\* prefix of what run.json recorded when the run was created, and no secret is
\* among them (ensure_authoritative_run_inputs, over all crashes, edits and
\* entrances).
RecordedPrefix ==
  snapshots # <<>> =>
    /\ run # NoRun /\ ExactPrefix(Expected(run.inputs))
    /\ ToSet(snapshots) \cap Prohibited = {}

\* A provider is asked only for the inputs the run recorded, and only when
\* all six snapshots are on disk for the phases that read them back
\* (load_verified_authoritative_run_inputs).
AskedAsRecorded ==
  \A i \in asked : CurrentDigests(i) = run.inputs /\ LoadsVerified(run.inputs)

\* No command takes up the content of an eval config file that was reached
\* through a symlink, however the path changes while it is opened
\* (load_authoritative_eval_config_with_hook).
EvalIsRepositoryFile ==
  \A p \in Procs : held[p].eval # None =>
    \E file \in DOMAIN Content \ Aliases : Content[file] = held[p].eval

\* The files people have now still give the inputs the run recorded.
StillRecorded ==
  /\ run # NoRun /\ files["ticket"] = run.inputs.ticket
  /\ RealFile(files["evals"]) /\ Content[files["evals"]] = run.inputs.eval_config
  /\ \E a \in Arguments :
       /\ Resolves(files, a)
       /\ \A name \in DOMAIN Effective(files, a) : Effective(files, a)[name] = run.inputs[name]

\* A start that died after it published run.json is completed by resuming it
\* with the inputs it recorded, and the provider is asked: "Exact crash
\* prefixes converge" (docs/production-use-implementation-plan.md).
InterruptedStartConverges == <>[]StillRecorded => <>(asked # {})

-----------------------------------------------------------------------------
(* The inductive invariant: what run.json is, what each command may rely   *)
(* on at each of its steps, and what is on disk.                           *)

IsDigests(d) ==
  d = [ticket |-> d.ticket, policy |-> d.policy, config |-> d.config,
       repository |-> d.repository, eval_config |-> d.eval_config]

RunStands ==
  IF run = NoRun THEN snapshots = <<>> /\ asked = {}
  ELSE /\ directory /\ DOMAIN run = {"inputs", "lifecycle", "status"} /\ IsDigests(run.inputs)
       /\ run.lifecycle \in {"Provisioning", "Active"}

\* A resume holds the run.json that is there, except for what may change in it.
ResumesThis(p) ==
  pc[p] \in {"resolve", "inspect", "open", "read", "recover"} /\ entrance[p] # "start" =>
    run # NoRun /\ view[p].inputs = run.inputs

Holds(p) == Entries(held[p]) = Expected(run.inputs) /\ ToSet(Entries(held[p])) \cap Prohibited = {}

Relies(p) ==
  /\ pc[p] = "publish" =>
       /\ directory /\ run = NoRun /\ ToSet(Entries(held[p])) \cap Prohibited = {}
       /\ \A q \in Procs : pc[q] = "publish" => q = p
  /\ pc[p] = "recover" => entrance[p] # "start"
  /\ ResumesThis(p)
  /\ pc[p] \in {"provision", "scaffold", "layout", "preflight", "lock", "snapshots", "ask"} =>
       run # NoRun /\ Holds(p)
  /\ pc[p] = "ask" => Len(snapshots) = 6

SnapshotsStand ==
  /\ Len(snapshots) \in 0 .. 6
  /\ run # NoRun => snapshots = SubSeq(Expected(run.inputs), 1, Len(snapshots))
  /\ \A k \in 1 .. Len(snapshots) : snapshots[k] \notin Prohibited

AskedStands ==
  \A i \in asked : Len(snapshots) = 6 /\ CurrentDigests(i) = run.inputs

IInv ==
  /\ TypeOK /\ (edits = 0 /\ ~died => Undisturbed)
  /\ RunStands /\ SnapshotsStand /\ AskedStands /\ EvalIsRepositoryFile
  /\ \A p \in Procs : Relies(p)

=============================================================================
