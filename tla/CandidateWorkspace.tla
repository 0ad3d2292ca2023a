------------------------- MODULE CandidateWorkspace -------------------------
(***************************************************************************)
(* The candidate of an isolated run: a detached Git worktree that is        *)
(* provisioned, patched once and removed, by commands that may die or fail  *)
(* between, and within, the Git commands they start.                        *)
(*                                                                         *)
(* A candidate is a path, a registration in the repository, an index and    *)
(* the files.  Git changes them one after the other, so that a death leaves *)
(* mixtures; run.json says which of them are to be believed.                *)
(***************************************************************************)
EXTENDS Naturals

CONSTANTS
  Runs,
  Processes,
  Places,      \* paths below the private candidate directory
  Place,       \* run -> the path that its identifier determines
  Files,
  Bytes,       \* what a file may contain
  Base,        \* file -> bytes: the tree at the starting HEAD
  Patched,     \* file -> bytes: the same tree with the patch of Development
  Missing,     \* no such file
  Torn,        \* a file that was not written completely
  Nobody,      \* no process
  MaxFaults    \* bound: deaths and I/O errors

Trees == [Files -> Bytes \cup {Missing}]

ASSUME CandidateAssumption ==
  /\ Place \in [Runs -> Places]
  /\ Base \in Trees /\ Patched \in Trees /\ Base # Patched
  /\ Missing \notin Bytes /\ Torn \notin Bytes \cup {Missing}
  /\ Nobody \notin Processes
  /\ MaxFaults \in Nat

Nowhere == [f \in Files |-> Missing]

Changed == {f \in Files : Base[f] # Patched[f]}

\* Frozen: AwaitingHumanReview, Approved, EvalPassed, Promoted.
\* Ended: Failed, Blocked, Passed, Completed.
Statuses == {"Pending", "Running", "Frozen", "Ended"}
Lifecycles == {"Provisioning", "Active", "Cleaning", "Cleaned"}
Phases == {"None", "Applying", "Applied"}

LoopRun == [status : Statuses, developed : BOOLEAN, lifecycle : Lifecycles, phase : Phases]

Candidate == [path : {"absent", "public", "private"}, registered : BOOLEAN,
              index : Trees, files : [Files -> Bytes \cup {Missing, Torn}],
              foreign : BOOLEAN]

Commands == {"provision", "apply", "cleanup"}

Points == {"idle", "locking", "admitted", "repository", "place", "register", "private",
           "readtree", "materialize", "index", "clear", "fill", "retire", "survey",
           "delete", "deregister", "publish"}

\* What a command publishes next: a lifecycle or a phase.
Publications == {"Active", "Applying", "Applied", "Cleaning", "Cleaned"}

Call == [at : Points, command : Commands, run : Runs, loaded : LoopRun,
         next : Publications]

VARIABLES
  run,             \* run -> its run.json
  candidate,       \* path -> what is there
  moved,           \* the HEAD of the source checkout is not the starting HEAD
  candidateLock,   \* run -> the owner of candidate-workspace.lock
  repositoryLock,  \* the owner of the lock shared by the runs of the repository
  call,            \* process -> the command it is in
  faults           \* how often a process died or failed

vars == <<run, candidate, moved, candidateLock, repositoryLock, call, faults>>

Planned == [status |-> "Pending", developed |-> FALSE, lifecycle |-> "Provisioning",
            phase |-> "None"]

NoCandidate == [path |-> "absent", registered |-> FALSE, index |-> Nowhere,
                files |-> Nowhere, foreign |-> FALSE]

AtRest(r) == [at |-> "idle", command |-> "provision", run |-> r, loaded |-> Planned,
              next |-> "Active"]

Idle(p) == call[p].at = "idle"

Init ==
  /\ run = [r \in Runs |-> Planned]
  /\ candidate = [x \in Places |-> NoCandidate]
  /\ moved = FALSE
  /\ candidateLock = [r \in Runs |-> Nobody]
  /\ repositoryLock = Nobody
  /\ \E r \in Runs : call = [p \in Processes |-> AtRest(r)]
  /\ faults = 0

-----------------------------------------------------------------------------
(* What the commands observe.                                              *)

TreeOf(r) == IF r.phase = "Applied" THEN Patched ELSE Base

\* The tracked part of a candidate is exactly a tree.
Holds(c, tree) ==
  /\ c.path = "private" /\ c.registered
  /\ c.index = tree /\ c.files = tree

\* Defective variant: untracked files are not looked for.
TrackedExact(c, tree) == Holds(c, tree)

Exact(c, tree) == Holds(c, tree) /\ ~c.foreign

Gone(c) == c.path = "absent" /\ ~c.registered

-----------------------------------------------------------------------------
(* Control.                                                                *)

There(p) == candidate[Place[call[p].run]]

Change(p, c) == candidate' = [candidate EXCEPT ![Place[call[p].run]] = c]

GoTo(p, at) == call' = [call EXCEPT ![p].at = at]

ToPublish(p, what) == call' = [call EXCEPT ![p].at = "publish", ![p].next = what]

ReleaseRepository(p) ==
  repositoryLock' = IF repositoryLock = p THEN Nobody ELSE repositoryLock

\* The end of a command, with or without an error: its locks are released.
Return(p) ==
  /\ candidateLock' = [r \in Runs |-> IF candidateLock[r] = p THEN Nobody
                                                              ELSE candidateLock[r]]
  /\ ReleaseRepository(p)
  /\ call' = [call EXCEPT ![p] = AtRest(@.run)]

locks == <<candidateLock, repositoryLock>>
world == <<moved, faults>>

Start(p, command, r) ==
  /\ Idle(p)
  /\ call' = [call EXCEPT ![p] = [AtRest(r) EXCEPT !.at = "locking", !.command = command]]
  /\ UNCHANGED <<run, candidate, world, locks>>

\* The run is loaded again under the lock.
AcquireLock(p) ==
  /\ call[p].at = "locking"
  /\ candidateLock[call[p].run] = Nobody
  /\ candidateLock' = [candidateLock EXCEPT ![call[p].run] = p]
  /\ call' = [call EXCEPT ![p].at = "admitted", ![p].loaded = run[call[p].run]]
  /\ UNCHANGED <<run, candidate, world, repositoryLock>>

AcquireRepositoryLock(p) ==
  /\ call[p].at = "repository"
  /\ repositoryLock = Nobody
  /\ repositoryLock' = p
  /\ GoTo(p, IF call[p].command = "provision" THEN "place" ELSE "retire")
  /\ UNCHANGED <<run, candidate, world, candidateLock>>

-----------------------------------------------------------------------------
(* provision_candidate_workspace.                                          *)

\* An Active candidate is validated and nothing changes.
Provision(p) ==
  /\ call[p].at = "admitted" /\ call[p].command = "provision"
  /\ IF call[p].loaded.lifecycle = "Provisioning" /\ ~moved
       THEN GoTo(p, "repository") /\ UNCHANGED locks
       ELSE Return(p)
  /\ UNCHANGED <<run, candidate, world>>

\* Defective variant: a registered worktree is adopted for its HEAD alone.
AdoptByHead(p) ==
  /\ call[p].at = "place"
  /\ There(p).path # "absent"
  /\ IF There(p).registered
       THEN ReleaseRepository(p) /\ ToPublish(p, "Active") /\ UNCHANGED candidateLock
       ELSE Return(p)
  /\ UNCHANGED <<run, candidate, world>>

\* What is at the path already is adopted if it is exact, and otherwise left alone.
Adopt(p) ==
  /\ call[p].at = "place"
  /\ There(p).path # "absent"
  /\ IF Exact(There(p), Base)
       THEN ReleaseRepository(p) /\ ToPublish(p, "Active") /\ UNCHANGED candidateLock
       ELSE Return(p)
  /\ UNCHANGED <<run, candidate, world>>

\* git worktree add --no-checkout: the directory, then its registration.  Git
\* refuses a path that is registered and missing.
AddWorktree(p) ==
  /\ call[p].at = "place"
  /\ There(p).path = "absent"
  /\ IF There(p).registered
       THEN Return(p) /\ UNCHANGED candidate
       ELSE Change(p, [There(p) EXCEPT !.path = "public"]) /\ GoTo(p, "register")
            /\ UNCHANGED locks
  /\ UNCHANGED <<run, world>>

Register(p) ==
  /\ call[p].at = "register"
  /\ Change(p, [There(p) EXCEPT !.registered = TRUE])
  /\ GoTo(p, "private")
  /\ UNCHANGED <<run, world, locks>>

MakePrivate(p) ==
  /\ call[p].at = "private"
  /\ Change(p, [There(p) EXCEPT !.path = "private"])
  /\ GoTo(p, "readtree")
  /\ UNCHANGED <<run, world, locks>>

ReadTree(p) ==
  /\ call[p].at = "readtree"
  /\ Change(p, [There(p) EXCEPT !.index = Base])
  /\ GoTo(p, "materialize")
  /\ UNCHANGED <<run, world, locks>>

\* The indexed files among fs that are not there yet.
ToWrite(c, fs) == {f \in fs : c.index[f] # Missing /\ c.files[f] = Missing}

Write(p, f) == Change(p, [There(p) EXCEPT !.files[f] = There(p).index[f]])

Materialize(p) ==
  /\ call[p].at = "materialize"
  /\ \E f \in ToWrite(There(p), Files) : Write(p, f)
  /\ UNCHANGED <<run, world, locks, call>>

\* The new candidate is validated, and removed again if it is not exact.
Materialized(p) ==
  /\ call[p].at = "materialize"
  /\ ToWrite(There(p), Files) = {}
  /\ IF Exact(There(p), Base) /\ ~moved
       THEN ReleaseRepository(p) /\ ToPublish(p, "Active")
       ELSE GoTo(p, "delete") /\ UNCHANGED repositoryLock
  /\ UNCHANGED <<run, candidate, world, candidateLock>>

-----------------------------------------------------------------------------
(* apply_candidate_development_evidence.                                   *)

MayApply(p) ==
  LET r == call[p].loaded IN
  /\ r.status = "Running" /\ r.developed /\ r.lifecycle = "Active"
  /\ ~moved
  /\ There(p).path = "private" /\ There(p).registered

\* Published Applying comes before the first change of the candidate.
Apply(p) ==
  /\ call[p].at = "admitted" /\ call[p].command = "apply"
  /\ \/ /\ MayApply(p) /\ call[p].loaded.phase = "None" /\ Exact(There(p), Base)
        /\ ToPublish(p, "Applying")
        /\ UNCHANGED locks
     \/ /\ MayApply(p) /\ call[p].loaded.phase = "Applying"
        /\ GoTo(p, "index")
        /\ UNCHANGED locks
     \/ /\ ~MayApply(p) \/ call[p].loaded.phase = "Applied"
           \/ (call[p].loaded.phase = "None" /\ ~Exact(There(p), Base))
        /\ Return(p)
  /\ UNCHANGED <<run, candidate, world>>

Matches(c) == \A f \in Files : c.index[f] # Missing => c.files[f] = c.index[f]

\* Defective variant: a retry stages what it finds in the files.
StageFiles(p) ==
  /\ call[p].at = "index"
  /\ Change(p, [There(p) EXCEPT !.index = IF @ = Base THEN Patched ELSE There(p).files])
  /\ GoTo(p, "clear")
  /\ UNCHANGED <<run, world, locks>>

\* Defective variant: only a pristine index is accepted.
StageOnce(p) ==
  /\ call[p].at = "index"
  /\ IF There(p).index = Base /\ Matches(There(p))
       THEN /\ Change(p, [There(p) EXCEPT !.index = Patched])
            /\ GoTo(p, "clear")
            /\ UNCHANGED locks
       ELSE Return(p) /\ UNCHANGED candidate
  /\ UNCHANGED <<run, world>>

\* Defective variant: a staged patch is taken to be in the files as well.
StagedIsApplied(p) ==
  /\ call[p].at = "index"
  /\ \/ /\ There(p).index = Base /\ Matches(There(p))
        /\ Change(p, [There(p) EXCEPT !.index = Patched])
        /\ GoTo(p, "clear")
     \/ /\ There(p).index = Patched
        /\ ToPublish(p, "Applied")
        /\ UNCHANGED candidate
  /\ UNCHANGED <<run, world, locks>>

\* git apply --cached, unless an earlier attempt came so far.
Stage(p) ==
  /\ call[p].at = "index"
  /\ IF (There(p).index = Base /\ Matches(There(p))) \/ There(p).index = Patched
       THEN /\ Change(p, [There(p) EXCEPT !.index = Patched])
            /\ GoTo(p, "clear")
            /\ UNCHANGED locks
       ELSE Return(p) /\ UNCHANGED candidate
  /\ UNCHANGED <<run, world>>

ToClear(c, fs) == {f \in fs : c.files[f] # Missing}

Erase(p, f) == Change(p, [There(p) EXCEPT !.files[f] = Missing])

\* Defective variant: every file is removed, and only the changed ones come back.
ClearAll(p) ==
  /\ call[p].at = "clear"
  /\ \/ \E f \in ToClear(There(p), Files) : Erase(p, f) /\ UNCHANGED call
     \/ ToClear(There(p), Files) = {} /\ GoTo(p, "fill") /\ UNCHANGED candidate
  /\ UNCHANGED <<run, world, locks>>

Clear(p) ==
  /\ call[p].at = "clear"
  /\ \/ \E f \in ToClear(There(p), Changed) : Erase(p, f) /\ UNCHANGED call
     \/ ToClear(There(p), Changed) = {} /\ GoTo(p, "fill") /\ UNCHANGED candidate
  /\ UNCHANGED <<run, world, locks>>

Fill(p) ==
  /\ call[p].at = "fill"
  /\ \E f \in ToWrite(There(p), Changed) : Write(p, f)
  /\ UNCHANGED <<run, world, locks, call>>

Filled(p) ==
  /\ call[p].at = "fill"
  /\ ToWrite(There(p), Changed) = {}
  /\ IF There(p).index = Patched /\ Matches(There(p))
        /\ \A f \in Files : There(p).index[f] = Missing => There(p).files[f] = Missing
        /\ ~There(p).foreign
       THEN ToPublish(p, "Applied") /\ UNCHANGED locks
       ELSE Return(p)
  /\ UNCHANGED <<run, candidate, world>>

-----------------------------------------------------------------------------
(* cleanup_candidate_workspace.                                            *)

Cleanup(p) ==
  /\ call[p].at = "admitted" /\ call[p].command = "cleanup"
  /\ IF call[p].loaded.status = "Ended" /\ call[p].loaded.lifecycle # "Provisioning"
       THEN GoTo(p, "repository") /\ UNCHANGED locks
       ELSE Return(p)
  /\ UNCHANGED <<run, candidate, world>>

\* Cleaning is published before anything is removed.
Retire(p) ==
  LET r == call[p].loaded IN
  /\ call[p].at = "retire"
  /\ \/ /\ r.lifecycle = "Active" /\ Exact(There(p), TreeOf(r))
        /\ ToPublish(p, "Cleaning") /\ UNCHANGED locks
     \/ r.lifecycle = "Cleaning" /\ GoTo(p, "survey") /\ UNCHANGED locks
     \/ /\ r.lifecycle \notin {"Active", "Cleaning"}
             \/ (r.lifecycle = "Active" /\ ~Exact(There(p), TreeOf(r)))
        /\ Return(p)
  /\ UNCHANGED <<run, candidate, world>>

\* Defective variant: no path is taken for no candidate.
SurveyPath(p) ==
  /\ call[p].at = "survey"
  /\ \/ /\ Exact(There(p), TreeOf(call[p].loaded))
        /\ GoTo(p, "delete") /\ UNCHANGED locks
     \/ There(p).path = "absent" /\ ToPublish(p, "Cleaned") /\ UNCHANGED locks
     \/ /\ ~Exact(There(p), TreeOf(call[p].loaded)) /\ There(p).path # "absent"
        /\ Return(p)
  /\ UNCHANGED <<run, candidate, world>>

\* Everything there and exact, or nothing: what is in between is refused.
Survey(p) ==
  /\ call[p].at = "survey"
  /\ \/ /\ Exact(There(p), TreeOf(call[p].loaded))
        /\ GoTo(p, "delete") /\ UNCHANGED locks
     \/ Gone(There(p)) /\ ToPublish(p, "Cleaned") /\ UNCHANGED locks
     \/ /\ ~Exact(There(p), TreeOf(call[p].loaded)) /\ ~Gone(There(p))
        /\ Return(p)
  /\ UNCHANGED <<run, candidate, world>>

\* git worktree remove --force: the files, the directory, the registration.
Delete(p) ==
  /\ call[p].at = "delete"
  /\ \/ \E f \in ToClear(There(p), Files) : Erase(p, f) /\ UNCHANGED call
     \/ /\ ToClear(There(p), Files) = {}
        /\ Change(p, [There(p) EXCEPT !.path = "absent", !.foreign = FALSE])
        /\ GoTo(p, "deregister")
  /\ UNCHANGED <<run, world, locks>>

Deregister(p) ==
  /\ call[p].at = "deregister"
  /\ Change(p, [There(p) EXCEPT !.registered = FALSE, !.index = Nowhere])
  /\ IF call[p].command = "cleanup"
       THEN ToPublish(p, "Cleaned") /\ UNCHANGED locks
       ELSE Return(p)
  /\ UNCHANGED <<run, world>>

-----------------------------------------------------------------------------
(* persist_candidate_run: the whole run is compared with the loaded one.   *)

Intended(c) ==
  IF c.next \in Phases THEN [c.loaded EXCEPT !.phase = c.next]
                       ELSE [c.loaded EXCEPT !.lifecycle = c.next]

AfterPublish(p) ==
  IF call[p].next \in {"Applying", "Cleaning"}
    THEN /\ call' = [call EXCEPT ![p].loaded = Intended(call[p]),
                                 ![p].at = IF call[p].next = "Applying" THEN "index"
                                                                        ELSE "survey"]
         /\ UNCHANGED locks
    ELSE Return(p)

\* Defective variant: the run that was loaded is taken for the one that is there.
PublishBlindly(p) ==
  /\ call[p].at = "publish"
  /\ run' = [run EXCEPT ![call[p].run] = Intended(call[p])]
  /\ AfterPublish(p)
  /\ UNCHANGED <<candidate, world>>

Publish(p) ==
  /\ call[p].at = "publish"
  /\ IF run[call[p].run] = call[p].loaded
       THEN run' = [run EXCEPT ![call[p].run] = Intended(call[p])] /\ AfterPublish(p)
       ELSE Return(p) /\ UNCHANGED run
  /\ UNCHANGED <<candidate, world>>

-----------------------------------------------------------------------------
(* Faults.                                                                 *)

\* The file that a process died in is torn.
TornBy(p, c) ==
  {c} \cup (IF call[p].at \in {"materialize", "fill"}
              THEN {[c EXCEPT !.files[f] = Torn] :
                      f \in ToWrite(c, IF call[p].at = "fill" THEN Changed ELSE Files)}
              ELSE {})

Die(p) ==
  /\ ~Idle(p)
  /\ faults < MaxFaults /\ faults' = faults + 1
  /\ \E c \in TornBy(p, There(p)) : Change(p, c)
  /\ Return(p)
  /\ UNCHANGED <<run, moved>>

\* An I/O error.  A candidate under construction is rolled back; every other command
\* gives up where it is.
Fail(p) ==
  /\ call[p].at \notin {"idle", "locking"}
  /\ faults < MaxFaults /\ faults' = faults + 1
  /\ \E c \in TornBy(p, There(p)) : Change(p, c)
  /\ IF call[p].at \in {"private", "readtree", "materialize"}
       THEN GoTo(p, "delete") /\ UNCHANGED locks
       ELSE Return(p)
  /\ UNCHANGED <<run, moved>>

-----------------------------------------------------------------------------
(* The rest of the loop, the source checkout, and people.                  *)

Becomes(r, s) == run' = [run EXCEPT ![r] = s] /\ UNCHANGED <<candidate, world, locks, call>>

Begin(r) ==
  /\ run[r].lifecycle = "Active" /\ run[r].status = "Pending"
  /\ Becomes(r, [run[r] EXCEPT !.status = "Running"])

Develop(r) ==
  /\ run[r].lifecycle = "Active" /\ run[r].status = "Running" /\ ~run[r].developed
  /\ Becomes(r, [run[r] EXCEPT !.developed = TRUE])

\* After Development no step runs until the patch is applied.
StepEnds(r) ==
  /\ run[r].lifecycle = "Active" /\ run[r].status = "Running"
  /\ \/ ~run[r].developed /\ Becomes(r, [run[r] EXCEPT !.status = "Ended"])
     \/ /\ run[r].phase = "Applied"
        /\ \E s \in {"Ended", "Frozen"} : Becomes(r, [run[r] EXCEPT !.status = s])

EvaluationFails(r) ==
  /\ run[r].status = "Frozen"
  /\ Becomes(r, [run[r] EXCEPT !.status = "Ended"])

\* Defective variant: whether the candidate is still there is not asked.
RecoverWithoutCandidate(r) ==
  /\ run[r].status \in {"Ended", "Frozen"}
  /\ Becomes(r, [run[r] EXCEPT !.status = "Pending"])

\* A provider step is revised or run again.
Recover(r) ==
  /\ run[r].lifecycle = "Active" /\ run[r].status \in {"Ended", "Frozen"}
  /\ ~moved /\ Exact(candidate[Place[r]], TreeOf(run[r]))
  /\ Becomes(r, [run[r] EXCEPT !.status = "Pending"])

SourceMoves ==
  /\ moved' = ~moved
  /\ UNCHANGED <<run, candidate, locks, call, faults>>

\* Somebody leaves a file in a candidate, or a directory where one belongs, while no
\* command works on it.
Intrude(x) ==
  /\ ~candidate[x].foreign
  /\ repositoryLock = Nobody
  /\ \A r \in Runs : Place[r] = x => candidateLock[r] = Nobody
  /\ candidate' = [candidate EXCEPT ![x].foreign = TRUE,
                                    ![x].path = IF @ = "absent" THEN "public" ELSE @]
  /\ UNCHANGED <<run, world, locks, call>>

-----------------------------------------------------------------------------
Provisioning(p) ==
  \/ Provision(p) \/ Adopt(p) \/ AddWorktree(p) \/ Register(p) \/ MakePrivate(p)
  \/ ReadTree(p) \/ Materialize(p) \/ Materialized(p)

Application(p) == Apply(p) \/ Stage(p) \/ Clear(p) \/ Fill(p) \/ Filled(p)

Removal(p) == Cleanup(p) \/ Retire(p) \/ Survey(p) \/ Delete(p) \/ Deregister(p)

Progress(p) == Provisioning(p) \/ Application(p) \/ Removal(p) \/ Publish(p)

Loop(r) == Begin(r) \/ Develop(r) \/ StepEnds(r) \/ EvaluationFails(r) \/ Recover(r)

Next ==
  \/ \E p \in Processes :
       \/ \E command \in Commands, r \in Runs : Start(p, command, r)
       \/ AcquireLock(p) \/ AcquireRepositoryLock(p) \/ Progress(p)
       \/ Die(p) \/ Fail(p)
  \/ \E r \in Runs : Loop(r)
  \/ SourceMoves
  \/ \E x \in Places : Intrude(x)

Spec == Init /\ [][Next]_vars

\* A process that has not died goes on, a lock that is free again and again is
\* granted, and somebody resumes every run again and again.
Fairness ==
  /\ \A p \in Processes : WF_vars(Progress(p))
  /\ \A p \in Processes : SF_vars(AcquireLock(p)) /\ SF_vars(AcquireRepositoryLock(p))
  /\ \A r \in Runs : SF_vars(\E p \in Processes : Start(p, "apply", r))

FairSpec == Spec /\ Fairness

-----------------------------------------------------------------------------
(* Properties.                                                             *)

TypeOK ==
  /\ run \in [Runs -> LoopRun]
  /\ candidate \in [Places -> Candidate]
  /\ moved \in BOOLEAN
  /\ candidateLock \in [Runs -> Processes \cup {Nobody}]
  /\ repositoryLock \in Processes \cup {Nobody}
  /\ call \in [Processes -> Call]
  /\ faults \in 0..MaxFaults

\* A run that says Active without an open patch, or Applied, has a private, registered
\* candidate whose index and files are exactly the tree it says, at every moment and
\* whatever died.
PublishedIsPhysical ==
  \A r \in Runs :
    run[r].lifecycle = "Active" /\ run[r].phase # "Applying" =>
      Holds(candidate[Place[r]], TreeOf(run[r]))

Recoverable(c) ==
  \/ Holds(c, Base)
  \/ /\ c.path = "private" /\ c.registered /\ c.index = Patched
     /\ \A f \in Files \ Changed : c.files[f] = Patched[f]

\* From wherever an application was interrupted, the next one can go on: the index is
\* the old or the new tree, and every file the patch does not touch is in place.
IntentIsRecoverable ==
  \A r \in Runs : run[r].phase = "Applying" => Recoverable(candidate[Place[r]])

\* A run that says Cleaned has neither files nor a registration.
CleanedIsGone ==
  \A r \in Runs :
    run[r].lifecycle = "Cleaned" =>
      ~candidate[Place[r]].registered /\ candidate[Place[r]].files = Nowhere

\* No cleanup gets ahead of a recovery: a run that can still work, or that is under
\* review, has not begun to remove its candidate.
OnlyEndedRunsRetire ==
  \A r \in Runs :
    run[r].lifecycle \in {"Cleaning", "Cleaned"} => run[r].status = "Ended"

\* Removal comes last, and removes everything.
RemovalIsFinal == CleanedIsGone /\ OnlyEndedRunsRetire

\* No command about the candidate takes back what the loop or an operator did to the
\* run since the command loaded it.
NoTransitionLost ==
  [][\A r \in Runs :
       run'[r].lifecycle # run[r].lifecycle \/ run'[r].phase # run[r].phase =>
         run'[r].status = run[r].status /\ run'[r].developed = run[r].developed]_vars

\* What somebody else left in a candidate is never removed with it.
ForeignStays ==
  [][\A x \in Places : candidate[x].foreign => candidate'[x].foreign]_vars

\* Seen through run.json, a candidate appears at its starting tree, becomes the patched
\* tree and disappears, each in one step.
Visible(r) ==
  CASE run[r].lifecycle = "Provisioning" -> <<"planned">>
    [] run[r].lifecycle = "Active" ->
         IF run[r].phase = "Applying" THEN <<"patching">>
                                      ELSE <<"tree", candidate[Place[r]].files>>
    [] run[r].lifecycle = "Cleaning" -> <<"removing">>
    [] run[r].lifecycle = "Cleaned" -> <<"gone">>

Tree == INSTANCE CandidateTree WITH visible <- [r \in Runs |-> Visible(r)]
IsTree == Tree!Spec

\* A run that was interrupted while it applied its patch ends Applied if it is
\* resumed, unless the source moved or something foreign is in the candidate.
ApplyingConverges ==
  \A r \in Runs :
    run[r].phase = "Applying" ~>
      run[r].phase = "Applied" \/ moved \/ candidate[Place[r]].foreign

\* docs/production-use-implementation-plan.md: cleanup "reconciles interrupted removal
\* to retained cleaned evidence": whenever nobody is at work, a run that says Cleaning
\* has a candidate that the next cleanup accepts.
InterruptedRemovalReconciles ==
  \A r \in Runs :
    run[r].lifecycle = "Cleaning" /\ candidateLock[r] = Nobody =>
      \/ Holds(candidate[Place[r]], TreeOf(run[r]))
      \/ candidate[Place[r]].foreign
      \/ Gone(candidate[Place[r]])

\* docs/production-use-implementation-plan.md: "Bind candidate authority to the
\* canonical original run directory before exposing destructive cleanup": one
\* candidate has one run that may patch and remove it.
OneAuthority ==
  \A r, s \in Runs :
    run[r].lifecycle = "Active" /\ run[s].lifecycle = "Active" /\ Place[r] = Place[s] =>
      r = s

-----------------------------------------------------------------------------
(* The inductive invariant, for runs with different paths.  A candidate is *)
(* only changed by the process that holds the lock of its run, and that    *)
(* process knows how far the run has gone.                                 *)

PlacesDiffer == \A r, s \in Runs : Place[r] = Place[s] => r = s

Outside == {"idle", "locking"}

\* s: a run; c: what is at its path.
RunFact(s, c) ==
  /\ s.lifecycle = "Provisioning" => s.phase = "None"
  /\ s.phase = "Applying" => s.lifecycle = "Active" /\ s.status = "Running" /\ s.developed
  /\ s.lifecycle \in {"Cleaning", "Cleaned"} => s.status = "Ended"
  /\ s.lifecycle = "Active" /\ s.phase # "Applying" => Holds(c, TreeOf(s))
  /\ s.phase = "Applying" => Recoverable(c)
  /\ s.lifecycle = "Cleaned" => ~c.registered /\ c.files = Nowhere
  /\ c.path = "absent" => c.files = Nowhere /\ ~c.foreign

\* What a command has established when it comes to publish.
PublishFact(k, c) ==
  /\ k.next = "Active" => k.loaded.lifecycle = "Provisioning" /\ Holds(c, Base)
  /\ k.next = "Applying" =>
       /\ k.loaded.lifecycle = "Active" /\ k.loaded.phase = "None"
       /\ k.loaded.status = "Running" /\ k.loaded.developed
  /\ k.next = "Applied" => k.loaded.phase = "Applying" /\ Holds(c, Patched)
  /\ k.next = "Cleaning" =>
       k.command = "cleanup" /\ k.loaded.lifecycle = "Active" /\ k.loaded.status = "Ended"
  /\ k.next = "Cleaned" =>
       k.loaded.lifecycle = "Cleaning" /\ ~c.registered /\ c.files = Nowhere

\* k: a command under the candidate lock; s: its run; c: what is at the path.
CommandFact(k, s, c) ==
  /\ s.lifecycle = k.loaded.lifecycle /\ s.phase = k.loaded.phase
  /\ k.at = "repository" =>
       \/ k.command = "provision" /\ k.loaded.lifecycle = "Provisioning"
       \/ k.command = "cleanup" /\ k.loaded.status = "Ended"
  /\ k.at \in {"place", "register", "private", "readtree", "materialize"} =>
       k.command = "provision" /\ k.loaded.lifecycle = "Provisioning"
  /\ k.at \in {"readtree", "materialize"} => c.path = "private"
  /\ k.at \in {"register", "private", "readtree", "materialize", "delete"} => ~c.foreign
  /\ k.at \in {"index", "clear", "fill"} => k.loaded.phase = "Applying"
  /\ k.at \in {"clear", "fill"} => c.index = Patched
  /\ k.at = "retire" => k.command = "cleanup" /\ k.loaded.status = "Ended"
  /\ k.at = "survey" => k.command = "cleanup" /\ k.loaded.lifecycle = "Cleaning"
  /\ k.at \in {"delete", "deregister"} =>
       \/ k.command = "provision" /\ k.loaded.lifecycle = "Provisioning"
       \/ k.command = "cleanup" /\ k.loaded.lifecycle = "Cleaning"
  /\ k.at = "deregister" => c.files = Nowhere
  /\ k.at = "publish" => PublishFact(k, c)

RunOK(r) == RunFact(run[r], candidate[Place[r]])

CallOK(p) ==
  call[p].at \notin Outside =>
    /\ candidateLock[call[p].run] = p
    /\ CommandFact(call[p], run[call[p].run], There(p))

IInv ==
  /\ TypeOK
  /\ \A r \in Runs : RunOK(r)
  /\ \A p \in Processes : CallOK(p)
=============================================================================
