---------------------- MODULE CandidateWorkspaceProofs ----------------------
(***************************************************************************)
(* Runs with different candidate paths: run.json never says more of a       *)
(* candidate than is there, whatever processes die in whatever Git command. *)
(***************************************************************************)
EXTENDS CandidateWorkspace, TLAPS

-----------------------------------------------------------------------------
(* What the invariant says of one process.                                 *)

LEMMA Own ==
  ASSUME IInv, NEW p \in Processes
  PROVE  /\ call[p] \in Call /\ call[p].run \in Runs /\ Place[call[p].run] \in Places
         /\ There(p) \in Candidate /\ run[call[p].run] \in LoopRun
         /\ RunFact(run[call[p].run], There(p))
         /\ call[p].at \notin Outside =>
              /\ candidateLock[call[p].run] = p
              /\ CommandFact(call[p], run[call[p].run], There(p))
<1>1. call[p] \in Call /\ call[p].run \in Runs
  BY DEF IInv, TypeOK, Call
<1>2. Place[call[p].run] \in Places
  BY <1>1, CandidateAssumption
<1>3. There(p) \in Candidate /\ run[call[p].run] \in LoopRun
  BY <1>1, <1>2 DEF There, IInv, TypeOK
<1>4. RunFact(run[call[p].run], There(p))
  BY <1>1 DEF IInv, RunOK, There
<1>5. QED
  BY <1>1, <1>2, <1>3, <1>4 DEF IInv, CallOK

LEMMA Still ==
  ASSUME IInv, NEW p \in Processes, UNCHANGED candidate
  PROVE  Change(p, There(p))
  BY Own DEF Change, There, IInv, TypeOK

LEMMA RunStill ==
  ASSUME IInv, NEW p \in Processes, UNCHANGED run
  PROVE  run' = [run EXCEPT ![call[p].run] = run[call[p].run]]
  BY Own DEF IInv, TypeOK

\* p, which owns the lock of its run or changes nothing, leaves its run at s, the
\* candidate at c and its call at k, and takes no lock away from another process.
Leaves(p, s, c, k) ==
  /\ s \in LoopRun /\ run' = [run EXCEPT ![call[p].run] = s]
  /\ c \in Candidate /\ Change(p, c)
  /\ k \in Call /\ call' = [call EXCEPT ![p] = k]
  /\ \/ candidateLock[call[p].run] = p
     \/ s = run[call[p].run] /\ c = There(p)
  /\ moved' \in BOOLEAN /\ faults' \in 0 .. MaxFaults
  /\ repositoryLock' \in Processes \cup {Nobody}
  /\ candidateLock' \in [Runs -> Processes \cup {Nobody}]
  /\ \A r \in Runs, q \in Processes \ {p} : candidateLock[r] = q => candidateLock'[r] = q

LEMMA OwnStep ==
  ASSUME PlacesDiffer, IInv, NEW p \in Processes, NEW s, NEW c, NEW k,
         Leaves(p, s, c, k), RunFact(s, c),
         k.at \notin Outside =>
           k.run = call[p].run /\ candidateLock'[k.run] = p /\ CommandFact(k, s, c)
  PROVE  IInv'
<1> USE DEF Leaves
<1> DEFINE r == call[p].run
<1>1. /\ r \in Runs /\ Place[r] \in Places
      /\ run' \in [Runs -> LoopRun] /\ run'[r] = s
      /\ candidate' \in [Places -> Candidate] /\ candidate'[Place[r]] = c
      /\ call' \in [Processes -> Call] /\ call'[p] = k
  BY Own DEF IInv, TypeOK, Change
<1>3. TypeOK'
  BY <1>1 DEF TypeOK
<1>4. ASSUME NEW q \in Runs, q # r
      PROVE  run'[q] = run[q] /\ candidate'[Place[q]] = candidate[Place[q]]
  <2>1. Place[q] # Place[r] /\ Place[q] \in Places
    BY <1>1, <1>4, CandidateAssumption DEF PlacesDiffer
  <2>2. QED
    BY <1>1, <1>4, <2>1 DEF IInv, TypeOK, Change
<1>5. ASSUME NEW q \in Runs PROVE RunOK(q)'
  <2>1. CASE q = r
    BY <1>1, <2>1 DEF RunOK
  <2>2. CASE q # r
    BY <1>4, <2>2 DEF RunOK, IInv
  <2>3. QED
    BY <2>1, <2>2
<1>6. ASSUME NEW q \in Processes PROVE CallOK(q)'
  <2>1. CASE q = p
    BY <1>1, <2>1 DEF CallOK, There
  <2>2. CASE q # p
    <3>1. call'[q] = call[q] /\ call[q].run \in Runs
      BY <2>2, Own DEF IInv, TypeOK
    <3>2. SUFFICES ASSUME call[q].at \notin Outside PROVE CallOK(q)'
      BY <3>1 DEF CallOK
    <3>3. /\ candidateLock[call[q].run] = q
          /\ CommandFact(call[q], run[call[q].run], There(q))
      BY <3>2, Own
    <3>4. candidateLock'[call[q].run] = q
      BY <3>1, <3>3, <2>2 DEF IInv, TypeOK
    <3>5. CASE call[q].run = r
      <4>1. s = run[r] /\ c = There(p)
        BY <3>3, <3>5, <2>2
      <4>2. There(q) = There(p)
        BY <3>5 DEF There
      <4>3. There(q)' = There(q) /\ run'[call[q].run] = run[call[q].run]
        BY <4>1, <4>2, <3>1, <3>5, <1>1 DEF There
      <4>4. QED
        BY <3>1, <3>3, <3>4, <4>3 DEF CallOK
    <3>6. CASE call[q].run # r
      <4>1. There(q)' = There(q) /\ run'[call[q].run] = run[call[q].run]
        BY <3>1, <3>6, <1>4 DEF There
      <4>2. QED
        BY <3>1, <3>3, <3>4, <4>1 DEF CallOK
    <3>7. QED
      BY <3>5, <3>6
  <2>3. QED
    BY <2>1, <2>2
<1>7. QED
  BY <1>3, <1>5, <1>6 DEF IInv

\* A command that goes on.
LEMMA GoesOn ==
  ASSUME PlacesDiffer, IInv, NEW p \in Processes, call[p].at \notin Outside,
         NEW c \in Candidate, NEW k \in Call, k.run = call[p].run,
         call' = [call EXCEPT ![p] = k], Change(p, c),
         UNCHANGED <<run, candidateLock>>,
         moved' = moved, faults' \in 0 .. MaxFaults,
         repositoryLock' \in Processes \cup {Nobody},
         RunFact(run[call[p].run], c), CommandFact(k, run[call[p].run], c)
  PROVE  IInv'
<1>1. moved' \in BOOLEAN /\ candidateLock' \in [Runs -> Processes \cup {Nobody}]
  BY DEF IInv, TypeOK
<1>2. candidateLock[call[p].run] = p /\ candidateLock' = candidateLock
  BY Own
<1>3. \A r \in Runs, q \in Processes \ {p} : candidateLock[r] = q => candidateLock'[r] = q
  BY <1>2
<1>4. run' = [run EXCEPT ![call[p].run] = run[call[p].run]] /\ run[call[p].run] \in LoopRun
  BY Own, RunStill
<1>5. Leaves(p, run[call[p].run], c, k) /\ candidateLock'[k.run] = p
  BY <1>1, <1>2, <1>3, <1>4 DEF Leaves
<1>6. QED
  BY <1>5, OwnStep

\* A command that ends.
LEMMA Ends ==
  ASSUME PlacesDiffer, IInv, NEW p \in Processes, NEW s \in LoopRun, NEW c \in Candidate,
         run' = [run EXCEPT ![call[p].run] = s], Change(p, c), Return(p),
         \/ call[p].at \notin Outside
         \/ s = run[call[p].run] /\ c = There(p),
         moved' = moved, faults' \in 0 .. MaxFaults, RunFact(s, c)
  PROVE  IInv'
<1>1. moved' \in BOOLEAN /\ repositoryLock' \in Processes \cup {Nobody}
  BY DEF IInv, TypeOK, Return, ReleaseRepository
<1> DEFINE k == AtRest(call[p].run)
<1>2. k \in Call /\ k.run = call[p].run /\ k.at \in Outside
  BY Own DEF AtRest, Call, Points, Commands, Publications, Planned, LoopRun, Outside,
             Statuses, Lifecycles, Phases
<1>3. /\ call' = [call EXCEPT ![p] = k]
      /\ candidateLock' = [r \in Runs |-> IF candidateLock[r] = p THEN Nobody
                                                          ELSE candidateLock[r]]
  BY DEF Return
<1>4. /\ candidateLock' \in [Runs -> Processes \cup {Nobody}]
      /\ \A r \in Runs, q \in Processes \ {p} : candidateLock[r] = q => candidateLock'[r] = q
  BY <1>3 DEF IInv, TypeOK
<1>5. candidateLock[call[p].run] = p \/ (s = run[call[p].run] /\ c = There(p))
  BY Own
<1> HIDE DEF k
<1>6. Leaves(p, s, c, k)
  BY <1>1, <1>2, <1>3, <1>4, <1>5 DEF Leaves
<1>7. QED
  BY <1>2, <1>6, OwnStep

\* A command that ends and leaves everything as it found it.
LEMMA GivesUp ==
  ASSUME PlacesDiffer, IInv, NEW p \in Processes, Return(p),
         UNCHANGED <<run, candidate, moved, faults>>
  PROVE  IInv'
<1>1. faults' \in 0 .. MaxFaults
  BY DEF IInv, TypeOK
<1>2. QED
  BY <1>1, Own, Still, RunStill, Ends

-----------------------------------------------------------------------------
(* Commands and candidates that stay in their types.                       *)

LEMMA GoToCall ==
  ASSUME IInv, NEW p \in Processes, NEW at \in Points, GoTo(p, at)
  PROVE  \E k \in Call :
           /\ call' = [call EXCEPT ![p] = k]
           /\ k.run = call[p].run /\ k.command = call[p].command /\ k.at = at
           /\ k.next = call[p].next /\ k.loaded = call[p].loaded
<1> DEFINE k == [call[p] EXCEPT !.at = at]
<1>1. call[p] \in Call /\ call \in [Processes -> Call]
  BY DEF IInv, TypeOK
<1>2. /\ k \in Call /\ k.run = call[p].run /\ k.command = call[p].command /\ k.at = at
      /\ k.next = call[p].next /\ k.loaded = call[p].loaded
  BY <1>1 DEF Call
<1>3. call' = [call EXCEPT ![p] = k]
  BY DEF GoTo
<1>4. QED
  BY <1>2, <1>3

LEMMA ToPublishCall ==
  ASSUME IInv, NEW p \in Processes, NEW what \in Publications, ToPublish(p, what)
  PROVE  \E k \in Call :
           /\ call' = [call EXCEPT ![p] = k]
           /\ k.run = call[p].run /\ k.command = call[p].command /\ k.at = "publish"
           /\ k.next = what /\ k.loaded = call[p].loaded
<1> DEFINE k == [call[p] EXCEPT !.at = "publish", !.next = what]
<1>1. call[p] \in Call /\ call \in [Processes -> Call]
  BY DEF IInv, TypeOK
<1>2. /\ k \in Call /\ k.run = call[p].run /\ k.command = call[p].command /\ k.at = "publish"
      /\ k.next = what /\ k.loaded = call[p].loaded
  BY <1>1 DEF Call, Points
<1>3. call' = [call EXCEPT ![p] = k]
  BY <1>1 DEF ToPublish
<1>4. QED
  BY <1>2, <1>3

\* A command that goes on to a point where the candidate, as it is, satisfies what
\* the command relies on there.
LEMMA GoesTo ==
  ASSUME PlacesDiffer, IInv, NEW p \in Processes, call[p].at \notin Outside,
         NEW c \in Candidate, NEW at \in Points, GoTo(p, at), Change(p, c),
         UNCHANGED <<run, candidateLock, moved, faults>>,
         repositoryLock' \in Processes \cup {Nobody},
         RunFact(run[call[p].run], c),
         \A k \in Call :
           /\ k.at = at /\ k.run = call[p].run /\ k.command = call[p].command
           /\ k.next = call[p].next /\ k.loaded = call[p].loaded
           => CommandFact(k, run[call[p].run], c)
  PROVE  IInv'
<1>1. PICK k \in Call :
           /\ call' = [call EXCEPT ![p] = k]
           /\ k.run = call[p].run /\ k.command = call[p].command /\ k.at = at
           /\ k.next = call[p].next /\ k.loaded = call[p].loaded
  BY GoToCall
<1>2. faults' \in 0 .. MaxFaults
  BY DEF IInv, TypeOK
<1>3. QED
  BY <1>1, <1>2, GoesOn

\* A command that comes to publish; the candidate is not touched.
LEMMA ComesToPublish ==
  ASSUME PlacesDiffer, IInv, NEW p \in Processes, call[p].at \notin Outside,
         NEW c \in Candidate, NEW what \in Publications, ToPublish(p, what), Change(p, c),
         UNCHANGED <<run, candidateLock, moved, faults>>,
         repositoryLock' \in Processes \cup {Nobody},
         RunFact(run[call[p].run], c),
         \A k \in Call :
           /\ k.at = "publish" /\ k.command = call[p].command
           /\ k.next = what /\ k.loaded = call[p].loaded
           => PublishFact(k, c)
  PROVE  IInv'
<1>1. PICK k \in Call :
           /\ call' = [call EXCEPT ![p] = k]
           /\ k.run = call[p].run /\ k.command = call[p].command /\ k.at = "publish"
           /\ k.next = what /\ k.loaded = call[p].loaded
  BY ToPublishCall
<1>2. faults' \in 0 .. MaxFaults
  BY DEF IInv, TypeOK
<1>3. CommandFact(k, run[call[p].run], c)
  BY <1>1, Own DEF CommandFact
<1>4. QED
  BY <1>1, <1>2, <1>3, GoesOn

LEMMA RepositoryTyped ==
  ASSUME IInv, NEW p \in Processes
  PROVE  /\ UNCHANGED repositoryLock => repositoryLock' \in Processes \cup {Nobody}
         /\ ReleaseRepository(p) => repositoryLock' \in Processes \cup {Nobody}
  BY DEF IInv, TypeOK, ReleaseRepository

-----------------------------------------------------------------------------
(* Locks.                                                                  *)

LEMMA StartStep ==
  ASSUME PlacesDiffer, IInv, NEW p \in Processes, NEW command \in Commands, NEW r \in Runs,
         Start(p, command, r)
  PROVE  IInv'
<1> DEFINE k == [AtRest(r) EXCEPT !.at = "locking", !.command = command]
<1>1. k \in Call /\ k.at \in Outside
  BY DEF AtRest, Call, Points, Commands, Publications, Planned, LoopRun, Outside,
         Statuses, Lifecycles, Phases
<1>2. call' = [call EXCEPT ![p] = k]
  BY DEF Start
<1>3. /\ candidateLock' = candidateLock /\ repositoryLock' = repositoryLock
      /\ candidate' = candidate /\ run' = run /\ moved' = moved /\ faults' = faults
  BY DEF Start, locks, world
<1>4. /\ candidateLock' \in [Runs -> Processes \cup {Nobody}]
      /\ repositoryLock' \in Processes \cup {Nobody}
      /\ moved' \in BOOLEAN /\ faults' \in 0 .. MaxFaults
  BY <1>3 DEF IInv, TypeOK
<1>5. \A q \in Runs, o \in Processes \ {p} : candidateLock[q] = o => candidateLock'[q] = o
  BY <1>3
<1> HIDE DEF k
<1>6. Leaves(p, run[call[p].run], There(p), k)
  BY <1>1, <1>2, <1>3, <1>4, <1>5, Own, Still, RunStill DEF Leaves
<1>7. QED
  BY <1>1, <1>6, Own, OwnStep

LEMMA AcquireLockStep ==
  ASSUME PlacesDiffer, IInv, NEW p \in Processes, AcquireLock(p)
  PROVE  IInv'
<1> DEFINE k == [call[p] EXCEPT !.at = "admitted", !.loaded = run[call[p].run]]
<1>1. /\ k \in Call /\ k.run = call[p].run /\ k.at = "admitted"
      /\ k.loaded = run[call[p].run]
  BY Own DEF Call, Points
<1>2. call' = [call EXCEPT ![p] = k]
  BY DEF AcquireLock, IInv, TypeOK
<1>3. /\ candidateLock' = [candidateLock EXCEPT ![call[p].run] = p]
      /\ candidateLock[call[p].run] = Nobody /\ repositoryLock' = repositoryLock
      /\ candidate' = candidate /\ run' = run /\ moved' = moved /\ faults' = faults
  BY DEF AcquireLock, world
<1>4. /\ candidateLock' \in [Runs -> Processes \cup {Nobody}]
      /\ candidateLock'[call[p].run] = p
      /\ repositoryLock' \in Processes \cup {Nobody}
      /\ moved' \in BOOLEAN /\ faults' \in 0 .. MaxFaults
  BY <1>3, Own DEF IInv, TypeOK
<1>5. \A q \in Runs, o \in Processes \ {p} : candidateLock[q] = o => candidateLock'[q] = o
  BY <1>3, CandidateAssumption DEF IInv, TypeOK
<1>6. CommandFact(k, run[call[p].run], There(p))
  BY <1>1 DEF CommandFact
<1> HIDE DEF k
<1>7. Leaves(p, run[call[p].run], There(p), k)
  BY <1>1, <1>2, <1>3, <1>4, <1>5, Own, Still, RunStill DEF Leaves
<1>8. QED
  BY <1>1, <1>4, <1>6, <1>7, Own, OwnStep

LEMMA AcquireRepositoryLockStep ==
  ASSUME PlacesDiffer, IInv, NEW p \in Processes, AcquireRepositoryLock(p)
  PROVE  IInv'
<1> DEFINE at == IF call[p].command = "provision" THEN "place" ELSE "retire"
<1>1. /\ call[p].at = "repository" /\ call[p].at \notin Outside /\ at \in Points
      /\ GoTo(p, at) /\ repositoryLock' \in Processes \cup {Nobody}
      /\ UNCHANGED <<run, candidate, candidateLock, moved, faults>>
  BY DEF AcquireRepositoryLock, world, Outside, Points
<1>2. CommandFact(call[p], run[call[p].run], There(p))
  BY <1>1, Own
<1>3. ASSUME NEW k \in Call, k.at = at, k.command = call[p].command, k.loaded = call[p].loaded
      PROVE  CommandFact(k, run[call[p].run], There(p))
  BY <1>1, <1>2, <1>3 DEF CommandFact
<1> HIDE DEF at
<1>4. QED
  BY <1>1, <1>3, Own, Still, GoesTo

-----------------------------------------------------------------------------
(* provision_candidate_workspace.                                          *)

LEMMA ProvisionStep ==
  ASSUME PlacesDiffer, IInv, NEW p \in Processes, Provision(p)
  PROVE  IInv'
<1>1. /\ call[p].at = "admitted" /\ call[p].at \notin Outside
      /\ call[p].command = "provision"
      /\ UNCHANGED <<run, candidate, moved, faults>>
  BY DEF Provision, world, Outside
<1>2. CASE call[p].loaded.lifecycle = "Provisioning" /\ ~moved
  <2>1. /\ GoTo(p, "repository") /\ UNCHANGED <<candidateLock, repositoryLock>>
        /\ "repository" \in Points
    BY <1>2 DEF Provision, locks, Points
  <2>2. CommandFact(call[p], run[call[p].run], There(p))
    BY <1>1, Own
  <2>3. ASSUME NEW k \in Call, k.at = "repository", k.command = call[p].command,
               k.loaded = call[p].loaded
        PROVE  CommandFact(k, run[call[p].run], There(p))
    BY <1>1, <1>2, <2>2, <2>3 DEF CommandFact
  <2>4. QED
    BY <1>1, <2>1, <2>3, Own, Still, RepositoryTyped, GoesTo
<1>3. CASE ~(call[p].loaded.lifecycle = "Provisioning" /\ ~moved)
  BY <1>1, <1>3, GivesUp DEF Provision
<1>4. QED
  BY <1>2, <1>3

LEMMA AdoptStep ==
  ASSUME PlacesDiffer, IInv, NEW p \in Processes, Adopt(p)
  PROVE  IInv'
<1>1. /\ call[p].at = "place" /\ call[p].at \notin Outside
      /\ UNCHANGED <<run, candidate, moved, faults>>
  BY DEF Adopt, world, Outside
<1>2. CASE Exact(There(p), Base)
  <2>1. /\ ReleaseRepository(p) /\ ToPublish(p, "Active") /\ UNCHANGED candidateLock
        /\ "Active" \in Publications
    BY <1>2 DEF Adopt, Publications
  <2>2. call[p].loaded.lifecycle = "Provisioning"
    BY <1>1, Own DEF CommandFact
  <2>3. ASSUME NEW k \in Call, k.next = "Active", k.loaded = call[p].loaded
        PROVE  PublishFact(k, There(p))
    BY <1>2, <2>2, <2>3 DEF PublishFact, Exact
  <2>4. QED
    BY <1>1, <2>1, <2>3, Own, Still, RepositoryTyped, ComesToPublish
<1>3. CASE ~Exact(There(p), Base)
  BY <1>1, <1>3, GivesUp DEF Adopt
<1>4. QED
  BY <1>2, <1>3
LEMMA StaysAt ==
  ASSUME PlacesDiffer, IInv, NEW p \in Processes, call[p].at \notin Outside,
         NEW c \in Candidate, Change(p, c),
         UNCHANGED <<run, call, moved, faults, candidateLock, repositoryLock>>,
         RunFact(run[call[p].run], c), CommandFact(call[p], run[call[p].run], c)
  PROVE  IInv'
<1>1. /\ faults' \in 0 .. MaxFaults /\ repositoryLock' \in Processes \cup {Nobody}
      /\ call' = [call EXCEPT ![p] = call[p]]
  BY DEF IInv, TypeOK
<1>2. QED
  BY <1>1, Own, GoesOn

\* A run that is Provisioning asks little of its candidate.
LEMMA UnderConstruction ==
  ASSUME NEW s, NEW c, RunFact(s, c), s.lifecycle = "Provisioning",
         NEW d, d.path = "absent" => d.files = Nowhere /\ ~d.foreign
  PROVE  RunFact(s, d)
  BY DEF RunFact

LEMMA OneFile ==
  ASSUME NEW c \in Candidate, NEW f \in Files, NEW b \in Bytes \cup {Missing, Torn}
  PROVE  LET d == [c EXCEPT !.files[f] = b] IN
         /\ d \in Candidate /\ d.path = c.path /\ d.registered = c.registered
         /\ d.index = c.index /\ d.foreign = c.foreign
         /\ d.files = [c.files EXCEPT ![f] = b]
  BY DEF Candidate

LEMMA AddWorktreeStep ==
  ASSUME PlacesDiffer, IInv, NEW p \in Processes, AddWorktree(p)
  PROVE  IInv'
<1> DEFINE c == [There(p) EXCEPT !.path = "public"]
<1>1. /\ call[p].at = "place" /\ call[p].at \notin Outside /\ There(p).path = "absent"
      /\ UNCHANGED <<run, moved, faults>>
  BY DEF AddWorktree, world, Outside
<1>2. /\ There(p) \in Candidate /\ RunFact(run[call[p].run], There(p))
      /\ CommandFact(call[p], run[call[p].run], There(p))
  BY <1>1, Own
<1>3. CASE ~There(p).registered
  <2>1. /\ GoTo(p, "register") /\ "register" \in Points /\ Change(p, c)
        /\ UNCHANGED <<candidateLock, repositoryLock>>
    BY <1>1, <1>3 DEF AddWorktree, locks, Points
  <2>2. c \in Candidate /\ c.path = "public" /\ c.foreign = There(p).foreign
    BY <1>2 DEF Candidate
  <2>3. ~c.foreign
    BY <1>1, <1>2, <2>2 DEF RunFact
  <2>4. run[call[p].run].lifecycle = "Provisioning"
    BY <1>1, <1>2 DEF CommandFact
  <2>5. RunFact(run[call[p].run], c)
    BY <1>2, <2>2, <2>4, UnderConstruction
  <2>6. ASSUME NEW k \in Call, k.at = "register", k.command = call[p].command,
               k.loaded = call[p].loaded
        PROVE  CommandFact(k, run[call[p].run], c)
    BY <1>1, <1>2, <2>2, <2>3, <2>6 DEF CommandFact
  <2> HIDE DEF c
  <2>7. QED
    BY <1>1, <2>1, <2>2, <2>5, <2>6, RepositoryTyped, GoesTo
<1>4. CASE There(p).registered
  BY <1>1, <1>4, GivesUp DEF AddWorktree
<1>5. QED
  BY <1>3, <1>4

LEMMA RegisterStep ==
  ASSUME PlacesDiffer, IInv, NEW p \in Processes, Register(p)
  PROVE  IInv'
<1> DEFINE c == [There(p) EXCEPT !.registered = TRUE]
<1>1. /\ call[p].at = "register" /\ call[p].at \notin Outside
      /\ Change(p, c) /\ GoTo(p, "private") /\ "private" \in Points
      /\ UNCHANGED <<run, moved, faults, candidateLock, repositoryLock>>
  BY DEF Register, world, locks, Outside, Points
<1>2. /\ There(p) \in Candidate /\ RunFact(run[call[p].run], There(p))
      /\ CommandFact(call[p], run[call[p].run], There(p))
  BY <1>1, Own
<1>3. /\ c \in Candidate /\ c.path = There(p).path /\ c.foreign = There(p).foreign
      /\ c.files = There(p).files
  BY <1>2 DEF Candidate
<1>4. run[call[p].run].lifecycle = "Provisioning"
  BY <1>1, <1>2 DEF CommandFact
<1>5. RunFact(run[call[p].run], c)
  BY <1>2, <1>3, <1>4 DEF RunFact
<1>6. ASSUME NEW k \in Call, k.at = "private", k.command = call[p].command,
             k.loaded = call[p].loaded
      PROVE  CommandFact(k, run[call[p].run], c)
  BY <1>1, <1>2, <1>3, <1>6 DEF CommandFact
<1> HIDE DEF c
<1>7. QED
  BY <1>1, <1>3, <1>5, <1>6, RepositoryTyped, GoesTo

LEMMA MakePrivateStep ==
  ASSUME PlacesDiffer, IInv, NEW p \in Processes, MakePrivate(p)
  PROVE  IInv'
<1> DEFINE c == [There(p) EXCEPT !.path = "private"]
<1>1. /\ call[p].at = "private" /\ call[p].at \notin Outside
      /\ Change(p, c) /\ GoTo(p, "readtree") /\ "readtree" \in Points
      /\ UNCHANGED <<run, moved, faults, candidateLock, repositoryLock>>
  BY DEF MakePrivate, world, locks, Outside, Points
<1>2. /\ There(p) \in Candidate /\ RunFact(run[call[p].run], There(p))
      /\ CommandFact(call[p], run[call[p].run], There(p))
  BY <1>1, Own
<1>3. c \in Candidate /\ c.path = "private" /\ c.foreign = There(p).foreign
  BY <1>2 DEF Candidate
<1>4. run[call[p].run].lifecycle = "Provisioning"
  BY <1>1, <1>2 DEF CommandFact
<1>5. RunFact(run[call[p].run], c)
  BY <1>2, <1>3, <1>4, UnderConstruction
<1>6. ASSUME NEW k \in Call, k.at = "readtree", k.command = call[p].command,
             k.loaded = call[p].loaded
      PROVE  CommandFact(k, run[call[p].run], c)
  BY <1>1, <1>2, <1>3, <1>6 DEF CommandFact
<1> HIDE DEF c
<1>7. QED
  BY <1>1, <1>3, <1>5, <1>6, RepositoryTyped, GoesTo

LEMMA ReadTreeStep ==
  ASSUME PlacesDiffer, IInv, NEW p \in Processes, ReadTree(p)
  PROVE  IInv'
<1> DEFINE c == [There(p) EXCEPT !.index = Base]
<1>1. /\ call[p].at = "readtree" /\ call[p].at \notin Outside
      /\ Change(p, c) /\ GoTo(p, "materialize") /\ "materialize" \in Points
      /\ UNCHANGED <<run, moved, faults, candidateLock, repositoryLock>>
  BY DEF ReadTree, world, locks, Outside, Points
<1>2. /\ There(p) \in Candidate /\ RunFact(run[call[p].run], There(p))
      /\ CommandFact(call[p], run[call[p].run], There(p))
  BY <1>1, Own
<1>3. c \in Candidate /\ c.path = There(p).path /\ c.foreign = There(p).foreign
  BY <1>2, CandidateAssumption DEF Candidate
<1>4. run[call[p].run].lifecycle = "Provisioning" /\ c.path = "private"
  BY <1>1, <1>2, <1>3 DEF CommandFact
<1>5. RunFact(run[call[p].run], c)
  BY <1>2, <1>4, UnderConstruction
<1>6. ASSUME NEW k \in Call, k.at = "materialize", k.command = call[p].command,
             k.loaded = call[p].loaded
      PROVE  CommandFact(k, run[call[p].run], c)
  BY <1>1, <1>2, <1>3, <1>6 DEF CommandFact
<1> HIDE DEF c
<1>7. QED
  BY <1>1, <1>3, <1>5, <1>6, RepositoryTyped, GoesTo

LEMMA MaterializeStep ==
  ASSUME PlacesDiffer, IInv, NEW p \in Processes, Materialize(p)
  PROVE  IInv'
<1>1. /\ call[p].at = "materialize" /\ call[p].at \notin Outside
      /\ UNCHANGED <<run, call, moved, faults, candidateLock, repositoryLock>>
  BY DEF Materialize, world, locks, Outside
<1>2. /\ There(p) \in Candidate /\ RunFact(run[call[p].run], There(p))
      /\ CommandFact(call[p], run[call[p].run], There(p))
  BY <1>1, Own
<1>3. PICK f \in Files : Write(p, f)
  BY DEF Materialize, ToWrite
<1> DEFINE c == [There(p) EXCEPT !.files[f] = There(p).index[f]]
<1>4. There(p).index[f] \in Bytes \cup {Missing, Torn}
  BY <1>2 DEF Candidate, Trees
<1>5. /\ c \in Candidate /\ c.path = There(p).path /\ c.foreign = There(p).foreign
      /\ Change(p, c)
  BY <1>2, <1>3, <1>4, OneFile DEF Write
<1>6. run[call[p].run].lifecycle = "Provisioning" /\ c.path = "private"
  BY <1>1, <1>2, <1>5 DEF CommandFact
<1>7. RunFact(run[call[p].run], c)
  BY <1>2, <1>6, UnderConstruction
<1>8. CommandFact(call[p], run[call[p].run], c)
  BY <1>1, <1>2, <1>5 DEF CommandFact
<1> HIDE DEF c
<1>9. QED
  BY <1>1, <1>5, <1>7, <1>8, StaysAt

LEMMA MaterializedStep ==
  ASSUME PlacesDiffer, IInv, NEW p \in Processes, Materialized(p)
  PROVE  IInv'
<1>1. /\ call[p].at = "materialize" /\ call[p].at \notin Outside
      /\ UNCHANGED <<run, candidate, moved, faults, candidateLock>>
  BY DEF Materialized, world, Outside
<1>2. CommandFact(call[p], run[call[p].run], There(p))
  BY <1>1, Own
<1>3. CASE Exact(There(p), Base) /\ ~moved
  <2>1. ReleaseRepository(p) /\ ToPublish(p, "Active") /\ "Active" \in Publications
    BY <1>3 DEF Materialized, Publications
  <2>2. ASSUME NEW k \in Call, k.next = "Active", k.loaded = call[p].loaded
        PROVE  PublishFact(k, There(p))
    BY <1>1, <1>2, <1>3, <2>2 DEF PublishFact, Exact, CommandFact
  <2>3. QED
    BY <1>1, <2>1, <2>2, Own, Still, RepositoryTyped, ComesToPublish
<1>4. CASE ~(Exact(There(p), Base) /\ ~moved)
  <2>1. GoTo(p, "delete") /\ UNCHANGED repositoryLock /\ "delete" \in Points
    BY <1>4 DEF Materialized, Points
  <2>2. ASSUME NEW k \in Call, k.at = "delete", k.command = call[p].command,
               k.loaded = call[p].loaded
        PROVE  CommandFact(k, run[call[p].run], There(p))
    BY <1>1, <1>2, <2>2 DEF CommandFact
  <2>3. QED
    BY <1>1, <2>1, <2>2, Own, Still, RepositoryTyped, GoesTo
<1>5. QED
  BY <1>3, <1>4

-----------------------------------------------------------------------------
(* apply_candidate_development_evidence.                                   *)

LEMMA ApplyStep ==
  ASSUME PlacesDiffer, IInv, NEW p \in Processes, Apply(p)
  PROVE  IInv'
<1>1. /\ call[p].at = "admitted" /\ call[p].at \notin Outside
      /\ UNCHANGED <<run, candidate, moved, faults>>
  BY DEF Apply, world, Outside
<1>2. CommandFact(call[p], run[call[p].run], There(p))
  BY <1>1, Own
<1>3. CASE /\ MayApply(p) /\ call[p].loaded.phase = "None"
           /\ ToPublish(p, "Applying") /\ UNCHANGED locks
  <2>1. "Applying" \in Publications /\ UNCHANGED <<candidateLock, repositoryLock>>
    BY <1>3 DEF Publications, locks
  <2>2. ASSUME NEW k \in Call, k.next = "Applying", k.loaded = call[p].loaded
        PROVE  PublishFact(k, There(p))
    BY <1>3, <2>2 DEF PublishFact, MayApply
  <2>3. QED
    BY <1>1, <1>3, <2>1, <2>2, Own, Still, RepositoryTyped, ComesToPublish
<1>4. CASE call[p].loaded.phase = "Applying" /\ GoTo(p, "index") /\ UNCHANGED locks
  <2>1. "index" \in Points /\ UNCHANGED <<candidateLock, repositoryLock>>
    BY <1>4 DEF Points, locks
  <2>2. ASSUME NEW k \in Call, k.at = "index", k.command = call[p].command,
               k.loaded = call[p].loaded
        PROVE  CommandFact(k, run[call[p].run], There(p))
    BY <1>2, <1>4, <2>2 DEF CommandFact
  <2>3. QED
    BY <1>1, <1>4, <2>1, <2>2, Own, Still, RepositoryTyped, GoesTo
<1>5. CASE Return(p)
  BY <1>1, <1>5, GivesUp
<1>6. QED
  BY <1>3, <1>4, <1>5 DEF Apply

\* What a process knows of the candidate it patches.
LEMMA Patching ==
  ASSUME IInv, NEW p \in Processes, call[p].at \in {"index", "clear", "fill"}
  PROVE  /\ call[p].at \notin Outside
         /\ There(p) \in Candidate
         /\ call[p].loaded.phase = "Applying"
         /\ run[call[p].run].phase = "Applying" /\ run[call[p].run].lifecycle = "Active"
         /\ RunFact(run[call[p].run], There(p))
         /\ CommandFact(call[p], run[call[p].run], There(p))
         /\ There(p).path = "private" /\ There(p).registered
         /\ \A f \in Files \ Changed : There(p).files[f] = Patched[f]
         /\ call[p].at \in {"clear", "fill"} => There(p).index = Patched
<1>1. call[p].at \notin Outside
  BY DEF Outside
<1>2. /\ There(p) \in Candidate /\ RunFact(run[call[p].run], There(p))
      /\ CommandFact(call[p], run[call[p].run], There(p))
  BY <1>1, Own
<1>3. call[p].loaded.phase = "Applying" /\ run[call[p].run].phase = "Applying"
  BY <1>2 DEF CommandFact
<1>4. Recoverable(There(p)) /\ run[call[p].run].lifecycle = "Active"
  BY <1>2, <1>3 DEF RunFact
<1>5. \A f \in Files \ Changed : There(p).files[f] = Patched[f]
  BY <1>4 DEF Recoverable, Holds, Changed
<1>6. QED
  BY <1>1, <1>2, <1>3, <1>4, <1>5 DEF Recoverable, Holds, CommandFact

\* A candidate whose patch is staged and whose other files are in place.
LEMMA StaysRecoverable ==
  ASSUME NEW s, NEW c, RunFact(s, c), s.phase = "Applying",
         NEW d, d.path = "private", d.registered, d.index = Patched,
         \A f \in Files \ Changed : d.files[f] = Patched[f]
  PROVE  RunFact(s, d)
  BY DEF RunFact, Recoverable

LEMMA StageStep ==
  ASSUME PlacesDiffer, IInv, NEW p \in Processes, Stage(p)
  PROVE  IInv'
<1> DEFINE c == [There(p) EXCEPT !.index = Patched]
<1>1. call[p].at = "index" /\ UNCHANGED <<run, moved, faults>>
  BY DEF Stage, world
<1>2. CASE Change(p, c) /\ GoTo(p, "clear") /\ UNCHANGED locks
  <2>1. /\ c \in Candidate /\ c.path = "private" /\ c.registered /\ c.index = Patched
        /\ c.files = There(p).files /\ c.foreign = There(p).foreign
    BY <1>1, Patching, CandidateAssumption DEF Candidate
  <2> HIDE DEF c
  <2>2. RunFact(run[call[p].run], c)
    BY <1>1, <2>1, Patching, StaysRecoverable
  <2>3. ASSUME NEW k \in Call, k.at = "clear", k.command = call[p].command,
               k.loaded = call[p].loaded
        PROVE  CommandFact(k, run[call[p].run], c)
    BY <1>1, <2>1, <2>3, Patching DEF CommandFact
  <2>4. "clear" \in Points /\ UNCHANGED <<candidateLock, repositoryLock>>
    BY <1>2 DEF Points, locks
  <2>5. QED
    BY <1>1, <1>2, <2>1, <2>2, <2>3, <2>4, Patching, RepositoryTyped, GoesTo
<1>3. CASE Return(p) /\ UNCHANGED candidate
  BY <1>1, <1>3, GivesUp
<1>4. QED
  BY <1>2, <1>3 DEF Stage

LEMMA OneChangedFile ==
  ASSUME PlacesDiffer, IInv, NEW p \in Processes, call[p].at \in {"clear", "fill"},
         NEW f \in Changed, NEW b \in Bytes \cup {Missing, Torn}
  PROVE  LET c == [There(p) EXCEPT !.files[f] = b] IN
         /\ c \in Candidate /\ RunFact(run[call[p].run], c)
         /\ CommandFact(call[p], run[call[p].run], c)
<1> DEFINE c == [There(p) EXCEPT !.files[f] = b]
<1>1. f \in Files /\ There(p) \in Candidate
  BY Patching DEF Changed
<1>2. /\ c \in Candidate /\ c.path = There(p).path /\ c.registered = There(p).registered
      /\ c.index = There(p).index /\ c.foreign = There(p).foreign
      /\ c.files = [There(p).files EXCEPT ![f] = b]
  BY <1>1, OneFile
<1>3. \A g \in Files \ Changed : c.files[g] = Patched[g]
  BY <1>1, <1>2, Patching DEF Candidate
<1> HIDE DEF c
<1>4. RunFact(run[call[p].run], c)
  BY <1>2, <1>3, Patching, StaysRecoverable
<1>5. CommandFact(call[p], run[call[p].run], c)
  BY <1>2, Patching DEF CommandFact
<1>6. QED
  BY <1>2, <1>4, <1>5 DEF c

LEMMA ClearStep ==
  ASSUME PlacesDiffer, IInv, NEW p \in Processes, Clear(p)
  PROVE  IInv'
<1>1. /\ call[p].at = "clear" /\ call[p].at \notin Outside
      /\ UNCHANGED <<run, moved, faults, candidateLock, repositoryLock>>
  BY DEF Clear, world, locks, Outside
<1>2. ASSUME NEW f \in ToClear(There(p), Changed), Erase(p, f), UNCHANGED call
      PROVE  IInv'
  <2> DEFINE c == [There(p) EXCEPT !.files[f] = Missing]
  <2>1. /\ c \in Candidate /\ RunFact(run[call[p].run], c)
        /\ CommandFact(call[p], run[call[p].run], c)
    BY <1>1, <1>2, OneChangedFile DEF ToClear
  <2>2. Change(p, c)
    BY <1>2 DEF Erase
  <2> HIDE DEF c
  <2>3. QED
    BY <1>1, <1>2, <2>1, <2>2, StaysAt
<1>3. ASSUME GoTo(p, "fill"), UNCHANGED candidate PROVE IInv'
  <2>1. "fill" \in Points
    BY DEF Points
  <2>2. ASSUME NEW k \in Call, k.at = "fill", k.command = call[p].command,
               k.loaded = call[p].loaded
        PROVE  CommandFact(k, run[call[p].run], There(p))
    BY <1>1, <2>2, Patching DEF CommandFact
  <2>3. QED
    BY <1>1, <1>3, <2>1, <2>2, Own, Still, RepositoryTyped, GoesTo
<1>4. QED
  BY <1>2, <1>3 DEF Clear

LEMMA FillStep ==
  ASSUME PlacesDiffer, IInv, NEW p \in Processes, Fill(p)
  PROVE  IInv'
<1>1. /\ call[p].at = "fill" /\ call[p].at \notin Outside
      /\ UNCHANGED <<run, call, moved, faults, candidateLock, repositoryLock>>
  BY DEF Fill, world, locks, Outside
<1>2. PICK f \in Changed : Write(p, f)
  BY DEF Fill, ToWrite
<1> DEFINE c == [There(p) EXCEPT !.files[f] = There(p).index[f]]
<1>3. There(p).index[f] \in Bytes \cup {Missing, Torn}
  BY <1>1, Patching DEF Candidate, Trees, Changed
<1>4. /\ c \in Candidate /\ RunFact(run[call[p].run], c)
      /\ CommandFact(call[p], run[call[p].run], c)
  BY <1>1, <1>3, OneChangedFile
<1>5. Change(p, c)
  BY <1>2 DEF Write
<1> HIDE DEF c
<1>6. QED
  BY <1>1, <1>4, <1>5, StaysAt

LEMMA FilledStep ==
  ASSUME PlacesDiffer, IInv, NEW p \in Processes, Filled(p)
  PROVE  IInv'
<1>1. /\ call[p].at = "fill" /\ call[p].at \notin Outside
      /\ UNCHANGED <<run, candidate, moved, faults>>
  BY DEF Filled, world, Outside
<1>2. CASE /\ There(p).index = Patched /\ Matches(There(p))
           /\ \A f \in Files : There(p).index[f] = Missing => There(p).files[f] = Missing
           /\ ToPublish(p, "Applied") /\ UNCHANGED locks
  <2>1. There(p).files = Patched
    <3>1. There(p).files \in [Files -> Bytes \cup {Missing, Torn}] /\ Patched \in Trees
      BY <1>1, Patching, CandidateAssumption DEF Candidate
    <3>2. \A f \in Files : There(p).files[f] = Patched[f]
      BY <1>2 DEF Matches
    <3>3. QED
      BY <3>1, <3>2 DEF Trees
  <2>2. Holds(There(p), Patched)
    BY <1>1, <1>2, <2>1, Patching DEF Holds
  <2>3. ASSUME NEW k \in Call, k.next = "Applied", k.loaded = call[p].loaded
        PROVE  PublishFact(k, There(p))
    BY <1>1, <2>2, <2>3, Patching DEF PublishFact
  <2>4. "Applied" \in Publications /\ UNCHANGED <<candidateLock, repositoryLock>>
    BY <1>2 DEF Publications, locks
  <2>5. QED
    BY <1>1, <1>2, <2>3, <2>4, Own, Still, RepositoryTyped, ComesToPublish
<1>3. CASE Return(p)
  BY <1>1, <1>3, GivesUp
<1>4. QED
  BY <1>2, <1>3 DEF Filled

-----------------------------------------------------------------------------
(* cleanup_candidate_workspace, and the rollback of a provisioning.        *)

LEMMA CleanupStep ==
  ASSUME PlacesDiffer, IInv, NEW p \in Processes, Cleanup(p)
  PROVE  IInv'
<1>1. /\ call[p].at = "admitted" /\ call[p].at \notin Outside
      /\ call[p].command = "cleanup"
      /\ UNCHANGED <<run, candidate, moved, faults>>
  BY DEF Cleanup, world, Outside
<1>2. CASE call[p].loaded.status = "Ended" /\ GoTo(p, "repository") /\ UNCHANGED locks
  <2>1. CommandFact(call[p], run[call[p].run], There(p))
    BY <1>1, Own
  <2>2. ASSUME NEW k \in Call, k.at = "repository", k.command = call[p].command,
               k.loaded = call[p].loaded
        PROVE  CommandFact(k, run[call[p].run], There(p))
    BY <1>1, <1>2, <2>1, <2>2 DEF CommandFact
  <2>3. "repository" \in Points /\ UNCHANGED <<candidateLock, repositoryLock>>
    BY <1>2 DEF Points, locks
  <2>4. QED
    BY <1>1, <1>2, <2>2, <2>3, Own, Still, RepositoryTyped, GoesTo
<1>3. CASE Return(p)
  BY <1>1, <1>3, GivesUp
<1>4. QED
  BY <1>2, <1>3 DEF Cleanup

LEMMA RetireStep ==
  ASSUME PlacesDiffer, IInv, NEW p \in Processes, Retire(p)
  PROVE  IInv'
<1>1. /\ call[p].at = "retire" /\ call[p].at \notin Outside
      /\ UNCHANGED <<run, candidate, moved, faults>>
  BY DEF Retire, world, Outside
<1>2. CommandFact(call[p], run[call[p].run], There(p))
  BY <1>1, Own
<1>3. CASE /\ call[p].loaded.lifecycle = "Active"
           /\ ToPublish(p, "Cleaning") /\ UNCHANGED locks
  <2>1. ASSUME NEW k \in Call, k.next = "Cleaning", k.command = call[p].command,
               k.loaded = call[p].loaded
        PROVE  PublishFact(k, There(p))
    BY <1>1, <1>2, <1>3, <2>1 DEF PublishFact, CommandFact
  <2>2. "Cleaning" \in Publications /\ UNCHANGED <<candidateLock, repositoryLock>>
    BY <1>3 DEF Publications, locks
  <2>3. QED
    BY <1>1, <1>3, <2>1, <2>2, Own, Still, RepositoryTyped, ComesToPublish
<1>4. CASE call[p].loaded.lifecycle = "Cleaning" /\ GoTo(p, "survey") /\ UNCHANGED locks
  <2>1. ASSUME NEW k \in Call, k.at = "survey", k.command = call[p].command,
               k.loaded = call[p].loaded
        PROVE  CommandFact(k, run[call[p].run], There(p))
    BY <1>1, <1>2, <1>4, <2>1 DEF CommandFact
  <2>2. "survey" \in Points /\ UNCHANGED <<candidateLock, repositoryLock>>
    BY <1>4 DEF Points, locks
  <2>3. QED
    BY <1>1, <1>4, <2>1, <2>2, Own, Still, RepositoryTyped, GoesTo
<1>5. CASE Return(p)
  BY <1>1, <1>5, GivesUp
<1>6. QED
  BY <1>3, <1>4, <1>5 DEF Retire

LEMMA SurveyStep ==
  ASSUME PlacesDiffer, IInv, NEW p \in Processes, Survey(p)
  PROVE  IInv'
<1>1. /\ call[p].at = "survey" /\ call[p].at \notin Outside
      /\ UNCHANGED <<run, candidate, moved, faults>>
  BY DEF Survey, world, Outside
<1>2. /\ CommandFact(call[p], run[call[p].run], There(p))
      /\ RunFact(run[call[p].run], There(p))
  BY <1>1, Own
<1>3. CASE ~There(p).foreign /\ GoTo(p, "delete") /\ UNCHANGED locks
  <2>1. ASSUME NEW k \in Call, k.at = "delete", k.command = call[p].command,
               k.loaded = call[p].loaded
        PROVE  CommandFact(k, run[call[p].run], There(p))
    BY <1>1, <1>2, <1>3, <2>1 DEF CommandFact
  <2>2. "delete" \in Points /\ UNCHANGED <<candidateLock, repositoryLock>>
    BY <1>3 DEF Points, locks
  <2>3. QED
    BY <1>1, <1>3, <2>1, <2>2, Own, Still, RepositoryTyped, GoesTo
<1>4. CASE Gone(There(p)) /\ ToPublish(p, "Cleaned") /\ UNCHANGED locks
  <2>1. ~There(p).registered /\ There(p).files = Nowhere
    BY <1>2, <1>4 DEF Gone, RunFact
  <2>2. ASSUME NEW k \in Call, k.next = "Cleaned", k.command = call[p].command,
               k.loaded = call[p].loaded
        PROVE  PublishFact(k, There(p))
    BY <1>1, <1>2, <2>1, <2>2 DEF PublishFact, CommandFact
  <2>3. "Cleaned" \in Publications /\ UNCHANGED <<candidateLock, repositoryLock>>
    BY <1>4 DEF Publications, locks
  <2>4. QED
    BY <1>1, <1>4, <2>2, <2>3, Own, Still, RepositoryTyped, ComesToPublish
<1>5. CASE Return(p)
  BY <1>1, <1>5, GivesUp
<1>6. QED
  BY <1>3, <1>4, <1>5 DEF Survey, Exact

\* What is being removed is not what any run says is there.
LEMMA Removing ==
  ASSUME IInv, NEW p \in Processes, call[p].at \in {"delete", "deregister"}
  PROVE  /\ call[p].at \notin Outside /\ There(p) \in Candidate
         /\ RunFact(run[call[p].run], There(p))
         /\ CommandFact(call[p], run[call[p].run], There(p))
         /\ run[call[p].run].lifecycle \in {"Provisioning", "Cleaning"}
         /\ \A d : (d.path = "absent" => d.files = Nowhere /\ ~d.foreign)
              => RunFact(run[call[p].run], d)
<1>1. /\ call[p].at \notin Outside /\ There(p) \in Candidate
      /\ RunFact(run[call[p].run], There(p))
      /\ CommandFact(call[p], run[call[p].run], There(p))
  BY Own DEF Outside
<1>2. run[call[p].run].lifecycle \in {"Provisioning", "Cleaning"}
  BY <1>1 DEF CommandFact
<1>3. \A d : (d.path = "absent" => d.files = Nowhere /\ ~d.foreign)
         => RunFact(run[call[p].run], d)
  BY <1>1, <1>2 DEF RunFact
<1>4. QED
  BY <1>1, <1>2, <1>3

LEMMA DeleteStep ==
  ASSUME PlacesDiffer, IInv, NEW p \in Processes, Delete(p)
  PROVE  IInv'
<1>1. /\ call[p].at = "delete"
      /\ UNCHANGED <<run, moved, faults, candidateLock, repositoryLock>>
  BY DEF Delete, world, locks
<1>2. ~There(p).foreign
  BY <1>1, Removing DEF CommandFact
<1>3. ASSUME NEW f \in ToClear(There(p), Files), Erase(p, f), UNCHANGED call
      PROVE  IInv'
  <2> DEFINE c == [There(p) EXCEPT !.files[f] = Missing]
  <2>1. f \in Files /\ There(p).files[f] # Missing
    BY <1>3 DEF ToClear
  <2>2. /\ c \in Candidate /\ c.path = There(p).path /\ c.foreign = There(p).foreign
        /\ Change(p, c)
    BY <1>1, <1>3, <2>1, Removing, OneFile DEF Erase
  <2>3. c.path # "absent"
    BY <1>1, <2>1, <2>2, Removing DEF RunFact, Nowhere
  <2> HIDE DEF c
  <2>4. RunFact(run[call[p].run], c)
    BY <1>1, <2>3, Removing
  <2>5. CommandFact(call[p], run[call[p].run], c)
    BY <1>1, <2>2, Removing DEF CommandFact
  <2>6. QED
    BY <1>1, <1>3, <2>2, <2>4, <2>5, Removing, StaysAt
<1>4. ASSUME ToClear(There(p), Files) = {}, GoTo(p, "deregister"),
             Change(p, [There(p) EXCEPT !.path = "absent", !.foreign = FALSE])
      PROVE  IInv'
  <2> DEFINE c == [There(p) EXCEPT !.path = "absent", !.foreign = FALSE]
  <2>1. There(p).files = Nowhere
    <3>1. \A f \in Files : There(p).files[f] = Missing
      BY <1>4 DEF ToClear
    <3>2. There(p).files \in [Files -> Bytes \cup {Missing, Torn}]
      BY <1>1, Removing DEF Candidate
    <3>3. QED
      BY <3>1, <3>2 DEF Nowhere
  <2>2. /\ c \in Candidate /\ c.files = Nowhere /\ ~c.foreign
    BY <1>1, <2>1, Removing DEF Candidate
  <2> HIDE DEF c
  <2>3. RunFact(run[call[p].run], c)
    BY <1>1, <2>2, Removing
  <2>4. ASSUME NEW k \in Call, k.at = "deregister", k.command = call[p].command,
               k.loaded = call[p].loaded
        PROVE  CommandFact(k, run[call[p].run], c)
    BY <1>1, <2>2, <2>4, Removing DEF CommandFact
  <2>5. "deregister" \in Points /\ Change(p, c)
    BY <1>4 DEF Points, c
  <2>6. QED
    BY <1>1, <1>4, <2>2, <2>3, <2>4, <2>5, Removing, RepositoryTyped, GoesTo
<1>5. QED
  BY <1>3, <1>4 DEF Delete

LEMMA DeregisterStep ==
  ASSUME PlacesDiffer, IInv, NEW p \in Processes, Deregister(p)
  PROVE  IInv'
<1> DEFINE c == [There(p) EXCEPT !.registered = FALSE, !.index = Nowhere]
<1>1. /\ call[p].at = "deregister" /\ Change(p, c)
      /\ UNCHANGED <<run, moved, faults>>
  BY DEF Deregister, world
<1>2. There(p).files = Nowhere
  BY <1>1, Removing DEF CommandFact
<1>3. /\ c \in Candidate /\ ~c.registered /\ c.files = Nowhere
      /\ c.path = There(p).path /\ c.foreign = There(p).foreign
  BY <1>1, <1>2, Removing DEF Candidate, Trees, Nowhere
<1> HIDE DEF c
<1>4. RunFact(run[call[p].run], c)
  BY <1>1, <1>3, Removing DEF RunFact
<1>5. CASE call[p].command = "cleanup"
  <2>1. /\ ToPublish(p, "Cleaned") /\ "Cleaned" \in Publications
        /\ UNCHANGED <<candidateLock, repositoryLock>>
    BY <1>5 DEF Deregister, Publications, locks
  <2>2. ASSUME NEW k \in Call, k.next = "Cleaned", k.command = call[p].command,
               k.loaded = call[p].loaded
        PROVE  PublishFact(k, c)
    BY <1>1, <1>3, <1>5, <2>2, Removing DEF PublishFact, CommandFact
  <2>3. QED
    BY <1>1, <1>3, <1>4, <2>1, <2>2, Removing, RepositoryTyped, ComesToPublish
<1>6. CASE call[p].command # "cleanup"
  <2>1. Return(p)
    BY <1>6 DEF Deregister
  <2>2. faults' \in 0 .. MaxFaults
    BY <1>1 DEF IInv, TypeOK
  <2>3. QED
    BY <1>1, <1>3, <1>4, <2>1, <2>2, Own, RunStill, Removing, Ends
<1>7. QED
  BY <1>5, <1>6

-----------------------------------------------------------------------------
(* persist_candidate_run.                                                  *)

\* What is published is true of the candidate.
LEMMA Publishable ==
  ASSUME IInv, NEW p \in Processes, call[p].at = "publish",
         run[call[p].run] = call[p].loaded
  PROVE  /\ Intended(call[p]) \in LoopRun
         /\ RunFact(Intended(call[p]), There(p))
         /\ call[p].next = "Applying" => Intended(call[p]).phase = "Applying"
         /\ call[p].next = "Cleaning" =>
              Intended(call[p]).lifecycle = "Cleaning" /\ call[p].command = "cleanup"
<1> DEFINE k == call[p]
           s == Intended(call[p])
<1>1. /\ k \in Call /\ k.loaded \in LoopRun /\ k.next \in Publications
      /\ There(p) \in Candidate /\ RunFact(k.loaded, There(p))
      /\ PublishFact(k, There(p))
  BY Own DEF CommandFact, Outside, Call
<1>2. CASE k.next \in {"Active", "Cleaning", "Cleaned"}
  <2>1. s = [k.loaded EXCEPT !.lifecycle = k.next]
    BY <1>2 DEF Intended, Phases
  <2>2. /\ s \in LoopRun /\ s.lifecycle = k.next /\ s.phase = k.loaded.phase
        /\ s.status = k.loaded.status
    BY <1>1, <1>2, <2>1 DEF LoopRun, Lifecycles
  <2>3. k.loaded.phase # "Applying"
    BY <1>1, <1>2 DEF PublishFact, RunFact
  <2>4. RunFact(s, There(p))
    BY <1>1, <1>2, <2>2, <2>3 DEF PublishFact, RunFact, TreeOf
  <2>5. QED
    BY <1>2, <2>2, <2>4, <1>1 DEF PublishFact
<1>3. CASE k.next \in {"Applying", "Applied"}
  <2>1. s = [k.loaded EXCEPT !.phase = k.next]
    BY <1>3 DEF Intended, Phases
  <2>2. /\ s \in LoopRun /\ s.phase = k.next /\ s.lifecycle = k.loaded.lifecycle
        /\ s.status = k.loaded.status /\ s.developed = k.loaded.developed
    BY <1>1, <1>3, <2>1 DEF LoopRun, Phases
  <2>3. k.loaded.lifecycle = "Active"
    BY <1>1, <1>3 DEF PublishFact, RunFact
  <2>4. k.next = "Applying" => Recoverable(There(p))
    BY <1>1, <2>3 DEF PublishFact, RunFact, TreeOf, Recoverable
  <2>5. RunFact(s, There(p))
    BY <1>1, <1>3, <2>2, <2>3, <2>4 DEF PublishFact, RunFact, TreeOf
  <2>6. QED
    BY <1>3, <2>2, <2>5
<1>4. QED
  BY <1>1, <1>2, <1>3 DEF Publications

LEMMA PublishStep ==
  ASSUME PlacesDiffer, IInv, NEW p \in Processes, Publish(p)
  PROVE  IInv'
<1>1. /\ call[p].at = "publish" /\ call[p].at \notin Outside
      /\ UNCHANGED <<candidate, moved, faults>>
  BY DEF Publish, world, Outside
<1>2. CASE run[call[p].run] = call[p].loaded
  <2> DEFINE s == Intended(call[p])
  <2>1. run' = [run EXCEPT ![call[p].run] = s] /\ AfterPublish(p)
    BY <1>2 DEF Publish
  <2>2. /\ s \in LoopRun /\ RunFact(s, There(p))
        /\ call[p].next = "Applying" => s.phase = "Applying"
        /\ call[p].next = "Cleaning" => s.lifecycle = "Cleaning" /\ call[p].command = "cleanup"
    BY <1>1, <1>2, Publishable
  <2>3. faults' \in 0 .. MaxFaults /\ moved' \in BOOLEAN
    BY <1>1 DEF IInv, TypeOK
  <2>4. CASE call[p].next \in {"Applying", "Cleaning"}
    <3> DEFINE at == IF call[p].next = "Applying" THEN "index" ELSE "survey"
               k == [call[p] EXCEPT !.loaded = s, !.at = at]
    <3>1. /\ call' = [call EXCEPT ![p].loaded = s, ![p].at = at]
          /\ candidateLock' = candidateLock /\ repositoryLock' = repositoryLock
      BY <2>1, <2>4 DEF AfterPublish, locks
    <3>2. /\ k \in Call /\ k.run = call[p].run /\ k.command = call[p].command
          /\ k.at = at /\ k.loaded = s
      BY <2>2, Own DEF Call, Points
    <3>3. call' = [call EXCEPT ![p] = k]
      BY <3>1 DEF IInv, TypeOK
    <3> HIDE DEF s, k
    <3>4. CommandFact(k, s, There(p))
      BY <2>2, <2>4, <3>2 DEF CommandFact
    <3>5. /\ candidateLock[call[p].run] = p
          /\ candidateLock' \in [Runs -> Processes \cup {Nobody}]
          /\ repositoryLock' \in Processes \cup {Nobody}
      BY <1>1, <3>1, Own DEF IInv, TypeOK
    <3>6. Leaves(p, s, There(p), k) /\ candidateLock'[k.run] = p
      BY <1>1, <2>1, <2>2, <2>3, <3>1, <3>2, <3>3, <3>5, Own, Still DEF Leaves
    <3>7. QED
      BY <2>2, <3>2, <3>4, <3>6, OwnStep
  <2>5. CASE call[p].next \notin {"Applying", "Cleaning"}
    <3>1. Return(p)
      BY <2>1, <2>5 DEF AfterPublish
    <3> HIDE DEF s
    <3>2. QED
      BY <1>1, <2>1, <2>2, <2>3, <3>1, Own, Still, Ends
  <2>6. QED
    BY <2>4, <2>5
<1>3. CASE run[call[p].run] # call[p].loaded
  BY <1>1, <1>3, GivesUp DEF Publish
<1>4. QED
  BY <1>2, <1>3

-----------------------------------------------------------------------------
(* Faults.                                                                 *)

\* A file that a process died in belongs to what no run counts on.
LEMMA TornHarmless ==
  ASSUME PlacesDiffer, IInv, NEW p \in Processes, NEW c \in TornBy(p, There(p))
  PROVE  /\ c \in Candidate /\ RunFact(run[call[p].run], c)
         /\ c.foreign = There(p).foreign /\ c.path = There(p).path
         /\ call[p].at \in Outside => c = There(p)
<1>1. CASE c = There(p)
  BY <1>1, Own
<1>2. CASE c # There(p)
  <2>1. call[p].at \in {"materialize", "fill"}
    BY <1>2 DEF TornBy
  <2>2. PICK f \in Files : /\ c = [There(p) EXCEPT !.files[f] = Torn]
                           /\ call[p].at = "fill" => f \in Changed
    BY <1>2, <2>1 DEF TornBy, ToWrite, Changed
  <2>3. call[p].at \notin Outside
    BY <2>1 DEF Outside
  <2>4. There(p) \in Candidate
    BY Own
  <2>5. c \in Candidate /\ c.foreign = There(p).foreign /\ c.path = There(p).path
    BY <2>2, <2>4, OneFile
  <2>6. CASE call[p].at = "fill"
    BY <2>2, <2>3, <2>5, <2>6, OneChangedFile
  <2>7. CASE call[p].at = "materialize"
    <3>1. /\ CommandFact(call[p], run[call[p].run], There(p))
          /\ RunFact(run[call[p].run], There(p))
      BY <2>3, Own
    <3>2. run[call[p].run].lifecycle = "Provisioning" /\ c.path = "private"
      BY <2>5, <2>7, <3>1 DEF CommandFact
    <3>3. QED
      BY <2>3, <2>5, <3>1, <3>2, UnderConstruction
  <2>8. QED
    BY <2>1, <2>6, <2>7
<1>3. QED
  BY <1>1, <1>2

LEMMA OneMoreFault ==
  ASSUME IInv, faults < MaxFaults, faults' = faults + 1
  PROVE  faults' \in 0 .. MaxFaults
  BY CandidateAssumption DEF IInv, TypeOK

LEMMA DieStep ==
  ASSUME PlacesDiffer, IInv, NEW p \in Processes, Die(p)
  PROVE  IInv'
<1>1. PICK c \in TornBy(p, There(p)) : Change(p, c)
  BY DEF Die
<1>2. Return(p) /\ UNCHANGED <<run, moved>> /\ faults' \in 0 .. MaxFaults
  BY OneMoreFault DEF Die
<1>3. QED
  BY <1>1, <1>2, Own, RunStill, TornHarmless, Ends

LEMMA FailStep ==
  ASSUME PlacesDiffer, IInv, NEW p \in Processes, Fail(p)
  PROVE  IInv'
<1>1. PICK c \in TornBy(p, There(p)) : Change(p, c)
  BY DEF Fail
<1>2. UNCHANGED <<run, moved>> /\ faults' \in 0 .. MaxFaults
  BY OneMoreFault DEF Fail
<1>3. CASE call[p].at \in {"private", "readtree", "materialize"}
  <2>1. GoTo(p, "delete") /\ UNCHANGED locks /\ "delete" \in Points
    BY <1>3 DEF Fail, Points
  <2>2. PICK k \in Call : /\ call' = [call EXCEPT ![p] = k]
                          /\ k.run = call[p].run /\ k.command = call[p].command
                          /\ k.at = "delete" /\ k.loaded = call[p].loaded
    BY <2>1, GoToCall
  <2>3. call[p].at \notin Outside
    BY <1>3 DEF Outside
  <2>4. CommandFact(call[p], run[call[p].run], There(p))
    BY <2>3, Own
  <2>5. c \in Candidate /\ RunFact(run[call[p].run], c) /\ c.foreign = There(p).foreign
    BY TornHarmless
  <2>6. CommandFact(k, run[call[p].run], c)
    BY <1>3, <2>2, <2>4, <2>5 DEF CommandFact
  <2>7. candidateLock' = candidateLock /\ repositoryLock' \in Processes \cup {Nobody}
    BY <2>1 DEF locks, IInv, TypeOK
  <2>8. QED
    BY <1>1, <1>2, <2>2, <2>3, <2>5, <2>6, <2>7, GoesOn
<1>4. CASE call[p].at \notin {"private", "readtree", "materialize"}
  <2>1. Return(p)
    BY <1>4 DEF Fail
  <2>2. QED
    BY <1>1, <1>2, <2>1, Own, RunStill, TornHarmless, Ends
<1>5. QED
  BY <1>3, <1>4

-----------------------------------------------------------------------------
(* The rest of the loop, the source checkout, and people.                  *)

\* A step of the loop leaves the lifecycle and the phase alone.
LEMMA BecomesStep ==
  ASSUME IInv, NEW r \in Runs, NEW s \in LoopRun, Becomes(r, s),
         s.lifecycle = run[r].lifecycle, s.phase = run[r].phase,
         RunFact(s, candidate[Place[r]])
  PROVE  IInv'
<1>1. /\ run' = [run EXCEPT ![r] = s]
      /\ UNCHANGED <<candidate, moved, faults, candidateLock, repositoryLock, call>>
  BY DEF Becomes, world, locks
<1>2. run' \in [Runs -> LoopRun] /\ run'[r] = s /\ \A q \in Runs : q # r => run'[q] = run[q]
  BY <1>1 DEF IInv, TypeOK
<1>3. TypeOK'
  BY <1>1, <1>2 DEF IInv, TypeOK
<1>4. ASSUME NEW q \in Runs PROVE RunOK(q)'
  BY <1>1, <1>2 DEF IInv, RunOK
<1>5. ASSUME NEW p \in Processes PROVE CallOK(p)'
  <2>1. SUFFICES ASSUME call[p].at \notin Outside PROVE CallOK(p)'
    BY <1>1 DEF CallOK
  <2>2. /\ candidateLock[call[p].run] = p /\ call[p].run \in Runs
        /\ CommandFact(call[p], run[call[p].run], There(p))
    BY <2>1, Own
  <2>3. /\ run'[call[p].run].lifecycle = run[call[p].run].lifecycle
        /\ run'[call[p].run].phase = run[call[p].run].phase
    BY <1>2, <2>2
  <2>4. There(p)' = There(p)
    BY <1>1 DEF There
  <2>5. CommandFact(call[p], run'[call[p].run], There(p))
    BY <2>2, <2>3 DEF CommandFact
  <2>6. QED
    BY <1>1, <2>2, <2>4, <2>5 DEF CallOK
<1>6. QED
  BY <1>3, <1>4, <1>5 DEF IInv

LEMMA LoopStep ==
  ASSUME IInv, NEW r \in Runs, Loop(r)
  PROVE  IInv'
<1> DEFINE c == candidate[Place[r]]
<1>1. run[r] \in LoopRun /\ RunFact(run[r], c)
  BY DEF IInv, TypeOK, RunOK
<1>2. ASSUME NEW s \in Statuses, Becomes(r, [run[r] EXCEPT !.status = s]),
             run[r].phase # "Applying",
             run[r].lifecycle \in {"Cleaning", "Cleaned"} => s = "Ended"
      PROVE  IInv'
  <2> DEFINE t == [run[r] EXCEPT !.status = s]
  <2>1. /\ t \in LoopRun /\ t.status = s /\ t.lifecycle = run[r].lifecycle
        /\ t.phase = run[r].phase
    BY <1>1 DEF LoopRun
  <2> HIDE DEF t
  <2>2. RunFact(t, c)
    BY <1>1, <1>2, <2>1 DEF RunFact, TreeOf
  <2>3. QED
    BY <1>2, <2>1, <2>2, BecomesStep DEF t
<1>3. CASE Begin(r)
  BY <1>1, <1>2, <1>3 DEF Begin, Statuses, RunFact
<1>4. CASE Develop(r)
  <2> DEFINE t == [run[r] EXCEPT !.developed = TRUE]
  <2>1. /\ t \in LoopRun /\ t.status = run[r].status /\ t.lifecycle = run[r].lifecycle
        /\ t.phase = run[r].phase /\ t.developed
    BY <1>1 DEF LoopRun
  <2> HIDE DEF t
  <2>2. RunFact(t, c)
    BY <1>1, <2>1 DEF RunFact, TreeOf
  <2>3. QED
    BY <1>4, <2>1, <2>2, BecomesStep DEF t, Develop
<1>5. CASE StepEnds(r)
  BY <1>1, <1>2, <1>5 DEF StepEnds, Statuses, RunFact
<1>6. CASE EvaluationFails(r)
  BY <1>1, <1>2, <1>6 DEF EvaluationFails, Statuses, RunFact
<1>7. CASE Recover(r)
  BY <1>1, <1>2, <1>7 DEF Recover, Statuses, RunFact
<1>8. QED
  BY <1>3, <1>4, <1>5, <1>6, <1>7 DEF Loop

LEMMA SourceMovesStep ==
  ASSUME IInv, SourceMoves
  PROVE  IInv'
<1>1. /\ moved' \in BOOLEAN
      /\ UNCHANGED <<run, candidate, faults, candidateLock, repositoryLock, call>>
  BY DEF SourceMoves, locks, IInv, TypeOK
<1>2. TypeOK'
  BY <1>1 DEF IInv, TypeOK
<1>3. \A r \in Runs : RunOK(r)'
  BY <1>1 DEF IInv, RunOK
<1>4. \A p \in Processes : CallOK(p)'
  BY <1>1 DEF IInv, CallOK, There
<1>5. QED
  BY <1>2, <1>3, <1>4 DEF IInv

LEMMA IntrudeStep ==
  ASSUME IInv, NEW x \in Places, Intrude(x)
  PROVE  IInv'
<1> DEFINE c == [candidate[x] EXCEPT !.foreign = TRUE,
                                     !.path = IF @ = "absent" THEN "public" ELSE @]
<1>1. /\ candidate' = [candidate EXCEPT ![x] = c]
      /\ \A r \in Runs : Place[r] = x => candidateLock[r] = Nobody
      /\ UNCHANGED <<run, moved, faults, candidateLock, repositoryLock, call>>
  BY DEF Intrude, world, locks, IInv, TypeOK
<1>2. /\ c \in Candidate /\ c.path # "absent" /\ c.files = candidate[x].files
      /\ c.registered = candidate[x].registered /\ c.index = candidate[x].index
      /\ candidate[x].path # "absent" => c.path = candidate[x].path
  BY DEF IInv, TypeOK, Candidate
<1> HIDE DEF c
<1>3. /\ candidate' \in [Places -> Candidate] /\ candidate'[x] = c
      /\ \A y \in Places : y # x => candidate'[y] = candidate[y]
  BY <1>1, <1>2 DEF IInv, TypeOK
<1>4. TypeOK'
  BY <1>1, <1>3 DEF IInv, TypeOK
<1>5. ASSUME NEW r \in Runs PROVE RunOK(r)'
  <2>1. Place[r] \in Places /\ RunFact(run[r], candidate[Place[r]])
    BY CandidateAssumption DEF IInv, RunOK
  <2>2. CASE Place[r] # x
    BY <1>1, <1>3, <2>1, <2>2 DEF RunOK
  <2>3. CASE Place[r] = x
    <3>1. RunFact(run[r], c)
      BY <1>2, <2>1, <2>3 DEF RunFact, Holds, Recoverable
    <3>2. QED
      BY <1>1, <1>3, <2>3, <3>1 DEF RunOK
  <2>4. QED
    BY <2>2, <2>3
<1>6. ASSUME NEW p \in Processes PROVE CallOK(p)'
  <2>1. SUFFICES ASSUME call[p].at \notin Outside PROVE CallOK(p)'
    BY <1>1 DEF CallOK
  <2>2. /\ candidateLock[call[p].run] = p /\ call[p].run \in Runs
        /\ Place[call[p].run] \in Places
        /\ CommandFact(call[p], run[call[p].run], There(p))
    BY <2>1, Own
  <2>3. Place[call[p].run] # x
    BY <1>1, <2>2, CandidateAssumption
  <2>4. There(p)' = There(p)
    BY <1>1, <1>3, <2>2, <2>3 DEF There
  <2>5. QED
    BY <1>1, <2>2, <2>4 DEF CallOK
<1>7. QED
  BY <1>4, <1>5, <1>6 DEF IInv

-----------------------------------------------------------------------------
(* The invariant.                                                          *)

LEMMA Initially ==
  ASSUME Init
  PROVE  IInv
<1>1. /\ Planned \in LoopRun /\ NoCandidate \in Candidate
      /\ \A r \in Runs : AtRest(r) \in Call
  BY DEF Planned, LoopRun, Statuses, Lifecycles, Phases, NoCandidate, Candidate, Nowhere,
         Trees, AtRest, Call, Points, Commands, Publications
<1>2. PICK r \in Runs : call = [p \in Processes |-> AtRest(r)]
  BY DEF Init
<1>3. TypeOK
  <2>1. run \in [Runs -> LoopRun] /\ candidate \in [Places -> Candidate]
    BY <1>1 DEF Init
  <2>2. call \in [Processes -> Call]
    BY <1>1, <1>2
  <2>3. /\ candidateLock \in [Runs -> Processes \cup {Nobody}]
        /\ repositoryLock \in Processes \cup {Nobody} /\ moved \in BOOLEAN
    BY DEF Init
  <2>4. faults \in 0 .. MaxFaults
    BY CandidateAssumption DEF Init
  <2>5. QED
    BY <2>1, <2>2, <2>3, <2>4 DEF TypeOK
<1>4. RunFact(Planned, NoCandidate)
  BY DEF RunFact, Planned, NoCandidate
<1>5. \A q \in Runs : RunOK(q)
  BY <1>4, CandidateAssumption DEF Init, RunOK
<1>6. \A p \in Processes : CallOK(p)
  BY <1>2 DEF CallOK, AtRest, Outside
<1>7. QED
  BY <1>3, <1>5, <1>6 DEF IInv

LEMMA ProgressStep ==
  ASSUME PlacesDiffer, IInv, NEW p \in Processes, Progress(p)
  PROVE  IInv'
<1>1. CASE Provisioning(p)
  BY <1>1, ProvisionStep, AdoptStep, AddWorktreeStep, RegisterStep, MakePrivateStep,
     ReadTreeStep, MaterializeStep, MaterializedStep DEF Provisioning
<1>2. CASE Application(p)
  BY <1>2, ApplyStep, StageStep, ClearStep, FillStep, FilledStep DEF Application
<1>3. CASE Removal(p)
  BY <1>3, CleanupStep, RetireStep, SurveyStep, DeleteStep, DeregisterStep DEF Removal
<1>4. CASE Publish(p)
  BY <1>4, PublishStep
<1>5. QED
  BY <1>1, <1>2, <1>3, <1>4 DEF Progress

LEMMA Stutters ==
  ASSUME IInv, UNCHANGED vars
  PROVE  IInv'
<1>1. UNCHANGED <<run, candidate, moved, candidateLock, repositoryLock, call, faults>>
  BY DEF vars
<1>2. TypeOK' /\ (\A r \in Runs : RunOK(r)') /\ (\A p \in Processes : CallOK(p)')
  BY <1>1 DEF IInv, TypeOK, RunOK, CallOK, There
<1>3. QED
  BY <1>2 DEF IInv

\* The invariant is inductive: no step of a command, of the loop or of the environment,
\* and no death or failure anywhere in a command, breaks it.
THEOREM IInvInductive ==
  ASSUME PlacesDiffer
  PROVE  (Init => IInv) /\ (IInv /\ [Next]_vars => IInv')
<1>1. ASSUME IInv, Next PROVE IInv'
  <2>1. ASSUME NEW p \in Processes,
               \/ \E command \in Commands, r \in Runs : Start(p, command, r)
               \/ AcquireLock(p) \/ AcquireRepositoryLock(p) \/ Progress(p)
               \/ Die(p) \/ Fail(p)
        PROVE  IInv'
    BY <1>1, <2>1, StartStep, AcquireLockStep, AcquireRepositoryLockStep, ProgressStep,
       DieStep, FailStep
  <2>2. QED
    BY <1>1, <2>1, LoopStep, SourceMovesStep, IntrudeStep DEF Next
<1>2. QED
  BY <1>1, Initially, Stutters

THEOREM IInvHolds ==
  ASSUME PlacesDiffer
  PROVE  Spec => []IInv
<1>1. Init => IInv
  BY IInvInductive
<1>2. IInv /\ [Next]_vars => IInv'
  BY IInvInductive
<1>3. QED
  BY <1>1, <1>2, PTL DEF Spec

\* Every variable stays in its type.
THEOREM TypesHold ==
  ASSUME PlacesDiffer
  PROVE  Spec => []TypeOK
<1>1. IInv => TypeOK
  BY DEF IInv
<1>2. QED
  BY <1>1, IInvHolds, PTL

\* What run.json says of a candidate that is ready, or patched, is there byte for byte,
\* for any processes, files and patch and any number of deaths.
THEOREM PublishedHolds ==
  ASSUME PlacesDiffer
  PROVE  Spec => []PublishedIsPhysical
<1>1. IInv => PublishedIsPhysical
  BY DEF IInv, RunOK, RunFact, PublishedIsPhysical
<1>2. QED
  BY <1>1, IInvHolds, PTL

\* An application that was interrupted anywhere can be taken up again.
THEOREM IntentHolds ==
  ASSUME PlacesDiffer
  PROVE  Spec => []IntentIsRecoverable
<1>1. IInv => IntentIsRecoverable
  BY DEF IInv, RunOK, RunFact, IntentIsRecoverable
<1>2. QED
  BY <1>1, IInvHolds, PTL

\* Cleaned is never said too early.
THEOREM CleanedHolds ==
  ASSUME PlacesDiffer
  PROVE  Spec => []CleanedIsGone
<1>1. IInv => CleanedIsGone
  BY DEF IInv, RunOK, RunFact, CleanedIsGone
<1>2. QED
  BY <1>1, IInvHolds, PTL

\* A recovery and a cleanup never both succeed.
THEOREM EndedHolds ==
  ASSUME PlacesDiffer
  PROVE  Spec => []OnlyEndedRunsRetire
<1>1. IInv => OnlyEndedRunsRetire
  BY DEF IInv, RunOK, RunFact, OnlyEndedRunsRetire
<1>2. QED
  BY <1>1, IInvHolds, PTL

\* Removal is final: a candidate is taken away only from a run that ended, and a run that
\* says so has neither files nor a registration left, whichever command died on the way.
THEOREM RemovalHolds ==
  ASSUME PlacesDiffer
  PROVE  Spec => []RemovalIsFinal
  BY CleanedHolds, EndedHolds, PTL DEF RemovalIsFinal

-----------------------------------------------------------------------------
(* Steps: what changes the lifecycle and the phase of a run.               *)

Publishes(p) ==
  /\ call[p].at = "publish" /\ run[call[p].run] = call[p].loaded
  /\ run' = [run EXCEPT ![call[p].run] = Intended(call[p])]

SameStage(r) == run'[r].lifecycle = run[r].lifecycle /\ run'[r].phase = run[r].phase

LEMMA BecomesKeeps ==
  ASSUME IInv, NEW r \in Runs, Loop(r)
  PROVE  \A q \in Runs : SameStage(q)
<1>1. run \in [Runs -> LoopRun] /\ run[r] \in LoopRun
  BY DEF IInv, TypeOK
<1>2. ASSUME NEW s \in Statuses, Becomes(r, [run[r] EXCEPT !.status = s])
      PROVE  \A q \in Runs : SameStage(q)
  BY <1>1, <1>2 DEF Becomes, SameStage, LoopRun
<1>3. CASE Develop(r)
  BY <1>1, <1>3 DEF Develop, Becomes, SameStage, LoopRun
<1>4. QED
  BY <1>2, <1>3 DEF Loop, Begin, StepEnds, EvaluationFails, Recover, Statuses

LEMMA StageSteps ==
  ASSUME IInv, [Next]_vars
  PROVE  (\A r \in Runs : SameStage(r)) \/ (\E p \in Processes : Publishes(p))
<1>1. ASSUME UNCHANGED run PROVE \A r \in Runs : SameStage(r)
  BY <1>1 DEF SameStage
<1>2. ASSUME NEW p \in Processes,
             \/ \E command \in Commands, r \in Runs : Start(p, command, r)
             \/ AcquireLock(p) \/ AcquireRepositoryLock(p) \/ Die(p) \/ Fail(p)
      PROVE  UNCHANGED run
  BY <1>2 DEF Start, AcquireLock, AcquireRepositoryLock, Die, Fail
<1>3. ASSUME NEW p \in Processes, Provisioning(p) PROVE UNCHANGED run
  BY <1>3 DEF Provisioning, Provision, Adopt, AddWorktree, Register, MakePrivate, ReadTree,
              Materialize, Materialized
<1>4. ASSUME NEW p \in Processes, Application(p) PROVE UNCHANGED run
  BY <1>4 DEF Application, Apply, Stage, Clear, Fill, Filled
<1>5. ASSUME NEW p \in Processes, Removal(p) PROVE UNCHANGED run
  BY <1>5 DEF Removal, Cleanup, Retire, Survey, Delete, Deregister
<1>6. ASSUME NEW p \in Processes, Publish(p) PROVE Publishes(p) \/ UNCHANGED run
  BY <1>6 DEF Publish, Publishes
<1>7. ASSUME NEW r \in Runs, Loop(r) PROVE \A q \in Runs : SameStage(q)
  BY <1>7, BecomesKeeps
<1>8. SourceMoves \/ (\E x \in Places : Intrude(x)) \/ UNCHANGED vars => UNCHANGED run
  BY DEF SourceMoves, Intrude, vars
<1>9. QED
  BY <1>1, <1>2, <1>3, <1>4, <1>5, <1>6, <1>7, <1>8 DEF Next, Progress

\* A publication changes one run, from what the command loaded, and says whether it
\* changes the lifecycle or the phase.
LEMMA PublicationChanges ==
  ASSUME IInv, NEW p \in Processes, Publishes(p)
  PROVE  LET k == call[p]
             r == k.run
         IN  /\ r \in Runs /\ k.next \in Publications /\ PublishFact(k, There(p))
             /\ run[r] \in LoopRun /\ run[r] = k.loaded /\ RunFact(run[r], There(p))
             /\ \A q \in Runs : q # r => run'[q] = run[q]
             /\ run'[r].status = run[r].status /\ run'[r].developed = run[r].developed
             /\ k.next \in Phases =>
                  run'[r].phase = k.next /\ run'[r].lifecycle = run[r].lifecycle
             /\ k.next \notin Phases =>
                  run'[r].lifecycle = k.next /\ run'[r].phase = run[r].phase
<1> DEFINE k == call[p]
           r == call[p].run
<1>1. /\ r \in Runs /\ k.next \in Publications /\ run[r] \in LoopRun /\ run[r] = k.loaded
      /\ RunFact(run[r], There(p)) /\ PublishFact(k, There(p))
  BY Own DEF Publishes, CommandFact, Outside, Call
<1>2. run'[r] = Intended(k) /\ \A q \in Runs : q # r => run'[q] = run[q]
  BY <1>1 DEF Publishes, IInv, TypeOK
<1>3. CASE k.next \in Phases
  <2>1. run'[r] = [run[r] EXCEPT !.phase = k.next]
    BY <1>1, <1>2, <1>3 DEF Intended
  <2>2. /\ run'[r].status = run[r].status /\ run'[r].developed = run[r].developed
        /\ run'[r].phase = k.next /\ run'[r].lifecycle = run[r].lifecycle
    BY <1>1, <2>1 DEF LoopRun
  <2>3. QED
    BY <1>1, <1>2, <1>3, <2>2
<1>4. CASE k.next \notin Phases
  <2>1. run'[r] = [run[r] EXCEPT !.lifecycle = k.next]
    BY <1>1, <1>2, <1>4 DEF Intended
  <2>2. /\ run'[r].status = run[r].status /\ run'[r].developed = run[r].developed
        /\ run'[r].lifecycle = k.next /\ run'[r].phase = run[r].phase
    BY <1>1, <2>1 DEF LoopRun
  <2>3. QED
    BY <1>1, <1>2, <1>4, <2>2
<1>5. QED
  BY <1>3, <1>4

\* A command about the candidate never publishes over a step of the loop.
THEOREM TransitionsStay ==
  ASSUME PlacesDiffer
  PROVE  Spec => NoTransitionLost
<1> DEFINE Kept == \A r \in Runs :
       run'[r].lifecycle # run[r].lifecycle \/ run'[r].phase # run[r].phase =>
         run'[r].status = run[r].status /\ run'[r].developed = run[r].developed
<1>1. ASSUME IInv, [Next]_vars PROVE Kept
  <2>1. CASE \A r \in Runs : SameStage(r)
    BY <2>1 DEF SameStage
  <2>2. ASSUME NEW p \in Processes, Publishes(p) PROVE Kept
    BY <1>1, <2>2, PublicationChanges
  <2>3. QED
    BY <1>1, <2>1, <2>2, StageSteps
<1>2. IInv /\ [Next]_vars => [Kept]_vars
  BY <1>1
<1>3. QED
  BY <1>2, IInvHolds, PTL DEF Spec, NoTransitionLost

-----------------------------------------------------------------------------
(* What is not the candidate's own.                                        *)

\* p leaves a foreign file where it is.
Spares(p) ==
  \/ UNCHANGED candidate
  \/ \E c : Change(p, c) /\ (There(p).foreign => c.foreign)

LEMMA SparesForeign ==
  ASSUME IInv, NEW p \in Processes, Spares(p)
  PROVE  \A x \in Places : candidate[x].foreign => candidate'[x].foreign
  BY Own DEF Spares, Change, There, IInv, TypeOK

LEMMA SparesBy ==
  ASSUME NEW p \in Processes, NEW c, Change(p, c), There(p).foreign => c.foreign
  PROVE  Spares(p)
  BY DEF Spares

LEMMA ProvisioningSpares ==
  ASSUME IInv, NEW p \in Processes, Provisioning(p)
  PROVE  Spares(p)
<1>1. There(p) \in Candidate
  BY Own
<1>2. CASE Provision(p) \/ Adopt(p) \/ Materialized(p)
  BY <1>2 DEF Provision, Adopt, Materialized, Spares
<1>3. CASE AddWorktree(p)
  <2> DEFINE c == [There(p) EXCEPT !.path = "public"]
  <2>1. UNCHANGED candidate \/ Change(p, c)
    BY <1>3 DEF AddWorktree
  <2>2. c.foreign = There(p).foreign
    BY <1>1 DEF Candidate
  <2> HIDE DEF c
  <2>3. QED
    BY <2>1, <2>2, SparesBy DEF Spares
<1>4. CASE Register(p)
  <2> DEFINE c == [There(p) EXCEPT !.registered = TRUE]
  <2>1. Change(p, c)
    BY <1>4 DEF Register
  <2>2. c.foreign = There(p).foreign
    BY <1>1 DEF Candidate
  <2> HIDE DEF c
  <2>3. QED
    BY <2>1, <2>2, SparesBy
<1>5. CASE MakePrivate(p)
  <2> DEFINE c == [There(p) EXCEPT !.path = "private"]
  <2>1. Change(p, c)
    BY <1>5 DEF MakePrivate
  <2>2. c.foreign = There(p).foreign
    BY <1>1 DEF Candidate
  <2> HIDE DEF c
  <2>3. QED
    BY <2>1, <2>2, SparesBy
<1>6. CASE ReadTree(p)
  <2> DEFINE c == [There(p) EXCEPT !.index = Base]
  <2>1. Change(p, c)
    BY <1>6 DEF ReadTree
  <2>2. c.foreign = There(p).foreign
    BY <1>1 DEF Candidate
  <2> HIDE DEF c
  <2>3. QED
    BY <2>1, <2>2, SparesBy
<1>7. CASE Materialize(p)
  <2>1. PICK f : Change(p, [There(p) EXCEPT !.files[f] = There(p).index[f]])
    BY <1>7 DEF Materialize, Write
  <2> DEFINE c == [There(p) EXCEPT !.files[f] = There(p).index[f]]
  <2>2. Change(p, c) /\ c.foreign = There(p).foreign
    BY <1>1, <2>1 DEF Candidate
  <2> HIDE DEF c
  <2>3. QED
    BY <2>2, SparesBy
<1>8. QED
  BY <1>2, <1>3, <1>4, <1>5, <1>6, <1>7 DEF Provisioning

LEMMA ApplicationSpares ==
  ASSUME IInv, NEW p \in Processes, Application(p)
  PROVE  Spares(p)
<1>1. There(p) \in Candidate
  BY Own
<1>2. CASE Apply(p) \/ Filled(p)
  BY <1>2 DEF Apply, Filled, Spares
<1>3. CASE Stage(p)
  <2> DEFINE c == [There(p) EXCEPT !.index = Patched]
  <2>1. UNCHANGED candidate \/ Change(p, c)
    BY <1>3 DEF Stage
  <2>2. c.foreign = There(p).foreign
    BY <1>1 DEF Candidate
  <2> HIDE DEF c
  <2>3. QED
    BY <2>1, <2>2, SparesBy DEF Spares
<1>4. CASE Clear(p)
  <2>1. CASE UNCHANGED candidate
    BY <2>1 DEF Spares
  <2>2. CASE \E f : Erase(p, f)
    <3>1. PICK f : Change(p, [There(p) EXCEPT !.files[f] = Missing])
      BY <2>2 DEF Erase
    <3> DEFINE c == [There(p) EXCEPT !.files[f] = Missing]
    <3>2. Change(p, c) /\ c.foreign = There(p).foreign
      BY <1>1, <3>1 DEF Candidate
    <3> HIDE DEF c
    <3>3. QED
      BY <3>2, SparesBy
  <2>3. QED
    BY <1>4, <2>1, <2>2 DEF Clear
<1>5. CASE Fill(p)
  <2>1. PICK f : Change(p, [There(p) EXCEPT !.files[f] = There(p).index[f]])
    BY <1>5 DEF Fill, Write
  <2> DEFINE c == [There(p) EXCEPT !.files[f] = There(p).index[f]]
  <2>2. Change(p, c) /\ c.foreign = There(p).foreign
    BY <1>1, <2>1 DEF Candidate
  <2> HIDE DEF c
  <2>3. QED
    BY <2>2, SparesBy
<1>6. QED
  BY <1>2, <1>3, <1>4, <1>5 DEF Application

\* Only Delete forgets what is foreign, and it begins where nothing is.
LEMMA RemovalSpares ==
  ASSUME IInv, NEW p \in Processes, Removal(p)
  PROVE  Spares(p)
<1>1. There(p) \in Candidate
  BY Own
<1>2. CASE Cleanup(p) \/ Retire(p) \/ Survey(p)
  BY <1>2 DEF Cleanup, Retire, Survey, Spares
<1>3. CASE Delete(p)
  <2>1. call[p].at = "delete"
    BY <1>3 DEF Delete
  <2>2. ~There(p).foreign
    BY <2>1, Removing DEF CommandFact
  <2>3. QED
    BY <1>3, <2>2 DEF Delete, Erase, Spares
<1>4. CASE Deregister(p)
  <2> DEFINE c == [There(p) EXCEPT !.registered = FALSE, !.index = Nowhere]
  <2>1. Change(p, c)
    BY <1>4 DEF Deregister
  <2>2. c.foreign = There(p).foreign
    BY <1>1 DEF Candidate
  <2> HIDE DEF c
  <2>3. QED
    BY <2>1, <2>2, SparesBy
<1>5. QED
  BY <1>2, <1>3, <1>4 DEF Removal

\* No command, and no death or failure of one, removes a file that somebody else left
\* in a candidate.
THEOREM ForeignHolds ==
  ASSUME PlacesDiffer
  PROVE  Spec => ForeignStays
<1> DEFINE Spared == \A x \in Places : candidate[x].foreign => candidate'[x].foreign
<1>1. ASSUME IInv, [Next]_vars PROVE Spared
  <2>1. CASE UNCHANGED candidate
    BY <2>1
  <2>2. ASSUME NEW p \in Processes, Progress(p) PROVE UNCHANGED candidate \/ Spares(p)
    BY <1>1, <2>2, ProvisioningSpares, ApplicationSpares, RemovalSpares
       DEF Progress, Publish
  <2>3. ASSUME NEW p \in Processes, Die(p) \/ Fail(p) PROVE Spares(p)
    BY <1>1, <2>3, TornHarmless DEF Die, Fail, Spares
  <2>4. ASSUME NEW p \in Processes,
               \/ \E command \in Commands, r \in Runs : Start(p, command, r)
               \/ AcquireLock(p) \/ AcquireRepositoryLock(p)
        PROVE  UNCHANGED candidate
    BY <2>4 DEF Start, AcquireLock, AcquireRepositoryLock
  <2>5. ASSUME NEW r \in Runs, Loop(r) PROVE UNCHANGED candidate
    BY <2>5 DEF Loop, Begin, Develop, StepEnds, EvaluationFails, Recover, Becomes
  <2>6. ASSUME NEW x \in Places, Intrude(x) PROVE Spared
    BY <1>1, <2>6 DEF Intrude, IInv, TypeOK, Candidate
  <2>7. SourceMoves \/ UNCHANGED vars => UNCHANGED candidate
    BY DEF SourceMoves, vars
  <2>8. QED
    BY <1>1, <2>1, <2>2, <2>3, <2>4, <2>5, <2>6, <2>7, SparesForeign DEF Next
<1>2. IInv /\ [Next]_vars => [Spared]_vars
  BY <1>1
<1>3. QED
  BY <1>2, IInvHolds, PTL DEF Spec, ForeignStays

-----------------------------------------------------------------------------
(* The refinement.                                                         *)

\* What is visible of a run depends on its run.json alone.
View(s) ==
  CASE s.lifecycle = "Provisioning" -> <<"planned">>
    [] s.lifecycle = "Active" ->
         IF s.phase = "Applying" THEN <<"patching">> ELSE <<"tree", TreeOf(s)>>
    [] s.lifecycle = "Cleaning" -> <<"removing">>
    [] s.lifecycle = "Cleaned" -> <<"gone">>

LEMMA VisibleIsView ==
  ASSUME NEW r \in Runs, run \in [Runs -> LoopRun], RunOK(r)
  PROVE  Visible(r) = View(run[r])
<1>1. run[r] \in LoopRun /\ RunFact(run[r], candidate[Place[r]])
  BY DEF RunOK
<1>2. CASE run[r].lifecycle = "Active" /\ run[r].phase # "Applying"
  <2>1. candidate[Place[r]].files = TreeOf(run[r])
    BY <1>1, <1>2 DEF RunFact, Holds
  <2>2. QED
    BY <1>2, <2>1 DEF Visible, View
<1>3. CASE ~(run[r].lifecycle = "Active" /\ run[r].phase # "Applying")
  BY <1>1, <1>3 DEF Visible, View, LoopRun, Lifecycles
<1>4. QED
  BY <1>2, <1>3

\* The candidate implements CandidateTree: through run.json it appears, is patched and
\* disappears in single steps, whatever happens to it on the disk meanwhile.
THEOREM ImplementsTree ==
  ASSUME PlacesDiffer
  PROVE  Spec => IsTree
<1> DEFINE seen == [r \in Runs |-> Visible(r)]
<1>1. ASSUME Init PROVE Tree!Init
  <2>1. \A r \in Runs : Visible(r) = <<"planned">>
    BY <1>1 DEF Init, Visible, Planned
  <2>2. QED
    BY <2>1 DEF Tree!Init, Tree!Planned
<1>2. ASSUME IInv, IInv', [Next]_vars PROVE [Tree!Next]_seen
  <2>1. \A r \in Runs : Visible(r) = View(run[r]) /\ Visible(r)' = View(run'[r])
    <3>1. ASSUME NEW r \in Runs PROVE Visible(r) = View(run[r])
      BY <1>2, VisibleIsView DEF IInv, TypeOK
    <3>2. ASSUME NEW r \in Runs PROVE Visible(r)' = View(run'[r])
      <4>1. run' \in [Runs -> LoopRun] /\ RunFact(run'[r], candidate'[Place[r]])
        BY <1>2 DEF IInv, TypeOK, RunOK
      <4>2. CASE run'[r].lifecycle = "Active" /\ run'[r].phase # "Applying"
        <5>1. candidate'[Place[r]].files = TreeOf(run'[r])
          BY <4>1, <4>2 DEF RunFact, Holds
        <5>2. QED
          BY <4>2, <5>1 DEF Visible, View
      <4>3. CASE ~(run'[r].lifecycle = "Active" /\ run'[r].phase # "Applying")
        BY <4>1, <4>3 DEF Visible, View, LoopRun, Lifecycles
      <4>4. QED
        BY <4>2, <4>3
    <3>3. QED
      BY <3>1, <3>2
  <2>2. CASE \A r \in Runs : SameStage(r)
    <3>1. \A r \in Runs : View(run'[r]) = View(run[r])
      BY <2>2 DEF SameStage, View, TreeOf
    <3>2. seen' = seen
      BY <2>1, <3>1
    <3>3. QED
      BY <3>2
  <2>3. ASSUME NEW p \in Processes, Publishes(p) PROVE Tree!Next
    <3> DEFINE r == call[p].run
               k == call[p]
    <3>1. /\ r \in Runs /\ k.next \in Publications /\ PublishFact(k, There(p))
          /\ run[r] \in LoopRun /\ run[r] = k.loaded /\ RunFact(run[r], There(p))
          /\ \A q \in Runs : q # r => run'[q] = run[q]
          /\ k.next \in Phases =>
               run'[r].phase = k.next /\ run'[r].lifecycle = run[r].lifecycle
          /\ k.next \notin Phases =>
               run'[r].lifecycle = k.next /\ run'[r].phase = run[r].phase
      BY <1>2, <2>3, PublicationChanges
    <3>2. /\ seen[r] = View(run[r])
          /\ seen' = [seen EXCEPT ![r] = View(run'[r])]
      BY <2>1, <3>1
    <3>3. CASE k.next = "Active"
      <4>1. View(run[r]) = <<"planned">> /\ View(run'[r]) = <<"tree", Base>>
        BY <3>1, <3>3 DEF PublishFact, RunFact, View, TreeOf, Phases
      <4>2. Tree!Provision(r)
        BY <3>2, <4>1 DEF Tree!Provision, Tree!Turns, Tree!Planned, Tree!Tree
      <4>3. QED
        BY <3>1, <4>2 DEF Tree!Next
    <3>4. CASE k.next = "Applying"
      <4>1. View(run[r]) = <<"tree", Base>> /\ View(run'[r]) = <<"patching">>
        BY <3>1, <3>4 DEF PublishFact, View, TreeOf, Phases
      <4>2. Tree!Apply(r)
        BY <3>2, <4>1 DEF Tree!Apply, Tree!Turns, Tree!Patching, Tree!Tree
      <4>3. QED
        BY <3>1, <4>2 DEF Tree!Next
    <3>5. CASE k.next = "Applied"
      <4>1. View(run[r]) = <<"patching">> /\ View(run'[r]) = <<"tree", Patched>>
        BY <3>1, <3>5 DEF PublishFact, RunFact, View, TreeOf, Phases
      <4>2. Tree!Apply(r)
        BY <3>2, <4>1 DEF Tree!Apply, Tree!Turns, Tree!Patching, Tree!Tree
      <4>3. QED
        BY <3>1, <4>2 DEF Tree!Next
    <3>6. CASE k.next = "Cleaning"
      <4>1. /\ View(run[r]) = <<"tree", TreeOf(run[r])>> /\ View(run'[r]) = <<"removing">>
            /\ TreeOf(run[r]) \in {Base, Patched}
        BY <3>1, <3>6 DEF PublishFact, RunFact, View, TreeOf, Phases
      <4>2. Tree!Remove(r)
        BY <3>2, <4>1 DEF Tree!Remove, Tree!Turns, Tree!Removing, Tree!Tree
      <4>3. QED
        BY <3>1, <4>2 DEF Tree!Next
    <3>7. CASE k.next = "Cleaned"
      <4>1. View(run[r]) = <<"removing">> /\ View(run'[r]) = <<"gone">>
        BY <3>1, <3>7 DEF PublishFact, View, Phases
      <4>2. Tree!Remove(r)
        BY <3>2, <4>1 DEF Tree!Remove, Tree!Turns, Tree!Removing, Tree!Gone
      <4>3. QED
        BY <3>1, <4>2 DEF Tree!Next
    <3>8. QED
      BY <3>1, <3>3, <3>4, <3>5, <3>6, <3>7 DEF Publications
  <2>4. QED
    BY <1>2, <2>2, <2>3, StageSteps
<1>3. QED
  BY <1>1, <1>2, IInvHolds, PTL DEF Spec, IsTree, Tree!Spec
=============================================================================
