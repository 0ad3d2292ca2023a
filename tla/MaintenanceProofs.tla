------------------------- MODULE MaintenanceProofs -------------------------
(***************************************************************************)
(* Proofs about the runs root: what every step of a worker, a purge and a  *)
(* migration leaves of the runs, and what a purge accounts for.            *)
(***************************************************************************)
EXTENDS Maintenance, FiniteSetTheorems, TLAPS

-----------------------------------------------------------------------------
(* Values.                                                                 *)

\* Trees, intents and their absence are told apart.
LEMMA Absence ==
  /\ \A t \in Tree : There(t) /\ t # Torn
  /\ \A it \in Pendings : IsRecord(it)
  /\ ~There(Nothing) /\ ~IsRecord(Nothing) /\ ~IsRecord(Torn) /\ There(Torn)
BY NothingAssumption DEF There, IsRecord, IsTorn

\* What is there is a tree.
LEMMA Trees ==
  ASSUME TypeOK, NEW r \in Runs
  PROVE  /\ There(source[r]) <=> source[r] \in Tree
         /\ There(staged[r]) <=> staged[r] \in Tree
         /\ There(backup[r]) <=> backup[r] \in Tree
         /\ IsRecord(pending[r]) <=> pending[r] \in Pendings
         /\ source[r] \in Tree \cup {Nothing} /\ staged[r] \in Tree \cup {Nothing}
         /\ backup[r] \in Tree \cup {Nothing} /\ pending[r] \in Pendings \cup {Nothing, Torn}
BY Absence DEF TypeOK, There, IsRecord, IsTorn

LEMMA Clocks == MaxClock \in Nat /\ Runs \subseteq 0 .. MaxClock /\ Runs \subseteq Nat
<1>1. Cardinality(Runs) \in Nat
  BY RunsRootAssumption, FS_CardinalityType
<1> QED BY <1>1, RunsRootAssumption

LEMMA Partners ==
  /\ Purgers \cap Migrators = {} /\ worker \notin Processes /\ Processes = Purgers \cup Migrators
BY RunsRootAssumption DEF worker, Processes

\* A migration that is under way, and where it may go.
LEMMA Under ==
  ASSUME TypeOK, NEW p \in Migrators
  PROVE  /\ p \in Processes /\ p \in DOMAIN proc
         /\ proc[p] # idle => proc[p] \in [at : MigratorPlaces, run : Runs]
         /\ proc[p] = idle => proc[p].at = "idle"
         /\ proc[p].at # "idle" => proc[p] # idle
BY Partners DEF TypeOK, MigratorStates, idle

\* A migration goes on with its run.
LEMMA Going ==
  ASSUME TypeOK, NEW p \in Migrators, proc[p] # idle, NEW place \in MigratorPlaces, Goes(p, place)
  PROVE  /\ DOMAIN proc' = Processes
         /\ proc'[p] \in [at : MigratorPlaces, run : Runs]
         /\ proc'[p].at = place /\ proc'[p].run = proc[p].run /\ proc'[p] # idle
         /\ \A q \in Processes : q # p => proc'[q] = proc[q]
         /\ \A q \in Migrators : proc'[q] \in MigratorStates
<1>1. proc[p] \in [at : MigratorPlaces, run : Runs] /\ p \in DOMAIN proc /\ DOMAIN proc = Processes
  BY Under DEF TypeOK
<1>2. proc' = [proc EXCEPT ![p] = [proc[p] EXCEPT !.at = place]]
  BY DEF Goes
<1>3. proc'[p] = [proc[p] EXCEPT !.at = place]
  BY <1>1, <1>2
<1>4. proc'[p] \in [at : MigratorPlaces, run : Runs] /\ proc'[p].at = place /\ proc'[p].run = proc[p].run
  BY <1>1, <1>3
<1>5. place # "idle"
  BY DEF MigratorPlaces, EarlyPlaces, LatePlaces
<1>6. proc'[p] # idle
  BY <1>4, <1>5 DEF idle
<1> QED BY <1>1, <1>2, <1>4, <1>6 DEF MigratorStates, TypeOK, Processes

\* A process that ends gives its locks back and nobody else's.
LEMMA Ending ==
  ASSUME TypeOK, NEW p \in Processes, Ends(p)
  PROVE  /\ DOMAIN proc' = Processes /\ proc'[p] = idle
         /\ \A q \in Processes : q # p => proc'[q] = proc[q]
         /\ \A q \in Migrators : proc'[q] \in MigratorStates
         /\ holder' \subseteq holder
         /\ \A h \in holder : h[2] # p => h \in holder'
         /\ \A h \in holder' : h[2] # p
<1>1. proc' = [proc EXCEPT ![p] = idle] /\ holder' = holder \ LocksOf(p)
  BY DEF Ends
<1>2. idle \in MigratorStates
  BY DEF idle, MigratorStates
<1> QED BY <1>1, <1>2 DEF TypeOK, LocksOf, Processes

\* Who holds a lock keeps everybody else out.
LEMMA Alone ==
  ASSUME OneHolder, NEW p, NEW q, NEW n, Holds(p, n), Holds(q, n)
  PROVE  p = q
<1>1. <<n, p>> = <<n, q>>
  BY DEF Holds, OneHolder
<1> QED BY <1>1

LEMMA Kept ==
  ASSUME NEW q, \A h \in holder : h[2] = q => h \in holder', NEW n, Holds(q, n)
  PROVE  Holds(q, n)'
BY DEF Holds

\* The identities in use, one by one.
LEMMA SettledAre ==
  /\ \A r \in Runs : There(source[r]) => source[r].ino \in Settled
  /\ \A r \in Runs : There(backup[r]) => backup[r].ino \in Settled
  /\ \A o \in tombs : o.ino \in Settled
  /\ \A r \in Runs : There(staged[r]) => staged[r].ino \in Inodes(staged)
  /\ \A n \in Settled : \/ \E r \in Runs : There(source[r]) /\ n = source[r].ino
                        \/ \E r \in Runs : There(backup[r]) /\ n = backup[r].ino
                        \/ \E o \in tombs : n = o.ino
  /\ \A n \in Inodes(staged) : \E r \in Runs : There(staged[r]) /\ n = staged[r].ino
BY DEF Settled, Inodes

\* The clock goes forward.
LEMMA ClockIsNew ==
  ASSUME TypeOK, RunsAreWhole
  PROVE  /\ clock \in Nat /\ clock + 1 \notin Settled \cup Inodes(staged) /\ Free(clock + 1)
         /\ \A r \in Runs : There(staged[r]) => staged[r].ino \in Int
<1>1. clock \in Nat
  BY Clocks DEF TypeOK
<1>2. ~(clock + 1 <= clock)
  BY <1>1
<1>3. clock + 1 \notin Settled \cup Inodes(staged)
  BY <1>2 DEF RunsAreWhole
<1>4. Free(clock + 1)
  <2> SUFFICES ASSUME NEW h \in holder, h[1] = clock + 1 PROVE FALSE
    BY DEF Free
  <2>1. h[1] <= clock
    BY DEF RunsAreWhole
  <2> QED BY <1>2, <2>1
<1> QED BY <1>1, <1>3, <1>4, Trees DEF Tree

\* Identities are numbers.
LEMMA Numbers ==
  ASSUME TypeOK
  PROVE  /\ \A n \in Settled \cup Inodes(staged) : n \in Int
         /\ \A h \in holder : h[1] \in Int /\ h[2] \in Processes \cup {worker} /\ h = <<h[1], h[2]>>
<1>1. \A h \in holder : h[1] \in Int /\ h[2] \in Processes \cup {worker} /\ h = <<h[1], h[2]>>
  BY DEF TypeOK
<1>2. \A n \in Settled : n \in Int
  BY SettledAre, Trees DEF Tree, TypeOK
<1>3. \A n \in Inodes(staged) : n \in Int
  BY SettledAre, Trees DEF Tree
<1> QED BY <1>1, <1>2, <1>3

-----------------------------------------------------------------------------
(* Steps of the others: a migration sees nothing of them.                  *)

\* A migration stands as long as nobody touches its run or its locks.
LEMMA StandsStill ==
  ASSUME NEW q \in Migrators, NEW r \in Runs,
         HoldsRun(q, r), CopiesRun(q, r), MayFinish(q, r), proc'[q] = proc[q],
         \A h \in holder : h[2] = q => h \in holder',
         proc[q].at \in EarlyPlaces \cup LatePlaces => source'[r] = source[r],
         proc[q].at \in EarlyPlaces => pending'[r] = pending[r],
         proc[q].at \in EarlyPlaces \cup {"backed"} =>
           staged'[r] = staged[r] /\ backup'[r] = backup[r]
  PROVE  HoldsRun(q, r)' /\ CopiesRun(q, r)' /\ MayFinish(q, r)'
<1>1. \A n : Holds(q, n) => Holds(q, n)'
  BY DEF Holds
<1>2. HoldsRun(q, r)'
  BY <1>1 DEF HoldsRun, Guarded, EarlyPlaces, There
<1>3. CopiesRun(q, r)'
  BY <1>1 DEF CopiesRun, Bound, IsRecord, IsTorn, There, EarlyPlaces
<1>4. MayFinish(q, r)'
  BY <1>1 DEF MayFinish, Guarded, There, IsOriginal
<1> QED BY <1>2, <1>3, <1>4

\* What a step of a worker or a purge may do: it locks settled directories, moves or
\* writes no run whose lock a migration holds, and leaves what migrations make.
LEMMA OutsideKeeps ==
  ASSUME MInv, TypeOK', \A r \in Runs : There(source'[r]) => source'[r].parts = Parts, OneHolder',
         UNCHANGED migrationFiles, \A q \in Migrators : proc'[q] = proc[q],
         \A h \in holder' : h \in holder \/ h[1] \in Settled,
         \A h \in holder : h[2] \in Migrators => h \in holder',
         clock' = clock \/ clock' = clock + 1,
         \A n \in Settled' : n \in Settled \/ (n = clock + 1 /\ clock' = clock + 1),
         \A r \in Runs : \A q \in Migrators : Guarded(q, source[r]) => source'[r] = source[r]
  PROVE  MInv'
<1>1. clock \in Nat /\ staged' = staged /\ backup' = backup /\ pending' = pending
  BY Clocks DEF MInv, TypeOK, migrationFiles
<1>2. Inodes(staged)' = Inodes(staged)
  BY <1>1 DEF Inodes, There
<1>3. \A r \in Runs : \A q \in Migrators : proc[q] # idle /\ proc[q].run = r => 
        HoldsRun(q, r) /\ CopiesRun(q, r) /\ MayFinish(q, r)
  BY DEF MInv, MigratorsStand
<1>4. RunsAreWhole'
  <2>1. \A n \in Settled \cup Inodes(staged) : n <= clock /\ n \in Int
    BY Numbers DEF MInv, RunsAreWhole
  <2>2. \A h \in holder : h[1] <= clock /\ h[1] \in Int
    BY Numbers DEF MInv, RunsAreWhole
  <2>3. ASSUME NEW n \in Settled' \cup Inodes(staged)' PROVE n <= clock'
    <3>1. CASE n = clock + 1 /\ clock' = clock + 1
      BY <3>1, <1>1
    <3>2. CASE n \in Settled \cup Inodes(staged)
      <4>1. n <= clock /\ n \in Int
        BY <3>2, <2>1
      <4> QED BY <4>1, <1>1
    <3> QED BY <2>3, <1>2, <3>1, <3>2
  <2>4. ASSUME NEW h \in holder' PROVE h[1] <= clock'
    <3>1. h[1] <= clock /\ h[1] \in Int
      BY <2>1, <2>2
    <3> QED BY <3>1, <1>1
  <2> QED BY <2>3, <2>4 DEF RunsAreWhole
<1>5. IntentsArePlanned'
  <2>1. \A r \in Runs : IsRecord(pending[r]) => pending[r].token \in Nat
    BY Trees, Clocks DEF Pendings, MInv
  <2> QED BY <1>1, <2>1 DEF MInv, IntentsArePlanned, IsRecord, There, IsTorn
<1>6. CopiesAreApart'
  <2>0. TypeOK /\ RunsAreWhole
    BY DEF MInv
  <2>1. clock + 1 \notin Inodes(staged)
    BY <2>0, ClockIsNew
  <2>2. ASSUME NEW r \in Runs, There(staged[r]) PROVE staged[r].ino \notin Settled'
    BY <2>1, <2>2, SettledAre DEF MInv, CopiesAreApart
  <2>3. \A r, s \in Runs :
          r # s /\ There(staged[r]) /\ There(staged[s]) => staged[r].ino # staged[s].ino
    BY DEF MInv, CopiesAreApart
  <2>4. ASSUME NEW q \in Migrators, proc[q].at = "intended"
        PROVE  Token(q)' \notin Settled' \cup Inodes(staged) /\ Free(Token(q))'
    <3> DEFINE n == Token(q)
    <3>1. n \notin Settled \cup Inodes(staged) /\ Free(n)
      BY <2>4 DEF MInv, CopiesAreApart
    <3>2. proc[q] # idle /\ proc[q].run \in Runs
      BY <2>4, <2>0, Under
    <3>3. IsRecord(pending[proc[q].run])
      BY <1>3, <2>4, <3>2 DEF CopiesRun, Bound
    <3>4. n <= clock /\ n \in Nat
      BY <2>4, <3>2, <3>3, Trees, Clocks DEF Pendings, MInv, IntentsArePlanned, Token
    <3> HIDE DEF n
    <3>5. n # clock + 1
      BY <1>1, <3>4
    <3>6. n \notin Settled'
      BY <3>1, <3>5
    <3>7. Token(q)' = n
      BY <1>1 DEF n, Token
    <3>8. \A h \in holder' : h[1] # n
      BY <3>1 DEF Free
    <3> QED BY <3>1, <3>6, <3>7, <3>8 DEF Free
  <2>5. \A q \in Migrators : proc'[q].at = "intended" =>
          Token(q)' \notin Settled' \cup Inodes(staged)' /\ Free(Token(q))'
    BY <2>4, <1>2, Under, <2>0
  <2> QED BY <1>1, <1>2, <2>2, <2>3, <2>5 DEF CopiesAreApart, There
<1>7. CopiesAreLocked'
  <2> SUFFICES ASSUME NEW h \in holder', NEW r \in Runs, There(staged[r]), staged[r].ino = h[1]
               PROVE  /\ h[2] \in Migrators /\ proc'[h[2]] # idle /\ proc'[h[2]].run = r
                      /\ proc'[h[2]].at \in {"copied", "rewritten", "ready", "backed"}
    BY <1>1 DEF CopiesAreLocked, There
  <2>1. h[1] \notin Settled
    BY DEF MInv, CopiesAreApart
  <2>2. h \in holder
    BY <2>1
  <2> QED BY <2>2 DEF MInv, CopiesAreLocked
<1>8. MigratorsStand'
  <2> SUFFICES ASSUME NEW q \in Migrators, proc[q] # idle, NEW r \in Runs, proc[q].run = r
               PROVE  HoldsRun(q, r)' /\ CopiesRun(q, r)' /\ MayFinish(q, r)'
    BY Under DEF MigratorsStand, MInv
  <2>1. HoldsRun(q, r) /\ CopiesRun(q, r) /\ MayFinish(q, r)
    BY <1>3
  <2>2. proc[q].at \in EarlyPlaces \cup LatePlaces => source'[r] = source[r]
    BY <2>1 DEF HoldsRun
  <2> QED BY <1>1, <2>1, <2>2, StandsStill
<1> QED BY <1>4, <1>5, <1>6, <1>7, <1>8 DEF MInv

-----------------------------------------------------------------------------
(* Steps of the workers.                                                   *)

\* A run nobody touched is where it was.
LEMMA Untouched ==
  ASSUME NEW r \in Runs, source'[r] = source[r], backup'[r] = backup[r]
  PROVE  RunMoves(r)
BY DEF RunMoves, There

LEMMA ArriveKeeps ==
  ASSUME MInv, NEW r \in Runs, Arrive(r)
  PROVE  MInv' /\ \A s \in Runs : RunMoves(s)
<1>1. /\ TypeOK /\ clock \in Nat /\ clock < MaxClock /\ clock' = clock + 1 /\ ~There(source[r])
      /\ source' = [source EXCEPT ![r] = NewTree(r, clock + 1)]
      /\ staged' = staged /\ backup' = backup /\ pending' = pending /\ tombs' = tombs
      /\ holder' = holder /\ proc' = proc
  BY Clocks DEF Arrive, MInv, TypeOK, purgeFiles, migrationFiles
<1>2. NewTree(r, clock + 1) \in Tree /\ NewTree(r, clock + 1).ino = clock + 1 /\ NewTree(r, clock + 1).parts = Parts
  BY <1>1, Clocks DEF NewTree, Tree
<1>3. TypeOK'
  BY <1>1, <1>2, Clocks DEF TypeOK
<1>4. source'[r] = NewTree(r, clock + 1) /\ \A s \in Runs : s # r => source'[s] = source[s]
  BY <1>1 DEF TypeOK
<1>5. \A s \in Runs : There(source'[s]) => source'[s].parts = Parts
  BY <1>2, <1>4 DEF MInv, RunsAreWhole
<1>6. \A n \in Settled' : n \in Settled \/ n = clock + 1
  BY <1>1, <1>2, <1>4, SettledAre DEF Settled, Inodes
<1>7. \A s \in Runs : \A q \in Migrators : Guarded(q, source[s]) => source'[s] = source[s]
  BY <1>1, <1>4 DEF Guarded
<1>8. MInv'
  BY <1>1, <1>3, <1>5, <1>6, <1>7, OutsideKeeps DEF MInv, OneHolder, migrationFiles
<1>9. RunMoves(r)
  BY <1>1, <1>2, <1>4 DEF RunMoves
<1> QED BY <1>1, <1>4, <1>8, <1>9, Untouched

LEMMA TakeKeeps ==
  ASSUME MInv, NEW r \in Runs, Take(r)
  PROVE  MInv' /\ \A s \in Runs : RunMoves(s)
<1>1. /\ TypeOK /\ There(source[r]) /\ Free(source[r].ino)
      /\ holder' = holder \cup {<<source[r].ino, worker>>}
      /\ source' = source /\ staged' = staged /\ backup' = backup /\ pending' = pending
      /\ tombs' = tombs /\ proc' = proc /\ clock' = clock
  BY DEF Take, files, MInv
<1>2. source[r].ino \in Int /\ source[r].ino \in Settled
  BY <1>1, Trees, SettledAre DEF Tree
<1>3. TypeOK'
  BY <1>1, <1>2 DEF TypeOK
<1>4. OneHolder'
  BY <1>1 DEF MInv, OneHolder, Free
<1>5. Settled' = Settled
  BY <1>1 DEF Settled, Inodes, There
<1>6. MInv'
  BY <1>1, <1>2, <1>3, <1>4, <1>5, OutsideKeeps DEF MInv, RunsAreWhole, migrationFiles
<1> QED BY <1>1, <1>6, Untouched

LEMMA LeaveKeeps ==
  ASSUME MInv, NEW r \in Runs, Leave(r)
  PROVE  MInv' /\ \A s \in Runs : RunMoves(s)
<1>1. /\ TypeOK /\ clock \in Nat /\ There(source[r]) /\ Holds(worker, source[r].ino)
      /\ holder' = holder \ {<<source[r].ino, worker>>}
      /\ staged' = staged /\ backup' = backup /\ pending' = pending
      /\ tombs' = tombs /\ proc' = proc
  BY Clocks DEF Leave, purgeFiles, migrationFiles, MInv, TypeOK
<1>2. source[r] \in Tree /\ source[r].parts = Parts
  BY <1>1, Trees DEF MInv, RunsAreWhole
<1>3. /\ clock' \in 0 .. MaxClock /\ (clock' = clock \/ clock' = clock + 1)
      /\ source' \in [Runs -> Tree \cup {Nothing}]
      /\ source'[r] \in Tree /\ source'[r].ino = source[r].ino /\ source'[r].parts = Parts
      /\ \A s \in Runs : s # r => source'[s] = source[s]
  <2>1. CASE UNCHANGED <<source, clock>>
    BY <2>1, <1>1, <1>2 DEF TypeOK
  <2>2. ASSUME NEW d \in {source[r].done, TRUE}, clock < MaxClock, clock' = clock + 1,
               source' = [source EXCEPT ![r].edit = clock + 1, ![r].done = d]
        PROVE  /\ clock' \in 0 .. MaxClock /\ source' \in [Runs -> Tree \cup {Nothing}]
               /\ source'[r] \in Tree /\ source'[r].ino = source[r].ino /\ source'[r].parts = Parts
               /\ \A s \in Runs : s # r => source'[s] = source[s]
    <3> DEFINE t == [source[r] EXCEPT !.edit = clock + 1, !.done = d]
    <3>a. d \in BOOLEAN
      BY <1>2 DEF Tree
    <3>1. d \in BOOLEAN /\ clock + 1 \in 0 .. MaxClock
      BY <2>2, <3>a, <1>1, Clocks
    <3>2. t \in Tree /\ t.ino = source[r].ino /\ t.parts = Parts
      BY <3>1, <1>2 DEF Tree
    <3>3. source' = [source EXCEPT ![r] = t]
      BY <2>2, <1>1, <1>2 DEF TypeOK, Tree
    <3> HIDE DEF t
    <3> QED BY <2>2, <3>1, <3>2, <3>3, <1>1 DEF TypeOK
  <2> QED BY <2>1, <2>2 DEF Leave
<1>4. TypeOK'
  BY <1>1, <1>3 DEF TypeOK
<1>5. OneHolder'
  BY <1>1 DEF MInv, OneHolder
<1>6. Settled' = Settled
  BY <1>1, <1>2, <1>3, Absence DEF Settled, Inodes
<1>7. \A s \in Runs : \A q \in Migrators : Guarded(q, source[s]) => source'[s] = source[s]
  BY <1>1, <1>3, Alone, Partners DEF Guarded, MInv
<1>8. \A h \in holder : h[2] \in Migrators => h \in holder'
  BY <1>1, Partners
<1>9. \A s \in Runs : There(source'[s]) => source'[s].parts = Parts
  BY <1>3 DEF MInv, RunsAreWhole
<1>10. MInv'
  BY <1>1, <1>3, <1>4, <1>5, <1>6, <1>7, <1>8, <1>9, OutsideKeeps DEF migrationFiles
<1>11. RunMoves(r)
  BY <1>1, <1>3, Absence DEF RunMoves, Holds, Free
<1> QED BY <1>1, <1>3, <1>10, <1>11, Untouched

-----------------------------------------------------------------------------
(* Steps of the purges.                                                    *)

\* A step of a purger that moves no directory: what it locks was settled and free.
LEMMA PurgerKeeps ==
  ASSUME MInv, NEW p \in Purgers,
         UNCHANGED <<source, migrationFiles, tombs, clock>>,
         DOMAIN proc' = Processes, \A q \in Processes : q # p => proc'[q] = proc[q],
         \A h \in holder' : \/ h \in holder
                            \/ \E n \in Settled : Free(n) /\ h = <<n, p>>,
         \A h \in holder : h[2] # p => h \in holder'
  PROVE  MInv' /\ \A r \in Runs : RunMoves(r)
<1>1. /\ TypeOK /\ source' = source /\ staged' = staged /\ backup' = backup
      /\ pending' = pending /\ tombs' = tombs /\ clock' = clock
      /\ \A q \in Migrators : q \in Processes /\ q # p /\ proc'[q] = proc[q]
  BY Partners DEF MInv, migrationFiles
<1>2. holder' \subseteq Int \X (Processes \cup {worker})
  <2>1. p \in Processes
    BY Partners
  <2>2. ASSUME NEW h \in holder' PROVE h \in Int \X (Processes \cup {worker})
    <3>1. CASE h \in holder
      BY <3>1, <1>1 DEF TypeOK
    <3>2. CASE \E n \in Settled : Free(n) /\ h = <<n, p>>
      BY <3>2, <2>1, <1>1, Numbers
    <3> QED BY <3>1, <3>2
  <2> QED BY <2>2
<1>3. TypeOK'
  BY <1>1, <1>2 DEF TypeOK
<1>4. OneHolder'
  <2> SUFFICES ASSUME NEW h \in holder', NEW k \in holder', h[1] = k[1] PROVE h = k
    BY DEF OneHolder
  <2>1. CASE h \in holder /\ k \in holder
    BY <2>1 DEF MInv, OneHolder
  <2>2. ASSUME NEW x \in holder', NEW y \in holder', x[1] = y[1],
               NEW n \in Settled, Free(n), x = <<n, p>>
        PROVE  x = y
    <3>1. y \notin holder
      BY <2>2 DEF Free
    <3> QED BY <2>2, <3>1
  <2> QED BY <2>1, <2>2
<1>5. Settled' = Settled
  BY <1>1 DEF Settled, Inodes, There
<1>6. \A s \in Runs : There(source'[s]) => source'[s].parts = Parts
  BY <1>1 DEF MInv, RunsAreWhole
<1>7. \A h \in holder' : h \in holder \/ h[1] \in Settled
  OBVIOUS
<1>8. MInv'
  BY <1>1, <1>3, <1>4, <1>5, <1>6, <1>7, OutsideKeeps DEF migrationFiles
<1> QED BY <1>1, <1>8, Untouched

\* The locks an inventory takes.
LEMMA PlansLocks ==
  ASSUME TypeOK, NEW p \in Purgers, NEW budget, NEW prior, Plans(p, budget, prior)
  PROVE  /\ DOMAIN proc' = Processes /\ \A q \in Processes : q # p => proc'[q] = proc[q]
         /\ \A h \in holder' : h \in holder \/ \E n \in Settled : Free(n) /\ h = <<n, p>>
         /\ \A h \in holder : h[2] # p => h \in holder'
<1>1. p \in Processes /\ DOMAIN proc = Processes
  BY Partners DEF TypeOK
<1>2. CASE ~RootIsClean
  BY <1>1, <1>2, Ending DEF Plans
<1>3. CASE RootIsClean
  <2>1. /\ \E x : proc' = [proc EXCEPT ![p] = x]
        /\ holder' = (holder \ LocksOf(p)) \cup {<<source[r].ino, p>> : r \in Eligible}
    BY <1>3 DEF Plans
  <2>2. \A r \in Eligible : source[r].ino \in Settled /\ Free(source[r].ino)
    BY SettledAre DEF Eligible, Managed, Protection
  <2> QED BY <1>1, <2>1, <2>2 DEF LocksOf
<1> QED BY <1>2, <1>3

LEMMA BatchLocks ==
  ASSUME TypeOK, NEW p \in Purgers, NEW budget, Batch(p, budget)
  PROVE  /\ DOMAIN proc' = Processes /\ \A q \in Processes : q # p => proc'[q] = proc[q]
         /\ \A h \in holder' : h \in holder \/ \E n \in Settled : Free(n) /\ h = <<n, p>>
         /\ \A h \in holder : h[2] # p => h \in holder'
<1>1. p \in Processes /\ DOMAIN proc = Processes
  BY Partners DEF TypeOK
<1>2. \/ \E x : proc' = [proc EXCEPT ![p] = x] /\ holder' = holder
      \/ Ends(p) \/ Plans(p, budget, PriorFor(budget))
  BY DEF Batch
<1> QED BY <1>1, <1>2, Ending, PlansLocks

\* Where a purger goes on, what it works on stays.
LEMMA PurgerGoing ==
  ASSUME TypeOK, SelectionsAreTrees, NEW p \in Purgers, proc[p] # idle, NEW place, Goes(p, place)
  PROVE  /\ DOMAIN proc' = Processes /\ \A q \in Processes : q # p => proc'[q] = proc[q]
         /\ proc'[p].at = place /\ proc'[p].it = proc[p].it
         /\ {"at", "it"} \subseteq DOMAIN proc'[p] /\ proc'[p].it.selected \subseteq Tree
<1>1. p \in Processes /\ DOMAIN proc = Processes /\ {"at", "it"} \subseteq DOMAIN proc[p]
      /\ proc[p].it.selected \subseteq Tree
  BY Partners DEF TypeOK, SelectionsAreTrees
<1>2. proc' = [proc EXCEPT ![p] = [proc[p] EXCEPT !.at = place]]
  BY DEF Goes
<1>3. proc'[p] = [proc[p] EXCEPT !.at = place]
  BY <1>1, <1>2
<1>4. DOMAIN proc'[p] = DOMAIN proc[p] /\ proc'[p].at = place /\ proc'[p].it = proc[p].it
  BY <1>1, <1>3
<1> QED BY <1>1, <1>2, <1>4

LEMMA NotIdle ==
  ASSUME NEW p, proc[p].at # "idle"
  PROVE  proc[p] # idle
BY DEF idle

\* What an inventory selects.
LEMMA SelectsTrees ==
  ASSUME TypeOK, NEW budget
  PROVE  Selection(budget) \subseteq Tree
BY Trees DEF Selection, Surplus, Eligible, Managed

LEMMA PlansTrees ==
  ASSUME TypeOK, SelectionsAreTrees, NEW p \in Purgers, NEW budget, NEW prior,
         Plans(p, budget, prior), intent' = intent
  PROVE  SelectionsAreTrees'
<1>1. p \in Processes /\ DOMAIN proc = Processes /\ \A q \in Purgers : q \in Processes
  BY Partners DEF TypeOK
<1>2. CASE ~RootIsClean
  <2>1. Ends(p)
    BY <1>2 DEF Plans
  <2>2. proc'[p] = idle /\ \A q \in Processes : q # p => proc'[q] = proc[q]
    BY <1>1, <2>1, Ending
  <2> QED BY <1>1, <2>2 DEF SelectionsAreTrees, IsRecord, There, IsTorn
<1>3. CASE RootIsClean
  <2> DEFINE it == NewIntent(budget, Snapshot, Selection(budget), prior)
  <2>1. proc' = [proc EXCEPT ![p] = [at |-> "planned", it |-> it]]
    BY <1>3 DEF Plans
  <2>2. it.selected \subseteq Tree
    BY SelectsTrees DEF NewIntent
  <2> HIDE DEF it
  <2>3. /\ {"at", "it"} \subseteq DOMAIN proc'[p] /\ proc'[p].it.selected \subseteq Tree
        /\ \A q \in Processes : q # p => proc'[q] = proc[q]
    BY <1>1, <2>1, <2>2
  <2> QED BY <1>1, <2>3 DEF SelectionsAreTrees, IsRecord, There, IsTorn
<1> QED BY <1>2, <1>3

LEMMA BatchTrees ==
  ASSUME TypeOK, SelectionsAreTrees, NEW p \in Purgers, NEW budget, Batch(p, budget), intent' = intent
  PROVE  SelectionsAreTrees'
<1>1. p \in Processes /\ DOMAIN proc = Processes /\ \A q \in Purgers : q \in Processes
  BY Partners DEF TypeOK
<1>2. \/ proc' = [proc EXCEPT ![p] = [at |-> "resumed", it |-> intent]] /\ IsRecord(intent)
      \/ Ends(p) \/ Plans(p, budget, PriorFor(budget))
  BY DEF Batch, MayResume, IntentIsValid
<1>3. CASE proc' = [proc EXCEPT ![p] = [at |-> "resumed", it |-> intent]] /\ IsRecord(intent)
  <2>1. /\ {"at", "it"} \subseteq DOMAIN proc'[p] /\ proc'[p].it.selected \subseteq Tree
        /\ \A q \in Processes : q # p => proc'[q] = proc[q]
    BY <1>1, <1>3 DEF SelectionsAreTrees
  <2> QED BY <1>1, <2>1 DEF SelectionsAreTrees, IsRecord, There, IsTorn
<1>4. CASE Ends(p)
  <2>1. proc'[p] = idle /\ \A q \in Processes : q # p => proc'[q] = proc[q]
    BY <1>1, <1>4, Ending
  <2> QED BY <1>1, <2>1 DEF SelectionsAreTrees, IsRecord, There, IsTorn
<1> QED BY <1>2, <1>3, <1>4, PlansTrees

LEMMA EndsTrees ==
  ASSUME TypeOK, SelectionsAreTrees, NEW p \in Processes, Ends(p), intent' = intent \/ ~IsRecord(intent')
  PROVE  SelectionsAreTrees'
<1>1. proc'[p] = idle /\ \A q \in Processes : q # p => proc'[q] = proc[q]
  BY Ending
<1> QED BY <1>1 DEF SelectionsAreTrees, IsRecord, There, IsTorn, Processes

LEMMA GoesTrees ==
  ASSUME TypeOK, SelectionsAreTrees, NEW p \in Purgers, proc[p] # idle, NEW place, Goes(p, place),
         intent' = intent \/ intent' = Nothing \/ intent' = proc[p].it
  PROVE  SelectionsAreTrees'
<1>1. /\ \A q \in Processes : q # p => proc'[q] = proc[q]
      /\ {"at", "it"} \subseteq DOMAIN proc'[p] /\ proc'[p].it.selected \subseteq Tree
  BY PurgerGoing
<1>2. proc[p].it.selected \subseteq Tree
  BY DEF SelectionsAreTrees
<1> QED BY <1>1, <1>2 DEF SelectionsAreTrees, IsRecord, There, IsTorn, Processes

\* The steps of a purger that move no directory.
LEMMA ControlKeeps ==
  ASSUME MInv, SelectionsAreTrees, NEW p \in Purgers,
         \/ \E b \in Budgets : Purge(p, b)
         \/ PublishIntent(p) \/ Refuse(p) \/ Audit(p) \/ WriteTemporary(p) \/ ReplaceResult(p)
         \/ RemoveIntent(p) \/ Check(p) \/ Adopt(p) \/ Continue(p) \/ PurgerDies(p)
  PROVE  MInv' /\ SelectionsAreTrees' /\ \A r \in Runs : RunMoves(r)
<1> USE DEF files, purgeFiles, migrationFiles
<1>a. TypeOK /\ p \in Processes /\ DOMAIN proc = Processes
  BY Partners DEF MInv, TypeOK
<1> DEFINE Stays == UNCHANGED <<source, staged, backup, pending, tombs, clock>>
           Locks == /\ DOMAIN proc' = Processes /\ \A q \in Processes : q # p => proc'[q] = proc[q]
                    /\ \A h \in holder' : h \in holder \/ \E n \in Settled : Free(n) /\ h = <<n, p>>
                    /\ \A h \in holder : h[2] # p => h \in holder'
<1>b. SUFFICES Stays /\ Locks /\ SelectionsAreTrees'
  BY PurgerKeeps
<1>c. Ends(p) => Locks
  BY <1>a, Ending
<1>d. ASSUME NEW place, Goes(p, place), UNCHANGED holder, proc[p] # idle PROVE Locks
  BY <1>a, <1>d, PurgerGoing
<1>1. CASE \E b \in Budgets : Purge(p, b)
  BY <1>1, <1>a, BatchLocks, BatchTrees DEF Purge
<1>2. CASE PublishIntent(p)
  <2> DEFINE it == proc[p].it
  <2>1. proc[p] # idle
    BY <1>2, NotIdle DEF PublishIntent
  <2>2. \/ /\ intent' = it /\ Goes(p, "deleting")
           /\ holder' = holder \ {h \in LocksOf(p) : h[1] \notin {t.ino : t \in it.selected}}
        \/ Ends(p) /\ intent' = intent
    BY <1>2 DEF PublishIntent
  <2>3. CASE /\ intent' = it /\ Goes(p, "deleting")
             /\ holder' = holder \ {h \in LocksOf(p) : h[1] \notin {t.ino : t \in it.selected}}
    <3>1. Locks
      BY <2>1, <2>3, <1>a, PurgerGoing DEF LocksOf
    <3> QED BY <1>2, <1>a, <2>1, <2>3, <3>1, GoesTrees DEF PublishIntent
  <2>4. CASE Ends(p) /\ intent' = intent
    BY <1>2, <1>a, <1>c, <2>4, EndsTrees DEF PublishIntent
  <2> QED BY <2>2, <2>3, <2>4
<1>3. CASE Refuse(p)
  BY <1>3, <1>a, <1>c, EndsTrees DEF Refuse
<1>4. CASE Audit(p)
  <2>1. CASE Ends(p)
    BY <1>4, <2>1, <1>a, <1>c, EndsTrees DEF Audit
  <2>2. CASE ~Ends(p)
    <3> DEFINE x == [at |-> "audited", it |-> proc[p].it, report |-> Report(proc[p].it)]
    <3>1. proc' = [proc EXCEPT ![p] = x] /\ holder' = holder /\ intent' = intent /\ proc[p] # idle
      BY <1>4, <2>2, NotIdle DEF Audit, Deleting
    <3>2. {"at", "it"} \subseteq DOMAIN x /\ x.it.selected \subseteq Tree
      BY <3>1 DEF SelectionsAreTrees
    <3> HIDE DEF x
    <3>3. proc'[p] = x /\ Locks
      BY <1>a, <3>1
    <3>4. SelectionsAreTrees'
      BY <1>a, <3>1, <3>2, <3>3 DEF SelectionsAreTrees, IsRecord, There, IsTorn, Processes
    <3> QED BY <1>4, <3>3, <3>4 DEF Audit
  <2> QED BY <2>1, <2>2
<1>5. CASE WriteTemporary(p)
  <2>1. proc[p] # idle /\ intent' = intent
    BY <1>5, NotIdle DEF WriteTemporary
  <2>2. CASE Ends(p)
    BY <1>5, <2>1, <2>2, <1>a, <1>c, EndsTrees DEF WriteTemporary
  <2>3. CASE Goes(p, "written") /\ UNCHANGED holder
    BY <1>5, <2>1, <2>3, <1>a, <1>d, GoesTrees DEF WriteTemporary
  <2> QED BY <1>5, <2>2, <2>3 DEF WriteTemporary
<1>6. CASE ReplaceResult(p)
  <2>1. proc[p] # idle /\ intent' = intent
    BY <1>6, NotIdle DEF ReplaceResult
  <2>2. CASE Ends(p)
    BY <1>6, <2>1, <2>2, <1>a, <1>c, EndsTrees DEF ReplaceResult
  <2>3. CASE Goes(p, "published") /\ UNCHANGED holder
    BY <1>6, <2>1, <2>3, <1>a, <1>d, GoesTrees DEF ReplaceResult
  <2> QED BY <1>6, <2>2, <2>3 DEF ReplaceResult
<1>7. CASE RemoveIntent(p)
  <2>1. proc[p] # idle
    BY <1>7, NotIdle DEF RemoveIntent
  <2> QED BY <1>7, <2>1, <1>a, <1>d, GoesTrees DEF RemoveIntent
<1>8. CASE Check(p)
  <2>1. CASE Ends(p)
    BY <1>8, <2>1, <1>a, <1>c, EndsTrees DEF Check
  <2>2. CASE Batch(p, proc[p].it.budget)
    BY <1>8, <2>2, <1>a, BatchLocks, BatchTrees DEF Check
  <2> QED BY <1>8, <2>1, <2>2 DEF Check
<1>9. CASE Adopt(p)
  <2>1. CASE Ends(p)
    <3>1. intent' = intent \/ ~IsRecord(intent')
      BY <1>9 DEF Adopt, IsRecord, There
    <3> QED BY <1>9, <2>1, <3>1, <1>a, <1>c, EndsTrees DEF Adopt
  <2>2. CASE ~Ends(p)
    <3> DEFINE x == [at |-> "adopted", it |-> proc[p].it, report |-> result]
    <3>1. proc' = [proc EXCEPT ![p] = x] /\ holder' = holder /\ intent' = Nothing /\ proc[p] # idle
      BY <1>9, <2>2, NotIdle DEF Adopt
    <3>2. {"at", "it"} \subseteq DOMAIN x /\ x.it.selected \subseteq Tree
      BY <3>1 DEF SelectionsAreTrees
    <3> HIDE DEF x
    <3>3. proc'[p] = x /\ Locks
      BY <1>a, <3>1
    <3>4. SelectionsAreTrees'
      BY <1>a, <3>1, <3>2, <3>3 DEF SelectionsAreTrees, IsRecord, There, IsTorn, Processes
    <3> QED BY <1>9, <3>3, <3>4 DEF Adopt
  <2> QED BY <2>1, <2>2
<1>10. CASE Continue(p)
  <2>1. CASE Ends(p)
    BY <1>10, <2>1, <1>a, <1>c, EndsTrees DEF Continue
  <2>2. CASE Batch(p, proc[p].it.budget)
    BY <1>10, <2>2, <1>a, BatchLocks, BatchTrees DEF Continue
  <2>3. CASE Plans(p, proc[p].it.budget, proc[p].report)
    BY <1>10, <2>3, <1>a, PlansLocks, PlansTrees DEF Continue
  <2> QED BY <1>10, <2>1, <2>2, <2>3 DEF Continue
<1>11. CASE PurgerDies(p)
  <2>1. intent' = intent \/ ~IsRecord(intent')
    BY <1>11 DEF PurgerDies, IsRecord, IsTorn
  <2> QED BY <1>11, <2>1, <1>a, <1>c, EndsTrees DEF PurgerDies
<1> QED BY <1>1, <1>2, <1>3, <1>4, <1>5, <1>6, <1>7, <1>8, <1>9, <1>10, <1>11

\* The steps of a purger that do: into the tombstone, and out of it part by part.
LEMMA EntombKeeps ==
  ASSUME MInv, SelectionsAreTrees, NEW p \in Purgers, Entomb(p)
  PROVE  MInv' /\ SelectionsAreTrees' /\ \A r \in Runs : RunMoves(r)
<1> USE DEF migrationFiles
<1>a. TypeOK /\ p \in Processes /\ proc[p] # idle /\ proc[p].it.selected \subseteq Tree
  BY Partners, NotIdle DEF MInv, TypeOK, Entomb, Deleting, SelectionsAreTrees
<1>1. PICK t \in proc[p].it.selected :
       /\ IsSelected(t) /\ MayLock(p, t.ino)
       /\ tombs' = tombs \cup {source[t.run]}
       /\ source' = [source EXCEPT ![t.run] = Nothing]
       /\ holder' = holder \cup {<<t.ino, p>>}
  BY DEF Entomb
<1> DEFINE r == t.run
<1>2. t \in Tree /\ r \in Runs
  BY <1>1, <1>a DEF Tree
<1>3. /\ staged' = staged /\ backup' = backup /\ pending' = pending /\ intent' = intent
      /\ proc' = proc /\ clock' = clock
  BY DEF Entomb
<1>4. There(source[r]) /\ source[r] \in Tree /\ source[r].ino = t.ino /\ source[r].parts = Parts
  BY <1>1, <1>2, <1>a, Trees DEF IsSelected, SameDirectory, MInv, RunsAreWhole
<1>5. source'[r] = Nothing /\ \A s \in Runs : s # r => source'[s] = source[s]
  BY <1>1, <1>2 DEF TypeOK, MInv
<1>6. TypeOK'
  <2>1. source' \in [Runs -> Tree \cup {Nothing}]
    BY <1>1, <1>2, <1>a DEF TypeOK
  <2>2. tombs' \subseteq Tree
    BY <1>1, <1>4, <1>a DEF TypeOK
  <2>3. holder' \subseteq Int \X (Processes \cup {worker})
    BY <1>1, <1>2, <1>a DEF TypeOK, Tree
  <2> QED BY <2>1, <2>2, <2>3, <1>3, <1>a DEF TypeOK
<1>7. OneHolder'
  BY <1>1 DEF MInv, OneHolder, MayLock, Holds, Free
<1>8. t.ino \in Settled /\ \A n \in Settled' : n \in Settled
  BY <1>1, <1>3, <1>4, <1>5, <1>2, SettledAre, Absence DEF Settled, Inodes
<1>9. ASSUME NEW s \in Runs, NEW q \in Migrators, Guarded(q, source[s]) PROVE source'[s] = source[s]
  <2>1. q # p
    BY Partners
  <2>2. ~Holds(q, t.ino)
    BY <1>1, <2>1, Alone DEF MayLock, Free, Holds, MInv
  <2> QED BY <1>4, <1>5, <1>9, <2>2 DEF Guarded
<1>10. \A s \in Runs : There(source'[s]) => source'[s].parts = Parts
  BY <1>5, Absence DEF MInv, RunsAreWhole
<1>11. \A h \in holder' : h \in holder \/ h[1] \in Settled
  BY <1>1, <1>8
<1>12. MInv'
  BY <1>1, <1>3, <1>6, <1>7, <1>8, <1>9, <1>10, <1>11, OutsideKeeps
<1>13. RunMoves(r)
  BY <1>1, <1>3, <1>4, <1>5, Absence DEF RunMoves
<1>14. SelectionsAreTrees'
  BY <1>3 DEF SelectionsAreTrees, IsRecord, There, IsTorn
<1> QED BY <1>2, <1>3, <1>5, <1>12, <1>13, <1>14, Untouched

LEMMA StripKeeps ==
  ASSUME MInv, SelectionsAreTrees, NEW p \in Purgers, Strip(p)
  PROVE  MInv' /\ SelectionsAreTrees' /\ \A r \in Runs : RunMoves(r)
<1> USE DEF migrationFiles
<1>a. TypeOK /\ p \in Processes
  BY Partners DEF MInv
<1>1. PICK o \in tombs :
       /\ MayLock(p, o.ino)
       /\ tombs' = (tombs \ {o}) \cup {[o EXCEPT !.parts = @ \ {NextPart(o)}]}
       /\ holder' = holder \cup {<<o.ino, p>>}
  BY DEF Strip, Entombed
<1>2. o \in Tree
  BY <1>1, <1>a DEF TypeOK
<1>3. /\ staged' = staged /\ backup' = backup /\ pending' = pending /\ intent' = intent
      /\ proc' = proc /\ clock' = clock /\ source' = source
  BY DEF Strip
<1> DEFINE x == [o EXCEPT !.parts = @ \ {NextPart(o)}]
<1>4. x \in Tree /\ x.ino = o.ino
  BY <1>2 DEF Tree
<1>5. tombs' = (tombs \ {o}) \cup {x}
  BY <1>1
<1> HIDE DEF x
<1>6. TypeOK'
  <2>1. tombs' \subseteq Tree
    BY <1>5, <1>4, <1>a DEF TypeOK
  <2>2. holder' \subseteq Int \X (Processes \cup {worker})
    BY <1>1, <1>2, <1>a DEF TypeOK, Tree
  <2> QED BY <2>1, <2>2, <1>3, <1>a DEF TypeOK
<1>7. OneHolder'
  BY <1>1 DEF MInv, OneHolder, MayLock, Holds, Free
<1>8. o.ino \in Settled /\ \A n \in Settled' : n \in Settled
  BY <1>1, <1>3, <1>4, <1>5 DEF Settled, Inodes, There
<1>9. \A s \in Runs : There(source'[s]) => source'[s].parts = Parts
  BY <1>3 DEF MInv, RunsAreWhole
<1>10. \A h \in holder' : h \in holder \/ h[1] \in Settled
  BY <1>1, <1>8
<1>11. MInv'
  BY <1>1, <1>3, <1>6, <1>7, <1>8, <1>9, <1>10, OutsideKeeps
<1>12. SelectionsAreTrees'
  BY <1>3 DEF SelectionsAreTrees, IsRecord, There, IsTorn
<1> QED BY <1>3, <1>11, <1>12, Untouched

LEMMA BuryKeeps ==
  ASSUME MInv, SelectionsAreTrees, NEW p \in Purgers, Bury(p)
  PROVE  MInv' /\ SelectionsAreTrees' /\ \A r \in Runs : RunMoves(r)
<1> USE DEF migrationFiles
<1>a. TypeOK /\ p \in Processes
  BY Partners DEF MInv
<1>1. PICK o \in tombs : tombs' = tombs \ {o} /\ holder' = holder \ {<<o.ino, p>>}
  BY DEF Bury, Entombed
<1>2. /\ staged' = staged /\ backup' = backup /\ pending' = pending /\ intent' = intent
      /\ proc' = proc /\ clock' = clock /\ source' = source
  BY DEF Bury
<1>3. TypeOK'
  BY <1>1, <1>2, <1>a DEF TypeOK
<1>4. OneHolder'
  BY <1>1 DEF MInv, OneHolder
<1>5. \A n \in Settled' : n \in Settled
  BY <1>1, <1>2 DEF Settled, Inodes, There
<1>6. \A s \in Runs : There(source'[s]) => source'[s].parts = Parts
  BY <1>2 DEF MInv, RunsAreWhole
<1>7. \A h \in holder : h[2] \in Migrators => h \in holder'
  BY <1>1, Partners
<1>8. \A h \in holder' : h \in holder \/ h[1] \in Settled
  BY <1>1
<1>9. MInv'
  BY <1>1, <1>2, <1>3, <1>4, <1>5, <1>6, <1>7, <1>8, OutsideKeeps
<1>10. SelectionsAreTrees'
  BY <1>2 DEF SelectionsAreTrees, IsRecord, There, IsTorn
<1> QED BY <1>2, <1>9, <1>10, Untouched

-----------------------------------------------------------------------------
(* Steps of the migrations.                                                *)

PublishingPlaces == {"copied", "rewritten", "ready", "backed"}

\* Who works on the run p has locked is p.
LEMMA ShutOut ==
  ASSUME MInv, NEW p, NEW r \in Runs, NEW q \in Migrators, q # p, proc[q] # idle, proc[q].run = r
  PROVE  /\ Guarded(p, source[r]) => proc[q].at \notin EarlyPlaces \cup LatePlaces
         /\ ~There(source[r]) => proc[q].at \notin EarlyPlaces \cup LatePlaces
         /\ ~There(backup[r]) => proc[q].at # "backed"
         /\ Guarded(p, backup[r]) => proc[q].at # "backed"
<1>1. HoldsRun(q, r) /\ MayFinish(q, r) /\ OneHolder
  BY DEF MInv, MigratorsStand
<1>2. Guarded(p, source[r]) => ~Guarded(q, source[r])
  BY <1>1, Alone DEF Guarded
<1>3. Guarded(p, backup[r]) => ~Guarded(q, backup[r])
  BY <1>1, Alone DEF Guarded
<1> QED BY <1>1, <1>2, <1>3 DEF HoldsRun, MayFinish, Guarded

\* A step of a migration on its own run leaves the other migrations standing.
LEMMA OthersStand ==
  ASSUME MInv, NEW p \in Migrators, NEW r \in Runs,
         \A q \in Processes : q # p => proc'[q] = proc[q],
         \A h \in holder : h[2] # p => h \in holder',
         \A s \in Runs : s # r => /\ source'[s] = source[s] /\ staged'[s] = staged[s]
                                  /\ backup'[s] = backup[s] /\ pending'[s] = pending[s],
         \/ /\ source'[r] = source[r] /\ staged'[r] = staged[r]
            /\ backup'[r] = backup[r] /\ pending'[r] = pending[r]
         \/ /\ Guarded(p, source[r])
            /\ ~There(backup[r]) \/ (staged'[r] = staged[r] /\ backup'[r] = backup[r])
         \/ ~There(source[r]) /\ Guarded(p, backup[r]),
         NEW q \in Migrators, q # p, proc[q] # idle
  PROVE  LET s == proc[q].run IN HoldsRun(q, s)' /\ CopiesRun(q, s)' /\ MayFinish(q, s)'
<1>0. proc[q].run \in Runs /\ proc'[q] = proc[q]
  BY Under, Partners DEF MInv
<1> SUFFICES ASSUME NEW s \in Runs, s = proc[q].run
             PROVE  HoldsRun(q, s)' /\ CopiesRun(q, s)' /\ MayFinish(q, s)'
  BY <1>0
<1>1. s \in Runs /\ proc'[q] = proc[q]
  BY <1>0
<1>2. HoldsRun(q, s) /\ CopiesRun(q, s) /\ MayFinish(q, s)
  BY DEF MInv, MigratorsStand
<1>3. \A h \in holder : h[2] = q => h \in holder'
  OBVIOUS
<1>4. s = r => /\ Guarded(p, source[r]) => proc[q].at \notin EarlyPlaces \cup LatePlaces
               /\ ~There(source[r]) => proc[q].at \notin EarlyPlaces \cup LatePlaces
               /\ ~There(backup[r]) => proc[q].at # "backed"
               /\ Guarded(p, backup[r]) => proc[q].at # "backed"
  BY <1>1, ShutOut
<1>5. proc[q].at \in EarlyPlaces \cup LatePlaces => source'[s] = source[s]
  BY <1>1, <1>4
<1>6. proc[q].at \in EarlyPlaces => pending'[s] = pending[s]
  BY <1>1, <1>4
<1>7. proc[q].at \in EarlyPlaces \cup {"backed"} => staged'[s] = staged[s] /\ backup'[s] = backup[s]
  BY <1>1, <1>4
<1>8. HoldsRun(q, s)' /\ CopiesRun(q, s)' /\ MayFinish(q, s)'
  BY <1>1, <1>2, <1>3, <1>5, <1>6, <1>7, StandsStill
<1> QED BY <1>8

\* A migration at work on a run under way has no other beside it that makes its copy.
LEMMA CopyIsOurs ==
  ASSUME MInv, NEW p \in Migrators, NEW r \in Runs, There(staged[r]),
         \/ Guarded(p, source[r]) /\ ~There(backup[r])
         \/ ~There(source[r]) /\ Guarded(p, backup[r]),
         NEW h \in holder, h[1] = staged[r].ino
  PROVE  h = <<staged[r].ino, p>>
<1>1. /\ h[2] \in Migrators /\ proc[h[2]] # idle /\ proc[h[2]].run = r
      /\ proc[h[2]].at \in PublishingPlaces
  BY DEF MInv, CopiesAreLocked, PublishingPlaces
<1>2. proc[h[2]].at \in EarlyPlaces \cup LatePlaces \cup {"backed"}
  BY <1>1 DEF PublishingPlaces, EarlyPlaces
<1>3. h[2] = p
  <2> SUFFICES ASSUME h[2] # p PROVE FALSE
    OBVIOUS
  <2>1. PICK q \in Migrators : q = h[2]
    BY <1>1
  <2>2. q # p /\ proc[q] # idle /\ proc[q].run = r
    BY <1>1, <2>1
  <2>3. CASE Guarded(p, source[r]) /\ ~There(backup[r])
    BY <1>2, <2>1, <2>2, <2>3, ShutOut
  <2>4. CASE ~There(source[r]) /\ Guarded(p, backup[r])
    BY <1>2, <2>1, <2>2, <2>4, ShutOut
  <2> QED BY <2>3, <2>4
<1> QED BY <1>3, Numbers DEF MInv

\* A step of a migration on its own run: no directory and no copy is new, its intent at
\* most goes, and it locks what is settled and free, or its copy.
LEMMA MigratorKeeps ==
  ASSUME MInv, TypeOK', NEW p \in Migrators, NEW r \in Runs,
         tombs' = tombs, clock' = clock, intent' = intent,
         \A q \in Processes : q # p => proc'[q] = proc[q],
         \A h \in holder : h[2] # p => h \in holder',
         \A s \in Runs : s # r => /\ source'[s] = source[s] /\ staged'[s] = staged[s]
                                  /\ backup'[s] = backup[s] /\ pending'[s] = pending[s],
         \/ /\ source'[r] = source[r] /\ staged'[r] = staged[r]
            /\ backup'[r] = backup[r] /\ pending'[r] = pending[r]
         \/ /\ Guarded(p, source[r])
            /\ ~There(backup[r]) \/ (staged'[r] = staged[r] /\ backup'[r] = backup[r])
         \/ ~There(source[r]) /\ Guarded(p, backup[r]),
         There(source'[r]) => source'[r].parts = Parts,
         \A n \in Settled' : n \in Settled,
         There(staged'[r]) => There(staged[r]) /\ staged'[r].ino = staged[r].ino,
         pending'[r] = pending[r] \/ ~IsRecord(pending'[r]),
         \A h \in holder' : \/ h \in holder
                            \/ \E n \in Settled : Free(n) /\ h = <<n, p>>
                            \/ /\ There(staged[r]) /\ h = <<staged[r].ino, p>>
                               /\ \/ Guarded(p, source[r]) /\ ~There(backup[r])
                                  \/ ~There(source[r]) /\ Guarded(p, backup[r])
                               /\ proc'[p] # idle /\ proc'[p].run = r /\ proc'[p].at \in PublishingPlaces,
         \/ proc[p] # idle /\ proc'[p] # idle /\ proc'[p].run = proc[p].run /\ proc'[p].at \in PublishingPlaces
         \/ proc[p] = idle \/ proc[p].at \notin PublishingPlaces
         \/ \A h \in holder' : h[2] # p,
         proc'[p].at # "intended",
         proc'[p] # idle => /\ proc'[p].run = r
                            /\ HoldsRun(p, r)' /\ CopiesRun(p, r)' /\ MayFinish(p, r)'
  PROVE  MInv'
<1>a. TypeOK /\ clock \in Nat /\ \A q \in Migrators : q \in Processes
  BY Clocks, Partners DEF MInv, TypeOK
<1>b. /\ \A s \in Runs : There(staged'[s]) => There(staged[s]) /\ staged'[s].ino = staged[s].ino
      /\ \A n \in Inodes(staged)' : n \in Inodes(staged)
  <2>1. \A s \in Runs : There(staged'[s]) => There(staged[s]) /\ staged'[s].ino = staged[s].ino
    OBVIOUS
  <2> QED BY <2>1 DEF Inodes
<1>1. RunsAreWhole'
  <2>1. \A n \in Settled \cup Inodes(staged) : n <= clock
    BY DEF MInv, RunsAreWhole
  <2>2. \A h \in holder : h[1] <= clock
    BY DEF MInv, RunsAreWhole
  <2>3. \A n \in Settled' \cup Inodes(staged)' : n <= clock'
    BY <1>b, <2>1
  <2>4. There(staged[r]) => staged[r].ino \in Inodes(staged)
    BY SettledAre
  <2>5. \A h \in holder' : h[1] <= clock'
    BY <2>1, <2>2, <2>4
  <2>6. \A s \in Runs : There(source'[s]) => source'[s].parts = Parts
    BY DEF MInv, RunsAreWhole
  <2> QED BY <2>3, <2>5, <2>6 DEF RunsAreWhole
<1>2. IntentsArePlanned'
  <2>1. \A s \in Runs : IsRecord(pending'[s]) => pending'[s] = pending[s]
    OBVIOUS
  <2> QED BY <2>1 DEF MInv, IntentsArePlanned
<1>3. OneHolder'
  <2> SUFFICES ASSUME NEW h \in holder', NEW k \in holder', h[1] = k[1] PROVE h = k
    BY DEF OneHolder
  <2> DEFINE OnSettled(x) == \E n \in Settled : Free(n) /\ x = <<n, p>>
             OnCopy(x) == /\ There(staged[r]) /\ x = <<staged[r].ino, p>>
                          /\ \/ Guarded(p, source[r]) /\ ~There(backup[r])
                             \/ ~There(source[r]) /\ Guarded(p, backup[r])
  <2>1. \A x \in holder' : x \in holder \/ OnSettled(x) \/ OnCopy(x)
    OBVIOUS
  <2>2. ASSUME NEW x \in holder', NEW y \in holder', x[1] = y[1], OnSettled(x) PROVE x = y
    <3>1. PICK n \in Settled : Free(n) /\ x = <<n, p>>
      BY <2>2
    <3>2. y \notin holder
      BY <3>1, <2>2 DEF Free
    <3> QED BY <2>1, <2>2, <3>1, <3>2
  <2>3. ASSUME NEW x \in holder', NEW y \in holder', x[1] = y[1], OnCopy(x) PROVE x = y
    <3>1. y \in holder => y = <<staged[r].ino, p>>
      BY <2>3, CopyIsOurs
    <3> QED BY <2>1, <2>3, <3>1
  <2>4. h \in holder /\ k \in holder => h = k
    BY DEF MInv, OneHolder
  <2> HIDE DEF OnSettled, OnCopy
  <2> QED BY <2>1, <2>2, <2>3, <2>4
<1>4. CopiesAreApart'
  <2>1. ASSUME NEW q \in Migrators, proc'[q].at = "intended"
        PROVE  Token(q)' \notin Settled' \cup Inodes(staged)' /\ Free(Token(q))'
    <3>1. q # p /\ proc'[q] = proc[q] /\ proc[q] # idle /\ proc[q].run \in Runs
      BY <2>1, <1>a, Under
    <3>2. proc[q].run = r => pending'[r] = pending[r]
      BY <3>1, <2>1, ShutOut DEF EarlyPlaces
    <3>3. Token(q)' = Token(q)
      BY <3>1, <3>2 DEF Token
    <3>4. Token(q) \notin Settled \cup Inodes(staged) /\ Free(Token(q))
      BY <2>1, <3>1 DEF MInv, CopiesAreApart
    <3> DEFINE n == Token(q)
    <3> HIDE DEF n
    <3>5. There(staged[r]) => staged[r].ino \in Inodes(staged)
      BY SettledAre
    <3>6. \A h \in holder' : h[1] # Token(q)
      BY <3>4, <3>5 DEF Free
    <3> QED BY <1>b, <3>3, <3>4, <3>6 DEF Free
  <2>2. \A s \in Runs : There(staged'[s]) => staged'[s].ino \notin Settled'
    BY <1>b DEF MInv, CopiesAreApart
  <2>3. \A s, t \in Runs :
          s # t /\ There(staged'[s]) /\ There(staged'[t]) => staged'[s].ino # staged'[t].ino
    BY <1>b DEF MInv, CopiesAreApart
  <2> QED BY <2>1, <2>2, <2>3 DEF CopiesAreApart
<1>5. CopiesAreLocked'
  <2> SUFFICES ASSUME NEW h \in holder', NEW s \in Runs, There(staged'[s]), staged'[s].ino = h[1]
               PROVE  /\ h[2] \in Migrators /\ proc'[h[2]] # idle /\ proc'[h[2]].run = s
                      /\ proc'[h[2]].at \in PublishingPlaces
    BY DEF CopiesAreLocked, PublishingPlaces
  <2>1. There(staged[s]) /\ staged[s].ino = h[1] /\ h[1] \notin Settled
    BY <1>b DEF MInv, CopiesAreApart
  <2>2. CASE h \in holder
    <3>1. /\ h[2] \in Migrators /\ proc[h[2]] # idle /\ proc[h[2]].run = s
          /\ proc[h[2]].at \in PublishingPlaces
      BY <2>1, <2>2 DEF MInv, CopiesAreLocked, PublishingPlaces
    <3>2. CASE h[2] = p
      BY <3>1, <3>2
    <3>3. CASE h[2] # p
      BY <3>1, <3>3, <1>a
    <3> QED BY <3>2, <3>3
  <2>3. CASE h \notin holder
    <3>1. /\ There(staged[r]) /\ h = <<staged[r].ino, p>>
          /\ proc'[p] # idle /\ proc'[p].run = r /\ proc'[p].at \in PublishingPlaces
      BY <2>1, <2>3
    <3>2. s = r
      BY <2>1, <3>1 DEF MInv, CopiesAreApart
    <3> QED BY <3>1, <3>2
  <2> QED BY <2>2, <2>3
<1>6. MigratorsStand'
  <2> SUFFICES ASSUME NEW q \in Migrators, proc'[q] # idle
               PROVE  /\ HoldsRun(q, proc[q].run)' /\ CopiesRun(q, proc[q].run)'
                      /\ MayFinish(q, proc[q].run)'
    BY DEF MigratorsStand
  <2>1. CASE q = p
    BY <2>1
  <2>2. CASE q # p
    BY <2>2, <1>a, OthersStand
  <2> QED BY <2>1, <2>2
<1> QED BY <1>1, <1>2, <1>3, <1>4, <1>5, <1>6 DEF MInv

\* What the four names show.
LEMMA Shapes ==
  ASSUME NEW p, NEW r \in Runs
  PROVE  /\ IsUntouched(p, r) => /\ Guarded(p, source[r]) /\ ~There(staged[r])
                                 /\ ~There(backup[r]) /\ ~There(pending[r])
         /\ IsUnstarted(p, r) => /\ Guarded(p, source[r]) /\ ~There(staged[r])
                                 /\ ~There(backup[r]) /\ Bound(pending[r], source[r])
         /\ IsStaged(p, r) => /\ Guarded(p, source[r]) /\ There(staged[r])
                              /\ ~There(backup[r]) /\ Bound(pending[r], source[r])
         /\ IsBacked(p, r) => /\ ~There(source[r]) /\ There(staged[r])
                              /\ Guarded(p, backup[r]) /\ Bound(pending[r], backup[r])
                              /\ IsMigrated(staged[r], pending[r])
         /\ IsPublished(p, r) => /\ Guarded(p, source[r]) /\ There(backup[r]) /\ Free(backup[r].ino)
<1> DEFINE a == There(source[r])
           b == There(staged[r])
           c == There(backup[r])
           d == There(pending[r])
<1>1. a \in BOOLEAN /\ b \in BOOLEAN /\ c \in BOOLEAN /\ d \in BOOLEAN
  BY DEF There
<1>2. Shape(r) = <<a, b, c, d>>
  BY DEF Shape
<1> HIDE DEF a, b, c, d
<1>3. \A w, x, y, z \in BOOLEAN : Shape(r) = <<w, x, y, z>> => a = w /\ b = x /\ c = y /\ d = z
  BY <1>2
<1>4. IsUntouched(p, r) => ~b /\ ~c /\ ~d
  BY <1>1, <1>3 DEF IsUntouched
<1>5. IsUnstarted(p, r) => ~b /\ ~c
  BY <1>1, <1>3 DEF IsUnstarted
<1>6. IsStaged(p, r) => b /\ ~c
  BY <1>1, <1>3 DEF IsStaged
<1>7. IsBacked(p, r) => ~a /\ b
  BY <1>1, <1>3 DEF IsBacked
<1>8. IsPublished(p, r) => c
  BY <1>1, <1>3 DEF IsPublished
<1> QED BY <1>4, <1>5, <1>6, <1>7, <1>8 DEF IsUntouched, IsUnstarted, IsStaged, IsBacked, IsPublished, a, b, c, d

\* What a step of a migration does beside its own.
MigratorStep(p) ==
  /\ MInv' /\ intent' = intent /\ \A q \in Processes : q # p => proc'[q] = proc[q]
  /\ \A s \in Runs : RunMoves(s)

\* Before the run is classified nothing is relied on.
LEMMA FoundStands ==
  ASSUME NEW p \in Migrators, NEW r \in Runs, proc'[p].at = "found"
  PROVE  HoldsRun(p, r)' /\ CopiesRun(p, r)' /\ MayFinish(p, r)'
BY DEF HoldsRun, CopiesRun, MayFinish, EarlyPlaces, LatePlaces

LEMMA MigrateKeeps ==
  ASSUME MInv, NEW p \in Migrators, NEW r \in Runs, Migrate(p, r)
  PROVE  MigratorStep(p)
<1>1. /\ TypeOK /\ proc[p] = idle /\ There(Selected(r)) /\ Free(Selected(r).ino)
      /\ holder' = holder \cup {<<Selected(r).ino, p>>}
      /\ proc' = [proc EXCEPT ![p] = [at |-> "found", run |-> r]]
      /\ source' = source /\ staged' = staged /\ backup' = backup /\ pending' = pending
      /\ tombs' = tombs /\ intent' = intent /\ clock' = clock
  BY DEF Migrate, files, MInv
<1>2. p \in Processes /\ DOMAIN proc = Processes
  BY <1>1, Partners DEF TypeOK
<1>3. /\ proc'[p] = [at |-> "found", run |-> r] /\ \A q \in Processes : q # p => proc'[q] = proc[q]
      /\ DOMAIN proc' = Processes
  BY <1>1, <1>2
<1>4. proc'[p] \in MigratorStates /\ proc'[p].at = "found" /\ proc'[p].run = r
  BY <1>3 DEF MigratorStates, MigratorPlaces
<1>5. Selected(r).ino \in Settled /\ Selected(r).ino \in Int
  BY <1>1, SettledAre, Numbers DEF Selected
<1>6. TypeOK'
  <2>1. holder' \subseteq Int \X (Processes \cup {worker})
    BY <1>1, <1>2, <1>5 DEF TypeOK
  <2> QED BY <1>1, <1>2, <1>3, <1>4, <2>1 DEF TypeOK, Processes
<1>7. Settled' = Settled
  BY <1>1 DEF Settled, Inodes, There
<1>8. HoldsRun(p, r)' /\ CopiesRun(p, r)' /\ MayFinish(p, r)'
  BY <1>4, FoundStands
<1>9. There(source'[r]) => source'[r].parts = Parts
  BY <1>1 DEF MInv, RunsAreWhole
<1>10. \A h \in holder' : h \in holder \/ \E n \in Settled : Free(n) /\ h = <<n, p>>
  BY <1>1, <1>5
<1>11. MInv'
  BY <1>1, <1>3, <1>4, <1>6, <1>7, <1>8, <1>9, <1>10, MigratorKeeps
<1> QED BY <1>1, <1>3, <1>11, Untouched DEF MigratorStep

\* Where a migration is.
LEMMA AtPlace ==
  ASSUME MInv, NEW p \in Migrators, NEW place, place # "idle", At(p, place)
  PROVE  /\ TypeOK /\ proc[p] # idle /\ proc[p].at = place /\ proc[p].run \in Runs /\ p \in Processes
         /\ HoldsRun(p, proc[p].run) /\ CopiesRun(p, proc[p].run) /\ MayFinish(p, proc[p].run)
BY Under DEF At, MInv, MigratorsStand

\* A migration that ends.
LEMMA EndKeeps ==
  ASSUME MInv, NEW p \in Migrators, NEW r \in Runs, Ends(p),
         source' = source, staged' = staged, backup' = backup, tombs' = tombs,
         intent' = intent, clock' = clock,
         pending' = pending \/ \E x \in {Nothing, Torn} :
                                 pending' = [pending EXCEPT ![r] = x] /\ Guarded(p, source[r])
  PROVE  MigratorStep(p)
<1>1. TypeOK /\ p \in Processes
  BY Partners DEF MInv
<1>2. /\ DOMAIN proc' = Processes /\ proc'[p] = idle
      /\ \A q \in Processes : q # p => proc'[q] = proc[q]
      /\ \A q \in Migrators : proc'[q] \in MigratorStates
      /\ holder' \subseteq holder
      /\ \A h \in holder : h[2] # p => h \in holder'
      /\ \A h \in holder' : h[2] # p
  BY <1>1, Ending
<1>3. /\ pending' \in [Runs -> Pendings \cup {Nothing, Torn}]
      /\ \A s \in Runs : s # r => pending'[s] = pending[s]
      /\ pending'[r] = pending[r] \/ (~IsRecord(pending'[r]) /\ Guarded(p, source[r]))
  BY <1>1, Absence DEF TypeOK
<1>4. TypeOK'
  BY <1>1, <1>2, <1>3 DEF TypeOK
<1>5. Settled' = Settled
  BY DEF Settled, Inodes, There
<1>6. There(source'[r]) => source'[r].parts = Parts
  BY DEF MInv, RunsAreWhole
<1>7. proc'[p].at # "intended"
  BY <1>2 DEF idle
<1>8. MInv'
  BY <1>2, <1>3, <1>4, <1>5, <1>6, <1>7, MigratorKeeps
<1> QED BY <1>2, <1>8, Untouched DEF MigratorStep

\* A migration goes on to another place, and moves no directory.
LEMMA GoKeeps ==
  ASSUME MInv, NEW p \in Migrators, proc[p] # idle, NEW r \in Runs, proc[p].run = r,
         NEW place \in MigratorPlaces \ {"intended"}, Goes(p, place),
         source' = source, staged' = staged, backup' = backup, tombs' = tombs, pending' = pending,
         intent' = intent, clock' = clock,
         \/ UNCHANGED holder
         \/ \E n \in Settled : Free(n) /\ holder' = holder \cup {<<n, p>>}
         \/ /\ There(staged[r]) /\ holder' = holder \cup {<<staged[r].ino, p>>}
            /\ \/ Guarded(p, source[r]) /\ ~There(backup[r])
               \/ ~There(source[r]) /\ Guarded(p, backup[r])
            /\ place \in PublishingPlaces,
         proc[p].at \notin PublishingPlaces,
         HoldsRun(p, r)' /\ CopiesRun(p, r)' /\ MayFinish(p, r)'
  PROVE  MigratorStep(p)
<1>1. TypeOK /\ p \in Processes
  BY Partners DEF MInv
<1>2. /\ DOMAIN proc' = Processes /\ proc'[p].at = place /\ proc'[p].run = r /\ proc'[p] # idle
      /\ \A q \in Processes : q # p => proc'[q] = proc[q]
      /\ \A q \in Migrators : proc'[q] \in MigratorStates
  BY <1>1, Going
<1>3. There(staged[r]) => staged[r].ino \in Int
  BY <1>1, Trees DEF Tree
<1>4. \A n \in Settled : n \in Int
  BY <1>1, Numbers
<1>5. holder' \subseteq Int \X (Processes \cup {worker})
  BY <1>1, <1>3, <1>4 DEF TypeOK
<1>6. TypeOK'
  BY <1>1, <1>2, <1>5 DEF TypeOK
<1>7. Settled' = Settled
  BY DEF Settled, Inodes, There
<1>8. There(source'[r]) => source'[r].parts = Parts
  BY DEF MInv, RunsAreWhole
<1>9. \A h \in holder' : \/ h \in holder
                         \/ \E n \in Settled : Free(n) /\ h = <<n, p>>
                         \/ /\ There(staged[r]) /\ h = <<staged[r].ino, p>>
                            /\ \/ Guarded(p, source[r]) /\ ~There(backup[r])
                               \/ ~There(source[r]) /\ Guarded(p, backup[r])
                            /\ proc'[p] # idle /\ proc'[p].run = r /\ proc'[p].at \in PublishingPlaces
  BY <1>2
<1>10. \A h \in holder : h[2] # p => h \in holder'
  OBVIOUS
<1>11. MInv'
  BY <1>1, <1>2, <1>6, <1>7, <1>8, <1>9, <1>10, MigratorKeeps
<1> QED BY <1>2, <1>11, Untouched DEF MigratorStep

LEMMA SettleKeeps ==
  ASSUME MInv, NEW p \in Migrators, Settle(p)
  PROVE  MigratorStep(p)
<1>0. /\ TypeOK /\ proc[p] # idle /\ proc[p].at = "found" /\ proc[p].run \in Runs
  BY AtPlace DEF Settle
<1> SUFFICES ASSUME NEW r \in Runs, r = proc[p].run PROVE MigratorStep(p)
  BY <1>0
<1>1. /\ source' = source /\ staged' = staged /\ backup' = backup /\ pending' = pending
      /\ tombs' = tombs /\ intent' = intent /\ clock' = clock
  BY DEF Settle, files
<1>2. CASE IsUntouched(p, r) /\ Goes(p, "fresh") /\ UNCHANGED holder
  <2>1. Guarded(p, source[r]) /\ ~There(staged[r]) /\ ~There(backup[r]) /\ ~There(pending[r])
    BY <1>2, Shapes
  <2>2. "fresh" \in MigratorPlaces \ {"intended"}
    BY DEF MigratorPlaces, EarlyPlaces
  <2>3. proc'[p].at = "fresh"
    BY <1>0, <1>2, <2>2, Going
  <2>4. HoldsRun(p, r)' /\ CopiesRun(p, r)' /\ MayFinish(p, r)'
    BY <1>1, <1>2, <2>1, <2>3 DEF HoldsRun, CopiesRun, MayFinish, Guarded, Holds, There
  <2> QED BY <1>0, <1>1, <1>2, <2>2, <2>4, GoKeeps DEF PublishingPlaces
<1>3. CASE Ends(p)
  BY <1>1, <1>3, EndKeeps
<1> QED BY <1>2, <1>3 DEF Settle

LEMMA ResumeKeeps ==
  ASSUME MInv, NEW p \in Migrators, Resume(p)
  PROVE  MigratorStep(p)
<1>0. /\ TypeOK /\ proc[p] # idle /\ proc[p].at = "found" /\ proc[p].run \in Runs
  BY AtPlace DEF Resume
<1> SUFFICES ASSUME NEW r \in Runs, r = proc[p].run PROVE MigratorStep(p)
  BY <1>0
<1>1. /\ source' = source /\ staged' = staged /\ backup' = backup /\ pending' = pending
      /\ tombs' = tombs /\ intent' = intent /\ clock' = clock
      /\ IsStaged(p, r) /\ IsMigrated(staged[r], pending[r])
      /\ holder' = holder \cup {<<staged[r].ino, p>>} /\ Goes(p, "ready")
  BY DEF Resume, files
<1>2. /\ Guarded(p, source[r]) /\ There(staged[r]) /\ ~There(backup[r]) /\ Bound(pending[r], source[r])
  BY <1>1, Shapes
<1>3. staged[r].parts = Parts /\ ~staged[r].legacy /\ staged[r].from = pending[r].digest
  BY <1>1 DEF IsMigrated, IsCurrent, MadeFrom
<1>4. "ready" \in MigratorPlaces \ {"intended"} /\ "ready" \in PublishingPlaces
  BY DEF MigratorPlaces, EarlyPlaces, PublishingPlaces
<1>5. proc'[p].at = "ready"
  BY <1>0, <1>1, <1>4, Going
<1>6. HoldsRun(p, r)'
  BY <1>1, <1>2, <1>5 DEF HoldsRun, Guarded, Holds, There
<1>7. CopiesRun(p, r)'
  BY <1>1, <1>2, <1>3, <1>5 DEF CopiesRun, Holds, There, Bound, IsRecord, IsTorn
<1>8. MayFinish(p, r)'
  BY <1>5 DEF MayFinish
<1> QED BY <1>0, <1>1, <1>2, <1>4, <1>6, <1>7, <1>8, GoKeeps DEF PublishingPlaces

LEMMA FinishRenameKeeps ==
  ASSUME MInv, NEW p \in Migrators, FinishRename(p)
  PROVE  MigratorStep(p)
<1>0. /\ TypeOK /\ proc[p] # idle /\ proc[p].at = "found" /\ proc[p].run \in Runs
  BY AtPlace DEF FinishRename
<1> SUFFICES ASSUME NEW r \in Runs, r = proc[p].run PROVE MigratorStep(p)
  BY <1>0
<1>1. /\ source' = source /\ staged' = staged /\ backup' = backup /\ pending' = pending
      /\ tombs' = tombs /\ intent' = intent /\ clock' = clock
      /\ IsBacked(p, r)
      /\ holder' = holder \cup {<<staged[r].ino, p>>} /\ Goes(p, "backed")
  BY DEF FinishRename, files
<1>2. /\ ~There(source[r]) /\ There(staged[r]) /\ Guarded(p, backup[r])
      /\ Bound(pending[r], backup[r]) /\ IsMigrated(staged[r], pending[r])
  BY <1>1, Shapes
<1>3. staged[r].parts = Parts /\ ~staged[r].legacy /\ staged[r].from = pending[r].digest
  BY <1>2 DEF IsMigrated, IsCurrent, MadeFrom
<1>4. "backed" \in MigratorPlaces \ {"intended"} /\ "backed" \in PublishingPlaces
  BY DEF MigratorPlaces, PublishingPlaces
<1>5. proc'[p].at = "backed"
  BY <1>0, <1>1, <1>4, Going
<1>6. IsOriginal(backup[r], staged[r].from)
  BY <1>2, <1>3 DEF IsOriginal, Bound, Contents, MInv, IntentsArePlanned, Guarded
<1>7. HoldsRun(p, r)' /\ CopiesRun(p, r)'
  BY <1>5 DEF HoldsRun, CopiesRun, EarlyPlaces, LatePlaces
<1>8. MayFinish(p, r)'
  BY <1>1, <1>2, <1>3, <1>6 DEF MayFinish, Guarded, Holds, There, IsOriginal
<1> QED BY <1>0, <1>1, <1>2, <1>4, <1>7, <1>8, GoKeeps DEF PublishingPlaces

LEMMA CleanUpKeeps ==
  ASSUME MInv, NEW p \in Migrators, CleanUp(p)
  PROVE  MigratorStep(p)
<1>0. /\ TypeOK /\ proc[p] # idle /\ proc[p].at = "found" /\ proc[p].run \in Runs
  BY AtPlace DEF CleanUp
<1> SUFFICES ASSUME NEW r \in Runs, r = proc[p].run PROVE MigratorStep(p)
  BY <1>0
<1> DEFINE place == IF source[r].owner = 0 THEN "unmarked" ELSE "published"
<1>1. /\ source' = source /\ staged' = staged /\ backup' = backup /\ pending' = pending
      /\ tombs' = tombs /\ intent' = intent /\ clock' = clock
      /\ IsPublished(p, r)
      /\ holder' = holder \cup {<<backup[r].ino, p>>} /\ Goes(p, place)
  BY DEF CleanUp, files
<1>2. Guarded(p, source[r]) /\ There(backup[r]) /\ Free(backup[r].ino)
  BY <1>1, Shapes
<1>3. backup[r].ino \in Settled
  BY <1>2, SettledAre
<1>4. place \in {"unmarked", "published"}
  OBVIOUS
<1> HIDE DEF place
<1>5. place \in MigratorPlaces \ {"intended"}
  BY <1>4 DEF MigratorPlaces, LatePlaces
<1>6. proc'[p].at \in {"unmarked", "published"}
  BY <1>0, <1>1, <1>4, <1>5, Going
<1>7. HoldsRun(p, r)'
  BY <1>1, <1>2, <1>6 DEF HoldsRun, EarlyPlaces, Guarded, Holds, There
<1>8. CopiesRun(p, r)' /\ MayFinish(p, r)'
  BY <1>6 DEF CopiesRun, MayFinish
<1> QED BY <1>0, <1>1, <1>2, <1>3, <1>5, <1>7, <1>8, GoKeeps DEF PublishingPlaces

LEMMA AmbiguousKeeps ==
  ASSUME MInv, NEW p \in Migrators, Ambiguous(p)
  PROVE  MigratorStep(p)
<1>0. proc[p].run \in Runs
  BY AtPlace DEF Ambiguous
<1> QED BY <1>0, EndKeeps DEF Ambiguous, files

-----------------------------------------------------------------------------
(* The copy and the intent of a run that a migration holds.                *)

\* A migration works on its copy or drops its intent, and the run is as it was.
LEMMA CopyKeeps ==
  ASSUME MInv, NEW p \in Migrators, proc[p] # idle, NEW r \in Runs, proc[p].run = r,
         NEW place \in MigratorPlaces \ {"intended"},
         Goes(p, place) \/ (proc' = proc /\ place = proc[p].at),
         source' = source, backup' = backup, tombs' = tombs, intent' = intent, clock' = clock,
         holder' = holder, Guarded(p, source[r]), ~There(backup[r]),
         staged' \in [Runs -> Tree \cup {Nothing}], \A s \in Runs : s # r => staged'[s] = staged[s],
         pending' \in [Runs -> Pendings \cup {Nothing, Torn}],
         \A s \in Runs : s # r => pending'[s] = pending[s],
         There(staged'[r]) => There(staged[r]) /\ staged'[r].ino = staged[r].ino,
         pending'[r] = pending[r] \/ ~IsRecord(pending'[r]),
         place \in PublishingPlaces \/ proc[p].at \notin PublishingPlaces,
         HoldsRun(p, r)' /\ CopiesRun(p, r)' /\ MayFinish(p, r)'
  PROVE  MigratorStep(p)
<1>1. TypeOK /\ p \in Processes
  BY Partners DEF MInv
<1>2. /\ DOMAIN proc' = Processes /\ proc'[p].at = place /\ proc'[p].run = r /\ proc'[p] # idle
      /\ \A q \in Processes : q # p => proc'[q] = proc[q]
      /\ \A q \in Migrators : proc'[q] \in MigratorStates
  <2>1. CASE Goes(p, place)
    BY <1>1, <2>1, Going
  <2>2. CASE proc' = proc /\ place = proc[p].at
    BY <1>1, <2>2 DEF TypeOK
  <2> QED BY <2>1, <2>2
<1>3. TypeOK'
  BY <1>1, <1>2 DEF TypeOK
<1>4. Settled' = Settled
  BY DEF Settled, Inodes, There
<1>5. There(source'[r]) => source'[r].parts = Parts
  BY DEF MInv, RunsAreWhole
<1>6. \/ proc[p] # idle /\ proc'[p] # idle /\ proc'[p].run = proc[p].run /\ proc'[p].at \in PublishingPlaces
      \/ proc[p] = idle \/ proc[p].at \notin PublishingPlaces
  BY <1>2
<1>7. \A h \in holder : h[2] # p => h \in holder'
  OBVIOUS
<1>8. MInv'
  BY <1>2, <1>3, <1>4, <1>5, <1>6, <1>7, MigratorKeeps
<1> QED BY <1>2, <1>8, Untouched DEF MigratorStep

LEMMA DropIntentKeeps ==
  ASSUME MInv, NEW p \in Migrators, DropIntent(p)
  PROVE  MigratorStep(p)
<1>0. /\ TypeOK /\ proc[p] # idle /\ proc[p].at = "found" /\ proc[p].run \in Runs
  BY AtPlace DEF DropIntent
<1> SUFFICES ASSUME NEW r \in Runs, r = proc[p].run PROVE MigratorStep(p)
  BY <1>0
<1>1. /\ source' = source /\ staged' = staged /\ backup' = backup
      /\ tombs' = tombs /\ intent' = intent /\ clock' = clock /\ holder' = holder
      /\ pending' = [pending EXCEPT ![r] = Nothing] /\ Goes(p, "fresh") /\ IsUnstarted(p, r)
  BY DEF DropIntent, purgeFiles
<1>2. Guarded(p, source[r]) /\ ~There(staged[r]) /\ ~There(backup[r])
  BY <1>1, Shapes
<1>3. "fresh" \in MigratorPlaces \ {"intended"}
  BY DEF MigratorPlaces, EarlyPlaces
<1>4. proc'[p].at = "fresh"
  BY <1>0, <1>1, <1>3, Going
<1>5. /\ pending' \in [Runs -> Pendings \cup {Nothing, Torn}] /\ pending'[r] = Nothing
      /\ \A s \in Runs : s # r => pending'[s] = pending[s]
  BY <1>0, <1>1 DEF TypeOK
<1>6. HoldsRun(p, r)' /\ CopiesRun(p, r)' /\ MayFinish(p, r)'
  BY <1>1, <1>2, <1>4, <1>5 DEF HoldsRun, CopiesRun, MayFinish, Guarded, Holds, There
<1>7. staged' \in [Runs -> Tree \cup {Nothing}] /\ ~IsRecord(pending'[r])
  BY <1>0, <1>1, <1>5, Absence DEF TypeOK
<1> QED BY <1>0, <1>1, <1>2, <1>3, <1>5, <1>6, <1>7, CopyKeeps DEF PublishingPlaces

LEMMA DiscardKeeps ==
  ASSUME MInv, NEW p \in Migrators, Discard(p)
  PROVE  MigratorStep(p)
<1>0. /\ TypeOK /\ proc[p] # idle /\ proc[p].at = "found" /\ proc[p].run \in Runs
  BY AtPlace DEF Discard
<1> SUFFICES ASSUME NEW r \in Runs, r = proc[p].run PROVE MigratorStep(p)
  BY <1>0
<1>1. /\ source' = source /\ backup' = backup /\ pending' = pending
      /\ tombs' = tombs /\ intent' = intent /\ clock' = clock /\ holder' = holder
      /\ staged' = [staged EXCEPT ![r].owner = 0] /\ Goes(p, "discarding") /\ IsStaged(p, r)
  BY DEF Discard, purgeFiles
<1>2. Guarded(p, source[r]) /\ There(staged[r]) /\ ~There(backup[r])
  BY <1>1, Shapes
<1>3. "discarding" \in MigratorPlaces \ {"intended"}
  BY DEF MigratorPlaces, EarlyPlaces
<1>4. proc'[p].at = "discarding"
  BY <1>0, <1>1, <1>3, Going
<1>5. /\ staged' \in [Runs -> Tree \cup {Nothing}] /\ staged'[r].ino = staged[r].ino
      /\ \A s \in Runs : s # r => staged'[s] = staged[s]
  <2> DEFINE x == [staged[r] EXCEPT !.owner = 0]
  <2>1. x \in Tree /\ x.ino = staged[r].ino
    BY <1>0, <1>2, Trees, Clocks DEF Tree
  <2>2. staged' = [staged EXCEPT ![r] = x]
    BY <1>1
  <2> HIDE DEF x
  <2> QED BY <1>0, <2>1, <2>2 DEF TypeOK
<1>6. HoldsRun(p, r)' /\ CopiesRun(p, r)' /\ MayFinish(p, r)'
  BY <1>1, <1>2, <1>4 DEF HoldsRun, CopiesRun, MayFinish, Guarded, Holds, There
<1>7. pending' \in [Runs -> Pendings \cup {Nothing, Torn}]
  BY <1>0, <1>1 DEF TypeOK
<1> QED BY <1>0, <1>1, <1>2, <1>3, <1>5, <1>6, <1>7, CopyKeeps DEF PublishingPlaces

LEMMA DiscardRestKeeps ==
  ASSUME MInv, NEW p \in Migrators, DiscardRest(p)
  PROVE  MigratorStep(p)
<1>0. /\ TypeOK /\ proc[p] # idle /\ proc[p].at = "discarding" /\ proc[p].run \in Runs
      /\ HoldsRun(p, proc[p].run)
  BY AtPlace DEF DiscardRest
<1> SUFFICES ASSUME NEW r \in Runs, r = proc[p].run PROVE MigratorStep(p)
  BY <1>0
<1>1. /\ source' = source /\ backup' = backup /\ pending' = pending
      /\ tombs' = tombs /\ intent' = intent /\ clock' = clock /\ holder' = holder
      /\ staged' = [staged EXCEPT ![r] = Nothing] /\ Goes(p, "discarded")
  BY DEF DiscardRest, purgeFiles
<1>2. Guarded(p, source[r]) /\ ~There(backup[r])
  BY <1>0 DEF HoldsRun, EarlyPlaces
<1>3. "discarded" \in MigratorPlaces \ {"intended"}
  BY DEF MigratorPlaces, EarlyPlaces
<1>4. proc'[p].at = "discarded"
  BY <1>0, <1>1, <1>3, Going
<1>5. /\ staged' \in [Runs -> Tree \cup {Nothing}] /\ staged'[r] = Nothing
      /\ \A s \in Runs : s # r => staged'[s] = staged[s]
  BY <1>0, <1>1 DEF TypeOK
<1>6. HoldsRun(p, r)' /\ CopiesRun(p, r)' /\ MayFinish(p, r)'
  BY <1>1, <1>2, <1>4, <1>5 DEF HoldsRun, CopiesRun, MayFinish, Guarded, Holds, There
<1>7. pending' \in [Runs -> Pendings \cup {Nothing, Torn}] /\ ~There(staged'[r])
  BY <1>0, <1>1, <1>5 DEF TypeOK, There
<1> QED BY <1>0, <1>1, <1>2, <1>3, <1>5, <1>6, <1>7, CopyKeeps DEF PublishingPlaces

LEMMA DiscardIntentKeeps ==
  ASSUME MInv, NEW p \in Migrators, DiscardIntent(p)
  PROVE  MigratorStep(p)
<1>0. /\ TypeOK /\ proc[p] # idle /\ proc[p].at = "discarded" /\ proc[p].run \in Runs
      /\ HoldsRun(p, proc[p].run)
  BY AtPlace DEF DiscardIntent
<1> SUFFICES ASSUME NEW r \in Runs, r = proc[p].run PROVE MigratorStep(p)
  BY <1>0
<1>1. /\ source' = source /\ staged' = staged /\ backup' = backup
      /\ tombs' = tombs /\ intent' = intent /\ clock' = clock /\ holder' = holder
      /\ pending' = [pending EXCEPT ![r] = Nothing] /\ Goes(p, "fresh")
  BY DEF DiscardIntent, purgeFiles
<1>2. Guarded(p, source[r]) /\ ~There(staged[r]) /\ ~There(backup[r])
  BY <1>0 DEF HoldsRun, EarlyPlaces
<1>3. "fresh" \in MigratorPlaces \ {"intended"}
  BY DEF MigratorPlaces, EarlyPlaces
<1>4. proc'[p].at = "fresh"
  BY <1>0, <1>1, <1>3, Going
<1>5. /\ pending' \in [Runs -> Pendings \cup {Nothing, Torn}] /\ pending'[r] = Nothing
      /\ \A s \in Runs : s # r => pending'[s] = pending[s]
  BY <1>0, <1>1 DEF TypeOK
<1>6. HoldsRun(p, r)' /\ CopiesRun(p, r)' /\ MayFinish(p, r)'
  BY <1>1, <1>2, <1>4, <1>5 DEF HoldsRun, CopiesRun, MayFinish, Guarded, Holds, There
<1>7. staged' \in [Runs -> Tree \cup {Nothing}] /\ ~IsRecord(pending'[r])
  BY <1>0, <1>1, <1>5, Absence DEF TypeOK
<1> QED BY <1>0, <1>1, <1>2, <1>3, <1>5, <1>6, <1>7, CopyKeeps DEF PublishingPlaces

\* The copy is marked, filled, rewritten and concluded.
LEMMA MarkStagedKeeps ==
  ASSUME MInv, NEW p \in Migrators, MarkStaged(p)
  PROVE  MigratorStep(p)
<1>0. /\ TypeOK /\ proc[p] # idle /\ proc[p].at = "made" /\ proc[p].run \in Runs
      /\ HoldsRun(p, proc[p].run) /\ CopiesRun(p, proc[p].run)
  BY AtPlace DEF MarkStaged
<1> SUFFICES ASSUME NEW r \in Runs, r = proc[p].run PROVE MigratorStep(p)
  BY <1>0
<1>1. /\ source' = source /\ backup' = backup /\ pending' = pending
      /\ tombs' = tombs /\ intent' = intent /\ clock' = clock /\ holder' = holder
      /\ staged' = [staged EXCEPT ![r].owner = pending[r].token] /\ Goes(p, "marked")
  BY DEF MarkStaged, purgeFiles
<1>2. Guarded(p, source[r]) /\ ~There(backup[r]) /\ Bound(pending[r], source[r])
  BY <1>0 DEF HoldsRun, CopiesRun, EarlyPlaces
<1>3. There(staged[r])
  BY <1>0 DEF CopiesRun
<1>4. "marked" \in MigratorPlaces \ {"intended"}
  BY DEF MigratorPlaces, EarlyPlaces
<1>5. proc'[p].at = "marked"
  BY <1>0, <1>1, <1>4, Going
<1> DEFINE x == [staged[r] EXCEPT !.owner = pending[r].token]
<1>6. x \in Tree /\ x.ino = staged[r].ino
  <2>1. pending[r] \in Pendings
    BY <1>0, <1>2, Trees DEF Bound
  <2> QED BY <1>0, <1>3, <2>1, Trees, Clocks DEF Tree, Pendings
<1>7. /\ staged' \in [Runs -> Tree \cup {Nothing}] /\ staged'[r] = x
      /\ \A s \in Runs : s # r => staged'[s] = staged[s]
  BY <1>0, <1>1, <1>6 DEF TypeOK
<1> HIDE DEF x
<1>8. There(x)
  BY <1>6, Absence
<1>9. HoldsRun(p, r)'
  BY <1>1, <1>2, <1>5 DEF HoldsRun, Guarded, Holds, There
<1>10. CopiesRun(p, r)'
  BY <1>1, <1>2, <1>3, <1>5, <1>6, <1>7, <1>8 DEF CopiesRun, Bound, IsRecord, IsTorn, There, Holds
<1>11. MayFinish(p, r)'
  BY <1>5 DEF MayFinish
<1>12. pending' \in [Runs -> Pendings \cup {Nothing, Torn}]
  BY <1>0, <1>1 DEF TypeOK
<1> QED BY <1>0, <1>1, <1>2, <1>3, <1>4, <1>6, <1>7, <1>9, <1>10, <1>11, <1>12, CopyKeeps DEF PublishingPlaces

LEMMA RewriteKeeps ==
  ASSUME MInv, NEW p \in Migrators, Rewrite(p)
  PROVE  MigratorStep(p)
<1>0. /\ TypeOK /\ proc[p] # idle /\ proc[p].at = "copied" /\ proc[p].run \in Runs
      /\ HoldsRun(p, proc[p].run) /\ CopiesRun(p, proc[p].run)
  BY AtPlace DEF Rewrite
<1> SUFFICES ASSUME NEW r \in Runs, r = proc[p].run PROVE MigratorStep(p)
  BY <1>0
<1>1. /\ source' = source /\ backup' = backup /\ pending' = pending
      /\ tombs' = tombs /\ intent' = intent /\ clock' = clock /\ holder' = holder
      /\ staged' = [staged EXCEPT ![r].legacy = FALSE] /\ Goes(p, "rewritten")
  BY DEF Rewrite, purgeFiles
<1>2. Guarded(p, source[r]) /\ ~There(backup[r]) /\ Bound(pending[r], source[r])
  BY <1>0 DEF HoldsRun, CopiesRun, EarlyPlaces
<1>3. There(staged[r]) /\ staged[r].parts = Parts /\ Holds(p, staged[r].ino)
  BY <1>0 DEF CopiesRun
<1>4. "rewritten" \in MigratorPlaces \ {"intended"}
  BY DEF MigratorPlaces, EarlyPlaces
<1>5. proc'[p].at = "rewritten"
  BY <1>0, <1>1, <1>4, Going
<1>c. PICK d \in BOOLEAN : d = FALSE
  OBVIOUS
<1> DEFINE x == [staged[r] EXCEPT !.legacy = d]
<1>6. x \in Tree /\ x.ino = staged[r].ino /\ x.parts = Parts /\ x.legacy = d
  <2>1. staged[r] \in Tree
    BY <1>0, <1>3, Trees
  <2> QED BY <1>3, <2>1 DEF Tree
<1>7. /\ staged' \in [Runs -> Tree \cup {Nothing}] /\ staged'[r] = x
      /\ \A s \in Runs : s # r => staged'[s] = staged[s]
  BY <1>0, <1>1, <1>6, <1>c DEF TypeOK
<1> HIDE DEF x
<1>8. There(x)
  BY <1>6, Absence
<1>9. HoldsRun(p, r)'
  BY <1>1, <1>2, <1>5 DEF HoldsRun, Guarded, Holds, There
<1>10. CopiesRun(p, r)'
  <2>1. ~staged'[r].legacy
    BY <1>6, <1>7, <1>c
  <2>2. Bound(pending[r], source[r])'
    BY <1>1, <1>2 DEF Bound, IsRecord, IsTorn, There
  <2>3. There(staged[r])' /\ staged'[r].parts = Parts
    BY <1>6, <1>7, <1>8 DEF There
  <2>4. Holds(p, staged[r].ino)'
    BY <1>1, <1>3, <1>6, <1>7 DEF Holds
  <2> QED BY <1>5, <2>1, <2>2, <2>3, <2>4 DEF CopiesRun
<1>11. MayFinish(p, r)'
  BY <1>5 DEF MayFinish
<1>12. pending' \in [Runs -> Pendings \cup {Nothing, Torn}]
  BY <1>0, <1>1 DEF TypeOK
<1> QED BY <1>0, <1>1, <1>2, <1>3, <1>4, <1>6, <1>7, <1>9, <1>10, <1>11, <1>12, CopyKeeps DEF PublishingPlaces

LEMMA ConcludeKeeps ==
  ASSUME MInv, NEW p \in Migrators, Conclude(p)
  PROVE  MigratorStep(p)
<1>0. /\ TypeOK /\ proc[p] # idle /\ proc[p].at = "rewritten" /\ proc[p].run \in Runs
      /\ HoldsRun(p, proc[p].run) /\ CopiesRun(p, proc[p].run)
  BY AtPlace DEF Conclude
<1> SUFFICES ASSUME NEW r \in Runs, r = proc[p].run PROVE MigratorStep(p)
  BY <1>0
<1>1. /\ source' = source /\ backup' = backup /\ pending' = pending
      /\ tombs' = tombs /\ intent' = intent /\ clock' = clock /\ holder' = holder
      /\ staged' = [staged EXCEPT ![r].from = pending[r].digest] /\ Goes(p, "ready")
  BY DEF Conclude, purgeFiles
<1>2. Guarded(p, source[r]) /\ ~There(backup[r]) /\ Bound(pending[r], source[r])
  BY <1>0 DEF HoldsRun, CopiesRun, EarlyPlaces
<1>3. There(staged[r]) /\ staged[r].parts = Parts /\ Holds(p, staged[r].ino) /\ ~staged[r].legacy
  BY <1>0 DEF CopiesRun
<1>4. "ready" \in MigratorPlaces \ {"intended"}
  BY DEF MigratorPlaces, EarlyPlaces
<1>5. proc'[p].at = "ready"
  BY <1>0, <1>1, <1>4, Going
<1> DEFINE x == [staged[r] EXCEPT !.from = pending[r].digest]
<1>6. x \in Tree /\ x.ino = staged[r].ino /\ x.parts = Parts /\ ~x.legacy /\ x.from = pending[r].digest
  <2>1. pending[r] \in Pendings
    BY <1>0, <1>2, Trees DEF Bound
  <2> QED BY <1>0, <1>3, <2>1, Trees, Clocks DEF Tree, Pendings
<1>7. /\ staged' \in [Runs -> Tree \cup {Nothing}] /\ staged'[r] = x
      /\ \A s \in Runs : s # r => staged'[s] = staged[s]
  BY <1>0, <1>1, <1>6 DEF TypeOK
<1> HIDE DEF x
<1>8. There(x)
  BY <1>6, Absence
<1>9. HoldsRun(p, r)'
  BY <1>1, <1>2, <1>5 DEF HoldsRun, Guarded, Holds, There
<1>10. CopiesRun(p, r)'
  BY <1>1, <1>2, <1>3, <1>5, <1>6, <1>7, <1>8 DEF CopiesRun, Bound, IsRecord, IsTorn, There, Holds
<1>11. MayFinish(p, r)'
  BY <1>5 DEF MayFinish
<1>12. pending' \in [Runs -> Pendings \cup {Nothing, Torn}]
  BY <1>0, <1>1 DEF TypeOK
<1> QED BY <1>0, <1>1, <1>2, <1>3, <1>4, <1>6, <1>7, <1>9, <1>10, <1>11, <1>12, CopyKeeps DEF PublishingPlaces

LEMMA CopyEntriesKeeps ==
  ASSUME MInv, NEW p \in Migrators, CopyEntries(p)
  PROVE  MigratorStep(p)
<1>0. /\ TypeOK /\ proc[p] # idle /\ proc[p].at = "marked" /\ proc[p].run \in Runs
      /\ HoldsRun(p, proc[p].run) /\ CopiesRun(p, proc[p].run)
  BY AtPlace DEF CopyEntries
<1> SUFFICES ASSUME NEW r \in Runs, r = proc[p].run PROVE MigratorStep(p)
  BY <1>0
<1>1. /\ source' = source /\ backup' = backup /\ pending' = pending
      /\ tombs' = tombs /\ intent' = intent /\ clock' = clock
  BY DEF CopyEntries, purgeFiles
<1>2. Guarded(p, source[r]) /\ ~There(backup[r]) /\ Bound(pending[r], source[r]) /\ There(staged[r])
  BY <1>0 DEF HoldsRun, CopiesRun, EarlyPlaces
<1>3. staged[r] \in Tree
  BY <1>0, <1>2, Trees
<1>4. CASE Parts \ staged[r].parts = {}
  <2>1. holder' = holder \cup {<<staged[r].ino, p>>} /\ Goes(p, "copied") /\ staged' = staged
    BY <1>4 DEF CopyEntries
  <2>2. "copied" \in MigratorPlaces \ {"intended"} /\ "copied" \in PublishingPlaces
    BY DEF MigratorPlaces, EarlyPlaces, PublishingPlaces
  <2>3. proc'[p].at = "copied"
    BY <1>0, <2>1, <2>2, Going
  <2>4. staged[r].parts = Parts
    BY <1>3, <1>4 DEF Tree
  <2>5. HoldsRun(p, r)'
    BY <1>1, <1>2, <2>1, <2>3 DEF HoldsRun, Guarded, Holds, There
  <2>6. CopiesRun(p, r)'
    BY <1>1, <1>2, <2>1, <2>3, <2>4 DEF CopiesRun, Bound, IsRecord, IsTorn, There, Holds
  <2>7. MayFinish(p, r)'
    BY <2>3 DEF MayFinish
  <2> QED BY <1>0, <1>1, <1>2, <2>1, <2>2, <2>5, <2>6, <2>7, GoKeeps DEF PublishingPlaces
<1>5. CASE Parts \ staged[r].parts # {}
  <2>1. PICK part \in Parts \ staged[r].parts :
          staged' = [staged EXCEPT ![r].parts = @ \cup {part}] /\ holder' = holder /\ proc' = proc
    <3> DEFINE rest == Parts \ staged[r].parts
               part == IF "contents" \in rest THEN "contents" ELSE CHOOSE y \in rest : TRUE
    <3>1. part \in rest
      BY <1>5
    <3>2. staged' = [staged EXCEPT ![r].parts = @ \cup {part}] /\ holder' = holder /\ proc' = proc
      BY <1>5 DEF CopyEntries
    <3> HIDE DEF part
    <3> QED BY <3>1, <3>2
  <2> DEFINE x == [staged[r] EXCEPT !.parts = @ \cup {part}]
  <2>2. x \in Tree /\ x.ino = staged[r].ino
    BY <1>3, <2>1 DEF Tree
  <2>3. /\ staged' \in [Runs -> Tree \cup {Nothing}] /\ staged'[r] = x
        /\ \A s \in Runs : s # r => staged'[s] = staged[s]
    BY <1>0, <2>1, <2>2 DEF TypeOK
  <2> HIDE DEF x
  <2>4. There(x)
    BY <2>2, Absence
  <2>5. proc'[p].at = "marked" /\ "marked" \in MigratorPlaces \ {"intended"}
    BY <1>0, <2>1 DEF MigratorPlaces, EarlyPlaces
  <2>6. HoldsRun(p, r)'
    BY <1>1, <1>2, <2>1, <2>5 DEF HoldsRun, Guarded, Holds, There
  <2>7. CopiesRun(p, r)'
    BY <1>1, <1>2, <2>1, <2>3, <2>4, <2>5 DEF CopiesRun, Bound, IsRecord, IsTorn, There
  <2>8. MayFinish(p, r)'
    BY <2>5 DEF MayFinish
  <2>9. pending' \in [Runs -> Pendings \cup {Nothing, Torn}]
    BY <1>0, <1>1 DEF TypeOK
  <2> QED BY <1>0, <1>1, <1>2, <2>1, <2>2, <2>3, <2>5, <2>6, <2>7, <2>8, <2>9, CopyKeeps DEF PublishingPlaces
<1> QED BY <1>4, <1>5

-----------------------------------------------------------------------------
(* The renames, and the end.                                               *)

LEMMA RemovePendingKeeps ==
  ASSUME MInv, NEW p \in Migrators, RemovePending(p)
  PROVE  MigratorStep(p)
<1>0. proc[p].at = "unmarked" /\ proc[p].run \in Runs /\ HoldsRun(p, proc[p].run)
  BY AtPlace DEF RemovePending
<1>1. Guarded(p, source[proc[p].run])
  BY <1>0 DEF HoldsRun, LatePlaces
<1> QED BY <1>0, <1>1, EndKeeps DEF RemovePending, purgeFiles

LEMMA MigratorDiesKeeps ==
  ASSUME MInv, NEW p \in Migrators, MigratorDies(p)
  PROVE  MigratorStep(p)
<1>1. /\ proc[p] # idle /\ Ends(p)
      /\ source' = source /\ staged' = staged /\ backup' = backup /\ tombs' = tombs
      /\ intent' = intent /\ clock' = clock
  BY DEF MigratorDies, purgeFiles
<1>2. proc[p].run \in Runs /\ HoldsRun(p, proc[p].run)
  BY <1>1, Under DEF MInv, MigratorsStand
<1>3. CASE pending' = pending
  BY <1>1, <1>2, <1>3, EndKeeps
<1>4. CASE proc[p].at = "fresh" /\ pending' = [pending EXCEPT ![proc[p].run] = Torn]
  <2>1. Guarded(p, source[proc[p].run])
    BY <1>2, <1>4 DEF HoldsRun, EarlyPlaces
  <2> QED BY <1>1, <1>2, <1>4, <2>1, EndKeeps
<1> QED BY <1>3, <1>4 DEF MigratorDies, At

LEMMA RemoveMarkerKeeps ==
  ASSUME MInv, NEW p \in Migrators, RemoveMarker(p)
  PROVE  MigratorStep(p)
<1>0. /\ TypeOK /\ proc[p] # idle /\ proc[p].at = "published" /\ proc[p].run \in Runs
      /\ p \in Processes /\ HoldsRun(p, proc[p].run)
  BY AtPlace DEF RemoveMarker
<1> SUFFICES ASSUME NEW r \in Runs, r = proc[p].run PROVE MigratorStep(p)
  BY <1>0
<1>1. /\ staged' = staged /\ backup' = backup /\ pending' = pending
      /\ tombs' = tombs /\ intent' = intent /\ clock' = clock /\ holder' = holder
      /\ source' = [source EXCEPT ![r].owner = 0] /\ Goes(p, "unmarked")
  BY DEF RemoveMarker, purgeFiles
<1>2. Guarded(p, source[r])
  BY <1>0 DEF HoldsRun, LatePlaces
<1>3. "unmarked" \in MigratorPlaces
  BY DEF MigratorPlaces, LatePlaces
<1>4. /\ DOMAIN proc' = Processes /\ proc'[p].at = "unmarked" /\ proc'[p].run = r
      /\ \A q \in Processes : q # p => proc'[q] = proc[q]
      /\ \A q \in Migrators : proc'[q] \in MigratorStates
  BY <1>0, <1>1, <1>3, Going
<1> DEFINE x == [source[r] EXCEPT !.owner = 0]
<1>5. x \in Tree /\ x.ino = source[r].ino /\ x.parts = Parts
  <2>1. source[r] \in Tree /\ source[r].parts = Parts
    BY <1>0, <1>2, Trees DEF Guarded, MInv, RunsAreWhole
  <2> QED BY <2>1, Clocks DEF Tree
<1>6. /\ source' \in [Runs -> Tree \cup {Nothing}] /\ source'[r] = x
      /\ \A s \in Runs : s # r => source'[s] = source[s]
  BY <1>0, <1>1, <1>5 DEF TypeOK
<1> HIDE DEF x
<1>7. There(source'[r]) /\ There(source[r])
  BY <1>2, <1>5, <1>6, Absence DEF Guarded
<1>8. TypeOK'
  BY <1>0, <1>1, <1>4, <1>6 DEF TypeOK
<1>9. Settled' = Settled
  BY <1>1, <1>5, <1>6, <1>7 DEF Settled, Inodes, There
<1>10. HoldsRun(p, r)' /\ CopiesRun(p, r)' /\ MayFinish(p, r)'
  <2>1. Guarded(p, source[r])'
    BY <1>1, <1>2, <1>5, <1>6, <1>7 DEF Guarded, Holds, There
  <2> QED BY <1>4, <2>1 DEF HoldsRun, CopiesRun, MayFinish, EarlyPlaces
<1>11. \A h \in holder : h[2] # p => h \in holder'
  BY <1>1
<1>12. proc[p].at \notin PublishingPlaces
  BY <1>0 DEF PublishingPlaces
<1>13. MInv'
  BY <1>0, <1>1, <1>2, <1>4, <1>5, <1>6, <1>8, <1>9, <1>10, <1>11, <1>12, MigratorKeeps
<1>14. RunMoves(r)
  <2>1. ~Free(source[r].ino)
    BY <1>2 DEF Guarded, Holds, Free
  <2> QED BY <1>1, <1>5, <1>6, <1>7, <2>1 DEF RunMoves
<1> QED BY <1>1, <1>4, <1>6, <1>13, <1>14, Untouched DEF MigratorStep

LEMMA PublishBackupKeeps ==
  ASSUME MInv, NEW p \in Migrators, PublishBackup(p)
  PROVE  MigratorStep(p)
<1>0. /\ TypeOK /\ proc[p] # idle /\ proc[p].at = "ready" /\ proc[p].run \in Runs
      /\ p \in Processes /\ HoldsRun(p, proc[p].run) /\ CopiesRun(p, proc[p].run)
  BY AtPlace DEF PublishBackup
<1> SUFFICES ASSUME NEW r \in Runs, r = proc[p].run PROVE MigratorStep(p)
  BY <1>0
<1>1. /\ staged' = staged /\ pending' = pending
      /\ tombs' = tombs /\ intent' = intent /\ clock' = clock /\ holder' = holder
      /\ source' = [source EXCEPT ![r] = Nothing] /\ backup' = [backup EXCEPT ![r] = source[r]]
      /\ Goes(p, "backed")
  BY DEF PublishBackup, purgeFiles
<1>2. /\ Guarded(p, source[r]) /\ ~There(backup[r]) /\ Bound(pending[r], source[r])
      /\ There(staged[r]) /\ staged[r].parts = Parts /\ Holds(p, staged[r].ino)
      /\ ~staged[r].legacy /\ staged[r].from = pending[r].digest
  BY <1>0 DEF HoldsRun, CopiesRun, EarlyPlaces
<1>3. "backed" \in MigratorPlaces /\ "backed" \in PublishingPlaces
  BY DEF MigratorPlaces, PublishingPlaces
<1>4. /\ DOMAIN proc' = Processes /\ proc'[p].at = "backed" /\ proc'[p].run = r /\ proc'[p] # idle
      /\ \A q \in Processes : q # p => proc'[q] = proc[q]
      /\ \A q \in Migrators : proc'[q] \in MigratorStates
  BY <1>0, <1>1, <1>3, Going
<1>5. source[r] \in Tree /\ source[r].parts = Parts /\ There(source[r])
  BY <1>0, <1>2, Trees DEF Guarded, MInv, RunsAreWhole
<1>6. /\ source' \in [Runs -> Tree \cup {Nothing}] /\ source'[r] = Nothing
      /\ backup' \in [Runs -> Tree \cup {Nothing}] /\ backup'[r] = source[r]
      /\ \A s \in Runs : s # r => source'[s] = source[s] /\ backup'[s] = backup[s]
  BY <1>0, <1>1, <1>5 DEF TypeOK
<1>7. TypeOK'
  BY <1>0, <1>1, <1>4, <1>6 DEF TypeOK
<1>8. \A n \in Settled' : n \in Settled
  BY <1>1, <1>5, <1>6, Absence, SettledAre DEF Settled, Inodes
<1>9. MayFinish(p, r)'
  <2>1. IsOriginal(source[r], staged[r].from)
    BY <1>2, <1>5 DEF IsOriginal, Bound, Contents, MInv, IntentsArePlanned
  <2>2. Guarded(p, staged[r])' /\ Guarded(p, backup[r])'
    BY <1>1, <1>2, <1>6 DEF Guarded, Holds, There
  <2> QED BY <1>1, <1>2, <1>6, <2>1, <2>2 DEF MayFinish, IsOriginal, There
<1>10. HoldsRun(p, r)' /\ CopiesRun(p, r)'
  BY <1>4 DEF HoldsRun, CopiesRun, EarlyPlaces, LatePlaces
<1>11. \A h \in holder : h[2] # p => h \in holder'
  BY <1>1
<1>12. ~There(source'[r])
  BY <1>6, Absence
<1>13. MInv'
  BY <1>0, <1>1, <1>2, <1>3, <1>4, <1>6, <1>7, <1>8, <1>9, <1>10, <1>11, <1>12, MigratorKeeps
<1>14. RunMoves(r)
  BY <1>2, <1>5, <1>6, <1>12 DEF RunMoves
<1> QED BY <1>1, <1>4, <1>6, <1>13, <1>14, Untouched DEF MigratorStep

LEMMA PublishMigratedKeeps ==
  ASSUME MInv, NEW p \in Migrators, PublishMigrated(p)
  PROVE  MigratorStep(p)
<1>0. /\ TypeOK /\ proc[p] # idle /\ proc[p].at = "backed" /\ proc[p].run \in Runs
      /\ p \in Processes /\ MayFinish(p, proc[p].run)
  BY AtPlace DEF PublishMigrated
<1> SUFFICES ASSUME NEW r \in Runs, r = proc[p].run PROVE MigratorStep(p)
  BY <1>0
<1>1. /\ backup' = backup /\ pending' = pending
      /\ tombs' = tombs /\ intent' = intent /\ clock' = clock
  BY DEF PublishMigrated, purgeFiles
<1>2. CASE There(source[r])
  <2>1. Ends(p) /\ source' = source /\ staged' = staged
    BY <1>2 DEF PublishMigrated
  <2> QED BY <1>1, <2>1, EndKeeps
<1>3. CASE ~There(source[r])
  <2>1. /\ source' = [source EXCEPT ![r] = staged[r]] /\ staged' = [staged EXCEPT ![r] = Nothing]
        /\ holder' = holder /\ Goes(p, "published")
    BY <1>3 DEF PublishMigrated
  <2>2. /\ Guarded(p, staged[r]) /\ Guarded(p, backup[r]) /\ staged[r].parts = Parts
        /\ ~staged[r].legacy /\ IsOriginal(backup[r], staged[r].from) /\ There(staged[r])
    BY <1>0 DEF MayFinish, Guarded
  <2>3. "published" \in MigratorPlaces
    BY DEF MigratorPlaces, LatePlaces
  <2>4. /\ DOMAIN proc' = Processes /\ proc'[p].at = "published" /\ proc'[p].run = r /\ proc'[p] # idle
        /\ \A q \in Processes : q # p => proc'[q] = proc[q]
        /\ \A q \in Migrators : proc'[q] \in MigratorStates
    BY <1>0, <2>1, <2>3, Going
  <2>5. staged[r] \in Tree
    BY <1>0, <2>2, Trees
  <2>6. /\ source' \in [Runs -> Tree \cup {Nothing}] /\ source'[r] = staged[r]
        /\ staged' \in [Runs -> Tree \cup {Nothing}] /\ staged'[r] = Nothing
        /\ \A s \in Runs : s # r => source'[s] = source[s] /\ staged'[s] = staged[s]
    BY <1>0, <2>1, <2>5 DEF TypeOK
  <2>7. ~There(staged'[r]) /\ There(source'[r])
    BY <2>2, <2>6, Absence DEF There
  <2>8. TypeOK'
    BY <1>0, <1>1, <2>1, <2>4, <2>6 DEF TypeOK
  <2>9. staged[r].ino \in Inodes(staged)
    BY <2>2, SettledAre
  <2>10. /\ \A n \in Settled' : n \in Settled \/ n = staged[r].ino
         /\ \A n \in Inodes(staged)' : n \in Inodes(staged)
    BY <1>1, <2>6, <2>7, SettledAre DEF Settled, Inodes, There
  <2>11. RunsAreWhole'
    <3>1. \A n \in Settled' \cup Inodes(staged)' : n <= clock'
      BY <1>1, <2>9, <2>10 DEF MInv, RunsAreWhole
    <3>2. \A s \in Runs : There(source'[s]) => source'[s].parts = Parts
      BY <2>2, <2>6 DEF MInv, RunsAreWhole
    <3>3. \A h \in holder' : h[1] <= clock'
      BY <1>1, <2>1 DEF MInv, RunsAreWhole
    <3> QED BY <3>1, <3>2, <3>3 DEF RunsAreWhole
  <2>12. IntentsArePlanned'
    BY <1>1 DEF MInv, IntentsArePlanned, IsRecord, There, IsTorn
  <2>13. CopiesAreApart'
    <3>1. ASSUME NEW s \in Runs, There(staged'[s]) PROVE staged'[s].ino \notin Settled'
      <4>1. s # r /\ staged'[s] = staged[s] /\ There(staged[s])
        BY <3>1, <2>6, <2>7
      <4> QED BY <4>1, <2>2, <2>10 DEF MInv, CopiesAreApart
    <3>2. \A s, t \in Runs :
            s # t /\ There(staged'[s]) /\ There(staged'[t]) => staged'[s].ino # staged'[t].ino
      BY <2>6, <2>7 DEF MInv, CopiesAreApart
    <3>3. ASSUME NEW q \in Migrators, proc'[q].at = "intended"
          PROVE  Token(q)' \notin Settled' \cup Inodes(staged)' /\ Free(Token(q))'
      <4>1. proc'[q] = proc[q]
        BY <3>3, <2>4, Partners
      <4>2. Token(q)' = Token(q)
        BY <1>1, <4>1 DEF Token
      <4>3. Token(q) \notin Settled \cup Inodes(staged) /\ Free(Token(q))
        BY <3>3, <4>1 DEF MInv, CopiesAreApart
      <4>4. \A h \in holder' : h[1] # Token(q)
        BY <2>1, <4>3 DEF Free
      <4> QED BY <2>9, <2>10, <4>2, <4>3, <4>4 DEF Free
    <3> QED BY <3>1, <3>2, <3>3 DEF CopiesAreApart
  <2>14. OneHolder'
    BY <2>1 DEF MInv, OneHolder
  <2>15. CopiesAreLocked'
    <3> SUFFICES ASSUME NEW h \in holder', NEW s \in Runs, There(staged'[s]), staged'[s].ino = h[1]
                 PROVE  /\ h[2] \in Migrators /\ proc'[h[2]] # idle /\ proc'[h[2]].run = s
                        /\ proc'[h[2]].at \in {"copied", "rewritten", "ready", "backed"}
      BY DEF CopiesAreLocked
    <3>1. s # r /\ There(staged[s]) /\ staged[s].ino = h[1] /\ h \in holder
      BY <2>1, <2>6, <2>7
    <3>2. /\ h[2] \in Migrators /\ proc[h[2]] # idle /\ proc[h[2]].run = s
          /\ proc[h[2]].at \in {"copied", "rewritten", "ready", "backed"}
      BY <3>1 DEF MInv, CopiesAreLocked
    <3> QED BY <3>1, <3>2, <2>4, Partners
  <2>16. MigratorsStand'
    <3> SUFFICES ASSUME NEW q \in Migrators, proc'[q] # idle
                 PROVE  /\ HoldsRun(q, proc[q].run)' /\ CopiesRun(q, proc[q].run)'
                        /\ MayFinish(q, proc[q].run)'
      BY DEF MigratorsStand
    <3>1. CASE q = p
      <4>1. Guarded(p, source[r])'
        BY <2>1, <2>2, <2>6, <2>7 DEF Guarded, Holds
      <4>2. HoldsRun(p, r)' /\ CopiesRun(p, r)' /\ MayFinish(p, r)'
        BY <2>4, <4>1 DEF HoldsRun, CopiesRun, MayFinish, EarlyPlaces
      <4> QED BY <3>1, <4>2, <2>4
    <3>2. CASE q # p
      <4>1. proc'[q] = proc[q] /\ proc[q] # idle
        BY <3>2, <2>4, Partners
      <4>2. \A h \in holder : h[2] # p => h \in holder'
        BY <2>1
      <4> QED BY <3>2, <4>1, <4>2, <1>1, <1>3, <2>2, <2>4, <2>6, OthersStand
    <3> QED BY <3>1, <3>2
  <2>17. MInv'
    BY <2>8, <2>11, <2>12, <2>13, <2>14, <2>15, <2>16 DEF MInv
  <2>18. RunMoves(r)
    BY <1>1, <1>3, <2>2, <2>6, <2>7 DEF RunMoves
  <2> QED BY <1>1, <2>4, <2>6, <2>17, <2>18, Untouched DEF MigratorStep
<1> QED BY <1>2, <1>3

LEMMA MakeStagedKeeps ==
  ASSUME MInv, NEW p \in Migrators, MakeStaged(p)
  PROVE  MigratorStep(p)
<1>0. /\ TypeOK /\ proc[p] # idle /\ proc[p].at = "intended" /\ proc[p].run \in Runs
      /\ p \in Processes /\ HoldsRun(p, proc[p].run) /\ CopiesRun(p, proc[p].run)
  BY AtPlace DEF MakeStaged
<1> SUFFICES ASSUME NEW r \in Runs, r = proc[p].run PROVE MigratorStep(p)
  BY <1>0
<1>1. /\ source' = source /\ backup' = backup /\ pending' = pending
      /\ tombs' = tombs /\ intent' = intent /\ clock' = clock /\ holder' = holder
      /\ staged' = [staged EXCEPT ![r] = [source[r] EXCEPT !.ino = pending[r].token, !.parts = {}]]
      /\ Goes(p, "made")
  BY DEF MakeStaged, purgeFiles
<1>2. /\ Guarded(p, source[r]) /\ ~There(backup[r]) /\ ~There(staged[r])
      /\ Bound(pending[r], source[r]) /\ IsRecord(pending[r])
  BY <1>0 DEF HoldsRun, CopiesRun, EarlyPlaces, Bound
<1>3. "made" \in MigratorPlaces
  BY DEF MigratorPlaces, EarlyPlaces
<1>4. /\ DOMAIN proc' = Processes /\ proc'[p].at = "made" /\ proc'[p].run = r /\ proc'[p] # idle
      /\ \A q \in Processes : q # p => proc'[q] = proc[q]
      /\ \A q \in Migrators : proc'[q] \in MigratorStates
  BY <1>0, <1>1, <1>3, Going
<1>5. source[r] \in Tree /\ pending[r] \in Pendings
  BY <1>0, <1>2, Trees DEF Guarded
<1> DEFINE n == pending[r].token
           x == [source[r] EXCEPT !.ino = n, !.parts = {}]
<1>6. n \in Int /\ n <= clock
  BY <1>2, <1>5, Clocks DEF Pendings, MInv, IntentsArePlanned
<1>7. n \notin Settled \cup Inodes(staged) /\ Free(n)
  BY <1>0 DEF MInv, CopiesAreApart, Token
<1>8. staged' = [staged EXCEPT ![r] = x]
  BY <1>1
<1>9. x \in Tree /\ x.ino = n
  BY <1>5, <1>6 DEF Tree
<1>9a. \A q \in Migrators : q # p /\ proc[q].at = "intended" =>
         proc[q].run \in Runs /\ proc[q].run # r /\ pending[proc[q].run].token # n
  <2> SUFFICES ASSUME NEW q \in Migrators, q # p, proc[q].at = "intended"
               PROVE  proc[q].run \in Runs /\ proc[q].run # r /\ pending[proc[q].run].token # n
    OBVIOUS
  <2>1. proc[q] # idle /\ proc[q].run \in Runs
    BY <1>0, Under
  <2>2. proc[q].run # r
    BY <1>2, <2>1, ShutOut DEF EarlyPlaces
  <2>3. IsRecord(pending[proc[q].run])
    BY <2>1 DEF MInv, MigratorsStand, CopiesRun, Bound
  <2> QED BY <1>2, <2>1, <2>2, <2>3 DEF MInv, IntentsArePlanned
<1> HIDE DEF x, n
<1>10. /\ staged' \in [Runs -> Tree \cup {Nothing}] /\ staged'[r] = x /\ There(staged'[r])
       /\ \A s \in Runs : s # r => staged'[s] = staged[s]
  BY <1>0, <1>8, <1>9, Absence DEF TypeOK
<1>11. TypeOK'
  BY <1>0, <1>1, <1>4, <1>10 DEF TypeOK
<1>12. Settled' = Settled /\ \A m \in Inodes(staged)' : m \in Inodes(staged) \/ m = n
  <2>1. Settled' = Settled
    BY <1>1 DEF Settled, Inodes, There
  <2>2. ASSUME NEW m \in Inodes(staged)' PROVE m \in Inodes(staged) \/ m = n
    <3>1. PICK s \in Runs : There(staged'[s]) /\ m = staged'[s].ino
      BY <2>2 DEF Inodes
    <3> QED BY <1>9, <1>10, <3>1 DEF Inodes
  <2> QED BY <2>1, <2>2
<1>13. RunsAreWhole'
  <2>1. \A m \in Settled' \cup Inodes(staged)' : m <= clock'
    BY <1>1, <1>6, <1>12 DEF MInv, RunsAreWhole
  <2>2. \A s \in Runs : There(source'[s]) => source'[s].parts = Parts
    BY <1>1 DEF MInv, RunsAreWhole
  <2>3. \A h \in holder' : h[1] <= clock'
    BY <1>1 DEF MInv, RunsAreWhole
  <2> QED BY <2>1, <2>2, <2>3 DEF RunsAreWhole
<1>14. IntentsArePlanned'
  BY <1>1 DEF MInv, IntentsArePlanned, IsRecord, There, IsTorn
<1>15. CopiesAreApart'
  <2>1. \A s \in Runs : There(staged'[s]) => staged'[s].ino \notin Settled'
    BY <1>7, <1>9, <1>10, <1>12 DEF MInv, CopiesAreApart
  <2>2. \A s \in Runs : s # r /\ There(staged'[s]) => There(staged[s]) /\ staged'[s].ino = staged[s].ino
                                                      /\ staged[s].ino # n
    BY <1>7, <1>10, SettledAre
  <2>3. \A s, t \in Runs :
          s # t /\ There(staged'[s]) /\ There(staged'[t]) => staged'[s].ino # staged'[t].ino
    BY <2>2, <1>9, <1>10 DEF MInv, CopiesAreApart
  <2>4. ASSUME NEW q \in Migrators, proc'[q].at = "intended"
        PROVE  Token(q)' \notin Settled' \cup Inodes(staged)' /\ Free(Token(q))'
    <3>1. proc'[q] = proc[q] /\ q # p
      BY <2>4, <1>4, Partners
    <3>2. Token(q)' = Token(q) /\ Token(q) # n
      BY <1>1, <1>9a, <2>4, <3>1 DEF Token
    <3>3. Token(q) \notin Settled \cup Inodes(staged) /\ Free(Token(q))
      BY <2>4, <3>1 DEF MInv, CopiesAreApart
    <3>4. \A h \in holder' : h[1] # Token(q)
      BY <1>1, <3>3 DEF Free
    <3> QED BY <1>12, <3>2, <3>3, <3>4 DEF Free
  <2> QED BY <2>1, <2>3, <2>4 DEF CopiesAreApart
<1>16. OneHolder'
  BY <1>1 DEF MInv, OneHolder
<1>17. CopiesAreLocked'
  <2> SUFFICES ASSUME NEW h \in holder', NEW s \in Runs, There(staged'[s]), staged'[s].ino = h[1]
               PROVE  /\ h[2] \in Migrators /\ proc'[h[2]] # idle /\ proc'[h[2]].run = s
                      /\ proc'[h[2]].at \in PublishingPlaces
    BY DEF CopiesAreLocked, PublishingPlaces
  <2>1. h \in holder /\ h[1] # n
    BY <1>1, <1>7 DEF Free
  <2>2. s # r /\ There(staged[s]) /\ staged[s].ino = h[1]
    BY <1>9, <1>10, <2>1
  <2>3. /\ h[2] \in Migrators /\ proc[h[2]] # idle /\ proc[h[2]].run = s
        /\ proc[h[2]].at \in PublishingPlaces
    BY <2>1, <2>2 DEF MInv, CopiesAreLocked, PublishingPlaces
  <2> QED BY <2>2, <2>3, <1>4, Partners
<1>18. MigratorsStand'
  <2> SUFFICES ASSUME NEW q \in Migrators, proc'[q] # idle
               PROVE  /\ HoldsRun(q, proc[q].run)' /\ CopiesRun(q, proc[q].run)'
                      /\ MayFinish(q, proc[q].run)'
    BY DEF MigratorsStand
  <2>1. CASE q = p
    <3>1. HoldsRun(p, r)'
      BY <1>1, <1>2, <1>4 DEF HoldsRun, Guarded, Holds, There
    <3>2. CopiesRun(p, r)'
      BY <1>1, <1>2, <1>4, <1>10 DEF CopiesRun, Bound, IsRecord, IsTorn, There
    <3>3. MayFinish(p, r)'
      BY <1>4 DEF MayFinish
    <3> QED BY <2>1, <3>1, <3>2, <3>3, <1>4
  <2>2. CASE q # p
    <3>1. proc'[q] = proc[q] /\ proc[q] # idle
      BY <2>2, <1>4, Partners
    <3>2. \A h \in holder : h[2] # p => h \in holder'
      BY <1>1
    <3> QED BY <2>2, <3>1, <3>2, <1>1, <1>2, <1>4, <1>10, OthersStand
  <2> QED BY <2>1, <2>2
<1>19. MInv'
  BY <1>11, <1>13, <1>14, <1>15, <1>16, <1>17, <1>18 DEF MInv
<1> QED BY <1>1, <1>4, <1>19, Untouched DEF MigratorStep

\* What an inventory tells of a tree, and of the tree it becomes.
LEMMA Inventoried ==
  ASSUME NEW t \in Tree, NEW n \in 0 .. MaxClock
  PROVE  Contents(t) \in Inventories /\ Projected(t, n) \in Inventories
<1>1. Contents(t) \in Inventories
  BY DEF Contents, Inventories, Tree
<1> DEFINE x == [t EXCEPT !.legacy = FALSE, !.from = t.edit, !.owner = n]
<1>2. PICK d \in BOOLEAN : d = FALSE
  OBVIOUS
<1>3. [t EXCEPT !.legacy = d, !.from = t.edit, !.owner = n] \in Tree
  BY DEF Tree
<1>4. x \in Tree
  BY <1>2, <1>3
<1> HIDE DEF x
<1>5. Contents(x) \in Inventories
  BY <1>4 DEF Contents, Inventories, Tree
<1> QED BY <1>1, <1>5 DEF Projected, x

\* The intent a migration plans binds a whole v0 run.
LEMMA Planned ==
  ASSUME TypeOK, NEW r \in Runs, source[r] \in Tree, clock < MaxClock
  PROVE  /\ NewPending(r) \in Pendings /\ NewPending(r).token = clock + 1
         /\ NewPending(r).source = Contents(source[r])
         /\ NewPending(r).digest = source[r].edit
<1>1. clock + 1 \in 0 .. MaxClock
  BY Clocks DEF TypeOK
<1>2. Contents(source[r]) \in Inventories /\ Projected(source[r], clock + 1) \in Inventories
  BY <1>1, Inventoried
<1>3. source[r].edit \in 0 .. MaxClock
  BY DEF Tree
<1> QED BY <1>1, <1>2, <1>3 DEF NewPending, Pendings

LEMMA PlanMigrationKeeps ==
  ASSUME MInv, NEW p \in Migrators, PlanMigration(p)
  PROVE  MigratorStep(p)
<1>0. /\ TypeOK /\ proc[p] # idle /\ proc[p].at = "fresh" /\ proc[p].run \in Runs
      /\ p \in Processes /\ HoldsRun(p, proc[p].run)
  BY AtPlace DEF PlanMigration
<1> SUFFICES ASSUME NEW r \in Runs, r = proc[p].run PROVE MigratorStep(p)
  BY <1>0
<1>1. /\ source' = source /\ staged' = staged /\ backup' = backup
      /\ tombs' = tombs /\ intent' = intent
  BY DEF PlanMigration, purgeFiles
<1>2. /\ Guarded(p, source[r]) /\ ~There(backup[r]) /\ ~There(staged[r]) /\ ~There(pending[r])
  BY <1>0 DEF HoldsRun, EarlyPlaces
<1> DEFINE Sound == /\ source[r].legacy /\ CleanSource(source[r])
                    /\ ~There(backup[r]) /\ ~There(pending[r]) /\ clock < MaxClock
<1>3. CASE ~Sound
  <2>1. Ends(p) /\ pending' = pending /\ clock' = clock
    BY <1>3 DEF PlanMigration
  <2> QED BY <1>1, <2>1, EndKeeps
<1>4. CASE Sound
  <2>1. /\ pending' = [pending EXCEPT ![r] = NewPending(r)] /\ clock' = clock + 1
        /\ Goes(p, "intended") /\ holder' = holder
    BY <1>4 DEF PlanMigration
  <2>2. "intended" \in MigratorPlaces
    BY DEF MigratorPlaces, EarlyPlaces
  <2>3. /\ DOMAIN proc' = Processes /\ proc'[p].at = "intended" /\ proc'[p].run = r /\ proc'[p] # idle
        /\ \A q \in Processes : q # p => proc'[q] = proc[q]
        /\ \A q \in Migrators : proc'[q] \in MigratorStates
    BY <1>0, <2>1, <2>2, Going
  <2>4. source[r] \in Tree /\ source[r].parts = Parts
    BY <1>0, <1>2, Trees DEF Guarded, MInv, RunsAreWhole
  <2> DEFINE it == NewPending(r)
  <2>5. /\ it \in Pendings /\ it.token = clock + 1
        /\ it.source = Contents(source[r]) /\ it.digest = source[r].edit
    BY <1>0, <1>4, <2>4, Planned
  <2>6. /\ it.source[1] = it.digest /\ it.source[3] /\ it.source[4] = 0 /\ it.source[6] = Parts
    BY <1>4, <2>4, <2>5 DEF Contents, CleanSource
  <2>7. pending' = [pending EXCEPT ![r] = it]
    BY <2>1
  <2> HIDE DEF it
  <2>8. /\ pending' \in [Runs -> Pendings \cup {Nothing, Torn}] /\ pending'[r] = it
        /\ \A s \in Runs : s # r => pending'[s] = pending[s]
    BY <1>0, <2>5, <2>7 DEF TypeOK
  <2>9. clock \in Nat /\ clock' \in 0 .. MaxClock /\ clock < clock' /\ IsRecord(it)
    BY <1>0, <1>4, <2>1, <2>5, Clocks, Absence DEF TypeOK
  <2>10. TypeOK'
    BY <1>0, <1>1, <2>1, <2>3, <2>8, <2>9 DEF TypeOK
  <2>11. Settled' = Settled /\ Inodes(staged)' = Inodes(staged)
    BY <1>1 DEF Settled, Inodes, There
  <2>12. RunsAreWhole'
    <3>1. ASSUME NEW m \in Settled \cup Inodes(staged) PROVE m <= clock'
      <4>1. m \in Int /\ m <= clock
        BY <1>0, Numbers DEF MInv, RunsAreWhole
      <4> QED BY <4>1, <2>9
    <3>2. ASSUME NEW h \in holder PROVE h[1] <= clock'
      <4>1. h[1] \in Int /\ h[1] <= clock
        BY <1>0, Numbers DEF MInv, RunsAreWhole
      <4> QED BY <4>1, <2>9
    <3>3. \A s \in Runs : There(source'[s]) => source'[s].parts = Parts
      BY <1>1 DEF MInv, RunsAreWhole
    <3> QED BY <3>1, <3>2, <3>3, <2>1, <2>11 DEF RunsAreWhole
  <2>13. ASSUME NEW s \in Runs, s # r, IsRecord(pending[s])
         PROVE  pending[s].token <= clock /\ pending[s].token # it.token
    <3>1. pending[s].token <= clock /\ pending[s].token \in Int
      BY <1>0, <2>13, Trees, Clocks DEF Pendings, MInv, IntentsArePlanned
    <3> QED BY <3>1, <2>5, <2>9
  <2>14. IntentsArePlanned'
    <3>1. ASSUME NEW s \in Runs, IsRecord(pending'[s])
          PROVE  /\ pending'[s].token <= clock'
                 /\ pending'[s].source[1] = pending'[s].digest /\ pending'[s].source[3]
                 /\ pending'[s].source[4] = 0 /\ pending'[s].source[6] = Parts
      <4>1. CASE s = r
        BY <4>1, <2>1, <2>5, <2>6, <2>8, <2>9
      <4>2. CASE s # r
        <5>1. pending'[s] = pending[s] /\ IsRecord(pending[s])
          BY <4>2, <3>1, <2>8
        <5>2. pending[s].token <= clock /\ pending[s].token \in Int
          BY <1>0, <4>2, <5>1, <2>13, Trees, Clocks DEF Pendings
        <5>3. pending[s].token <= clock'
          BY <5>2, <2>9
        <5> QED BY <5>1, <5>3 DEF MInv, IntentsArePlanned
      <4> QED BY <4>1, <4>2
    <3>2. \A s, t \in Runs :
            s # t /\ IsRecord(pending'[s]) /\ IsRecord(pending'[t]) => pending'[s].token # pending'[t].token
      BY <2>8, <2>13 DEF MInv, IntentsArePlanned
    <3> QED BY <3>1, <3>2 DEF IntentsArePlanned, IsRecord, There, IsTorn
  <2>15. CopiesAreApart'
    <3>1. \A s \in Runs : There(staged'[s]) => staged'[s].ino \notin Settled'
      BY <1>1, <2>11 DEF MInv, CopiesAreApart
    <3>2. \A s, t \in Runs :
            s # t /\ There(staged'[s]) /\ There(staged'[t]) => staged'[s].ino # staged'[t].ino
      BY <1>1 DEF MInv, CopiesAreApart
    <3>3. ASSUME NEW q \in Migrators, proc'[q].at = "intended"
          PROVE  Token(q)' \notin Settled' \cup Inodes(staged)' /\ Free(Token(q))'
      <4>1. CASE q = p
        <5>1. Token(q)' = clock + 1
          BY <4>1, <2>3, <2>5, <2>8 DEF Token
        <5>2. clock + 1 \notin Settled \cup Inodes(staged) /\ Free(clock + 1)
          BY <1>0, ClockIsNew DEF MInv
        <5>4. \A h \in holder' : h[1] # clock + 1
          BY <2>1, <5>2 DEF Free
        <5> QED BY <5>1, <5>2, <5>4, <2>11 DEF Free
      <4>2. CASE q # p
        <5>1. proc'[q] = proc[q] /\ proc[q].at = "intended"
          BY <3>3, <4>2, <2>3, Partners
        <5>2. proc[q] # idle /\ proc[q].run \in Runs
          BY <1>0, <5>1, Under
        <5>3. proc[q].run # r
          BY <1>2, <4>2, <5>1, <5>2, ShutOut DEF EarlyPlaces
        <5>4. Token(q)' = Token(q)
          BY <5>1, <5>2, <5>3, <2>8 DEF Token
        <5>5. Token(q) \notin Settled \cup Inodes(staged) /\ Free(Token(q))
          BY <5>1 DEF MInv, CopiesAreApart
        <5>6. \A h \in holder' : h[1] # Token(q)
          BY <2>1, <5>5 DEF Free
        <5> QED BY <2>11, <5>4, <5>5, <5>6 DEF Free
      <4> QED BY <4>1, <4>2
    <3> QED BY <3>1, <3>2, <3>3 DEF CopiesAreApart
  <2>16. OneHolder'
    BY <2>1 DEF MInv, OneHolder
  <2>17. CopiesAreLocked'
    <3> SUFFICES ASSUME NEW h \in holder', NEW s \in Runs, There(staged'[s]), staged'[s].ino = h[1]
                 PROVE  /\ h[2] \in Migrators /\ proc'[h[2]] # idle /\ proc'[h[2]].run = s
                        /\ proc'[h[2]].at \in PublishingPlaces
      BY DEF CopiesAreLocked, PublishingPlaces
    <3>1. /\ h[2] \in Migrators /\ proc[h[2]] # idle /\ proc[h[2]].run = s
          /\ proc[h[2]].at \in PublishingPlaces
      BY <1>1, <2>1 DEF MInv, CopiesAreLocked, PublishingPlaces, There
    <3>2. h[2] # p
      BY <1>0, <3>1 DEF PublishingPlaces
    <3> QED BY <3>1, <3>2, <2>3, Partners
  <2>18. MigratorsStand'
    <3> SUFFICES ASSUME NEW q \in Migrators, proc'[q] # idle
                 PROVE  /\ HoldsRun(q, proc[q].run)' /\ CopiesRun(q, proc[q].run)'
                        /\ MayFinish(q, proc[q].run)'
      BY DEF MigratorsStand
    <3>1. CASE q = p
      <4>1. HoldsRun(p, r)'
        BY <1>1, <1>2, <2>1, <2>3 DEF HoldsRun, Guarded, Holds, There
      <4>2. CopiesRun(p, r)'
        BY <1>1, <2>3, <2>5, <2>8, <2>9 DEF CopiesRun, Bound, IsRecord, IsTorn, There
      <4>3. MayFinish(p, r)'
        BY <2>3 DEF MayFinish
      <4> QED BY <3>1, <4>1, <4>2, <4>3, <2>3
    <3>2. CASE q # p
      <4>1. proc'[q] = proc[q] /\ proc[q] # idle
        BY <3>2, <2>3, Partners
      <4>2. \A h \in holder : h[2] # p => h \in holder'
        BY <2>1
      <4> QED BY <3>2, <4>1, <4>2, <1>1, <1>2, <2>3, <2>8, OthersStand
    <3> QED BY <3>1, <3>2
  <2>19. MInv'
    BY <2>10, <2>12, <2>14, <2>15, <2>16, <2>17, <2>18 DEF MInv
  <2> QED BY <1>1, <2>3, <2>19, Untouched DEF MigratorStep
<1> QED BY <1>3, <1>4

-----------------------------------------------------------------------------
(* The invariant.                                                          *)

LEMMA WorkerKeeps ==
  ASSUME MInv, SelectionsAreTrees, Worker
  PROVE  MInv' /\ SelectionsAreTrees' /\ \A r \in Runs : RunMoves(r)
<1>1. PICK r \in Runs : Arrive(r) \/ Take(r) \/ Leave(r)
  BY DEF Worker
<1>2. proc' = proc /\ intent' = intent
  BY <1>1 DEF Arrive, Take, Leave, purgeFiles, files
<1>3. SelectionsAreTrees'
  BY <1>2 DEF SelectionsAreTrees, IsRecord, There, IsTorn
<1> QED BY <1>1, <1>3, ArriveKeeps, TakeKeeps, LeaveKeeps

LEMMA PurgingKeeps ==
  ASSUME MInv, SelectionsAreTrees, Purging
  PROVE  MInv' /\ SelectionsAreTrees' /\ \A r \in Runs : RunMoves(r)
BY ControlKeeps, EntombKeeps, StripKeeps, BuryKeeps DEF Purging

\* The steps of a migration.
MigratorActs(p) ==
  \/ \E r \in Runs : Migrate(p, r)
  \/ Settle(p) \/ DropIntent(p) \/ Resume(p) \/ Discard(p) \/ DiscardRest(p) \/ DiscardIntent(p)
  \/ FinishRename(p) \/ CleanUp(p) \/ Ambiguous(p) \/ PlanMigration(p)
  \/ MakeStaged(p) \/ MarkStaged(p) \/ CopyEntries(p) \/ Rewrite(p) \/ Conclude(p)
  \/ PublishBackup(p) \/ PublishMigrated(p) \/ RemoveMarker(p) \/ RemovePending(p)
  \/ MigratorDies(p)

LEMMA MigratorActsKeep ==
  ASSUME MInv, NEW p \in Migrators, MigratorActs(p)
  PROVE  MigratorStep(p)
BY MigrateKeeps, SettleKeeps, DropIntentKeeps, ResumeKeeps, DiscardKeeps, DiscardRestKeeps,
   DiscardIntentKeeps, FinishRenameKeeps, CleanUpKeeps, AmbiguousKeeps, PlanMigrationKeeps,
   MakeStagedKeeps, MarkStagedKeeps, CopyEntriesKeeps, RewriteKeeps, ConcludeKeeps,
   PublishBackupKeeps, PublishMigratedKeeps, RemoveMarkerKeeps, RemovePendingKeeps,
   MigratorDiesKeeps
   DEF MigratorActs

LEMMA MigratingKeeps ==
  ASSUME MInv, SelectionsAreTrees, Migrating
  PROVE  MInv' /\ SelectionsAreTrees' /\ \A r \in Runs : RunMoves(r)
<1>1. PICK p \in Migrators : MigratorStep(p)
  BY MigratorActsKeep DEF Migrating, MigratorActs
<1>2. \A q \in Purgers : q \in Processes /\ q # p
  BY Partners
<1>3. SelectionsAreTrees'
  BY <1>1, <1>2 DEF MigratorStep, SelectionsAreTrees, IsRecord, There, IsTorn
<1> QED BY <1>1, <1>3 DEF MigratorStep

\* The trees a root holds at first.
LEMMA FirstTrees ==
  ASSUME NEW r \in Runs, NEW kind
  PROVE  LET t == FirstTree(r, kind)
         IN  /\ t \in Tree \cup {Nothing} /\ BackupOf(t) \in Tree \cup {Nothing}
             /\ There(t) => t.run = r /\ t.ino = r /\ t.edit = r /\ t.parts = Parts
             /\ There(BackupOf(t)) => BackupOf(t).ino = -r
<1> DEFINE t == FirstTree(r, kind)
<1>1. r \in 0 .. MaxClock /\ 0 \in 0 .. MaxClock /\ r \in Int /\ -r \in Int
  BY Clocks
<1>2. PICK d \in BOOLEAN, e \in BOOLEAN, f \in BOOLEAN :
        d = (kind # "active") /\ e = (kind = "legacy") /\ f = FALSE
  OBVIOUS
<1>3. PICK n \in 0 .. MaxClock : n = IF kind = "migrated" THEN r ELSE 0
  BY <1>1
<1> DEFINE x == [run |-> r, ino |-> r, edit |-> r, done |-> d, legacy |-> e,
                 from |-> n, owner |-> 0, parts |-> Parts]
<1>4. x \in Tree /\ x.ino = r /\ x.edit = r /\ x.parts = Parts /\ x.run = r
  BY <1>1, <1>2 DEF Tree
<1>5. kind # "none" => t = x
  BY <1>2, <1>3 DEF FirstTree, NewTree
<1>6. kind = "none" => t = Nothing
  BY DEF FirstTree
<1> HIDE DEF t, x
<1>7. t \in Tree \cup {Nothing} /\ (There(t) => t.ino = r /\ t.edit = r /\ t.parts = Parts /\ t.run = r)
  BY <1>4, <1>5, <1>6 DEF There
<1>8. There(t) => \E b \in BOOLEAN : b = TRUE /\
        [t EXCEPT !.ino = -r, !.legacy = b, !.from = 0] \in Tree
  BY <1>1, <1>7 DEF Tree, There
<1>9. There(t) => [t EXCEPT !.ino = -r, !.legacy = TRUE, !.from = 0].ino = -r
  BY <1>7 DEF Tree, There
<1>10. \/ BackupOf(t) = Nothing
       \/ There(t) /\ BackupOf(t) = [t EXCEPT !.ino = -r, !.legacy = TRUE, !.from = 0]
  BY <1>7 DEF BackupOf
<1> QED BY <1>7, <1>8, <1>9, <1>10, Absence DEF t

LEMMA InitStands == Init => MInv /\ SelectionsAreTrees
<1> SUFFICES ASSUME Init PROVE MInv /\ SelectionsAreTrees
  OBVIOUS
<1>1. PICK root \in Roots : source = [r \in Runs |-> FirstTree(r, root[r])]
  BY DEF Init
<1>2. /\ backup = [r \in Runs |-> BackupOf(source[r])]
      /\ staged = [r \in Runs |-> Nothing] /\ pending = [r \in Runs |-> Nothing]
      /\ tombs = {} /\ intent = Nothing /\ holder = {} /\ proc = [p \in Processes |-> idle]
      /\ clock = Cardinality(Runs)
  BY DEF Init
<1>3. /\ Cardinality(Runs) \in 0 .. MaxClock
      /\ \A r \in Runs : r \in Int /\ r <= Cardinality(Runs) /\ -r <= Cardinality(Runs)
  BY FS_CardinalityType, RunsRootAssumption
<1>4. \A r \in Runs : /\ source[r] \in Tree \cup {Nothing} /\ backup[r] \in Tree \cup {Nothing}
                      /\ There(source[r]) => source[r].ino = r /\ source[r].parts = Parts
                      /\ There(backup[r]) => backup[r].ino = -r
  BY <1>1, <1>2, FirstTrees
<1>5. \A r \in Runs : ~There(staged[r]) /\ ~There(pending[r]) /\ ~IsRecord(pending[r])
  BY <1>2, Absence
<1>6. \A p \in Processes : proc[p] = idle
  BY <1>2
<1>7. TypeOK
  <2>1. source \in [Runs -> Tree \cup {Nothing}]
    BY <1>1, <1>4
  <2>2. backup \in [Runs -> Tree \cup {Nothing}]
    BY <1>2, <1>4
  <2>3. staged \in [Runs -> Tree \cup {Nothing}] /\ pending \in [Runs -> Pendings \cup {Nothing, Torn}]
    BY <1>2
  <2>4. \A p \in Migrators : proc[p] \in MigratorStates
    BY <1>6, Partners DEF MigratorStates, idle
  <2> QED BY <1>2, <1>3, <2>1, <2>2, <2>3, <2>4 DEF TypeOK
<1>8. RunsAreWhole
  <2>1. Inodes(staged) = {}
    BY <1>5 DEF Inodes
  <2>2. \A n \in Settled : n <= clock
    BY <1>2, <1>3, <1>4, SettledAre
  <2> QED BY <1>2, <1>4, <2>1, <2>2 DEF RunsAreWhole
<1>9. IntentsArePlanned
  BY <1>5 DEF IntentsArePlanned
<1>10. CopiesAreApart
  BY <1>5, <1>6, Partners DEF CopiesAreApart, idle
<1>11. OneHolder /\ CopiesAreLocked
  BY <1>2 DEF OneHolder, CopiesAreLocked
<1>12. MigratorsStand
  BY <1>6, Partners DEF MigratorsStand
<1>13. SelectionsAreTrees
  BY <1>2, <1>6, Partners, Absence DEF SelectionsAreTrees
<1> QED BY <1>7, <1>8, <1>9, <1>10, <1>11, <1>12, <1>13 DEF MInv

LEMMA MoveOrStay ==
  ASSUME MInv, SelectionsAreTrees, [Next]_vars
  PROVE  MInv' /\ SelectionsAreTrees' /\ \A r \in Runs : RunMoves(r)
<1>1. CASE Next
  BY <1>1, WorkerKeeps, PurgingKeeps, MigratingKeeps DEF Next
<1>2. CASE UNCHANGED vars
  <2>1. /\ source' = source /\ staged' = staged /\ backup' = backup /\ pending' = pending
        /\ tombs' = tombs /\ intent' = intent /\ holder' = holder /\ proc' = proc /\ clock' = clock
    BY <1>2 DEF vars, files
  <2>2. MInv'
    <3>1. TypeOK'
      BY <2>1 DEF MInv, TypeOK
    <3>2. Settled' = Settled /\ Inodes(staged)' = Inodes(staged)
      BY <2>1 DEF Settled, Inodes, There
    <3>3. RunsAreWhole'
      BY <2>1, <3>2 DEF MInv, RunsAreWhole, There
    <3>4. IntentsArePlanned'
      BY <2>1 DEF MInv, IntentsArePlanned, IsRecord, There, IsTorn
    <3>5. CopiesAreApart'
      BY <2>1, <3>2 DEF MInv, CopiesAreApart, There, Token, Free
    <3>6. OneHolder' /\ CopiesAreLocked'
      BY <2>1 DEF MInv, OneHolder, CopiesAreLocked, There
    <3>7. MigratorsStand'
      BY <2>1 DEF MInv, MigratorsStand, HoldsRun, CopiesRun, MayFinish, Guarded, Holds, There,
                  Bound, IsRecord, IsTorn, IsOriginal
    <3> QED BY <3>1, <3>3, <3>4, <3>5, <3>6, <3>7 DEF MInv
  <2>3. SelectionsAreTrees'
    BY <2>1 DEF SelectionsAreTrees, IsRecord, There, IsTorn
  <2> QED BY <2>1, <2>2, <2>3, Untouched
<1> QED BY <1>1, <1>2

-----------------------------------------------------------------------------
(* What the workers and the migrations leave to the purges.                *)

\* A step outside the purges: one run is touched.  A directory under its name stays the
\* same, or was staged, or is new; a staged one stays the same or is the planned one.
Touches(r) ==
  /\ \A s \in Runs : s # r => source'[s] = source[s] /\ staged'[s] = staged[s]
  /\ There(source'[r]) =>
       \/ There(staged[r]) /\ source'[r] = staged[r]
       \/ /\ There(source[r]) /\ source'[r].ino = source[r].ino /\ source'[r].run = source[r].run
          /\ source'[r].legacy = source[r].legacy
          /\ source'[r].edit = source[r].edit \/ (source'[r].edit = clock + 1 /\ clock' = clock + 1)
       \/ source'[r] = NewTree(r, clock + 1) /\ clock' = clock + 1
  /\ There(staged'[r]) =>
       \/ /\ There(staged[r]) /\ staged'[r].ino = staged[r].ino /\ staged'[r].run = staged[r].run
          /\ staged'[r].edit = staged[r].edit
       \/ /\ There(source[r]) /\ staged'[r].run = source[r].run /\ staged'[r].edit = source[r].edit
          /\ \E q \in Migrators : proc[q].at = "intended" /\ staged'[r].ino = Token(q)

\* A migration that has published its intent keeps its token.
KeepsTokens ==
  \A q \in Migrators : proc'[q].at = "intended" =>
    Token(q)' = clock + 1 \/ (proc[q].at = "intended" /\ Token(q)' = Token(q))

OutsideStep ==
  /\ tombs' = tombs /\ intent' = intent /\ result' = result /\ temp' = temp /\ chain' = chain
  /\ \A p \in Purgers : proc'[p] = proc[p]
  /\ clock' = clock \/ clock' = clock + 1
  /\ KeepsTokens /\ \E r \in Runs : Touches(r)

LEMMA WorkerIsOutside ==
  ASSUME MInv, Worker
  PROVE  OutsideStep
<1>1. PICK r \in Runs : Arrive(r) \/ Take(r) \/ Leave(r)
  BY DEF Worker
<1>2. /\ staged' = staged /\ pending' = pending /\ proc' = proc
      /\ tombs' = tombs /\ intent' = intent /\ result' = result /\ temp' = temp /\ chain' = chain
  BY <1>1 DEF Arrive, Take, Leave, purgeFiles, migrationFiles, files
<1>3. KeepsTokens
  BY <1>2 DEF KeepsTokens, Token
<1>4. source \in [Runs -> Tree \cup {Nothing}]
  BY <1>2 DEF MInv, TypeOK, There
<1>5. CASE Arrive(r)
  <2>1. Touches(r)
    BY <1>2, <1>4, <1>5 DEF Arrive, Touches, There
  <2> QED BY <1>2, <1>3, <1>5, <2>1 DEF Arrive, OutsideStep
<1>6. CASE Take(r)
  <2>1. Touches(r)
    BY <1>2, <1>4, <1>6 DEF Take, files, Touches, There
  <2> QED BY <1>2, <1>3, <1>6, <2>1 DEF Take, OutsideStep
<1>7. CASE Leave(r)
  <2>1. CASE UNCHANGED <<source, clock>>
    <3>1. Touches(r)
      BY <1>2, <1>4, <2>1 DEF Touches, There
    <3> QED BY <1>2, <1>3, <2>1, <3>1 DEF OutsideStep
  <2>2. ASSUME NEW d \in {source[r].done, TRUE}, clock' = clock + 1,
               source' = [source EXCEPT ![r].edit = clock + 1, ![r].done = d]
        PROVE  OutsideStep
    <3> DEFINE t == [source[r] EXCEPT !.edit = clock + 1, !.done = d]
    <3>1. source[r] \in Tree /\ There(source[r])
      BY <1>7, Trees DEF Leave, MInv
    <3>2. t.ino = source[r].ino /\ t.run = source[r].run /\ t.edit = clock + 1 /\ t.legacy = source[r].legacy
      BY <3>1 DEF Tree
    <3>3. source'[r] = t /\ \A s \in Runs : s # r => source'[s] = source[s]
      <4>1. source' = [source EXCEPT ![r] = t]
        BY <2>2, <1>4, <3>1 DEF Tree
      <4> HIDE DEF t
      <4> QED BY <4>1, <1>4
    <3> HIDE DEF t
    <3>4. Touches(r)
      BY <1>2, <1>4, <2>2, <3>1, <3>2, <3>3 DEF Touches
    <3> QED BY <1>2, <1>3, <2>2, <3>4 DEF OutsideStep
  <2> QED BY <1>7, <2>1, <2>2 DEF Leave
<1> QED BY <1>1, <1>5, <1>6, <1>7

LEMMA MigratorLeavesPurges ==
  ASSUME NEW p, MigratorActs(p)
  PROVE  /\ tombs' = tombs /\ intent' = intent /\ result' = result /\ temp' = temp /\ chain' = chain
         /\ clock' = clock \/ clock' = clock + 1
BY DEF MigratorActs, files, purgeFiles, Migrate, Settle, DropIntent, Resume, Discard, DiscardRest,
       DiscardIntent, FinishRename, CleanUp, Ambiguous, PlanMigration, MakeStaged, MarkStaged,
       CopyEntries, Rewrite, Conclude, PublishBackup, PublishMigrated, RemoveMarker,
       RemovePending, MigratorDies

\* The steps of a migration that leave the trees alone.
LEMMA TreesAlone ==
  ASSUME MInv, source' = source, staged' = staged, NEW r \in Runs
  PROVE  Touches(r)
BY DEF Touches, There

\* A step on the staged tree alone.
LEMMA StagedAlone ==
  ASSUME MInv, source' = source, NEW r \in Runs, NEW x, staged' = [staged EXCEPT ![r] = x],
         \/ x = Nothing
         \/ There(staged[r]) /\ x.ino = staged[r].ino /\ x.run = staged[r].run /\ x.edit = staged[r].edit
         \/ /\ There(source[r]) /\ x.run = source[r].run /\ x.edit = source[r].edit
            /\ \E q \in Migrators : proc[q].at = "intended" /\ x.ino = Token(q)
  PROVE  Touches(r)
<1>1. staged'[r] = x /\ \A s \in Runs : s # r => staged'[s] = staged[s]
  BY DEF MInv, TypeOK
<1>2. There(source'[r]) => There(source[r]) /\ source'[r] = source[r]
  BY DEF There
<1>3. There(staged'[r]) => x # Nothing
  BY <1>1 DEF There
<1> QED BY <1>1, <1>2, <1>3 DEF Touches

LEMMA MigratorTouches ==
  ASSUME MInv, NEW p \in Migrators, MigratorActs(p)
  PROVE  \E r \in Runs : Touches(r)
<1> USE DEF purgeFiles, files
<1>0. TypeOK
  BY DEF MInv
<1>1. ASSUME NEW r \in Runs, Migrate(p, r) PROVE Touches(r)
  BY <1>1, TreesAlone DEF Migrate
<1>2. CASE proc[p] = idle
  BY <1>1, <1>2 DEF MigratorActs, At, idle, Settle, DropIntent, Resume, Discard, DiscardRest,
       DiscardIntent, FinishRename, CleanUp, Ambiguous, PlanMigration, MakeStaged, MarkStaged,
       CopyEntries, Rewrite, Conclude, PublishBackup, PublishMigrated, RemoveMarker,
       RemovePending, MigratorDies
<1>3. CASE proc[p] # idle
  <2>1. proc[p].run \in Runs /\ CopiesRun(p, proc[p].run) /\ HoldsRun(p, proc[p].run)
    BY <1>0, <1>3, Under DEF MInv, MigratorsStand
  <2> SUFFICES ASSUME NEW r \in Runs, r = proc[p].run PROVE Touches(r)
    BY <2>1
  <2>2. ~\E s \in Runs : Migrate(p, s)
    BY <1>3 DEF Migrate
  <2>3. There(staged[r]) => staged[r] \in Tree
    BY <1>0, Trees
  <2>4. There(source[r]) => source[r] \in Tree
    BY <1>0, Trees
  <2>5. CASE Settle(p) \/ DropIntent(p) \/ Resume(p) \/ DiscardIntent(p) \/ FinishRename(p)
             \/ CleanUp(p) \/ Ambiguous(p) \/ PlanMigration(p) \/ RemovePending(p) \/ MigratorDies(p)
    BY <2>5, TreesAlone DEF Settle, DropIntent, Resume, DiscardIntent, FinishRename, CleanUp,
         Ambiguous, PlanMigration, RemovePending, MigratorDies
  <2>6. CASE Discard(p)
    <3>1. There(staged[r])
      BY <2>6, Shapes DEF Discard
    <3> DEFINE x == [staged[r] EXCEPT !.owner = 0]
    <3>2. x.ino = staged[r].ino /\ x.run = staged[r].run /\ x.edit = staged[r].edit
      BY <2>3, <3>1 DEF Tree
    <3>3. source' = source /\ staged' = [staged EXCEPT ![r] = x]
      BY <2>6 DEF Discard
    <3> HIDE DEF x
    <3> QED BY <3>1, <3>2, <3>3, StagedAlone
  <2>7. CASE DiscardRest(p)
    BY <2>7, StagedAlone DEF DiscardRest
  <2>8. CASE MakeStaged(p)
    <3>1. There(source[r]) /\ proc[p].at = "intended"
      BY <2>1, <2>8 DEF HoldsRun, Guarded, EarlyPlaces, MakeStaged, At
    <3> DEFINE x == [source[r] EXCEPT !.ino = pending[r].token, !.parts = {}]
    <3>2. x.run = source[r].run /\ x.edit = source[r].edit /\ x.ino = Token(p)
      BY <2>4, <3>1 DEF Tree, Token
    <3>3. source' = source /\ staged' = [staged EXCEPT ![r] = x]
      BY <2>8 DEF MakeStaged
    <3> HIDE DEF x
    <3> QED BY <3>1, <3>2, <3>3, StagedAlone
  <2>9. CASE MarkStaged(p)
    <3>1. There(staged[r])
      BY <2>1, <2>9 DEF CopiesRun, MarkStaged, At
    <3> DEFINE x == [staged[r] EXCEPT !.owner = pending[r].token]
    <3>2. x.ino = staged[r].ino /\ x.run = staged[r].run /\ x.edit = staged[r].edit
      BY <2>3, <3>1 DEF Tree
    <3>3. source' = source /\ staged' = [staged EXCEPT ![r] = x]
      BY <2>9 DEF MarkStaged
    <3> HIDE DEF x
    <3> QED BY <3>1, <3>2, <3>3, StagedAlone
  <2>10. CASE CopyEntries(p)
    <3>1. There(staged[r])
      BY <2>1, <2>10 DEF CopiesRun, CopyEntries, At
    <3>2. CASE staged' = staged
      BY <2>10, <3>2, TreesAlone DEF CopyEntries
    <3>3. ASSUME NEW y, staged' = [staged EXCEPT ![r].parts = @ \cup {y}]
          PROVE  Touches(r)
      <4> DEFINE x == [staged[r] EXCEPT !.parts = @ \cup {y}]
      <4>1. x.ino = staged[r].ino /\ x.run = staged[r].run /\ x.edit = staged[r].edit
        BY <2>3, <3>1 DEF Tree
      <4>2. source' = source /\ staged' = [staged EXCEPT ![r] = x]
        BY <2>10, <3>3 DEF CopyEntries
      <4> HIDE DEF x
      <4> QED BY <3>1, <4>1, <4>2, StagedAlone
    <3> QED BY <2>10, <3>2, <3>3 DEF CopyEntries
  <2>11. CASE Rewrite(p)
    <3>1. There(staged[r])
      BY <2>1, <2>11 DEF CopiesRun, Rewrite, At
    <3>a. PICK d \in BOOLEAN : d = FALSE
      OBVIOUS
    <3> DEFINE x == [staged[r] EXCEPT !.legacy = d]
    <3>2. x.ino = staged[r].ino /\ x.run = staged[r].run /\ x.edit = staged[r].edit
      BY <2>3, <3>1 DEF Tree
    <3>3. source' = source /\ staged' = [staged EXCEPT ![r] = x]
      BY <2>11, <3>a DEF Rewrite
    <3> HIDE DEF x
    <3> QED BY <3>1, <3>2, <3>3, StagedAlone
  <2>12. CASE Conclude(p)
    <3>1. There(staged[r])
      BY <2>1, <2>12 DEF CopiesRun, Conclude, At
    <3> DEFINE x == [staged[r] EXCEPT !.from = pending[r].digest]
    <3>2. x.ino = staged[r].ino /\ x.run = staged[r].run /\ x.edit = staged[r].edit
      BY <2>3, <3>1 DEF Tree
    <3>3. source' = source /\ staged' = [staged EXCEPT ![r] = x]
      BY <2>12 DEF Conclude
    <3> HIDE DEF x
    <3> QED BY <3>1, <3>2, <3>3, StagedAlone
  <2>13. CASE PublishBackup(p)
    <3>1. source' = [source EXCEPT ![r] = Nothing] /\ staged' = staged
      BY <2>13 DEF PublishBackup
    <3>2. ~There(source'[r]) /\ \A s \in Runs : s # r => source'[s] = source[s]
      BY <1>0, <3>1, Absence DEF TypeOK
    <3> QED BY <3>1, <3>2 DEF Touches, There
  <2>14. CASE PublishMigrated(p)
    <3>1. CASE source' = source /\ staged' = staged
      BY <3>1, TreesAlone
    <3>2. CASE source' = [source EXCEPT ![r] = staged[r]] /\ staged' = [staged EXCEPT ![r] = Nothing]
      <4>1. /\ source'[r] = staged[r] /\ ~There(staged'[r])
            /\ \A s \in Runs : s # r => source'[s] = source[s] /\ staged'[s] = staged[s]
        BY <1>0, <3>2, Absence DEF TypeOK
      <4> QED BY <4>1 DEF Touches, There
    <3> QED BY <2>14, <3>1, <3>2 DEF PublishMigrated
  <2>15. CASE RemoveMarker(p)
    <3>1. There(source[r])
      BY <2>1, <2>15 DEF HoldsRun, Guarded, LatePlaces, RemoveMarker, At
    <3> DEFINE x == [source[r] EXCEPT !.owner = 0]
    <3>2. x.ino = source[r].ino /\ x.run = source[r].run /\ x.edit = source[r].edit /\ x.legacy = source[r].legacy
      BY <2>4, <3>1 DEF Tree
    <3>3. staged' = staged /\ source' = [source EXCEPT ![r] = x]
      BY <2>15 DEF RemoveMarker
    <3> HIDE DEF x
    <3>4. source'[r] = x /\ \A s \in Runs : s # r => source'[s] = source[s]
      BY <1>0, <3>3 DEF TypeOK
    <3> QED BY <3>1, <3>2, <3>3, <3>4 DEF Touches, There
  <2> QED BY <2>2, <2>5, <2>6, <2>7, <2>8, <2>9, <2>10, <2>11, <2>12, <2>13, <2>14, <2>15
          DEF MigratorActs
<1> QED BY <1>2, <1>3

\* A step leaves a pending intent, or removes it, or writes a new one.
LEMMA MigratorPendings ==
  ASSUME MInv, NEW p \in Migrators, MigratorActs(p), NEW s \in Runs
  PROVE  pending'[s] = pending[s] \/ ~IsRecord(pending'[s]) \/ pending'[s].token = clock + 1
<1>1. \/ pending' = pending
      \/ \E r : pending' = [pending EXCEPT ![r] = Nothing]
      \/ \E r : pending' = [pending EXCEPT ![r] = Torn]
      \/ pending' = [pending EXCEPT ![proc[p].run] = NewPending(proc[p].run)]
  BY DEF MigratorActs, files, migrationFiles, Migrate, Settle, DropIntent, Resume, Discard, DiscardRest,
       DiscardIntent, FinishRename, CleanUp, Ambiguous, PlanMigration, MakeStaged, MarkStaged,
       CopyEntries, Rewrite, Conclude, PublishBackup, PublishMigrated, RemoveMarker,
       RemovePending, MigratorDies
<1>2. NewPending(proc[p].run).token = clock + 1
  BY DEF NewPending
<1>3. DOMAIN pending = Runs /\ ~IsRecord(Nothing) /\ ~IsRecord(Torn)
  BY Absence DEF MInv, TypeOK
<1> DEFINE it == NewPending(proc[p].run)
<1> HIDE DEF it
<1>4. CASE pending' = [pending EXCEPT ![proc[p].run] = it]
  BY <1>2, <1>3, <1>4 DEF it
<1> QED BY <1>1, <1>3, <1>4 DEF it

\* Only a migration that has published its intent is where it says so.
LEMMA MigratorPlans ==
  ASSUME MInv, NEW p \in Migrators, MigratorActs(p), proc'[p].at = "intended"
  PROVE  pending'[proc'[p].run].token = clock + 1
<1>0. TypeOK /\ p \in Processes /\ DOMAIN proc = Processes
  BY Partners DEF MInv, TypeOK
<1>1. ~Ends(p)
  <2> SUFFICES ASSUME Ends(p) PROVE FALSE
    OBVIOUS
  <2>1. proc'[p] = idle
    BY <1>0, Ending
  <2> QED BY <2>1 DEF idle
<1>2. ~\E r \in Runs : Migrate(p, r)
  BY <1>0 DEF Migrate
<1>3. ASSUME NEW place \in MigratorPlaces, proc[p] # idle, Goes(p, place) PROVE place = "intended"
  BY <1>0, <1>3, Going
<1>4. At(p, "intended") => proc[p] # idle
  BY DEF At, idle
<1>5. CASE PlanMigration(p)
  <2>1. proc[p] # idle /\ proc[p].run \in Runs
    BY <1>5, AtPlace DEF PlanMigration
  <2>2. /\ pending' = [pending EXCEPT ![proc[p].run] = NewPending(proc[p].run)]
        /\ Goes(p, "intended")
    BY <1>1, <1>5 DEF PlanMigration
  <2>3. proc'[p].run = proc[p].run
    BY <1>0, <2>1, <2>2, Going DEF MigratorPlaces, EarlyPlaces
  <2>4. NewPending(proc[p].run).token = clock + 1
    BY DEF NewPending
  <2>5. DOMAIN pending = Runs
    BY <1>0 DEF TypeOK
  <2> QED BY <2>1, <2>2, <2>3, <2>4, <2>5
<1>6. CASE CopyEntries(p)
  <2>1. proc[p] # idle /\ proc[p].at = "marked"
    BY <1>6, AtPlace DEF CopyEntries
  <2>2. proc' = proc \/ Goes(p, "copied")
    BY <1>6 DEF CopyEntries
  <2>3. "copied" \in MigratorPlaces
    BY DEF MigratorPlaces, EarlyPlaces
  <2> QED BY <1>3, <2>1, <2>2, <2>3
<1>7. CASE \/ Settle(p) \/ DropIntent(p) \/ Resume(p) \/ Discard(p) \/ DiscardRest(p) \/ DiscardIntent(p)
           \/ FinishRename(p) \/ CleanUp(p) \/ Ambiguous(p) \/ MakeStaged(p) \/ MarkStaged(p)
           \/ Rewrite(p) \/ Conclude(p) \/ PublishBackup(p) \/ PublishMigrated(p) \/ RemoveMarker(p)
           \/ RemovePending(p) \/ MigratorDies(p)
  <2>1. PICK place \in MigratorPlaces \ {"intended"} : Goes(p, place)
    BY <1>1, <1>7 DEF MigratorPlaces, EarlyPlaces, LatePlaces, Settle, DropIntent, Resume, Discard,
         DiscardRest, DiscardIntent, FinishRename, CleanUp, Ambiguous, MakeStaged, MarkStaged,
         Rewrite, Conclude, PublishBackup, PublishMigrated, RemoveMarker, RemovePending, MigratorDies
  <2>2. proc[p].at # "idle"
    BY <1>1, <1>7 DEF At, Settle, DropIntent, Resume, Discard,
         DiscardRest, DiscardIntent, FinishRename, CleanUp, Ambiguous, MakeStaged, MarkStaged,
         Rewrite, Conclude, PublishBackup, PublishMigrated, RemoveMarker, RemovePending, MigratorDies
  <2> QED BY <1>3, <2>1, <2>2, NotIdle
<1> QED BY <1>2, <1>5, <1>6, <1>7 DEF MigratorActs

LEMMA MigratingIsOutside ==
  ASSUME MInv, Migrating
  PROVE  OutsideStep
<1>1. PICK p \in Migrators : MigratorActs(p)
  BY DEF Migrating, MigratorActs
<1>2. MInv' /\ \A q \in Processes : q # p => proc'[q] = proc[q]
  BY <1>1, MigratorActsKeep DEF MigratorStep
<1>3. KeepsTokens
  <2> SUFFICES ASSUME NEW q \in Migrators, proc'[q].at = "intended"
               PROVE  Token(q)' = clock + 1 \/ (proc[q].at = "intended" /\ Token(q)' = Token(q))
    BY DEF KeepsTokens
  <2>1. CASE q = p
    BY <1>1, <2>1, MigratorPlans DEF Token
  <2>2. CASE q # p
    <3>1. proc'[q] = proc[q] /\ proc[q] # idle /\ proc[q].run \in Runs
      BY <1>2, <2>2, Partners, Under DEF MInv
    <3>2. IsRecord(pending'[proc[q].run])
      <4>1. CopiesRun(q, proc[q].run)'
        BY <1>2, <3>1 DEF MInv, MigratorsStand
      <4> QED BY <3>1, <4>1 DEF CopiesRun, Bound, IsRecord, There, IsTorn
    <3> QED BY <1>1, <3>1, <3>2, MigratorPendings DEF Token
  <2> QED BY <2>1, <2>2
<1>4. \A q \in Purgers : q \in Processes /\ q # p
  BY Partners
<1> QED BY <1>1, <1>2, <1>3, <1>4, MigratorLeavesPurges, MigratorTouches DEF OutsideStep

-----------------------------------------------------------------------------
(* What the purges rely on stands through the steps of the others.         *)

LEMMA BindsStill ==
  ASSUME MInv, OutsideStep, NEW it, it.selected \subseteq Tree, BindsOne(it)
  PROVE  BindsOne(it)'
<1>1. PICK r \in Runs : Touches(r)
  BY DEF OutsideStep
<1>2. clock \in Nat /\ clock' \in Nat /\ clock <= clock'
  BY Clocks DEF MInv, TypeOK, OutsideStep
<1> SUFFICES ASSUME NEW t \in it.selected
             PROVE  /\ t.ino <= clock'
                    /\ There(staged'[t.run]) => staged'[t.run].ino # t.ino
                    /\ \A p \in Migrators : proc'[p].at = "intended" => Token(p)' # t.ino
                    /\ There(source'[t.run]) /\ source'[t.run].ino = t.ino =>
                         source'[t.run].legacy = t.legacy
  BY DEF BindsOne, There
<1>3. t.run \in Runs /\ t.ino \in Int
  BY DEF Tree
<1>4. /\ t.ino <= clock
      /\ There(staged[t.run]) => staged[t.run].ino # t.ino
      /\ \A p \in Migrators : proc[p].at = "intended" => Token(p) # t.ino
      /\ There(source[t.run]) /\ source[t.run].ino = t.ino => source[t.run].legacy = t.legacy
  BY DEF BindsOne
<1>5. t.ino <= clock' /\ t.ino # clock + 1
  BY <1>2, <1>3, <1>4
<1>6. There(staged'[t.run]) => staged'[t.run].ino # t.ino
  BY <1>1, <1>3, <1>4 DEF Touches, There
<1>7. \A p \in Migrators : proc'[p].at = "intended" => Token(p)' # t.ino
  BY <1>4, <1>5 DEF OutsideStep, KeepsTokens
<1>8. There(source'[t.run]) /\ source'[t.run].ino = t.ino => source'[t.run].legacy = t.legacy
  <2>1. NewTree(t.run, clock + 1).ino = clock + 1
    BY DEF NewTree
  <2> QED BY <1>1, <1>3, <1>4, <1>5, <2>1 DEF Touches, There
<1> QED BY <1>5, <1>6, <1>7, <1>8

LEMMA GoneStill ==
  ASSUME MInv, OutsideStep, NEW it, it.selected \subseteq Tree, BindsOne(it), IsGone(it)
  PROVE  IsGone(it)'
<1>1. PICK r \in Runs : Touches(r)
  BY DEF OutsideStep
<1>2. clock \in Nat
  BY Clocks DEF MInv, TypeOK
<1> SUFFICES ASSUME NEW t \in it.selected, There(source'[t.run]) PROVE source'[t.run].ino # t.ino
  BY DEF IsGone, There
<1>3. t.run \in Runs /\ t.ino \in Int /\ t.ino <= clock
  BY DEF Tree, BindsOne
<1>4. /\ There(staged[t.run]) => staged[t.run].ino # t.ino
      /\ There(source[t.run]) => source[t.run].ino # t.ino
  BY DEF BindsOne, IsGone
<1>5. NewTree(t.run, clock + 1).ino = clock + 1 /\ t.ino # clock + 1
  BY <1>2, <1>3 DEF NewTree
<1> QED BY <1>1, <1>3, <1>4, <1>5 DEF Touches, There

LEMMA EditsStill ==
  ASSUME MInv, OutsideStep, EditsAreApart
  PROVE  EditsAreApart'
<1>1. PICK r \in Runs : Touches(r)
  BY DEF OutsideStep
<1>2. clock \in Nat /\ clock' \in Nat /\ clock <= clock'
  BY Clocks DEF MInv, TypeOK, OutsideStep
<1>3. \A s \in Runs : \A x \in {source[s], staged[s]} : There(x) => x.edit \in Int /\ x.edit <= clock /\ x.run = s
  <2> SUFFICES ASSUME NEW s \in Runs, NEW x \in {source[s], staged[s]}, There(x)
               PROVE  x.edit \in Int /\ x.edit <= clock /\ x.run = s
    OBVIOUS
  <2>1. x \in Tree
    BY Trees DEF MInv
  <2> QED BY <2>1 DEF Tree, EditsAreApart
<1>4. NewTree(r, clock + 1).run = r /\ NewTree(r, clock + 1).edit = clock + 1
  BY DEF NewTree
<1>5. ASSUME NEW x \in {source'[r], staged'[r]}, There(x)
      PROVE  /\ x.run = r
             /\ \/ x.edit = clock + 1 /\ clock' = clock + 1
                \/ \E y \in {source[r], staged[r]} : There(y) /\ x.edit = y.edit
  <2>1. CASE x = source'[r]
    <3>1. \/ There(staged[r]) /\ source'[r] = staged[r]
          \/ /\ There(source[r]) /\ source'[r].run = source[r].run
             /\ source'[r].edit = source[r].edit \/ (source'[r].edit = clock + 1 /\ clock' = clock + 1)
          \/ source'[r] = NewTree(r, clock + 1) /\ clock' = clock + 1
      BY <1>1, <1>5, <2>1 DEF Touches, There
    <3> QED BY <1>3, <1>4, <2>1, <3>1
  <2>2. CASE x = staged'[r]
    <3>1. \/ There(staged[r]) /\ staged'[r].run = staged[r].run /\ staged'[r].edit = staged[r].edit
          \/ There(source[r]) /\ staged'[r].run = source[r].run /\ staged'[r].edit = source[r].edit
      BY <1>1, <1>5, <2>2 DEF Touches, There
    <3> QED BY <1>3, <2>2, <3>1
  <2> QED BY <1>5, <2>1, <2>2
<1>6. \A s \in Runs : s # r => source'[s] = source[s] /\ staged'[s] = staged[s]
  BY <1>1 DEF Touches
<1>7. ASSUME NEW s \in Runs, NEW x \in {source'[s], staged'[s]}, There(x)
      PROVE  x.run = s /\ x.edit <= clock'
  <2>1. CASE s # r
    <3>1. x \in {source[s], staged[s]}
      BY <1>6, <1>7, <2>1
    <3>2. x.run = s /\ x.edit \in Int /\ x.edit <= clock
      BY <1>3, <1>7, <3>1
    <3> QED BY <1>2, <3>2
  <2>2. CASE s = r
    <3>1. x.run = r
      BY <1>5, <1>7, <2>2
    <3>2. CASE x.edit = clock + 1 /\ clock' = clock + 1
      BY <1>2, <2>2, <3>1, <3>2
    <3>3. ASSUME NEW y \in {source[r], staged[r]}, There(y), x.edit = y.edit
          PROVE  x.run = s /\ x.edit <= clock'
      <4>1. y.edit \in Int /\ y.edit <= clock
        BY <1>3, <3>3
      <4> QED BY <1>2, <2>2, <3>1, <3>3, <4>1
    <3> QED BY <1>5, <1>7, <2>2, <3>2, <3>3
  <2> QED BY <2>1, <2>2
<1>8. ASSUME NEW s \in Runs, s # r, NEW x \in {source'[r], staged'[r]}, NEW y \in {source'[s], staged'[s]},
             There(x), There(y)
      PROVE  x.edit # y.edit
  <2>1. y \in {source[s], staged[s]}
    BY <1>6, <1>8
  <2>2. y.edit \in Int /\ y.edit <= clock
    BY <1>3, <1>8, <2>1
  <2>3. CASE x.edit = clock + 1
    BY <1>2, <2>2, <2>3
  <2>4. CASE \E z \in {source[r], staged[r]} : There(z) /\ x.edit = z.edit
    BY <1>8, <2>1, <2>4 DEF EditsAreApart
  <2> QED BY <1>5, <1>8, <2>3, <2>4
<1>9. ASSUME NEW s \in Runs, NEW t \in Runs, s # t, NEW x \in {source'[s], staged'[s]},
             NEW y \in {source'[t], staged'[t]}, There(x), There(y)
      PROVE  x.edit # y.edit
  <2>1. CASE s = r
    BY <1>8, <1>9, <2>1
  <2>2. CASE t = r
    BY <1>8, <1>9, <2>2
  <2>3. CASE s # r /\ t # r
    <3>1. x \in {source[s], staged[s]} /\ y \in {source[t], staged[t]}
      BY <1>6, <1>9, <2>3
    <3> QED BY <1>9, <3>1 DEF EditsAreApart
  <2> QED BY <2>1, <2>2, <2>3
<1> QED BY <1>7, <1>9 DEF EditsAreApart, There

\* The batches are intents, and bind trees.
LEMMA BatchesAre ==
  ASSUME PurgeTypes
  PROVE  /\ \A it \in Batches : it \in Intents /\ it.selected \subseteq Tree
         /\ Finished \subseteq Batches
<1>1. \A it \in Intents : it.selected \subseteq Tree
  BY DEF Intents
<1>2. IsRecord(intent) => intent \in Intents
  BY DEF PurgeTypes, IsRecord, There, IsTorn
<1>3. There(result) => result.intent \in Intents
  BY DEF PurgeTypes, There, Reports
<1>4. \A p \in Purgers : proc[p] # idle => proc[p].it \in Intents
  BY DEF PurgeTypes, PurgerStates, idle
<1>5. \A p \in Purgers : proc[p].at \in {"audited", "written"} => proc[p] # idle
  BY DEF idle
<1> QED BY <1>1, <1>2, <1>3, <1>4, <1>5 DEF Batches, Finished

LEMMA OutsideStands ==
  ASSUME MInv, PInv, OutsideStep
  PROVE  PInv'
<1>1. /\ tombs' = tombs /\ intent' = intent /\ result' = result /\ temp' = temp /\ chain' = chain
      /\ \A p \in Purgers : proc'[p] = proc[p]
  BY DEF OutsideStep
<1>2. PurgeTypes'
  BY <1>1 DEF PInv, PurgeTypes
<1>3. EditsAreApart'
  BY EditsStill DEF PInv
<1>4. BatchesStand'
  <2>1. Batches' = Batches /\ Finished' = Finished
    BY <1>1 DEF Batches, Finished, IsRecord, There, IsTorn
  <2>2. \A it \in Batches : BindsOne(it)'
    BY BatchesAre, BindsStill DEF PInv, BatchesStand
  <2>3. \A it \in Finished : IsGone(it)'
    BY BatchesAre, GoneStill DEF PInv, BatchesStand
  <2> QED BY <2>1, <2>2, <2>3 DEF BatchesStand
<1>5. ControlStands'
  BY <1>1 DEF PInv, ControlStands, There, IsRecord, IsTorn, EditsOf, EditsIn
<1>6. \A p \in Purgers : PurgerStands(p)'
  BY <1>1 DEF PInv, PurgerStands, There, EditsOf
<1>7. PurgeIsAccountable'
  BY <1>1 DEF PInv, PurgeIsAccountable, TombstonesAreBound, DeletionsAreAudited, IsRecord, There, IsTorn
<1> QED BY <1>2, <1>3, <1>4, <1>5, <1>6, <1>7 DEF PInv

-----------------------------------------------------------------------------
(* What a purge writes.                                                    *)

LEMMA SummaryIs ==
  ASSUME NEW t \in Tree
  PROVE  Summary(t) \in Summaries /\ Summary(t).edit = t.edit
BY DEF Summary, Summaries, Tree

LEMMA SnapshotIs ==
  ASSUME TypeOK
  PROVE  Snapshot \in Snapshots
<1> DEFINE Rs == {<<Summary(source[r]), Protection(r)>> : r \in Managed}
           Ts == {TombstoneName(t) : t \in tombs}
<1>1. Rs \in SUBSET (Summaries \X {"active", "migration evidence", "locked", "eligible"})
  <2> SUFFICES ASSUME NEW r \in Managed
               PROVE  <<Summary(source[r]), Protection(r)>> \in
                        Summaries \X {"active", "migration evidence", "locked", "eligible"}
    OBVIOUS
  <2>1. Summary(source[r]) \in Summaries
    BY Trees, SummaryIs DEF Managed
  <2>2. Protection(r) \in {"active", "migration evidence", "locked", "eligible"}
    BY DEF Protection
  <2> QED BY <2>1, <2>2
<1>2. Excluded \in SUBSET ({"staged", "backup", "intent"} \X Runs)
  BY DEF Excluded
<1>3. Ts \in SUBSET (Summaries \X Int)
  <2> SUFFICES ASSUME NEW t \in tombs PROVE TombstoneName(t) \in Summaries \X Int
    OBVIOUS
  <2>1. t \in Tree /\ t.ino \in Int
    BY DEF TypeOK, Tree
  <2> QED BY <2>1, SummaryIs DEF TombstoneName
<1> HIDE DEF Rs, Ts
<1>4. ControlState \in Controls
  <2>1. There(intent) \in BOOLEAN /\ There(result) \in BOOLEAN /\ There(temp) \in BOOLEAN
    BY DEF There
  <2>2. ControlState = [intent |-> There(intent), result |-> There(result), temp |-> There(temp), tombs |-> Ts]
    BY DEF ControlState, Ts
  <2> QED BY <1>3, <2>1, <2>2 DEF Controls
<1>5. Snapshot = [runs |-> Rs, excluded |-> Excluded, control |-> ControlState]
  BY DEF Snapshot, Rs
<1> QED BY <1>1, <1>2, <1>4, <1>5 DEF Snapshots

LEMMA NewIntentIs ==
  ASSUME TypeOK, NEW budget \in Budgets, NEW prior \in Reports \cup {Nothing}
  PROVE  NewIntent(budget, Snapshot, Selection(budget), prior) \in Intents
<1>1. PriorDigest(prior) \in (Budgets \X Seq(Summaries) \X Snapshots) \cup {Nothing}
  BY DEF PriorDigest, AuditDigest, Reports, There
<1>2. Selection(budget) \in SUBSET Tree
  BY SelectsTrees
<1> QED BY <1>1, <1>2, SnapshotIs DEF NewIntent, Intents

\* A sequence after another keeps the elements of both.
LEMMA Joined ==
  ASSUME NEW S, NEW a \in Seq(S), NEW b \in Seq(S)
  PROVE  /\ a \o b \in Seq(S)
         /\ \A i \in DOMAIN a : i \in DOMAIN (a \o b) /\ (a \o b)[i] = a[i]
         /\ \A i \in DOMAIN b : Len(a) + i \in DOMAIN (a \o b) /\ (a \o b)[Len(a) + i] = b[i]
OBVIOUS

\* The cumulative deletions: those of the prior result, and the run of this batch.
LEMMA DeletedIs ==
  ASSUME PurgeTypes, NEW it \in Intents, PriorIsThere(it), \A t, u \in it.selected : t = u
  PROVE  /\ Deleted(it) \in Seq(Summaries)
         /\ EditsIn(it) \subseteq EditsOf(Deleted(it))
         /\ There(it.prior) => There(result) /\ EditsOf(result.deleted) \subseteq EditsOf(Deleted(it))
<1> DEFINE a == IF There(it.prior) THEN result.deleted ELSE <<>>
           b == IF it.selected = {} THEN <<>> ELSE <<Summary(CHOOSE t \in it.selected : TRUE)>>
<1>1. There(it.prior) => There(result) /\ result \in Reports
  BY DEF PriorIsThere, PurgeTypes, There
<1>2. a \in Seq(Summaries)
  BY <1>1 DEF Reports
<1>3. it.selected \subseteq Tree
  BY DEF Intents
<1>4. it.selected # {} => b = <<Summary(CHOOSE t \in it.selected : TRUE)>> /\ (CHOOSE t \in it.selected : TRUE) \in it.selected
  OBVIOUS
<1>5. b \in Seq(Summaries) /\ \A t \in it.selected : DOMAIN b = {1} /\ b[1].edit = t.edit
  <2>1. CASE it.selected = {}
    BY <2>1
  <2>2. CASE it.selected # {}
    <3>1. PICK t \in it.selected : b = <<Summary(t)>>
      BY <1>4, <2>2
    <3>2. Summary(t) \in Summaries /\ Summary(t).edit = t.edit
      BY <1>3, <3>1, SummaryIs
    <3> QED BY <3>1, <3>2
  <2> QED BY <2>1, <2>2
<1>6. Deleted(it) = a \o b
  BY DEF Deleted
<1> HIDE DEF a, b
<1>7. /\ a \o b \in Seq(Summaries)
      /\ \A i \in DOMAIN a : i \in DOMAIN (a \o b) /\ (a \o b)[i] = a[i]
      /\ \A i \in DOMAIN b : Len(a) + i \in DOMAIN (a \o b) /\ (a \o b)[Len(a) + i] = b[i]
  BY <1>2, <1>5, Joined
<1>8. \A t \in it.selected : \E i \in DOMAIN Deleted(it) : Deleted(it)[i].edit = t.edit
  <2> SUFFICES ASSUME NEW t \in it.selected
               PROVE  \E i \in DOMAIN Deleted(it) : Deleted(it)[i].edit = t.edit
    OBVIOUS
  <2>1. 1 \in DOMAIN b /\ b[1].edit = t.edit
    BY <1>5
  <2>2. Len(a) + 1 \in DOMAIN (a \o b) /\ (a \o b)[Len(a) + 1] = b[1]
    BY <1>7, <2>1
  <2> QED BY <1>6, <2>1, <2>2
<1>9. EditsIn(it) \subseteq EditsOf(Deleted(it))
  BY <1>8 DEF EditsIn, EditsOf
<1>10. ASSUME There(it.prior) PROVE EditsOf(result.deleted) \subseteq EditsOf(Deleted(it))
  <2>1. a = result.deleted
    BY <1>10 DEF a
  <2> QED BY <1>6, <1>7, <2>1 DEF EditsOf
<1> QED BY <1>1, <1>6, <1>7, <1>9, <1>10

LEMMA ReportIs ==
  ASSUME TypeOK, PurgeTypes, NEW it \in Intents, PriorIsThere(it), \A t, u \in it.selected : t = u
  PROVE  /\ Report(it) \in Reports /\ Report(it).intent = it
         /\ Report(it).deleted = Deleted(it)
<1>1. Deleted(it) \in Seq(Summaries)
  BY DeletedIs
<1>2. PICK no \in BOOLEAN, yes \in BOOLEAN : no = FALSE /\ yes = TRUE
  OBVIOUS
<1>3. ConvergedControlState = [intent |-> no, result |-> yes, temp |-> no, tombs |-> {}]
  BY <1>2 DEF ConvergedControlState
<1>4. ConvergedControlState \in Controls
  BY <1>2, <1>3 DEF Controls
<1> DEFINE view == [Snapshot EXCEPT !.control = ConvergedControlState]
           more == ManagedBytes > it.budget /\ Surplus(it.budget) # {}
<1>5. view \in Snapshots
  BY <1>4, SnapshotIs DEF Snapshots
<1>6. more \in BOOLEAN /\ it.budget \in Budgets
  BY DEF Intents
<1>7. Report(it) = [budget |-> it.budget, intent |-> it, deleted |-> Deleted(it), converged |-> view, more |-> more]
  BY DEF Report
<1> HIDE DEF view, more
<1> QED BY <1>1, <1>5, <1>6, <1>7 DEF Reports

-----------------------------------------------------------------------------
(* The steps of the only purger that move no directory.                    *)

LEMMA PurgerPlaces ==
  ASSUME TypeOK, PurgeTypes, NEW p \in Purgers
  PROVE  /\ p \in Processes /\ DOMAIN proc = Processes
         /\ \A q \in Migrators : q \in Processes /\ q # p
         /\ proc[p] # idle => proc[p].it \in Intents
         /\ proc[p].at \in BatchPlaces => proc[p] \in [at : BatchPlaces, it : Intents]
         /\ proc[p].at \in ReportPlaces => proc[p] \in [at : ReportPlaces, it : Intents, report : Reports]
BY Partners DEF PurgeTypes, PurgerStates, TypeOK, idle, BatchPlaces, ReportPlaces

\* A purger goes on with its batch.
LEMMA PurgerGoesOn ==
  ASSUME TypeOK, PurgeTypes, NEW p \in Purgers, NEW place, Goes(p, place),
         \/ proc[p].at \in BatchPlaces /\ place \in BatchPlaces
         \/ proc[p].at \in ReportPlaces /\ place \in ReportPlaces
  PROVE  /\ \A q \in Processes : q # p => proc'[q] = proc[q]
         /\ proc'[p] \in PurgerStates /\ proc'[p].at = place /\ proc'[p].it = proc[p].it
         /\ place \in ReportPlaces => proc'[p].report = proc[p].report
         /\ proc[p] # idle /\ proc'[p] # idle
<1>1. p \in Processes /\ DOMAIN proc = Processes
  BY PurgerPlaces
<1>2. proc' = [proc EXCEPT ![p] = [proc[p] EXCEPT !.at = place]]
  BY DEF Goes
<1>3. proc'[p] = [proc[p] EXCEPT !.at = place] /\ \A q \in Processes : q # p => proc'[q] = proc[q]
  BY <1>1, <1>2
<1>4. CASE proc[p].at \in BatchPlaces /\ place \in BatchPlaces
  <2>1. proc[p] \in [at : BatchPlaces, it : Intents]
    BY <1>4, PurgerPlaces
  <2>2. proc'[p] \in [at : BatchPlaces, it : Intents] /\ proc'[p].at = place /\ proc'[p].it = proc[p].it
    BY <1>3, <1>4, <2>1
  <2>3. place \notin ReportPlaces /\ place # "idle" /\ proc[p].at # "idle"
    BY <1>4 DEF BatchPlaces, ReportPlaces
  <2> QED BY <1>3, <2>2, <2>3 DEF PurgerStates, idle
<1>5. CASE proc[p].at \in ReportPlaces /\ place \in ReportPlaces
  <2>1. proc[p] \in [at : ReportPlaces, it : Intents, report : Reports]
    BY <1>5, PurgerPlaces
  <2>2. /\ proc'[p] \in [at : ReportPlaces, it : Intents, report : Reports]
        /\ proc'[p].at = place /\ proc'[p].it = proc[p].it /\ proc'[p].report = proc[p].report
    BY <1>3, <1>5, <2>1
  <2>3. place # "idle" /\ proc[p].at # "idle"
    BY <1>5 DEF ReportPlaces
  <2> QED BY <1>3, <2>2, <2>3 DEF PurgerStates, idle
<1> QED BY <1>4, <1>5

\* A step of a purge that leaves the trees, the intents of the migrations and where they are.
TreesStay ==
  /\ source' = source /\ staged' = staged /\ pending' = pending /\ clock' = clock
  /\ \A q \in Migrators : proc'[q] = proc[q]

\* What such a step has to show.
LEMMA PurgerStep ==
  ASSUME PInv, OnePurger, NEW p \in Purgers, TreesStay,
         PurgeTypes', ControlStands', PurgerStands(p)', PurgeIsAccountable',
         \A it \in Batches' : it \in Batches \/ BindsOne(it),
         \A it \in Finished' : it \in Finished \/ IsGone(it)
  PROVE  PInv'
<1>1. ASSUME NEW it, BindsOne(it) PROVE BindsOne(it)'
  BY <1>1 DEF TreesStay, BindsOne, There, Token
<1>2. ASSUME NEW it, IsGone(it) PROVE IsGone(it)'
  BY <1>2 DEF TreesStay, IsGone, There
<1>3. EditsAreApart'
  BY DEF PInv, EditsAreApart, TreesStay, There
<1>4. BatchesStand'
  BY <1>1, <1>2 DEF PInv, BatchesStand
<1>5. \A q \in Purgers : PurgerStands(q)'
  BY DEF OnePurger
<1> QED BY <1>3, <1>4, <1>5 DEF PInv

\* The control files as they are.
ControlStays ==
  /\ tombs' = tombs /\ intent' = intent /\ result' = result /\ temp' = temp /\ chain' = chain

LEMMA ControlStaysSo ==
  ASSUME PInv, ControlStays
  PROVE  ControlStands' /\ PurgeIsAccountable'
<1>1. ControlStands'
  BY DEF ControlStays, PInv, ControlStands, There, IsRecord, IsTorn, EditsOf, EditsIn
<1>2. PurgeIsAccountable'
  BY DEF ControlStays, PInv, PurgeIsAccountable, TombstonesAreBound, DeletionsAreAudited, IsRecord,
         There, IsTorn
<1> QED BY <1>1, <1>2

\* Without a readable intent nothing is a tombstone, and the result names the chain.
LEMMA Unbound ==
  ASSUME PInv, ~IsRecord(intent)
  PROVE  tombs = {} /\ chain \subseteq (IF There(result) THEN EditsOf(result.deleted) ELSE {})
BY DEF PInv, PurgeIsAccountable, TombstonesAreBound, DeletionsAreAudited, EditsOf

\* A purger ends, or dies with a control file created and not written.
LEMMA PurgerEnds ==
  ASSUME MInv, PInv, OnePurger, NEW p \in Purgers, Ends(p),
         source' = source, staged' = staged, pending' = pending, clock' = clock,
         tombs' = tombs, result' = result, chain' = chain,
         intent' = intent \/ (~There(intent) /\ intent' = Torn),
         temp' = temp \/ temp' = Torn
  PROVE  PInv'
<1>1. TypeOK /\ PurgeTypes
  BY DEF MInv, PInv
<1>2. p \in Processes /\ DOMAIN proc = Processes /\ \A q \in Migrators : q \in Processes /\ q # p
  BY <1>1, PurgerPlaces
<1>3. proc'[p] = idle /\ \A q \in Processes : q # p => proc'[q] = proc[q]
  BY <1>1, <1>2, Ending
<1>4. TreesStay
  BY <1>2, <1>3 DEF TreesStay
<1>5. PurgeTypes'
  <2>1. \A q \in Purgers : proc'[q] \in PurgerStates
    BY <1>3 DEF OnePurger, PurgerStates, idle
  <2>2. intent' \in Intents \cup {Nothing, Torn} /\ result' \in Reports \cup {Nothing}
        /\ temp' \in Reports \cup {Nothing, Torn}
    BY <1>1 DEF PurgeTypes
  <2> QED BY <2>1, <2>2 DEF PurgeTypes
<1>6. PurgerStands(p)'
  BY <1>3 DEF PurgerStands, idle
<1>7. /\ \A it \in Batches' : it \in Batches
      /\ \A it \in Finished' : it \in Finished
  <2>1. \A q \in Purgers : proc'[q] = idle
    BY <1>3 DEF OnePurger
  <2>2. IsRecord(intent') => intent' = intent /\ IsRecord(intent)
    BY DEF IsRecord, There, IsTorn
  <2> QED BY <2>1, <2>2 DEF Batches, Finished, There, IsRecord, IsTorn, idle
<1>8. ControlStands' /\ PurgeIsAccountable'
  <2>1. CASE intent' = intent
    <3>1. ControlStands'
      BY <2>1 DEF PInv, ControlStands, There, IsRecord, IsTorn, EditsOf, EditsIn
    <3>2. PurgeIsAccountable'
      BY <2>1 DEF PInv, PurgeIsAccountable, TombstonesAreBound, DeletionsAreAudited, IsRecord,
                  There, IsTorn
    <3> QED BY <3>1, <3>2
  <2>2. CASE ~There(intent) /\ intent' = Torn
    <3>1. tombs = {} /\ chain \subseteq (IF There(result) THEN EditsOf(result.deleted) ELSE {})
      BY <2>2, Unbound DEF IsRecord
    <3>2. ControlStands'
      BY <2>2, <3>1 DEF ControlStands, There, IsRecord, IsTorn, EditsOf
    <3>3. PurgeIsAccountable'
      BY <2>2, <3>1 DEF PurgeIsAccountable, TombstonesAreBound, DeletionsAreAudited, There, EditsOf
    <3> QED BY <3>2, <3>3
  <2> QED BY <2>1, <2>2
<1> QED BY <1>4, <1>5, <1>6, <1>7, <1>8, PurgerStep

\* An inventory selects at most one run: the oldest that is eligible.
LEMMA SelectsOne ==
  ASSUME MInv, EditsAreApart, NEW budget, NEW prior
  PROVE  BindsOne(NewIntent(budget, Snapshot, Selection(budget), prior))
<1> DEFINE it == NewIntent(budget, Snapshot, Selection(budget), prior)
<1>1. it.selected = Selection(budget)
  BY DEF NewIntent
<1>2. ASSUME NEW t \in it.selected
      PROVE  \E r \in Runs : /\ r \in Eligible /\ Older(r) = {} /\ t = source[r] /\ There(source[r])
                             /\ t.run = r /\ t \in Tree /\ t.done /\ t.from = 0
  <2>1. PICK r \in Eligible : Older(r) = {} /\ t = source[r]
    BY <1>1, <1>2 DEF Selection, Surplus
  <2>2. r \in Runs /\ There(source[r]) /\ Protection(r) = "eligible"
    BY <2>1 DEF Eligible, Managed
  <2>3. t \in Tree /\ t.run = r
    BY <2>1, <2>2, Trees DEF MInv, EditsAreApart
  <2>4. t.done /\ t.from = 0
    BY <2>1, <2>2 DEF Protection
  <2> QED BY <2>1, <2>2, <2>3, <2>4
<1> HIDE DEF it
<1>3. ASSUME NEW t \in it.selected, NEW u \in it.selected PROVE t = u
  <2>1. PICK r \in Runs : r \in Eligible /\ Older(r) = {} /\ t = source[r] /\ There(source[r]) /\ t \in Tree
    BY <1>2
  <2>2. PICK s \in Runs : s \in Eligible /\ Older(s) = {} /\ u = source[s] /\ There(source[s]) /\ u \in Tree
    BY <1>2
  <2>3. t.edit \in Int /\ u.edit \in Int
    BY <2>1, <2>2 DEF Tree
  <2>4. ~(t.edit < u.edit) /\ ~(u.edit < t.edit)
    BY <2>1, <2>2 DEF Older
  <2>5. t.edit = u.edit
    BY <2>3, <2>4
  <2> QED BY <2>1, <2>2, <2>5 DEF EditsAreApart
<1>4. ASSUME NEW t \in it.selected
      PROVE  /\ t.done /\ t.from = 0 /\ t.parts = Parts /\ t.ino <= clock
             /\ There(staged[t.run]) => staged[t.run].ino # t.ino
             /\ \A p \in Migrators : proc[p].at = "intended" => Token(p) # t.ino
             /\ There(source[t.run]) /\ source[t.run].ino = t.ino => source[t.run].legacy = t.legacy
  <2>1. PICK r \in Runs : t = source[r] /\ There(source[r]) /\ t.run = r /\ t \in Tree /\ t.done /\ t.from = 0
    BY <1>2
  <2>2. t.ino \in Settled
    BY <2>1, SettledAre
  <2>3. t.parts = Parts /\ t.ino <= clock
    BY <2>1, <2>2 DEF MInv, RunsAreWhole
  <2>4. There(staged[r]) => staged[r].ino # t.ino
    BY <2>2 DEF MInv, CopiesAreApart
  <2>5. \A p \in Migrators : proc[p].at = "intended" => Token(p) # t.ino
    BY <2>2 DEF MInv, CopiesAreApart
  <2> QED BY <2>1, <2>3, <2>4, <2>5
<1>5. BindsOne(it)
  BY <1>3, <1>4 DEF BindsOne
<1> QED BY <1>5 DEF it

\* The only purger goes on and keeps its batch; the batches are as they were.
LEMMA SameBatches ==
  ASSUME OnePurger, NEW p \in Purgers, proc[p] # idle, proc'[p].it = proc[p].it,
         result' = result, IsRecord(intent') => intent' = intent \/ intent' = proc[p].it,
         proc'[p].at \in {"audited", "written"} => proc[p].at \in {"audited", "written"}
  PROVE  /\ \A it \in Batches' : it \in Batches
         /\ \A it \in Finished' : it \in Finished
<1>1. \A q \in Purgers : q = p
  BY DEF OnePurger
<1>2. intent' = intent => (IsRecord(intent') <=> IsRecord(intent))
  BY DEF IsRecord, There, IsTorn
<1> QED BY <1>1, <1>2 DEF Batches, Finished, There

LEMMA PlansStand ==
  ASSUME MInv, PInv, OnePurger, NEW p \in Purgers, NEW budget \in Budgets,
         NEW prior \in Reports \cup {Nothing}, Plans(p, budget, prior),
         source' = source, staged' = staged, pending' = pending, clock' = clock, ControlStays
  PROVE  PInv'
<1>1. TypeOK /\ PurgeTypes /\ p \in Processes /\ DOMAIN proc = Processes
      /\ \A q \in Migrators : q \in Processes /\ q # p
  BY PurgerPlaces DEF MInv, PInv
<1>2. CASE ~RootIsClean
  BY <1>2, PurgerEnds DEF Plans, ControlStays
<1>3. CASE RootIsClean
  <2> DEFINE it == NewIntent(budget, Snapshot, Selection(budget), prior)
  <2>1. proc' = [proc EXCEPT ![p] = [at |-> "planned", it |-> it]]
    BY <1>3 DEF Plans
  <2>2. it \in Intents
    BY <1>1, NewIntentIs
  <2>3. BindsOne(it)
    BY SelectsOne DEF PInv
  <2> HIDE DEF it
  <2>4. /\ proc'[p] = [at |-> "planned", it |-> it] /\ \A q \in Processes : q # p => proc'[q] = proc[q]
    BY <1>1, <2>1
  <2>5. TreesStay
    BY <1>1, <2>4 DEF TreesStay
  <2>6. proc'[p] \in PurgerStates
    BY <2>2, <2>4 DEF PurgerStates, BatchPlaces
  <2>7. PurgeTypes'
    BY <1>1, <2>6 DEF PurgeTypes, ControlStays, OnePurger
  <2>8. PurgerStands(p)'
    BY <1>3, <2>4 DEF PurgerStands, RootIsClean, There, ControlStays
  <2>9. /\ \A x \in Batches' : x \in Batches \/ BindsOne(x)
        /\ \A x \in Finished' : x \in Finished
    <3>1. \A q \in Purgers : proc'[q] = [at |-> "planned", it |-> it]
      BY <2>4 DEF OnePurger
    <3>2. \A x \in Batches' : x \in Batches \/ x = it
      BY <3>1 DEF Batches, ControlStays, IsRecord, There, IsTorn
    <3>3. \A x \in Finished' : x \in Finished
      BY <3>1 DEF Finished, ControlStays, There
    <3> QED BY <2>3, <3>2, <3>3
  <2> QED BY <2>5, <2>7, <2>8, <2>9, ControlStaysSo, PurgerStep
<1> QED BY <1>2, <1>3

LEMMA BatchStands ==
  ASSUME MInv, PInv, OnePurger, NEW p \in Purgers, NEW budget \in Budgets, Batch(p, budget),
         source' = source, staged' = staged, pending' = pending, clock' = clock, ControlStays
  PROVE  PInv'
<1>1. TypeOK /\ PurgeTypes /\ p \in Processes /\ DOMAIN proc = Processes
      /\ \A q \in Migrators : q \in Processes /\ q # p
  BY PurgerPlaces DEF MInv, PInv
<1>2. \/ proc' = [proc EXCEPT ![p] = [at |-> "resumed", it |-> intent]] /\ IsRecord(intent)
      \/ Ends(p) \/ Plans(p, budget, PriorFor(budget))
  BY DEF Batch, MayResume, IntentIsValid
<1>3. CASE proc' = [proc EXCEPT ![p] = [at |-> "resumed", it |-> intent]] /\ IsRecord(intent)
  <2>1. /\ proc'[p] = [at |-> "resumed", it |-> intent] /\ \A q \in Processes : q # p => proc'[q] = proc[q]
    BY <1>1, <1>3
  <2>2. TreesStay
    BY <1>1, <2>1 DEF TreesStay
  <2>3. intent \in Intents
    BY <1>1, <1>3 DEF PurgeTypes, IsRecord, There, IsTorn
  <2>4. proc'[p] \in PurgerStates
    BY <2>1, <2>3 DEF PurgerStates, BatchPlaces
  <2>5. PurgeTypes'
    BY <1>1, <2>4 DEF PurgeTypes, ControlStays, OnePurger
  <2>6. PurgerStands(p)'
    BY <2>1 DEF PurgerStands, ControlStays
  <2>7. /\ \A x \in Batches' : x \in Batches
        /\ \A x \in Finished' : x \in Finished
    <3>1. \A q \in Purgers : proc'[q] = [at |-> "resumed", it |-> intent]
      BY <2>1 DEF OnePurger
    <3>2. \A x \in Batches' : x \in Batches
      BY <1>3, <3>1 DEF Batches, ControlStays, IsRecord, There, IsTorn
    <3>3. \A x \in Finished' : x \in Finished
      BY <3>1 DEF Finished, ControlStays, There
    <3> QED BY <3>2, <3>3
  <2> QED BY <2>2, <2>5, <2>6, <2>7, ControlStaysSo, PurgerStep
<1>4. CASE Ends(p)
  BY <1>4, PurgerEnds DEF ControlStays
<1>5. CASE Plans(p, budget, PriorFor(budget))
  <2>1. PriorFor(budget) \in Reports \cup {Nothing}
    BY <1>1 DEF PriorFor, PurgeTypes
  <2> QED BY <1>5, <2>1, PlansStand
<1> QED BY <1>2, <1>3, <1>4, <1>5

LEMMA PurgeStands ==
  ASSUME MInv, PInv, OnePurger, NEW p \in Purgers, NEW b \in Budgets, Purge(p, b)
  PROVE  PInv'
BY BatchStands DEF Purge, files, ControlStays

LEMMA CheckStands ==
  ASSUME MInv, PInv, OnePurger, NEW p \in Purgers, Check(p)
  PROVE  PInv'
<1>1. TypeOK /\ PurgeTypes
  BY DEF MInv, PInv
<1>2. proc[p].it \in Intents
  BY <1>1, PurgerPlaces DEF Check, ReportPlaces
<1>3. proc[p].it.budget \in Budgets
  BY <1>2 DEF Intents
<1>4. /\ Batch(p, proc[p].it.budget) \/ Ends(p)
      /\ source' = source /\ staged' = staged /\ pending' = pending /\ clock' = clock /\ ControlStays
  BY DEF Check, files, ControlStays
<1> QED BY <1>3, <1>4, BatchStands, PurgerEnds DEF ControlStays

LEMMA ContinueStands ==
  ASSUME MInv, PInv, OnePurger, NEW p \in Purgers, Continue(p)
  PROVE  PInv'
<1>1. TypeOK /\ PurgeTypes
  BY DEF MInv, PInv
<1>2. proc[p].it \in Intents /\ proc[p].report \in Reports
  BY <1>1, PurgerPlaces DEF Continue, ReportPlaces
<1>3. proc[p].it.budget \in Budgets
  BY <1>2 DEF Intents
<1>4. /\ Plans(p, proc[p].it.budget, proc[p].report) \/ Batch(p, proc[p].it.budget) \/ Ends(p)
      /\ source' = source /\ staged' = staged /\ pending' = pending /\ clock' = clock /\ ControlStays
  BY DEF Continue, files, ControlStays
<1> QED BY <1>2, <1>3, <1>4, PlansStand, BatchStands, PurgerEnds DEF ControlStays

LEMMA RefuseStands ==
  ASSUME MInv, PInv, OnePurger, NEW p \in Purgers, Refuse(p)
  PROVE  PInv'
BY PurgerEnds DEF Refuse, files

LEMMA PurgerDiesStands ==
  ASSUME MInv, PInv, OnePurger, NEW p \in Purgers, PurgerDies(p)
  PROVE  PInv'
BY PurgerEnds DEF PurgerDies, migrationFiles

LEMMA PublishIntentStands ==
  ASSUME MInv, PInv, OnePurger, NEW p \in Purgers, PublishIntent(p)
  PROVE  PInv'
<1>1. /\ TypeOK /\ PurgeTypes /\ proc[p].at = "planned" /\ PurgerStands(p)
      /\ source' = source /\ staged' = staged /\ pending' = pending /\ clock' = clock
      /\ tombs' = tombs /\ result' = result /\ temp' = temp
      /\ \A q \in Migrators : q \in Processes /\ q # p
  BY PurgerPlaces DEF MInv, PInv, PublishIntent, migrationFiles
<1>2. CASE Ends(p) /\ intent' = intent /\ chain' = chain
  BY <1>1, <1>2, PurgerEnds
<1>3. CASE ~(Ends(p) /\ intent' = intent /\ chain' = chain)
  <2>1. PICK it : it = proc[p].it
    OBVIOUS
  <2>2. /\ intent' = it /\ chain' = IF There(it.prior) THEN chain ELSE {}
        /\ Goes(p, "deleting") /\ ~There(intent)
    BY <1>3, <2>1 DEF PublishIntent
  <2>3. /\ \A q \in Processes : q # p => proc'[q] = proc[q]
        /\ proc'[p] \in PurgerStates /\ proc'[p].at = "deleting" /\ proc'[p].it = it /\ proc[p] # idle
    BY <1>1, <2>1, <2>2, PurgerGoesOn DEF BatchPlaces
  <2>4. TreesStay
    BY <1>1, <2>3 DEF TreesStay
  <2>5. it \in Intents
    BY <1>1, <2>1, <2>3, PurgerPlaces
  <2>6. PurgeTypes'
    BY <1>1, <2>2, <2>3, <2>5 DEF PurgeTypes, OnePurger
  <2>7. PurgerStands(p)'
    BY <2>2, <2>3 DEF PurgerStands
  <2>8. tombs = {} /\ chain \subseteq (IF There(result) THEN EditsOf(result.deleted) ELSE {})
    BY <2>2, Unbound DEF IsRecord
  <2>9. ControlStands'
    BY <1>1, <2>2, <2>8 DEF ControlStands, There, EditsOf
  <2>10. PurgeIsAccountable'
    BY <1>1, <2>2, <2>8 DEF PurgeIsAccountable, TombstonesAreBound, DeletionsAreAudited, There, EditsOf
  <2>11. /\ \A x \in Batches' : x \in Batches
         /\ \A x \in Finished' : x \in Finished
    BY <1>1, <2>1, <2>2, <2>3, SameBatches
  <2> QED BY <2>4, <2>6, <2>7, <2>9, <2>10, <2>11, PurgerStep
<1> QED BY <1>2, <1>3

\* Intents and reports are records.
LEMMA Records ==
  /\ \A it \in Intents : IsRecord(it) /\ There(it)
  /\ \A x \in Reports : There(x) /\ x.intent \in Intents
BY ControlAssumption DEF IsRecord, There, IsTorn, Reports

\* A directory under its tombstone name keeps the name, whatever is left of it.
LEMMA TombstoneIs ==
  ASSUME NEW o \in Tree
  PROVE  LET t == [o EXCEPT !.parts = Parts]
         IN  /\ t \in Tree /\ t.run = o.run /\ t.ino = o.ino /\ t.edit = o.edit
             /\ TombstoneName(t) = TombstoneName(o)
BY DEF Tree, TombstoneName, Summary

LEMMA AccountStays ==
  ASSUME PInv, tombs' = tombs, intent' = intent, result' = result, chain' = chain
  PROVE  ControlStands' /\ PurgeIsAccountable'
<1>1. ControlStands'
  BY DEF PInv, ControlStands, There, IsRecord, IsTorn, EditsOf, EditsIn
<1>2. PurgeIsAccountable'
  BY DEF PInv, PurgeIsAccountable, TombstonesAreBound, DeletionsAreAudited, IsRecord, There, IsTorn
<1> QED BY <1>1, <1>2

LEMMA AuditStands ==
  ASSUME MInv, PInv, OnePurger, NEW p \in Purgers, Audit(p)
  PROVE  PInv'
<1>1. /\ TypeOK /\ PurgeTypes /\ proc[p].at \in {"deleting", "resumed"} /\ PurgerStands(p)
      /\ source' = source /\ staged' = staged /\ pending' = pending /\ clock' = clock /\ ControlStays
      /\ p \in Processes /\ DOMAIN proc = Processes /\ \A q \in Migrators : q \in Processes /\ q # p
  BY PurgerPlaces DEF MInv, PInv, Audit, Deleting, files, ControlStays
<1>2. CASE Ends(p)
  BY <1>1, <1>2, PurgerEnds DEF ControlStays
<1>3. CASE ~Ends(p)
  <2>1. PICK it : it = proc[p].it
    OBVIOUS
  <2>2. /\ PriorIsThere(it) /\ \A t \in it.selected : ~Remains(t)
        /\ proc' = [proc EXCEPT ![p] = [at |-> "audited", it |-> it, report |-> Report(it)]]
    BY <1>3, <2>1 DEF Audit
  <2>3. proc[p] # idle /\ it \in Intents /\ it = intent
    BY <1>1, <2>1, PurgerPlaces DEF idle, PurgerStands
  <2>4. it \in Batches /\ it.selected \subseteq Tree /\ IsRecord(it) /\ \A t, u \in it.selected : t = u
    <3>1. it \in Batches
      BY <2>3, Records DEF Batches
    <3> QED BY <1>1, <3>1, <2>3, Records, BatchesAre DEF PInv, BatchesStand, BindsOne
  <2>5. tombs = {}
    <3> SUFFICES ASSUME NEW o \in tombs PROVE FALSE
      OBVIOUS
    <3>1. PICK t \in it.selected : t = [o EXCEPT !.parts = Parts]
      BY <2>3 DEF PInv, PurgeIsAccountable, TombstonesAreBound
    <3>2. o \in Tree
      BY <1>1 DEF TypeOK
    <3>3. o \in Entombed(t)
      BY <3>1, <3>2, TombstoneIs DEF Entombed
    <3> QED BY <2>2, <3>3 DEF Remains
  <2>6. IsGone(it)
    BY <2>2 DEF IsGone, Remains
  <2>7. chain \subseteq EditsOf(Deleted(it))
    <3>1. /\ EditsIn(it) \subseteq EditsOf(Deleted(it))
          /\ There(it.prior) => There(result) /\ EditsOf(result.deleted) \subseteq EditsOf(Deleted(it))
      BY <1>1, <2>2, <2>3, <2>4, DeletedIs
    <3>2. CASE There(it.prior)
      <4>1. chain \subseteq EditsOf(result.deleted) \cup EditsIn(it)
        BY <2>3, <2>4, <3>1, <3>2
           DEF PInv, PurgeIsAccountable, DeletionsAreAudited, EditsOf, EditsIn
      <4> QED BY <3>1, <3>2, <4>1
    <3>3. CASE ~There(it.prior)
      BY <2>3, <2>4, <3>1, <3>3 DEF PInv, ControlStands
    <3> QED BY <3>2, <3>3
  <2>8. PICK report : report = Report(it)
    OBVIOUS
  <2>9. report \in Reports /\ report.intent = it /\ report.deleted = Deleted(it)
    BY <1>1, <2>2, <2>3, <2>4, <2>8, ReportIs
  <2>10. /\ proc'[p] = [at |-> "audited", it |-> it, report |-> report]
         /\ \A q \in Processes : q # p => proc'[q] = proc[q]
    BY <1>1, <2>2, <2>8
  <2>11. TreesStay
    BY <1>1, <2>10 DEF TreesStay
  <2>12. PurgeTypes'
    <3>1. proc'[p] \in PurgerStates
      BY <2>3, <2>9, <2>10 DEF PurgerStates, ReportPlaces
    <3> QED BY <1>1, <3>1 DEF PurgeTypes, ControlStays, OnePurger
  <2>13. PurgerStands(p)'
    <3>1. EditsOf(report.deleted)' = EditsOf(Deleted(it))
      BY <2>9 DEF EditsOf
    <3>2. chain' \subseteq EditsOf(proc[p].report.deleted)'
      BY <1>1, <2>7, <2>9, <2>10 DEF ControlStays, EditsOf
    <3> QED BY <1>1, <2>3, <2>5, <2>9, <2>10, <3>2 DEF PurgerStands, ControlStays
  <2>14. /\ \A x \in Batches' : x \in Batches
         /\ \A x \in Finished' : x \in Finished \/ IsGone(x)
    <3>1. \A q \in Purgers : q = p
      BY DEF OnePurger
    <3>2. proc'[p].it = it
      BY <2>10
    <3>3. \A x \in Batches' : x \in Batches
      BY <1>1, <2>4, <3>1, <3>2 DEF Batches, ControlStays, IsRecord, There, IsTorn
    <3>4. \A x \in Finished' : x \in Finished \/ x = it
      BY <1>1, <3>1, <3>2 DEF Finished, ControlStays, There
    <3> QED BY <2>6, <3>3, <3>4
  <2> QED BY <1>1, <2>11, <2>12, <2>13, <2>14, ControlStaysSo, PurgerStep
<1> QED BY <1>2, <1>3

LEMMA WriteTemporaryStands ==
  ASSUME MInv, PInv, OnePurger, NEW p \in Purgers, WriteTemporary(p)
  PROVE  PInv'
<1>1. /\ TypeOK /\ PurgeTypes /\ proc[p].at = "audited" /\ PurgerStands(p)
      /\ source' = source /\ staged' = staged /\ pending' = pending /\ clock' = clock
      /\ tombs' = tombs /\ intent' = intent /\ result' = result /\ chain' = chain
      /\ \A q \in Migrators : q \in Processes /\ q # p
  BY PurgerPlaces DEF MInv, PInv, WriteTemporary, migrationFiles
<1>2. CASE Ends(p) /\ temp' = temp
  BY <1>1, <1>2, PurgerEnds
<1>3. CASE temp' = proc[p].report /\ Goes(p, "written")
  <2>1. /\ \A q \in Processes : q # p => proc'[q] = proc[q]
        /\ proc'[p] \in PurgerStates /\ proc'[p].at = "written" /\ proc'[p].it = proc[p].it
        /\ proc'[p].report = proc[p].report /\ proc[p] # idle
    BY <1>1, <1>3, PurgerGoesOn DEF ReportPlaces
  <2>2. proc[p].report \in Reports
    BY <1>1, PurgerPlaces DEF ReportPlaces
  <2>3. TreesStay
    BY <1>1, <2>1 DEF TreesStay
  <2>4. PurgeTypes'
    BY <1>1, <1>3, <2>1, <2>2 DEF PurgeTypes, OnePurger
  <2>5. PurgerStands(p)'
    BY <1>1, <1>3, <2>1 DEF PurgerStands, EditsOf
  <2>6. /\ \A x \in Batches' : x \in Batches
        /\ \A x \in Finished' : x \in Finished
    BY <1>1, <2>1, SameBatches
  <2> QED BY <1>1, <2>3, <2>4, <2>5, <2>6, AccountStays, PurgerStep
<1> QED BY <1>2, <1>3 DEF WriteTemporary

LEMMA ReplaceResultStands ==
  ASSUME MInv, PInv, OnePurger, NEW p \in Purgers, ReplaceResult(p)
  PROVE  PInv'
<1>1. /\ TypeOK /\ PurgeTypes /\ proc[p].at = "written" /\ PurgerStands(p)
      /\ source' = source /\ staged' = staged /\ pending' = pending /\ clock' = clock
      /\ tombs' = tombs /\ intent' = intent /\ chain' = chain
      /\ \A q \in Migrators : q \in Processes /\ q # p
  BY PurgerPlaces DEF MInv, PInv, ReplaceResult, migrationFiles
<1>2. PICK report : report = proc[p].report
  OBVIOUS
<1>3. /\ report \in Reports /\ temp = report /\ There(temp) /\ report.intent = intent
      /\ tombs = {} /\ chain \subseteq EditsOf(report.deleted) /\ intent = proc[p].it
  BY <1>1, <1>2, PurgerPlaces, Records DEF ReportPlaces, PurgerStands
<1>4. result' = report /\ temp' = Nothing /\ Goes(p, "published")
  BY <1>3 DEF ReplaceResult
<1>5. /\ \A q \in Processes : q # p => proc'[q] = proc[q]
      /\ proc'[p] \in PurgerStates /\ proc'[p].at = "published" /\ proc'[p].it = proc[p].it
      /\ proc[p] # idle
  BY <1>1, <1>4, PurgerGoesOn DEF ReportPlaces
<1>6. TreesStay
  BY <1>1, <1>5 DEF TreesStay
<1>7. PurgeTypes'
  BY <1>1, <1>3, <1>4, <1>5 DEF PurgeTypes, OnePurger
<1>8. PurgerStands(p)'
  BY <1>1, <1>3, <1>4, <1>5, Records DEF PurgerStands, There
<1>9. ControlStands'
  BY <1>1, <1>3, <1>4 DEF PInv, ControlStands, There, IsRecord, IsTorn, EditsOf, EditsIn
<1>10. PurgeIsAccountable'
  <2>1. There(result')
    BY <1>3, <1>4, Records
  <2>2. chain' \subseteq {result'.deleted[i].edit : i \in DOMAIN result'.deleted}
    BY <1>1, <1>3, <1>4 DEF EditsOf
  <2> QED BY <1>1, <1>3, <2>1, <2>2 DEF PurgeIsAccountable, TombstonesAreBound, DeletionsAreAudited, There
<1>11. /\ \A x \in Batches' : x \in Batches
       /\ \A x \in Finished' : x \in Finished
  <2>1. \A q \in Purgers : q = p
    BY DEF OnePurger
  <2>2. intent \in Batches /\ intent \in Finished
    BY <1>1, <1>3, <1>5 DEF Batches, Finished
  <2>3. \A x \in Batches' : x \in Batches
    BY <1>1, <1>3, <1>4, <1>5, <2>1, <2>2 DEF Batches, IsRecord, There, IsTorn
  <2>4. \A x \in Finished' : x \in Finished
    BY <1>3, <1>4, <1>5, <2>1, <2>2 DEF Finished, There
  <2> QED BY <2>3, <2>4
<1> QED BY <1>6, <1>7, <1>8, <1>9, <1>10, <1>11, PurgerStep

\* A batch whose result is published has left nothing that its intent would still bind.
LEMMA IntentGoes ==
  ASSUME PInv, There(result), result.intent = intent,
         tombs' = tombs, intent' = Nothing, result' = result, chain' = chain
  PROVE  ControlStands' /\ PurgeIsAccountable'
<1>1. tombs = {} /\ chain \subseteq EditsOf(result.deleted)
  BY DEF PInv, ControlStands
<1>2. result.intent \in Intents
  BY Records DEF PInv, PurgeTypes, There
<1>3. ControlStands'
  BY <1>2, Records DEF ControlStands, IsRecord, There
<1>4. PurgeIsAccountable'
  BY <1>1 DEF PurgeIsAccountable, TombstonesAreBound, DeletionsAreAudited, There, EditsOf
<1> QED BY <1>3, <1>4

LEMMA RemoveIntentStands ==
  ASSUME MInv, PInv, OnePurger, NEW p \in Purgers, RemoveIntent(p)
  PROVE  PInv'
<1>1. /\ TypeOK /\ PurgeTypes /\ proc[p].at = "published" /\ PurgerStands(p)
      /\ source' = source /\ staged' = staged /\ pending' = pending /\ clock' = clock
      /\ tombs' = tombs /\ result' = result /\ chain' = chain /\ temp' = temp
      /\ intent' = Nothing /\ Goes(p, "checking")
      /\ \A q \in Migrators : q \in Processes /\ q # p
  BY PurgerPlaces DEF MInv, PInv, RemoveIntent, migrationFiles
<1>2. /\ \A q \in Processes : q # p => proc'[q] = proc[q]
      /\ proc'[p] \in PurgerStates /\ proc'[p].at = "checking" /\ proc'[p].it = proc[p].it
      /\ proc[p] # idle
  BY <1>1, PurgerGoesOn DEF ReportPlaces
<1>3. TreesStay
  BY <1>1, <1>2 DEF TreesStay
<1>4. PurgeTypes'
  BY <1>1, <1>2 DEF PurgeTypes, OnePurger
<1>5. PurgerStands(p)'
  BY <1>1, <1>2 DEF PurgerStands
<1>6. ControlStands' /\ PurgeIsAccountable'
  BY <1>1, IntentGoes DEF PurgerStands
<1>7. /\ \A x \in Batches' : x \in Batches
      /\ \A x \in Finished' : x \in Finished
  BY <1>1, <1>2, SameBatches, Absence
<1> QED BY <1>3, <1>4, <1>5, <1>6, <1>7, PurgerStep

LEMMA AdoptStands ==
  ASSUME MInv, PInv, OnePurger, NEW p \in Purgers, Adopt(p)
  PROVE  PInv'
<1>1. /\ TypeOK /\ PurgeTypes /\ proc[p].at = "resumed" /\ PurgerStands(p)
      /\ There(result) /\ result.intent = proc[p].it
      /\ source' = source /\ staged' = staged /\ pending' = pending /\ clock' = clock
      /\ tombs' = tombs /\ result' = result /\ chain' = chain /\ temp' = temp
      /\ p \in Processes /\ DOMAIN proc = Processes /\ \A q \in Migrators : q \in Processes /\ q # p
  BY PurgerPlaces DEF MInv, PInv, Adopt, Completes, migrationFiles
<1>2. CASE Ends(p) /\ intent' = intent
  BY <1>1, <1>2, PurgerEnds
<1>3. CASE /\ intent' = Nothing
           /\ proc' = [proc EXCEPT ![p] = [at |-> "adopted", it |-> proc[p].it, report |-> result]]
  <2>1. /\ proc'[p] = [at |-> "adopted", it |-> proc[p].it, report |-> result]
        /\ \A q \in Processes : q # p => proc'[q] = proc[q]
    BY <1>1, <1>3
  <2>2. proc[p] # idle /\ proc[p].it \in Intents /\ result \in Reports
    BY <1>1, PurgerPlaces DEF idle, PurgeTypes, There
  <2>3. proc'[p] \in PurgerStates
    BY <2>1, <2>2 DEF PurgerStates, ReportPlaces
  <2>4. TreesStay
    BY <1>1, <2>1 DEF TreesStay
  <2>5. PurgeTypes'
    BY <1>1, <1>3, <2>3 DEF PurgeTypes, OnePurger
  <2>6. PurgerStands(p)'
    BY <1>3, <2>1 DEF PurgerStands
  <2>7. ControlStands' /\ PurgeIsAccountable'
    BY <1>1, <1>3, IntentGoes DEF PurgerStands
  <2>8. proc'[p].it = proc[p].it /\ proc'[p].at = "adopted"
    BY <2>1
  <2>9. /\ \A x \in Batches' : x \in Batches
        /\ \A x \in Finished' : x \in Finished
    BY <1>1, <1>3, <2>2, <2>8, SameBatches, Absence
  <2> QED BY <2>4, <2>5, <2>6, <2>7, <2>9, PurgerStep
<1> QED BY <1>2, <1>3 DEF Adopt

-----------------------------------------------------------------------------
(* The steps that move and remove the selected directory.                  *)

\* The tree that is renamed is the one that was selected.
LEMMA SelectedIs ==
  ASSUME MInv, PInv, NEW it \in Batches, NEW t \in it.selected, IsSelected(t)
  PROVE  /\ t \in Tree /\ t.run \in Runs /\ source[t.run] = t
         /\ t = [t EXCEPT !.parts = Parts] /\ t.done /\ t.from = 0
<1>1. t \in Tree /\ BindsOne(it)
  BY BatchesAre DEF PInv, BatchesStand
<1>2. t.run \in Runs
  BY <1>1 DEF Tree
<1>3. There(source[t.run]) /\ source[t.run].ino = t.ino /\ Manifest(source[t.run]) = Manifest(t)
  BY DEF IsSelected, SameDirectory
<1>4. source[t.run] \in Tree /\ source[t.run].run = t.run
  BY <1>2, <1>3, Trees DEF MInv, PInv, EditsAreApart
<1>5. source[t.run].legacy = t.legacy /\ t.done /\ t.from = 0 /\ t.parts = Parts
  BY <1>1, <1>3 DEF BindsOne
<1>6. /\ source[t.run].edit = t.edit /\ source[t.run].done = t.done /\ source[t.run].from = t.from
      /\ source[t.run].owner = t.owner /\ source[t.run].parts = t.parts
  BY <1>3 DEF Manifest
<1>7. source[t.run] = t
  <2>1. \A u \in Tree : u = [run |-> u.run, ino |-> u.ino, edit |-> u.edit, done |-> u.done,
                            legacy |-> u.legacy, from |-> u.from, owner |-> u.owner, parts |-> u.parts]
    BY DEF Tree
  <2>2. \A u, v \in Tree :
          /\ u.run = v.run /\ u.ino = v.ino /\ u.edit = v.edit /\ u.done = v.done
          /\ u.legacy = v.legacy /\ u.from = v.from /\ u.owner = v.owner /\ u.parts = v.parts
          => u = v
    BY <2>1
  <2> QED BY <1>1, <1>3, <1>4, <1>5, <1>6, <2>2
<1>8. t = [t EXCEPT !.parts = Parts]
  BY <1>1, <1>5 DEF Tree
<1> QED BY <1>1, <1>2, <1>5, <1>7, <1>8

LEMMA EntombStands ==
  ASSUME MInv, PInv, OnePurger, NEW p \in Purgers, Entomb(p)
  PROVE  PInv'
<1>1. /\ TypeOK /\ PurgeTypes /\ proc[p].at \in {"deleting", "resumed"} /\ PurgerStands(p)
      /\ staged' = staged /\ pending' = pending /\ clock' = clock /\ proc' = proc
      /\ intent' = intent /\ result' = result /\ temp' = temp
  BY DEF MInv, PInv, Entomb, Deleting, migrationFiles
<1>2. intent = proc[p].it /\ intent \in Intents /\ IsRecord(intent) /\ intent \in Batches
  <2>1. proc[p] # idle /\ proc[p].it \in Intents /\ intent = proc[p].it
    BY <1>1, PurgerPlaces DEF idle, PurgerStands
  <2> QED BY <2>1, Records DEF Batches
<1>3. PICK t \in intent.selected :
        /\ IsSelected(t) /\ tombs' = tombs \cup {source[t.run]}
        /\ source' = [source EXCEPT ![t.run] = Nothing] /\ chain' = chain \cup {source[t.run].edit}
  BY <1>2 DEF Entomb
<1>4. /\ t \in Tree /\ t.run \in Runs /\ source[t.run] = t
      /\ t = [t EXCEPT !.parts = Parts] /\ t.done /\ t.from = 0
  BY <1>2, <1>3, SelectedIs
<1>5. tombs' = tombs \cup {t} /\ chain' = chain \cup {t.edit}
  BY <1>3, <1>4
<1>6. ~There(source'[t.run]) /\ \A r \in Runs : source'[r] = source[r] \/ ~There(source'[r])
  BY <1>1, <1>3, <1>4, Absence DEF TypeOK
<1>7. PurgeTypes'
  BY <1>1 DEF PurgeTypes
<1>8. EditsAreApart'
  BY <1>1, <1>6 DEF PInv, EditsAreApart, There
<1>9. Batches' = Batches /\ Finished' = Finished
  BY <1>1 DEF Batches, Finished, IsRecord, There, IsTorn
<1>10. BatchesStand'
  <2>1. ASSUME NEW it \in Batches PROVE BindsOne(it)'
    <3>1. BindsOne(it) /\ \A u \in it.selected : u.run \in Runs
      BY <1>1, <2>1, BatchesAre DEF PInv, BatchesStand, Tree
    <3> QED BY <1>1, <1>6, <3>1 DEF BindsOne, There, Token
  <2>2. ASSUME NEW it \in Finished PROVE IsGone(it)'
    <3>1. IsGone(it) /\ \A u \in it.selected : u.run \in Runs
      BY <1>1, <2>2, BatchesAre DEF PInv, BatchesStand, Tree
    <3> QED BY <1>6, <3>1 DEF IsGone, There
  <2> QED BY <1>9, <2>1, <2>2 DEF BatchesStand
<1>11. ~(There(result) /\ result.intent = intent)
  <2> SUFFICES ASSUME There(result), result.intent = intent PROVE FALSE
    OBVIOUS
  <2>1. intent \in Finished
    BY DEF Finished
  <2>2. IsGone(intent)
    BY <2>1 DEF PInv, BatchesStand
  <2> QED BY <1>3, <2>2 DEF IsGone, IsSelected, SameDirectory
<1>12. ControlStands'
  <2>1. IsRecord(intent) /\ ~There(intent.prior) => chain' \subseteq EditsIn(intent)
    BY <1>3, <1>5 DEF PInv, ControlStands, EditsIn
  <2> QED BY <1>1, <1>11, <2>1 DEF ControlStands, There, IsRecord, IsTorn, EditsIn
<1>13. \A q \in Purgers : PurgerStands(q)'
  <2>1. PurgerStands(p)'
    BY <1>1 DEF PurgerStands
  <2> QED BY <2>1 DEF OnePurger
<1>14. TombstonesAreBound'
  <2>1. ASSUME NEW o \in tombs'
        PROVE  \E u \in intent.selected : u = [o EXCEPT !.parts = Parts] /\ u.done /\ u.from = 0
    BY <1>3, <1>4, <1>5 DEF PInv, PurgeIsAccountable, TombstonesAreBound
  <2> QED BY <1>1, <1>2, <2>1 DEF TombstonesAreBound, IsRecord, There, IsTorn
<1>15. DeletionsAreAudited'
  BY <1>1, <1>2, <1>3, <1>5 DEF PInv, PurgeIsAccountable, DeletionsAreAudited, IsRecord, There, IsTorn
<1> QED BY <1>7, <1>8, <1>10, <1>12, <1>13, <1>14, <1>15 DEF PInv, PurgeIsAccountable

\* What is left under a tombstone name is bound while it is, and keeps the intent open.
LEMMA TombstonesShrink ==
  ASSUME MInv, PInv, OnePurger, NEW p \in Purgers, Deleting(p), NEW o \in tombs, NEW x \in Tree,
         [x EXCEPT !.parts = Parts] = [o EXCEPT !.parts = Parts],
         \A y \in tombs' : y \in tombs \/ y = x,
         source' = source, staged' = staged, pending' = pending, clock' = clock, proc' = proc,
         intent' = intent, result' = result, temp' = temp, chain' = chain
  PROVE  PInv'
<1>1. TypeOK /\ PurgeTypes /\ proc[p].at \in {"deleting", "resumed"} /\ PurgerStands(p)
  BY DEF MInv, PInv, Deleting
<1>2. TreesStay
  BY DEF TreesStay
<1>3. PurgeTypes'
  BY <1>1 DEF PurgeTypes
<1>4. PurgerStands(p)'
  BY <1>1 DEF PurgerStands
<1>5. Batches' = Batches /\ Finished' = Finished
  BY DEF Batches, Finished, IsRecord, There, IsTorn
<1>6. ControlStands'
  <2>1. ~(There(result) /\ result.intent = intent)
    BY DEF PInv, ControlStands
  <2> QED BY <2>1 DEF PInv, ControlStands, There, IsRecord, IsTorn, EditsIn
<1>7. PurgeIsAccountable'
  <2>1. IsRecord(intent) /\ \A y \in tombs :
          \E t \in intent.selected : t = [y EXCEPT !.parts = Parts] /\ t.done /\ t.from = 0
    BY DEF PInv, PurgeIsAccountable, TombstonesAreBound
  <2>2. ASSUME NEW y \in tombs'
        PROVE  \E t \in intent.selected : t = [y EXCEPT !.parts = Parts] /\ t.done /\ t.from = 0
    BY <2>1
  <2>3. TombstonesAreBound'
    BY <2>1, <2>2 DEF TombstonesAreBound, IsRecord, There, IsTorn
  <2>4. DeletionsAreAudited'
    BY DEF PInv, PurgeIsAccountable, DeletionsAreAudited, IsRecord, There, IsTorn
  <2> QED BY <2>3, <2>4 DEF PurgeIsAccountable
<1> QED BY <1>2, <1>3, <1>4, <1>5, <1>6, <1>7, PurgerStep

LEMMA StripStands ==
  ASSUME MInv, PInv, OnePurger, NEW p \in Purgers, Strip(p)
  PROVE  PInv'
<1>1. PICK o \in tombs : tombs' = (tombs \ {o}) \cup {[o EXCEPT !.parts = @ \ {NextPart(o)}]}
  BY DEF Strip, Entombed
<1>2. o \in Tree
  BY DEF MInv, TypeOK
<1>3. PICK x : x = [o EXCEPT !.parts = @ \ {NextPart(o)}]
  OBVIOUS
<1>4. x \in Tree /\ [x EXCEPT !.parts = Parts] = [o EXCEPT !.parts = Parts]
  BY <1>2, <1>3 DEF Tree
<1>5. /\ Deleting(p) /\ source' = source /\ staged' = staged /\ pending' = pending /\ clock' = clock
      /\ proc' = proc /\ intent' = intent /\ result' = result /\ temp' = temp /\ chain' = chain
  BY DEF Strip, migrationFiles
<1>6. \A y \in tombs' : y \in tombs \/ y = x
  BY <1>1, <1>3
<1> QED BY <1>4, <1>5, <1>6, TombstonesShrink

LEMMA BuryStands ==
  ASSUME MInv, PInv, OnePurger, NEW p \in Purgers, Bury(p)
  PROVE  PInv'
<1>1. PICK o \in tombs : tombs' = tombs \ {o}
  BY DEF Bury, Entombed
<1>2. o \in Tree
  BY DEF MInv, TypeOK
<1>3. /\ Deleting(p) /\ source' = source /\ staged' = staged /\ pending' = pending /\ clock' = clock
      /\ proc' = proc /\ intent' = intent /\ result' = result /\ temp' = temp /\ chain' = chain
  BY DEF Bury, migrationFiles
<1> QED BY <1>1, <1>2, <1>3, TombstonesShrink

\* Every step of the only purger.
LEMMA PurgingStands ==
  ASSUME MInv, PInv, OnePurger, Purging
  PROVE  PInv'
BY PurgeStands, PublishIntentStands, EntombStands, StripStands, BuryStands, RefuseStands, AuditStands,
   WriteTemporaryStands, ReplaceResultStands, RemoveIntentStands, CheckStands, AdoptStands,
   ContinueStands, PurgerDiesStands DEF Purging

LEMMA InitIsAccountable ==
  ASSUME Init
  PROVE  PInv
<1>1. PICK root \in Roots : source = [r \in Runs |-> FirstTree(r, root[r])]
  BY DEF Init
<1>2. /\ staged = [r \in Runs |-> Nothing] /\ tombs = {} /\ chain = {}
      /\ intent = Nothing /\ result = Nothing /\ temp = Nothing
      /\ proc = [p \in Processes |-> idle] /\ clock = Cardinality(Runs)
  BY DEF Init
<1>3. \A p \in Purgers : proc[p] = idle
  BY <1>2, Partners
<1>4. PurgeTypes
  BY <1>2, <1>3 DEF PurgeTypes, PurgerStates, idle
<1>5. EditsAreApart
  <2>1. \A r \in Runs : There(source[r]) => source[r].run = r /\ source[r].edit = r
    BY <1>1, FirstTrees
  <2>2. \A r \in Runs : ~There(staged[r]) /\ r <= clock
    BY <1>2, Absence, FS_CardinalityType, RunsRootAssumption
  <2> QED BY <2>1, <2>2 DEF EditsAreApart
<1>6. BatchesStand
  BY <1>2, <1>3, Absence DEF BatchesStand, Batches, Finished, idle
<1>7. ControlStands
  BY <1>2, Absence DEF ControlStands
<1>8. \A p \in Purgers : PurgerStands(p)
  BY <1>3 DEF PurgerStands, idle
<1>9. PurgeIsAccountable
  BY <1>2 DEF PurgeIsAccountable, TombstonesAreBound, DeletionsAreAudited
<1> QED BY <1>4, <1>5, <1>6, <1>7, <1>8, <1>9 DEF PInv

LEMMA AccountOrStay ==
  ASSUME MInv, PInv, OnePurger, [Next]_vars
  PROVE  PInv'
<1>1. CASE Worker
  BY <1>1, WorkerIsOutside, OutsideStands
<1>2. CASE Migrating
  BY <1>2, MigratingIsOutside, OutsideStands
<1>3. CASE Purging
  BY <1>3, PurgingStands
<1>4. CASE UNCHANGED vars
  <2>1. /\ source' = source /\ staged' = staged /\ pending' = pending /\ proc' = proc /\ clock' = clock
        /\ tombs' = tombs /\ intent' = intent /\ result' = result /\ temp' = temp /\ chain' = chain
    BY <1>4 DEF vars, files
  <2>2. PurgeTypes'
    BY <2>1 DEF PInv, PurgeTypes
  <2>3. EditsAreApart'
    BY <2>1 DEF PInv, EditsAreApart, There
  <2>4. BatchesStand'
    <3>1. Batches' = Batches /\ Finished' = Finished
      BY <2>1 DEF Batches, Finished, IsRecord, There, IsTorn
    <3>2. \A it \in Batches : BindsOne(it)'
      BY <2>1 DEF PInv, BatchesStand, BindsOne, There, Token
    <3>3. \A it \in Finished : IsGone(it)'
      BY <2>1 DEF PInv, BatchesStand, IsGone, There
    <3> QED BY <3>1, <3>2, <3>3 DEF BatchesStand
  <2>5. ControlStands' /\ PurgeIsAccountable'
    BY <2>1, AccountStays
  <2>6. \A p \in Purgers : PurgerStands(p)'
    BY <2>1 DEF PInv, PurgerStands, There, EditsOf
  <2> QED BY <2>2, <2>3, <2>4, <2>5, <2>6 DEF PInv
<1> QED BY <1>1, <1>2, <1>3, <1>4 DEF Next

-----------------------------------------------------------------------------
(* Theorems.                                                               *)

\* With any number of workers, purges and migrations that interleave and die at any
\* step: a run is whole under its name, every lock has one holder, a migration holds
\* the run it copies, and between its renames the copy is whole and its original is
\* the backup.
THEOREM MovesInvariant == Spec => [](MInv /\ SelectionsAreTrees)
<1>1. MInv /\ SelectionsAreTrees /\ [Next]_vars => (MInv /\ SelectionsAreTrees)'
  BY MoveOrStay
<1> QED BY <1>1, InitStands, PTL DEF Spec

\* A run directory is only moved: it leaves its name whole, for its tombstone or its
\* backup, nobody but the holder of its lock writes it in place, and what a migration
\* puts in its place is whole and made from the backup.
THEOREM RunsMoveOnly == Spec => RunsOnlyMove
<1>1. MInv /\ SelectionsAreTrees /\ [Next]_vars => [\A r \in Runs : RunMoves(r)]_vars
  BY MoveOrStay
<1> QED BY <1>1, MovesInvariant, PTL DEF Spec, RunsOnlyMove

\* With one purge at a time, whatever else works on the root: the batches that are
\* pending bind one whole finished run, those that are over have left nothing under its
\* name, and a report that is about to be published covers the whole chain.
THEOREM PurgesInvariant == ASSUME OnePurger PROVE Spec => []PInv
<1>1. (MInv /\ SelectionsAreTrees) /\ PInv /\ [Next]_vars => PInv'
  BY AccountOrStay
<1>2. Init => PInv
  BY InitIsAccountable
<1> QED BY <1>1, <1>2, MovesInvariant, PTL DEF Spec

\* A purge removes nothing but the finished run its intent binds, and names everything it
\* has removed in the pending intent or in the cumulative result: across batches, deaths
\* at any step and resumed operations, while commands and migrations work on the root.
THEOREM PurgesAreAccountable == ASSUME OnePurger PROVE Spec => []PurgeIsAccountable
<1>1. PInv => PurgeIsAccountable
  BY DEF PInv
<1> QED BY <1>1, PurgesInvariant, PTL

=============================================================================
