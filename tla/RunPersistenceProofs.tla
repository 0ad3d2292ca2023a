----------------------- MODULE RunPersistenceProofs -----------------------
(***************************************************************************)
(* What a run directory keeps.  run.json is never torn, keeps what was     *)
(* acknowledged, and implements the register of RunRegister, for any       *)
(* processes, transitions and inodes.  The tree around it stays within its *)
(* caps and keeps the room that is reserved, for any caps, notes, checks   *)
(* and deaths of RunStorage.                                               *)
(***************************************************************************)
EXTENDS RunPersistence, RunStorage, SequenceTheorems, FiniteSetTheorems,
        WellFoundedInduction, TLAPS

-----------------------------------------------------------------------------
(* Prefixes.                                                               *)

LEMMA PrefixElements ==
  ASSUME NEW S, NEW s \in Seq(S), NEW t \in Seq(S)
  PROVE  IsPrefix(s, t) <=>
           Len(s) <= Len(t) /\ \A i \in 1 .. Len(s) : s[i] = t[i]
<1>1. SubSeq(s, 1, Len(s)) = s
  BY SubSeqFull
<1>2. ASSUME Len(s) <= Len(t)
      PROVE  /\ SubSeq(t, 1, Len(s)) \in Seq(S)
             /\ Len(SubSeq(t, 1, Len(s))) = Len(s)
             /\ \A i \in 1 .. Len(s) : SubSeq(t, 1, Len(s))[i] = t[i]
  <2>1. \A i \in 1 .. Len(s) : t[i] \in S
    BY <1>2, ElementOfSeq
  <2>2. QED
    BY <2>1, <1>2, SubSeqProperties, LenProperties
<1>3. ASSUME Len(s) <= Len(t), \A i \in 1 .. Len(s) : s[i] = t[i]
      PROVE  SubSeq(t, 1, Len(s)) = s
  BY <1>2, <1>3, SeqEqual
<1>4. QED
  BY <1>1, <1>2, <1>3 DEF IsPrefix

LEMMA PrefixReflexive ==
  ASSUME NEW S, NEW s \in Seq(S)
  PROVE  IsPrefix(s, s)
  BY PrefixElements, LenProperties

LEMMA PrefixTransitive ==
  ASSUME NEW S, NEW s \in Seq(S), NEW t \in Seq(S), NEW u \in Seq(S),
         IsPrefix(s, t), IsPrefix(t, u)
  PROVE  IsPrefix(s, u)
<1>1. Len(s) \in Nat /\ Len(t) \in Nat /\ Len(u) \in Nat
  BY LenProperties
<1>2. Len(s) <= Len(t) /\ \A i \in 1 .. Len(s) : s[i] = t[i]
  BY PrefixElements
<1>3. Len(t) <= Len(u) /\ \A i \in 1 .. Len(t) : t[i] = u[i]
  BY PrefixElements
<1>4. Len(s) <= Len(u) /\ \A i \in 1 .. Len(s) : s[i] = u[i]
  BY <1>1, <1>2, <1>3
<1>5. QED
  BY <1>4, PrefixElements

LEMMA PrefixAppend ==
  ASSUME NEW S, NEW s \in Seq(S), NEW t \in Seq(S), NEW e \in S, IsPrefix(s, t)
  PROVE  IsPrefix(s, Append(t, e)) /\ Append(t, e) \in Seq(S)
<1>1. Len(s) \in Nat /\ Len(t) \in Nat
  BY LenProperties
<1>2. Len(s) <= Len(t) /\ \A i \in 1 .. Len(s) : s[i] = t[i]
  BY PrefixElements
<1>3. /\ Append(t, e) \in Seq(S)
      /\ Len(Append(t, e)) = Len(t) + 1
      /\ \A i \in 1 .. Len(t) : Append(t, e)[i] = t[i]
  BY AppendProperties
<1>4. Len(s) <= Len(Append(t, e)) /\ \A i \in 1 .. Len(s) : s[i] = Append(t, e)[i]
  BY <1>1, <1>2, <1>3
<1>5. QED
  BY <1>3, <1>4, PrefixElements

LEMMA EmptyPrefix ==
  ASSUME NEW S, NEW s \in Seq(S)
  PROVE  IsPrefix(<< >>, s) /\ << >> \in Seq(S)
<1>1. << >> \in Seq(S) /\ Len(<< >>) = 0
  BY EmptySeq
<1>2. Len(s) \in Nat
  BY LenProperties
<1>3. Len(<< >>) <= Len(s) /\ \A i \in 1 .. Len(<< >>) : << >>[i] = s[i]
  BY <1>1, <1>2
<1>4. QED
  BY <1>1, <1>3, PrefixElements

LEMMA PrefixIsSubSeq ==
  ASSUME NEW S, NEW s \in Seq(S), NEW t \in Seq(S), IsPrefix(s, t)
  PROVE  Len(s) <= Len(t) /\ s = SubSeq(t, 1, Len(s))
  BY SubSeqFull DEF IsPrefix

-----------------------------------------------------------------------------
(* What the invariant says of the directories.                             *)

LEMMA RunsOnDisk ==
  ASSUME IInv
  PROVE  /\ dir \in disk /\ dir \in Directory
         /\ Visible \in Runs /\ IsPrefix(stable, Visible)
         /\ \A d \in disk :
              /\ d \in Directory
              /\ d.run # Absent => d.run \in synced /\ d.run \in Inodes /\ content[d.run] \in Runs
              /\ Bytes(d) \in Runs
              /\ IsPrefix(stable, Bytes(d)) /\ IsPrefix(Bytes(d), Visible)
<1>1. << >> \in Runs
  BY EmptyPrefix, EmptySeq DEF Runs
<1>2. dir \in disk /\ dir \in Directory
  BY DEF IInv, TypeOK, EveryDiskIsARun
<1>3. \A d \in disk :
        /\ d \in Directory
        /\ d.run # Absent => d.run \in synced /\ d.run \in Inodes /\ content[d.run] \in Runs
        /\ IsPrefix(stable, Bytes(d)) /\ IsPrefix(Bytes(d), Visible)
  BY DEF IInv, TypeOK, EveryDiskIsARun, Directory
<1>4. \A d \in disk : Bytes(d) \in Runs
  BY <1>1, <1>3 DEF Bytes
<1>5. QED
  BY <1>2, <1>3, <1>4 DEF Visible

\* A step that renames and removes temporaries only.
LEMMA SameRun ==
  ASSUME IInv, NEW d \in Directory, d.run = dir.run, Change(d), UNCHANGED <<content, stable>>,
         synced \subseteq synced', synced' \subseteq Inodes
  PROVE  EveryDiskIsARun' /\ Visible' = Visible /\ dir' \in Directory /\ disk' \subseteq Directory
<1>1. Bytes(d) = Visible /\ Visible' = Visible
  BY DEF Change, Visible, Bytes
<1>2. \A e \in disk' : e \in disk \/ e = d
  BY DEF Change
<1>3. dir' \in disk'
  BY DEF Change
<1>4. \A e \in disk' : Bytes(e)' = Bytes(e)
  BY DEF Bytes
<1>5. IsPrefix(stable, Visible) /\ IsPrefix(Visible, Visible)
  BY RunsOnDisk, PrefixReflexive DEF Runs
<1>6. \A e \in disk' :
        /\ e.run # Absent => e.run \in synced' /\ content'[e.run] \in Runs
        /\ IsPrefix(stable', Bytes(e)') /\ IsPrefix(Bytes(e)', Visible')
  BY <1>1, <1>2, <1>4, <1>5, RunsOnDisk
<1>7. disk' \subseteq Directory
  BY <1>2, RunsOnDisk
<1>8. QED
  BY <1>1, <1>3, <1>6, <1>7 DEF EveryDiskIsARun, Change

\* A step that leaves one directory, whose run.json is synced, on the disk.
LEMMA OneDirectory ==
  ASSUME IInv, NEW d \in disk, NEW kept, d.run \in kept, Settle(d, kept),
         stable' = stable \/ stable' = Bytes(d)
  PROVE  /\ EveryDiskIsARun' /\ Visible' = Bytes(d) /\ stable' \in Runs
         /\ content' \in [Inodes -> Runs \cup {Torn}] /\ synced' \subseteq Inodes
         /\ dir' \in Directory /\ disk' \subseteq Directory
<1>1. /\ d \in Directory /\ Bytes(d) \in Runs /\ IsPrefix(stable, Bytes(d))
      /\ d.run # Absent => d.run \in synced /\ d.run \in Inodes /\ content[d.run] \in Runs
  BY RunsOnDisk
<1>2. dir' = d /\ disk' = {d} /\ synced' = synced \cap kept
  BY DEF Settle
<1>3. /\ content' \in [Inodes -> Runs \cup {Torn}]
      /\ \A i \in Inodes : content'[i] = IF i \in kept THEN content[i] ELSE Torn
  BY DEF Settle, IInv, TypeOK
<1>4. Bytes(d)' = Bytes(d)
  BY <1>1, <1>3 DEF Bytes
<1>5. Visible' = Bytes(d)
  BY <1>2, <1>4 DEF Visible, Bytes
<1>6. IsPrefix(stable', Bytes(d)) /\ IsPrefix(Bytes(d), Bytes(d)) /\ stable' \in Runs
  BY <1>1, PrefixReflexive DEF Runs, IInv, TypeOK
<1>7. EveryDiskIsARun'
  BY <1>1, <1>2, <1>3, <1>4, <1>5, <1>6 DEF EveryDiskIsARun
<1>8. QED
  BY <1>1, <1>2, <1>3, <1>5, <1>6, <1>7 DEF IInv, TypeOK

\* A step that names another run, one transition after the visible one.
LEMMA NewRun ==
  ASSUME IInv, NEW d \in Directory, Change(d), d.run # Absent, d.run \in synced,
         NEW s \in Steps, content[d.run] = Append(Visible, s), UNCHANGED <<files, stable>>
  PROVE  /\ EveryDiskIsARun' /\ Visible' = Append(Visible, s)
         /\ dir' \in Directory /\ disk' \subseteq Directory
<1>1. Visible' = Append(Visible, s)
  BY DEF Change, Visible, Bytes, files
<1>2. \A e \in disk' : Bytes(e)' = Bytes(e)
  BY DEF Bytes, files
<1>3. Bytes(d) = Append(Visible, s)
  BY DEF Bytes
<1>4. /\ Visible \in Seq(Steps) /\ stable \in Seq(Steps) /\ IsPrefix(stable, Visible)
      /\ IsPrefix(Visible, Visible)
  BY RunsOnDisk, PrefixReflexive DEF IInv, TypeOK, Runs
<1>5. /\ Append(Visible, s) \in Seq(Steps)
      /\ IsPrefix(stable, Append(Visible, s)) /\ IsPrefix(Visible, Append(Visible, s))
  BY <1>4, PrefixAppend
<1>6. IsPrefix(Append(Visible, s), Append(Visible, s))
  BY <1>5, PrefixReflexive
<1>7. \A e \in disk : IsPrefix(Bytes(e), Append(Visible, s))
  <2>1. TAKE e \in disk
  <2>2. Bytes(e) \in Seq(Steps) /\ IsPrefix(Bytes(e), Visible)
    BY RunsOnDisk DEF Runs
  <2>3. QED
    BY <2>2, <1>4, <1>5, PrefixTransitive
<1>8. \A e \in disk' :
        /\ e.run # Absent => e.run \in synced' /\ content'[e.run] \in Runs
        /\ IsPrefix(stable', Bytes(e)') /\ IsPrefix(Bytes(e)', Visible')
  <2>1. TAKE e \in disk'
  <2>2. CASE e = d
    BY <2>2, <1>1, <1>2, <1>3, <1>5, <1>6 DEF Runs, files
  <2>3. CASE e \in disk
    BY <2>3, <1>1, <1>2, <1>7, RunsOnDisk DEF files
  <2>4. QED
    BY <2>2, <2>3 DEF Change
<1>9. QED
  BY <1>1, <1>8, RunsOnDisk DEF EveryDiskIsARun, Change

-----------------------------------------------------------------------------
(* Who moves: a process that gives up, or the owner of the lock.           *)

LEMMA StepOutside ==
  ASSUME IInv, NEW p \in Processes, NEW c \in Call, c.at \in Outside, OneTransition(c),
         call' = [call EXCEPT ![p] = c], lock' = IF lock = p THEN Nobody ELSE lock,
         UNCHANGED <<files, names, stable>>
  PROVE  IInv'
<1>1. TypeOK'
  BY DEF IInv, TypeOK, files, names
<1>2. EveryDiskIsARun'
  BY DEF IInv, EveryDiskIsARun, files, names, Bytes, Visible
<1>3. Exclusion'
  BY FileSystemAssumption DEF IInv, TypeOK, Exclusion
<1>4. ASSUME NEW q \in Processes
      PROVE  (OneTransition(call[q]) /\ OwnerKnows(call[q]))'
  <2>1. CASE q = p
    <3>1. call'[q] = c
      BY <2>1 DEF IInv, TypeOK
    <3>2. OneTransition(call'[q])
      BY <3>1
    <3>3. OwnerKnows(call[q])'
      BY <3>1 DEF OwnerKnows, Outside
    <3>4. QED
      BY <3>2, <3>3 DEF OneTransition
  <2>2. CASE q # p
    <3>1. call'[q] = call[q]
      BY <2>2 DEF IInv, TypeOK
    <3>2. QED
      BY <3>1 DEF IInv, OneTransition, OwnerKnows, files, names, Bytes, Visible
  <2>3. QED
    BY <2>1, <2>2
<1>5. QED
  BY <1>1, <1>2, <1>3, <1>4 DEF IInv

LEMMA StepOfOwner ==
  ASSUME IInv, NEW p \in Processes, lock \in {p, Nobody}, NEW c \in Call,
         call' = [call EXCEPT ![p] = c],
         lock' = IF c.at \in Outside THEN Nobody ELSE p,
         OneTransition(c), OwnerKnows(call[p])'
  PROVE  /\ call' \in [Processes -> Call] /\ lock' \in Processes \cup {Nobody}
         /\ Exclusion'
         /\ \A q \in Processes : (OneTransition(call[q]) /\ OwnerKnows(call[q]))'
<1>1. call' \in [Processes -> Call] /\ call'[p] = c
  BY DEF IInv, TypeOK
<1>2. ASSUME NEW q \in Processes, q # p
      PROVE  call'[q] = call[q] /\ call[q].at \in Outside
  BY <1>2, FileSystemAssumption DEF IInv, TypeOK, Exclusion
<1>3. Exclusion'
  BY <1>1, <1>2, FileSystemAssumption DEF Exclusion
<1>4. ASSUME NEW q \in Processes
      PROVE  (OneTransition(call[q]) /\ OwnerKnows(call[q]))'
  <2>1. CASE q = p
    BY <2>1, <1>1 DEF OneTransition
  <2>2. CASE q # p
    <3>1. OneTransition(call[q])'
      BY <2>2, <1>2 DEF IInv, OneTransition
    <3>2. OwnerKnows(call[q])'
      BY <2>2, <1>2 DEF OwnerKnows, Outside
    <3>3. QED
      BY <3>1, <3>2
  <2>3. QED
    BY <2>1, <2>2
<1>5. QED
  BY <1>1, <1>3, <1>4

LEMMA CallAt ==
  ASSUME IInv, NEW p \in Processes, NEW at \in Points, GoTo(p, at)
  PROVE  /\ call[p] \in Call /\ call'[p] \in Call /\ call' = [call EXCEPT ![p] = call'[p]]
         /\ call'[p].at = at /\ call'[p].mode = call[p].mode
         /\ call'[p].expected = call[p].expected /\ call'[p].intended = call[p].intended
         /\ call'[p].temp = call[p].temp
<1>1. call[p] \in Call /\ call'[p] = [call[p] EXCEPT !.at = at]
  BY DEF IInv, TypeOK, GoTo
<1>2. call' = [call EXCEPT ![p] = call'[p]]
  BY DEF IInv, TypeOK, GoTo
<1>3. QED
  BY <1>1, <1>2 DEF Call

\* The owner of the lock moves on with the call it has.
LEMMA OwnerGoes ==
  ASSUME IInv, NEW p \in Processes, lock \in {p, Nobody}, NEW at \in Points \ Outside,
         call[p].at # "idle", GoTo(p, at), lock' = p, OwnerKnows(call[p])'
  PROVE  /\ call' \in [Processes -> Call] /\ lock' \in Processes \cup {Nobody}
         /\ Exclusion'
         /\ \A q \in Processes : (OneTransition(call[q]) /\ OwnerKnows(call[q]))'
<1>1. /\ call'[p] \in Call /\ call' = [call EXCEPT ![p] = call'[p]] /\ call'[p].at = at
      /\ call'[p].mode = call[p].mode /\ call'[p].expected = call[p].expected
      /\ call'[p].intended = call[p].intended
  BY CallAt
<1>2. OneTransition(call'[p])
  BY <1>1 DEF IInv, OneTransition
<1>3. QED
  BY <1>1, <1>2, StepOfOwner

\* The owner of the lock gives it back.
LEMMA OwnerLeaves ==
  ASSUME IInv, NEW p \in Processes, lock = p, Return(p), lock' = Nobody
  PROVE  /\ call' \in [Processes -> Call] /\ lock' \in Processes \cup {Nobody}
         /\ Exclusion'
         /\ \A q \in Processes : (OneTransition(call[q]) /\ OwnerKnows(call[q]))'
<1>1. Idle \in Call /\ Idle.at = "idle" /\ OneTransition(Idle)
  BY EmptySeq DEF Idle, Call, Points, Modes, Runs, OneTransition
<1>2. call' = [call EXCEPT ![p] = Idle] /\ call'[p] = Idle
  BY DEF Return, IInv, TypeOK
<1>3. OwnerKnows(call[p])'
  BY <1>1, <1>2 DEF OwnerKnows
<1>4. QED
  BY <1>1, <1>2, <1>3, StepOfOwner DEF Outside

\* The process at a point past the lock owns it.
LEMMA Owner ==
  ASSUME IInv, NEW p \in Processes, call[p].at \notin Outside
  PROVE  lock = p
  BY DEF IInv, Exclusion

-----------------------------------------------------------------------------
(* One step per action.                                                    *)

LEMMA InitHolds == Init => IInv
<1> SUFFICES ASSUME Init PROVE IInv
  OBVIOUS
<1>1. << >> \in Runs /\ IsPrefix(<< >>, << >>)
  BY EmptyPrefix, EmptySeq DEF Runs
<1>2. Idle \in Call /\ Idle.at = "idle" /\ OneTransition(Idle)
  BY <1>1 DEF Idle, Call, Points, Modes, OneTransition
<1>3. TypeOK
  BY <1>1, <1>2 DEF Init, TypeOK, Directory
<1>4. Exclusion
  BY <1>2, FileSystemAssumption DEF Init, Exclusion, Outside
<1>5. \A p \in Processes : OneTransition(call[p]) /\ OwnerKnows(call[p])
  BY <1>2 DEF Init, OwnerKnows
<1>6. EveryDiskIsARun
  BY <1>1 DEF Init, EveryDiskIsARun, Bytes, Visible
<1>7. QED
  BY <1>3, <1>4, <1>5, <1>6 DEF IInv

LEMMA CallsHold ==
  ASSUME IInv, NEW p \in Processes, Calls(p)
  PROVE  IInv'
<1>1. ASSUME NEW mode \in Modes, NEW e \in Runs, NEW i \in Runs, Start(p, mode, e, i),
             mode \in {"ordinary", "strict"} => \E s \in Steps : i = Append(e, s),
             mode \in {"save", "provision"} => e = << >> /\ \E s \in Steps : i = <<s>>
      PROVE  IInv'
  <2> DEFINE c == [at |-> "waiting", mode |-> mode, expected |-> e, intended |-> i,
                   temp |-> Absent]
  <2>1. c \in Call /\ c.at \in Outside
    BY <1>1 DEF Call, Points, Outside
  <2>2. OneTransition(c)
    BY <1>1 DEF OneTransition
  <2>3. lock # p
    BY <1>1, FileSystemAssumption DEF IInv, Exclusion, Start, Outside
  <2>4. QED
    BY <1>1, <2>1, <2>2, <2>3, StepOutside DEF Start
<1>2. Visible \in Runs
  BY RunsOnDisk
<1>3. ASSUME NEW s \in Steps, NEW mode \in {"save", "provision"}, Create(p, mode, s)
      PROVE  IInv'
  <2>1. << >> \in Runs /\ <<s>> \in Runs
    BY EmptySeq DEF Runs
  <2>2. QED
    BY <1>1, <1>3, <2>1 DEF Create, Modes
<1>4. ASSUME NEW s \in Steps, NEW mode \in {"ordinary", "strict"}, Transition(p, mode, s)
      PROVE  IInv'
  <2>1. Append(Visible, s) \in Runs
    BY <1>2, AppendProperties DEF Runs
  <2>2. QED
    BY <1>1, <1>2, <1>4, <2>1 DEF Transition, Modes
<1>5. ASSUME Resync(p) PROVE IInv'
  BY <1>1, <1>2, <1>5 DEF Resync, Modes
<1>6. QED
  BY <1>3, <1>4, <1>5 DEF Calls

LEMMA GivesUp ==
  ASSUME IInv, NEW p \in Processes, Busy(p) \/ AcquireRefused(p) \/ Crash(p)
  PROVE  IInv'
<1>1. Idle \in Call /\ Idle.at \in Outside /\ OneTransition(Idle)
  BY EmptySeq DEF Idle, Call, Points, Modes, Runs, OneTransition, Outside
<1>2. /\ call' = [call EXCEPT ![p] = Idle] /\ UNCHANGED <<files, names, stable>>
      /\ lock' = IF lock = p THEN Nobody ELSE lock
  BY FileSystemAssumption
     DEF Busy, AcquireRefused, Crash, Return, IInv, Exclusion, Outside
<1>3. QED
  BY <1>1, <1>2, StepOutside

LEMMA AcquireHolds ==
  ASSUME IInv, NEW p \in Processes, Acquire(p)
  PROVE  IInv'
<1> DEFINE at == IF dir.temps = {} THEN "compare" ELSE "reclaim"
<1>1. at \in Points \ Outside /\ GoTo(p, at) /\ call[p].at # "idle"
  BY DEF Acquire, Points, Outside
<1>2. call'[p].at = at
  BY <1>1, CallAt
<1>3. OwnerKnows(call[p])'
  BY <1>2 DEF OwnerKnows
<1>4. lock \in {p, Nobody} /\ lock' = p
  BY DEF Acquire
<1>5. /\ call' \in [Processes -> Call] /\ lock' \in Processes \cup {Nobody} /\ Exclusion'
      /\ \A q \in Processes : (OneTransition(call[q]) /\ OwnerKnows(call[q]))'
  <2> HIDE DEF at
  <2> QED
    BY <1>1, <1>3, <1>4, OwnerGoes
<1>6. EveryDiskIsARun'
  BY DEF IInv, EveryDiskIsARun, Acquire, files, names, Bytes, Visible
<1>7. TypeOK'
  BY <1>5 DEF IInv, TypeOK, Acquire, files, names
<1>8. QED
  BY <1>5, <1>6, <1>7 DEF IInv

LEMMA CompareHolds ==
  ASSUME IInv, NEW p \in Processes, Compare(p)
  PROVE  IInv'
<1>1. PICK at \in {"create", "syncfile"} :
        /\ GoTo(p, at)
        /\ at = "create" => MayPublish(p)
        /\ at = "syncfile" => IsExactRetry(p)
  BY DEF Compare
<1>2. lock = p /\ lock' = p /\ call[p].at # "idle" /\ at \in Points \ Outside
  BY Owner DEF Compare, Points, Outside
<1>3. UNCHANGED <<files, names, stable>>
  BY DEF Compare
<1>4. /\ call'[p].at = at /\ call'[p].mode = call[p].mode
      /\ call'[p].expected = call[p].expected /\ call[p] \in Call
  BY <1>1, <1>2, CallAt
<1>5. at = "create" => call[p].mode # "resync" /\ Visible = call[p].expected
  <2>1. call[p].mode \in {"save", "provision"} => call[p].expected = << >>
    BY <1>2 DEF IInv, OneTransition
  <2>2. QED
    BY <1>1, <2>1 DEF MayPublish, Visible, Bytes
<1>6. OwnerKnows(call[p])'
  BY <1>1, <1>3, <1>4, <1>5 DEF OwnerKnows, IsExactRetry, files, names, Visible, Bytes
<1>7. /\ call' \in [Processes -> Call] /\ lock' \in Processes \cup {Nobody} /\ Exclusion'
      /\ \A q \in Processes : (OneTransition(call[q]) /\ OwnerKnows(call[q]))'
  BY <1>1, <1>2, <1>6, OwnerGoes
<1>8. EveryDiskIsARun'
  BY <1>3 DEF IInv, EveryDiskIsARun, files, names, Bytes, Visible
<1>9. TypeOK'
  BY <1>3, <1>7 DEF IInv, TypeOK, files, names
<1>10. QED
  BY <1>7, <1>8, <1>9 DEF IInv

LEMMA ReclaimHolds ==
  ASSUME IInv, NEW p \in Processes, Reclaim(p)
  PROVE  IInv' /\ Visible' = Visible
<1> DEFINE d == [dir EXCEPT !.temps = {}]
<1>1. d \in Directory /\ d.run = dir.run /\ Change(d)
  BY DEF Reclaim, IInv, TypeOK, Directory
<1>2. EveryDiskIsARun' /\ Visible' = Visible /\ dir' \in Directory /\ disk' \subseteq Directory
  <2> HIDE DEF d
  <2> QED
    BY <1>1, SameRun DEF Reclaim, files, IInv, TypeOK
<1>3. "reclaimed" \in Points \ Outside /\ GoTo(p, "reclaimed") /\ call[p].at # "idle"
      /\ lock = p /\ lock' = p
  BY Owner DEF Reclaim, Points, Outside
<1>4. OwnerKnows(call[p])'
  BY <1>3, CallAt DEF OwnerKnows
<1>5. /\ call' \in [Processes -> Call] /\ lock' \in Processes \cup {Nobody} /\ Exclusion'
      /\ \A q \in Processes : (OneTransition(call[q]) /\ OwnerKnows(call[q]))'
  BY <1>3, <1>4, OwnerGoes
<1>6. TypeOK'
  BY <1>2, <1>5 DEF IInv, TypeOK, Reclaim, files
<1>7. QED
  BY <1>2, <1>5, <1>6 DEF IInv

LEMMA SyncReclaimedHolds ==
  ASSUME IInv, NEW p \in Processes, SyncReclaimed(p)
  PROVE  IInv' /\ Visible' = Visible
<1>1. /\ EveryDiskIsARun' /\ Visible' = Visible
      /\ content' \in [Inodes -> Runs \cup {Torn}] /\ synced' \subseteq Inodes
      /\ dir' \in Directory /\ disk' \subseteq Directory
  <2>1. dir \in disk /\ dir.run \in Named(dir)
    BY RunsOnDisk DEF Named
  <2>2. QED
    BY <2>1, OneDirectory DEF SyncReclaimed, SyncDirectory, Visible
<1>2. "compare" \in Points \ Outside /\ GoTo(p, "compare") /\ call[p].at # "idle"
      /\ lock = p /\ lock' = p
  BY Owner DEF SyncReclaimed, Points, Outside
<1>3. OwnerKnows(call[p])'
  BY <1>2, CallAt DEF OwnerKnows
<1>4. /\ call' \in [Processes -> Call] /\ lock' \in Processes \cup {Nobody} /\ Exclusion'
      /\ \A q \in Processes : (OneTransition(call[q]) /\ OwnerKnows(call[q]))'
  BY <1>2, <1>3, OwnerGoes
<1>5. TypeOK'
  BY <1>1, <1>4 DEF IInv, TypeOK, SyncReclaimed
<1>6. QED
  BY <1>1, <1>4, <1>5 DEF IInv

LEMMA CreateTempHolds ==
  ASSUME IInv, NEW p \in Processes, CreateTemp(p)
  PROVE  IInv' /\ Visible' = Visible
<1>1. PICK i \in Inodes :
        /\ Free(i)
        /\ content' = [content EXCEPT ![i] = Torn]
        /\ synced' = synced \ {i}
        /\ Change([dir EXCEPT !.temps = @ \cup {i}])
        /\ call' = [call EXCEPT ![p].at = "write", ![p].temp = i]
  BY DEF CreateTemp
<1> DEFINE d == [dir EXCEPT !.temps = @ \cup {i}]
<1>2. d \in Directory /\ d.run = dir.run /\ dir' = d /\ disk' = disk \cup {d}
  BY <1>1 DEF Change, IInv, TypeOK, Directory
<1>3. \A e \in disk' : e.run # i /\ (e \in disk \/ e = d) /\ e \in Directory
  BY <1>1, <1>2, RunsOnDisk DEF Free
<1>4. \A e \in disk' : Bytes(e)' = Bytes(e)
  BY <1>1, <1>3 DEF Bytes, IInv, TypeOK
<1>5. Bytes(d) = Visible /\ Visible' = Visible
  <2>1. Bytes(d) = Visible
    BY <1>2 DEF Bytes, Visible
  <2>2. Visible' = Bytes(d)'
    BY <1>2 DEF Bytes, Visible
  <2>3. QED
    BY <2>1, <2>2, <1>2, <1>4
<1>6. IsPrefix(stable, Visible) /\ IsPrefix(Visible, Visible) /\ stable' = stable
  BY RunsOnDisk, PrefixReflexive DEF Runs, CreateTemp
<1>7. EveryDiskIsARun'
  <2>1. \A e \in disk' : e.run # Absent => e.run \in synced' /\ content'[e.run] \in Runs
    <3>1. TAKE e \in disk'
    <3>2. HAVE e.run # Absent
    <3>3. e.run \in synced /\ content[e.run] \in Runs /\ e.run \in Inodes
      BY <1>2, <1>3, <3>2, RunsOnDisk
    <3>4. QED
      BY <3>3, <1>1, <1>3 DEF IInv, TypeOK
  <2>2. \A e \in disk' : IsPrefix(stable', Bytes(e)') /\ IsPrefix(Bytes(e)', Visible')
    <3> HIDE DEF d
    <3> QED
      BY <1>3, <1>4, <1>5, <1>6, RunsOnDisk
  <2>3. dir' \in disk'
    BY <1>2
  <2>4. QED
    BY <2>1, <2>2, <2>3 DEF EveryDiskIsARun
<1>8. lock = p /\ lock' = p
  BY Owner DEF CreateTemp, Outside
<1>9. /\ call'[p] \in Call /\ call' = [call EXCEPT ![p] = call'[p]] /\ call'[p].at = "write"
      /\ call'[p].mode = call[p].mode /\ call'[p].expected = call[p].expected
      /\ call'[p].intended = call[p].intended /\ call'[p].temp = i /\ call[p].at = "create"
  <2>1. call[p] \in Call /\ call'[p] = [call[p] EXCEPT !.at = "write", !.temp = i]
    BY <1>1 DEF IInv, TypeOK
  <2>2. call' = [call EXCEPT ![p] = call'[p]] /\ call[p].at = "create"
    BY <1>1 DEF IInv, TypeOK, CreateTemp
  <2>3. QED
    BY <2>1, <2>2 DEF Call, Points
<1>10. OneTransition(call'[p])
  BY <1>9 DEF IInv, OneTransition
<1>11. call[p].mode # "resync" /\ Visible = call[p].expected
  BY <1>9 DEF IInv, OwnerKnows
<1>12. OwnerKnows(call[p])'
  BY <1>3, <1>5, <1>9, <1>11 DEF OwnerKnows
<1>13. /\ call' \in [Processes -> Call] /\ lock' \in Processes \cup {Nobody} /\ Exclusion'
       /\ \A q \in Processes : (OneTransition(call[q]) /\ OwnerKnows(call[q]))'
  BY <1>8, <1>9, <1>10, <1>12, StepOfOwner DEF Outside
<1>14. TypeOK'
  BY <1>1, <1>2, <1>3, <1>6, <1>13 DEF IInv, TypeOK
<1>15. QED
  BY <1>5, <1>7, <1>13, <1>14 DEF IInv

LEMMA WriteTempHolds ==
  ASSUME IInv, NEW p \in Processes, WriteTemp(p)
  PROVE  IInv' /\ Visible' = Visible
<1>1. /\ call[p].at = "write" /\ lock = p /\ lock' = p
      /\ UNCHANGED <<synced, dir, disk, stable>> /\ GoTo(p, "flush")
      /\ content' = [content EXCEPT ![call[p].temp] = call[p].intended]
  BY Owner DEF WriteTemp, Outside, names
<1>2. /\ call[p].mode # "resync" /\ Visible = call[p].expected /\ call[p].temp \in Inodes
      /\ \A d \in disk : d.run # call[p].temp
  BY <1>1 DEF IInv, OwnerKnows
<1>3. /\ call[p] \in Call /\ call'[p].at = "flush" /\ call'[p].mode = call[p].mode
      /\ call'[p].expected = call[p].expected /\ call'[p].intended = call[p].intended
      /\ call'[p].temp = call[p].temp /\ call[p].intended \in Runs
  BY <1>1, CallAt DEF Points, Call
<1>4. \A d \in disk : Bytes(d)' = Bytes(d)
  BY <1>1, <1>2 DEF Bytes, IInv, TypeOK
<1>5. Visible' = Visible
  BY <1>1, <1>2, RunsOnDisk DEF Visible, Bytes, IInv, TypeOK
<1>6. EveryDiskIsARun'
  BY <1>1, <1>2, <1>4, <1>5, RunsOnDisk DEF EveryDiskIsARun, IInv, TypeOK
<1>7. content'[call[p].temp] = call[p].intended
  BY <1>1, <1>2 DEF IInv, TypeOK
<1>8. OwnerKnows(call[p])'
  BY <1>1, <1>2, <1>3, <1>5, <1>7 DEF OwnerKnows
<1>9. /\ call' \in [Processes -> Call] /\ lock' \in Processes \cup {Nobody} /\ Exclusion'
      /\ \A q \in Processes : (OneTransition(call[q]) /\ OwnerKnows(call[q]))'
  BY <1>1, <1>8, OwnerGoes DEF Points, Outside
<1>10. TypeOK'
  BY <1>1, <1>3, <1>9 DEF IInv, TypeOK
<1>11. QED
  BY <1>5, <1>6, <1>9, <1>10 DEF IInv

LEMMA FlushTempHolds ==
  ASSUME IInv, NEW p \in Processes, FlushTemp(p)
  PROVE  IInv' /\ Visible' = Visible
<1>1. PICK at \in {"rename", "link"} : GoTo(p, at)
  BY DEF FlushTemp, PublicationPoint
<1>2. /\ call[p].at = "flush" /\ lock = p /\ lock' = p
      /\ UNCHANGED <<content, dir, disk, stable>>
      /\ synced' = synced \cup {call[p].temp}
  BY Owner DEF FlushTemp, Outside, names
<1>3. /\ call[p].mode # "resync" /\ Visible = call[p].expected /\ call[p].temp \in Inodes
      /\ \A d \in disk : d.run # call[p].temp
      /\ content[call[p].temp] = call[p].intended
  BY <1>2 DEF IInv, OwnerKnows
<1>4. /\ call'[p].at = at /\ call'[p].mode = call[p].mode
      /\ call'[p].expected = call[p].expected /\ call'[p].intended = call[p].intended
      /\ call'[p].temp = call[p].temp
  BY <1>1, CallAt DEF Points
<1>5. Visible' = Visible /\ \A d \in disk : Bytes(d)' = Bytes(d)
  BY <1>2 DEF Visible, Bytes
<1>6. EveryDiskIsARun'
  BY <1>2, <1>5, RunsOnDisk DEF EveryDiskIsARun
<1>7. OwnerKnows(call[p])'
  BY <1>2, <1>3, <1>4, <1>5 DEF OwnerKnows
<1>8. /\ call' \in [Processes -> Call] /\ lock' \in Processes \cup {Nobody} /\ Exclusion'
      /\ \A q \in Processes : (OneTransition(call[q]) /\ OwnerKnows(call[q]))'
  BY <1>1, <1>2, <1>7, OwnerGoes DEF Points, Outside
<1>9. TypeOK'
  BY <1>2, <1>3, <1>8 DEF IInv, TypeOK
<1>10. QED
  BY <1>5, <1>6, <1>8, <1>9 DEF IInv

\* The two publications of a run.
LEMMA PublishHolds ==
  ASSUME IInv, NEW p \in Processes, Rename(p) \/ HardLink(p)
  PROVE  IInv' /\ UNCHANGED stable /\ \E s \in Steps : Visible' = Append(Visible, s)
<1> DEFINE d == IF Rename(p) THEN [run |-> call[p].temp, temps |-> dir.temps \ {call[p].temp}]
                             ELSE [dir EXCEPT !.run = call[p].temp]
<1>1. /\ call[p].at \in {"rename", "link"} /\ lock = p /\ lock' = p
      /\ UNCHANGED <<files, stable>>
  BY Owner DEF Rename, HardLink, Outside
<1>2. /\ call[p].mode # "resync" /\ Visible = call[p].expected /\ call[p].temp \in Inodes
      /\ content[call[p].temp] = call[p].intended /\ call[p].temp \in synced
  BY <1>1 DEF IInv, OwnerKnows
<1>3. d \in Directory /\ Change(d) /\ d.run = call[p].temp
  BY <1>2 DEF Rename, HardLink, IInv, TypeOK, Directory
<1>4. PICK s \in Steps : call[p].intended = Append(Visible, s)
  <2>1. call[p].mode \in Modes
    BY DEF IInv, TypeOK, Call
  <2>2. CASE call[p].mode \in {"ordinary", "strict"}
    BY <2>2, <1>2 DEF IInv, OneTransition
  <2>3. CASE call[p].mode \in {"save", "provision"}
    <3>1. PICK s \in Steps : call[p].intended = <<s>>
      BY <2>3, <1>1 DEF IInv, OneTransition
    <3>2. Visible = << >>
      BY <2>3, <1>1, <1>2 DEF IInv, OneTransition
    <3>3. <<s>> = Append(<< >>, s)
      OBVIOUS
    <3>4. QED
      BY <3>1, <3>2, <3>3
  <2>4. QED
    BY <2>1, <2>2, <2>3, <1>2 DEF Modes
<1>5. /\ EveryDiskIsARun' /\ Visible' = Append(Visible, s)
      /\ dir' \in Directory /\ disk' \subseteq Directory
  <2>1. d.run # Absent /\ d.run \in synced /\ content[d.run] = Append(Visible, s)
    BY <1>2, <1>3, <1>4, FileSystemAssumption
  <2> HIDE DEF d
  <2> QED
    BY <1>1, <1>3, <2>1, NewRun
<1>6. PICK at \in {"unlink", "syncdir"} : GoTo(p, at)
  BY DEF Rename, HardLink
<1>7. call'[p].at = at /\ call'[p].temp = call[p].temp
  BY <1>6, CallAt DEF Points
<1>8. OwnerKnows(call[p])'
  BY <1>2, <1>7 DEF OwnerKnows
<1>9. /\ call' \in [Processes -> Call] /\ lock' \in Processes \cup {Nobody} /\ Exclusion'
      /\ \A q \in Processes : (OneTransition(call[q]) /\ OwnerKnows(call[q]))'
  BY <1>1, <1>6, <1>8, OwnerGoes DEF Points, Outside
<1>10. TypeOK'
  BY <1>1, <1>5, <1>9 DEF IInv, TypeOK, files
<1>11. QED
  BY <1>1, <1>5, <1>9, <1>10 DEF IInv

LEMMA UnlinkTempHolds ==
  ASSUME IInv, NEW p \in Processes, UnlinkTemp(p)
  PROVE  IInv' /\ Visible' = Visible
<1> DEFINE d == [dir EXCEPT !.temps = @ \ {call[p].temp}]
<1>1. d \in Directory /\ d.run = dir.run /\ Change(d)
  BY DEF UnlinkTemp, IInv, TypeOK, Directory
<1>2. EveryDiskIsARun' /\ Visible' = Visible /\ dir' \in Directory /\ disk' \subseteq Directory
  <2> HIDE DEF d
  <2> QED
    BY <1>1, SameRun DEF UnlinkTemp, files, IInv, TypeOK
<1>3. "syncdir" \in Points \ Outside /\ GoTo(p, "syncdir") /\ call[p].at # "idle"
      /\ lock = p /\ lock' = p
  BY Owner DEF UnlinkTemp, Points, Outside
<1>4. OwnerKnows(call[p])'
  BY <1>3, CallAt DEF OwnerKnows
<1>5. /\ call' \in [Processes -> Call] /\ lock' \in Processes \cup {Nobody} /\ Exclusion'
      /\ \A q \in Processes : (OneTransition(call[q]) /\ OwnerKnows(call[q]))'
  BY <1>3, <1>4, OwnerGoes
<1>6. TypeOK'
  BY <1>2, <1>5 DEF IInv, TypeOK, UnlinkTemp, files
<1>7. QED
  BY <1>2, <1>5, <1>6 DEF IInv

LEMMA SyncFileHolds ==
  ASSUME IInv, NEW p \in Processes, SyncFile(p)
  PROVE  IInv' /\ Visible' = Visible
<1>1. /\ call[p].at = "syncfile" /\ lock = p /\ lock' = p
      /\ UNCHANGED <<content, dir, disk, stable>>
      /\ synced' = synced \cup {dir.run}
  BY Owner DEF SyncFile, Outside, names
<1>2. dir.run \in Inodes
  BY <1>1, RunsOnDisk DEF IInv, OwnerKnows
<1>3. Visible' = Visible /\ \A d \in disk : Bytes(d)' = Bytes(d)
  BY <1>1 DEF Visible, Bytes
<1>4. EveryDiskIsARun'
  BY <1>1, <1>3, RunsOnDisk DEF EveryDiskIsARun
<1>5. "syncdir" \in Points \ Outside /\ GoTo(p, "syncdir")
  BY DEF SyncFile, Points, Outside
<1>6. OwnerKnows(call[p])'
  BY <1>5, CallAt DEF OwnerKnows
<1>7. /\ call' \in [Processes -> Call] /\ lock' \in Processes \cup {Nobody} /\ Exclusion'
      /\ \A q \in Processes : (OneTransition(call[q]) /\ OwnerKnows(call[q]))'
  BY <1>1, <1>5, <1>6, OwnerGoes
<1>8. TypeOK'
  BY <1>1, <1>2, <1>7 DEF IInv, TypeOK
<1>9. QED
  BY <1>3, <1>4, <1>7, <1>8 DEF IInv

LEMMA SyncParentHolds ==
  ASSUME IInv, NEW p \in Processes, SyncParent(p)
  PROVE  IInv' /\ Visible' = Visible /\ stable' = Visible
<1>1. /\ EveryDiskIsARun' /\ Visible' = Visible /\ stable' \in Runs
      /\ content' \in [Inodes -> Runs \cup {Torn}] /\ synced' \subseteq Inodes
      /\ dir' \in Directory /\ disk' \subseteq Directory
  <2>1. dir \in disk /\ dir.run \in Named(dir)
    BY RunsOnDisk DEF Named
  <2>2. QED
    BY <2>1, OneDirectory DEF SyncParent, SyncDirectory, Visible
<1>2. lock = p /\ Return(p) /\ lock' = Nobody /\ stable' = Visible
  BY Owner DEF SyncParent, Outside
<1>3. /\ call' \in [Processes -> Call] /\ lock' \in Processes \cup {Nobody} /\ Exclusion'
      /\ \A q \in Processes : (OneTransition(call[q]) /\ OwnerKnows(call[q]))'
  BY <1>2, OwnerLeaves
<1>4. TypeOK'
  BY <1>1, <1>3 DEF IInv, TypeOK
<1>5. QED
  BY <1>1, <1>2, <1>3, <1>4 DEF IInv

LEMMA FailHolds ==
  ASSUME IInv, NEW p \in Processes, Fail(p)
  PROVE  IInv' /\ Visible' = Visible
<1>1. PICK d \in Directory : d.run = dir.run /\ Change(d)
  <2>1. dir \in Directory /\ [dir EXCEPT !.temps = @ \ {call[p].temp}] \in Directory
        /\ [dir EXCEPT !.temps = @ \ {call[p].temp}].run = dir.run
    BY DEF IInv, TypeOK, Directory
  <2>2. QED
    BY <2>1 DEF Fail
<1>2. EveryDiskIsARun' /\ Visible' = Visible /\ dir' \in Directory /\ disk' \subseteq Directory
  BY <1>1, SameRun DEF Fail, files, IInv, TypeOK
<1>3. /\ call' \in [Processes -> Call] /\ lock' \in Processes \cup {Nobody} /\ Exclusion'
      /\ \A q \in Processes : (OneTransition(call[q]) /\ OwnerKnows(call[q]))'
  BY OwnerLeaves DEF Fail
<1>4. TypeOK'
  BY <1>2, <1>3 DEF IInv, TypeOK, Fail, files
<1>5. QED
  BY <1>2, <1>3, <1>4 DEF IInv

LEMMA PowerLossHolds ==
  ASSUME IInv, PowerLoss
  PROVE  IInv' /\ UNCHANGED stable
         /\ \E n \in Len(stable) .. Len(Visible) : Visible' = SubSeq(Visible, 1, n)
<1>1. PICK d \in disk : Settle(d, synced \cap Named(d))
  BY DEF PowerLoss
<1>2. stable' = stable /\ lock' = Nobody /\ call' = [q \in Processes |-> Idle]
  BY DEF PowerLoss
<1>3. /\ EveryDiskIsARun' /\ Visible' = Bytes(d) /\ stable' \in Runs
      /\ content' \in [Inodes -> Runs \cup {Torn}] /\ synced' \subseteq Inodes
      /\ dir' \in Directory /\ disk' \subseteq Directory
  <2>1. CASE d.run # Absent
    BY <1>1, <1>2, <2>1, RunsOnDisk, OneDirectory DEF Named
  <2>2. CASE d.run = Absent
    <3>1. Settle(d, (synced \cap Named(d)) \cup {Absent})
      <4>1. \A i \in Inodes : i \in (synced \cap Named(d)) \cup {Absent}
                               <=> i \in synced \cap Named(d)
        BY FileSystemAssumption
      <4>2. synced \cap ((synced \cap Named(d)) \cup {Absent}) = synced \cap Named(d)
        BY FileSystemAssumption DEF IInv, TypeOK
      <4>3. QED
        BY <1>1, <4>1, <4>2 DEF Settle
    <3>2. QED
      BY <1>2, <2>2, <3>1, OneDirectory
  <2>3. QED
    BY <2>1, <2>2
<1>4. Idle \in Call /\ Idle.at = "idle" /\ OneTransition(Idle)
  BY EmptySeq DEF Idle, Call, Points, Modes, Runs, OneTransition
<1>5. Exclusion'
  BY <1>2, <1>4, FileSystemAssumption DEF Exclusion, Outside
<1>6. \A q \in Processes : (OneTransition(call[q]) /\ OwnerKnows(call[q]))'
  BY <1>2, <1>4 DEF OwnerKnows, OneTransition
<1>7. TypeOK'
  BY <1>2, <1>3, <1>4 DEF TypeOK
<1>8. IInv'
  BY <1>3, <1>5, <1>6, <1>7 DEF IInv
<1>9. \E n \in Len(stable) .. Len(Visible) : Visible' = SubSeq(Visible, 1, n)
  <2>1. /\ stable \in Seq(Steps) /\ Visible \in Seq(Steps) /\ Bytes(d) \in Seq(Steps)
        /\ IsPrefix(stable, Bytes(d)) /\ IsPrefix(Bytes(d), Visible)
    BY RunsOnDisk DEF IInv, TypeOK, Runs
  <2>2. /\ Len(stable) <= Len(Bytes(d)) /\ Len(Bytes(d)) <= Len(Visible)
        /\ Bytes(d) = SubSeq(Visible, 1, Len(Bytes(d)))
    BY <2>1, PrefixIsSubSeq
  <2>3. Len(stable) \in Nat /\ Len(Bytes(d)) \in Nat /\ Len(Visible) \in Nat
    BY <2>1, LenProperties
  <2>4. Len(Bytes(d)) \in Len(stable) .. Len(Visible)
    BY <2>2, <2>3
  <2>5. QED
    BY <2>2, <2>4, <1>3
<1>10. QED
  BY <1>2, <1>8, <1>9

-----------------------------------------------------------------------------
(* The theorems.                                                           *)

\* Every step of every process, and a power loss, keeps the invariant.
THEOREM IInvInductive == IInv /\ [Next]_vars => IInv'
<1> SUFFICES ASSUME IInv, [Next]_vars PROVE IInv'
  OBVIOUS
<1>1. ASSUME NEW p \in Processes, Calls(p) \/ Locking(p) \/ Publication(p) \/ Crash(p)
      PROVE  IInv'
  <2>1. CASE Calls(p)
    BY <2>1, CallsHold
  <2>2. CASE Locking(p)
    BY <2>2, GivesUp, AcquireHolds, ReclaimHolds, SyncReclaimedHolds DEF Locking
  <2>3. CASE Publication(p)
    BY <2>3, CompareHolds, CreateTempHolds, WriteTempHolds, FlushTempHolds, PublishHolds,
       UnlinkTempHolds, SyncFileHolds, SyncParentHolds, FailHolds DEF Publication
  <2>4. CASE Crash(p)
    BY <2>4, GivesUp
  <2>5. QED
    BY <1>1, <2>1, <2>2, <2>3, <2>4
<1>2. CASE PowerLoss
  BY <1>2, PowerLossHolds
<1>3. CASE UNCHANGED vars
  BY <1>3 DEF vars, files, names, IInv, TypeOK, Exclusion, OneTransition, OwnerKnows,
              EveryDiskIsARun, Bytes, Visible
<1>4. QED
  BY <1>1, <1>2, <1>3 DEF Next

\* The invariant holds in every state of every execution.
THEOREM IInvHolds == Spec => []IInv
<1>1. Init => IInv
  BY InitHolds
<1>2. IInv /\ [Next]_vars => IInv'
  BY IInvInductive
<1>3. QED
  BY <1>1, <1>2, PTL DEF Spec

\* The variables keep their types: run.json and the temporaries are inodes, calls and
\* the lock belong to processes.
THEOREM TypesHold == Spec => []TypeOK
<1>1. IInv => TypeOK
  BY DEF IInv
<1>2. QED
  BY <1>1, IInvHolds, PTL

\* No reader sees a run.json that was not completely written, whatever died or lost
\* power before: the bytes are synced before the name is given.
THEOREM NeverTornHolds == Spec => []NeverTorn
<1>1. IInv => NeverTorn
  BY RunsOnDisk, FileSystemAssumption DEF NeverTorn, Runs
<1>2. QED
  BY <1>1, IInvHolds, PTL

\* What was acknowledged as durable survives process death and power loss, and
\* everything visible was built upon it.
THEOREM AcknowledgedHolds == Spec => []AcknowledgedStays
<1>1. IInv => AcknowledgedStays
  BY RunsOnDisk, FileSystemAssumption DEF AcknowledgedStays, Runs
<1>2. QED
  BY <1>1, IInvHolds, PTL

\* Processes that share a run directory implement one register of transitions: no
\* update is lost, no update is applied to a stale run, and a power loss takes back
\* only what was not acknowledged.
THEOREM ImplementsRegister == Spec => IsRegister
<1>1. Init => Register!Init
  BY DEF Init, Register!Init, Visible, Bytes
<1>2. ASSUME IInv, [Next]_vars
      PROVE  [Register!Next]_(Register!vars)
  <2>1. ASSUME NEW p \in Processes, Calls(p)
        PROVE  UNCHANGED <<Visible, stable>>
    BY <2>1 DEF Calls, Create, Transition, Resync, Start, files, names, Visible, Bytes
  <2>2. ASSUME NEW p \in Processes, Locking(p)
        PROVE  UNCHANGED <<Visible, stable>>
    <3>1. CASE Busy(p) \/ Acquire(p) \/ AcquireRefused(p)
      BY <3>1 DEF Busy, Acquire, AcquireRefused, files, names, Visible, Bytes
    <3>2. CASE Reclaim(p)
      BY <1>2, <3>2, ReclaimHolds DEF Reclaim
    <3>3. CASE SyncReclaimed(p)
      BY <1>2, <3>3, SyncReclaimedHolds DEF SyncReclaimed
    <3>4. QED
      BY <2>2, <3>1, <3>2, <3>3 DEF Locking
  <2>3. ASSUME NEW p \in Processes, Publication(p)
        PROVE  Register!Publish \/ Register!Acknowledge \/ UNCHANGED <<Visible, stable>>
    <3>1. CASE Compare(p)
      BY <3>1 DEF Compare, files, names, Visible, Bytes
    <3>2. CASE CreateTemp(p) \/ WriteTemp(p) \/ FlushTemp(p) \/ UnlinkTemp(p) \/ SyncFile(p)
               \/ Fail(p)
      <4>1. Visible' = Visible
        BY <1>2, <3>2, CreateTempHolds, WriteTempHolds, FlushTempHolds, UnlinkTempHolds,
           SyncFileHolds, FailHolds
      <4>2. stable' = stable
        BY <3>2 DEF CreateTemp, WriteTemp, FlushTemp, UnlinkTemp, SyncFile, Fail
      <4>3. QED
        BY <4>1, <4>2
    <3>3. CASE Rename(p) \/ HardLink(p)
      BY <1>2, <3>3, PublishHolds DEF Register!Publish
    <3>4. CASE SyncParent(p)
      BY <1>2, <3>4, SyncParentHolds DEF Register!Acknowledge
    <3>5. QED
      BY <2>3, <3>1, <3>2, <3>3, <3>4 DEF Publication
  <2>4. ASSUME NEW p \in Processes, Crash(p)
        PROVE  UNCHANGED <<Visible, stable>>
    BY <2>4 DEF Crash, files, names, Visible, Bytes
  <2>5. CASE PowerLoss
    BY <1>2, <2>5, PowerLossHolds DEF Register!Lose, Register!Next
  <2>6. CASE UNCHANGED vars
    BY <2>6 DEF vars, files, names, Visible, Bytes, Register!vars
  <2>7. QED
    BY <1>2, <2>1, <2>2, <2>3, <2>4, <2>5, <2>6 DEF Next, Register!Next, Register!vars
<1>3. QED
  BY <1>1, <1>2, IInvHolds, PTL DEF Spec, IsRegister, Register!Spec

-----------------------------------------------------------------------------
(* Orphans.                                                                *)

\* A step that adds no temporary, and brings no process to where it relies on
\* there being none.
LEMMA NoMoreOrphans ==
  ASSUME IInv, OrphansReclaimed,
         dir'.temps \subseteq dir.temps,
         \A d \in disk' : d \in disk \/ d = dir',
         \A q \in Processes : call'[q].at \in Unencumbered =>
                                call[q].at \in Unencumbered \/ dir'.temps = {}
  PROVE  OrphansReclaimed'
<1>1. dir \in disk
  BY DEF IInv, EveryDiskIsARun
<1>2. \A d \in disk' : \A i, j \in d.temps : i = j
  BY <1>1 DEF OrphansReclaimed
<1>3. \A q \in Processes : call'[q].at \in Unencumbered => dir'.temps = {}
  BY DEF OrphansReclaimed
<1>4. QED
  BY <1>2, <1>3 DEF OrphansReclaimed

LEMMA LockingReclaims ==
  ASSUME IInv, OrphansReclaimed, NEW p \in Processes, Locking(p)
  PROVE  OrphansReclaimed'
<1>1. call \in [Processes -> Call] /\ dir \in Directory
  BY DEF IInv, TypeOK
<1>2. CASE Busy(p) \/ AcquireRefused(p)
  BY <1>1, <1>2, NoMoreOrphans
     DEF Busy, AcquireRefused, Return, Idle, files, names, Unencumbered
<1>3. CASE Acquire(p)
  BY <1>1, <1>3, NoMoreOrphans DEF Acquire, GoTo, Call, files, names, Unencumbered
<1>4. CASE Reclaim(p)
  BY <1>1, <1>4, NoMoreOrphans DEF Reclaim, Change, GoTo, Call, Directory, Unencumbered
<1>5. CASE SyncReclaimed(p)
  BY <1>1, <1>5, NoMoreOrphans
     DEF SyncReclaimed, SyncDirectory, Settle, GoTo, Call, Unencumbered
<1>6. QED
  BY <1>2, <1>3, <1>4, <1>5 DEF Locking

\* Only the lock owner creates a temporary, and it finds none.
LEMMA CreateTempReclaims ==
  ASSUME IInv, OrphansReclaimed, NEW p \in Processes, CreateTemp(p)
  PROVE  OrphansReclaimed'
<1>1. call \in [Processes -> Call] /\ dir \in Directory
  BY DEF IInv, TypeOK
<1>2. call[p].at = "create" /\ dir.temps = {}
  BY DEF CreateTemp, OrphansReclaimed, Unencumbered
<1>3. PICK i \in Inodes :
        /\ Change([dir EXCEPT !.temps = @ \cup {i}])
        /\ call' = [call EXCEPT ![p].at = "write", ![p].temp = i]
  BY DEF CreateTemp
<1>4. \A d \in disk' : \A j, k \in d.temps : j = k
  BY <1>1, <1>2, <1>3 DEF Change, OrphansReclaimed, Directory
<1>5. \A q \in Processes : call[q].at \in Unencumbered => q = p
  BY <1>2 DEF IInv, Exclusion, Outside, Unencumbered
<1>6. \A q \in Processes : call'[q].at \notin Unencumbered
  BY <1>1, <1>3, <1>5 DEF Call, Unencumbered
<1>7. QED
  BY <1>4, <1>6 DEF OrphansReclaimed

LEMMA PublicationReclaims ==
  ASSUME IInv, OrphansReclaimed, NEW p \in Processes, Publication(p)
  PROVE  OrphansReclaimed'
<1>1. call \in [Processes -> Call] /\ dir \in Directory
  BY DEF IInv, TypeOK
<1>2. CASE Compare(p)
  BY <1>1, <1>2, NoMoreOrphans DEF Compare, GoTo, Call, names, Unencumbered
<1>3. CASE CreateTemp(p)
  BY <1>3, CreateTempReclaims
<1>4. CASE WriteTemp(p) \/ FlushTemp(p) \/ SyncFile(p)
  BY <1>1, <1>4, NoMoreOrphans
     DEF WriteTemp, FlushTemp, SyncFile, PublicationPoint, GoTo, Call, names, Unencumbered
<1>5. CASE Rename(p) \/ HardLink(p) \/ UnlinkTemp(p)
  <2>1. dir'.temps \subseteq dir.temps /\ disk' = disk \cup {dir'}
    BY <1>1, <1>5 DEF Rename, HardLink, UnlinkTemp, Change, Directory
  <2>2. \A q \in Processes : call'[q].at \in Unencumbered => call[q].at \in Unencumbered
    BY <1>1, <1>5 DEF Rename, HardLink, UnlinkTemp, GoTo, Call, Unencumbered
  <2>3. QED
    BY <2>1, <2>2, NoMoreOrphans
<1>6. CASE SyncParent(p)
  BY <1>1, <1>6, NoMoreOrphans
     DEF SyncParent, SyncDirectory, Settle, Return, Idle, Unencumbered
<1>7. CASE Fail(p)
  <2>1. dir'.temps \subseteq dir.temps /\ disk' = disk \cup {dir'}
    BY <1>1, <1>7 DEF Fail, Change, Directory
  <2>2. \A q \in Processes : call'[q].at \in Unencumbered => call[q].at \in Unencumbered
    BY <1>1, <1>7 DEF Fail, Return, Idle, Unencumbered
  <2>3. QED
    BY <2>1, <2>2, NoMoreOrphans
<1>8. QED
  BY <1>2, <1>3, <1>4, <1>5, <1>6, <1>7 DEF Publication

\* However many publications died and whatever a power loss restored, the run directory
\* holds at most one temporary: the next lock owner reclaims it before it makes its own.
THEOREM OneTemporaryHolds == Spec => []OneTemporary
<1>1. Init => OrphansReclaimed
  BY DEF Init, Idle, OrphansReclaimed, Unencumbered
<1>2. ASSUME IInv, OrphansReclaimed, [Next]_vars
      PROVE  OrphansReclaimed'
  <2>1. ASSUME NEW p \in Processes, Calls(p) \/ Crash(p)
        PROVE  OrphansReclaimed'
    <3>1. call \in [Processes -> Call]
      BY <1>2 DEF IInv, TypeOK
    <3>2. UNCHANGED names /\ \A q \in Processes : call'[q].at \in Unencumbered =>
                                                    call[q].at \in Unencumbered
      BY <2>1, <3>1 DEF Calls, Create, Transition, Resync, Start, Crash, Return, Idle,
                        Call, Unencumbered
    <3>3. QED
      BY <1>2, <3>2, NoMoreOrphans DEF names
  <2>2. ASSUME NEW p \in Processes, Locking(p) \/ Publication(p)
        PROVE  OrphansReclaimed'
    BY <1>2, <2>2, LockingReclaims, PublicationReclaims
  <2>3. CASE PowerLoss
    BY <1>2, <2>3 DEF PowerLoss, Settle, Idle, OrphansReclaimed, Unencumbered
  <2>4. CASE UNCHANGED vars
    BY <1>2, <2>4 DEF vars, names, OrphansReclaimed
  <2>5. QED
    BY <1>2, <2>1, <2>2, <2>3, <2>4 DEF Next
<1>3. OrphansReclaimed /\ IInv => OneTemporary
  <2>1. SUFFICES ASSUME OrphansReclaimed, IInv PROVE Cardinality(dir.temps) <= 1
    BY DEF OneTemporary
  <2>2. \A i, j \in dir.temps : i = j
    BY <2>1 DEF OrphansReclaimed, IInv, EveryDiskIsARun
  <2>3. dir.temps = {} \/ \E i : dir.temps = {i}
    BY <2>2
  <2>4. Cardinality(dir.temps) \in {0, 1}
    BY <2>3, FS_EmptySet, FS_Singleton
  <2>5. QED
    BY <2>4
<1>4. QED
  BY <1>1, <1>2, <1>3, IInvHolds, PTL DEF Spec

-----------------------------------------------------------------------------
(* Sums of natural numbers over finite sets, by minimal counterexample.    *)

\* Induction on a finite set without a predicate for a parameter: every collection of
\* its subsets has a member that contains no other.
LEMMA SmallestSubset ==
  ASSUME NEW U, IsFiniteSet(U), NEW F \in SUBSET (SUBSET U), F # {}
  PROVE  \E T \in F : \A V \in F : V \subseteq T => V = T
<1> DEFINE R == StrictSubsetOrdering(U)
<1>1. IsWellFoundedOn(R, FiniteSubsetsOf(U))
  BY FS_StrictSubsetOrderingWellFounded
<1>2. F \subseteq FiniteSubsetsOf(U)
  BY FS_FiniteSubsetsOfFinite
<1>3. \E x \in F : \A y \in F : ~ (<<y, x>> \in R)
  <2> HIDE DEF R
  <2> QED BY <1>1, <1>2, WFMin
<1>4. PICK T \in F : \A y \in F : ~ (<<y, T>> \in R)
  BY <1>3
<1>5. \A V \in F : V \subseteq T => V = T
  BY <1>4 DEF StrictSubsetOrdering
<1> QED BY <1>5

\* The element a sum takes first, and the equation of the function behind it.
First(s) == CHOOSE x \in s : TRUE

\* The element a fold takes first.
LEMMA FirstIsIn == \A s : s # {} => First(s) \in s
BY DEF First

IsTotal(h, f, U) ==
  h = [s \in SUBSET U |-> IF s = {} THEN 0 ELSE f[First(s)] + h[s \ {First(s)}]]

\* The recursive function behind the sum, at one set.
LEMMA TotalAt ==
  ASSUME NEW f, NEW U, NEW h, IsTotal(h, f, U), NEW s \in SUBSET U
  PROVE  h[s] = IF s = {} THEN 0 ELSE f[First(s)] + h[s \ {First(s)}]
BY DEF IsTotal

\* Two such functions agree wherever both are defined.
LEMMA TotalIsUnique ==
  ASSUME NEW f, NEW U, IsFiniteSet(U), NEW V \in SUBSET U, NEW h, NEW g,
         IsTotal(h, f, U), IsTotal(g, f, V)
  PROVE  \A s \in SUBSET V : h[s] = g[s]
<1> DEFINE F == {s \in SUBSET V : h[s] # g[s]}
<1> SUFFICES ASSUME F # {} PROVE FALSE
  OBVIOUS
<1>0. F \in SUBSET (SUBSET U)
  OBVIOUS
<1>1. PICK T \in F : \A s \in F : s \subseteq T => s = T
  <2> HIDE DEF F
  <2> QED BY <1>0, SmallestSubset
<1>2. h[T] = (IF T = {} THEN 0 ELSE f[First(T)] + h[T \ {First(T)}])
  BY TotalAt
<1>3. g[T] = (IF T = {} THEN 0 ELSE f[First(T)] + g[T \ {First(T)}])
  BY TotalAt
<1>4. T # {}
  BY <1>2, <1>3
<1>5. First(T) \in T
  BY <1>4, FirstIsIn
<1>6. T \ {First(T)} \notin F
  BY <1>1, <1>5
<1> QED BY <1>2, <1>3, <1>4, <1>6

\* There is one for every finite set.
LEMMA TotalExists ==
  ASSUME NEW f, NEW U, IsFiniteSet(U)
  PROVE  \E h : IsTotal(h, f, U)
<1> DEFINE F == {V \in SUBSET U : ~ \E h : IsTotal(h, f, V)}
<1> SUFFICES ASSUME F # {} PROVE FALSE
  OBVIOUS
<1>0. F \in SUBSET (SUBSET U)
  OBVIOUS
<1>1. PICK V \in F : \A W \in F : W \subseteq V => W = V
  <2> HIDE DEF F
  <2> QED BY <1>0, SmallestSubset
<1> DEFINE Of(W) == CHOOSE h : IsTotal(h, f, W)
<1>2. \A W \in SUBSET V : W # V => IsTotal(Of(W), f, W)
  BY <1>1
<1> DEFINE Rest(s) == s \ {First(s)}
<1> DEFINE h == [s \in SUBSET V |-> IF s = {} THEN 0 ELSE f[First(s)] + Of(Rest(s))[Rest(s)]]
<1>3. ASSUME NEW s \in SUBSET V, s # {}
      PROVE  h[Rest(s)] = Of(Rest(s))[Rest(s)]
  <2> DEFINE t == Rest(s)
  <2>1. t \in SUBSET V /\ t # V
    BY <1>3, FirstIsIn
  <2>2. IsTotal(Of(t), f, t)
    BY <2>1, <1>2
  <2>3. Of(t)[t] = IF t = {} THEN 0 ELSE f[First(t)] + Of(t)[Rest(t)]
    <3> HIDE DEF t, Of
    <3> QED BY <2>2, TotalAt
  <2>4. CASE t = {}
    BY <2>1, <2>3, <2>4
  <2>5. CASE t # {}
    <3>1. Rest(t) \in SUBSET t /\ Rest(t) \in SUBSET V /\ Rest(t) # V
      BY <2>1, <2>5, FirstIsIn
    <3>2. IsTotal(Of(Rest(t)), f, Rest(t))
      BY <3>1, <1>2
    <3>3. IsFiniteSet(t)
      BY <2>1, FS_Subset
    <3>4. Of(t)[Rest(t)] = Of(Rest(t))[Rest(t)]
      <4> HIDE DEF t, Of, Rest
      <4> QED BY <2>2, <3>1, <3>2, <3>3, TotalIsUnique
    <3>5. h[t] = f[First(t)] + Of(Rest(t))[Rest(t)]
      <4> HIDE DEF Of, Rest
      <4> QED BY <2>1, <2>5
    <3> QED BY <2>3, <2>5, <3>4, <3>5
  <2> QED BY <2>4, <2>5
<1>4. IsTotal(h, f, V)
  <2>1. \A s \in SUBSET V : h[s] = IF s = {} THEN 0 ELSE f[First(s)] + h[Rest(s)]
    <3> HIDE DEF Of, Rest
    <3> QED BY <1>3
  <2> HIDE DEF Of
  <2> QED BY <2>1 DEF IsTotal
<1> QED BY <1>1, <1>4

\* The community module's sum is its value at the whole set.
LEMMA SumIsTotal ==
  ASSUME NEW f, NEW S, IsFiniteSet(S)
  PROVE  \E h : IsTotal(h, f, S) /\ SumFunctionOnSet(f, S) = h[S]
<1> DEFINE h == CHOOSE h : IsTotal(h, f, S)
<1>1. IsTotal(h, f, S)
  BY TotalExists
<1>2. SumFunctionOnSet(f, S) = h[S]
  BY DEF SumFunctionOnSet, FoldFunctionOnSet, MapThenFoldSet, IsTotal, First
<1> QED BY <1>1, <1>2

-----------------------------------------------------------------------------
(* Sums.                                                                   *)

\* The sum over nothing.
LEMMA SumEmpty == \A f : SumFunctionOnSet(f, {}) = 0
<1> SUFFICES ASSUME NEW f PROVE SumFunctionOnSet(f, {}) = 0
  OBVIOUS
<1> IsFiniteSet({})
  BY FS_EmptySet
<1>1. PICK h : IsTotal(h, f, {}) /\ SumFunctionOnSet(f, {}) = h[{}]
  BY SumIsTotal
<1> QED BY <1>1, TotalAt

\* The function of a set also gives the sums of its subsets.
LEMMA SumOfPart ==
  ASSUME NEW f, NEW S, IsFiniteSet(S), NEW h, IsTotal(h, f, S), NEW T \in SUBSET S
  PROVE  SumFunctionOnSet(f, T) = h[T]
<1>1. IsFiniteSet(T)
  BY FS_Subset
<1>2. PICK g : IsTotal(g, f, T) /\ SumFunctionOnSet(f, T) = g[T]
  BY <1>1, SumIsTotal
<1> QED BY <1>2, TotalIsUnique

\* A sum, with the element the fold takes first.
LEMMA SumFirst ==
  ASSUME NEW f, NEW S, IsFiniteSet(S), S # {}
  PROVE  SumFunctionOnSet(f, S) = f[First(S)] + SumFunctionOnSet(f, S \ {First(S)})
<1>1. PICK h : IsTotal(h, f, S) /\ SumFunctionOnSet(f, S) = h[S]
  BY SumIsTotal
<1>2. h[S] = f[First(S)] + h[S \ {First(S)}]
  BY <1>1, TotalAt
<1>3. SumFunctionOnSet(f, S \ {First(S)}) = h[S \ {First(S)}]
  BY <1>1, SumOfPart
<1> QED BY <1>1, <1>2, <1>3

\* The sum of natural numbers is one.
LEMMA SumNat ==
  ASSUME NEW f, NEW S, IsFiniteSet(S), \A x \in S : f[x] \in Nat
  PROVE  SumFunctionOnSet(f, S) \in Nat
<1> DEFINE F == {T \in SUBSET S : SumFunctionOnSet(f, T) \notin Nat}
<1> SUFFICES ASSUME F # {} PROVE FALSE
  OBVIOUS
<1>0. F \in SUBSET (SUBSET S)
  OBVIOUS
<1>1. PICK T \in F : \A s \in F : s \subseteq T => s = T
  <2> HIDE DEF F
  <2> QED BY <1>0, SmallestSubset
<1>2. T # {}
  BY SumEmpty
<1>3. IsFiniteSet(T)
  BY FS_Subset
<1>4. SumFunctionOnSet(f, T) = f[First(T)] + SumFunctionOnSet(f, T \ {First(T)})
  BY <1>2, <1>3, SumFirst
<1>5. First(T) \in T
  BY <1>2, FirstIsIn
<1>6. SumFunctionOnSet(f, T \ {First(T)}) \in Nat
  BY <1>1, <1>5
<1> QED BY <1>4, <1>5, <1>6

\* A sum of zeros.
LEMMA SumZero ==
  ASSUME NEW f, NEW S, IsFiniteSet(S), \A x \in S : f[x] = 0
  PROVE  SumFunctionOnSet(f, S) = 0
<1> DEFINE F == {T \in SUBSET S : SumFunctionOnSet(f, T) # 0}
<1> SUFFICES ASSUME F # {} PROVE FALSE
  OBVIOUS
<1>0. F \in SUBSET (SUBSET S)
  OBVIOUS
<1>1. PICK T \in F : \A s \in F : s \subseteq T => s = T
  <2> HIDE DEF F
  <2> QED BY <1>0, SmallestSubset
<1>2. T # {}
  BY SumEmpty
<1>3. IsFiniteSet(T)
  BY FS_Subset
<1>4. SumFunctionOnSet(f, T) = f[First(T)] + SumFunctionOnSet(f, T \ {First(T)})
  BY <1>2, <1>3, SumFirst
<1>5. First(T) \in T
  BY <1>2, FirstIsIn
<1>6. SumFunctionOnSet(f, T \ {First(T)}) = 0
  BY <1>1, <1>5
<1> QED BY <1>4, <1>5, <1>6

\* Any element may be taken out of a sum.
LEMMA SumTake ==
  ASSUME NEW f, NEW S, IsFiniteSet(S), \A x \in S : f[x] \in Nat, NEW y \in S
  PROVE  SumFunctionOnSet(f, S) = f[y] + SumFunctionOnSet(f, S \ {y})
<1> DEFINE F == {T \in SUBSET S : \E x \in T : SumFunctionOnSet(f, T) # f[x] + SumFunctionOnSet(f, T \ {x})}
<1> SUFFICES ASSUME F # {} PROVE FALSE
  OBVIOUS
<1>0. F \in SUBSET (SUBSET S)
  OBVIOUS
<1>1. PICK T \in F : \A s \in F : s \subseteq T => s = T
  <2> HIDE DEF F
  <2> QED BY <1>0, SmallestSubset
<1>2. PICK x \in T : SumFunctionOnSet(f, T) # f[x] + SumFunctionOnSet(f, T \ {x})
  OBVIOUS
<1> DEFINE z == First(T)
<1>3. z \in T
  BY <1>2, FirstIsIn
<1> HIDE DEF z
<1>4. SumFunctionOnSet(f, T) = f[z] + SumFunctionOnSet(f, T \ {z})
  BY <1>2, FS_Subset, SumFirst DEF z
<1>5. x # z
  BY <1>2, <1>4
<1>6. T \ {z} \notin F /\ T \ {x} \notin F
  BY <1>1, <1>3
<1>7. SumFunctionOnSet(f, T \ {z}) = f[x] + SumFunctionOnSet(f, (T \ {z}) \ {x})
  BY <1>5, <1>6
<1>8. SumFunctionOnSet(f, T \ {x}) = f[z] + SumFunctionOnSet(f, (T \ {x}) \ {z})
  BY <1>3, <1>5, <1>6
<1>9. (T \ {z}) \ {x} = (T \ {x}) \ {z}
  OBVIOUS
<1>10. SumFunctionOnSet(f, (T \ {x}) \ {z}) \in Nat /\ f[x] \in Nat /\ f[z] \in Nat
  BY <1>3, FS_Subset, SumNat
<1> QED BY <1>2, <1>4, <1>7, <1>8, <1>9, <1>10

\* A sum is of the values on its set only.
LEMMA SumSame ==
  ASSUME NEW f, NEW g, NEW S, IsFiniteSet(S), \A x \in S : f[x] = g[x]
  PROVE  SumFunctionOnSet(f, S) = SumFunctionOnSet(g, S)
<1> DEFINE F == {T \in SUBSET S : SumFunctionOnSet(f, T) # SumFunctionOnSet(g, T)}
<1> SUFFICES ASSUME F # {} PROVE FALSE
  OBVIOUS
<1>0. F \in SUBSET (SUBSET S)
  OBVIOUS
<1>1. PICK T \in F : \A s \in F : s \subseteq T => s = T
  <2> HIDE DEF F
  <2> QED BY <1>0, SmallestSubset
<1>2. T # {}
  BY SumEmpty
<1>3. IsFiniteSet(T)
  BY FS_Subset
<1>4. /\ SumFunctionOnSet(f, T) = f[First(T)] + SumFunctionOnSet(f, T \ {First(T)})
      /\ SumFunctionOnSet(g, T) = g[First(T)] + SumFunctionOnSet(g, T \ {First(T)})
  BY <1>2, <1>3, SumFirst
<1>5. First(T) \in T
  BY <1>2, FirstIsIn
<1>6. T \ {First(T)} \notin F
  BY <1>1, <1>5
<1> QED BY <1>4, <1>5, <1>6

\* What a new element, and less of a set, add up to.
LEMMA SumAdd ==
  ASSUME NEW f, NEW S, IsFiniteSet(S), NEW y, y \notin S, \A x \in S \cup {y} : f[x] \in Nat
  PROVE  SumFunctionOnSet(f, S \cup {y}) = f[y] + SumFunctionOnSet(f, S)
<1>1. IsFiniteSet(S \cup {y})
  BY FS_AddElement
<1>2. (S \cup {y}) \ {y} = S
  OBVIOUS
<1> QED BY <1>1, <1>2, SumTake

\* A subset has no larger sum.
LEMMA SumOfLess ==
  ASSUME NEW f, NEW S, IsFiniteSet(S), NEW T \in SUBSET S, \A x \in S : f[x] \in Nat
  PROVE  SumFunctionOnSet(f, T) <= SumFunctionOnSet(f, S)
<1> DEFINE F == {V \in SUBSET S : T \subseteq V /\ ~ SumFunctionOnSet(f, T) <= SumFunctionOnSet(f, V)}
<1> SUFFICES ASSUME F # {} PROVE FALSE
  BY DEF F
<1>0. F \in SUBSET (SUBSET S)
  OBVIOUS
<1>1. PICK V \in F : \A s \in F : s \subseteq V => s = V
  <2> HIDE DEF F
  <2> QED BY <1>0, SmallestSubset
<1>2. SumFunctionOnSet(f, T) \in Nat /\ SumFunctionOnSet(f, V) \in Nat
  BY FS_Subset, SumNat
<1>3. PICK y \in V : y \notin T
  BY <1>2
<1>4. SumFunctionOnSet(f, V) = f[y] + SumFunctionOnSet(f, V \ {y})
  BY <1>3, FS_Subset, SumTake
<1>5. V \ {y} \notin F
  BY <1>1, <1>3
<1>6. SumFunctionOnSet(f, T) <= SumFunctionOnSet(f, V \ {y})
  BY <1>3, <1>5
<1>7. SumFunctionOnSet(f, V \ {y}) \in Nat
  BY FS_Subset, SumNat
<1> QED BY <1>2, <1>3, <1>4, <1>6, <1>7

\* One value changed.
LEMMA SumChanged ==
  ASSUME NEW S, IsFiniteSet(S), NEW f \in [S -> Nat], NEW y \in S, NEW v \in Nat
  PROVE  SumFunction([f EXCEPT ![y] = v]) = SumFunction(f) - f[y] + v
<1> DEFINE g == [f EXCEPT ![y] = v]
<1>1. SumFunctionOnSet(g, S) = g[y] + SumFunctionOnSet(g, S \ {y})
  BY SumTake
<1>2. SumFunctionOnSet(f, S) = f[y] + SumFunctionOnSet(f, S \ {y})
  BY SumTake
<1>3. SumFunctionOnSet(g, S \ {y}) = SumFunctionOnSet(f, S \ {y})
  BY SumSame, FS_RemoveElement
<1>4. SumFunctionOnSet(f, S \ {y}) \in Nat
  BY SumNat, FS_RemoveElement
<1>5. g[y] = v /\ DOMAIN g = S /\ DOMAIN f = S
  OBVIOUS
<1> HIDE DEF g
<1>6. SumFunctionOnSet(g, S) = SumFunctionOnSet(f, S) - f[y] + v
  BY <1>1, <1>2, <1>3, <1>4, <1>5
<1> QED BY <1>5, <1>6 DEF SumFunction, g

-----------------------------------------------------------------------------
(* RunStorage: names, orphans and limits.                                  *)

\* Names are told apart.
LEMMA NamesDiffer ==
  /\ Run \notin Exchange \cup Evaluation \cup Recovery
  /\ Request \notin {RequestRecord, Reply, ReplyRecord} \cup Evaluation \cup Recovery
  /\ RequestRecord \notin {Reply, ReplyRecord} \cup Evaluation \cup Recovery
  /\ Reply \notin {ReplyRecord} \cup Evaluation \cup Recovery
  /\ ReplyRecord \notin Evaluation \cup Recovery
  /\ Intent \notin Logs \cup {Testing, Report} \cup Recovery
  /\ Testing \notin Logs \cup {Report} \cup Recovery
  /\ Report \notin Logs \cup Recovery
  /\ RecoverySource \notin Logs \cup {Decision}
  /\ Decision \notin Logs
  /\ \A n \in Notes : <<"note", n>> \notin {Run} \cup Exchange \cup Evaluation \cup Recovery
BY DEF File, Run, Request, RequestRecord, Reply, ReplyRecord, Intent, Testing, Report,
       RecoverySource, Decision, Logs, Exchange, Evaluation, Recovery

\* There are finitely many names.
LEMMA NamesFinite == IsFiniteSet(Names) /\ IsFiniteSet(Logs)
<1>1. IsFiniteSet({"stdout", "stderr"}) /\ IsFiniteSet({"note"}) /\ IsFiniteSet({Run})
  <2>1. {"stdout", "stderr"} = {"stdout"} \cup {"stderr"}
    OBVIOUS
  <2>2. IsFiniteSet({"stdout"}) /\ IsFiniteSet({"note"}) /\ IsFiniteSet({Run})
    BY FS_Singleton
  <2>3. IsFiniteSet({"stdout"} \cup {"stderr"})
    BY <2>2, FS_AddElement
  <2> QED BY <2>1, <2>2, <2>3
<1>2. IsFiniteSet(1 .. Checks) /\ IsFiniteSet(Notes)
  BY FS_Interval, StorageAssumption
<1>3. IsFiniteSet(Logs)
  BY <1>1, <1>2, FS_Product DEF Logs
<1>4. IsFiniteSet({"note"} \X Notes)
  BY <1>1, <1>2, FS_Product
<1>5. {<<"note", n>> : n \in Notes} = {"note"} \X Notes
  OBVIOUS
<1>6. IsFiniteSet(Logs \cup {Intent} \cup {Testing} \cup {Report})
  BY <1>3, FS_AddElement
<1>7. Evaluation = Logs \cup {Intent} \cup {Testing} \cup {Report}
  BY DEF Evaluation
<1>8. IsFiniteSet({Run} \cup {Request} \cup {RequestRecord} \cup {Reply} \cup {ReplyRecord}
                    \cup {RecoverySource} \cup {Decision})
  BY <1>1, FS_AddElement
<1> DEFINE Fixed == {Run} \cup {Request} \cup {RequestRecord} \cup {Reply} \cup {ReplyRecord}
                    \cup {RecoverySource} \cup {Decision}
<1>9. Names = (Fixed \cup Evaluation) \cup ({"note"} \X Notes)
  BY <1>5 DEF Names, Exchange, Recovery
<1> HIDE DEF Fixed
<1>10. IsFiniteSet(Fixed)
  BY <1>8 DEF Fixed
<1>11. IsFiniteSet(Fixed \cup Evaluation)
  BY <1>6, <1>7, <1>10, FS_Union
<1>12. IsFiniteSet((Fixed \cup Evaluation) \cup ({"note"} \X Notes))
  BY <1>4, <1>11, FS_Union
<1> QED BY <1>3, <1>9, <1>12

\* Every cap is positive.
LEMMA LimitType == \A n : Limit(n) \in Nat \ {0}
BY StorageAssumption DEF Limit

\* The size of the orphans of a finite set.
OrphanBytes(A) == SumFunction([o \in A |-> o.size])
Orphan == [name : Names, size : Nat \ {0}, at : 0 .. MaxFaults]

\* What the temporaries of dead writers take up.
LEMMA OrphanSums ==
  ASSUME NEW A \in SUBSET Orphan, IsFiniteSet(A)
  PROVE  /\ OrphanBytes(A) \in Nat
         /\ \A B \in SUBSET A : OrphanBytes(B) <= OrphanBytes(A)
         /\ \A x \in Orphan : OrphanBytes(A \cup {x}) <= OrphanBytes(A) + x.size
<1> DEFINE f == [o \in Orphan |-> o.size]
<1>1. \A B : B \subseteq Orphan /\ IsFiniteSet(B) => OrphanBytes(B) = SumFunctionOnSet(f, B)
  <2> SUFFICES ASSUME NEW B, B \subseteq Orphan, IsFiniteSet(B)
               PROVE  OrphanBytes(B) = SumFunctionOnSet(f, B)
    OBVIOUS
  <2> DEFINE g == [o \in B |-> o.size]
  <2>1. \A x \in B : g[x] = f[x]
    OBVIOUS
  <2>2. DOMAIN g = B
    OBVIOUS
  <2>3. OrphanBytes(B) = SumFunctionOnSet(g, B)
    BY <2>2 DEF OrphanBytes, SumFunction
  <2> HIDE DEF f, g
  <2>4. SumFunctionOnSet(g, B) = SumFunctionOnSet(f, B)
    BY <2>1, SumSame
  <2> QED BY <2>3, <2>4
<1>2. \A x \in Orphan : f[x] \in Nat /\ f[x] = x.size
  BY DEF Orphan
<1> HIDE DEF f
<1>3. OrphanBytes(A) \in Nat
  BY <1>1, <1>2, SumNat
<1>4. \A B \in SUBSET A : OrphanBytes(B) <= OrphanBytes(A)
  <2> SUFFICES ASSUME NEW B \in SUBSET A PROVE OrphanBytes(B) <= OrphanBytes(A)
    OBVIOUS
  <2>1. IsFiniteSet(B)
    BY FS_Subset
  <2>2. SumFunctionOnSet(f, B) <= SumFunctionOnSet(f, A)
    BY <1>2, SumOfLess
  <2> QED BY <1>1, <2>1, <2>2
<1>5. ASSUME NEW x \in Orphan PROVE OrphanBytes(A \cup {x}) <= OrphanBytes(A) + x.size
  <2>1. CASE x \in A
    <3>1. A \cup {x} = A
      BY <2>1
    <3>2. OrphanBytes(A \cup {x}) = OrphanBytes(A)
      BY <3>1
    <3>3. x.size \in Nat
      BY DEF Orphan
    <3> QED BY <1>3, <3>2, <3>3
  <2>2. CASE x \notin A
    <3>1. SumFunctionOnSet(f, A \cup {x}) = f[x] + SumFunctionOnSet(f, A)
      BY <1>2, <2>2, SumAdd
    <3>2. IsFiniteSet(A \cup {x})
      BY FS_AddElement
    <3> QED BY <1>1, <1>2, <1>3, <3>1, <3>2
  <2> QED BY <2>1, <2>2
<1> QED BY <1>3, <1>4, <1>5

\* No temporaries take up nothing.
LEMMA NoOrphans == OrphanBytes({}) = 0
<1>1. DOMAIN [o \in {} |-> o.size] = {}
  OBVIOUS
<1> QED BY <1>1, SumEmpty DEF OrphanBytes, SumFunction

\* The limits of a set of names.
LimitsOf(S) == SumFunction([n \in S |-> Limit(n)])

\* What a set of slots reserves.
LEMMA LimitSums ==
  ASSUME NEW S, IsFiniteSet(S)
  PROVE  /\ LimitsOf(S) \in Nat
         /\ \A T \in SUBSET S : LimitsOf(T) <= LimitsOf(S)
         /\ \A n \in S : LimitsOf(S) = Limit(n) + LimitsOf(S \ {n})
<1> DEFINE f == [n \in S |-> Limit(n)]
<1>1. \A B \in SUBSET S : LimitsOf(B) = SumFunctionOnSet(f, B)
  <2> SUFFICES ASSUME NEW B \in SUBSET S
               PROVE  LimitsOf(B) = SumFunctionOnSet(f, B)
    OBVIOUS
  <2> DEFINE g == [n \in B |-> Limit(n)]
  <2>1. \A x \in B : g[x] = f[x]
    OBVIOUS
  <2>2. DOMAIN g = B
    OBVIOUS
  <2>3. LimitsOf(B) = SumFunctionOnSet(g, B)
    BY <2>2 DEF LimitsOf, SumFunction
  <2>4. IsFiniteSet(B)
    BY FS_Subset
  <2> HIDE DEF f, g
  <2>5. SumFunctionOnSet(g, B) = SumFunctionOnSet(f, B)
    BY <2>1, <2>4, SumSame
  <2> QED BY <2>3, <2>5
<1>2. \A x \in S : f[x] \in Nat /\ f[x] = Limit(x)
  BY LimitType
<1> HIDE DEF f
<1>3. LimitsOf(S) \in Nat
  BY <1>1, <1>2, SumNat
<1>4. \A T \in SUBSET S : LimitsOf(T) <= LimitsOf(S)
  BY <1>1, <1>2, SumOfLess
<1>5. \A n \in S : LimitsOf(S) = Limit(n) + LimitsOf(S \ {n})
  BY <1>1, <1>2, SumTake
<1> QED BY <1>3, <1>4, <1>5

-----------------------------------------------------------------------------
(* Usage.                                                                  *)

Typed == StorageTypeOK /\ IsFiniteSet(orphans) /\ There(Run)
RunOrphans == {o \in orphans : o.name = Run}

\* The usage is made of numbers.
LEMMA UsageParts ==
  ASSUME Typed
  PROVE  /\ IsFiniteSet(Swept) /\ Swept \in SUBSET Orphan
         /\ SumFunction(size) \in Nat /\ OrphanBytes(Swept) \in Nat /\ filler.bytes \in Nat
         /\ UsedBytes = filler.bytes + SumFunction(size) + OrphanBytes(Swept)
         /\ IsFiniteSet({n \in Names : There(n)}) /\ IsFiniteSet(doubled)
         /\ Cardinality({n \in Names : There(n)}) \in Nat /\ Cardinality(doubled) \in Nat
         /\ Cardinality(Swept) \in Nat /\ filler.entries \in Nat
         /\ UsedEntries = filler.entries + Cardinality({n \in Names : There(n)})
                            + Cardinality(doubled) + Cardinality(Swept)
         /\ UsedBytes \in Nat /\ UsedEntries \in Nat
<1>1. IsFiniteSet(Swept) /\ Swept \in SUBSET Orphan
  BY FS_Subset DEF Typed, Swept, StorageTypeOK, Orphan
<1>2. size \in [Names -> Nat] /\ DOMAIN size = Names
  BY DEF Typed, StorageTypeOK
<1>3. SumFunction(size) \in Nat
  BY <1>2, SumNat, NamesFinite DEF SumFunction
<1>4. OrphanBytes(Swept) \in Nat
  BY <1>1, OrphanSums
<1>5. filler.bytes \in Nat /\ filler.entries \in Nat
  BY StorageAssumption DEF Typed, StorageTypeOK
<1>6. UsedBytes = filler.bytes + SumFunction(size) + OrphanBytes(Swept)
  BY DEF UsedBytes, OrphanBytes
<1>7. IsFiniteSet({n \in Names : There(n)})
  BY NamesFinite, FS_Subset
<1>8. IsFiniteSet(doubled)
  BY <1>7, FS_Subset DEF Typed, StorageTypeOK
<1>9. /\ Cardinality({n \in Names : There(n)}) \in Nat /\ Cardinality(doubled) \in Nat
      /\ Cardinality(Swept) \in Nat
  BY <1>1, <1>7, <1>8, FS_CardinalityType
<1>10. UsedEntries = filler.entries + Cardinality({n \in Names : There(n)})
                       + Cardinality(doubled) + Cardinality(Swept)
  BY DEF UsedEntries
<1> QED BY <1>1, <1>3, <1>4, <1>5, <1>6, <1>7, <1>8, <1>9, <1>10

\* One file of another size.
LEMMA NewSize ==
  ASSUME Typed, NEW n \in Names, NEW s \in Nat \ {0}, size' = [size EXCEPT ![n] = s]
  PROVE  /\ size' \in [Names -> Nat]
         /\ SumFunction(size)' = SumFunction(size) - size[n] + s
         /\ \A m \in Names : There(m)' <=> There(m) \/ m = n
         /\ Cardinality({m \in Names : There(m)'}) =
              Cardinality({m \in Names : There(m)}) + IF There(n) THEN 0 ELSE 1
<1>1. size \in [Names -> Nat]
  BY DEF Typed, StorageTypeOK
<1>2. SumFunction(size)' = SumFunction(size) - size[n] + s
  BY <1>1, NamesFinite, SumChanged
<1>3. \A m \in Names : There(m)' <=> There(m) \/ m = n
  BY <1>1 DEF There
<1>4. {m \in Names : There(m)'} = {m \in Names : There(m)} \cup {n}
  BY <1>3
<1>5. IsFiniteSet({m \in Names : There(m)})
  BY NamesFinite, FS_Subset
<1>6. Cardinality({m \in Names : There(m)'}) =
        Cardinality({m \in Names : There(m)}) + IF There(n) THEN 0 ELSE 1
  <2> DEFINE S == {m \in Names : There(m)}
  <2>1. n \in S <=> There(n)
    OBVIOUS
  <2>2. IsFiniteSet(S)
    BY <1>5
  <2>3. Cardinality(S) \in Nat
    BY <2>2, FS_CardinalityType
  <2> HIDE DEF S
  <2>4. Cardinality(S \cup {n}) = IF n \in S THEN Cardinality(S) ELSE Cardinality(S) + 1
    BY <2>2, FS_AddElement
  <2>5. Cardinality(S \cup {n}) = Cardinality(S) + IF There(n) THEN 0 ELSE 1
    BY <2>1, <2>3, <2>4
  <2> QED BY <1>4, <2>5 DEF S
<1> QED BY <1>1, <1>2, <1>3, <1>6

\* What a publication of a new file adds to the tree, whether it is cut or not.
LEMMA CreateUsage ==
  ASSUME Typed, NEW n \in Names \ {Run}, ~There(n), NEW s \in Nat \ {0}, s <= Limit(n),
         NEW cut \in Cuts, CreateFile(n, s, cut), UNCHANGED filler
  PROVE  /\ size' \in [Names -> Nat] /\ \A m \in Names : size'[m] <= Limit(m)
         /\ doubled' \subseteq {m \in Names : There(m)'}
         /\ orphans' \subseteq Orphan /\ IsFiniteSet(orphans') /\ There(Run)'
         /\ UsedBytes' <= UsedBytes + s /\ UsedEntries' <= UsedEntries + 2
         /\ RunOrphans' = {}
         /\ cut = "done" => /\ size' = [size EXCEPT ![n] = s] /\ doubled' = doubled
                            /\ orphans' = Swept
                            /\ UsedBytes' = UsedBytes + s /\ UsedEntries' = UsedEntries + 1
<1>p. /\ IsFiniteSet(Swept) /\ Swept \in SUBSET Orphan
      /\ SumFunction(size) \in Nat /\ OrphanBytes(Swept) \in Nat /\ filler.bytes \in Nat
      /\ UsedBytes = filler.bytes + SumFunction(size) + OrphanBytes(Swept)
      /\ IsFiniteSet({m \in Names : There(m)}) /\ IsFiniteSet(doubled)
      /\ Cardinality({m \in Names : There(m)}) \in Nat /\ Cardinality(doubled) \in Nat
      /\ Cardinality(Swept) \in Nat /\ filler.entries \in Nat
      /\ UsedEntries = filler.entries + Cardinality({m \in Names : There(m)})
                         + Cardinality(doubled) + Cardinality(Swept)
      /\ UsedBytes \in Nat /\ UsedEntries \in Nat
  BY UsageParts
<1> USE <1>p
<1>0. /\ size \in [Names -> Nat] /\ \A m \in Names : size[m] <= Limit(m)
      /\ doubled \subseteq {m \in Names : There(m)} /\ faults \in 0 .. MaxFaults
  BY DEF Typed, StorageTypeOK
<1>1. CASE cut = "temporary"
  <2>1. size' = size /\ doubled' = doubled /\ orphans' = Swept \cup {Temporary(n, s)}
    BY <1>1 DEF CreateFile
  <2>2. Temporary(n, s) \in Orphan /\ Temporary(n, s).size = s
    BY <1>0 DEF Temporary, Orphan
  <2>3. orphans' \subseteq Orphan /\ IsFiniteSet(orphans')
    BY <2>1, <2>2, FS_AddElement
  <2>4. Swept' = orphans' /\ RunOrphans' = {}
    BY <2>1 DEF Swept, RunOrphans, Temporary
  <2>5. OrphanBytes(Swept)' <= OrphanBytes(Swept) + s
    <3>1. OrphanBytes(Swept \cup {Temporary(n, s)}) <= OrphanBytes(Swept) + s
      BY <2>2, OrphanSums
    <3> QED BY <2>1, <2>4, <3>1 DEF OrphanBytes
  <2>6. Cardinality(Swept)' <= Cardinality(Swept) + 1
    <3>1. Cardinality(Swept \cup {Temporary(n, s)}) \in {Cardinality(Swept), Cardinality(Swept) + 1}
      BY FS_AddElement
    <3> QED BY <2>1, <2>4, <3>1
  <2>7. \A m : (There(m)' <=> There(m))
    BY <2>1 DEF There
  <2>8. {m \in Names : There(m)'} = {m \in Names : There(m)}
    BY <2>7
  <2>9. UsedBytes' = filler.bytes + SumFunction(size) + OrphanBytes(Swept)'
    BY <2>1 DEF UsedBytes, OrphanBytes
  <2>10. UsedEntries' = filler.entries + Cardinality({m \in Names : There(m)})
                            + Cardinality(doubled) + Cardinality(Swept)'
    BY <2>1, <2>8 DEF UsedEntries
  <2>11. OrphanBytes(Swept)' \in Nat /\ Cardinality(Swept)' \in Nat
    BY <2>3, <2>4, OrphanSums, FS_CardinalityType
  <2>12. UsedBytes' <= UsedBytes + s
    BY <2>5, <2>9, <2>11
  <2>13. UsedEntries' <= UsedEntries + 2
    BY <2>6, <2>10, <2>11
  <2>14. There(Run)' /\ doubled' \subseteq {m \in Names : There(m)'}
    BY <1>0, <2>1, <2>7, <2>8 DEF Typed
  <2> QED BY <1>0, <1>1, <2>1, <2>3, <2>4, <2>12, <2>13, <2>14
<1>2. CASE cut # "temporary"
  <2>1. size' = [size EXCEPT ![n] = s] /\ orphans' = Swept
    BY <1>2 DEF CreateFile
  <2>2. /\ size' \in [Names -> Nat]
        /\ SumFunction(size)' = SumFunction(size) + s
        /\ \A m \in Names : There(m)' <=> There(m) \/ m = n
        /\ Cardinality({m \in Names : There(m)'}) = Cardinality({m \in Names : There(m)}) + 1
    <3>1. size[n] = 0
      BY <1>0 DEF There
    <3>2. /\ size' \in [Names -> Nat]
          /\ SumFunction(size)' = SumFunction(size) - size[n] + s
          /\ \A m \in Names : There(m)' <=> There(m) \/ m = n
          /\ Cardinality({m \in Names : There(m)'}) = Cardinality({m \in Names : There(m)}) + IF There(n) THEN 0 ELSE 1
      BY <2>1, NewSize
    <3> QED BY <3>1, <3>2
  <2>3. \A m \in Names : size'[m] <= Limit(m)
    BY <1>0, <2>1
  <2>4. Swept' = Swept /\ RunOrphans' = {}
    BY <2>1 DEF Swept, RunOrphans
  <2>5. /\ UsedBytes' = UsedBytes + s
        /\ UsedEntries' = filler.entries + (Cardinality({m \in Names : There(m)}) + 1)
                             + Cardinality(doubled') + Cardinality(Swept)
    <3>1. UsedBytes' = filler.bytes + SumFunction(size)' + OrphanBytes(Swept)
      BY <2>4 DEF UsedBytes, OrphanBytes
    <3>2. UsedEntries' = filler.entries + Cardinality({m \in Names : There(m)'})
                             + Cardinality(doubled') + Cardinality(Swept)
      BY <2>4 DEF UsedEntries
    <3>3. UsedBytes' = UsedBytes + s
      BY <2>2, <3>1
    <3>4. UsedEntries' = filler.entries + (Cardinality({m \in Names : There(m)}) + 1)
                             + Cardinality(doubled') + Cardinality(Swept)
      BY <2>2, <3>2
    <3> HIDE DEF There
    <3> QED BY <3>3, <3>4
  <2>6. /\ doubled' \in {doubled, doubled \cup {n}}
        /\ cut = "done" => doubled' = doubled
    BY DEF CreateFile
  <2>7. Cardinality(doubled') \in {Cardinality(doubled), Cardinality(doubled) + 1}
    BY <2>6, FS_AddElement
  <2>8. doubled' \subseteq {m \in Names : There(m)'} /\ There(Run)'
    <3>1. Run \in Names
      BY DEF Names
    <3> QED BY <1>0, <2>2, <2>6, <3>1 DEF Typed
  <2>9. UsedEntries' <= UsedEntries + 2 /\ (cut = "done" => UsedEntries' = UsedEntries + 1)
    BY <2>5, <2>6, <2>7
  <2>10. orphans' \subseteq Orphan /\ IsFiniteSet(orphans')
    BY <2>1
  <2> QED BY <2>1, <2>2, <2>3, <2>4, <2>5, <2>6, <2>8, <2>9, <2>10
<1> QED BY <1>1, <1>2

\* The replacement of run.json.
LEMMA ReplaceUsage ==
  ASSUME Typed, NEW s \in Nat \ {0}, s <= ArtifactCap, NEW next, NEW cut \in Cuts \ {"linked"},
         Replace(s, next, cut), UNCHANGED <<filler, doubled>>
  PROVE  /\ size' \in [Names -> Nat] /\ \A m \in Names : size'[m] <= Limit(m)
         /\ doubled' \subseteq {m \in Names : There(m)'}
         /\ orphans' \subseteq Orphan /\ IsFiniteSet(orphans') /\ There(Run)'
         /\ \A m \in Names : (There(m)' <=> There(m))
         /\ cut = "done" => /\ size' = [size EXCEPT ![Run] = s] /\ head' = next
                            /\ UsedBytes' = UsedBytes - size[Run] + s
                            /\ UsedEntries' = UsedEntries
                            /\ orphans' = Swept /\ RunOrphans' = {}
         /\ cut # "done" => /\ size' = size /\ head' = head
                            /\ UsedBytes' = UsedBytes /\ UsedEntries' = UsedEntries
                            /\ OrphanBytes(RunOrphans)' = s /\ Cardinality(RunOrphans)' = 1
<1>p. /\ IsFiniteSet(Swept) /\ Swept \in SUBSET Orphan
      /\ SumFunction(size) \in Nat /\ OrphanBytes(Swept) \in Nat /\ filler.bytes \in Nat
      /\ UsedBytes = filler.bytes + SumFunction(size) + OrphanBytes(Swept)
      /\ IsFiniteSet({m \in Names : There(m)}) /\ IsFiniteSet(doubled)
      /\ Cardinality({m \in Names : There(m)}) \in Nat /\ Cardinality(doubled) \in Nat
      /\ Cardinality(Swept) \in Nat /\ filler.entries \in Nat
      /\ UsedEntries = filler.entries + Cardinality({m \in Names : There(m)})
                         + Cardinality(doubled) + Cardinality(Swept)
      /\ UsedBytes \in Nat /\ UsedEntries \in Nat
  BY UsageParts
<1> USE <1>p
<1>0. /\ size \in [Names -> Nat] /\ \A m \in Names : size[m] <= Limit(m)
      /\ doubled \subseteq {m \in Names : There(m)} /\ faults \in 0 .. MaxFaults
      /\ Run \in Names /\ There(Run)
  BY DEF Typed, StorageTypeOK, Names
<1>1. CASE cut # "done"
  <2>1. size' = size /\ head' = head /\ orphans' = Swept \cup {Temporary(Run, s)}
    BY <1>1 DEF Replace
  <2>2. Temporary(Run, s) \in Orphan /\ Temporary(Run, s).size = s /\ Temporary(Run, s).name = Run
    BY <1>0 DEF Temporary, Orphan
  <2>3. orphans' \subseteq Orphan /\ IsFiniteSet(orphans')
    BY <2>1, <2>2, FS_AddElement
  <2>4. Swept' = Swept /\ RunOrphans' = {Temporary(Run, s)}
    BY <2>1, <2>2 DEF Swept, RunOrphans
  <2>5. Cardinality(RunOrphans)' = 1
    BY <2>4, FS_Singleton
  <2>6. OrphanBytes(RunOrphans)' = s
    <3> DEFINE t == Temporary(Run, s)
    <3> DEFINE f == [o \in {t} |-> o.size]
    <3>1. DOMAIN f = {t} /\ f[t] = s
      BY <2>2
    <3>2. OrphanBytes({t}) = SumFunctionOnSet(f, {t})
      BY <3>1 DEF OrphanBytes, SumFunction
    <3> HIDE DEF f, t
    <3>9. IsFiniteSet({t}) /\ \A x \in {t} : f[x] \in Nat
      BY <3>1, FS_Singleton
    <3>3. SumFunctionOnSet(f, {t}) = f[t] + SumFunctionOnSet(f, {t} \ {t})
      BY <3>9, SumTake
    <3>4. {t} \ {t} = {}
      OBVIOUS
    <3>6. SumFunctionOnSet(f, {t} \ {t}) = 0
      BY <3>4, SumEmpty
    <3>5. OrphanBytes({t}) = s
      BY <3>1, <3>2, <3>3, <3>6
    <3> QED BY <2>4, <3>5 DEF t, OrphanBytes
  <2>7. \A m : (There(m)' <=> There(m))
    BY <2>1 DEF There
  <2>8. {m \in Names : There(m)'} = {m \in Names : There(m)}
    BY <2>7
  <2>9. UsedBytes' = UsedBytes
    BY <2>1, <2>4 DEF UsedBytes
  <2>10. UsedEntries' = UsedEntries
    BY <2>4, <2>8 DEF UsedEntries
  <2> QED BY <1>0, <1>1, <2>1, <2>3, <2>5, <2>6, <2>7, <2>8, <2>9, <2>10
<1>2. CASE cut = "done"
  <2>1. size' = [size EXCEPT ![Run] = s] /\ head' = next /\ orphans' = Swept
    BY <1>2 DEF Replace
  <2>2. /\ size' \in [Names -> Nat]
        /\ SumFunction(size)' = SumFunction(size) - size[Run] + s
        /\ \A m \in Names : There(m)' <=> There(m) \/ m = Run
    BY <1>0, <2>1, NewSize
  <2>3. \A m \in Names : size'[m] <= Limit(m)
    <3>1. Limit(Run) = ArtifactCap
      BY NamesDiffer DEF Limit, Exchange, Evaluation
    <3> QED BY <1>0, <2>1, <3>1
  <2>4. Swept' = Swept /\ RunOrphans' = {}
    BY <2>1 DEF Swept, RunOrphans
  <2>5. \A m \in Names : (There(m)' <=> There(m))
    BY <1>0, <2>2
  <2>6. {m \in Names : There(m)'} = {m \in Names : There(m)}
    BY <2>5
  <2>7. UsedBytes' = UsedBytes - size[Run] + s
    <3>1. UsedBytes' = filler.bytes + SumFunction(size)' + OrphanBytes(Swept)
      BY <2>4 DEF UsedBytes, OrphanBytes
    <3>2. size[Run] \in Nat
      BY <1>0
    <3> QED BY <2>2, <3>1, <3>2
  <2>8. UsedEntries' = UsedEntries
    BY <2>4, <2>6 DEF UsedEntries
  <2>9. There(Run)' /\ doubled' \subseteq {m \in Names : There(m)'}
    BY <1>0, <2>5, <2>6
  <2> QED BY <1>2, <2>1, <2>2, <2>3, <2>4, <2>5, <2>7, <2>8, <2>9
<1> QED BY <1>1, <1>2

-----------------------------------------------------------------------------
(* RunStorage: what is owed.                                               *)

\* The names that are missing.
LEMMA MissingFinite ==
  ASSUME NEW S \in SUBSET Names
  PROVE  /\ IsFiniteSet(Missing(S)) /\ Missing(S) \subseteq S
         /\ Cardinality(Missing(S)) \in Nat /\ LimitsOf(Missing(S)) \in Nat
BY NamesFinite, FS_Subset, FS_CardinalityType, LimitSums DEF Missing

\* Fewer slots reserve no more.
LEMMA MissingLess ==
  ASSUME NEW S \in SUBSET Names, NEW T \in SUBSET S
  PROVE  /\ Cardinality(T) \in Nat /\ Cardinality(T) <= Cardinality(S)
         /\ LimitsOf(T) \in Nat /\ LimitsOf(T) <= LimitsOf(S)
<1>1. IsFiniteSet(S) /\ IsFiniteSet(T)
  BY NamesFinite, FS_Subset
<1>2. Cardinality(T) \in Nat /\ Cardinality(T) <= Cardinality(S)
  BY <1>1, FS_Subset, FS_CardinalityType
<1>3. LimitsOf(T) \in Nat /\ LimitsOf(T) <= LimitsOf(S)
  BY <1>1, LimitSums
<1> QED BY <1>2, <1>3

\* One slot less.
LEMMA MissingWithout ==
  ASSUME NEW S \in SUBSET Names, NEW n \in S
  PROVE  /\ Cardinality(S) \in Nat \ {0} /\ Cardinality(S \ {n}) = Cardinality(S) - 1
         /\ LimitsOf(S) \in Nat /\ LimitsOf(S \ {n}) \in Nat
         /\ LimitsOf(S) = Limit(n) + LimitsOf(S \ {n})
<1>1. IsFiniteSet(S) /\ IsFiniteSet(S \ {n})
  BY NamesFinite, FS_Subset, FS_RemoveElement
<1>2. Cardinality(S \ {n}) = Cardinality(S) - 1 /\ Cardinality(S) \in Nat /\ Cardinality(S \ {n}) \in Nat
  BY <1>1, FS_RemoveElement, FS_CardinalityType
<1>3. LimitsOf(S) \in Nat /\ LimitsOf(S \ {n}) \in Nat /\ LimitsOf(S) = Limit(n) + LimitsOf(S \ {n})
  BY <1>1, LimitSums
<1> QED BY <1>2, <1>3

\* The fields of a commitment.
LEMMA OwedIs ==
  \A S, r, p : /\ Owed(S, r, p).bytes = LimitsOf(S) + r + p
               /\ Owed(S, r, p).entries = Cardinality(S) + 1
               /\ Owed(S, r, p).slots = S
BY DEF Owed, LimitsOf

LogRoom == [n \in {m \in Logs : There(m)} |-> LogCap - size[n]]

\* The unused part of the logs is a number.
LEMMA ResidualType ==
  ASSUME Typed
  PROVE  Residual \in Nat
<1>1. \A n \in Logs : LogCap - size[n] \in Nat
  BY NamesDiffer, StorageAssumption DEF Typed, StorageTypeOK, Limit, Names, Evaluation, Exchange
<1>2. IsFiniteSet({m \in Logs : There(m)})
  BY NamesFinite, FS_Subset
<1>3. DOMAIN LogRoom = {m \in Logs : There(m)} /\ \A x \in DOMAIN LogRoom : LogRoom[x] \in Nat
  BY <1>1 DEF LogRoom
<1>4. SumFunction(LogRoom) \in Nat
  BY <1>2, <1>3, SumNat DEF SumFunction
<1> QED BY <1>4 DEF Residual, LogRoom

\* It depends on the logs and on the Testing evidence alone.
LEMMA ResidualSame ==
  ASSUME \A m \in Logs : size'[m] = size[m], There(Testing)' <=> There(Testing)
  PROVE  Residual' = Residual
<1>1. {m \in Logs : There(m)'} = {m \in Logs : There(m)}
  BY DEF There
<1>2. LogRoom' = LogRoom
  BY <1>1 DEF LogRoom
<1> QED BY <1>2 DEF Residual, LogRoom

\* A log of size s leaves the rest of its limit reserved.
LEMMA ResidualOfLog ==
  ASSUME Typed, NEW n \in Logs, ~There(n), NEW s \in Nat \ {0}, s <= LogCap, size' = [size EXCEPT ![n] = s]
  PROVE  Residual' <= Residual + LogCap - s /\ Residual' \in Nat
<1>0. /\ size \in [Names -> Nat] /\ n \in Names /\ Testing \in Names /\ n # Testing
      /\ \A m \in Logs : m \in Names /\ size[m] <= LogCap
  BY NamesDiffer DEF Typed, StorageTypeOK, Names, Evaluation, Limit, Exchange
<1>1. There(Testing)' <=> There(Testing)
  BY <1>0 DEF There
<1>2. CASE There(Testing)
  BY <1>1, <1>2, StorageAssumption DEF Residual
<1>3. CASE ~There(Testing)
  <2> DEFINE S == {m \in Logs : There(m)}
             f == LogRoom
             g == LogRoom'
  <2>1. IsFiniteSet(S) /\ n \notin S
    BY NamesFinite, FS_Subset
  <2>2. {m \in Logs : There(m)'} = S \cup {n}
    BY <1>0 DEF There
  <2>3. DOMAIN f = S /\ DOMAIN g = S \cup {n}
    BY <2>2 DEF LogRoom
  <2>4. \A x \in S : f[x] = g[x] /\ f[x] \in Nat
    BY <1>0, <2>1, <2>2, StorageAssumption DEF LogRoom
  <2>5. g[n] = LogCap - s /\ g[n] \in Nat
    BY <1>0, <2>2, StorageAssumption DEF LogRoom
  <2>6. Residual = SumFunctionOnSet(f, S) /\ Residual' = SumFunctionOnSet(g, S \cup {n})
    BY <1>1, <1>3, <2>2, <2>3 DEF Residual, LogRoom, SumFunction
  <2> HIDE DEF S, f, g
  <2>7. SumFunctionOnSet(g, S \cup {n}) = g[n] + SumFunctionOnSet(g, S)
    BY <2>1, <2>4, <2>5, SumAdd
  <2>8. SumFunctionOnSet(g, S) = SumFunctionOnSet(f, S)
    BY <2>1, <2>4, SumSame
  <2>9. SumFunctionOnSet(f, S) \in Nat
    BY <2>1, <2>4, SumNat
  <2> QED BY <2>5, <2>6, <2>7, <2>8, <2>9, StorageAssumption
<1> QED BY <1>2, <1>3

-----------------------------------------------------------------------------
(* What is owed in each state.                                             *)

\* The commitment that is derived from each kind of state.
LEMMA CommitmentCases ==
  /\ head = "request" => Commitment = RequestTail(size[Run])
  /\ head \in {"approved", "final"} /\ There(RecoverySource) => Commitment = TransitionTail
  /\ head = "approved" /\ There(Intent) /\ ~There(RecoverySource) => Commitment = PrefixTail
  /\ head = "quiet" /\ ~There(RequestRecord) => Commitment = NoCommitment
  /\ head = "approved" /\ ~There(Intent) /\ ~There(RecoverySource) => Commitment = NoCommitment
  /\ head = "final" /\ ~There(RecoverySource) => Commitment = NoCommitment
  /\ head \in {"answered", "adopted", "invalidated"} => Commitment = NoCommitment
BY DEF Commitment, ProviderCommitment, EvaluationCommitment

\* The same after a step.
LEMMA CommitmentCasesPrimed ==
  /\ head' = "request" => Commitment' = RequestTail(size[Run])'
  /\ head' \in {"approved", "final"} /\ There(RecoverySource)' => Commitment' = TransitionTail'
  /\ head' = "approved" /\ There(Intent)' /\ ~There(RecoverySource)' => Commitment' = PrefixTail'
  /\ head' = "quiet" /\ ~There(RequestRecord)' => Commitment' = NoCommitment
  /\ head' = "approved" /\ ~There(Intent)' /\ ~There(RecoverySource)' => Commitment' = NoCommitment
  /\ head' = "final" /\ ~There(RecoverySource)' => Commitment' = NoCommitment
  /\ head' \in {"answered", "adopted", "invalidated"} => Commitment' = NoCommitment
BY DEF Commitment, ProviderCommitment, EvaluationCommitment

Slots == {Reply, ReplyRecord}
PrefixNames == Logs \cup {Testing, Report} \cup Recovery
TransitionSlots == Missing({Decision}) \cup {n \in {Report} : ReportState = "missing"}
TransitionRest == IF ReportState = "unauthenticated" THEN ArtifactCap - size[Report] ELSE 0

\* The three tails, in the names used here.
LEMMA TailsAre ==
  /\ \A s : RequestTail(s) = Owed(Missing(Slots), 0, s + Growth)
  /\ PrefixTail = Owed(Missing(PrefixNames), Residual, ArtifactCap)
  /\ TransitionTail = Owed(TransitionSlots, TransitionRest, ArtifactCap)
BY DEF RequestTail, PrefixTail, TransitionTail, Slots, PrefixNames, TransitionSlots, TransitionRest

\* The same after a step.
LEMMA TailsArePrimed ==
  /\ \A s : RequestTail(s)' = Owed(Missing(Slots)', 0, s + Growth)
  /\ PrefixTail' = Owed(Missing(PrefixNames)', Residual', ArtifactCap)
  /\ TransitionTail' = Owed(TransitionSlots', TransitionRest', ArtifactCap)
BY DEF RequestTail, PrefixTail, TransitionTail, Slots, PrefixNames, TransitionSlots, TransitionRest, Owed

-----------------------------------------------------------------------------
(* RunStorage: a publication keeps the invariant.                          *)

Heads == {"quiet", "request", "answered", "approved", "final", "adopted", "invalidated"}
Sources == {"none", "create", "verify", "invalidate"}

\* The number of bytes and entries that are projected after a publication.
IsAmount(after) == after.bytes \in Nat /\ after.entries \in Nat

OwedAtMost(after) ==
  Commitment # NoCommitment =>
    Commitment.bytes \in 0 .. after.bytes /\ Commitment.entries \in 0 .. after.entries

\* Who goes on after a step: a death ends the wait.
Goes(cut) ==
  /\ cut = "done" => faults' = faults /\ caller' \in {caller, NoCaller}
  /\ cut # "done" => faults' \in 1 .. MaxFaults /\ caller' = NoCaller

Held == faults = 0 \/ caller # NoCaller

\* What the invariant says, part by part.
LEMMA InvParts ==
  ASSUME StorageInv
  PROVE  /\ Typed /\ size \in [Names -> Nat] /\ \A n \in Names : size[n] <= Limit(n)
         /\ filler \in Fillers /\ head \in Heads /\ source \in Sources
         /\ caller \in [what : {"nothing", "provider", "evaluation"}, at : 0 .. MaxFaults]
         /\ faults \in 0 .. MaxFaults
         /\ CallerWaits /\ (faults = 0 => NothingIsLeft) /\ (Held => RoomIsKept)
         /\ UsedBytes \in Nat /\ UsedEntries \in Nat /\ size[Run] \in Nat
<1>1. Typed
  BY DEF StorageInv, Typed
<1>2. UsedBytes \in Nat /\ UsedEntries \in Nat
  BY <1>1, UsageParts
<1>3. Run \in Names
  BY DEF Names
<1> QED BY <1>1, <1>2, <1>3 DEF StorageInv, StorageTypeOK, Heads, Sources, Held

\* A publication goes on, or its writer dies.
LEMMA DiedGoes ==
  ASSUME StorageInv, NEW cut \in Cuts, Died(cut)
  PROVE  Goes(cut) /\ (cut = "done" => caller' = caller)
<1>1. faults \in 0 .. MaxFaults /\ MaxFaults \in Nat
  BY InvParts, StorageAssumption
<1> QED BY <1>1 DEF Died, Goes, Cuts

\* Who has room kept for him after a step had it before.
LEMMA GoesTyped ==
  ASSUME StorageInv, NEW cut \in Cuts, Goes(cut)
  PROVE  /\ caller' \in [what : {"nothing", "provider", "evaluation"}, at : 0 .. MaxFaults]
         /\ faults' \in 0 .. MaxFaults
         /\ Held' => cut = "done"
         /\ Held' => Held
<1>1. faults \in 0 .. MaxFaults /\ MaxFaults \in Nat
      /\ caller \in [what : {"nothing", "provider", "evaluation"}, at : 0 .. MaxFaults]
  BY InvParts, StorageAssumption
<1>2. NoCaller \in [what : {"nothing", "provider", "evaluation"}, at : 0 .. MaxFaults]
  BY <1>1 DEF NoCaller
<1>3. faults' \in 0 .. MaxFaults /\ (cut # "done" => faults' # 0)
  BY <1>1 DEF Goes
<1> QED BY <1>1, <1>2, <1>3 DEF Goes, Held

\* No file that the derivation measures gains a second name, and no request is raw,
\* as long as nobody has died or somebody waits.
LEMMA NeverBroken ==
  ASSUME StorageInv, NEW cut \in Cuts, Goes(cut), CallerWaits', Held', doubled' = doubled,
         \A n \in Names : There(n) => There(n)', head' = "quiet" => head = "quiet",
         head' = "quiet" => (There(Request)' => There(Request))
  PROVE  ~Broken'
<1>0. Held /\ cut = "done" /\ CallerWaits /\ RoomIsKept /\ (faults = 0 => NothingIsLeft)
      /\ faults' = faults /\ caller' \in {caller, NoCaller}
  BY InvParts, GoesTyped DEF Goes
<1>1. CASE faults = 0
  <2>1. doubled' = {}
    BY <1>0, <1>1 DEF NothingIsLeft
  <2>2. head' = "quiet" => ~There(Request)'
    BY <1>0, <1>1 DEF NothingIsLeft
  <2> QED BY <2>1, <2>2 DEF Broken
<1>2. CASE faults # 0
  <2>1. caller' # NoCaller /\ caller' = caller
    BY <1>0, <1>2 DEF Held
  <2>2. caller.what \in {"provider", "evaluation"}
    BY <1>0, <2>1, InvParts DEF CallerWaits
  <2>3. CASE caller.what = "provider"
    <3>1. head' = "request"
      BY <2>1, <2>3 DEF CallerWaits
    <3> QED BY <3>1 DEF Broken, Measured
  <2>4. CASE caller.what = "evaluation"
    <3>1. head' = "approved" /\ There(Intent)' /\ ~There(RecoverySource)'
      BY <2>1, <2>4 DEF CallerWaits
    <3>2. head = "approved" /\ There(Intent) /\ ~There(RecoverySource)
      BY <1>0, <2>1, <2>4 DEF CallerWaits
    <3>3. There(Testing) => There(Testing)'
      BY DEF Names, Evaluation
    <3>4. Measured' \subseteq Measured
      BY <3>1, <3>2, <3>3 DEF Measured
    <3> QED BY <1>0, <3>1, <3>4 DEF RoomIsKept, Broken
  <2> QED BY <2>2, <2>3, <2>4
<1> QED BY <1>1, <1>2

\* A tree without a temporary of run.json.
LEMMA NoRunLeft ==
  ASSUME RunOrphans' = {}, UsedBytes' \in Nat, UsedEntries' \in Nat,
         UsedBytes' <= ByteCap, UsedEntries' <= EntryCap
  PROVE  TreeIsScannable'
<1>1. OrphanBytes(RunOrphans)' = 0 /\ Cardinality(RunOrphans)' = 0
  BY NoOrphans, FS_EmptySet DEF OrphanBytes
<1> QED BY <1>1 DEF TreeIsScannable, OrphanBytes, RunOrphans

\* The usage is a pair of numbers,
LEMMA UsageNat == Typed => UsedBytes \in Nat /\ UsedEntries \in Nat
BY UsageParts

\* after a step as well.
LEMMA UsageNatPrimed == (Typed => UsedBytes \in Nat /\ UsedEntries \in Nat)'
BY UsageNat, PTL

\* A creation keeps the invariant if what is owed afterwards is what it was projected with.
LEMMA CreateStep ==
  ASSUME StorageInv, NEW n \in Names \ {Run}, ~There(n), NEW s \in Nat, s # 0, SizeAllowed(n, s),
         NEW cut \in Cuts, CreateFile(n, s, cut), UNCHANGED <<filler, head>>, source' \in Sources,
         Goes(cut), n \notin {Request, RequestRecord}, n = Decision => There(RecoverySource),
         caller' # NoCaller => n \notin {Reply, ReplyRecord, RecoverySource},
         NEW after, IsAmount(after), CreateFits(s, after),
         cut = "done" /\ Held => OwedAtMost(after)'
  PROVE  StorageInv'
<1>p. /\ Typed /\ size \in [Names -> Nat]
      /\ filler \in Fillers /\ head \in Heads /\ source \in Sources
      /\ faults \in 0 .. MaxFaults
      /\ CallerWaits /\ (faults = 0 => NothingIsLeft) /\ (Held => RoomIsKept)
      /\ UsedBytes \in Nat /\ UsedEntries \in Nat
  BY InvParts
<1>0. s \in Nat \ {0} /\ s <= Limit(n)
  BY DEF SizeAllowed
<1>1. /\ size' \in [Names -> Nat] /\ \A m \in Names : size'[m] <= Limit(m)
      /\ doubled' \subseteq {m \in Names : There(m)'}
      /\ orphans' \subseteq Orphan /\ IsFiniteSet(orphans') /\ There(Run)'
      /\ UsedBytes' <= UsedBytes + s /\ UsedEntries' <= UsedEntries + 2
      /\ RunOrphans' = {}
      /\ cut = "done" => /\ size' = [size EXCEPT ![n] = s] /\ doubled' = doubled
                         /\ orphans' = Swept
                         /\ UsedBytes' = UsedBytes + s /\ UsedEntries' = UsedEntries + 1
  BY <1>p, <1>0, CreateUsage
<1>2. \A m \in Names : (There(m) => There(m)') /\ (There(m)' => There(m) \/ m = n)
  BY <1>p DEF CreateFile, There
<1>3. /\ caller' \in [what : {"nothing", "provider", "evaluation"}, at : 0 .. MaxFaults]
      /\ faults' \in 0 .. MaxFaults /\ (Held' => cut = "done" /\ Held)
  BY GoesTyped
<1>4. StorageTypeOK'
  BY <1>p, <1>1, <1>3 DEF StorageTypeOK, Orphan, Sources, Heads
<1>5. Typed' /\ UsedBytes' \in Nat /\ UsedEntries' \in Nat
  BY <1>1, <1>4, UsageNatPrimed DEF Typed
<1>6. TreeIsScannable'
  <2>1. UsedBytes + s <= ByteCap /\ UsedEntries + 2 <= EntryCap
    BY DEF CreateFits, Fits
  <2>2. UsedBytes' <= ByteCap /\ UsedEntries' <= EntryCap
    BY <1>p, <1>0, <1>1, <1>5, <2>1, StorageAssumption
  <2> QED BY <1>1, <1>5, <2>2, NoRunLeft
<1>7. CallerWaits'
  <2>1. {Reply, ReplyRecord, RecoverySource, Decision, Intent} \subseteq Names
    BY DEF Names, Exchange, Recovery, Evaluation
  <2>2. There(Decision)' => There(RecoverySource)'
    BY <1>p, <1>2, <2>1 DEF CallerWaits
  <2>3. CASE caller' = NoCaller
    BY <2>2, <2>3 DEF CallerWaits, NoCaller
  <2>4. CASE caller' # NoCaller
    <3>1. caller' = caller /\ faults' = faults
      BY <2>4 DEF Goes
    <3> QED BY <1>p, <1>2, <2>1, <2>2, <2>4, <3>1 DEF CallerWaits
  <2> QED BY <2>3, <2>4
<1>8. faults' = 0 => NothingIsLeft'
  <2> SUFFICES ASSUME faults' = 0 PROVE NothingIsLeft'
    OBVIOUS
  <2>1. cut = "done" /\ faults = 0
    BY <1>p, StorageAssumption DEF Goes
  <2>2. NothingIsLeft
    BY <1>p, <2>1
  <2>3. orphans' = {} /\ doubled' = {}
    BY <1>1, <2>1, <2>2 DEF NothingIsLeft, Swept
  <2>4. {Request, RequestRecord} \subseteq Names
    BY DEF Names, Exchange
  <2> QED BY <1>2, <2>2, <2>3, <2>4 DEF NothingIsLeft
<1>9. Held' => RoomIsKept'
  <2> SUFFICES ASSUME Held' PROVE RoomIsKept'
    OBVIOUS
  <2>1. cut = "done" /\ Held
    BY <1>3
  <2>2. ~Broken'
    <3>1. \A m \in Names : There(m) => There(m)'
      BY <1>2
    <3>2. There(Request)' => There(Request)
      BY <1>2 DEF Names, Exchange
    <3> QED BY <1>1, <1>7, <2>1, <3>1, <3>2, NeverBroken
  <2>3. Active' => CommitmentFits'
    <3> SUFFICES ASSUME Active' PROVE CommitmentFits'
      OBVIOUS
    <3>1. Commitment.bytes' \in 0 .. after.bytes /\ Commitment.entries' \in 0 .. after.entries
      BY <2>1 DEF OwedAtMost, Active
    <3>2. UsedBytes + s + after.bytes <= ByteCap /\ UsedEntries + 1 + after.entries <= EntryCap
      BY DEF CreateFits, Fits
    <3>3. UsedBytes' = UsedBytes + s /\ UsedEntries' = UsedEntries + 1
      BY <1>1, <2>1
    <3>5. after.bytes \in Nat /\ after.entries \in Nat
      BY DEF IsAmount
    <3>4. UsedBytes' + Commitment.bytes' <= ByteCap /\ UsedEntries' + Commitment.entries' <= EntryCap
      BY <1>p, <1>0, <3>1, <3>2, <3>3, <3>5, StorageAssumption
    <3> QED BY <3>4 DEF CommitmentFits, Fits
  <2> QED BY <2>2, <2>3 DEF RoomIsKept
<1> QED BY <1>1, <1>4, <1>6, <1>7, <1>8, <1>9 DEF StorageInv, Held

\* A replacement of run.json likewise.
LEMMA ReplaceStep ==
  ASSUME StorageInv, NEW s \in Nat \ {0}, SizeAllowed(Run, s), NEW next \in Heads,
         NEW cut \in Cuts \ {"linked"}, Replace(s, next, cut),
         UNCHANGED <<filler, doubled, source>>,
         Goes(cut), next = "quiet" => head = "quiet", caller' # NoCaller => next = head,
         NEW after, IsAmount(after), ReplaceFits(s, after),
         cut = "done" /\ Held => OwedAtMost(after)'
  PROVE  StorageInv'
<1>p. /\ Typed /\ size \in [Names -> Nat] /\ \A m \in Names : size[m] <= Limit(m)
      /\ filler \in Fillers /\ head \in Heads /\ source \in Sources
      /\ faults \in 0 .. MaxFaults
      /\ CallerWaits /\ (faults = 0 => NothingIsLeft) /\ (Held => RoomIsKept)
      /\ UsedBytes \in Nat /\ UsedEntries \in Nat /\ size[Run] \in Nat
  BY InvParts
<1>0. s <= ArtifactCap
  BY NamesDiffer DEF SizeAllowed, Limit, Exchange, Evaluation
<1>1. /\ size' \in [Names -> Nat] /\ \A m \in Names : size'[m] <= Limit(m)
      /\ doubled' \subseteq {m \in Names : There(m)'}
      /\ orphans' \subseteq Orphan /\ IsFiniteSet(orphans') /\ There(Run)'
      /\ \A m \in Names : (There(m)' <=> There(m))
      /\ cut = "done" => /\ size' = [size EXCEPT ![Run] = s] /\ head' = next
                         /\ UsedBytes' = UsedBytes - size[Run] + s
                         /\ UsedEntries' = UsedEntries
                         /\ orphans' = Swept /\ RunOrphans' = {}
      /\ cut # "done" => /\ size' = size /\ head' = head
                         /\ UsedBytes' = UsedBytes /\ UsedEntries' = UsedEntries
                         /\ OrphanBytes(RunOrphans)' = s /\ Cardinality(RunOrphans)' = 1
  BY <1>p, <1>0, ReplaceUsage
<1>3. /\ caller' \in [what : {"nothing", "provider", "evaluation"}, at : 0 .. MaxFaults]
      /\ faults' \in 0 .. MaxFaults /\ (Held' => cut = "done" /\ Held)
  BY GoesTyped
<1>4. StorageTypeOK' /\ (head' = "quiet" => head = "quiet")
  BY <1>p, <1>1, <1>3 DEF StorageTypeOK, Orphan, Sources, Heads
<1>5. Typed' /\ UsedBytes' \in Nat /\ UsedEntries' \in Nat
  BY <1>1, <1>4, UsageNatPrimed DEF Typed
<1>6. TreeIsScannable'
  <2>1. UsedBytes + s <= ByteCap /\ UsedEntries + 1 <= EntryCap
    BY DEF ReplaceFits, Fits
  <2>2. CASE cut = "done"
    <3>1. UsedBytes' <= ByteCap /\ UsedEntries' <= EntryCap
      BY <1>p, <1>1, <1>5, <2>1, <2>2, StorageAssumption
    <3> QED BY <1>1, <1>5, <2>2, <3>1, NoRunLeft
  <2>3. CASE cut # "done"
    <3>1. UsedBytes' + OrphanBytes(RunOrphans)' <= ByteCap /\ UsedEntries' + Cardinality(RunOrphans)' <= EntryCap
      BY <1>1, <2>1, <2>3
    <3> QED BY <3>1 DEF TreeIsScannable, OrphanBytes, RunOrphans
  <2> QED BY <2>2, <2>3
<1>7. CallerWaits'
  <2>1. {Reply, ReplyRecord, RecoverySource, Decision, Intent} \subseteq Names
    BY DEF Names, Exchange, Recovery, Evaluation
  <2>2. There(Decision)' => There(RecoverySource)'
    BY <1>p, <1>1, <2>1 DEF CallerWaits
  <2>3. CASE caller' = NoCaller
    BY <2>2, <2>3 DEF CallerWaits, NoCaller
  <2>4. CASE caller' # NoCaller
    <3>1. caller' = caller /\ faults' = faults /\ head' = head
      BY <1>1, <2>4 DEF Goes
    <3> QED BY <1>p, <1>1, <2>1, <2>2, <2>4, <3>1 DEF CallerWaits
  <2> QED BY <2>3, <2>4
<1>8. faults' = 0 => NothingIsLeft'
  <2> SUFFICES ASSUME faults' = 0 PROVE NothingIsLeft'
    OBVIOUS
  <2>1. cut = "done" /\ faults = 0
    BY <1>p, StorageAssumption DEF Goes
  <2>2. NothingIsLeft
    BY <1>p, <2>1
  <2>3. orphans' = {} /\ doubled' = {}
    BY <1>1, <2>1, <2>2 DEF NothingIsLeft, Swept
  <2>4. {Request, RequestRecord} \subseteq Names
    BY DEF Names, Exchange
  <2> QED BY <1>1, <1>4, <2>2, <2>3, <2>4 DEF NothingIsLeft
<1>9. Held' => RoomIsKept'
  <2> SUFFICES ASSUME Held' PROVE RoomIsKept'
    OBVIOUS
  <2>1. cut = "done" /\ Held
    BY <1>3
  <2>2. ~Broken'
    <3>1. \A m \in Names : There(m) => There(m)'
      BY <1>1
    <3>2. There(Request)' => There(Request)
      BY <1>1 DEF Names, Exchange
    <3> QED BY <1>4, <1>7, <2>1, <3>1, <3>2, NeverBroken
  <2>3. Active' => CommitmentFits'
    <3> SUFFICES ASSUME Active' PROVE CommitmentFits'
      OBVIOUS
    <3>1. Commitment.bytes' \in 0 .. after.bytes /\ Commitment.entries' \in 0 .. after.entries
      BY <2>1 DEF OwedAtMost, Active
    <3>2. UsedBytes - size[Run] + s + after.bytes <= ByteCap /\ UsedEntries + after.entries <= EntryCap
      BY DEF ReplaceFits, Fits
    <3>3. UsedBytes' = UsedBytes - size[Run] + s /\ UsedEntries' = UsedEntries
      BY <1>1, <2>1
    <3>4. after.bytes \in Nat /\ after.entries \in Nat
      BY DEF IsAmount
    <3>5. UsedBytes' + Commitment.bytes' <= ByteCap /\ UsedEntries' + Commitment.entries' <= EntryCap
      BY <1>p, <3>1, <3>2, <3>3, <3>4, StorageAssumption
    <3> QED BY <3>5 DEF CommitmentFits, Fits
  <2> QED BY <2>2, <2>3 DEF RoomIsKept
<1> QED BY <1>1, <1>4, <1>6, <1>7, <1>8, <1>9 DEF StorageInv, Held

\* A commitment is a number of bytes and of entries.
LEMMA OwedType ==
  ASSUME NEW S \in SUBSET Names, NEW r \in Nat, NEW p \in Nat
  PROVE  IsAmount(Owed(S, r, p))
<1>1. IsFiniteSet(S)
  BY NamesFinite, FS_Subset
<1>2. LimitsOf(S) \in Nat /\ Cardinality(S) \in Nat
  BY <1>1, LimitSums, FS_CardinalityType
<1> QED BY <1>2, OwedIs DEF IsAmount

\* The slots are names.
LEMMA NamesOf ==
  /\ Slots \in SUBSET Names /\ PrefixNames \in SUBSET Names /\ TransitionSlots \in SUBSET Names
  /\ Exchange \cup Evaluation \cup Recovery \cup {Run} \in SUBSET Names
BY DEF Slots, PrefixNames, TransitionSlots, Names, Exchange, Evaluation, Recovery, Missing

\* Notes take no part in what is owed.
LEMMA SameOwed ==
  ASSUME \A m \in Exchange \cup Evaluation \cup Recovery \cup {Run} : size'[m] = size[m],
         head' = head, source' = source
  PROVE  Commitment' = Commitment
<1>1. \A m \in Exchange \cup Evaluation \cup Recovery \cup {Run} : There(m)' <=> There(m)
  BY DEF There
<1>2. Residual' = Residual
  BY <1>1, ResidualSame DEF Evaluation
<1>3. /\ Missing(Slots)' = Missing(Slots) /\ Missing(PrefixNames)' = Missing(PrefixNames)
      /\ Missing({Decision})' = Missing({Decision})
  BY <1>1 DEF Missing, Slots, PrefixNames, Exchange, Evaluation, Recovery
<1>4. ReportState' = ReportState /\ size'[Report] = size[Report] /\ size'[Run] = size[Run]
  BY <1>1 DEF ReportState, Exchange, Evaluation, Recovery
<1>5. TransitionSlots' = TransitionSlots /\ TransitionRest' = TransitionRest
  BY <1>3, <1>4 DEF TransitionSlots, TransitionRest
<1>6. PrefixTail' = PrefixTail /\ TransitionTail' = TransitionTail
  BY <1>2, <1>3, <1>5, TailsAre, TailsArePrimed
<1>7. RequestTail(size[Run])' = RequestTail(size[Run]) /\ StagedRequest' = StagedRequest
  <2>1. Missing({Reply, ReplyRecord})' = Missing({Reply, ReplyRecord})
    BY <1>3 DEF Slots
  <2> QED BY <1>4, <2>1 DEF RequestTail, StagedRequest
<1>8. ProviderCommitment' = ProviderCommitment
  BY <1>1, <1>7 DEF ProviderCommitment, Exchange
<1>9. EvaluationCommitment' = EvaluationCommitment
  BY <1>1, <1>6 DEF EvaluationCommitment, Evaluation, Recovery
<1> QED BY <1>8, <1>9 DEF Commitment

\* What an unauthenticated report may still need is a number.
LEMMA TransitionRestType ==
  ASSUME Typed
  PROVE  TransitionRest \in Nat
<1>1. size[Report] \in Nat /\ size[Report] <= ArtifactCap
  BY NamesDiffer DEF Typed, StorageTypeOK, Names, Evaluation, Exchange, Limit
<1> QED BY <1>1, StorageAssumption DEF TransitionRest

\* What is owed is a number of bytes and entries.
LEMMA CommitmentType ==
  ASSUME Typed
  PROVE  IsAmount(Commitment)
<1>1. size[Run] \in Nat /\ Growth \in Nat /\ ArtifactCap \in Nat
  BY StorageAssumption DEF Typed, StorageTypeOK, Names
<1>2. \A s \in Nat : IsAmount(RequestTail(s))
  <2> SUFFICES ASSUME NEW s \in Nat PROVE IsAmount(RequestTail(s))
    OBVIOUS
  <2>1. Missing(Slots) \in SUBSET Names /\ s + Growth \in Nat
    BY <1>1, NamesOf DEF Missing
  <2>2. IsAmount(Owed(Missing(Slots), 0, s + Growth))
    BY <2>1, OwedType
  <2> QED BY <2>2, TailsAre
<1>3. IsAmount(TransitionTail)
  BY <1>1, TailsAre, OwedType, NamesOf, TransitionRestType
<1>4. IsAmount(PrefixTail)
  BY <1>1, TailsAre, OwedType, NamesOf, ResidualType DEF Missing
<1>5. IsAmount(NoCommitment)
  BY DEF IsAmount, NoCommitment
<1>6. IsAmount(StagedRequest)
  <2> DEFINE adopted == size[Run] + Growth
             tail == RequestTail(adopted)
             after == adopted + tail.bytes - size[Run]
  <2>1. adopted \in Nat /\ adopted >= size[Run]
    BY <1>1
  <2>2. tail.bytes \in Nat
    BY <1>2, <2>1 DEF IsAmount
  <2> HIDE DEF tail
  <2>3. (IF adopted >= after THEN adopted ELSE after) \in Nat
    BY <1>1, <2>2
  <2> QED BY <2>3 DEF StagedRequest, IsAmount, tail
<1>7. IsAmount(ProviderCommitment)
  BY <1>1, <1>2, <1>5, <1>6 DEF ProviderCommitment
<1>8. IsAmount(EvaluationCommitment)
  BY <1>3, <1>4, <1>5 DEF EvaluationCommitment
<1> QED BY <1>7, <1>8 DEF Commitment

\* What is left of a commitment without one of its slots.
LEMMA RestIs ==
  ASSUME NEW b, NEW e, NEW S, NEW n, NEW x
  PROVE  LET rest == Without([bytes |-> b, entries |-> e, slots |-> S], n)
             more == [rest EXCEPT !.bytes = @ + LogCap - x]
         IN  /\ rest.bytes = b - Limit(n) /\ rest.entries = e - 1
             /\ more.bytes = b - Limit(n) + LogCap - x /\ more.entries = e - 1
BY SMT DEF Without

\* The owner of a slot uses what was reserved for it.
LEMMA ConsumeStep ==
  ASSUME StorageInv, NEW S \in SUBSET Names, NEW r \in Nat, NEW p \in Nat,
         Commitment = Owed(S, r, p), NEW n \in Names \ {Run}, ~There(n),
         NEW s \in Nat \ {0}, MayConsume(n, s),
         NEW cut \in Cuts, CreateFile(n, s, cut), UNCHANGED <<filler, head>>, source' \in Sources,
         Goes(cut), n \notin {Request, RequestRecord}, n = Decision => There(RecoverySource),
         caller' # NoCaller => n \notin {Reply, ReplyRecord, RecoverySource},
         cut = "done" /\ Held => \E T \in SUBSET (S \ {n}) : \E q \in Nat :
             /\ Commitment' = Owed(T, q, p)
             /\ q <= r + (IF n \in Logs THEN LogCap - s ELSE 0)
  PROVE  StorageInv'
<1> DEFINE more == IF n \in Logs THEN LogCap - s ELSE 0
           rest == Without(Commitment, n)
           left == IF n \in Logs THEN [rest EXCEPT !.bytes = @ + LogCap - s] ELSE rest
<1>1. n \in S /\ SizeAllowed(n, s) /\ CreateFits(s, left)
  BY OwedIs DEF MayConsume
<1>2. /\ Cardinality(S) \in Nat \ {0} /\ Cardinality(S \ {n}) = Cardinality(S) - 1
      /\ LimitsOf(S) \in Nat /\ LimitsOf(S \ {n}) \in Nat
      /\ LimitsOf(S) = Limit(n) + LimitsOf(S \ {n})
  BY <1>1, MissingWithout
<1>3. Commitment = [bytes |-> LimitsOf(S) + r + p, entries |-> Cardinality(S) + 1, slots |-> S]
  BY DEF Owed, LimitsOf
<1>4. more \in Nat
  <2>1. n \in Logs => s <= LogCap
    BY <1>1, NamesDiffer DEF SizeAllowed, Limit, Evaluation, Exchange
  <2> QED BY <2>1, StorageAssumption
<1> DEFINE b == LimitsOf(S) + r + p
           e == Cardinality(S) + 1
<1>b. b = LimitsOf(S) + r + p /\ e = Cardinality(S) + 1
  OBVIOUS
<1>c. rest = Without([bytes |-> b, entries |-> e, slots |-> S], n)
  BY <1>3
<1> HIDE DEF rest, b, e
<1>5. /\ rest.bytes = b - Limit(n) /\ rest.entries = e - 1
      /\ [rest EXCEPT !.bytes = @ + LogCap - s].bytes = b - Limit(n) + LogCap - s
      /\ [rest EXCEPT !.bytes = @ + LogCap - s].entries = e - 1
  BY <1>c, RestIs
<1>6. n \in Logs => /\ left.bytes = b - Limit(n) + LogCap - s
                    /\ left.entries = e - 1
  BY <1>5
<1>7. n \notin Logs => /\ left.bytes = b - Limit(n) /\ left.entries = e - 1
  BY <1>5
<1>8. PICK after : after = left
  OBVIOUS
<1> HIDE DEF left
<1>9. after.bytes = LimitsOf(S \ {n}) + r + p + more /\ after.entries = Cardinality(S \ {n}) + 1
  <2>1. s \in Nat /\ LogCap \in Nat /\ Limit(n) \in Nat
    BY StorageAssumption, LimitType
  <2> QED BY <1>2, <1>b, <1>6, <1>7, <1>8, <2>1
<1> HIDE DEF more
<1>10. IsAmount(after)
  BY <1>2, <1>4, <1>9 DEF IsAmount
<1>11. cut = "done" /\ Held => OwedAtMost(after)'
  <2> SUFFICES ASSUME cut = "done", Held PROVE OwedAtMost(after)'
    OBVIOUS
  <2>1. PICK T \in SUBSET (S \ {n}), q \in Nat : Commitment' = Owed(T, q, p) /\ q <= r + more
    BY DEF more
  <2>2. /\ Cardinality(T) \in Nat /\ Cardinality(T) <= Cardinality(S \ {n})
        /\ LimitsOf(T) \in Nat /\ LimitsOf(T) <= LimitsOf(S \ {n})
    BY MissingLess
  <2>3. Commitment'.bytes = LimitsOf(T) + q + p /\ Commitment'.entries = Cardinality(T) + 1
    BY <2>1, OwedIs
  <2>4. Commitment'.bytes \in 0 .. after.bytes
    BY <1>2, <1>4, <1>9, <2>1, <2>2, <2>3
  <2>5. Commitment'.entries \in 0 .. after.entries
    BY <1>2, <1>9, <2>2, <2>3
  <2> QED BY <2>4, <2>5 DEF OwedAtMost
<1>12. CreateFits(s, after)
  BY <1>1, <1>8
<1> QED BY <1>1, <1>10, <1>11, <1>12, CreateStep

-----------------------------------------------------------------------------
(* RunStorage: the provider exchange.                                      *)

\* Fewer slots and a smaller rest owe no more.
LEMMA OwedWithin ==
  ASSUME NEW S \in SUBSET Names, NEW T \in SUBSET S, NEW r \in Nat, NEW q \in Nat, q <= r, NEW p \in Nat
  PROVE  /\ Owed(T, q, p).bytes \in 0 .. Owed(S, r, p).bytes
         /\ Owed(T, q, p).entries \in 0 .. Owed(S, r, p).entries
<1>1. /\ Cardinality(T) \in Nat /\ Cardinality(T) <= Cardinality(S)
      /\ LimitsOf(T) \in Nat /\ LimitsOf(T) <= LimitsOf(S)
  BY MissingLess
<1>2. Cardinality(S) \in Nat /\ LimitsOf(S) \in Nat
  BY MissingLess
<1> QED BY <1>1, <1>2, OwedIs

\* No commitment fits anywhere.
LEMMA NothingOwed == Commitment' = NoCommitment => \A after : OwedAtMost(after)'
BY DEF OwedAtMost

\* The sizes that are offered are positive.
LEMMA SizesAre == \A n : \A s \in Sizes(n) : s \in Nat /\ s # 0
BY LimitType DEF Sizes

\* A file outside every commitment.
LEMMA NoteStep ==
  ASSUME StorageInv, NEW n \in Notes, NEW s \in Sizes(<<"note", n>>), NEW cut \in Cuts, Note(n, s, cut)
  PROVE  StorageInv'
<1> DEFINE m == <<"note", n>>
<1>p. /\ Typed /\ source \in Sources /\ IsAmount(Commitment)
  BY InvParts, CommitmentType
<1>1. /\ MayCreate(m, s) /\ CreateFile(m, s, cut) /\ Died(cut)
      /\ UNCHANGED <<filler, head, source>>
  BY DEF Note
<1>2. m \in Names \ {Run} /\ m \notin Exchange \cup Evaluation \cup Recovery
  BY NamesDiffer DEF Names
<1>3. ~There(m) /\ SizeAllowed(m, s) /\ CreateFits(s, Commitment)
  BY <1>1 DEF MayCreate
<1>4. s \in Nat /\ s # 0
  BY SizesAre
<1>5. Goes(cut) /\ (cut = "done" => caller' = caller)
  BY <1>1, DiedGoes
<1> HIDE DEF m
<1>6. PICK after : after = Commitment
  OBVIOUS
<1>7. cut = "done" /\ Held => OwedAtMost(after)'
  <2> SUFFICES ASSUME cut = "done", Held PROVE OwedAtMost(after)'
    OBVIOUS
  <2>1. \A k \in Exchange \cup Evaluation \cup Recovery \cup {Run} : size'[k] = size[k]
    BY <1>1, <1>2, InvParts, NamesOf DEF CreateFile
  <2>2. Commitment' = Commitment
    BY <1>1, <2>1, SameOwed
  <2> QED BY <1>p, <1>6, <2>2 DEF OwedAtMost, IsAmount
<1>8. IsAmount(after) /\ CreateFits(s, after)
  BY <1>p, <1>3, <1>6
<1> QED BY <1>p, <1>1, <1>2, <1>3, <1>4, <1>5, <1>7, <1>8, CreateStep DEF Exchange, Recovery

\* A file that is not owed does not change what the provider's tail names.
LEMMA SlotsSame ==
  ASSUME \A m \in Slots : There(m)' <=> There(m)
  PROVE  Missing(Slots)' = Missing(Slots)
BY DEF Missing

\* Somebody waits for a provider or for a command.
LEMMA WhoWaits ==
  ASSUME StorageInv, caller # NoCaller
  PROVE  /\ head \in {"request", "approved"}
         /\ head = "request" => ~There(Reply) /\ ~There(ReplyRecord)
         /\ head = "approved" => There(Intent) /\ ~There(RecoverySource)
BY InvParts DEF CallerWaits

\* An ordinary replacement of run.json.
LEMMA TouchStep ==
  ASSUME StorageInv, NEW s \in 1 .. ArtifactCap, NEW cut \in Cuts, Touch(s, cut)
  PROVE  StorageInv'
<1>p. /\ Typed /\ size \in [Names -> Nat] /\ head \in Heads /\ IsAmount(Commitment)
      /\ CallerWaits /\ (faults = 0 => NothingIsLeft)
  BY InvParts, CommitmentType
<1> DEFINE owed == IF head = "request" THEN RequestTail(s) ELSE Commitment
<1>1. /\ head \in {"quiet", "request"} /\ MayReplace(s, owed) /\ cut # "linked"
      /\ Replace(s, head, cut) /\ Died(cut) /\ UNCHANGED <<filler, doubled, source>>
  BY DEF Touch
<1>2. SizeAllowed(Run, s) /\ ReplaceFits(s, owed)
  BY <1>1 DEF MayReplace
<1>3. Goes(cut) /\ (cut = "done" => caller' = caller)
  BY <1>1, DiedGoes
<1>4. s \in Nat \ {0} /\ s + Growth \in Nat
  BY StorageAssumption
<1>5. IsAmount(owed)
  BY <1>p, <1>4, OwedType, TailsAre, NamesOf DEF Missing
<1> HIDE DEF owed
<1>6. PICK after, was : after = owed /\ was = head
  OBVIOUS
<1>7. cut = "done" /\ Held => OwedAtMost(after)'
  <2> SUFFICES ASSUME cut = "done", Held PROVE OwedAtMost(after)'
    OBVIOUS
  <2>1. size' = [size EXCEPT ![Run] = s] /\ head' = head
    BY <1>1 DEF Replace
  <2>2. size'[Run] = s /\ \A m \in Names \ {Run} : size'[m] = size[m]
    BY <1>p, <2>1 DEF Names
  <2>3. CASE head = "request"
    <3>1. Missing(Slots)' = Missing(Slots)
      BY <2>2, SlotsSame, NamesDiffer, NamesOf DEF Slots, Exchange, There
    <3>2. Commitment' = Owed(Missing(Slots), 0, s + Growth)
      BY <2>1, <2>2, <2>3, <3>1, CommitmentCasesPrimed, TailsArePrimed DEF RequestTail, Slots
    <3>3. after = Owed(Missing(Slots), 0, s + Growth)
      BY <1>6, <2>3, TailsAre DEF owed
    <3>4. Missing(Slots) \in SUBSET Names
      BY NamesOf DEF Missing
    <3> QED BY <1>4, <3>2, <3>3, <3>4, OwedWithin DEF OwedAtMost
  <2>4. CASE head = "quiet"
    <3>1. faults = 0 /\ ~There(RequestRecord)
      BY <1>p, <2>4, WhoWaits DEF Held, NothingIsLeft
    <3>2. head' = "quiet" /\ ~There(RequestRecord)'
      BY <2>1, <2>2, <2>4, <3>1, NamesOf, NamesDiffer DEF Exchange, There
    <3> QED BY <3>2, CommitmentCasesPrimed, NothingOwed
  <2> QED BY <1>1, <2>3, <2>4
<1>8. IsAmount(after) /\ ReplaceFits(s, after) /\ Replace(s, was, cut) /\ was \in Heads /\ was = head
  BY <1>p, <1>1, <1>2, <1>5, <1>6
<1> QED BY <1>1, <1>2, <1>3, <1>4, <1>7, <1>8, ReplaceStep

\* What a request adds to the tree.
LEMMA AskUsage ==
  ASSUME Typed, ~There(Request), ~There(RequestRecord), NEW q \in Nat, NEW r \in Nat, NEW s \in Nat,
         size' = [size EXCEPT ![Request] = q, ![RequestRecord] = r, ![Run] = s],
         q <= ArtifactCap, r <= RecordCap, s <= ArtifactCap, q # 0, s # 0,
         orphans' = Swept, UNCHANGED <<filler, doubled>>
  PROVE  /\ size' \in [Names -> Nat] /\ \A m \in Names : size'[m] <= Limit(m)
         /\ doubled' \subseteq {m \in Names : There(m)'} /\ There(Run)'
         /\ orphans' \subseteq Orphan /\ IsFiniteSet(orphans') /\ RunOrphans' = {}
         /\ \A m \in Names \ {Request, RequestRecord, Run} : size'[m] = size[m]
         /\ UsedBytes' = UsedBytes + q + r - size[Run] + s
         /\ UsedEntries' \in Nat /\ UsedEntries' <= UsedEntries + 2
<1>p. /\ IsFiniteSet(Swept) /\ Swept \in SUBSET Orphan
      /\ SumFunction(size) \in Nat /\ OrphanBytes(Swept) \in Nat /\ filler.bytes \in Nat
      /\ UsedBytes = filler.bytes + SumFunction(size) + OrphanBytes(Swept)
      /\ IsFiniteSet({m \in Names : There(m)})
      /\ Cardinality({m \in Names : There(m)}) \in Nat /\ Cardinality(doubled) \in Nat
      /\ Cardinality(Swept) \in Nat /\ filler.entries \in Nat
      /\ UsedEntries = filler.entries + Cardinality({m \in Names : There(m)})
                         + Cardinality(doubled) + Cardinality(Swept)
  BY UsageParts
<1>0. /\ size \in [Names -> Nat] /\ \A m \in Names : size[m] <= Limit(m)
      /\ doubled \subseteq {m \in Names : There(m)} /\ There(Run)
  BY DEF Typed, StorageTypeOK
<1>1. /\ {Request, RequestRecord, Run} \subseteq Names
      /\ Run # Request /\ Run # RequestRecord /\ Request # RequestRecord
      /\ Limit(Request) = ArtifactCap /\ Limit(RequestRecord) = RecordCap /\ Limit(Run) = ArtifactCap
  BY NamesDiffer DEF Names, Exchange, Evaluation, Limit
<1>2. size[Request] = 0 /\ size[RequestRecord] = 0 /\ size[Run] \in Nat
  BY <1>0, <1>1 DEF There
<1>3. PICK one : one = [size EXCEPT ![Request] = q]
  OBVIOUS
<1>4. one \in [Names -> Nat] /\ one[RequestRecord] = 0 /\ one[Run] = size[Run]
  BY <1>0, <1>1, <1>2, <1>3
<1>5. SumFunction(one) = SumFunction(size) + q
  <2>1. SumFunction([size EXCEPT ![Request] = q]) = SumFunction(size) - size[Request] + q
    BY <1>0, <1>1, NamesFinite, SumChanged
  <2> QED BY <1>p, <1>2, <1>3, <2>1
<1>a. PICK two : two = [one EXCEPT ![RequestRecord] = r]
  OBVIOUS
<1>b. two \in [Names -> Nat] /\ two[Run] = size[Run]
  BY <1>1, <1>4, <1>a
<1>6. SumFunction(two) = SumFunction(one) + r
  <2>1. SumFunction([one EXCEPT ![RequestRecord] = r]) = SumFunction(one) - one[RequestRecord] + r
    BY <1>1, <1>4, NamesFinite, SumChanged
  <2> QED BY <1>p, <1>4, <1>5, <1>a, <2>1
<1>c. size' = [two EXCEPT ![Run] = s]
  BY <1>3, <1>a
<1>7. SumFunction(size)' = SumFunction(size) + q + r - size[Run] + s
  <2>1. SumFunction([two EXCEPT ![Run] = s]) = SumFunction(two) - two[Run] + s
    BY <1>1, <1>b, NamesFinite, SumChanged
  <2>2. SumFunction(size)' = SumFunction([two EXCEPT ![Run] = s])
    BY <1>c
  <2> QED BY <1>p, <1>2, <1>5, <1>6, <1>b, <2>1, <2>2
<1>8. /\ size' \in [Names -> Nat] /\ \A m \in Names : size'[m] <= Limit(m)
      /\ \A m \in Names \ {Request, RequestRecord, Run} : size'[m] = size[m]
      /\ size'[Request] = q /\ size'[Run] = s
  BY <1>0, <1>1
<1>9. \A m \in Names : (There(m) => There(m)') /\ (There(m)' => There(m) \/ m \in {Request, RequestRecord})
  BY <1>0, <1>1, <1>8 DEF There
<1>10. Swept' = Swept /\ RunOrphans' = {}
  BY DEF Swept, RunOrphans
<1>11. UsedBytes' = UsedBytes + q + r - size[Run] + s
  <2>1. UsedBytes' = filler.bytes + SumFunction(size)' + OrphanBytes(Swept)
    BY <1>10 DEF UsedBytes, OrphanBytes
  <2> QED BY <1>p, <1>2, <1>7, <2>1
<1>12. UsedEntries' \in Nat /\ UsedEntries' <= UsedEntries + 2
  <2> DEFINE A == {m \in Names : There(m)}
             B == {m \in Names : There(m)'}
  <2>1. B \subseteq (A \cup {Request}) \cup {RequestRecord}
    BY <1>9
  <2>2. IsFiniteSet(A) /\ Cardinality(A) \in Nat
    BY <1>p
  <2>3. UsedEntries' = filler.entries + Cardinality(B) + Cardinality(doubled) + Cardinality(Swept)
    BY <1>10 DEF UsedEntries
  <2>4. UsedEntries = filler.entries + Cardinality(A) + Cardinality(doubled) + Cardinality(Swept)
    BY <1>p
  <2> HIDE DEF A, B
  <2>5. IsFiniteSet(A \cup {Request}) /\ Cardinality(A \cup {Request}) \in {Cardinality(A), Cardinality(A) + 1}
    BY <2>2, FS_AddElement
  <2>6. IsFiniteSet((A \cup {Request}) \cup {RequestRecord})
        /\ Cardinality((A \cup {Request}) \cup {RequestRecord}) \in
             {Cardinality(A \cup {Request}), Cardinality(A \cup {Request}) + 1}
    BY <2>5, FS_AddElement
  <2>7. Cardinality(B) \in Nat /\ Cardinality(B) <= Cardinality((A \cup {Request}) \cup {RequestRecord})
    BY <2>1, <2>6, FS_Subset, FS_CardinalityType
  <2>8. Cardinality(B) <= Cardinality(A) + 2
    BY <2>2, <2>5, <2>6, <2>7
  <2> QED BY <1>p, <2>2, <2>3, <2>4, <2>7, <2>8
<1>13. doubled' \subseteq {m \in Names : There(m)'} /\ There(Run)'
  BY <1>0, <1>1, <1>9
<1> QED BY <1>p, <1>8, <1>10, <1>11, <1>12, <1>13

\* The request, its record and run.json.
LEMMA AskStep ==
  ASSUME StorageInv, NEW q \in Sizes(Request), NEW r \in Sizes(RequestRecord), NEW cut \in Cuts,
         Ask(q, r, cut)
  PROVE  StorageInv'
<1>p. /\ Typed /\ size \in [Names -> Nat] /\ head \in Heads /\ filler \in Fillers
      /\ source \in Sources /\ faults \in 0 .. MaxFaults
      /\ CallerWaits /\ (faults = 0 => NothingIsLeft)
      /\ UsedBytes \in Nat /\ UsedEntries \in Nat /\ size[Run] \in Nat
  BY InvParts
<1> DEFINE s == size[Run] + Growth
           r1 == IF cut = "temporary" THEN 0 ELSE r
           s1 == IF cut = "done" THEN s ELSE size[Run]
<1>0. q \in Nat /\ q # 0 /\ r \in Nat /\ r # 0
  BY SizesAre
<1>1. /\ head = "quiet" /\ ~There(Request) /\ ~There(RequestRecord)
      /\ SizeAllowed(Request, q) /\ SizeAllowed(RequestRecord, r) /\ s + Growth <= ArtifactCap
      /\ RequestFits(q, r, s)
      /\ size' = [size EXCEPT ![Request] = q, ![RequestRecord] = r1, ![Run] = s1]
      /\ head' = IF cut = "done" THEN "request" ELSE head
      /\ orphans' = Swept /\ Died(cut) /\ UNCHANGED <<filler, doubled, source>>
  <2>1. size' = [size EXCEPT ![Request] = q, ![RequestRecord] = r1,
                             ![Run] = IF cut = "done" THEN s ELSE @]
    BY DEF Ask
  <2>2. Run # Request /\ Run # RequestRecord
    BY NamesDiffer DEF Exchange
  <2>3. size' = [size EXCEPT ![Request] = q, ![RequestRecord] = r1, ![Run] = s1]
    BY <1>p, <2>1, <2>2
  <2> QED BY <2>3 DEF Ask
<1>2. s \in Nat /\ s # 0 /\ s <= ArtifactCap /\ size[Run] # 0 /\ s >= size[Run] /\ s + Growth \in Nat
  BY <1>p, <1>1, StorageAssumption DEF Typed, There
<1>3. q <= ArtifactCap /\ r <= RecordCap
  BY <1>1, NamesDiffer DEF SizeAllowed, Limit, Exchange, Evaluation
<1>4. r1 \in Nat /\ r1 <= r /\ r1 <= RecordCap /\ s1 \in Nat /\ s1 # 0 /\ s1 <= s /\ s1 <= ArtifactCap
  BY <1>p, <1>0, <1>2, <1>3, StorageAssumption
<1>5. /\ size' \in [Names -> Nat] /\ \A m \in Names : size'[m] <= Limit(m)
      /\ doubled' \subseteq {m \in Names : There(m)'} /\ There(Run)'
      /\ orphans' \subseteq Orphan /\ IsFiniteSet(orphans') /\ RunOrphans' = {}
      /\ \A m \in Names \ {Request, RequestRecord, Run} : size'[m] = size[m]
      /\ UsedBytes' = UsedBytes + q + r1 - size[Run] + s1
      /\ UsedEntries' \in Nat /\ UsedEntries' <= UsedEntries + 2
  <2> HIDE DEF r1, s1, s
  <2>1. PICK x, y : x = r1 /\ y = s1
    OBVIOUS
  <2>2. size' = [size EXCEPT ![Request] = q, ![RequestRecord] = x, ![Run] = y]
    BY <1>1, <2>1
  <2>3. x \in Nat /\ x <= RecordCap /\ y \in Nat /\ y # 0 /\ y <= ArtifactCap
    BY <1>4, <2>1
  <2>4. ~There(Request) /\ ~There(RequestRecord) /\ orphans' = Swept /\ UNCHANGED <<filler, doubled>>
    BY <1>1
  <2>5. /\ size' \in [Names -> Nat] /\ \A m \in Names : size'[m] <= Limit(m)
        /\ doubled' \subseteq {m \in Names : There(m)'} /\ There(Run)'
        /\ orphans' \subseteq Orphan /\ IsFiniteSet(orphans') /\ RunOrphans' = {}
        /\ \A m \in Names \ {Request, RequestRecord, Run} : size'[m] = size[m]
        /\ UsedBytes' = UsedBytes + q + x - size[Run] + y
        /\ UsedEntries' \in Nat /\ UsedEntries' <= UsedEntries + 2
    BY <1>p, <1>0, <1>3, <2>2, <2>3, <2>4, AskUsage
  <2> QED BY <2>1, <2>5
<1>6. Goes(cut) /\ (cut = "done" => caller' = caller)
  BY <1>1, DiedGoes
<1>7. /\ caller' \in [what : {"nothing", "provider", "evaluation"}, at : 0 .. MaxFaults]
      /\ faults' \in 0 .. MaxFaults /\ (Held' => cut = "done" /\ Held)
  BY <1>6, GoesTyped
<1>8. StorageTypeOK'
  BY <1>p, <1>1, <1>5, <1>7 DEF StorageTypeOK, Orphan, Sources, Heads
<1>9. caller = NoCaller /\ caller' = NoCaller
  BY <1>1, <1>6, WhoWaits DEF Goes
<1>f. /\ UsedBytes + q + r + s <= ByteCap /\ UsedEntries + 3 <= EntryCap
      /\ UsedBytes - size[Run] + q + r + s + RequestTail(s).bytes <= ByteCap
      /\ UsedEntries + 2 + RequestTail(s).entries <= EntryCap
  BY <1>1 DEF RequestFits, Fits
<1>10. TreeIsScannable'
  <2>1. UsedBytes' \in Nat
    BY <1>5, <1>8, UsageNatPrimed DEF Typed
  <2>2. UsedBytes' <= ByteCap /\ UsedEntries' <= EntryCap
    BY <1>p, <1>0, <1>2, <1>4, <1>5, <1>f, StorageAssumption
  <2> QED BY <1>5, <2>1, <2>2, NoRunLeft
<1>11. CallerWaits'
  <2>1. There(Decision)' <=> There(Decision)
    BY <1>5, NamesDiffer, NamesOf DEF There, Recovery
  <2>2. There(RecoverySource)' <=> There(RecoverySource)
    BY <1>5, NamesDiffer, NamesOf DEF There, Recovery
  <2> QED BY <1>p, <1>9, <2>1, <2>2 DEF CallerWaits, NoCaller
<1>12. faults' = 0 => NothingIsLeft'
  <2> SUFFICES ASSUME faults' = 0 PROVE NothingIsLeft'
    OBVIOUS
  <2>1. cut = "done" /\ faults = 0
    BY <1>p, <1>6, StorageAssumption DEF Goes
  <2>2. orphans' = {} /\ doubled' = {}
    BY <1>p, <1>1, <2>1 DEF NothingIsLeft, Swept
  <2> QED BY <1>1, <2>1, <2>2 DEF NothingIsLeft
<1>13. Held' => RoomIsKept'
  <2> SUFFICES ASSUME Held' PROVE RoomIsKept'
    OBVIOUS
  <2>1. cut = "done" /\ faults = 0
    BY <1>7, <1>9 DEF Held
  <2>2. doubled' = {} /\ head' = "request"
    BY <1>p, <1>1, <2>1 DEF NothingIsLeft
  <2>3. Missing(Slots)' = Missing(Slots)
    <3>1. \A m \in Slots : size'[m] = size[m]
      BY <1>5, NamesDiffer, NamesOf DEF Slots, Exchange
    <3> QED BY <3>1, SlotsSame DEF There
  <2>4. size'[Run] = s
    BY <1>p, <1>1, <2>1 DEF Names
  <2>5. Commitment' = RequestTail(s)
    BY <2>2, <2>3, <2>4, CommitmentCasesPrimed, TailsAre, TailsArePrimed DEF RequestTail, Slots
  <2>6. IsAmount(RequestTail(s))
    BY <1>2, OwedType, TailsAre, NamesOf DEF Missing
  <2>7. UsedBytes' = UsedBytes + q + r - size[Run] + s
    BY <1>5, <2>1
  <2> HIDE DEF s
  <2>8. CommitmentFits'
    <3>1. RequestTail(s).bytes \in Nat /\ RequestTail(s).entries \in Nat
      BY <2>6 DEF IsAmount
    <3>2. UsedBytes' + RequestTail(s).bytes <= ByteCap
      BY <1>p, <1>0, <1>2, <1>f, <2>7, <3>1, StorageAssumption
    <3>3. UsedEntries' + RequestTail(s).entries <= EntryCap
      BY <1>p, <1>5, <1>f, <3>1, StorageAssumption
    <3> QED BY <2>5, <3>2, <3>3 DEF CommitmentFits, Fits
  <2> QED BY <2>2, <2>8 DEF RoomIsKept, Broken
<1> QED BY <1>5, <1>8, <1>10, <1>11, <1>12, <1>13 DEF StorageInv, Held

\* Reconciliation of a staged record.
LEMMA AdoptRequestStep ==
  ASSUME StorageInv, NEW cut \in Cuts, AdoptRequest(cut)
  PROVE  StorageInv'
<1> DEFINE s == size[Run] + Growth
<1>p. /\ Typed /\ CallerWaits /\ (faults = 0 => NothingIsLeft) /\ size[Run] \in Nat
  BY InvParts
<1>1. /\ head = "quiet" /\ There(RequestRecord) /\ MayReplace(s, RequestTail(s)) /\ cut # "linked"
      /\ Replace(s, "request", cut) /\ Died(cut) /\ UNCHANGED <<filler, doubled, source>>
  BY DEF AdoptRequest
<1>2. SizeAllowed(Run, s) /\ ReplaceFits(s, RequestTail(s))
  BY <1>1 DEF MayReplace
<1>3. Goes(cut) /\ (cut = "done" => caller' = caller)
  BY <1>1, DiedGoes
<1>4. s \in Nat \ {0} /\ s + Growth \in Nat
  BY <1>p, StorageAssumption DEF Typed, There
<1>5. IsAmount(RequestTail(s))
  BY <1>4, OwedType, TailsAre, NamesOf DEF Missing
<1>6. caller = NoCaller /\ ~Held
  BY <1>p, <1>1, WhoWaits DEF Held, NothingIsLeft
<1> HIDE DEF s
<1>7. PICK x, after : x = s /\ after = RequestTail(s)
  OBVIOUS
<1>8. /\ x \in Nat \ {0} /\ SizeAllowed(Run, x) /\ Replace(x, "request", cut)
      /\ ReplaceFits(x, after) /\ IsAmount(after)
  BY <1>1, <1>2, <1>4, <1>5, <1>7
<1>9. caller' = NoCaller
  BY <1>3, <1>6 DEF Goes
<1> QED BY <1>1, <1>3, <1>6, <1>8, <1>9, ReplaceStep DEF Heads

\* An effect is caused only with its room reserved.
LEMMA EffectStep ==
  ASSUME StorageInv, MayCause, orphans' = Swept, UNCHANGED <<filler, size, doubled, head, source, faults>>,
         caller' \in [what : {"provider", "evaluation"}, at : {faults}],
         caller'.what = "provider" => head = "request" /\ ~There(Reply) /\ ~There(ReplyRecord),
         caller'.what = "evaluation" => head = "approved" /\ There(Intent) /\ ~There(RecoverySource)
  PROVE  StorageInv'
<1>p. /\ Typed /\ size \in [Names -> Nat] /\ \A m \in Names : size[m] <= Limit(m)
      /\ faults \in 0 .. MaxFaults
      /\ CallerWaits /\ (faults = 0 => NothingIsLeft)
      /\ UsedBytes \in Nat /\ UsedEntries \in Nat
  BY InvParts
<1>1. IsFiniteSet(Swept) /\ Swept \in SUBSET Orphan
  BY <1>p, UsageParts
<1>2. Swept' = Swept /\ RunOrphans' = {}
  BY DEF Swept, RunOrphans
<1>3. \A m : There(m)' <=> There(m)
  BY DEF There
<1>4. StorageTypeOK'
  BY <1>p, <1>1, <1>3 DEF StorageTypeOK, Orphan, Typed
<1>5. UsedBytes' = UsedBytes /\ UsedEntries' = UsedEntries
  BY <1>2, <1>3 DEF UsedBytes, UsedEntries
<1>6. TreeIsScannable'
  <2>1. UsedBytes <= ByteCap /\ UsedEntries <= EntryCap
    <3>1. IsFiniteSet(RunOrphans) /\ RunOrphans \in SUBSET Orphan
      BY <1>p, FS_Subset DEF Typed, StorageTypeOK, RunOrphans, Orphan
    <3>2. OrphanBytes(RunOrphans) \in Nat /\ Cardinality(RunOrphans) \in Nat
      BY <3>1, OrphanSums, FS_CardinalityType
    <3>3. UsedBytes + OrphanBytes(RunOrphans) <= ByteCap /\ UsedEntries + Cardinality(RunOrphans) <= EntryCap
      BY DEF StorageInv, TreeIsScannable, OrphanBytes, RunOrphans
    <3> QED BY <1>p, <3>2, <3>3, StorageAssumption
  <2> QED BY <1>p, <1>2, <1>5, <2>1, NoRunLeft
<1>7. CallerWaits'
  BY <1>p, <1>3 DEF CallerWaits
<1>8. faults' = 0 => NothingIsLeft'
  BY <1>p, <1>3 DEF NothingIsLeft, Swept
<1>9. Commitment' = Commitment
  BY SameOwed
<1>10. RoomIsKept'
  <2>1. ~Broken'
    <3>1. Measured' = Measured
      BY <1>3 DEF Measured
    <3> QED BY <1>3, <3>1 DEF MayCause, Broken
  <2>2. CommitmentFits'
    BY <1>5, <1>9 DEF MayCause, CommitmentFits
  <2> QED BY <2>1, <2>2 DEF RoomIsKept
<1>11. There(Run)' /\ IsFiniteSet(orphans')
  BY <1>p, <1>1, <1>3 DEF Typed
<1> QED BY <1>4, <1>6, <1>7, <1>8, <1>10, <1>11 DEF StorageInv

\* The call of the provider.
LEMMA CallProviderStep ==
  ASSUME StorageInv, CallProvider
  PROVE  StorageInv'
<1>1. /\ head = "request" /\ ~There(Reply) /\ ~There(ReplyRecord) /\ MayCause
      /\ caller' = [what |-> "provider", at |-> faults]
      /\ orphans' = Swept /\ UNCHANGED <<filler, size, doubled, head, source, faults>>
  BY DEF CallProvider, MayCall
<1> QED BY <1>1, EffectStep

\* The command of a check.
LEMMA SpawnStep ==
  ASSUME StorageInv, NEW k, Spawn(k)
  PROVE  StorageInv'
<1>1. /\ head = "approved" /\ There(Intent) /\ ~There(RecoverySource) /\ MayCause
      /\ caller' = [what |-> "evaluation", at |-> faults]
      /\ orphans' = Swept /\ UNCHANGED <<filler, size, doubled, head, source, faults>>
  BY DEF Spawn, PrefixOf
<1> QED BY <1>1, EffectStep

\* A creation that is not cut, name by name.
LEMMA Created ==
  ASSUME Typed, NEW n \in Names, NEW s \in Nat \ {0}, NEW cut, cut = "done", CreateFile(n, s, cut)
  PROVE  /\ \A m \in Names \ {n} : size'[m] = size[m] /\ (There(m)' <=> There(m))
         /\ There(n)' /\ size'[n] = s /\ size' = [size EXCEPT ![n] = s]
         /\ \A S \in SUBSET Names : Missing(S)' = Missing(S) \ {n}
<1>1. size' = [size EXCEPT ![n] = s] /\ size \in [Names -> Nat]
  BY DEF CreateFile, Typed, StorageTypeOK
<1>2. /\ \A m \in Names \ {n} : size'[m] = size[m] /\ (There(m)' <=> There(m))
      /\ There(n)' /\ size'[n] = s
  BY <1>1 DEF There
<1>3. \A S \in SUBSET Names : Missing(S)' = Missing(S) \ {n}
  <2> SUFFICES ASSUME NEW S \in SUBSET Names PROVE Missing(S)' = Missing(S) \ {n}
    OBVIOUS
  <2> QED BY <1>2 DEF Missing
<1> QED BY <1>1, <1>2, <1>3

\* Both answers are files of the exchange.
LEMMA ReplyStep ==
  ASSUME StorageInv, head = "request", NEW n \in Slots, NEW s \in Sizes(n), NEW cut \in Cuts,
         MayConsume(n, s), CreateFile(n, s, cut), Goes(cut), caller' = NoCaller,
         UNCHANGED <<filler, head, source>>
  PROVE  StorageInv'
<1>p. Typed /\ source \in Sources /\ size[Run] \in Nat
  BY InvParts
<1>1. Commitment = Owed(Missing(Slots), 0, size[Run] + Growth)
  BY CommitmentCases, TailsAre
<1>2. Missing(Slots) \in SUBSET Names /\ size[Run] + Growth \in Nat
  BY <1>p, NamesOf, StorageAssumption DEF Missing
<1>3. n \in Missing(Slots)
  BY <1>1, OwedIs DEF MayConsume
<1>4. n \in Names \ {Run} /\ ~There(n) /\ n \notin Logs /\ n \notin {Request, RequestRecord, Decision}
  BY <1>3, NamesOf, NamesDiffer DEF Slots, Missing, Exchange, Evaluation, Recovery
<1>5. s \in Nat \ {0}
  BY SizesAre
<1>6. PICK p : p = size[Run] + Growth
  OBVIOUS
<1>7. PICK S : S = Missing(Slots)
  OBVIOUS
<1>8. ASSUME cut = "done", Held
      PROVE  \E T \in SUBSET (S \ {n}) : \E q \in Nat :
                /\ Commitment' = Owed(T, q, p)
                /\ q <= 0 + (IF n \in Logs THEN LogCap - s ELSE 0)
  <2>1. /\ \A m \in Names \ {n} : size'[m] = size[m]
        /\ Missing(Slots)' = Missing(Slots) \ {n}
    BY <1>p, <1>4, <1>5, <1>8, Created, NamesOf
  <2>2. size'[Run] = size[Run]
    BY <1>4, <2>1 DEF Names
  <2>3. Commitment' = Owed(S \ {n}, 0, p)
    BY <1>6, <1>7, <2>1, <2>2, CommitmentCasesPrimed, TailsArePrimed DEF RequestTail, Slots
  <2> QED BY <1>4, <2>3
<1>9. S \in SUBSET Names /\ p \in Nat /\ Commitment = Owed(S, 0, p)
  BY <1>1, <1>2, <1>6, <1>7
<1> QED BY <1>p, <1>4, <1>5, <1>8, <1>9, ConsumeStep

\* The raw response.
LEMMA AnswerStep ==
  ASSUME StorageInv, NEW s \in Sizes(Reply), NEW cut \in Cuts, Answer(s, cut)
  PROVE  StorageInv'
<1>1. /\ caller.what = "provider" /\ MayConsume(Reply, s) /\ CreateFile(Reply, s, cut)
      /\ IF cut = "done" THEN caller' = NoCaller /\ UNCHANGED faults ELSE Died(cut)
      /\ UNCHANGED <<filler, head, source>>
  BY DEF Answer
<1>2. head = "request"
  BY <1>1, InvParts DEF CallerWaits
<1>3. Goes(cut) /\ caller' = NoCaller
  BY <1>1, DiedGoes DEF Goes
<1> QED BY <1>1, <1>2, <1>3, ReplyStep DEF Slots

\* The response record.
LEMMA RecordAnswerStep ==
  ASSUME StorageInv, NEW s \in Sizes(ReplyRecord), NEW cut \in Cuts, RecordAnswer(s, cut)
  PROVE  StorageInv'
<1>1. /\ head = "request" /\ There(Reply) /\ MayConsume(ReplyRecord, s)
      /\ CreateFile(ReplyRecord, s, cut) /\ Died(cut) /\ UNCHANGED <<filler, head, source>>
  BY DEF RecordAnswer
<1>2. Goes(cut) /\ caller = NoCaller
  BY <1>1, DiedGoes, WhoWaits
<1>3. caller' = NoCaller
  BY <1>2 DEF Goes
<1> QED BY <1>1, <1>2, <1>3, ReplyStep DEF Slots

\* A run.json that owes nothing.
LEMMA SettleStep ==
  ASSUME StorageInv, NEW s, s \in Nat, s # 0, SizeAllowed(Run, s), NEW next \in Heads, NEW cut \in Cuts \ {"linked"},
         Replace(s, next, cut), UNCHANGED <<filler, doubled, source>>, Goes(cut),
         next \in {"answered", "adopted", "invalidated", "final"},
         next = "final" => ~There(RecoverySource),
         caller' = NoCaller, ReplaceFits(s, NoCommitment)
  PROVE  StorageInv'
<1>1. IsAmount(NoCommitment)
  BY DEF IsAmount, NoCommitment
<1>2. cut = "done" /\ Held => OwedAtMost(NoCommitment)'
  <2> SUFFICES ASSUME cut = "done" PROVE OwedAtMost(NoCommitment)'
    OBVIOUS
  <2>1. head' = next /\ size' = [size EXCEPT ![Run] = s]
    BY DEF Replace
  <2>2. There(RecoverySource)' <=> There(RecoverySource)
    BY <2>1, InvParts, NamesOf, NamesDiffer DEF There, Recovery
  <2>3. Commitment' = NoCommitment
    BY <2>1, <2>2, CommitmentCasesPrimed
  <2> QED BY <2>3 DEF OwedAtMost
<1>3. PICK after : after = NoCommitment
  OBVIOUS
<1>4. IsAmount(after) /\ ReplaceFits(s, after) /\ (cut = "done" /\ Held => OwedAtMost(after)')
  BY <1>1, <1>2, <1>3 DEF OwedAtMost, NoCommitment
<1> QED BY <1>4, ReplaceStep

\* run.json names the response record.
LEMMA BindAnswerStep ==
  ASSUME StorageInv, NEW cut \in Cuts, BindAnswer(cut)
  PROVE  StorageInv'
<1> DEFINE s == size[Run] + Growth
<1>1. /\ head = "request" /\ There(ReplyRecord) /\ s <= ArtifactCap /\ cut # "linked"
      /\ BindFits(s) /\ Replace(s, "answered", cut) /\ Died(cut)
      /\ UNCHANGED <<filler, doubled, source>>
  BY DEF BindAnswer
<1>2. ReplaceFits(s, NoCommitment)
  BY <1>1 DEF BindFits
<1>3. s \in Nat /\ s # 0
  BY InvParts, StorageAssumption DEF Typed, There
<1>4. SizeAllowed(Run, s)
  BY <1>1, NamesDiffer DEF SizeAllowed, Limit, Exchange, Evaluation
<1>5. Goes(cut) /\ caller = NoCaller
  BY <1>1, DiedGoes, WhoWaits
<1>6. caller' = NoCaller
  BY <1>5 DEF Goes
<1> HIDE DEF s
<1>7. PICK x : x = s
  OBVIOUS
<1>8. x \in Nat /\ x # 0 /\ SizeAllowed(Run, x) /\ ReplaceFits(x, NoCommitment) /\ Replace(x, "answered", cut)
  BY <1>1, <1>2, <1>3, <1>4, <1>7
<1> QED BY <1>1, <1>5, <1>6, <1>8, SettleStep DEF Heads

-----------------------------------------------------------------------------
(* RunStorage: the evaluation attempt.                                     *)

\* The intent activates the commitment of the attempt.
LEMMA PublishIntentStep ==
  ASSUME StorageInv, NEW s \in Sizes(Intent), NEW cut \in Cuts, PublishIntent(s, cut)
  PROVE  StorageInv'
<1>p. Typed /\ source \in Sources /\ ArtifactCap \in Nat /\ Residual \in Nat
  BY InvParts, StorageAssumption, ResidualType
<1>1. /\ head = "approved" /\ ~There(RecoverySource) /\ ~There(Intent)
      /\ SizeAllowed(Intent, s) /\ CreateFits(s, PrefixTail)
      /\ CreateFile(Intent, s, cut) /\ Died(cut) /\ UNCHANGED <<filler, head, source>>
  BY DEF PublishIntent, MayActivate
<1>2. Intent \in Names \ {Run} /\ Intent \notin PrefixNames \cup {Request, RequestRecord, Reply, ReplyRecord}
  BY NamesDiffer, NamesOf DEF Evaluation, PrefixNames
<1>3. s \in Nat \ {0}
  BY SizesAre
<1>4. Goes(cut) /\ caller = NoCaller
  BY <1>1, DiedGoes, WhoWaits
<1>5. caller' = NoCaller
  BY <1>4 DEF Goes
<1>6. Missing(PrefixNames) \in SUBSET Names
  BY NamesOf DEF Missing
<1>7. PICK after, S, r : S = Missing(PrefixNames) /\ r = Residual /\ after = Owed(S, r, ArtifactCap)
  OBVIOUS
<1>8. IsAmount(after) /\ CreateFits(s, after)
  BY <1>p, <1>1, <1>6, <1>7, OwedType, TailsAre
<1>9. cut = "done" /\ Held => OwedAtMost(after)'
  <2> SUFFICES ASSUME cut = "done" PROVE OwedAtMost(after)'
    OBVIOUS
  <2>1. /\ \A m \in Names \ {Intent} : size'[m] = size[m] /\ (There(m)' <=> There(m))
        /\ There(Intent)' /\ Missing(PrefixNames)' = Missing(PrefixNames) \ {Intent}
    BY <1>p, <1>1, <1>2, <1>3, Created, NamesOf
  <2>2. Missing(PrefixNames)' = S
    BY <1>2, <1>7, <2>1 DEF Missing
  <2>3. Residual' = r
    BY <1>2, <1>7, <2>1, ResidualSame, NamesOf DEF PrefixNames
  <2>4. head' = "approved" /\ ~There(RecoverySource)'
    BY <1>1, <1>2, <2>1, NamesOf DEF PrefixNames, Recovery
  <2>5. Commitment' = after
    BY <1>7, <2>1, <2>2, <2>3, <2>4, CommitmentCasesPrimed, TailsArePrimed
  <2> QED BY <1>8, <2>5 DEF OwedAtMost, IsAmount
<1> QED BY <1>p, <1>1, <1>2, <1>3, <1>4, <1>5, <1>8, <1>9, CreateStep DEF PrefixNames, Recovery

\* What the attempt publishes after its intent.
LEMMA PrefixStep ==
  ASSUME StorageInv, caller.what = "evaluation", NEW n \in Logs \cup {Testing, Report},
         NEW s \in Nat, s # 0, NEW cut \in Cuts, MayConsume(n, s), CreateFile(n, s, cut), Died(cut),
         UNCHANGED <<filler, head, source>>,
         cut = "done" => Residual' \in Nat /\ Residual' <= Residual + (IF n \in Logs THEN LogCap - s ELSE 0)
  PROVE  StorageInv'
<1>p. /\ Typed /\ source \in Sources /\ ArtifactCap \in Nat /\ Residual \in Nat
      /\ head = "approved" /\ There(Intent) /\ ~There(RecoverySource)
  BY InvParts, StorageAssumption, ResidualType DEF CallerWaits
<1>1. Commitment = Owed(Missing(PrefixNames), Residual, ArtifactCap)
  BY <1>p, CommitmentCases, TailsAre
<1>2. Missing(PrefixNames) \in SUBSET Names
  BY NamesOf DEF Missing
<1>3. n \in Missing(PrefixNames)
  BY <1>1, OwedIs DEF MayConsume
<1>4. n \in Names \ {Run} /\ ~There(n) /\ n \notin {Intent, Decision, RecoverySource} \cup Exchange
  BY <1>3, NamesOf, NamesDiffer DEF Missing, Exchange, Evaluation, Recovery
<1>5. Goes(cut)
  BY DiedGoes
<1>6. PICK S, r : S = Missing(PrefixNames) /\ r = Residual
  OBVIOUS
<1>7. ASSUME cut = "done", Held
      PROVE  \E T \in SUBSET (S \ {n}) : \E q \in Nat :
                /\ Commitment' = Owed(T, q, ArtifactCap)
                /\ q <= r + (IF n \in Logs THEN LogCap - s ELSE 0)
  <2>1. /\ \A m \in Names \ {n} : size'[m] = size[m] /\ (There(m)' <=> There(m))
        /\ Missing(PrefixNames)' = Missing(PrefixNames) \ {n}
    BY <1>p, <1>4, <1>7, Created, NamesOf
  <2>2. head' = "approved" /\ There(Intent)' /\ ~There(RecoverySource)'
    BY <1>p, <1>4, <2>1, NamesOf DEF Evaluation, Recovery
  <2>3. Commitment' = Owed(S \ {n}, Residual', ArtifactCap)
    BY <1>6, <2>1, <2>2, CommitmentCasesPrimed, TailsArePrimed
  <2> QED BY <1>6, <1>7, <2>3
<1>8. S \in SUBSET Names /\ r \in Nat /\ Commitment = Owed(S, r, ArtifactCap)
  BY <1>p, <1>1, <1>2, <1>6
<1> QED BY <1>p, <1>4, <1>5, <1>7, <1>8, ConsumeStep DEF Exchange

\* A log keeps the rest of its limit reserved.
LEMMA PublishLogStep ==
  ASSUME StorageInv, NEW n \in Logs, NEW s \in Sizes(n), NEW cut \in Cuts, PublishLog(n, s, cut)
  PROVE  StorageInv'
<1>1. /\ caller.what = "evaluation" /\ MayConsume(n, s) /\ CreateFile(n, s, cut) /\ Died(cut)
      /\ UNCHANGED <<filler, head, source>>
  BY DEF PublishLog
<1>2. s \in Nat /\ s # 0
  BY SizesAre
<1>3. s <= LogCap
  BY <1>1, NamesDiffer DEF MayConsume, SizeAllowed, Limit, Evaluation, Exchange
<1>4. Typed /\ head = "approved" /\ There(Intent) /\ ~There(RecoverySource)
  BY <1>1, InvParts DEF CallerWaits
<1>5. ~There(n)
  <2>1. Commitment = Owed(Missing(PrefixNames), Residual, ArtifactCap)
    BY <1>4, CommitmentCases, TailsAre
  <2> QED BY <1>1, <2>1, OwedIs DEF MayConsume, Missing
<1>6. cut = "done" => Residual' \in Nat /\ Residual' <= Residual + (IF n \in Logs THEN LogCap - s ELSE 0)
  <2> SUFFICES ASSUME cut = "done"
               PROVE  Residual' \in Nat /\ Residual' <= Residual + (IF n \in Logs THEN LogCap - s ELSE 0)
    OBVIOUS
  <2>1. size' = [size EXCEPT ![n] = s]
    BY <1>1 DEF CreateFile
  <2>2. Residual' <= Residual + LogCap - s /\ Residual' \in Nat /\ Residual \in Nat
    BY <1>2, <1>3, <1>4, <1>5, <2>1, ResidualOfLog, ResidualType
  <2> QED BY <1>2, <2>2, StorageAssumption
<1> QED BY <1>1, <1>2, <1>6, PrefixStep

\* The Testing evidence authenticates the logs.
LEMMA PublishTestingStep ==
  ASSUME StorageInv, NEW s \in Sizes(Intent), NEW cut \in Cuts, PublishTesting(s, cut)
  PROVE  StorageInv'
<1>1. /\ caller.what = "evaluation" /\ MayConsume(Testing, s) /\ CreateFile(Testing, s, cut) /\ Died(cut)
      /\ UNCHANGED <<filler, head, source>>
  BY DEF PublishTesting
<1>2. s \in Nat /\ s # 0
  BY SizesAre
<1>3. Typed /\ Residual \in Nat /\ Testing \notin Logs /\ Testing \in Names
  BY InvParts, ResidualType, NamesDiffer, NamesOf DEF Evaluation
<1>4. cut = "done" => Residual' = 0
  BY <1>2, <1>3, <1>1, Created DEF Residual
<1> QED BY <1>1, <1>2, <1>3, <1>4, PrefixStep

\* The report of the attempt.
LEMMA PublishReportStep ==
  ASSUME StorageInv, NEW s \in Sizes(Intent), NEW cut \in Cuts, PublishReport(s, cut)
  PROVE  StorageInv'
<1>1. /\ caller.what = "evaluation" /\ MayConsume(Report, s) /\ CreateFile(Report, s, cut) /\ Died(cut)
      /\ UNCHANGED <<filler, head, source>>
  BY DEF PublishReport
<1>2. s \in Nat /\ s # 0
  BY SizesAre
<1>3. Typed /\ Residual \in Nat /\ Report \notin Logs \cup {Testing} /\ {Report, Testing} \cup Logs \subseteq Names
  BY InvParts, ResidualType, NamesDiffer, NamesOf DEF Evaluation
<1>4. cut = "done" => Residual' = Residual
  <2> SUFFICES ASSUME cut = "done" PROVE Residual' = Residual
    OBVIOUS
  <2>1. \A m \in Names \ {Report} : size'[m] = size[m] /\ (There(m)' <=> There(m))
    BY <1>1, <1>2, <1>3, Created
  <2> QED BY <1>3, <2>1, ResidualSame
<1> QED BY <1>1, <1>2, <1>3, <1>4, PrefixStep

\* The run is final.
LEMMA FinishStep ==
  ASSUME StorageInv, NEW s \in Sizes(Intent), NEW cut \in Cuts, Finish(s, cut)
  PROVE  StorageInv'
<1>1. /\ ~There(RecoverySource) /\ MayReplace(s, NoCommitment) /\ cut # "linked"
      /\ Replace(s, "final", cut)
      /\ IF cut = "done" THEN caller' = NoCaller /\ UNCHANGED faults ELSE Died(cut)
      /\ UNCHANGED <<filler, doubled, source>>
  BY DEF Finish
<1>2. s \in Nat /\ s # 0
  BY SizesAre
<1>3. SizeAllowed(Run, s) /\ ReplaceFits(s, NoCommitment)
  BY <1>1 DEF MayReplace
<1>4. Goes(cut) /\ caller' = NoCaller
  BY <1>1, DiedGoes DEF Goes
<1> QED BY <1>1, <1>2, <1>3, <1>4, SettleStep DEF Heads

-----------------------------------------------------------------------------
(* RunStorage: adoption and invalidation.                                  *)

\* The slots say what is owed.
LEMMA SlotsSay ==
  /\ Decision \in Commitment.slots /\ There(RecoverySource) => Commitment = TransitionTail
  /\ Report \in Commitment.slots /\ There(RecoverySource) => Commitment = TransitionTail
  /\ Commitment = TransitionTail /\ There(RecoverySource) /\ {Report, Decision} \cap Commitment.slots # {}
       => head \in {"approved", "final"}
<1>1. \A s : RequestTail(s).slots \subseteq {Reply, ReplyRecord}
  <2> SUFFICES ASSUME NEW s PROVE RequestTail(s).slots \subseteq {Reply, ReplyRecord}
    OBVIOUS
  <2>1. RequestTail(s) = Owed(Missing(Slots), 0, s + Growth)
    BY TailsAre
  <2>2. RequestTail(s).slots = Missing(Slots)
    BY <2>1, OwedIs
  <2> QED BY <2>2 DEF Missing, Slots
<1>2. StagedRequest.slots = {} /\ NoCommitment.slots = {}
  BY DEF StagedRequest, NoCommitment
<1>3. {Report, Decision} \cap {Reply, ReplyRecord} = {}
  BY NamesDiffer DEF Evaluation, Recovery
<1>4. {Report, Decision} \cap ProviderCommitment.slots = {}
  BY <1>1, <1>2, <1>3 DEF ProviderCommitment
<1>5. There(RecoverySource) =>
        /\ EvaluationCommitment \in {TransitionTail, NoCommitment}
        /\ EvaluationCommitment # NoCommitment => head \in {"approved", "final"}
  BY DEF EvaluationCommitment
<1> QED BY <1>2, <1>4, <1>5 DEF Commitment

\* What the transition publishes after its source.
LEMMA TransitionStep ==
  ASSUME StorageInv, There(RecoverySource), NEW n \in {Decision, Report}, NEW s \in Nat \ {0}, NEW cut \in Cuts,
         n = Report => source = "create" /\ There(Decision),
         MayConsume(n, s), CreateFile(n, s, cut), Died(cut), UNCHANGED <<filler, head, source>>
  PROVE  StorageInv'
<1>p. /\ Typed /\ source \in Sources /\ ArtifactCap \in Nat /\ TransitionRest \in Nat
  BY InvParts, StorageAssumption, TransitionRestType
<1>0. Commitment = TransitionTail /\ head \in {"approved", "final"} /\ n \in Commitment.slots
  BY SlotsSay DEF MayConsume
<1>1. Commitment = Owed(TransitionSlots, TransitionRest, ArtifactCap)
  BY <1>0, TailsAre
<1>3. n \in TransitionSlots
  BY <1>0, <1>1, OwedIs
<1>4. /\ n \in Names \ {Run} /\ n \notin Logs \cup Exchange /\ n # RecoverySource
      /\ Decision # Report /\ {Decision, Report, RecoverySource} \subseteq Names
  BY NamesOf, NamesDiffer DEF Exchange, Evaluation, Recovery
<1>5. ~There(n)
  <2>1. n = Decision => n \in Missing({Decision})
    BY <1>3, <1>4 DEF TransitionSlots
  <2>2. n = Report => ReportState = "missing"
    BY <1>3, <1>4 DEF TransitionSlots, Missing
  <2> QED BY <2>1, <2>2 DEF Missing, ReportState
<1>g. Goes(cut)
  BY DiedGoes
<1>c. caller' # NoCaller => n \notin {Reply, ReplyRecord, RecoverySource}
  BY <1>4 DEF Exchange
<1>6. PICK S, r : S = TransitionSlots /\ r = TransitionRest
  OBVIOUS
<1>7. ASSUME cut = "done", Held
      PROVE  \E T \in SUBSET (S \ {n}) : \E q \in Nat :
                /\ Commitment' = Owed(T, q, ArtifactCap)
                /\ q <= r + (IF n \in Logs THEN LogCap - s ELSE 0)
  <2>1. /\ \A m \in Names \ {n} : size'[m] = size[m] /\ (There(m)' <=> There(m))
        /\ There(n)' /\ \A A \in SUBSET Names : Missing(A)' = Missing(A) \ {n}
    BY <1>p, <1>4, <1>7, Created
  <2>2. head' \in {"approved", "final"} /\ There(RecoverySource)'
    BY <1>0, <1>4, <2>1
  <2>3. Commitment' = Owed(TransitionSlots', TransitionRest', ArtifactCap)
    BY <2>2, CommitmentCasesPrimed, TailsArePrimed
  <2>4. There(Decision)'
    BY <1>4, <2>1
  <2>5. TransitionRest' = 0
    BY <2>4 DEF TransitionRest, ReportState
  <2>6. TransitionSlots' \subseteq TransitionSlots \ {n}
    <3>1. Missing({Decision})' = Missing({Decision}) \ {n} /\ Missing({Decision})' = {}
      BY <1>4, <2>1, <2>4 DEF Missing
    <3>2. ReportState' = "missing" => ReportState = "missing" /\ n # Report
      BY <1>4, <2>1 DEF ReportState
    <3> QED BY <3>1, <3>2 DEF TransitionSlots
  <2> QED BY <1>p, <1>4, <1>6, <2>3, <2>5, <2>6
<1>8. S \in SUBSET Names /\ r \in Nat /\ Commitment = Owed(S, r, ArtifactCap)
  BY <1>p, <1>1, <1>6, NamesOf
<1> QED BY <1>p, <1>4, <1>5, <1>g, <1>c, <1>7, <1>8, ConsumeStep DEF Exchange

\* The decision of an adoption or invalidation.
LEMMA DecideStep ==
  ASSUME StorageInv, NEW s \in Sizes(Decision), NEW cut \in Cuts, Decide(s, cut)
  PROVE  StorageInv'
<1>1. /\ There(RecoverySource) /\ MayConsume(Decision, s) /\ CreateFile(Decision, s, cut) /\ Died(cut)
      /\ UNCHANGED <<filler, head, source>>
  BY DEF Decide
<1>2. Decision # Report /\ s \in Nat \ {0}
  BY NamesDiffer, SizesAre DEF Recovery
<1> QED BY <1>1, <1>2, TransitionStep

\* The report an adoption recreates.
LEMMA RecreateReportStep ==
  ASSUME StorageInv, NEW s \in Sizes(Decision), NEW cut \in Cuts, RecreateReport(s, cut)
  PROVE  StorageInv'
<1>1. /\ source = "create" /\ There(Decision)
      /\ MayConsume(Report, s) /\ CreateFile(Report, s, cut) /\ Died(cut)
      /\ UNCHANGED <<filler, head, source>>
  BY DEF RecreateReport
<1>2. There(RecoverySource) /\ s \in Nat \ {0}
  BY <1>1, SizesAre, InvParts DEF CallerWaits
<1> QED BY <1>1, <1>2, TransitionStep

\* The source takes its slot, or activates a commitment of its own.
LEMMA StageStep ==
  ASSUME StorageInv, NEW kind \in {"create", "verify", "invalidate"}, NEW s \in Sizes(Decision),
         NEW cut \in Cuts, Stage(kind, s, cut)
  PROVE  StorageInv'
<1> DEFINE n == RecoverySource
<1>p. /\ Typed /\ source \in Sources /\ ArtifactCap \in Nat /\ Residual \in Nat
  BY InvParts, StorageAssumption, ResidualType
<1>1. /\ head = "final" \/ (head = "approved" /\ There(Intent))
      /\ caller = NoCaller /\ ~There(n) /\ kind \in Kinds /\ MayStage(s)
      /\ CreateFile(n, s, cut) /\ Died(cut)
      /\ source' = IF cut = "temporary" THEN source ELSE kind
      /\ UNCHANGED <<filler, head>>
  BY DEF Stage
<1>2. s \in Nat /\ s # 0
  BY SizesAre
<1>3. Goes(cut) /\ caller' = NoCaller
  BY <1>1, DiedGoes DEF Goes
<1>4. /\ n \in Names \ {Run} /\ n \notin Logs \cup Exchange /\ n \in PrefixNames
      /\ n # Decision /\ n # Report /\ Decision # Report /\ Decision \in PrefixNames /\ Report \in PrefixNames
      /\ Testing # n /\ PrefixNames \subseteq Names /\ Testing \in PrefixNames /\ Decision \in Names
      /\ n \notin {Request, RequestRecord}
  BY NamesOf, NamesDiffer DEF Exchange, Evaluation, Recovery, PrefixNames
<1>5. source' \in Sources
  BY <1>p, <1>1 DEF Sources
<1>6. ~There(Decision)
  BY <1>1, InvParts DEF CallerWaits
<1>7. ASSUME cut = "done"
      PROVE  /\ TransitionRest' = 0
             /\ TransitionSlots' \subseteq Missing(PrefixNames) \ {n}
             /\ head = "final" => TransitionSlots' \subseteq {Decision}
             /\ Commitment' = Owed(TransitionSlots', TransitionRest', ArtifactCap)
  <2>1. \A m \in Names \ {n} : size'[m] = size[m] /\ (There(m)' <=> There(m))
    BY <1>p, <1>1, <1>2, <1>4, <1>7, Created
  <2>2. There(n)'
    BY <1>p, <1>1, <1>2, <1>4, <1>7, Created
  <2>3. source' = kind
    BY <1>1, <1>7
  <2>4. kind = "create" => ~There(Report) /\ head # "final"
    BY <1>1 DEF Kinds
  <2>5. There(Report)' <=> There(Report)
    BY <1>4, <2>1
  <2>6. ReportState' \in {"not applicable", "missing"} /\ (ReportState' = "missing" => kind = "create" /\ ~There(Report))
    BY <2>3, <2>4, <2>5 DEF ReportState
  <2>7. TransitionRest' = 0
    BY <2>6 DEF TransitionRest
  <2>8. Missing({Decision})' \subseteq {Decision}
    BY DEF Missing
  <2>9. TransitionSlots' \subseteq {Decision} \cup {m \in {Report} : kind = "create" /\ ~There(Report)}
    BY <2>6, <2>8 DEF TransitionSlots
  <2>10. TransitionSlots' \subseteq Missing(PrefixNames) \ {n}
    BY <1>4, <1>6, <2>9 DEF Missing
  <2>11. head = "final" => TransitionSlots' \subseteq {Decision}
    BY <2>4, <2>9
  <2>12. Commitment' = TransitionTail'
    BY <1>1, <2>2, CommitmentCasesPrimed
  <2> QED BY <2>7, <2>10, <2>11, <2>12, TailsArePrimed
<1>8. CASE Active
  <2>1. MayConsume(n, s)
    BY <1>1, <1>8 DEF MayStage
  <2>2. head = "approved" /\ There(Intent)
    BY <1>1, <1>8, CommitmentCases DEF Active
  <2>3. Commitment = Owed(Missing(PrefixNames), Residual, ArtifactCap)
    BY <1>1, <2>2, CommitmentCases, TailsAre
  <2>4. PICK S, r : S = Missing(PrefixNames) /\ r = Residual
    OBVIOUS
  <2>5. ASSUME cut = "done", Held
        PROVE  \E T \in SUBSET (S \ {n}) : \E q \in Nat :
                /\ Commitment' = Owed(T, q, ArtifactCap)
                /\ q <= r + (IF n \in Logs THEN LogCap - s ELSE 0)
    BY <1>p, <1>4, <1>7, <2>4, <2>5
  <2>6. S \in SUBSET Names /\ r \in Nat /\ Commitment = Owed(S, r, ArtifactCap)
    BY <1>p, <1>4, <2>3, <2>4 DEF Missing
  <2> QED BY <1>p, <1>1, <1>2, <1>3, <1>4, <1>5, <2>1, <2>5, <2>6, ConsumeStep
<1>9. CASE ~Active
  <2>1. ~There(n) /\ SizeAllowed(n, s) /\ CreateFits(s, Owed({Decision}, 0, ArtifactCap))
    BY <1>1, <1>9 DEF MayStage, MayActivate
  <2>2. head = "final"
    <3>1. PrefixTail # NoCommitment
      <4>1. Missing(PrefixNames) \in SUBSET Names
        BY <1>4 DEF Missing
      <4>2. Cardinality(Missing(PrefixNames)) \in Nat
        BY <4>1, MissingLess
      <4>3. PrefixTail.entries = Cardinality(Missing(PrefixNames)) + 1
        BY TailsAre, OwedIs
      <4>4. NoCommitment.entries = 0
        BY DEF NoCommitment
      <4> QED BY <4>2, <4>3, <4>4
    <3> QED BY <1>1, <1>9, <3>1, CommitmentCases DEF Active
  <2>3. PICK after : after = Owed({Decision}, 0, ArtifactCap)
    OBVIOUS
  <2>4. {Decision} \in SUBSET Names
    BY <1>4
  <2>5. IsAmount(after) /\ CreateFits(s, after)
    BY <1>p, <2>1, <2>3, <2>4, OwedType
  <2>6. cut = "done" /\ Held => OwedAtMost(after)'
    <3> SUFFICES ASSUME cut = "done" PROVE OwedAtMost(after)'
      OBVIOUS
    <3>1. PICK T \in SUBSET {Decision} : Commitment' = Owed(T, 0, ArtifactCap)
      BY <1>7, <2>2
    <3>2. /\ Owed(T, 0, ArtifactCap).bytes \in 0 .. Owed({Decision}, 0, ArtifactCap).bytes
          /\ Owed(T, 0, ArtifactCap).entries \in 0 .. Owed({Decision}, 0, ArtifactCap).entries
      BY <1>p, <2>4, OwedWithin
    <3> QED BY <2>3, <3>1, <3>2 DEF OwedAtMost
  <2> QED BY <1>p, <1>1, <1>2, <1>3, <1>4, <1>5, <2>1, <2>5, <2>6, CreateStep
<1> QED BY <1>8, <1>9

\* The transition is concluded.
LEMMA ConcludeStep ==
  ASSUME StorageInv, NEW s \in Sizes(Decision), NEW cut \in Cuts, Conclude(s, cut)
  PROVE  StorageInv'
<1>1. /\ head \in {"approved", "final"} /\ There(Decision)
      /\ MayReplace(s, NoCommitment) /\ cut # "linked"
      /\ Replace(s, IF source = "invalidate" THEN "invalidated" ELSE "adopted", cut) /\ Died(cut)
      /\ UNCHANGED <<filler, doubled, source>>
  BY DEF Conclude
<1>2. s \in Nat /\ s # 0
  BY SizesAre
<1>3. SizeAllowed(Run, s) /\ ReplaceFits(s, NoCommitment)
  BY <1>1 DEF MayReplace
<1>4. Goes(cut) /\ There(RecoverySource)
  BY <1>1, DiedGoes, InvParts DEF CallerWaits
<1>5. caller = NoCaller
  BY <1>1, <1>4, WhoWaits
<1>6. caller' = NoCaller
  BY <1>4, <1>5 DEF Goes
<1>7. PICK next : next = IF source = "invalidate" THEN "invalidated" ELSE "adopted"
  OBVIOUS
<1>8. next \in {"adopted", "invalidated"} /\ Replace(s, next, cut)
  BY <1>1, <1>7
<1> QED BY <1>1, <1>2, <1>3, <1>4, <1>6, <1>8, SettleStep DEF Heads

\* Whoever waited dies.
LEMMA AbandonStep ==
  ASSUME StorageInv, Abandon
  PROVE  StorageInv'
<1>p. Typed /\ faults \in 0 .. MaxFaults /\ MaxFaults \in Nat /\ CallerWaits
  BY InvParts, StorageAssumption
<1>1. /\ faults < MaxFaults /\ caller' = NoCaller /\ faults' = faults + 1
      /\ UNCHANGED <<filler, size, doubled, orphans, head, source>>
  BY DEF Abandon
<1>2. faults' \in 1 .. MaxFaults /\ ~(faults' = 0 \/ caller' # NoCaller)
  BY <1>p, <1>1
<1>3. \A m : There(m)' <=> There(m)
  BY <1>1 DEF There
<1>4. NoCaller \in [what : {"nothing", "provider", "evaluation"}, at : 0 .. MaxFaults]
  BY <1>p DEF NoCaller
<1>5. StorageTypeOK'
  BY <1>p, <1>1, <1>2, <1>3, <1>4 DEF Typed, StorageTypeOK
<1>6. UsedBytes' = UsedBytes /\ UsedEntries' = UsedEntries
  BY <1>1, <1>3 DEF UsedBytes, UsedEntries, Swept
<1>7. TreeIsScannable'
  BY <1>1, <1>6 DEF StorageInv, TreeIsScannable
<1>8. CallerWaits'
  BY <1>p, <1>1, <1>3 DEF CallerWaits, NoCaller
<1>9. There(Run)' /\ IsFiniteSet(orphans')
  BY <1>p, <1>1, <1>3 DEF Typed
<1> QED BY <1>2, <1>5, <1>7, <1>8, <1>9, <1>p DEF StorageInv

-----------------------------------------------------------------------------
(* RunStorage: the theorems.                                               *)

\* A slot that is reserved can be filled to its cap.
LEMMA OwedRecordable ==
  ASSUME StorageInv, ~Broken, NEW S \in SUBSET Names, NEW r \in Nat, NEW p \in Nat,
         Commitment = Owed(S, r, p), CommitmentFits, NEW n \in S
  PROVE  MayConsume(n, Limit(n))
<1> DEFINE b == LimitsOf(S) + r + p
           e == Cardinality(S) + 1
           rest == Without(Commitment, n)
           more == [rest EXCEPT !.bytes = @ + LogCap - Limit(n)]
<1>1. /\ Cardinality(S) \in Nat \ {0} /\ LimitsOf(S) \in Nat /\ LimitsOf(S \ {n}) \in Nat
      /\ LimitsOf(S) = Limit(n) + LimitsOf(S \ {n})
      /\ Limit(n) \in Nat /\ UsedBytes \in Nat /\ UsedEntries \in Nat
  BY MissingWithout, LimitType, InvParts
<1>2. Commitment = [bytes |-> b, entries |-> e, slots |-> S]
  BY DEF Owed, LimitsOf
<1>3. UsedBytes + b <= ByteCap /\ UsedEntries + e <= EntryCap
  BY <1>2 DEF CommitmentFits, Fits
<1>4. b \in Nat /\ Limit(n) <= b /\ e \in Nat /\ e >= 2
  BY <1>1
<1>5. rest = Without([bytes |-> b, entries |-> e, slots |-> S], n)
  BY <1>2
<1>6. Active
  <2>1. Commitment.entries = e /\ NoCommitment.entries = 0
    BY <1>2 DEF NoCommitment
  <2> QED BY <1>4, <2>1 DEF Active
<1>7. n \in Logs => Limit(n) = LogCap
  BY NamesDiffer DEF Limit, Evaluation, Exchange
<1>8. n \in Commitment.slots
  BY <1>2
<1> HIDE DEF b, e, rest
<1>9. /\ rest.bytes = b - Limit(n) /\ rest.entries = e - 1
      /\ more.bytes = b - Limit(n) + LogCap - Limit(n) /\ more.entries = e - 1
  BY <1>5, RestIs
<1> HIDE DEF more
<1>10. Fits(UsedBytes + Limit(n), UsedEntries + 2)
  BY <1>1, <1>3, <1>4, StorageAssumption DEF Fits
<1>11. CreateFits(Limit(n), rest)
  BY <1>1, <1>3, <1>4, <1>9, <1>10, StorageAssumption DEF CreateFits, Fits
<1>12. n \in Logs => CreateFits(Limit(n), more)
  BY <1>1, <1>3, <1>4, <1>7, <1>9, <1>10, StorageAssumption DEF CreateFits, Fits
<1>13. SizeAllowed(n, Limit(n))
  BY <1>1 DEF SizeAllowed
<1> QED BY <1>6, <1>8, <1>11, <1>12, <1>13 DEF MayConsume, rest, more

\* Whoever waits has room for the largest outcome.
LEMMA EffectsAreRecordable ==
  ASSUME StorageInv
  PROVE  EffectIsRecordable
<1> SUFFICES ASSUME caller # NoCaller, NEW n \in Commitment.slots PROVE MayConsume(n, Limit(n))
  BY DEF EffectIsRecordable
<1>p. Typed /\ size[Run] + Growth \in Nat /\ ArtifactCap \in Nat /\ Residual \in Nat
  BY InvParts, ResidualType, StorageAssumption
<1>1. ~Broken /\ (Active => CommitmentFits)
  BY InvParts DEF Held, RoomIsKept
<1>2. Missing(Slots) \in SUBSET Names /\ Missing(PrefixNames) \in SUBSET Names
  BY NamesOf DEF Missing
<1>3. Active
  BY DEF Active, NoCommitment
<1>4. CASE head = "request"
  <2>1. Commitment = Owed(Missing(Slots), 0, size[Run] + Growth)
    BY <1>4, CommitmentCases, TailsAre
  <2>2. PICK S, p : S = Missing(Slots) /\ p = size[Run] + Growth
    OBVIOUS
  <2>3. PICK m : m = n
    OBVIOUS
  <2>4. S \in SUBSET Names /\ p \in Nat /\ Commitment = Owed(S, 0, p) /\ m \in S
    BY <1>p, <1>2, <2>1, <2>2, <2>3, OwedIs
  <2> QED BY <1>1, <1>3, <2>3, <2>4, OwedRecordable
<1>5. CASE head = "approved"
  <2>1. Commitment = Owed(Missing(PrefixNames), Residual, ArtifactCap)
    BY <1>5, WhoWaits, CommitmentCases, TailsAre
  <2>2. PICK S, r : S = Missing(PrefixNames) /\ r = Residual
    OBVIOUS
  <2>3. S \in SUBSET Names /\ r \in Nat /\ Commitment = Owed(S, r, ArtifactCap) /\ n \in S
    BY <1>p, <1>2, <2>1, <2>2, OwedIs
  <2> QED BY <1>p, <1>1, <1>3, <2>3, OwedRecordable
<1> QED BY <1>4, <1>5, WhoWaits

\* The invariant holds of a new tree,
LEMMA StorageInvInit == StorageInit => StorageInv
<1> SUFFICES ASSUME StorageInit PROVE StorageInv
  OBVIOUS
<1>0. /\ filler \in Fillers /\ size = [n \in Names |-> IF n = Run THEN 1 ELSE 0]
      /\ doubled = {} /\ orphans = {} /\ faults = 0 /\ head \in {"quiet", "approved"}
      /\ source = "none" /\ caller = NoCaller
  BY DEF StorageInit
<1>1. \A n \in Names : There(n) <=> n = Run
  BY <1>0 DEF There
<1>2. Run \in Names /\ {Request, RequestRecord, Intent, RecoverySource, Decision} \subseteq Names \ {Run}
  BY NamesDiffer DEF Names, Exchange, Evaluation, Recovery
<1>3. size \in [Names -> Nat] /\ \A n \in Names : size[n] <= Limit(n)
  BY <1>0, LimitType
<1>4. StorageTypeOK
  BY <1>0, <1>3, StorageAssumption DEF StorageTypeOK, NoCaller
<1>5. IsFiniteSet(orphans) /\ There(Run)
  BY <1>0, <1>1, <1>2, FS_EmptySet
<1>6. CallerWaits
  BY <1>0, <1>1, <1>2 DEF CallerWaits, NoCaller
<1>7. NothingIsLeft
  BY <1>0, <1>1, <1>2 DEF NothingIsLeft
<1>8. Commitment = NoCommitment
  BY <1>0, <1>1, <1>2, CommitmentCases
<1>9. RoomIsKept
  BY <1>0, <1>1, <1>2, <1>8 DEF RoomIsKept, Broken, Active
<1>10. TreeIsScannable
  <2>1. RunOrphans = {} /\ Swept = {}
    BY <1>0 DEF RunOrphans, Swept
  <2>2. OrphanBytes(RunOrphans) = 0 /\ OrphanBytes(Swept) = 0 /\ Cardinality(RunOrphans) = 0 /\ Cardinality(Swept) = 0
    BY <2>1, NoOrphans, FS_EmptySet DEF OrphanBytes
  <2>3. SumFunction(size) = 1
    <3> DEFINE f == size
    <3>1. SumFunctionOnSet(f, Names) = f[Run] + SumFunctionOnSet(f, Names \ {Run})
      BY <1>2, <1>3, NamesFinite, SumTake
    <3>2. SumFunctionOnSet(f, Names \ {Run}) = 0
      <4> DEFINE g == [n \in Names \ {Run} |-> 0]
      <4>1. \A x \in Names \ {Run} : f[x] = g[x]
        BY <1>0
      <4>2. IsFiniteSet(Names \ {Run})
        BY NamesFinite, FS_Subset
      <4> HIDE DEF f
      <4>3. SumFunctionOnSet(f, Names \ {Run}) = SumFunctionOnSet(g, Names \ {Run})
        BY <4>1, <4>2, SumSame
      <4>4. \A x \in Names \ {Run} : g[x] = 0
        OBVIOUS
      <4> HIDE DEF g
      <4>5. SumFunctionOnSet(g, Names \ {Run}) = 0
        BY <4>2, <4>4, SumZero
      <4> QED BY <4>3, <4>5
    <3>3. f[Run] = 1 /\ DOMAIN f = Names
      BY <1>0, <1>2
    <3>4. SumFunction(size) = SumFunctionOnSet(f, Names)
      BY <3>3 DEF SumFunction
    <3> HIDE DEF f
    <3> QED BY <3>1, <3>2, <3>3, <3>4
  <2>4. {n \in Names : There(n)} = {Run}
    BY <1>1, <1>2
  <2>5. UsedBytes = filler.bytes + 1 /\ UsedEntries = filler.entries + 1
    <3>1. UsedBytes = filler.bytes + 1 + 0
      BY <2>2, <2>3 DEF UsedBytes, OrphanBytes
    <3>2. Cardinality({Run}) = 1 /\ Cardinality({}) = 0
      BY FS_Singleton, FS_EmptySet
    <3>3. UsedEntries = filler.entries + 1 + 0 + 0
      BY <1>0, <2>2, <2>4, <3>2 DEF UsedEntries
    <3>4. filler.bytes \in Nat /\ filler.entries \in Nat
      BY <1>0, StorageAssumption
    <3> QED BY <3>1, <3>3, <3>4
  <2>6. /\ filler.bytes \in Nat /\ filler.bytes <= ByteCap - 1
        /\ filler.entries \in Nat /\ filler.entries <= EntryCap - 1
    BY <1>0, StorageAssumption
  <2> QED BY <2>2, <2>5, <2>6, StorageAssumption DEF TreeIsScannable, OrphanBytes, RunOrphans
<1> QED BY <1>0, <1>4, <1>5, <1>6, <1>7, <1>9, <1>10 DEF StorageInv

\* and every step keeps it.
LEMMA StorageInvNext == StorageInv /\ [StorageNext]_storageVars => StorageInv'
<1> SUFFICES ASSUME StorageInv, [StorageNext]_storageVars PROVE StorageInv'
  OBVIOUS
<1>1. ASSUME NEW cut \in Cuts, NEW n \in Notes, NEW s \in Sizes(<<"note", n>>), Note(n, s, cut)
      PROVE  StorageInv'
  BY <1>1, NoteStep
<1>2. ASSUME NEW cut \in Cuts, NEW s \in 1 .. ArtifactCap, Touch(s, cut)
      PROVE  StorageInv'
  BY <1>2, TouchStep
<1>3. ASSUME NEW cut \in Cuts, ProviderStep(cut)
      PROVE  StorageInv'
  BY <1>3, AskStep, AdoptRequestStep, BindAnswerStep, AnswerStep, RecordAnswerStep DEF ProviderStep
<1>4. ASSUME NEW cut \in Cuts, EvaluationStep(cut)
      PROVE  StorageInv'
  BY <1>4, PublishLogStep, PublishIntentStep, PublishTestingStep, PublishReportStep, FinishStep
     DEF EvaluationStep
<1>5. ASSUME NEW cut \in Cuts, RecoveryStep(cut)
      PROVE  StorageInv'
  BY <1>5, StageStep, DecideStep, RecreateReportStep, ConcludeStep DEF RecoveryStep
<1>6. CASE CallProvider
  BY <1>6, CallProviderStep
<1>7. CASE \E k \in 1 .. Checks : Spawn(k)
  BY <1>7, SpawnStep
<1>8. CASE Abandon
  BY <1>8, AbandonStep
<1>9. CASE UNCHANGED storageVars
  <2>1. UNCHANGED <<filler, size, doubled, orphans, head, source, caller, faults>>
    BY <1>9 DEF storageVars
  <2>2. \A m : There(m)' <=> There(m)
    BY <2>1 DEF There
  <2>3. UsedBytes' = UsedBytes /\ UsedEntries' = UsedEntries
    BY <2>1, <2>2 DEF UsedBytes, UsedEntries, Swept
  <2>4. Commitment' = Commitment
    BY <2>1, SameOwed
  <2>5. StorageTypeOK' /\ There(Run)' /\ IsFiniteSet(orphans')
    BY <2>1, <2>2 DEF StorageInv, StorageTypeOK
  <2>6. TreeIsScannable'
    BY <2>1, <2>3 DEF StorageInv, TreeIsScannable
  <2>7. CallerWaits' /\ (faults' = 0 => NothingIsLeft')
    BY <2>1, <2>2 DEF StorageInv, CallerWaits, NothingIsLeft
  <2>8. Measured' = Measured
    BY <2>1, <2>2 DEF Measured
  <2>9. RoomIsKept => RoomIsKept'
    BY <2>1, <2>2, <2>3, <2>4, <2>8 DEF RoomIsKept, Broken, Active, CommitmentFits
  <2> QED BY <2>1, <2>5, <2>6, <2>7, <2>9 DEF StorageInv
<1> QED BY <1>1, <1>2, <1>3, <1>4, <1>5, <1>6, <1>7, <1>8, <1>9 DEF StorageNext

\* The inductive invariant of the storage budget (artifact_storage.rs, evaluation_storage.rs).
THEOREM StorageInvHolds == StorageSpec => []StorageInv
BY StorageInvInit, StorageInvNext, PTL DEF StorageSpec

\* Whatever cut a publication, the scan of the next command accepts the tree.
THEOREM ScannableTree == StorageSpec => []TreeIsScannable
<1>1. StorageInv => TreeIsScannable
  BY DEF StorageInv
<1> QED BY <1>1, StorageInvHolds, PTL

\* What a commitment reserves stays free for its owner, who can record the largest
\* outcome of the effect he caused.
THEOREM ReservedRoom == StorageSpec => []ReservedRoomStays
<1>1. StorageInv => ReservedRoomStays
  <2> SUFFICES ASSUME StorageInv PROVE ReservedRoomStays
    OBVIOUS
  <2>1. ReservationHolds
    BY InvParts DEF Held, RoomIsKept, ReservationHolds
  <2> QED BY <2>1, EffectsAreRecordable DEF ReservedRoomStays
<1> QED BY <1>1, StorageInvHolds, PTL

=============================================================================
