-------------------------- MODULE RunInputsProofs --------------------------
(***************************************************************************)
(* Proofs about RunInputs and ProjectInit: the inductive invariant, and    *)
(* what follows from it for the snapshots of a run, for the inputs a       *)
(* provider is asked under, for the eval config and for `seaf init`.       *)
(***************************************************************************)
EXTENDS RunInputs, TLAPS

-----------------------------------------------------------------------------
(* `seaf init`.                                                            *)

\* The plan, by position.
LEMMA PlanFacts ==
  /\ Plan \in Seq(DOMAIN Template)
  /\ \A a, b \in 1 .. Len(Plan) : Plan[a] = Plan[b] => a = b
  /\ \A k \in 1 .. Len(Plan) : Plan[k] \in DOMAIN Template /\ Template[Plan[k]] # None
  /\ \A n \in Inside : \E k \in 1 .. Len(Plan) : n = Plan[k]
  /\ Plan # <<>> => Inside # {}
  /\ Broken # None
BY PlanAssumption DEF IsInjective, ToSet

\* A step of an init is typed, and leaves the eval config one there may be.
LEMMA SetupTyped ==
  ASSUME SetupTypes, files["evals"] \in DOMAIN Content \cup {None},
         NEW i \in Inits, Setup(i)
  PROVE  SetupTypes' /\ files'["evals"] \in DOMAIN Content \cup {None}
<1>a. /\ "evals" \in DOMAIN files /\ Template["evals"] \in DOMAIN Content \cup {None}
      /\ Broken \in DOMAIN Content \cup {None}
  BY InputsAssumption DEF SetupTypes
<1>1. CASE Preflight(i)
  BY <1>1 DEF Preflight, At, SetupTypes, Phases
<1>2. CASE CreateFolder(i)
  BY <1>2 DEF CreateFolder, At, SetupTypes, Phases
<1>3. CASE Recheck(i)
  BY <1>3 DEF Recheck, At, SetupTypes, Phases
<1>4. CASE CreateFile(i)
  <2>1. Target(i) \in DOMAIN Template
    BY <1>4, PlanFacts DEF CreateFile, Target, SetupTypes
  <2>2. Append(made[i], Target(i)) \in Seq(DOMAIN Template)
    BY <2>1 DEF SetupTypes
  <2>3. made' \in [Inits -> Seq(DOMAIN Template)]
    BY <1>4, <2>2 DEF CreateFile, SetupTypes
  <2>4. DOMAIN files' = DOMAIN Template /\ files'["evals"] \in DOMAIN Content \cup {None}
    BY <1>4, <1>a DEF CreateFile, SetupTypes
  <2> QED BY <1>4, <2>3, <2>4 DEF CreateFile, At, SetupTypes, Phases
<1>5. CASE WriteFile(i)
  <2>1. DOMAIN files' = DOMAIN Template /\ files'["evals"] \in DOMAIN Content \cup {None}
    BY <1>5, <1>a DEF WriteFile, SetupTypes
  <2> QED BY <1>5, <2>1 DEF WriteFile, At, SetupTypes, Phases
<1>6. CASE Fails(i)
  BY <1>6 DEF Fails, SetupTypes, Phases
<1>7. CASE RemoveFile(i)
  <2>1. DOMAIN files' = DOMAIN Template /\ files'["evals"] \in DOMAIN Content \cup {None}
    BY <1>7, <1>a DEF RemoveFile, SetupTypes
  <2>2. Front(made[i]) \in Seq(DOMAIN Template)
    BY <1>7 DEF RemoveFile, Front, SetupTypes
  <2>3. made' \in [Inits -> Seq(DOMAIN Template)]
    BY <1>7, <2>2 DEF RemoveFile, SetupTypes
  <2> QED BY <1>7, <2>1, <2>3 DEF RemoveFile, SetupTypes
<1>8. CASE RemoveFolder(i)
  <2>1. folder' \in BOOLEAN
    BY <1>8 DEF RemoveFolder, SetupTypes
  <2> QED BY <1>8, <2>1 DEF RemoveFolder, At, SetupTypes, Phases
<1>9. CASE InitDies(i)
  BY <1>9 DEF InitDies, SetupTypes, Phases
<1> QED BY <1>1, <1>2, <1>3, <1>4, <1>5, <1>6, <1>7, <1>8, <1>9 DEF Setup

\* An init that made nothing is not concerned by what others do to the files.
LEMMA IdleStays ==
  ASSUME NEW j \in Inits, MadeInOrder(j), made[j] = <<>>,
         made'[j] = made[j], phase'[j] = phase[j]
  PROVE  MadeInOrder(j)'
BY DEF MadeInOrder

\* CreateFile: nobody else has made anything, or the first file would be there.
LEMMA CreateKeeps ==
  ASSUME SetupTypes, Undisturbed, NEW i \in Inits, CreateFile(i)
  PROVE  Undisturbed'
<1> DEFINE n == Len(made[i]) + 1
<1>1. /\ n \in 1 .. Len(Plan) /\ Target(i) = Plan[n] /\ files[Plan[n]] = None
      /\ Plan[n] \in Inside => folder
      /\ made' = [made EXCEPT ![i] = Append(made[i], Plan[n])]
      /\ phase' = [phase EXCEPT ![i] = "write"] /\ phase[i] = "create"
      /\ files' = [files EXCEPT ![Plan[n]] = Broken] /\ folder' = folder
      /\ made[i] \in Seq(DOMAIN Template) /\ Plan[n] \in DOMAIN Template
  BY PlanFacts DEF CreateFile, Target, Opens, At, SetupTypes
<1>2. \A j \in Inits : j # i => made[j] = <<>>
  <2> SUFFICES ASSUME NEW j \in Inits, j # i, made[j] # <<>> PROVE FALSE
    OBVIOUS
  <2>1. made[i] = <<>>
    BY DEF Undisturbed, OneMaker
  <2>2. n = 1 /\ 1 \in 1 .. Len(made[j])
    BY <2>1 DEF SetupTypes
  <2>3. files[Plan[1]] # None
    BY <2>2 DEF Undisturbed, MadeInOrder
  <2> QED BY <1>1, <2>2, <2>3
<1>3. /\ Len(made'[i]) = n /\ made'[i][n] = Plan[n]
      /\ \A k \in 1 .. Len(made[i]) : made'[i][k] = made[i][k]
      /\ \A j \in Inits : j # i => made'[j] = made[j] /\ phase'[j] = phase[j]
      /\ phase'[i] = "write" /\ made'[i] # <<>>
  BY <1>1 DEF SetupTypes
<1>4. /\ files'[Plan[n]] = Broken
      /\ \A k \in 1 .. Len(Plan) : k # n => files'[Plan[k]] = files[Plan[k]]
      /\ \A m \in Inside : m # Plan[n] => files'[m] = files[m]
  BY <1>1, PlanFacts DEF SetupTypes
<1>5. OneMaker'
  BY <1>2, <1>3 DEF OneMaker
<1>6. FilesAreMade'
  <2> SUFFICES ASSUME NEW k \in 1 .. Len(Plan), files'[Plan[k]] # None
               PROVE  \E j \in Inits : k <= Len(made'[j])
    BY DEF FilesAreMade
  <2>1. CASE k = n
    BY <2>1, <1>3, <1>1
  <2>2. CASE k # n
    <3>1. PICK j \in Inits : k <= Len(made[j])
      BY <2>2, <1>4 DEF Undisturbed, FilesAreMade
    <3>2. j = i
      BY <3>1, <1>2
    <3> QED BY <3>1, <3>2, <1>3, <1>1 DEF SetupTypes
  <2> QED BY <2>1, <2>2
<1>7. InsideIsKept'
  BY <1>1, <1>4 DEF Undisturbed, InsideIsKept
<1>8. MadeInOrder(i)'
  <2>1. \A k \in 1 .. Len(made[i]) :
          /\ made[i][k] = Plan[k] /\ files[Plan[k]] # None
          /\ files[Plan[k]] = Template[Plan[k]]
    BY <1>1 DEF Undisturbed, MadeInOrder
  <2>2. \A k \in 1 .. Len(made'[i]) :
          /\ made'[i][k] = Plan[k] /\ files'[Plan[k]] # None
          /\ k < Len(made'[i]) => files'[Plan[k]] = Template[Plan[k]]
    <3> SUFFICES ASSUME NEW k \in 1 .. n
                 PROVE  /\ made'[i][k] = Plan[k] /\ files'[Plan[k]] # None
                        /\ k < n => files'[Plan[k]] = Template[Plan[k]]
      BY <1>3
    <3>1. CASE k = n
      BY <3>1, <1>3, <1>4, PlanFacts
    <3>2. CASE k # n
      <4>1. k \in 1 .. Len(made[i]) /\ k \in 1 .. Len(Plan)
        BY <3>2, <1>1 DEF SetupTypes
      <4> QED BY <3>2, <4>1, <2>1, <1>3, <1>4
    <3> QED BY <3>1, <3>2
  <2>3. Len(made'[i]) <= Len(Plan)
    BY <1>1, <1>3
  <2> QED BY <2>2, <2>3, <1>3 DEF MadeInOrder
<1>9. \A j \in Inits : MadeInOrder(j)'
  BY <1>2, <1>3, <1>8, IdleStays DEF Undisturbed
<1> QED BY <1>5, <1>6, <1>7, <1>9 DEF Undisturbed

\* WriteFile fills the last file made.
LEMMA WriteKeeps ==
  ASSUME SetupTypes, Undisturbed, NEW i \in Inits, WriteFile(i)
  PROVE  Undisturbed'
<1> DEFINE n == Len(made[i])
<1>1. /\ made[i] # <<>> /\ phase[i] = "write" /\ made[i] \in Seq(DOMAIN Template)
      /\ n <= Len(Plan)
      /\ \A k \in 1 .. n : /\ made[i][k] = Plan[k] /\ files[Plan[k]] # None
                           /\ k < n => files[Plan[k]] = Template[Plan[k]]
  BY DEF WriteFile, At, Undisturbed, MadeInOrder, SetupTypes
<1>2. n \in 1 .. Len(Plan) /\ Last(made[i]) = Plan[n]
  BY <1>1, PlanFacts DEF Last
<1>3. /\ files' = [files EXCEPT ![Plan[n]] = Template[Plan[n]]]
      /\ made' = made /\ folder' = folder
      /\ phase' = [phase EXCEPT ![i] = IF n = Len(Plan) THEN "over" ELSE "create"]
  BY <1>2 DEF WriteFile, At
<1>4. /\ files'[Plan[n]] = Template[Plan[n]] /\ files'[Plan[n]] # None
      /\ \A k \in 1 .. Len(Plan) : k # n => files'[Plan[k]] = files[Plan[k]]
      /\ \A m \in Inside : m # Plan[n] => files'[m] = files[m]
  BY <1>2, <1>3, PlanFacts DEF SetupTypes
<1>5. \A j \in Inits : j # i => made[j] = <<>> /\ phase'[j] = phase[j]
  BY <1>1, <1>3 DEF Undisturbed, OneMaker, SetupTypes
<1>6. OneMaker'
  BY <1>3 DEF OneMaker, Undisturbed
<1>7. FilesAreMade'
  <2> SUFFICES ASSUME NEW k \in 1 .. Len(Plan), files'[Plan[k]] # None
               PROVE  \E j \in Inits : k <= Len(made[j])
    BY <1>3 DEF FilesAreMade
  <2>1. CASE k = n
    BY <2>1, <1>2
  <2>2. CASE k # n
    BY <2>2, <1>4 DEF Undisturbed, FilesAreMade
  <2> QED BY <2>1, <2>2
<1>8. InsideIsKept'
  <2>1. Plan[n] \in Inside => folder
    BY <1>1, <1>2 DEF Undisturbed, InsideIsKept
  <2> QED BY <2>1, <1>3, <1>4 DEF Undisturbed, InsideIsKept
<1>9. MadeInOrder(i)'
  <2>1. \A k \in 1 .. n : /\ made[i][k] = Plan[k] /\ files'[Plan[k]] # None
                          /\ files'[Plan[k]] = Template[Plan[k]]
    <3> SUFFICES ASSUME NEW k \in 1 .. n
                 PROVE  /\ made[i][k] = Plan[k] /\ files'[Plan[k]] # None
                        /\ files'[Plan[k]] = Template[Plan[k]]
      OBVIOUS
    <3>1. k \in 1 .. Len(Plan)
      BY <1>2
    <3>2. CASE k = n
      BY <3>2, <1>1, <1>4
    <3>3. CASE k # n
      <4>1. k < n
        BY <3>3, <1>2
      <4> QED BY <4>1, <3>1, <3>3, <1>1, <1>4
    <3> QED BY <3>2, <3>3
  <2>2. phase'[i] \in {"over", "create"} /\ (phase'[i] = "over" => n = Len(Plan))
    BY <1>3 DEF SetupTypes
  <2> QED BY <2>1, <2>2, <1>1, <1>3 DEF MadeInOrder
<1>10. \A j \in Inits : MadeInOrder(j)'
  BY <1>3, <1>5, <1>9, IdleStays DEF Undisturbed
<1> QED BY <1>6, <1>7, <1>8, <1>10 DEF Undisturbed

\* RemoveFile takes the last file back, which nobody else made.
LEMMA RemoveKeeps ==
  ASSUME SetupTypes, Undisturbed, NEW i \in Inits, RemoveFile(i)
  PROVE  Undisturbed'
<1> DEFINE n == Len(made[i])
<1>1. /\ made[i] # <<>> /\ phase[i] = "rollback" /\ made[i] \in Seq(DOMAIN Template)
      /\ n <= Len(Plan)
      /\ \A k \in 1 .. n : made[i][k] = Plan[k] /\ files[Plan[k]] # None
  BY DEF RemoveFile, Undisturbed, MadeInOrder, SetupTypes
<1>2. n \in 1 .. Len(Plan) /\ Last(made[i]) = Plan[n]
  BY <1>1, PlanFacts DEF Last
<1>3. /\ files' = [files EXCEPT ![Plan[n]] = None]
      /\ made' = [made EXCEPT ![i] = SubSeq(made[i], 1, n - 1)]
      /\ folder' = folder /\ phase' = phase
  BY <1>2 DEF RemoveFile, Front
<1>4. /\ files'[Plan[n]] = None
      /\ \A k \in 1 .. Len(Plan) : k # n => files'[Plan[k]] = files[Plan[k]]
      /\ \A m \in Inside : m # Plan[n] => files'[m] = files[m]
  BY <1>2, <1>3, PlanFacts DEF SetupTypes
<1>5. /\ Len(made'[i]) = n - 1 /\ \A k \in 1 .. n - 1 : made'[i][k] = made[i][k]
      /\ \A j \in Inits : j # i => made'[j] = made[j]
  <2>1. /\ Len(SubSeq(made[i], 1, n - 1)) = n - 1
        /\ \A k \in 1 .. n - 1 : SubSeq(made[i], 1, n - 1)[k] = made[i][k]
    BY <1>1, <1>2
  <2>2. /\ made'[i] = SubSeq(made[i], 1, n - 1)
        /\ \A j \in Inits : j # i => made'[j] = made[j]
    BY <1>3 DEF SetupTypes
  <2> QED BY <2>1, <2>2
<1>6. \A j \in Inits : j # i => made[j] = <<>>
  BY <1>1 DEF Undisturbed, OneMaker
<1>7. OneMaker'
  BY <1>5, <1>6 DEF OneMaker
<1>8. FilesAreMade'
  <2> SUFFICES ASSUME NEW k \in 1 .. Len(Plan), files'[Plan[k]] # None
               PROVE  \E j \in Inits : k <= Len(made'[j])
    BY DEF FilesAreMade
  <2>1. k # n /\ files[Plan[k]] # None
    BY <1>4
  <2>2. PICK j \in Inits : k <= Len(made[j])
    BY <2>1 DEF Undisturbed, FilesAreMade
  <2>3. j = i
    BY <2>2, <1>6
  <2>4. k <= Len(made'[i])
    BY <2>1, <2>2, <2>3, <1>2, <1>5
  <2> QED BY <2>4
<1>9. InsideIsKept'
  BY <1>3, <1>4 DEF Undisturbed, InsideIsKept
<1>10. MadeInOrder(i)'
  <2>1. \A k \in 1 .. n - 1 : made'[i][k] = Plan[k] /\ files'[Plan[k]] # None
    BY <1>1, <1>2, <1>4, <1>5
  <2>2. phase'[i] = "rollback"
    BY <1>1, <1>3
  <2>3. Len(made'[i]) <= Len(Plan)
    BY <1>2, <1>5
  <2> QED BY <2>1, <2>2, <2>3, <1>5 DEF MadeInOrder
<1>11. \A j \in Inits : MadeInOrder(j)'
  BY <1>3, <1>5, <1>6, <1>10, IdleStays DEF Undisturbed
<1> QED BY <1>7, <1>8, <1>9, <1>11 DEF Undisturbed

\* The other steps of an init move no file.
LEMMA PhaseKeeps ==
  ASSUME SetupTypes, Undisturbed, NEW i \in Inits,
         files' = files, made' = made,
         (\E n \in Inside : files[n] # None) /\ folder => folder',
         \A j \in Inits : j # i => phase'[j] = phase[j],
         MadeInOrder(i)'
  PROVE  Undisturbed'
<1>1. \A j \in Inits : j # i => MadeInOrder(j)'
  BY DEF Undisturbed, MadeInOrder
<1> QED BY <1>1 DEF Undisturbed, OneMaker, FilesAreMade, InsideIsKept

\* A step of an init that is not killed keeps what holds of them all.
LEMMA SetupKeeps ==
  ASSUME SetupTypes, Undisturbed, NEW i \in Inits, Setup(i), ~died'
  PROVE  Undisturbed'
<1>a. MadeInOrder(i) /\ made[i] \in Seq(DOMAIN Template)
  BY DEF Undisturbed, SetupTypes
<1>1. CASE Preflight(i)
  <2>1. MadeInOrder(i)'
    BY <1>1, <1>a DEF Preflight, At, SetupTypes, MadeInOrder
  <2> QED BY <1>1, <2>1, PhaseKeeps DEF Preflight, At, SetupTypes
<1>2. CASE CreateFolder(i)
  <2>1. MadeInOrder(i)'
    BY <1>2, <1>a DEF CreateFolder, At, SetupTypes, MadeInOrder
  <2> QED BY <1>2, <2>1, PhaseKeeps DEF CreateFolder, At, SetupTypes
<1>3. CASE Recheck(i)
  <2>1. MadeInOrder(i)'
    BY <1>3, <1>a DEF Recheck, At, SetupTypes, MadeInOrder
  <2> QED BY <1>3, <2>1, PhaseKeeps DEF Recheck, At, SetupTypes
<1>4. CASE CreateFile(i)
  BY <1>4, CreateKeeps
<1>5. CASE WriteFile(i)
  BY <1>5, WriteKeeps
<1>6. CASE Fails(i)
  <2>1. MadeInOrder(i)'
    BY <1>6, <1>a DEF Fails, SetupTypes, MadeInOrder
  <2> QED BY <1>6, <2>1, PhaseKeeps DEF Fails, SetupTypes
<1>7. CASE RemoveFile(i)
  BY <1>7, RemoveKeeps
<1>8. CASE RemoveFolder(i)
  <2>1. MadeInOrder(i)'
    BY <1>8, <1>a DEF RemoveFolder, At, SetupTypes, MadeInOrder
  <2> QED BY <1>8, <2>1, PhaseKeeps DEF RemoveFolder, At, SetupTypes
<1>9. CASE InitDies(i)
  BY <1>9 DEF InitDies
<1> QED BY <1>1, <1>2, <1>3, <1>4, <1>5, <1>6, <1>7, <1>8, <1>9 DEF Setup

-----------------------------------------------------------------------------
(* A run.                                                                  *)

Late == {"provision", "scaffold", "layout", "preflight", "lock", "snapshots", "ask"}

\* Six entries, each one of an input's values.
LEMMA SixEntries ==
  ASSUME NEW i, NEW d
  PROVE  /\ Len(Entries(i)) = 6 /\ Entries(i) \in Seq(ToSet(Entries(i)))
         /\ Len(Expected(d)) = 6 /\ Expected(d) \in Seq(ToSet(Expected(d)))
<1>1. \A a, b, c, x, e, f : /\ Len(<<a, b, c, x, e, f>>) = 6
                            /\ DOMAIN <<a, b, c, x, e, f>> = 1 .. 6
                            /\ <<a, b, c, x, e, f>> \in Seq({a, b, c, x, e, f})
                            /\ ToSet(<<a, b, c, x, e, f>>) = {a, b, c, x, e, f}
  BY DEF ToSet
<1> QED BY <1>1 DEF Entries, Expected

\* Inputs that give the expected entries have the recorded digests.
LEMMA SameEntries ==
  ASSUME NEW i, NEW d, IsDigests(d), Entries(i) = Expected(d)
  PROVE  CurrentDigests(i) = d
<1>1. /\ i.ticket = d.ticket /\ i.policy = d.policy /\ i.config = d.config
      /\ i.repository = d.repository /\ i.eval = d.eval_config
  BY DEF Entries, Expected
<1> QED BY <1>1 DEF IsDigests, CurrentDigests

\* And the other way round.
LEMMA SameDigests ==
  ASSUME NEW i
  PROVE  /\ IsDigests(CurrentDigests(i)) /\ Expected(CurrentDigests(i)) = Entries(i)
BY DEF IsDigests, CurrentDigests, Expected, Entries

\* One more entry of a sequence that is there up to n.
LEMMA PrefixGrows ==
  ASSUME NEW S, NEW e \in Seq(S), NEW n \in Nat, n < Len(e)
  PROVE  Append(SubSeq(e, 1, n), e[n + 1]) = SubSeq(e, 1, n + 1)
<1>1. SubSeq(e, 1, n) \in Seq(S) /\ Len(SubSeq(e, 1, n)) = n
      /\ SubSeq(e, 1, n + 1) \in Seq(S) /\ Len(SubSeq(e, 1, n + 1)) = n + 1
  OBVIOUS
<1> QED BY <1>1

\* What a command wants at the steps the invariant speaks of.
LEMMA WantsAt ==
  ASSUME NEW p \in Procs, Wants(p)
  PROVE  /\ pc[p] = "read" =>
              /\ RealFile(files["evals"]) /\ SameFile(opened[p], files["evals"])
              /\ Content[opened[p]] # None
         /\ pc[p] = "create" => PayloadsMatch(CurrentDigests(held[p]), held[p]) /\ ~directory
         /\ pc[p] = "recover" => Unchanged(p) /\ PayloadsMatch(view[p].inputs, held[p])
BY DEF Wants

\* Of a command that does nothing, while the run stays what it is.
LEMMA OthersRely ==
  ASSUME NEW q \in Procs, Relies(q),
         pc'[q] = pc[q], entrance'[q] = entrance[q], held'[q] = held[q], view'[q] = view[q],
         run # NoRun => run' # NoRun /\ run'.inputs = run.inputs,
         pc[q] = "publish" => directory' /\ run' = NoRun,
         \A r \in Procs : pc'[r] = "publish" => r = q \/ pc[r] = "publish" \/ pc[q] # "publish",
         Len(snapshots) = 6 => Len(snapshots') = 6
  PROVE  Relies(q)'
<1>1. ResumesThis(q)'
  BY DEF Relies, ResumesThis
<1>2. run # NoRun /\ Holds(q) => Holds(q)'
  BY DEF Holds
<1> QED BY <1>1, <1>2 DEF Relies

\* A command that is over relies on nothing.
LEMMA EndsRely ==
  ASSUME NEW p \in Procs, TypeOK, Ends(p)
  PROVE  /\ Relies(p)' /\ held'[p] = NoInputs
         /\ \A q \in Procs : q # p =>
              /\ pc'[q] = pc[q] /\ entrance'[q] = entrance[q] /\ held'[q] = held[q]
              /\ view'[q] = view[q]
         /\ \A q \in Procs : pc'[q] = "publish" => pc[q] = "publish" /\ q # p
         /\ DOMAIN pc' = Procs /\ DOMAIN entrance' = Procs /\ DOMAIN opened' = Procs
         /\ DOMAIN view' = Procs /\ DOMAIN held' = Procs
         /\ lock' \in Procs \cup {None}
<1>1. pc'[p] = "idle"
  BY DEF Ends, TypeOK
<1>2. Relies(p)'
  BY <1>1 DEF Relies, ResumesThis
<1> QED BY <1>1, <1>2 DEF Ends, TypeOK

Locals ==
  /\ DOMAIN pc = Procs /\ DOMAIN entrance = Procs /\ DOMAIN opened = Procs
  /\ DOMAIN view = Procs /\ DOMAIN held = Procs /\ lock \in Procs \cup {None}

\* What a command holds comes from the files of the repository.
HeldIsRead(p) ==
  /\ DOMAIN held[p] = DOMAIN NoInputs
  /\ held[p].eval # None => \E file \in DOMAIN Content \ Aliases : Content[file] = held[p].eval

OthersWait(p) ==
  \A q \in Procs : q # p =>
    /\ pc'[q] = pc[q] /\ entrance'[q] = entrance[q] /\ held'[q] = held[q] /\ view'[q] = view[q]

\* A command touches neither the repository nor its inits.
LEMMA RepositoryStays ==
  ASSUME IInv, UNCHANGED <<files, edits, setup>>
  PROVE  /\ SetupTypes' /\ files'["evals"] \in DOMAIN Content \cup {None} /\ edits' \in Nat
         /\ edits' = 0 /\ ~died' => Undisturbed'
<1>1. SetupTypes' /\ files'["evals"] \in DOMAIN Content \cup {None} /\ edits' \in Nat
  BY DEF IInv, TypeOK, SetupTypes, setup
<1>2. ASSUME Undisturbed PROVE Undisturbed'
  BY <1>2 DEF Undisturbed, OneMaker, FilesAreMade, InsideIsKept, MadeInOrder, setup
<1> QED BY <1>1, <1>2 DEF IInv, setup

\* The invariant, put together again after a step of one command.
LEMMA Together ==
  ASSUME IInv, NEW p \in Procs, UNCHANGED <<files, edits, setup>>,
         Locals', layout' \in 0 .. Len(Layout), directory' \in BOOLEAN,
         OthersWait(p), HeldIsRead(p)',
         RunStands', SnapshotsStand', AskedStands', \A q \in Procs : Relies(q)'
  PROVE  IInv'
<1>1. \A q \in Procs : HeldIsRead(q)'
  BY DEF IInv, TypeOK, EvalIsRepositoryFile, HeldIsRead, OthersWait
<1>2. EvalIsRepositoryFile' /\ \A q \in Procs : DOMAIN held'[q] = DOMAIN NoInputs
  BY <1>1 DEF EvalIsRepositoryFile, HeldIsRead
<1> QED BY <1>2, RepositoryStays DEF IInv, TypeOK, Locals

\* A step that changes neither the run nor what is on disk of it.
LEMMA QuietKeeps ==
  ASSUME IInv, NEW p \in Procs, UNCHANGED <<files, edits, setup, directory, run, snapshots, asked>>,
         Locals', layout' \in 0 .. Len(Layout),
         OthersWait(p), HeldIsRead(p)', Relies(p)',
         \A q \in Procs : pc'[q] = "publish" => pc[q] = "publish"
  PROVE  IInv'
<1>1. RunStands' /\ SnapshotsStand' /\ AskedStands' /\ directory' \in BOOLEAN
  BY DEF IInv, TypeOK, RunStands, SnapshotsStand, AskedStands
<1>2. ASSUME NEW q \in Procs, q # p PROVE Relies(q)'
  <2>1. Relies(q)
    BY DEF IInv
  <2>2. pc[q] = "publish" => directory' /\ run' = NoRun
    BY <2>1 DEF Relies
  <2> QED BY <1>2, <2>1, <2>2, OthersRely DEF OthersWait
<1> QED BY <1>1, <1>2, Together

\* A quiet step that ends a command.
LEMMA EndKeeps ==
  ASSUME IInv, NEW p \in Procs, Ends(p), UNCHANGED <<disk, edits, setup, asked>>
  PROVE  IInv'
<1>1. TypeOK
  BY DEF IInv
<1>2. HeldIsRead(p)'
  BY <1>1, EndsRely DEF HeldIsRead, NoInputs
<1>3. layout' \in 0 .. Len(Layout)
  BY <1>1 DEF TypeOK, disk
<1> QED BY <1>1, <1>2, <1>3, EndsRely, QuietKeeps DEF Locals, OthersWait, disk

\* A step of p that only moves its own counter, to where it relies on what
\* it relied on before, and may take or give back the lock.
LEMMA MoveKeeps ==
  ASSUME IInv, NEW p \in Procs, NEW to, to # "publish",
         pc' = [pc EXCEPT ![p] = to],
         UNCHANGED <<disk, entrance, held, view, edits, setup, asked>>,
         DOMAIN opened' = Procs, lock' \in Procs \cup {None}, Relies(p)'
  PROVE  IInv'
<1>1. TypeOK /\ HeldIsRead(p)
  BY DEF IInv, TypeOK, EvalIsRepositoryFile, HeldIsRead
<1>2. HeldIsRead(p)' /\ layout' \in 0 .. Len(Layout)
  BY <1>1 DEF HeldIsRead, disk, TypeOK
<1>3. Locals' /\ OthersWait(p) /\ \A q \in Procs : pc'[q] = "publish" => pc[q] = "publish"
  BY <1>1 DEF Locals, OthersWait, TypeOK
<1> QED BY <1>2, <1>3, QuietKeeps DEF disk

LEMMA RefuseKeeps ==
  ASSUME IInv, NEW p \in Procs, Refuse(p) \/ Crash(p)
  PROVE  IInv'
BY EndKeeps DEF Refuse, Crash, bounds

LEMMA BeginKeeps ==
  ASSUME IInv, NEW p \in Procs, NEW how \in Entrances \cup {"start"}, Begin(p, how)
  PROVE  IInv'
<1>1. TypeOK /\ HeldIsRead(p)
  BY DEF IInv, TypeOK, EvalIsRepositoryFile, HeldIsRead
<1>2. /\ pc'[p] = "resolve" /\ entrance'[p] = how
      /\ how \in Entrances => run # NoRun /\ view'[p] = run
      /\ DOMAIN held'[p] = DOMAIN held[p] /\ held'[p].eval = held[p].eval
  BY <1>1 DEF Begin, TypeOK, Reopens, NoInputs
<1>3. Relies(p)'
  BY <1>2 DEF Relies, ResumesThis, Begin, disk
<1>4. HeldIsRead(p)'
  BY <1>1, <1>2 DEF HeldIsRead
<1>5. Locals' /\ OthersWait(p) /\ \A q \in Procs : pc'[q] = "publish" => pc[q] = "publish"
  BY <1>1 DEF Begin, Locals, OthersWait, TypeOK
<1>6. layout' \in 0 .. Len(Layout)
  BY <1>1 DEF Begin, TypeOK, disk
<1> QED BY <1>3, <1>4, <1>5, <1>6, QuietKeeps DEF Begin, disk, bounds

LEMMA ResolveKeeps ==
  ASSUME IInv, NEW p \in Procs, NEW a \in Arguments, Resolve(p, a)
  PROVE  IInv'
<1>1. TypeOK /\ HeldIsRead(p) /\ Relies(p)
  BY DEF IInv, TypeOK, EvalIsRepositoryFile, HeldIsRead
<1>2. pc[p] = "resolve" /\ pc'[p] = "inspect" /\ pc' = [pc EXCEPT ![p] = "inspect"]
  BY <1>1 DEF Resolve, Goto, TypeOK
<1>4. DOMAIN held'[p] = DOMAIN NoInputs /\ held'[p].eval = held[p].eval
  <2>1. DOMAIN held'[p] = DOMAIN held[p] /\ held'[p].eval = held[p].eval
    BY <1>1 DEF Resolve, HeldIsRead, NoInputs, TypeOK
  <2> QED BY <1>1, <2>1 DEF HeldIsRead
<1>5. Relies(p)'
  BY <1>1, <1>2 DEF Relies, ResumesThis, Resolve, disk
<1>6. HeldIsRead(p)'
  BY <1>1, <1>4 DEF HeldIsRead
<1>7. Locals' /\ OthersWait(p) /\ \A q \in Procs : pc'[q] = "publish" => pc[q] = "publish"
  BY <1>1, <1>2 DEF Resolve, Locals, OthersWait, TypeOK
<1>8. layout' \in 0 .. Len(Layout)
  BY <1>1 DEF Resolve, TypeOK, disk
<1> QED BY <1>5, <1>6, <1>7, <1>8, QuietKeeps DEF Resolve, disk, bounds

LEMMA InspectKeeps ==
  ASSUME IInv, NEW p \in Procs, InspectEval(p) \/ OpenEval(p)
  PROVE  IInv'
<1>1. TypeOK /\ Relies(p)
  BY DEF IInv
<1>2. PICK to \in {"open", "read"} : pc' = [pc EXCEPT ![p] = to]
  BY DEF InspectEval, OpenEval, Goto
<1>3. /\ pc[p] \in {"inspect", "open"} /\ pc'[p] = to /\ DOMAIN opened' = Procs
      /\ UNCHANGED <<disk, lock, entrance, held, view, edits, setup, asked>>
  BY <1>1, <1>2 DEF InspectEval, OpenEval, Goto, TypeOK, bounds
<1>4. Relies(p)'
  BY <1>1, <1>3 DEF Relies, ResumesThis, disk
<1> QED BY <1>1, <1>2, <1>3, <1>4, MoveKeeps DEF TypeOK

\* What is read is a file that was inspected last, and is still the one there.
LEMMA ReadKeeps ==
  ASSUME IInv, NEW p \in Procs, ReadEval(p)
  PROVE  IInv'
<1>1. TypeOK /\ HeldIsRead(p) /\ Relies(p)
  BY DEF IInv, TypeOK, EvalIsRepositoryFile, HeldIsRead
<1>2. PICK to \in {"create", "recover"} :
        /\ pc' = [pc EXCEPT ![p] = to] /\ (to = "recover" => entrance[p] # "start")
  BY DEF ReadEval, Goto
<1>3. pc[p] = "read" /\ pc'[p] = to /\ Wants(p)
  BY <1>1, <1>2 DEF ReadEval, Goto, TypeOK
<1>4. opened[p] \in DOMAIN Content \ Aliases
  BY <1>1, <1>3, WantsAt DEF RealFile, SameFile, TypeOK
<1>5. DOMAIN held'[p] = DOMAIN held[p] /\ held'[p].eval = Content[opened[p]]
  BY <1>1 DEF ReadEval, HeldIsRead, NoInputs, TypeOK
<1>6. HeldIsRead(p)'
  BY <1>1, <1>4, <1>5 DEF HeldIsRead
<1>7. Relies(p)'
  BY <1>1, <1>2, <1>3 DEF Relies, ResumesThis, ReadEval, disk
<1>8. Locals' /\ OthersWait(p) /\ \A q \in Procs : pc'[q] = "publish" => pc[q] = "publish"
  BY <1>1, <1>2 DEF ReadEval, Locals, OthersWait, TypeOK
<1>9. layout' \in 0 .. Len(Layout)
  BY <1>1 DEF ReadEval, TypeOK, disk
<1> QED BY <1>6, <1>7, <1>8, <1>9, QuietKeeps DEF ReadEval, disk, bounds

\* The run that is resumed is the one whose inputs the command has read.
LEMMA ResumeKeeps ==
  ASSUME IInv, NEW p \in Procs, ResumeIsolated(p)
  PROVE  IInv'
<1>1. TypeOK /\ Relies(p)
  BY DEF IInv
<1>2. PICK to \in {"provision", "scaffold"} : pc' = [pc EXCEPT ![p] = to]
  BY DEF ResumeIsolated, Goto
<1>3. /\ pc[p] = "recover" /\ Wants(p) /\ pc'[p] = to
      /\ UNCHANGED <<disk, lock, entrance, held, opened, view, edits, setup, asked>>
  BY <1>1, <1>2 DEF ResumeIsolated, Goto, TypeOK, bounds
<1>4. run # NoRun /\ view[p].inputs = run.inputs
  BY <1>1, <1>3 DEF Relies, ResumesThis
<1>5. Holds(p)
  BY <1>3, <1>4, WantsAt DEF PayloadsMatch, Holds
<1>6. Holds(p)'
  BY <1>3, <1>5 DEF Holds, disk
<1>7. Relies(p)'
  BY <1>1, <1>3, <1>4, <1>6 DEF Relies, ResumesThis, disk
<1> QED BY <1>1, <1>2, <1>3, <1>7, MoveKeeps DEF TypeOK

\* The lock, the scaffold and the second comparison leave the run alone.
LEMMA ScaffoldKeeps ==
  ASSUME IInv, NEW p \in Procs, Scaffold(p) \/ PreflightInputs(p) \/ Lock(p, "lock", "snapshots")
  PROVE  IInv'
<1>1. TypeOK /\ Relies(p) /\ HeldIsRead(p)
  BY DEF IInv, TypeOK, EvalIsRepositoryFile, HeldIsRead
<1>2. CASE ScaffoldNext(p)
  <2>1. layout' \in 0 .. Len(Layout)
    BY <1>1, <1>2 DEF ScaffoldNext, TypeOK, Layout
  <2>2. Locals' /\ OthersWait(p) /\ HeldIsRead(p)' /\ \A q \in Procs : pc'[q] = pc[q]
    BY <1>1, <1>2 DEF ScaffoldNext, Locals, OthersWait, HeldIsRead, TypeOK, local
  <2>3. Relies(p)'
    BY <1>1, <1>2, <2>2 DEF Relies, ResumesThis, Holds, ScaffoldNext, local
  <2> QED BY <1>2, <2>1, <2>2, <2>3, QuietKeeps DEF ScaffoldNext, bounds
<1>3. CASE ~ScaffoldNext(p)
  <2>1. PICK to \in Late \ {"ask"} : pc' = [pc EXCEPT ![p] = to]
    BY <1>3 DEF Scaffold, PreflightInputs, Lock, Unlock, Goto, Late
  <2>2. /\ pc[p] \in Late \ {"ask"} /\ pc'[p] = to
        /\ UNCHANGED <<disk, entrance, held, opened, view, edits, setup, asked>>
        /\ lock' \in Procs \cup {None}
    BY <1>1, <1>3, <2>1
    DEF Scaffold, PreflightInputs, Lock, Unlock, Goto, TypeOK, bounds, Late
  <2>3. Holds(p) => Holds(p)'
    BY <2>2 DEF Holds, disk
  <2>4. Relies(p)'
    BY <1>1, <2>2, <2>3 DEF Relies, ResumesThis, Late, disk
  <2>5. to # "publish"
    BY <2>1 DEF Late
  <2> QED BY <1>1, <2>1, <2>2, <2>4, <2>5, MoveKeeps DEF TypeOK
<1> QED BY <1>2, <1>3

\* All six are there when the lock is given back.
LEMMA CompleteKeeps ==
  ASSUME IInv, NEW p \in Procs, AllPublished(p), Unlock(p, "snapshots", "ask")
  PROVE  IInv'
<1>1. TypeOK /\ Relies(p) /\ pc[p] = "snapshots" /\ Len(snapshots) = 6
  BY SixEntries DEF IInv, AllPublished, Unlock, Goto
<1>2. /\ pc' = [pc EXCEPT ![p] = "ask"] /\ pc'[p] = "ask"
      /\ UNCHANGED <<disk, entrance, held, opened, view, edits, setup, asked>>
      /\ lock' \in Procs \cup {None}
  BY <1>1 DEF Unlock, Goto, TypeOK, bounds
<1>3. Holds(p) => Holds(p)'
  BY <1>2 DEF Holds, disk
<1>4. Relies(p)'
  BY <1>1, <1>2, <1>3 DEF Relies, ResumesThis, disk
<1> QED BY <1>1, <1>2, <1>4, MoveKeeps DEF TypeOK

\* Who creates the directory is the only one to publish: there was none.
LEMMA DirectoryKeeps ==
  ASSUME IInv, NEW p \in Procs, CreateDirectory(p)
  PROVE  IInv'
<1>1. TypeOK /\ HeldIsRead(p)
  BY DEF IInv, TypeOK, EvalIsRepositoryFile, HeldIsRead
<1>2. /\ pc[p] = "create" /\ Wants(p) /\ pc'[p] = "publish"
      /\ \A q \in Procs : q # p => pc'[q] = pc[q]
  BY <1>1 DEF CreateDirectory, Goto, TypeOK
<1>3. ~directory /\ run = NoRun /\ ToSet(Entries(held[p])) \cap Prohibited = {}
  BY <1>2, WantsAt DEF PayloadsMatch, IInv, RunStands
<1>4. \A q \in Procs : pc[q] # "publish"
  BY <1>3 DEF IInv, Relies
<1>5. Relies(p)'
  BY <1>2, <1>3, <1>4 DEF Relies, ResumesThis, CreateDirectory
<1>6. ASSUME NEW q \in Procs, q # p PROVE Relies(q)'
  BY <1>2, <1>4, <1>6, OthersRely DEF CreateDirectory, IInv
<1>7. RunStands' /\ SnapshotsStand' /\ AskedStands'
  BY DEF IInv, RunStands, SnapshotsStand, AskedStands, CreateDirectory
<1>8. Locals' /\ OthersWait(p) /\ HeldIsRead(p)' /\ layout' \in 0 .. Len(Layout)
      /\ directory' \in BOOLEAN
  BY <1>1, <1>2 DEF CreateDirectory, Goto, Locals, OthersWait, HeldIsRead, TypeOK
<1> QED BY <1>5, <1>6, <1>7, <1>8, Together DEF CreateDirectory, bounds

LEMMA PublishKeeps ==
  ASSUME IInv, NEW p \in Procs, PublishRun(p)
  PROVE  IInv'
<1>1. TypeOK /\ HeldIsRead(p) /\ Relies(p)
  BY DEF IInv, TypeOK, EvalIsRepositoryFile, HeldIsRead
<1>2. /\ pc[p] = "publish" /\ pc'[p] = "provision"
      /\ \A q \in Procs : q # p => pc'[q] = pc[q]
  BY <1>1 DEF PublishRun, Goto, TypeOK
<1>3. /\ directory /\ run = NoRun /\ ToSet(Entries(held[p])) \cap Prohibited = {}
      /\ \A q \in Procs : q # p => pc[q] # "publish"
  BY <1>1, <1>2 DEF Relies
<1>4. snapshots = <<>> /\ asked = {}
  BY <1>3 DEF IInv, RunStands
<1>5. /\ DOMAIN run' = {"inputs", "lifecycle", "status"} /\ run' # NoRun
      /\ run'.inputs = CurrentDigests(held[p]) /\ run'.lifecycle = "Provisioning"
  BY DEF PublishRun, NoRun
<1>6. RunStands'
  BY <1>3, <1>5, SameDigests DEF RunStands, PublishRun
<1>7. SnapshotsStand'
  <2>1. snapshots' = <<>> /\ Len(snapshots') = 0
    BY <1>4 DEF PublishRun
  <2>2. \A d : SubSeq(Expected(d), 1, 0) = <<>>
    BY SixEntries
  <2> QED BY <2>1, <2>2 DEF SnapshotsStand
<1>8. AskedStands'
  BY <1>4 DEF AskedStands, PublishRun
<1>9. Relies(p)'
  <2>1. Holds(p)'
    BY <1>3, <1>5, SameDigests DEF Holds, PublishRun
  <2> QED BY <1>2, <1>5, <2>1 DEF Relies, ResumesThis
<1>10. ASSUME NEW q \in Procs, q # p PROVE Relies(q)'
  BY <1>2, <1>3, <1>10, OthersRely DEF PublishRun, IInv
<1>11. Locals' /\ OthersWait(p) /\ HeldIsRead(p)' /\ layout' \in 0 .. Len(Layout)
       /\ directory' \in BOOLEAN
  BY <1>1, <1>2 DEF PublishRun, Goto, Locals, OthersWait, HeldIsRead, TypeOK
<1> QED BY <1>6, <1>7, <1>8, <1>9, <1>10, <1>11, Together DEF PublishRun, bounds

\* The directory may go: nobody else is about to publish into it.
LEMMA FailKeeps ==
  ASSUME IInv, NEW p \in Procs, PublishRunFails(p)
  PROVE  IInv'
<1>1. TypeOK /\ Relies(p) /\ pc[p] = "publish" /\ Ends(p)
  BY DEF IInv, PublishRunFails
<1>2. run = NoRun /\ \A q \in Procs : q # p => pc[q] # "publish"
  BY <1>1 DEF Relies
<1>3. RunStands' /\ SnapshotsStand' /\ AskedStands'
  BY <1>2 DEF IInv, RunStands, SnapshotsStand, AskedStands, PublishRunFails
<1>4. Relies(p)' /\ HeldIsRead(p)' /\ OthersWait(p) /\ Locals'
  BY <1>1, EndsRely DEF HeldIsRead, NoInputs, OthersWait, Locals
<1>5. ASSUME NEW q \in Procs, q # p PROVE Relies(q)'
  BY <1>1, <1>2, <1>4, <1>5, EndsRely, OthersRely DEF PublishRunFails, IInv, OthersWait
<1>6. layout' \in 0 .. Len(Layout) /\ directory' \in BOOLEAN
  BY <1>1 DEF PublishRunFails, TypeOK
<1> QED BY <1>3, <1>4, <1>5, <1>6, Together DEF PublishRunFails

\* Only the lifecycle or the status of a run changes once it is published.
LEMMA RunMoves ==
  ASSUME RunStands, run # NoRun, NEW r,
         \/ r = [run EXCEPT !.lifecycle = "Active"]
         \/ r = [run EXCEPT !.status = "Running"]
  PROVE  /\ DOMAIN r = {"inputs", "lifecycle", "status"} /\ r.inputs = run.inputs
         /\ r.lifecycle \in {"Provisioning", "Active"} /\ r # NoRun
<1>1. DOMAIN run = {"inputs", "lifecycle", "status"} /\ run.lifecycle \in {"Provisioning", "Active"}
  BY DEF RunStands
<1>2. /\ DOMAIN r = {"inputs", "lifecycle", "status"} /\ r.inputs = run.inputs
      /\ r.lifecycle \in {"Provisioning", "Active"}
  BY <1>1
<1> QED BY <1>2 DEF NoRun

LEMMA ProvisionKeeps ==
  ASSUME IInv, NEW p \in Procs, Provision(p)
  PROVE  IInv'
<1>1. TypeOK /\ HeldIsRead(p) /\ Relies(p) /\ RunStands
  BY DEF IInv, TypeOK, EvalIsRepositoryFile, HeldIsRead
<1>2. /\ pc[p] = "provision" /\ pc'[p] = "scaffold"
      /\ \A q \in Procs : q # p => pc'[q] = pc[q]
  BY <1>1 DEF Provision, Goto, TypeOK
<1>3. run # NoRun /\ Holds(p)
  BY <1>1, <1>2 DEF Relies
<1>4. /\ DOMAIN run' = {"inputs", "lifecycle", "status"} /\ run'.inputs = run.inputs
      /\ run'.lifecycle \in {"Provisioning", "Active"} /\ run' # NoRun
  BY <1>1, <1>3, RunMoves DEF Provision
<1>5. RunStands' /\ SnapshotsStand' /\ AskedStands'
  BY <1>3, <1>4 DEF IInv, RunStands, SnapshotsStand, AskedStands, Provision
<1>6. Relies(p)'
  <2>1. Holds(p)'
    BY <1>3, <1>4 DEF Holds, Provision
  <2> QED BY <1>2, <1>4, <2>1 DEF Relies, ResumesThis
<1>7. OthersWait(p) /\ HeldIsRead(p)' /\ layout' \in 0 .. Len(Layout) /\ directory' \in BOOLEAN
      /\ Locals'
  BY <1>1, <1>2 DEF Provision, Goto, OthersWait, HeldIsRead, Locals, TypeOK
<1>8. ASSUME NEW q \in Procs, q # p PROVE Relies(q)'
  <2>1. Relies(q) /\ pc[q] # "publish"
    BY <1>3 DEF IInv, Relies
  <2> QED BY <1>4, <1>7, <1>8, <2>1, OthersRely DEF OthersWait, Provision
<1> QED BY <1>5, <1>6, <1>7, <1>8, Together DEF Provision, bounds

\* One more of the entries that run.json recorded.
LEMMA SnapshotKeeps ==
  ASSUME IInv, NEW p \in Procs, PublishSnapshot(p)
  PROVE  IInv'
<1> DEFINE n == Len(snapshots)
<1>1. TypeOK /\ HeldIsRead(p) /\ Relies(p) /\ RunStands /\ SnapshotsStand /\ AskedStands
  BY DEF IInv, TypeOK, EvalIsRepositoryFile, HeldIsRead
<1>2. run # NoRun /\ Holds(p) /\ pc[p] = "snapshots"
  BY <1>1 DEF Relies, PublishSnapshot
<1> DEFINE e == Entries(held[p])
<1>3. /\ Len(e) = 6 /\ e \in Seq(ToSet(e)) /\ e = Expected(run.inputs)
      /\ ToSet(e) \cap Prohibited = {}
  BY <1>2, SixEntries DEF Holds
<1>4. /\ n \in 0 .. 5 /\ snapshots' = Append(snapshots, e[n + 1])
      /\ run' = run /\ directory' = directory /\ asked' = asked /\ local' = local
      /\ snapshots = SubSeq(e, 1, n)
  BY <1>1, <1>2, <1>3 DEF PublishSnapshot, SnapshotsStand
<1> HIDE DEF e
<1>5. snapshots' = SubSeq(e, 1, n + 1)
  <2>1. n \in Nat /\ n < Len(e)
    BY <1>3, <1>4
  <2> QED BY <1>3, <1>4, <2>1, PrefixGrows
<1>6. /\ Len(snapshots') = n + 1
      /\ \A k \in 1 .. n + 1 : snapshots'[k] = e[k] /\ e[k] \in ToSet(e)
  <2>1. n + 1 \in 1 .. 6 /\ n + 1 \in Nat
    BY <1>4
  <2>2. \A k \in 1 .. 6 : e[k] \in ToSet(e)
    BY <1>3 DEF ToSet
  <2>3. Len(snapshots') = n + 1
    BY <1>3, <1>5, <2>1
  <2>4. \A k \in 1 .. n + 1 : snapshots'[k] = e[k]
    BY <1>3, <1>5, <2>1
  <2> QED BY <2>1, <2>2, <2>3, <2>4
<1>7. SnapshotsStand'
  <2>1. n + 1 \in 0 .. 6
    BY <1>4
  <2>2. \A k \in 1 .. Len(snapshots') : snapshots'[k] \notin Prohibited
    BY <1>3, <1>6
  <2>3. snapshots' = SubSeq(Expected(run'.inputs), 1, Len(snapshots'))
    BY <1>3, <1>4, <1>5, <1>6
  <2> HIDE DEF n
  <2> QED BY <2>1, <2>2, <2>3, <1>6 DEF SnapshotsStand
<1>8. n # 6 /\ asked = {}
  BY <1>1, <1>4 DEF AskedStands
<1>9. RunStands' /\ AskedStands'
  BY <1>1, <1>2, <1>4, <1>8 DEF RunStands, AskedStands
<1>10. Locals' /\ OthersWait(p) /\ HeldIsRead(p)' /\ layout' \in 0 .. Len(Layout)
       /\ directory' \in BOOLEAN /\ \A q \in Procs : pc'[q] = pc[q]
  BY <1>1, <1>4 DEF PublishSnapshot, Locals, OthersWait, HeldIsRead, TypeOK, local
<1>11. ASSUME NEW q \in Procs PROVE Relies(q)'
  <2>1. Relies(q) /\ pc[q] # "publish"
    BY <1>2 DEF IInv, Relies
  <2>2. /\ pc'[q] = pc[q] /\ entrance'[q] = entrance[q] /\ held'[q] = held[q]
        /\ view'[q] = view[q]
    BY <1>4 DEF local
  <2> QED BY <1>4, <1>8, <2>1, <2>2, OthersRely
<1> QED BY <1>7, <1>9, <1>10, <1>11, Together DEF PublishSnapshot, bounds

\* What is asked for is what was recorded, and all of it is on disk.
LEMMA AskKeeps ==
  ASSUME IInv, NEW p \in Procs, AskProvider(p)
  PROVE  IInv'
<1>1. TypeOK /\ Relies(p) /\ RunStands /\ pc[p] = "ask" /\ Ends(p)
  BY DEF IInv, AskProvider
<1>2. run # NoRun /\ Holds(p) /\ Len(snapshots) = 6
  BY <1>1 DEF Relies
<1>3. /\ DOMAIN run' = {"inputs", "lifecycle", "status"} /\ run'.inputs = run.inputs
      /\ run'.lifecycle \in {"Provisioning", "Active"} /\ run' # NoRun
  BY <1>1, <1>2, RunMoves DEF AskProvider
<1>4. RunStands' /\ SnapshotsStand'
  BY <1>2, <1>3 DEF IInv, RunStands, SnapshotsStand, AskProvider
<1>5. AskedStands'
  <2>1. CurrentDigests(held[p]) = run.inputs
    BY <1>1, <1>2, SameEntries DEF RunStands, Holds
  <2> QED BY <1>2, <1>3, <2>1 DEF IInv, AskedStands, AskProvider
<1>6. Relies(p)' /\ HeldIsRead(p)' /\ OthersWait(p) /\ Locals'
  BY <1>1, EndsRely DEF HeldIsRead, NoInputs, OthersWait, Locals
<1>7. ASSUME NEW q \in Procs, q # p PROVE Relies(q)'
  <2>1. Relies(q) /\ pc[q] # "publish"
    BY <1>2 DEF IInv, Relies
  <2> QED BY <1>3, <1>6, <1>7, <2>1, OthersRely DEF OthersWait, AskProvider
<1>8. layout' \in 0 .. Len(Layout) /\ directory' \in BOOLEAN
  BY <1>1 DEF AskProvider, TypeOK
<1> QED BY <1>4, <1>5, <1>6, <1>7, <1>8, Together DEF AskProvider, bounds

\* An edit, or a step of an init, leaves the commands and the run alone.
LEMMA WorldKeeps ==
  ASSUME IInv, UNCHANGED <<directory, run, layout, snapshots, lock, local, asked>>,
         SetupTypes', files'["evals"] \in DOMAIN Content \cup {None}, edits' \in Nat,
         edits' = 0 /\ ~died' => Undisturbed'
  PROVE  IInv'
<1>1. TypeOK'
  BY DEF IInv, TypeOK, local
<1>2. RunStands' /\ SnapshotsStand' /\ AskedStands' /\ EvalIsRepositoryFile'
  BY DEF IInv, RunStands, SnapshotsStand, AskedStands, EvalIsRepositoryFile, local
<1>3. ASSUME NEW q \in Procs PROVE Relies(q)'
  <2>1. Relies(q) /\ (pc[q] = "publish" => directory /\ run = NoRun)
    BY DEF IInv, Relies
  <2>2. /\ \A r \in Procs : pc'[r] = pc[r]
        /\ entrance'[q] = entrance[q] /\ held'[q] = held[q] /\ view'[q] = view[q]
    BY DEF local
  <2> QED BY <2>1, <2>2, OthersRely
<1> QED BY <1>1, <1>2, <1>3 DEF IInv

LEMMA EditKeeps ==
  ASSUME IInv, Edit
  PROVE  IInv'
<1>1. PICK change \in Changes : files' = [files EXCEPT ![change[1]] = change[2]]
  BY DEF Edit
<1>2. files'["evals"] \in DOMAIN Content \cup {None} /\ DOMAIN files' = DOMAIN files
  BY <1>1, InputsAssumption DEF IInv, TypeOK, SetupTypes
<1>3. SetupTypes'
  BY <1>2 DEF IInv, TypeOK, SetupTypes, Edit, setup
<1>4. edits' \in Nat /\ edits' # 0
  BY DEF IInv, TypeOK, Edit
<1> QED BY <1>2, <1>3, <1>4, WorldKeeps DEF Edit

LEMMA InitKeeps ==
  ASSUME IInv, NEW i \in Inits, Setup(i),
         UNCHANGED <<directory, run, layout, snapshots, lock, local, asked, edits>>
  PROVE  IInv'
<1>1. SetupTypes' /\ files'["evals"] \in DOMAIN Content \cup {None} /\ edits' \in Nat
  BY SetupTyped DEF IInv, TypeOK
<1>2. died => died'
  BY DEF Setup, Preflight, CreateFolder, Recheck, CreateFile, WriteFile, Fails, RemoveFile,
         RemoveFolder, InitDies
<1>3. edits' = 0 /\ ~died' => Undisturbed'
  BY <1>2, SetupKeeps DEF IInv, TypeOK
<1> QED BY <1>1, <1>3, WorldKeeps

-----------------------------------------------------------------------------
(* The invariant.                                                          *)

LEMMA InitHolds == Init => IInv
<1> SUFFICES ASSUME Init PROVE IInv
  OBVIOUS
<1>1. /\ DOMAIN files = DOMAIN Template
      /\ \A n \in DOMAIN Template : files[n] = IF n \in ToSet(Plan) THEN None ELSE Template[n]
      /\ \A k \in 1 .. Len(Plan) : files[Plan[k]] = None
  BY PlanFacts DEF Init, SetupInit, ToSet
<1>2. SetupTypes
  <2>1. phase \in [Inits -> Phases] /\ missing \in [Inits -> BOOLEAN] /\ mine \in [Inits -> BOOLEAN]
    BY DEF Init, SetupInit, Phases
  <2>2. <<>> \in Seq(DOMAIN Template)
    OBVIOUS
  <2>3. made \in [Inits -> Seq(DOMAIN Template)]
    BY <2>2 DEF Init, SetupInit
  <2> QED BY <1>1, <2>1, <2>3 DEF Init, SetupInit, SetupTypes
<1>3. files["evals"] \in DOMAIN Content \cup {None}
  BY <1>1, InputsAssumption
<1>4. TypeOK
  <2>1. 0 \in 0 .. Len(Layout) /\ edits \in Nat
    BY DEF Layout, Init
  <2>2. Locals /\ \A p \in Procs : DOMAIN held[p] = DOMAIN NoInputs
    BY DEF Init, Locals
  <2> QED BY <1>2, <1>3, <2>1, <2>2 DEF TypeOK, Init, Locals
<1>5. Undisturbed
  <2>1. OneMaker /\ FilesAreMade /\ InsideIsKept
    BY <1>1, PlanFacts DEF Init, SetupInit, OneMaker, FilesAreMade, InsideIsKept
  <2>2. \A i \in Inits : MadeInOrder(i)
    BY PlanFacts DEF Init, SetupInit, MadeInOrder
  <2> QED BY <2>1, <2>2 DEF Undisturbed
<1>6. RunStands /\ AskedStands /\ \A p \in Procs : Relies(p)
  BY DEF Init, RunStands, AskedStands, Relies, ResumesThis
<1>7. SnapshotsStand
  BY DEF Init, SnapshotsStand
<1>8. EvalIsRepositoryFile
  BY DEF Init, EvalIsRepositoryFile, NoInputs
<1> QED BY <1>4, <1>5, <1>6, <1>7, <1>8 DEF IInv

LEMMA StepHolds == IInv /\ [Next]_vars => IInv'
<1> SUFFICES ASSUME IInv, [Next]_vars PROVE IInv'
  OBVIOUS
<1>1. CASE UNCHANGED vars
  <2>1. UNCHANGED <<files, edits, setup, directory, run, layout, snapshots, lock, local, asked>>
    BY <1>1 DEF vars, disk, bounds
  <2> QED BY <2>1, RepositoryStays, WorldKeeps
<1>2. ASSUME NEW p \in Procs, p \in Starters /\ Begin(p, "start") PROVE IInv'
  BY <1>2, BeginKeeps
<1>3. ASSUME NEW p \in Procs, NEW how \in Entrances, Begin(p, how) PROVE IInv'
  BY <1>3, BeginKeeps
<1>4. ASSUME NEW p \in Procs, NEW a \in Arguments, Resolve(p, a) PROVE IInv'
  BY <1>4, ResolveKeeps
<1>5. ASSUME NEW p \in Procs, Step(p) PROVE IInv'
  BY <1>5, InspectKeeps, ReadKeeps, DirectoryKeeps, PublishKeeps, ProvisionKeeps, ResumeKeeps,
     ScaffoldKeeps, SnapshotKeeps, CompleteKeeps, AskKeeps
  DEF Step, PublishInputs
<1>6. ASSUME NEW p \in Procs, Refuse(p) \/ Crash(p) PROVE IInv'
  BY <1>6, RefuseKeeps
<1>7. ASSUME NEW p \in Procs, PublishRunFails(p) PROVE IInv'
  BY <1>7, FailKeeps
<1>8. CASE Edit
  BY <1>8, EditKeeps
<1>9. ASSUME NEW i \in Inits, Setup(i),
             UNCHANGED <<directory, run, layout, snapshots, lock, local, asked, edits>>
      PROVE IInv'
  BY <1>9, InitKeeps
<1> QED BY <1>1, <1>2, <1>3, <1>4, <1>5, <1>6, <1>7, <1>8, <1>9 DEF Next

\* Every reachable state satisfies the invariant.
THEOREM IInvHolds == Spec => []IInv
BY InitHolds, StepHolds, PTL DEF Spec

\* Whoever publishes them, and however often a start dies and people edit: the
\* snapshots are a prefix of what run.json recorded, without a secret
\* (ensure_authoritative_run_inputs).
THEOREM SnapshotsAreRecorded == Spec => []RecordedPrefix
<1>1. IInv => RecordedPrefix
  <2> SUFFICES ASSUME IInv, snapshots # <<>> PROVE RecordedPrefix
    BY DEF RecordedPrefix
  <2>1. run # NoRun /\ SnapshotsStand
    BY DEF IInv, RunStands
  <2> DEFINE e == Expected(run.inputs)
             n == Len(snapshots)
  <2>2. Len(e) = 6 /\ e \in Seq(ToSet(e))
    BY SixEntries
  <2>3. n \in 0 .. 6 /\ snapshots = SubSeq(e, 1, n)
    BY <2>1 DEF SnapshotsStand
  <2> HIDE DEF e
  <2>4. SubSeq(snapshots, 1, n) = SubSeq(e, 1, n) /\ DOMAIN snapshots = 1 .. n
    BY <2>2, <2>3
  <2>5. ExactPrefix(e)
    BY <2>2, <2>3, <2>4 DEF ExactPrefix, IsPrefix
  <2>6. ToSet(snapshots) \cap Prohibited = {}
    BY <2>1, <2>4 DEF SnapshotsStand, ToSet
  <2> QED BY <2>1, <2>5, <2>6 DEF RecordedPrefix, e
<1> QED BY <1>1, IInvHolds, PTL

\* A provider is asked only under the inputs that run.json recorded, with all
\* six of them on disk (load_verified_authoritative_run_inputs).
THEOREM ProviderIsAskedAsRecorded == Spec => []AskedAsRecorded
<1>1. IInv => AskedAsRecorded
  <2> SUFFICES ASSUME IInv, NEW i \in asked
               PROVE  CurrentDigests(i) = run.inputs /\ LoadsVerified(run.inputs)
    BY DEF AskedAsRecorded
  <2>1. /\ run # NoRun /\ Len(snapshots) = 6 /\ CurrentDigests(i) = run.inputs
        /\ snapshots = SubSeq(Expected(run.inputs), 1, 6)
    BY DEF IInv, RunStands, AskedStands, SnapshotsStand
  <2>2. \A d : SubSeq(Expected(d), 1, 6) = Expected(d) /\ Len(Expected(d)) = 6
    BY SixEntries
  <2> QED BY <2>1, <2>2 DEF LoadsVerified
<1> QED BY <1>1, IInvHolds, PTL

\* No eval config is taken from a file that was reached through a symlink,
\* however the path changes while it is inspected, opened and read
\* (load_authoritative_eval_config_with_hook).
THEOREM EvalComesFromRepository == Spec => []EvalIsRepositoryFile
BY IInvHolds, PTL DEF IInv

\* However many `seaf init` run, and whatever fails but a kill, the planned
\* files are all there or none of them is (create_init_with_rollback).
THEOREM InitLeavesWhole == Spec => []InitIsWhole
<1>1. IInv => InitIsWhole
  <2> SUFFICES ASSUME IInv, \A i \in Inits : phase[i] \in {"new", "over"}, ~died, edits = 0,
                      ~Clear
               PROVE  folder /\ \A n \in ToSet(Plan) : files[n] = Template[n]
    BY DEF InitIsWhole, Whole
  <2>1. Undisturbed /\ SetupTypes
    BY DEF IInv, TypeOK
  <2>2. PICK k \in 1 .. Len(Plan) : files[Plan[k]] # None
    BY PlanFacts DEF Clear, ToSet
  <2>3. PICK i \in Inits : k <= Len(made[i])
    BY <2>1, <2>2 DEF Undisturbed, FilesAreMade
  <2>4. made[i] # <<>>
    BY <2>2, <2>3
  <2>5. phase[i] = "over" /\ MadeInOrder(i)
    BY <2>1, <2>4 DEF Undisturbed, MadeInOrder
  <2>6. Len(made[i]) = Len(Plan) /\ \A m \in 1 .. Len(Plan) : files[Plan[m]] = Template[Plan[m]]
    BY <2>4, <2>5 DEF MadeInOrder
  <2>7. \A n \in ToSet(Plan) : files[n] = Template[n]
    BY <2>6, PlanFacts DEF ToSet
  <2>8. PICK n \in Inside : \E m \in 1 .. Len(Plan) : n = Plan[m]
    BY <2>2, PlanFacts
  <2>9. files[n] # None
    BY <2>6, <2>8, PlanFacts
  <2> QED BY <2>1, <2>7, <2>9 DEF Undisturbed, InsideIsKept
<1> QED BY <1>1, IInvHolds, PTL

=============================================================================
