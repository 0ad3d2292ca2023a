----------------------------- MODULE LoopStepProofs -----------------------------
(***************************************************************************)
(* The steps of a run: a passed evaluation is worth its name, for any      *)
(* checks, executables and number of edits and failures (CheckRunner), and *)
(* what the role steps ask, decide and leave to the next process stands,   *)
(* for any answers, patches, policy, tree, revisions and crashes           *)
(* (RoleChain).                                                            *)
(***************************************************************************)
EXTENDS CheckRunner, RoleChain, FiniteSetTheorems, WellFoundedInduction, TLAPS

-----------------------------------------------------------------------------
(* Sequences.                                                              *)

\* A sequence that is not further typed is still one after an Append.
LEMMA Appended ==
  ASSUME NEW s, NEW x, s \in Seq(ToSet(s))
  PROVE  /\ Append(s, x) \in Seq(ToSet(Append(s, x)))
         /\ Len(s) \in Nat /\ Len(Append(s, x)) = Len(s) + 1
         /\ \A k \in 1 .. Len(s) : Append(s, x)[k] = s[k]
         /\ Append(s, x)[Len(s) + 1] = x
<1> DEFINE S == ToSet(s) \cup {x}
           t == Append(s, x)
<1>1. s \in Seq(S)
  OBVIOUS
<1>2. /\ t \in Seq(S) /\ Len(s) \in Nat /\ Len(t) = Len(s) + 1
      /\ \A k \in 1 .. Len(s) : t[k] = s[k]
      /\ t[Len(s) + 1] = x
  BY <1>1
<1>3. t \in [1 .. Len(t) -> ToSet(t)] /\ Len(t) \in Nat
  <2>1. t \in [1 .. Len(t) -> S] /\ Len(t) \in Nat
    <3>1. t \in Seq(S)
      BY <1>2
    <3> HIDE DEF t, S
    <3>2. QED
      BY <3>1
  <2>2. ToSet(t) = {t[k] : k \in 1 .. Len(t)}
    BY <2>1 DEF ToSet
  <2> HIDE DEF t, S
  <2>3. \A k \in 1 .. Len(t) : t[k] \in ToSet(t)
    BY <2>2
  <2>4. QED
    BY <2>1, <2>3
<1>4. t \in Seq(ToSet(t))
  <2> HIDE DEF t, S
  <2>1. QED
    BY <1>3
<1>5. QED
  BY <1>2, <1>4

LEMMA ResultAppended ==
  ASSUME NEW s \in Seq({"Passed", "Failed"}), NEW x \in {"Passed", "Failed"}
  PROVE  /\ Append(s, x) \in Seq({"Passed", "Failed"})
         /\ Len(Append(s, x)) = Len(s) + 1
         /\ ToSet(Append(s, x)) \subseteq {"Passed"} =>
              ToSet(s) \subseteq {"Passed"} /\ x = "Passed"
<1>1. /\ Append(s, x) \in Seq({"Passed", "Failed"})
      /\ Len(s) \in Nat /\ Len(Append(s, x)) = Len(s) + 1
      /\ DOMAIN s = 1 .. Len(s) /\ DOMAIN Append(s, x) = 1 .. Len(s) + 1
      /\ \A k \in 1 .. Len(s) : Append(s, x)[k] = s[k]
      /\ Append(s, x)[Len(s) + 1] = x
  OBVIOUS
<1>2. \A k \in DOMAIN s : s[k] \in ToSet(Append(s, x))
  BY <1>1 DEF ToSet
<1>3. x \in ToSet(Append(s, x))
  BY <1>1 DEF ToSet
<1>4. ToSet(s) \subseteq ToSet(Append(s, x))
  BY <1>2 DEF ToSet
<1>5. QED
  BY <1>1, <1>3, <1>4

\* The checks are the numbers up to the length of the list, which a plan has as well.
LEMMA PlanLength ==
  ASSUME config \in Configs
  PROVE  /\ Len(config.required) \in Nat /\ Checks = 1 .. Len(config.required)
         /\ Len([k \in Checks |-> PlanOf(config.required[k])]) = Len(config.required)
<1> DEFINE n == Len(config.required)
           f == [k \in Checks |-> PlanOf(config.required[k])]
           S == {f[k] : k \in Checks}
<1>1. config.required \in Seq(Commands)
  BY EngineAssumption
<1>2. n \in Nat /\ Checks = 1 .. n
  BY <1>1 DEF Checks
<1>3. f \in [1 .. n -> S]
  BY <1>2
<1>4. f \in Seq(S)
  BY <1>2, <1>3
<1>5. DOMAIN f = 1 .. n /\ DOMAIN f = 1 .. Len(f) /\ Len(f) \in Nat
  BY <1>2, <1>4
<1>6. QED
  BY <1>2, <1>5

LEMMA EarlierChecks ==
  ASSUME IInv
  PROVE  pc \in Running => 1 .. check \subseteq Checks
<1>1. config \in Configs /\ check \in Nat \ {0}
  BY DEF IInv, TypeOK
<1>2. pc \in Running => check <= Len(config.required)
  BY DEF IInv, Counted, Running
<1>3. QED
  BY <1>1, <1>2, PlanLength

-----------------------------------------------------------------------------
(* The command.                                                            *)

LEMMA InitEarns == Init => IInv
<1> SUFFICES ASSUME Init PROVE IInv
  OBVIOUS
<1>1. << >> \in Seq({"Passed", "Failed"}) /\ << >> \in Seq(ToSet(<< >>)) /\ Len(<< >>) = 0
  OBVIOUS
<1>2. TypeOK
  BY <1>1 DEF Init, TypeOK, Checks
<1>3. Counted
  BY <1>1 DEF Init, Counted, Running
<1>4. EarnedSoFar
  BY <1>1 DEF Init, EarnedSoFar, Running
<1>5. QED
  BY <1>2, <1>3, <1>4 DEF IInv

\* A result ends the check; a failed one ends what the evaluation has earned.
LEMMA RecordedCounts ==
  ASSUME IInv, NEW status \in {"Passed", "Failed"}, Recorded(status),
         pc \in Running \cup {"compare", "spawn"}, UNCHANGED <<config, plan>>
  PROVE  /\ results' \in Seq({"Passed", "Failed"})
         /\ check' = check + 1 /\ check' \in Nat \ {0}
         /\ pc' \in {"admit", "finish"}
         /\ Counted'
         /\ ToSet(results') \subseteq {"Passed"} =>
              ToSet(results) \subseteq {"Passed"} /\ status = "Passed"
<1>1. /\ results \in Seq({"Passed", "Failed"}) /\ check \in Nat \ {0}
      /\ config \in Configs
      /\ Len(results) = check - 1 /\ Len(plan) = Len(config.required) /\ check <= Len(plan)
  BY DEF IInv, TypeOK, Counted, Running
<1>2. results' = Append(results, status) /\ check' = check + 1
      /\ pc' = IF check = Len(plan) THEN "finish" ELSE "admit"
  BY DEF Recorded
<1>3. Len(results') = check' - 1
  BY <1>1, <1>2, ResultAppended
<1>4. Len(plan) \in Nat
  BY <1>1, PlanLength
<1>5. Counted'
  BY <1>1, <1>2, <1>3, <1>4 DEF Counted, Running
<1>6. QED
  BY <1>1, <1>2, <1>5, ResultAppended

LEMMA PlanEarns ==
  ASSUME IInv, Plan
  PROVE  IInv'
<1>1. /\ TypeOK /\ config \in Configs /\ check = 1 /\ Len(results) = 0
      /\ ToSet(results) \subseteq {"Passed"} => EarnedSoFar
      /\ pc = "plan"
  BY DEF IInv, TypeOK, Counted, Plan
<1>2. /\ UNCHANGED <<config, candidate, check, procs, exit, timedOut, results, ran>>
      /\ pc' \in {"admit", "refused"}
      /\ pc' = "admit" => Len(plan') = Len(config.required) /\ check <= Len(plan')
  <2>1. UNCHANGED <<config, candidate, check, procs, exit, timedOut, results, ran>>
        /\ pc' \in {"admit", "refused"}
    BY DEF Plan
  <2>2. ASSUME pc' = "admit" PROVE Len(plan') = Len(config.required) /\ check <= Len(plan')
    <3>1. config.required # << >> /\ plan' = [k \in Checks |-> PlanOf(config.required[k])]
      BY <2>2 DEF Plan, ConfigValid
    <3>2. config.required \in Seq(Commands)
      BY <1>1, EngineAssumption
    <3>3. Len(config.required) \in Nat \ {0}
      BY <3>1, <3>2
    <3>4. QED
      BY <1>1, <3>1, <3>3, PlanLength
  <2>3. QED
    BY <2>1, <2>2
<1>3. TypeOK'
  BY <1>1, <1>2 DEF TypeOK, Checks, Ended
<1>4. Counted'
  BY <1>1, <1>2 DEF Counted, Running
<1>5. ASSUME ToSet(results') \subseteq {"Passed"} PROVE EarnedSoFar'
  <2>1. EarnedSoFar
    BY <1>1, <1>2, <1>5
  <2>2. Len(ran) = 0
    BY <1>1, <2>1 DEF EarnedSoFar, Running
  <2>3. \A p \in procs : p.role = "stray"
    BY <1>1, <2>1 DEF EarnedSoFar, Running
  <2>4. QED
    BY <1>1, <1>2, <2>2, <2>3 DEF EarnedSoFar, Running
<1>6. QED
  BY <1>3, <1>4, <1>5 DEF IInv

\* The steps that record nothing and start nothing.
LEMMA QuietEarns ==
  ASSUME IInv, Admit \/ TryWait \/ Wait \/ Finish
  PROVE  IInv'
<1>1. /\ TypeOK /\ Counted
      /\ ToSet(results) \subseteq {"Passed"} => EarnedSoFar
  BY DEF IInv
<1>2. UNCHANGED <<config, file, candidate, check, plan, procs, exit, timedOut, results, ran>>
  BY DEF Admit, TryWait, Wait, Finish
<1>3. TypeOK'
  BY <1>1, <1>2 DEF TypeOK, Checks, Running, Ended, Admit, TryWait, Wait, Finish
<1>4. Counted'
  BY <1>1, <1>2 DEF Counted, Running, Admit, TryWait, Wait, Finish
<1>5. ASSUME EarnedSoFar PROVE EarnedSoFar'
  <2>1. /\ pc \in Running <=> pc' \in Running
        /\ pc' = "compare" => candidate
        /\ pc' # "spawn"
        /\ pc' = "drain" => timedOut
    BY DEF Admit, TryWait, Wait, Finish, Running
  <2>2. QED
    BY <1>2, <1>5, <2>1 DEF EarnedSoFar, RanAsPlanned, Group
<1>6. QED
  BY <1>1, <1>2, <1>3, <1>4, <1>5 DEF IInv

\* What is compared with the plan is what is spawned.
LEMMA CompareEarns ==
  ASSUME IInv, Compare
  PROVE  IInv'
<1>1. /\ TypeOK /\ Counted
      /\ ToSet(results) \subseteq {"Passed"} => EarnedSoFar
      /\ pc = "compare"
  BY DEF IInv, Compare
<1>2. UNCHANGED <<config, file, candidate, plan, procs, exit, timedOut, ran>>
  BY DEF Compare
<1>3. CASE Recorded("Failed")
  <2>1. /\ results' \in Seq({"Passed", "Failed"}) /\ check' \in Nat \ {0}
        /\ pc' \in {"admit", "finish"} /\ Counted' /\ ~(ToSet(results') \subseteq {"Passed"})
    BY <1>1, <1>2, <1>3, RecordedCounts
  <2>2. TypeOK'
    BY <1>1, <1>2, <2>1 DEF TypeOK, Checks
  <2>3. QED
    BY <2>1, <2>2 DEF IInv
<1>4. CASE ~Recorded("Failed")
  <2>1. /\ pc' = "spawn" /\ UNCHANGED <<check, results>>
        /\ Identity(plan[check].executable.path) = plan[check].executable
    BY <1>4 DEF Compare
  <2>2. TypeOK'
    BY <1>1, <1>2, <2>1 DEF TypeOK, Checks
  <2>3. Counted'
    BY <1>1, <1>2, <2>1 DEF Counted, Running
  <2>4. EarnedSoFar => EarnedSoFar'
    BY <1>1, <1>2, <2>1 DEF EarnedSoFar, RanAsPlanned, Running, Identity, Group
  <2>5. QED
    BY <1>1, <2>1, <2>2, <2>3, <2>4 DEF IInv
<1>5. QED
  BY <1>3, <1>4

LEMMA SpawnEarns ==
  ASSUME IInv, Spawn
  PROVE  IInv'
<1>1. /\ TypeOK /\ Counted
      /\ ToSet(results) \subseteq {"Passed"} => EarnedSoFar
      /\ pc = "spawn" /\ pc' = "poll"
      /\ check \in Nat \ {0} /\ ran \in Seq(ToSet(ran)) /\ check \in Checks
  <2>1. /\ TypeOK /\ Counted
        /\ ToSet(results) \subseteq {"Passed"} => EarnedSoFar
        /\ pc = "spawn" /\ pc' = "poll"
    BY DEF IInv, Spawn
  <2>2. check \in Nat \ {0} /\ ran \in Seq(ToSet(ran)) /\ config \in Configs
    BY <2>1 DEF TypeOK
  <2>3. check <= Len(config.required)
    BY <2>1 DEF Counted
  <2>4. QED
    BY <2>1, <2>2, <2>3, PlanLength
<1>2. /\ UNCHANGED <<config, file, candidate, check, plan, exit, results>>
      /\ procs' = procs \cup {[of |-> check, role |-> "leader"]}
  BY DEF Spawn
<1>3. /\ ran' \in Seq(ToSet(ran')) /\ Len(ran) \in Nat /\ Len(ran') = Len(ran) + 1
      /\ \A k \in 1 .. Len(ran) : ran'[k] = ran[k]
      /\ ran'[Len(ran) + 1] = [executable |-> Identity(plan[check].executable.path),
                               verified |-> candidate]
  BY <1>1, Appended DEF Spawn
<1>4. TypeOK'
  BY <1>1, <1>2, <1>3 DEF TypeOK, Checks, Running
<1>5. Counted'
  BY <1>1, <1>2 DEF Counted, Running
<1>6. ASSUME EarnedSoFar PROVE EarnedSoFar'
  <2>1. /\ Len(ran) = check - 1 /\ candidate
        /\ Identity(plan[check].executable.path) = plan[check].executable
        /\ \A k \in 1 .. Len(ran) : RanAsPlanned(k)
        /\ \A k \in 1 .. check - 1 : exit[k] = "ok"
        /\ \A p \in procs : p.role = "stray"
    BY <1>1, <1>6 DEF EarnedSoFar, Running
  <2>2. \A k \in 1 .. check : ran'[k] = [executable |-> plan[k].executable, verified |-> TRUE]
    <3>1. ran'[check] = [executable |-> plan[check].executable, verified |-> TRUE]
      <4>1. candidate = TRUE
        BY <2>1
      <4>2. QED
        BY <1>1, <1>3, <2>1, <4>1
    <3>2. \A k \in 1 .. Len(ran) :
             ran'[k] = [executable |-> plan[k].executable, verified |-> TRUE]
      BY <1>3, <2>1 DEF RanAsPlanned
    <3>3. \A k \in 1 .. check : k \in 1 .. check - 1 \/ k = check
      BY <1>1
    <3>4. QED
      BY <2>1, <3>1, <3>2, <3>3
  <2>3. Len(ran') = check
    BY <1>1, <1>3, <2>1
  <2>4. \A p \in procs' : p.role = "stray" \/ p.of = check
    BY <1>2, <2>1
  <2>5. QED
    BY <1>1, <1>2, <2>1, <2>2, <2>3, <2>4 DEF EarnedSoFar, RanAsPlanned, Running
<1>7. QED
  BY <1>1, <1>2, <1>4, <1>5, <1>6 DEF IInv

LEMMA BreakEarns ==
  ASSUME IInv, Break
  PROVE  IInv'
<1>1. /\ TypeOK /\ ran \in Seq(ToSet(ran))
      /\ pc \in Running \cup {"compare", "spawn"} /\ Recorded("Failed")
      /\ UNCHANGED <<config, plan, procs, exit>>
  BY DEF IInv, TypeOK, Break, Running
<1>2. /\ results' \in Seq({"Passed", "Failed"}) /\ check' \in Nat \ {0}
      /\ pc' \in {"admit", "finish"} /\ Counted' /\ ~(ToSet(results') \subseteq {"Passed"})
  BY <1>1, RecordedCounts
<1>3. ran' \in Seq(ToSet(ran'))
  <2>1. CASE pc = "spawn"
    BY <1>1, <2>1, Appended DEF Break
  <2>2. CASE pc # "spawn"
    BY <1>1, <2>2 DEF Break
  <2>3. QED
    BY <2>1, <2>2
<1>4. TypeOK'
  BY <1>1, <1>2, <1>3 DEF TypeOK, Checks
<1>5. QED
  BY <1>2, <1>4 DEF IInv

\* The group is killed: nothing of the check but a stray is left.
LEMMA TerminateEarns ==
  ASSUME IInv, AtDeadline \/ Reap
  PROVE  IInv'
<1>1. /\ TypeOK /\ Counted /\ check \in Nat
      /\ ToSet(results) \subseteq {"Passed"} => EarnedSoFar
      /\ pc \in {"late", "reap"} /\ pc' \in Running
      /\ UNCHANGED <<config, file, candidate, check, plan, results, ran>>
  BY DEF IInv, TypeOK, AtDeadline, Reap, Running
<1>2. /\ procs' \subseteq procs
      /\ pc' = "drain" => \A p \in procs' : p.of # check \/ p.role = "stray"
      /\ exit' = exit \/ exit' = [exit EXCEPT ![check] = "signal"]
  BY DEF AtDeadline, Reap, TerminateChild, Group
<1>3. TypeOK'
  BY <1>1, <1>2 DEF TypeOK, Checks, Running
<1>4. Counted'
  BY <1>1 DEF Counted, Running
<1>5. ASSUME EarnedSoFar PROVE EarnedSoFar'
  <2>1. exit \in [Checks -> {"none", "ok", "code", "signal"}]
    BY <1>1 DEF TypeOK
  <2>2. \A k \in 1 .. check - 1 : exit'[k] = exit[k]
    <3>1. 1 .. check - 1 \subseteq Checks /\ check \notin 1 .. check - 1
      BY <1>1, EarlierChecks DEF Running
    <3>2. QED
      BY <1>2, <2>1, <3>1
  <2>3. pc' = "drain" => Group(check)' = {}
    BY <1>1, <1>2 DEF Group
  <2>4. pc \in Running
    BY <1>1 DEF Running
  <2>5. \A k \in 1 .. check - 1 : exit'[k] = "ok"
    BY <1>5, <2>2 DEF EarnedSoFar
  <2>6. \A p \in procs' : p.role = "stray" \/ p.of = check
    BY <1>2, <1>5 DEF EarnedSoFar
  <2>7. Len(ran) = check /\ \A k \in 1 .. Len(ran) : RanAsPlanned(k)
    BY <1>5, <2>4 DEF EarnedSoFar
  <2>8. pc' \notin {"compare", "spawn"}
    BY <1>1 DEF Running
  <2>9. QED
    BY <1>1, <2>3, <2>5, <2>6, <2>7, <2>8 DEF EarnedSoFar, RanAsPlanned, Group
<1>6. QED
  BY <1>1, <1>3, <1>4, <1>5 DEF IInv

\* A check passes when its leader ended by itself and its group is gone.
LEMMA DrainEarns ==
  ASSUME IInv, Drain
  PROVE  IInv'
<1> DEFINE status == IF ~timedOut /\ exit[check] = "ok" THEN "Passed" ELSE "Failed"
<1>1. /\ TypeOK /\ Counted /\ check \in Nat \ {0}
      /\ ToSet(results) \subseteq {"Passed"} => EarnedSoFar
      /\ pc = "drain" /\ Recorded(status)
      /\ UNCHANGED <<config, file, candidate, plan, procs, exit, timedOut, ran>>
  BY DEF IInv, TypeOK, Drain
<1>2. status \in {"Passed", "Failed"}
  OBVIOUS
<1>3. /\ results' \in Seq({"Passed", "Failed"}) /\ check' = check + 1 /\ check' \in Nat \ {0}
      /\ pc' \in {"admit", "finish"} /\ Counted'
      /\ ToSet(results') \subseteq {"Passed"} =>
           ToSet(results) \subseteq {"Passed"} /\ status = "Passed"
  <2> HIDE DEF status
  <2>1. pc \in Running \cup {"compare", "spawn"}
    BY <1>1 DEF Running
  <2>2. QED
    BY <1>1, <1>2, <2>1, RecordedCounts
<1>4. TypeOK'
  BY <1>1, <1>3 DEF TypeOK, Checks
<1>5. ASSUME ToSet(results') \subseteq {"Passed"} PROVE EarnedSoFar'
  <2>1. EarnedSoFar /\ ~timedOut /\ exit[check] = "ok"
    BY <1>1, <1>3, <1>5
  <2>2. /\ Len(ran) = check /\ \A k \in 1 .. Len(ran) : RanAsPlanned(k)
        /\ \A k \in 1 .. check - 1 : exit[k] = "ok"
        /\ \A p \in procs : p.role = "stray" \/ p.of = check
        /\ Group(check) = {}
    BY <1>1, <2>1 DEF EarnedSoFar, Running
  <2>3. \A p \in procs : p.role = "stray"
    BY <2>2 DEF Group
  <2>4. \A k \in 1 .. check : exit[k] = "ok"
    BY <1>1, <2>1, <2>2
  <2>5. check' - 1 = check /\ pc' \notin Running \cup {"compare", "spawn", "drain"}
    BY <1>1, <1>3 DEF Running
  <2>6. QED
    BY <1>1, <2>2, <2>3, <2>4, <2>5 DEF EarnedSoFar, RanAsPlanned
<1>6. QED
  BY <1>3, <1>4, <1>5 DEF IInv

-----------------------------------------------------------------------------
(* The processes, time and other commands.                                 *)

LEMMA AroundEarns ==
  ASSUME IInv, Expire \/ Interfere \/ UNCHANGED vars
  PROVE  IInv'
<1>1. UNCHANGED <<config, file, candidate, pc, check, plan, procs, exit, timedOut, results, ran>>
  BY DEF Expire, Interfere, vars
<1>2. QED
  BY <1>1 DEF IInv, TypeOK, Counted, EarnedSoFar, RanAsPlanned, Running, Ended, Checks, Group, Identity

\* Only strays outlive their check, and they edit nothing.
LEMMA ProcessEarns ==
  ASSUME IInv, NEW p \in procs, Process(p)
  PROVE  IInv'
<1>1. /\ TypeOK /\ Counted /\ check \in Nat
      /\ ToSet(results) \subseteq {"Passed"} => EarnedSoFar
      /\ procs \subseteq [of : Checks, role : {"leader", "member", "stray"}]
      /\ exit \in [Checks -> {"none", "ok", "code", "signal"}]
  BY DEF IInv, TypeOK
<1>2. /\ UNCHANGED <<config, pc, check, plan, timedOut, results, ran>>
      /\ Counted'
  <2>1. UNCHANGED <<config, pc, check, plan, timedOut, results, ran>>
    BY DEF Process, Exit, Fork, Edit
  <2>2. QED
    BY <1>1, <2>1 DEF Counted, Running
<1>3. CASE Exit(p)
  <2>1. /\ procs' = procs \ {p} /\ UNCHANGED <<file, candidate>>
        /\ \/ exit' = exit
           \/ /\ p.role = "leader"
              /\ \E code \in {"ok", "code"} : exit' = [exit EXCEPT ![p.of] = code]
    BY <1>3 DEF Exit
  <2>2. TypeOK'
    BY <1>1, <1>2, <2>1 DEF TypeOK, Checks
  <2>3. ASSUME EarnedSoFar PROVE EarnedSoFar'
    <3>1. p.role = "leader" => p.of = check /\ pc \in Running
      BY <2>3 DEF EarnedSoFar
    <3>2. \A k \in 1 .. check - 1 : exit'[k] = exit[k]
      <4>1. p.role = "leader" => 1 .. check - 1 \subseteq Checks /\ p.of \notin 1 .. check - 1
        BY <1>1, <3>1, EarlierChecks
      <4>2. QED
        BY <1>1, <2>1, <4>1
    <3>3. \A k \in 1 .. check - 1 : exit'[k] = "ok"
      BY <2>3, <3>2 DEF EarnedSoFar
    <3>4. \A q \in procs' : q.role = "stray" \/ (q.of = check /\ pc \in Running)
      BY <2>1, <2>3 DEF EarnedSoFar
    <3>5. pc = "drain" /\ ~timedOut => Group(check)' = {}
      BY <1>2, <2>1, <2>3 DEF EarnedSoFar, Group
    <3>6. QED
      BY <1>2, <2>1, <2>3, <3>3, <3>4, <3>5 DEF EarnedSoFar, RanAsPlanned, Group, Identity
  <2>4. QED
    BY <1>1, <1>2, <2>2, <2>3 DEF IInv
<1>4. CASE \E role \in {"member", "stray"} : Fork(p, role)
  <2>1. PICK role \in {"member", "stray"} : Fork(p, role)
    BY <1>4
  <2>2. /\ p.role = "leader" /\ procs' = procs \cup {[p EXCEPT !.role = role]}
        /\ UNCHANGED <<file, candidate, exit>>
    BY <2>1 DEF Fork
  <2>3. [p EXCEPT !.role = role] \in [of : Checks, role : {"leader", "member", "stray"}]
        /\ [p EXCEPT !.role = role].of = p.of
    BY <1>1
  <2>4. TypeOK'
    BY <1>1, <1>2, <2>2, <2>3 DEF TypeOK, Checks
  <2>5. ASSUME EarnedSoFar PROVE EarnedSoFar'
    <3>1. p.of = check /\ pc \in Running
      BY <2>2, <2>5 DEF EarnedSoFar
    <3>2. p \in Group(check)
      BY <2>2, <3>1 DEF Group
    <3>3. ~(pc = "drain" /\ ~timedOut)
      BY <2>5, <3>2 DEF EarnedSoFar
    <3>4. \A q \in procs' : q.role = "stray" \/ (q.of = check /\ pc \in Running)
      BY <2>2, <2>3, <2>5, <3>1 DEF EarnedSoFar
    <3>5. QED
      BY <1>2, <2>2, <2>5, <3>3, <3>4 DEF EarnedSoFar, RanAsPlanned, Identity
  <2>6. QED
    BY <1>1, <1>2, <2>4, <2>5 DEF IInv
<1>5. CASE Edit(p)
  <2>1. p.role # "stray" /\ UNCHANGED <<procs, exit>>
    BY <1>5 DEF Edit
  <2>2. TypeOK'
    BY <1>1, <1>2, <2>1 DEF TypeOK, Checks
  <2>3. ASSUME EarnedSoFar PROVE EarnedSoFar'
    <3>1. pc \in Running
      BY <2>1, <2>3 DEF EarnedSoFar
    <3>2. pc \notin {"compare", "spawn"}
      BY <3>1 DEF Running
    <3>3. QED
      BY <1>2, <2>1, <2>3, <3>2 DEF EarnedSoFar, RanAsPlanned, Group
  <2>4. QED
    BY <1>1, <1>2, <2>2, <2>3 DEF IInv
<1>6. QED
  BY <1>3, <1>4, <1>5 DEF Process

-----------------------------------------------------------------------------
(* The theorems.                                                           *)

\* What a passed evaluation is worth is kept by every step: of the command, of the
\* processes of its checks, of time and of other commands.
THEOREM IInvInductive == /\ Init => IInv
                         /\ IInv /\ [Next]_vars => IInv'
<1>1. ASSUME IInv, [Next]_vars PROVE IInv'
  <2>1. CASE Engine
    BY <1>1, <2>1, PlanEarns, QuietEarns, CompareEarns, SpawnEarns, TerminateEarns, DrainEarns
       DEF Engine
  <2>2. CASE Break
    BY <1>1, <2>2, BreakEarns
  <2>3. CASE Expire \/ Interfere \/ UNCHANGED vars
    BY <1>1, <2>3, AroundEarns
  <2>4. CASE pc \notin Ended /\ \E p \in procs : Process(p)
    BY <1>1, <2>4, ProcessEarns
  <2>5. QED
    BY <1>1, <2>1, <2>2, <2>3, <2>4 DEF Next
<1>2. QED
  BY <1>1, InitEarns

\* The strengthened invariant holds in every reachable state.
THEOREM IInvHolds == Spec => []IInv
<1>1. Init => IInv
  BY IInvInductive
<1>2. IInv /\ [Next]_vars => IInv'
  BY IInvInductive
<1>3. QED
  BY <1>1, <1>2, PTL DEF Spec

\* Types are kept by every step.
THEOREM TypeHolds == Spec => []TypeOK
<1>1. IInv => TypeOK
  BY DEF IInv
<1>2. QED
  BY <1>1, IInvHolds, PTL

\* Whoever reads a passed evaluation may rely on it: every check was spawned from the
\* executable that was planned, on the candidate that was verified, and succeeded by
\* itself, for any configuration, file system, number of checks, edits and failed calls.
THEOREM PassHolds == Spec => []PassIsEarned
<1>1. IInv => PassIsEarned
  <2> SUFFICES ASSUME IInv, pc = "passed"
               PROVE  /\ Len(results) = Len(plan) /\ Len(ran) = Len(plan)
                      /\ \A k \in Checks : RanAsPlanned(k) /\ exit[k] = "ok" /\ Group(k) = {}
    BY DEF PassIsEarned
  <2>1. /\ config \in Configs /\ check \in Nat /\ Len(results) = check - 1
        /\ Len(plan) = Len(config.required) /\ check = Len(plan) + 1
        /\ ToSet(results) \subseteq {"Passed"} /\ EarnedSoFar
    BY DEF IInv, TypeOK, Counted
  <2>2. /\ Len(plan) \in Nat /\ Checks = 1 .. Len(plan)
    BY <2>1, PlanLength
  <2>3. /\ Len(ran) = check - 1
        /\ \A k \in 1 .. Len(ran) : RanAsPlanned(k)
        /\ \A k \in 1 .. check - 1 : exit[k] = "ok"
        /\ \A p \in procs : p.role = "stray"
    BY <2>1 DEF EarnedSoFar, Running
  <2>4. \A k \in Checks : Group(k) = {}
    BY <2>3 DEF Group
  <2>5. Len(ran) = Len(plan) /\ check - 1 = Len(plan)
    BY <2>1, <2>2, <2>3
  <2>6. QED
    BY <2>1, <2>2, <2>3, <2>4, <2>5
<1>2. QED
  BY <1>1, IInvHolds, PTL

-----------------------------------------------------------------------------
(* RoleChain: finite sets of naturals.                                     *)

LEMMA SmallestSubset ==
  ASSUME NEW U, IsFiniteSet(U), NEW F \in SUBSET (SUBSET U), F # {}
  PROVE  \E T \in F : \A V \in F : V \subseteq T => V = T
<1> DEFINE R == StrictSubsetOrdering(U)
<1>1. IsWellFoundedOn(R, FiniteSubsetsOf(U))
  BY FS_StrictSubsetOrderingWellFounded
<1>2. F \subseteq FiniteSubsetsOf(U)
  BY FS_FiniteSubsetsOfFinite
<1>3. \E x \in F : \A y \in F : ~ (<<y, x>> \in R)
  <2> HIDE DEF R
  <2> QED BY <1>1, <1>2, WFMin
<1>4. PICK T \in F : \A y \in F : ~ (<<y, T>> \in R)
  BY <1>3
<1>5. \A V \in F : V \subseteq T => V = T
  BY <1>4 DEF StrictSubsetOrdering
<1> QED BY <1>5

\* A finite set of natural numbers has a largest member.
LEMMA MaxIs ==
  ASSUME NEW S, IsFiniteSet(S), S # {}
  PROVE  S \subseteq Nat => Max(S) \in S /\ \A m \in S : m <= Max(S)
<1> DEFINE Bounded(T) == \E n \in T : \A m \in T : m <= n
           F == {T \in SUBSET S : T # {} /\ T \subseteq Nat /\ ~Bounded(T)}
<1>1. S \subseteq Nat => Bounded(S)
  <2> SUFFICES ASSUME F # {} PROVE FALSE
    OBVIOUS
  <2>1. F \in SUBSET (SUBSET S)
    OBVIOUS
  <2>2. PICK T \in F : \A V \in F : V \subseteq T => V = T
    <3> HIDE DEF F
    <3> QED BY <2>1, SmallestSubset
  <2>3. PICK x \in T : TRUE
    OBVIOUS
  <2>4. T \ {x} = {} \/ Bounded(T \ {x})
    BY <2>2, T \ {x} \notin F
  <2>5. CASE T \ {x} = {}
    BY <2>5, \A m \in T : m = x
  <2>6. CASE Bounded(T \ {x})
    <3>1. PICK n \in T \ {x} : \A m \in T \ {x} : m <= n
      BY <2>6
    <3>2. x \in Nat /\ n \in Nat /\ T \subseteq Nat
      OBVIOUS
    <3>3. CASE n <= x
      BY <3>1, <3>2, <3>3, \A m \in T : m <= x
    <3>4. CASE x <= n
      BY <3>1, <3>2, <3>4, \A m \in T : m <= n
    <3> QED BY <3>2, <3>3, <3>4
  <2> QED BY <2>4, <2>5, <2>6
<1>2. S \subseteq Nat => \E n \in S : \A m \in S : n >= m
  BY <1>1
<1> QED BY <1>2 DEF Max

\* A set of natural numbers has a smallest member.
LEMMA MinIs ==
  ASSUME NEW S \in SUBSET Nat, S # {}
  PROVE  Min(S) \in S /\ \A m \in S : Min(S) <= m
<1> DEFINE R == OpToRel(<, Nat)
<1>1. IsWellFoundedOn(R, Nat)
  BY NatLessThanWellFounded
<1>2. \E x \in S : \A y \in S : ~ (<<y, x>> \in R)
  BY <1>1, WFMin
<1>3. PICK m \in S : \A y \in S : ~ (<<y, m>> \in R)
  BY <1>2
<1>4. \A y \in S : ~(y < m)
  BY <1>3 DEF OpToRel
<1>5. \A y \in S : m =< y
  BY <1>4
<1> QED BY <1>5 DEF Min

(* The order of the steps.                                                 *)

LEMMA StepsAre ==
  /\ StepNames \subseteq DOMAIN Rank
  /\ {"spec_creation", "spec_review", "development", "output_review"} \subseteq StepNames
  /\ \A s \in StepNames : Rank[s] \in Nat
  /\ \A s, t \in StepNames : Rank[s] = Rank[t] => s = t
<1>1. StepNames \subseteq DOMAIN Rank
  BY StepsAssumption DEF StepNames, ToSet
<1>2. \A s, t \in DOMAIN Rank : Rank[s] \in Nat /\ (Rank[s] = Rank[t] => s = t)
  BY DEF Rank
<1> QED BY <1>1, <1>2, StepsAssumption

LEMMA PosIs ==
  ASSUME NEW s \in StepNames
  PROVE  PosOf(s) \in DOMAIN Steps /\ Steps[PosOf(s)] = s
BY DEF PosOf, StepNames, ToSet

LEMMA PosOrder ==
  ASSUME NEW s \in StepNames, NEW t \in StepNames
  PROVE  /\ PosOf(s) < PosOf(t) <=> Rank[s] < Rank[t]
         /\ PosOf(s) <= PosOf(t) <=> Rank[s] <= Rank[t]
         /\ PosOf(s) >= PosOf(t) <=> Rank[s] >= Rank[t]
<1> DEFINE i == PosOf(s)
           j == PosOf(t)
<1>1. /\ i \in DOMAIN Steps /\ Steps[i] = s
      /\ j \in DOMAIN Steps /\ Steps[j] = t
  BY PosIs
<1>2. DOMAIN Steps \subseteq Nat
  BY StepsAssumption
<1>3. /\ i < j => Rank[s] < Rank[t]
      /\ j < i => Rank[t] < Rank[s]
  BY <1>1, StepsAssumption
<1>4. i \in Nat /\ j \in Nat /\ Rank[s] \in Nat /\ Rank[t] \in Nat
  BY <1>1, <1>2, StepsAre
<1>5. i = j => s = t
  BY <1>1
<1> HIDE DEF i, j
<1>6. i = j => Rank[s] = Rank[t]
  BY <1>5
<1> QED BY <1>3, <1>4, <1>6 DEF i, j

\* The next step of a run is its first that is not done.
LEMMA NextStepIs ==
  ASSUME NEW r, NEW s, s = NextStep(r)
  PROVE  \/ s = NoStep /\ \A t \in StepNames : r.st[t] \notin Open
         \/ /\ s \in StepNames /\ s # NoStep /\ r.st[s] \in Open
            /\ \A t \in StepNames : Rank[t] < Rank[s] => r.st[t] \notin Open
<1> DEFINE open == {k \in DOMAIN Steps : r.st[Steps[k]] \in {"pending", "running"}}
<1>1. s = IF open = {} THEN NoStep ELSE Steps[Min(open)]
  BY DEF NextStep
<1>2. open \in SUBSET Nat
  BY StepsAssumption
<1>3. CASE open = {}
  BY <1>1, <1>3 DEF StepNames, ToSet, Open
<1>4. CASE open # {}
  <2>1. Min(open) \in open /\ \A k \in open : Min(open) <= k
    <3> HIDE DEF open
    <3> QED BY <1>2, <1>4, MinIs
  <2> DEFINE m == Min(open)
  <2>2. s = Steps[m] /\ m \in DOMAIN Steps /\ r.st[s] \in Open
    BY <1>1, <1>4, <2>1 DEF Open
  <2>3. s \in StepNames
    BY <2>2 DEF StepNames, ToSet
  <2>4. s # NoStep
    BY <2>3, StepsAre DEF NoStep, Rank
  <2>5. ASSUME NEW t \in StepNames, Rank[t] < Rank[s], r.st[t] \in Open PROVE FALSE
    <3>1. PICK k \in DOMAIN Steps : Steps[k] = t
      BY DEF StepNames, ToSet
    <3>2. k \in open
      BY <3>1, <2>5 DEF Open
    <3>3. m <= k
      BY <3>2, <2>1
    <3>4. m \in Nat /\ k \in Nat
      BY <2>2, <3>1, StepsAssumption
    <3>5. m < k => Rank[s] < Rank[t]
      BY <2>2, <3>1, StepsAssumption
    <3>6. Rank[s] \in Nat /\ Rank[t] \in Nat
      BY <2>3, StepsAre
    <3> HIDE DEF m
    <3>7. m = k => s = t
      BY <2>2, <3>1
    <3> QED BY <3>3, <3>4, <3>5, <3>6, <3>7, <2>5
  <2> QED BY <2>2, <2>3, <2>4, <2>5
<1> QED BY <1>3, <1>4

\* A file that is there stays as it is.
FilesKept ==
  /\ DOMAIN files \subseteq DOMAIN files'
  /\ \A f \in DOMAIN files : files'[f] = files[f]

LEMMA PublishIs ==
  ASSUME NEW key, NEW content, Free(key, content), Publish(key, content)
  PROVE  /\ FilesKept /\ DOMAIN files' = DOMAIN files \cup {key} /\ files'[key] = content
         /\ IsFiniteSet(DOMAIN files) => IsFiniteSet(DOMAIN files')
<1>1. files' = [f \in DOMAIN files \cup {key} |-> IF f = key THEN content ELSE files[f]]
  BY DEF Publish, With
<1>2. DOMAIN files' = DOMAIN files \cup {key} /\ files'[key] = content
  BY <1>1
<1>3. FilesKept
  BY <1>1 DEF FilesKept, Free
<1>4. IsFiniteSet(DOMAIN files) => IsFiniteSet(DOMAIN files')
  BY <1>2, FS_AddElement
<1> QED BY <1>2, <1>3, <1>4

LEMMA FiniteImage ==
  ASSUME NEW S, IsFiniteSet(S), NEW f
  PROVE  IsFiniteSet({f[x] : x \in S})
<1> DEFINE T == {f[x] : x \in S}
           g == [x \in S |-> f[x]]
<1>1. g \in Surjection(S, T)
  BY DEF Surjection
<1> HIDE DEF g, T
<1> QED BY <1>1, FS_Surjection DEF T

LEMMA LedgerIs ==
  RunIsTyped =>
    /\ Len(run.ledger) \in Nat /\ DOMAIN run.ledger = 1 .. Len(run.ledger)
    /\ IsFiniteSet(DOMAIN run.ledger)
    /\ \A k \in DOMAIN run.ledger : run.ledger[k] \in ToSet(run.ledger)
<1> SUFFICES ASSUME RunIsTyped PROVE
      /\ Len(run.ledger) \in Nat /\ DOMAIN run.ledger = 1 .. Len(run.ledger)
      /\ IsFiniteSet(DOMAIN run.ledger)
      /\ \A k \in DOMAIN run.ledger : run.ledger[k] \in ToSet(run.ledger)
  OBVIOUS
<1>1. run.ledger \in Seq(ToSet(run.ledger))
  BY DEF RunIsTyped
<1>2. Len(run.ledger) \in Nat /\ DOMAIN run.ledger = 1 .. Len(run.ledger)
  BY <1>1
<1>3. IsFiniteSet(1 .. Len(run.ledger))
  BY <1>2, FS_Interval
<1> QED BY <1>2, <1>3 DEF ToSet

\* The last place of a step in the ledger.
LEMMA LastAskedIs ==
  RunIsTyped => \A s :
    /\ LastAsked(s) \in Nat /\ LastAsked(s) <= Len(run.ledger)
    /\ LastAsked(s) > 0 => LastAsked(s) \in DOMAIN run.ledger /\ run.ledger[LastAsked(s)].step = s
    /\ \A k \in DOMAIN run.ledger : run.ledger[k].step = s => k <= LastAsked(s)
<1> SUFFICES ASSUME RunIsTyped, NEW s PROVE
      /\ LastAsked(s) \in Nat /\ LastAsked(s) <= Len(run.ledger)
      /\ LastAsked(s) > 0 => LastAsked(s) \in DOMAIN run.ledger /\ run.ledger[LastAsked(s)].step = s
      /\ \A k \in DOMAIN run.ledger : run.ledger[k].step = s => k <= LastAsked(s)
  OBVIOUS
<1> DEFINE S == {0} \cup {k \in DOMAIN run.ledger : run.ledger[k].step = s}
<1>1. /\ Len(run.ledger) \in Nat /\ DOMAIN run.ledger = 1 .. Len(run.ledger)
      /\ IsFiniteSet(DOMAIN run.ledger)
  BY LedgerIs
<1>2. S \subseteq Nat /\ S # {}
  BY <1>1
<1>3. IsFiniteSet(S)
  <2>1. {k \in DOMAIN run.ledger : run.ledger[k].step = s} \subseteq DOMAIN run.ledger
    OBVIOUS
  <2>2. IsFiniteSet({k \in DOMAIN run.ledger : run.ledger[k].step = s})
    BY <1>1, <2>1, FS_Subset
  <2> QED BY <2>2, FS_AddElement, FS_EmptySet, FS_Union, FS_Singleton
<1>4. LastAsked(s) = Max(S)
  BY DEF LastAsked
<1>5. LastAsked(s) \in S /\ \A m \in S : m <= LastAsked(s)
  <2> HIDE DEF S
  <2> QED BY <1>2, <1>3, <1>4, MaxIs
<1> QED BY <1>1, <1>2, <1>5

LEMMA LastAskedIsPrimed ==
  (RunIsTyped => \A s :
    /\ LastAsked(s) \in Nat /\ LastAsked(s) <= Len(run.ledger)
    /\ LastAsked(s) > 0 => LastAsked(s) \in DOMAIN run.ledger /\ run.ledger[LastAsked(s)].step = s
    /\ \A k \in DOMAIN run.ledger : run.ledger[k].step = s => k <= LastAsked(s))'
BY LastAskedIs, PTL

LEMMA SameLedger ==
  ASSUME run'.ledger = run.ledger
  PROVE  \A s : LastAsked(s)' = LastAsked(s)
BY DEF LastAsked

\* Another record at the end of the ledger.
LEMMA LedgerAppended ==
  ASSUME RunIsTyped, NEW e, run'.ledger = Append(run.ledger, e)
  PROVE  LET n == Len(run.ledger)
         IN  /\ n \in Nat /\ DOMAIN run.ledger = 1 .. n
             /\ Len(run'.ledger) = n + 1 /\ DOMAIN run'.ledger = 1 .. n + 1
             /\ run'.ledger \in Seq(ToSet(run'.ledger))
             /\ \A k \in 1 .. n : run'.ledger[k] = run.ledger[k]
             /\ run'.ledger[n + 1] = e
             /\ RunIsTyped' => \A s : LastAsked(s)' = IF s = e.step THEN n + 1 ELSE LastAsked(s)
<1> DEFINE n == Len(run.ledger)
<1>1. PICK l, m : l = run.ledger /\ m = Append(l, e) /\ m = run'.ledger
  OBVIOUS
<1>2. l \in Seq(ToSet(l))
  BY <1>1 DEF RunIsTyped
<1>3. /\ m \in Seq(ToSet(m)) /\ Len(l) \in Nat /\ Len(m) = Len(l) + 1
      /\ \A k \in 1 .. Len(l) : m[k] = l[k]
      /\ m[Len(l) + 1] = e
  BY <1>1, <1>2, Appended
<1>4. DOMAIN l = 1 .. Len(l) /\ DOMAIN m = 1 .. Len(l) + 1
  BY <1>2, <1>3
<1>5. ASSUME RunIsTyped', NEW s PROVE LastAsked(s)' = IF s = e.step THEN n + 1 ELSE LastAsked(s)
  <2> DEFINE a == LastAsked(s)
             b == LastAsked(s)'
  <2>1. /\ a \in Nat /\ a <= Len(l) /\ (a > 0 => a \in DOMAIN l /\ l[a].step = s)
        /\ \A k \in DOMAIN l : l[k].step = s => k <= a
    BY <1>1, LastAskedIs
  <2>2. /\ b \in Nat /\ b <= Len(m) /\ (b > 0 => b \in DOMAIN m /\ m[b].step = s)
        /\ \A k \in DOMAIN m : m[k].step = s => k <= b
    BY <1>1, <1>5, LastAskedIsPrimed
  <2> HIDE DEF a, b
  <2>3. CASE s = e.step
    BY <1>1, <1>3, <1>4, <2>2, <2>3 DEF b
  <2>4. CASE s # e.step
    <3>1. b # Len(l) + 1
      BY <1>3, <2>2, <2>4
    <3>2. b > 0 => b <= a
      BY <1>3, <1>4, <2>1, <2>2, <3>1
    <3>3. a > 0 => a <= b
      BY <1>3, <1>4, <2>1, <2>2
    <3> QED BY <2>1, <2>2, <2>4, <3>2, <3>3 DEF a, b
  <2> QED BY <2>3, <2>4
<1> QED BY <1>1, <1>3, <1>4, <1>5

\* The records of an attempt.
LEMMA EntriesAre ==
  RunIsTyped =>
    /\ Entries \subseteq DOMAIN run.ledger
    /\ \A k \in Entries : run.ledger[k].step = proc.step /\ run.ledger[k].attempt = proc.attempt
    /\ \A k \in DOMAIN run.ledger :
         run.ledger[k].step = proc.step /\ run.ledger[k].attempt = proc.attempt => k \in Entries
    /\ Entries # {} => FirstEntry \in {run.ledger[k] : k \in Entries}
    /\ Entries # {} /\ AtTheEnd =>
         LastEntry = run.ledger[Len(run.ledger)] /\ Len(run.ledger) \in Entries
<1> SUFFICES ASSUME RunIsTyped PROVE
    /\ Entries \subseteq DOMAIN run.ledger
    /\ \A k \in Entries : run.ledger[k].step = proc.step /\ run.ledger[k].attempt = proc.attempt
    /\ \A k \in DOMAIN run.ledger :
         run.ledger[k].step = proc.step /\ run.ledger[k].attempt = proc.attempt => k \in Entries
    /\ Entries # {} => FirstEntry \in {run.ledger[k] : k \in Entries}
    /\ Entries # {} /\ AtTheEnd =>
         LastEntry = run.ledger[Len(run.ledger)] /\ Len(run.ledger) \in Entries
  OBVIOUS
<1>1. /\ Len(run.ledger) \in Nat /\ DOMAIN run.ledger = 1 .. Len(run.ledger)
      /\ IsFiniteSet(DOMAIN run.ledger)
  BY LedgerIs
<1>2. /\ Entries \subseteq DOMAIN run.ledger
      /\ \A k \in Entries : run.ledger[k].step = proc.step /\ run.ledger[k].attempt = proc.attempt
      /\ \A k \in DOMAIN run.ledger :
           run.ledger[k].step = proc.step /\ run.ledger[k].attempt = proc.attempt => k \in Entries
  BY DEF Entries, RecordsOf
<1>3. Entries # {} => Min(Entries) \in Entries
  <2>1. Entries \in SUBSET Nat
    BY <1>1, <1>2
  <2> QED BY <2>1, MinIs
<1>4. ASSUME Entries # {}, AtTheEnd
      PROVE  LastEntry = run.ledger[Len(run.ledger)] /\ Len(run.ledger) \in Entries
  <2>1. IsFiniteSet(Entries) /\ Entries \subseteq Nat
    BY <1>1, <1>2, FS_Subset
  <2>2. Max(Entries) \in Entries /\ \A m \in Entries : m <= Max(Entries)
    BY <2>1, <1>4, MaxIs
  <2>3. Len(run.ledger) \in Entries
    BY <1>4 DEF AtTheEnd
  <2>4. Max(Entries) = Len(run.ledger)
    BY <1>1, <1>2, <2>2, <2>3
  <2> QED BY <2>3, <2>4 DEF LastEntry
<1> QED BY <1>2, <1>3, <1>4 DEF FirstEntry

\* The latest prompt of a step, and that there is none later.
LEMMA LatestPromptIs ==
  RunIsTyped => \A s :
    /\ LatestPrompt(s) \in Nat
    /\ \A a : <<"prompt", s, a>> \in DOMAIN files => a <= LatestPrompt(s) /\ a \in Nat
<1> SUFFICES ASSUME RunIsTyped, NEW s PROVE
    /\ LatestPrompt(s) \in Nat
    /\ \A a : <<"prompt", s, a>> \in DOMAIN files => a <= LatestPrompt(s) /\ a \in Nat
  OBVIOUS
<1> DEFINE G == {g \in DOMAIN files : g[1] = "prompt" /\ g[2] = s}
           T == {f[3] : f \in G}
           S == PromptAttempts(s)
<1>1. S = {0} \cup T
  BY DEF PromptAttempts
<1>2. G \subseteq DOMAIN files /\ IsFiniteSet(DOMAIN files)
  BY DEF RunIsTyped
<1>3. IsFiniteSet(G)
  <2> HIDE DEF G
  <2> QED BY <1>2, FS_Subset
<1>4. IsFiniteSet(T)
  <2> DEFINE f == [x \in G |-> x[3]]
  <2>1. T = {f[x] : x \in G}
    OBVIOUS
  <2> HIDE DEF G, T, f
  <2> QED BY <1>3, <2>1, FiniteImage
<1>5. T \subseteq Nat
  BY DEF RunIsTyped
<1>6. IsFiniteSet(S) /\ S # {} /\ S \subseteq Nat
  <2> HIDE DEF T, S
  <2> QED BY <1>1, <1>4, <1>5, FS_AddElement, FS_Union, FS_Singleton
<1>7. Max(S) \in S /\ \A m \in S : m <= Max(S)
  <2> HIDE DEF S
  <2> QED BY <1>6, MaxIs
<1>8. LatestPrompt(s) = Max(S)
  BY DEF LatestPrompt
<1>9. ASSUME NEW a, <<"prompt", s, a>> \in DOMAIN files PROVE a \in S
  <2>1. <<"prompt", s, a>> \in G /\ <<"prompt", s, a>>[3] = a
    BY <1>9
  <2> QED BY <2>1, <1>1
<1> QED
  <2> HIDE DEF S
  <2> QED BY <1>6, <1>7, <1>8, <1>9

\* The latest attempt in the ledger.
LEMMA DurableIs ==
  ASSUME RunIsTyped, NEW r, r.ledger = run.ledger, NEW s,
         \A k \in DOMAIN run.ledger : run.ledger[k].attempt \in Nat \ {0}
  PROVE  /\ Durable(r, s) \in Nat
         /\ \A k \in DOMAIN run.ledger :
              run.ledger[k].step = s => run.ledger[k].attempt <= Durable(r, s)
<1> DEFINE G == {j \in DOMAIN r.ledger : r.ledger[j].step = s}
           T == {r.ledger[k].attempt : k \in G}
           S == DurableAttempts(r, s)
<1>1. S = {0} \cup T
  BY DEF DurableAttempts
<1>2. G \subseteq DOMAIN run.ledger /\ IsFiniteSet(DOMAIN run.ledger)
  BY LedgerIs
<1>3. IsFiniteSet(G)
  <2> HIDE DEF G
  <2> QED BY <1>2, FS_Subset
<1>4. IsFiniteSet(T)
  <2> DEFINE f == [x \in G |-> r.ledger[x].attempt]
  <2>1. T = {f[x] : x \in G}
    OBVIOUS
  <2> HIDE DEF G, T, f
  <2> QED BY <1>3, <2>1, FiniteImage
<1>5. T \subseteq Nat
  OBVIOUS
<1>6. IsFiniteSet(S) /\ S # {} /\ S \subseteq Nat
  <2> HIDE DEF T, S
  <2> QED BY <1>1, <1>4, <1>5, FS_AddElement, FS_Union, FS_Singleton
<1>7. Max(S) \in S /\ \A m \in S : m <= Max(S)
  <2> HIDE DEF S
  <2> QED BY <1>6, MaxIs
<1>8. Durable(r, s) = Max(S)
  BY DEF Durable
<1>9. ASSUME NEW k \in DOMAIN run.ledger, run.ledger[k].step = s PROVE run.ledger[k].attempt \in S
  BY <1>1, <1>9
<1> QED
  <2> HIDE DEF S
  <2> QED BY <1>6, <1>7, <1>8, <1>9

(* Steps that leave run.json alone.                                        *)

FilesTyped == IsFiniteSet(DOMAIN files) /\ \A f \in DOMAIN files : f[3] \in Nat

LEMMA ThereStays ==
  ASSUME RunIsTyped, StepsInOrder, FilesKept, NEW s \in StepNames, run.st[s] \in Terminal,
         run'.art[s] = run.art[s]
  PROVE  Standing(s)' = Standing(s) /\ Answer(s)' = Answer(s)
BY DEF StepsInOrder, FilesKept, Standing, Answer

LEMMA OnFileStays ==
  ASSUME FilesKept, NEW a, NEW d, OnFile(a, d)
  PROVE  OnFile(a, d)'
BY DEF OnFile, FilesKept, Clears

LEMMA NeedsAre ==
  \A s \in StepNames : Needs(s) \subseteq StepNames /\ \A t \in Needs(s) : Rank[t] < Rank[s]
<1>1. \A s \in DOMAIN Rank : \A t \in Prerequisites[s] : Rank[t] < Rank[s]
  BY DEF Rank, Prerequisites
<1> QED BY <1>1, StepsAre DEF Needs

LEMMA SameRun ==
  ASSUME DiskInv, run' = run, FilesKept, FilesTyped'
  PROVE  DiskInv'
<1>1. RunIsTyped /\ StepsInOrder /\ LedgerHolds /\ PatchIsDecided /\ AwaitsApproval
  BY DEF DiskInv
<1>2. RunIsTyped'
  BY <1>1 DEF RunIsTyped, FilesTyped
<1>3. StepsInOrder'
  BY <1>1 DEF StepsInOrder, FilesKept
<1>4. LedgerHolds'
  <2>1. \A s : LastAsked(s)' = LastAsked(s)
    BY SameLedger
  <2>2. \A s \in StepNames : run.st[s] \in Terminal => Standing(s)' = Standing(s)
    BY <1>1, ThereStays
  <2>3. \A k \in DOMAIN run.ledger : run.ledger[k].step \in StepNames
    BY <1>1 DEF LedgerHolds, IsEntry
  <2>4. \A k \in DOMAIN run.ledger : Needs(run.ledger[k].step) \subseteq StepNames
    BY <2>3, NeedsAre
  <2> QED BY <1>1, <2>1, <2>2, <2>4 DEF LedgerHolds, FilesKept, Initials
<1>5. PatchIsDecided'
  <2>1. run.st["development"] = "completed" => OnFile(run.art["development"], run.decision)'
    BY <1>1, OnFileStays DEF PatchIsDecided
  <2> QED BY <1>1, <2>1 DEF PatchIsDecided
<1>6. AwaitsApproval'
  BY <1>1, ThereStays, StepsAre DEF AwaitsApproval
<1> QED BY <1>2, <1>3, <1>4, <1>5, <1>6 DEF DiskInv

LEMMA PublishTyped ==
  ASSUME RunIsTyped, NEW key, NEW content, Free(key, content), Publish(key, content), key[3] \in Nat
  PROVE  FilesKept /\ FilesTyped'
<1>1. /\ FilesKept /\ DOMAIN files' = DOMAIN files \cup {key}
      /\ IsFiniteSet(DOMAIN files) => IsFiniteSet(DOMAIN files')
  BY PublishIs
<1> QED BY <1>1 DEF RunIsTyped, FilesTyped

LEMMA SameFiles ==
  ASSUME RunIsTyped, UNCHANGED files
  PROVE  FilesKept /\ FilesTyped'
BY DEF RunIsTyped, FilesTyped, FilesKept

\* A process that ends keeps nothing.
LEMMA IdleHolds ==
  ASSUME proc' = Idle
  PROVE  ProcInv'
BY DEF Idle, ProcInv, ProcIsTyped, MemoryStands, StepIsRunning, AttemptIsLast, NextStands,
       GateStands, OutputStands, AtWork

LEMMA MemoryStays ==
  ASSUME DiskInv, MemoryStands, run' = run, FilesKept, proc.pc # "idle", proc'.early = proc.early
  PROVE  MemoryStands'
<1>1. SUFFICES ASSUME run.status \in Open, NEW t \in EarlySteps, run.st[t] \in Terminal
               PROVE  /\ t \in DOMAIN proc.early
                      /\ proc.early[t] = [path |-> proc.early[t].path, response |-> Standing(t)']
  BY DEF MemoryStands
<1>2. t \in StepNames
  BY DEF EarlySteps
<1>3. Standing(t)' = Standing(t)
  BY <1>1, <1>2, ThereStays DEF DiskInv
<1> QED BY <1>1, <1>3 DEF MemoryStands

(* Folds, by minimal counterexample.                                       *)

\* Induction up to a bound without a predicate for a parameter.
LEMMA UpTo ==
  ASSUME NEW n \in Nat, NEW P, 0 \in P, \A m \in 0 .. n : m < n /\ m \in P => m + 1 \in P
  PROVE  \A m \in 0 .. n : m \in P
<1> DEFINE F == {m \in 0 .. n : m \notin P}
<1> SUFFICES ASSUME F # {} PROVE FALSE
  OBVIOUS
<1>1. F \in SUBSET Nat
  OBVIOUS
<1>2. Min(F) \in F /\ \A m \in F : Min(F) <= m
  <2> HIDE DEF F
  <2> QED BY <1>1, MinIs
<1>3. PICK m \in F : \A k \in F : m <= k
  BY <1>2
<1>4. m # 0 /\ m - 1 \in 0 .. n /\ m - 1 < n /\ m - 1 + 1 = m
  BY <1>3
<1>5. m - 1 \in P
  BY <1>3, <1>4
<1> QED BY <1>3, <1>4, <1>5

\* The largest of the first numbers, and of some of them.
LEMMA MaxUpTo ==
  ASSUME NEW n \in Nat, NEW s \in SUBSET (1 .. n)
  PROVE  /\ n \in s => Max(s) = n
         /\ s # {} => Max(s) \in s
<1>1. s \subseteq Nat /\ IsFiniteSet(s)
  <2>1. \A S, T : IsFiniteSet(S) /\ T \subseteq S => IsFiniteSet(T)
    BY FS_Subset
  <2>2. IsFiniteSet(1 .. n)
    BY FS_Interval
  <2>3. IsFiniteSet(s)
    BY <2>1, <2>2, Zenon
  <2> QED BY <2>3
<1>2. s # {} => Max(s) \in s /\ \A m \in s : m <= Max(s)
  BY <1>1, MaxIs
<1>3. ASSUME n \in s PROVE Max(s) = n
  <2>1. Max(s) \in 1 .. n /\ n <= Max(s)
    BY <1>2, <1>3
  <2> QED BY <2>1
<1> QED BY <1>2, <1>3

Start == [error |-> "", file |-> NoFile, files |-> 0, paths |-> {}, binary |-> FALSE]

LEMMA ParseFolds ==
  ASSUME NEW d, Len(d) \in Nat, DOMAIN d = 1 .. Len(d)
  PROVE  \E h : /\ h[0] = Start
                /\ \A k \in 1 .. Len(d) : h[k] = ParseLine(h[k - 1], d[k])
                /\ FoldLeft(ParseLine, Start, d) = h[Len(d)]
<1> DEFINE n == Len(d)
           Iter(g, m) == g = [s \in SUBSET (1 .. m) |->
                                IF s = {} THEN Start
                                ELSE ParseLine(g[s \ {Max(s)}], d[Max(s)])]
           P == {m \in 0 .. n : \E g : Iter(g, m)}
<1>1. 0 \in P
  <2> DEFINE g == [s \in SUBSET (1 .. 0) |-> Start]
  <2>1. 1 .. 0 = {}
    OBVIOUS
  <2>2. \A s \in SUBSET (1 .. 0) : s = {}
    BY <2>1
  <2>3. g = [s \in SUBSET (1 .. 0) |->
               IF s = {} THEN Start ELSE ParseLine(g[s \ {Max(s)}], d[Max(s)])]
    BY <2>2
  <2>4. 0 \in 0 .. n
    OBVIOUS
  <2> QED BY <2>3, <2>4
<1>2. ASSUME NEW m \in 0 .. n, m < n, m \in P PROVE m + 1 \in P
  <2>1. PICK g : Iter(g, m)
    BY <1>2
  <2> DEFINE M == 1 .. m + 1
             f == [s \in SUBSET M |-> IF m + 1 \in s THEN ParseLine(g[s \ {m + 1}], d[m + 1]) ELSE g[s]]
  <2>2. ASSUME NEW s \in SUBSET M, m + 1 \in s
        PROVE  f[s] = ParseLine(f[s \ {Max(s)}], d[Max(s)])
    <3>1. Max(s) = m + 1
      BY <2>2, MaxUpTo
    <3>2. f[s \ {m + 1}] = g[s \ {m + 1}]
      OBVIOUS
    <3> QED BY <2>2, <3>1, <3>2
  <2>3. ASSUME NEW s \in SUBSET M, m + 1 \notin s
        PROVE  f[s] = IF s = {} THEN Start ELSE ParseLine(f[s \ {Max(s)}], d[Max(s)])
    <3>1. s \in SUBSET (1 .. m)
      BY <2>3
    <3>2. f[s] = g[s]
      BY <2>3
    <3>3. f[s \ {Max(s)}] = g[s \ {Max(s)}]
      BY <2>3
    <3>4. g[s] = IF s = {} THEN Start ELSE ParseLine(g[s \ {Max(s)}], d[Max(s)])
      <4> HIDE DEF f
      <4> QED BY <2>1, <3>1
    <3> HIDE DEF f
    <3> QED BY <3>2, <3>3, <3>4
  <2>4. \A s \in SUBSET M : f[s] = IF s = {} THEN Start ELSE ParseLine(f[s \ {Max(s)}], d[Max(s)])
    <3> HIDE DEF f
    <3> QED BY <2>2, <2>3
  <2>5. f = [s \in SUBSET M |-> f[s]]
    OBVIOUS
  <2>6. Iter(f, m + 1)
    <3> HIDE DEF f
    <3> QED BY <2>4, <2>5
  <2>7. m + 1 \in 0 .. n
    BY <1>2
  <2> HIDE DEF f, Iter
  <2> QED BY <2>6, <2>7
<1>3. n \in P
  <2>1. \A m \in 0 .. n : m < n /\ m \in P => m + 1 \in P
    BY <1>2
  <2>2. n \in Nat /\ n \in 0 .. n
    OBVIOUS
  <2> HIDE DEF P, n
  <2>3. \A m \in 0 .. n : m \in P
    BY <1>1, <2>1, <2>2, UpTo
  <2> QED BY <2>2, <2>3
<1> DEFINE iter == CHOOSE g : Iter(g, n)
<1>4. Iter(iter, n)
  <2> HIDE DEF Iter
  <2> QED BY <1>3
<1>5. FoldLeft(ParseLine, Start, d) = iter[1 .. n]
  BY DEF FoldLeft, MapThenFoldSet
<1> DEFINE h == [k \in 0 .. n |-> iter[1 .. k]]
<1>6. h[0] = Start
  <2>1. 1 .. 0 = {} /\ {} \in SUBSET (1 .. n) /\ 0 \in 0 .. n
    OBVIOUS
  <2>2. iter[{}] = Start
    <3> HIDE DEF iter
    <3> QED BY <1>4, <2>1
  <2>3. h[0] = iter[1 .. 0]
    <3> HIDE DEF iter
    <3> QED BY <2>1
  <2> HIDE DEF h, iter
  <2> QED BY <2>1, <2>2, <2>3
<1>7. ASSUME NEW k \in 1 .. n PROVE h[k] = ParseLine(h[k - 1], d[k])
  <2>1. Max(1 .. k) = k
    BY MaxUpTo
  <2>2. (1 .. k) \ {k} = 1 .. k - 1 /\ 1 .. k # {} /\ 1 .. k \in SUBSET (1 .. n)
    <3>1. k \in 1 .. k /\ \A i \in 1 .. k : i \in 1 .. n
      OBVIOUS
    <3>2. \A i : i \in (1 .. k) \ {k} <=> i \in 1 .. k - 1
      OBVIOUS
    <3> QED BY <3>1, <3>2
  <2>a. k \in 0 .. n /\ k - 1 \in 0 .. n
    OBVIOUS
  <2>3. iter[1 .. k] = ParseLine(iter[(1 .. k) \ {Max(1 .. k)}], d[Max(1 .. k)])
    <3> HIDE DEF iter
    <3> QED BY <1>4, <2>2
  <2> HIDE DEF iter
  <2> QED BY <2>1, <2>2, <2>a, <2>3
<1>8. FoldLeft(ParseLine, Start, d) = h[n]
  <2> HIDE DEF iter
  <2> QED BY <1>5
<1> QED
  <2> HIDE DEF h, n
  <2> QED BY <1>6, <1>7, <1>8 DEF n

(* What a patch names and what the gate says of it.                        *)

Errors == {"invalid_patch", "invalid_patch_path"}

IsState(st) ==
  /\ st = [error |-> st.error, file |-> st.file, files |-> st.files, paths |-> st.paths,
           binary |-> st.binary]
  /\ st.file = [open |-> st.file.open, paths |-> st.file.paths]
  /\ st.file.open \in BOOLEAN /\ (~st.file.open => st.file.paths = {})
  /\ st.error \in Errors \cup {""}

NamedSoFar(st) == st.paths \cup st.file.paths

NamedBy(line) ==
  (IF line.is = "git" THEN {PatchPath(p) : p \in ToSet(line.paths)}
   ELSE IF line.is \in {"old", "new"} THEN {PatchPath(line.path)} ELSE {}) \ {<<>>}

LEMMA FinishNames ==
  ASSUME NEW st, IsState(st), NEW t, t = FinishFile(st)
  PROVE  /\ IsState(t) /\ (t.error = "" => st.error = "" /\ NamedSoFar(t) = NamedSoFar(st))
         /\ st.error # "" => t.error # ""
<1>1. CASE ~st.file.open
  BY <1>1 DEF IsState, FinishFile, NamedSoFar
<1>2. CASE st.file.open /\ st.file.paths = {}
  <2>1. t = [st EXCEPT !.error = "invalid_patch"]
    BY <1>2 DEF FinishFile, Fail
  <2> QED BY <2>1 DEF IsState, Errors
<1>3. CASE st.file.open /\ st.file.paths # {}
  <2>1. t = [st EXCEPT !.paths = @ \cup st.file.paths, !.files = @ + 1, !.file = NoFile]
    BY <1>3 DEF FinishFile
  <2>2. /\ t.error = st.error /\ t.paths = st.paths \cup st.file.paths /\ t.file = NoFile
        /\ t = [error |-> t.error, file |-> t.file, files |-> t.files, paths |-> t.paths,
                binary |-> t.binary]
    BY <2>1 DEF IsState
  <2>3. /\ t.file = [open |-> FALSE, paths |-> {}]
        /\ t.file.open = FALSE /\ t.file.paths = {}
    BY <2>2 DEF NoFile
  <2>4. IsState(t)
    BY <2>2, <2>3 DEF IsState
  <2> QED BY <2>2, <2>3, <2>4 DEF NamedSoFar
<1> QED BY <1>1, <1>2, <1>3 DEF IsState

\* A file that was finished is closed.
LEMMA FinishCloses ==
  ASSUME NEW st, IsState(st), NEW u, u = FinishFile(st), u.error = ""
  PROVE  u.file = NoFile /\ u.paths = NamedSoFar(u)
<1>0. NoFile.open = FALSE /\ NoFile.paths = {}
  BY DEF NoFile
<1>1. CASE ~st.file.open
  <2>1. u = st /\ st.file = NoFile
    BY <1>1 DEF FinishFile, IsState, NoFile
  <2> QED BY <1>0, <2>1 DEF NamedSoFar
<1>2. CASE st.file.open
  <2>1. st.file.paths # {}
    BY <1>2 DEF FinishFile, Fail, IsState
  <2>2. u = [st EXCEPT !.paths = @ \cup st.file.paths, !.files = @ + 1, !.file = NoFile]
    BY <1>2, <2>1 DEF FinishFile
  <2>3. u.file = NoFile
    BY <2>2 DEF IsState
  <2> QED BY <1>0, <2>3 DEF NamedSoFar
<1> QED BY <1>1, <1>2 DEF IsState

IsHeader(line) == line.is \in {"old", "new"}

LEMMA DevNullHasNoPath == PatchPath(DevNull) = <<>>
<1>1. PICK d : d = <<"/", "dev", "null">>
  OBVIOUS
<1>2. 1 \in DOMAIN d /\ d[1] = "/"
  BY <1>1
<1>3. d = DevNull
  BY <1>1 DEF DevNull
<1>4. ToSet(d) \cap Unsafe # {}
  BY <1>2 DEF Unsafe, ToSet
<1>5. StripPrefix(d) = d
  BY <1>2 DEF StripPrefix
<1> QED BY <1>3, <1>4, <1>5 DEF PatchPath, NormalPath

\* A file that is opened, and one that is given a path.
LEMMA Opened ==
  ASSUME NEW st, IsState(st), NEW o, o = [st EXCEPT !.file.open = TRUE]
  PROVE  /\ IsState(o)
         /\ o.error = st.error /\ o.paths = st.paths /\ o.file.open = TRUE
         /\ o.file.paths = st.file.paths
<1>1. PICK f : f = st.file
  OBVIOUS
<1>2. PICK g : g = [f EXCEPT !.open = TRUE]
  OBVIOUS
<1>3. f = [open |-> f.open, paths |-> f.paths]
  BY <1>1 DEF IsState
<1>4. g = [open |-> g.open, paths |-> g.paths] /\ g.open = TRUE /\ g.paths = f.paths
  BY <1>2, <1>3
<1>5. o = [st EXCEPT !.file = g]
  BY <1>1, <1>2
<1>6. /\ o = [error |-> o.error, file |-> o.file, files |-> o.files, paths |-> o.paths,
              binary |-> o.binary]
      /\ o.error = st.error /\ o.paths = st.paths /\ o.file = g
  BY <1>5 DEF IsState
<1>7. IsState(o)
  BY <1>4, <1>6 DEF IsState
<1> QED BY <1>1, <1>4, <1>6, <1>7

WithPath(st, p) == [st EXCEPT !.file.paths = @ \cup {p}]

LEMMA PathAdded ==
  ASSUME NEW o, IsState(o), NEW p
  PROVE  /\ o.file.open => IsState(WithPath(o, p))
         /\ WithPath(o, p).paths = o.paths /\ WithPath(o, p).file.paths = o.file.paths \cup {p}
<1> DEFINE t == WithPath(o, p)
<1>1. PICK f : f = o.file
  OBVIOUS
<1>2. PICK g : g = [f EXCEPT !.paths = @ \cup {p}]
  OBVIOUS
<1>3. f = [open |-> f.open, paths |-> f.paths]
  BY <1>1 DEF IsState
<1>4. g = [open |-> g.open, paths |-> g.paths] /\ g.open = f.open /\ g.paths = f.paths \cup {p}
  BY <1>2, <1>3
<1>5. t = [o EXCEPT !.file = g]
  BY <1>1, <1>2 DEF WithPath
<1>6. /\ t = [error |-> t.error, file |-> t.file, files |-> t.files, paths |-> t.paths,
              binary |-> t.binary]
      /\ t.error = o.error /\ t.paths = o.paths /\ t.file = g
  <2> HIDE DEF t
  <2> QED BY <1>5 DEF IsState
<1> HIDE DEF t
<1>7. o.file.open => IsState(t)
  BY <1>1, <1>4, <1>6 DEF IsState
<1>8. t.paths = o.paths /\ t.file.paths = o.file.paths \cup {p}
  BY <1>1, <1>4, <1>6
<1> QED BY <1>7, <1>8 DEF t

LEMMA HeaderNames ==
  ASSUME NEW st, IsState(st), NEW line, IsHeader(line), NEW t, t = FileHeader(st, line),
         st.error = ""
  PROVE  /\ IsState(t)
         /\ t.error = "" => NamedSoFar(st) \subseteq NamedSoFar(t) /\ NamedBy(line) \subseteq NamedSoFar(t)
<1>2. CASE line.path = <<>>
  <2>1. t = [st EXCEPT !.error = "invalid_patch"]
    BY <1>2 DEF FileHeader, Fail
  <2> QED BY <2>1 DEF IsState, Errors
<1>a. PICK o : o = [st EXCEPT !.file.open = TRUE]
  OBVIOUS
<1>3. /\ IsState(o) /\ o.error = st.error /\ o.paths = st.paths /\ o.file.open = TRUE
      /\ o.file.paths = st.file.paths
  BY <1>a, Opened
<1>b. t = IF line.path = <<>> THEN Fail(st, "invalid_patch")
          ELSE IF line.path = DevNull THEN o
          ELSE IF PatchPath(line.path) = <<>> THEN Fail(st, "invalid_patch_path")
          ELSE [o EXCEPT !.file.paths = @ \cup {PatchPath(line.path)}]
  BY <1>a DEF FileHeader
<1>4. CASE line.path # <<>> /\ line.path = DevNull
  <2>1. t = o
    BY <1>4, <1>b
  <2>3. NamedBy(line) = {}
    BY <1>4, DevNullHasNoPath DEF NamedBy, IsHeader
  <2> QED BY <1>3, <2>1, <2>3 DEF NamedSoFar
<1>5. CASE line.path # <<>> /\ line.path # DevNull /\ PatchPath(line.path) = <<>>
  <2>1. t = [st EXCEPT !.error = "invalid_patch_path"]
    BY <1>5, <1>b DEF Fail
  <2> QED BY <2>1 DEF IsState, Errors
<1>6. CASE line.path # <<>> /\ line.path # DevNull /\ PatchPath(line.path) # <<>>
  <2>1. t = WithPath(o, PatchPath(line.path))
    BY <1>6, <1>b DEF WithPath
  <2>2. /\ IsState(t) /\ t.paths = o.paths
        /\ t.file.paths = o.file.paths \cup {PatchPath(line.path)}
    <3>1. PICK p : p = PatchPath(line.path)
      OBVIOUS
    <3>2. IsState(o) /\ o.file.open
      BY <1>3
    <3> HIDE DEF IsState
    <3>3. /\ IsState(WithPath(o, p))
          /\ WithPath(o, p).paths = o.paths /\ WithPath(o, p).file.paths = o.file.paths \cup {p}
      BY <3>2, PathAdded
    <3>4. t = WithPath(o, p)
      BY <2>1, <3>1
    <3> QED BY <3>1, <3>3, <3>4
  <2>3. NamedBy(line) = {PatchPath(line.path)}
    BY <1>6 DEF NamedBy, IsHeader
  <2> QED BY <1>3, <2>2, <2>3 DEF NamedSoFar
<1> QED BY <1>2, <1>4, <1>5, <1>6

LEMMA GitNames ==
  ASSUME NEW st, IsState(st), NEW line, line.is = "git", line.paths \in Seq(Path),
         NEW t, t = GitHeader(st, line), st.file = NoFile
  PROVE  /\ IsState(t)
         /\ t.error = "" => /\ st.error = "" /\ st.paths \subseteq NamedSoFar(t)
                            /\ NamedBy(line) \subseteq NamedSoFar(t)
<1>1. CASE st.error # ""
  BY <1>1 DEF GitHeader
<1>2. CASE st.error = "" /\ Len(line.paths) # 2
  <2>1. t = [st EXCEPT !.error = "invalid_patch"]
    BY <1>2 DEF GitHeader, Fail
  <2> QED BY <2>1 DEF IsState, Errors
<1>3. CASE /\ st.error = "" /\ Len(line.paths) = 2
           /\ \E k \in {1, 2} : line.paths[k] = DevNull \/ PatchPath(line.paths[k]) = <<>>
  <2>1. t = [st EXCEPT !.error = "invalid_patch_path"]
    BY <1>3 DEF GitHeader, Fail
  <2> QED BY <2>1 DEF IsState, Errors
<1>4. CASE /\ st.error = "" /\ Len(line.paths) = 2
           /\ ~ \E k \in {1, 2} : line.paths[k] = DevNull \/ PatchPath(line.paths[k]) = <<>>
  <2> DEFINE both == {PatchPath(line.paths[1]), PatchPath(line.paths[2])}
  <2>1. t = [st EXCEPT !.file = [open |-> TRUE, paths |-> both]]
    BY <1>4 DEF GitHeader
  <2>2. NamedBy(line) \subseteq both
    <3>1. ToSet(line.paths) = {line.paths[1], line.paths[2]}
      <4>1. DOMAIN line.paths = 1 .. 2
        <5>1. DOMAIN line.paths = 1 .. Len(line.paths)
          OBVIOUS
        <5> QED BY <1>4, <5>1
      <4> QED BY <4>1 DEF ToSet
    <3> QED BY <3>1 DEF NamedBy
  <2> HIDE DEF both
  <2>3. /\ t = [error |-> st.error, file |-> t.file, files |-> st.files, paths |-> st.paths,
                binary |-> st.binary]
        /\ t.file = [open |-> TRUE, paths |-> both]
    BY <2>1 DEF IsState
  <2>4. /\ t.error = st.error /\ t.paths = st.paths /\ t.file.open = TRUE
        /\ t.file.paths = both
    BY <2>3
  <2>5. IsState(t)
    BY <2>3, <2>4 DEF IsState
  <2> QED BY <2>2, <2>4, <2>5, <1>4 DEF NamedSoFar
<1> QED BY <1>1, <1>2, <1>3, <1>4

\* One line adds the paths it names, or an error that stays.
LEMMA LineNames ==
  ASSUME NEW st, IsState(st), NEW line \in DiffLine, NEW t, t = ParseLine(st, line)
  PROVE  /\ IsState(t)
         /\ t.error = "" => /\ st.error = "" /\ NamedSoFar(st) \subseteq NamedSoFar(t)
                            /\ NamedBy(line) \subseteq NamedSoFar(t)
<1>1. CASE st.error # ""
  BY <1>1 DEF ParseLine
<1>2. CASE st.error = "" /\ line.is = "git"
  <2>1. line.paths \in Seq(Path)
    BY <1>2 DEF DiffLine
  <2>2. PICK u : u = FinishFile(st)
    OBVIOUS
  <2>3. t = GitHeader(u, line)
    BY <1>2, <2>2 DEF ParseLine
  <2>4. IsState(u) /\ (u.error = "" => NamedSoFar(u) = NamedSoFar(st))
    BY <2>2, FinishNames
  <2>5. CASE u.error # ""
    BY <2>3, <2>4, <2>5 DEF GitHeader
  <2>6. CASE u.error = ""
    <3>1. u.file = NoFile /\ u.paths = NamedSoFar(u)
      BY <2>2, <2>6, FinishCloses
    <3> QED BY <1>2, <2>1, <2>3, <2>4, <2>6, <3>1, GitNames
  <2> QED BY <2>5, <2>6
<1>3. CASE st.error = "" /\ line.is \in {"old", "new"}
  <2>1. t = FileHeader(st, line)
    BY <1>3 DEF ParseLine
  <2>2. /\ IsState(t)
        /\ t.error = "" => NamedSoFar(st) \subseteq NamedSoFar(t) /\ NamedBy(line) \subseteq NamedSoFar(t)
    <3>1. st.error = "" /\ IsHeader(line)
      BY <1>3 DEF IsHeader
    <3> QED BY <2>1, <3>1, HeaderNames
  <2> QED BY <1>3, <2>2
<1>4. CASE st.error = "" /\ line.is = "binary"
  <2>1. t = [st EXCEPT !.binary = TRUE]
    BY <1>4 DEF ParseLine
  <2>2. /\ t.error = st.error /\ t.paths = st.paths /\ t.file = st.file
        /\ t = [error |-> t.error, file |-> t.file, files |-> t.files, paths |-> t.paths,
                binary |-> t.binary]
    BY <2>1 DEF IsState
  <2> QED BY <1>4, <2>2 DEF IsState, NamedSoFar, NamedBy
<1>5. CASE st.error = "" /\ line.is = "text"
  BY <1>5 DEF ParseLine, NamedBy
<1>6. line.is \in {"git", "old", "new", "binary", "text"}
  BY DEF DiffLine
<1> QED BY <1>1, <1>2, <1>3, <1>4, <1>5, <1>6

\* What has been read when the lines are at an end.
FoldStates(d, end) ==
  /\ FoldLeft(ParseLine, Start, d) = end /\ IsState(end)
  /\ end.error = "" => \A k \in DOMAIN d : NamedBy(d[k]) \subseteq NamedSoFar(end)

LEMMA FoldStatesExist ==
  ASSUME NEW d \in Seq(DiffLine)
  PROVE  \E end : FoldStates(d, end)
<1> DEFINE n == Len(d)
<1>1. n \in Nat /\ DOMAIN d = 1 .. n /\ \A k \in 1 .. n : d[k] \in DiffLine
  OBVIOUS
<1>2. PICK h : /\ h[0] = Start
               /\ \A k \in 1 .. n : h[k] = ParseLine(h[k - 1], d[k])
               /\ FoldLeft(ParseLine, Start, d) = h[n]
  BY <1>1, ParseFolds
<1> DEFINE Names(m) == /\ IsState(h[m])
                       /\ h[m].error = "" =>
                            \A k \in 1 .. m : NamedBy(d[k]) \subseteq NamedSoFar(h[m])
           P == {m \in 0 .. n : Names(m)}
<1> HIDE DEF n
<1>3. 0 \in P
  <2>1. IsState(Start)
    BY DEF IsState, Start, NoFile
  <2>2. 1 .. 0 = {} /\ 0 \in 0 .. n
    BY <1>1
  <2>3. Names(0)
    BY <1>2, <2>1, <2>2
  <2> QED BY <2>2, <2>3
<1>4. ASSUME NEW m \in 0 .. n, m < n, m \in P PROVE m + 1 \in P
  <2>1. h[m + 1] = ParseLine(h[m], d[m + 1]) /\ d[m + 1] \in DiffLine /\ m + 1 \in 0 .. n
    <3>1. m + 1 \in 1 .. n /\ m + 1 - 1 = m
      <4>1. m \in 0 .. n /\ m < n /\ n \in Nat
        BY <1>1, <1>4
      <4> HIDE DEF P
      <4> QED BY <4>1
    <3>2. h[m + 1] = ParseLine(h[m + 1 - 1], d[m + 1])
      BY <1>2, <3>1
    <3> QED BY <1>1, <3>1, <3>2
  <2>2. Names(m)
    BY <1>4
  <2>3. /\ IsState(h[m + 1])
        /\ h[m + 1].error = "" => /\ h[m].error = "" /\ NamedSoFar(h[m]) \subseteq NamedSoFar(h[m + 1])
                                  /\ NamedBy(d[m + 1]) \subseteq NamedSoFar(h[m + 1])
    <3>1. PICK st, t, line : st = h[m] /\ t = h[m + 1] /\ line = d[m + 1]
      OBVIOUS
    <3>2. IsState(st) /\ line \in DiffLine /\ t = ParseLine(st, line)
      BY <2>1, <2>2, <3>1
    <3>3. /\ IsState(t)
          /\ t.error = "" => /\ st.error = "" /\ NamedSoFar(st) \subseteq NamedSoFar(t)
                             /\ NamedBy(line) \subseteq NamedSoFar(t)
      BY <3>2, LineNames
    <3> QED BY <3>1, <3>3
  <2>4. \A k \in 1 .. m + 1 : k \in 1 .. m \/ k = m + 1
    BY <1>1
  <2>5. Names(m + 1)
    BY <2>2, <2>3, <2>4
  <2> QED BY <2>1, <2>5
<1>5. Names(n)
  <2>1. \A m \in 0 .. n : m < n /\ m \in P => m + 1 \in P
    BY <1>4
  <2> HIDE DEF P
  <2>2. \A m \in 0 .. n : m \in P
    BY <1>1, <1>3, <2>1, UpTo
  <2>3. n \in P
    BY <1>1, <2>2
  <2> QED BY <2>3 DEF P
<1> QED BY <1>1, <1>2, <1>5 DEF FoldStates

\* A patch that is parsed without an error names every path of its headers.
LEMMA ParseNames ==
  ASSUME NEW d \in Seq(DiffLine), ParseUnifiedDiff(d).error = ""
  PROVE  Touched(d) \subseteq ParseUnifiedDiff(d).paths
<1>1. PICK h : FoldStates(d, h)
  BY FoldStatesExist
<1>5. IsState(h) /\ (h.error = "" => \A k \in DOMAIN d : NamedBy(d[k]) \subseteq NamedSoFar(h))
  BY <1>1 DEF FoldStates
<1>6. PICK u, end : u = Finished(h) /\ end = WithFiles(u)
  OBVIOUS
<1>7. ParseUnifiedDiff(d) = Parsed(end)
  BY <1>1, <1>6 DEF ParseUnifiedDiff, Start, FoldStates
<1>8. end.error = "" /\ Parsed(end).paths = end.paths
  <2>1. Parsed(end).error = end.error /\ Parsed(end).paths = {p \in end.paths : end.error = ""}
    BY DEF Parsed
  <2> QED BY <1>7, <2>1
<1>9. end = u
  <2>1. end = IF u.error = "" /\ u.files = 0 THEN [u EXCEPT !.error = "invalid_patch"] ELSE u
    BY <1>6 DEF WithFiles, Fail
  <2>2. h.error = "" => IsState(u)
    BY <1>5, <1>6, FinishNames DEF Finished
  <2>3. IsState(u)
    BY <1>5, <1>6, <2>2 DEF Finished
  <2>4. ~(u.error = "" /\ u.files = 0)
    BY <1>8, <2>1, <2>3 DEF IsState
  <2> QED BY <2>1, <2>4
<1>10. h.error = "" /\ u = FinishFile(h)
  BY <1>6, <1>8, <1>9 DEF Finished
<1>11. end.paths = NamedSoFar(h)
  BY <1>5, <1>8, <1>9, <1>10, FinishNames, FinishCloses
<1>12. \A k \in DOMAIN d : NamedBy(d[k]) \subseteq end.paths
  BY <1>5, <1>10, <1>11
<1>13. Touched(d) \subseteq UNION {NamedBy(d[k]) : k \in DOMAIN d}
  <2>1. SUFFICES ASSUME NEW p \in Touched(d) PROVE \E k \in DOMAIN d : p \in NamedBy(d[k])
    OBVIOUS
  <2>2. PICK k \in DOMAIN d :
          /\ d[k].is \in {"git", "old", "new"} /\ p # <<>>
          /\ p \in IF d[k].is = "git" THEN {PatchPath(q) : q \in ToSet(d[k].paths)}
                   ELSE {PatchPath(d[k].path)}
    <3> DEFINE G(k) == IF d[k].is = "git" THEN {PatchPath(q) : q \in ToSet(d[k].paths)}
                       ELSE {PatchPath(d[k].path)}
               K == {j \in DOMAIN d : d[j].is \in {"git", "old", "new"}}
    <3>0. PICK all : all = UNION {G(k) : k \in K}
      OBVIOUS
    <3>1. Touched(d) = all \ {<<>>}
      BY <3>0 DEF Touched
    <3> HIDE DEF G, K
    <3>2. p \in UNION {G(k) : k \in K} /\ p # <<>>
      <4>1. p \in all /\ p # <<>>
        BY <2>1, <3>1
      <4> QED BY <3>0, <4>1
    <3>3. PICK k \in K : p \in G(k)
      BY <3>2, Zenon
    <3> QED BY <3>2, <3>3 DEF G, K
  <2> QED BY <2>2 DEF NamedBy
<1> QED BY <1>7, <1>8, <1>12, <1>13

LEMMA ErrorsAre ==
  ASSUME NEW d \in Seq(DiffLine)
  PROVE  ParseUnifiedDiff(d).error \in Errors \cup {""}
<1>1. PICK h : FoldStates(d, h)
  BY FoldStatesExist
<1>2. PICK u, end : u = Finished(h) /\ end = WithFiles(u)
  OBVIOUS
<1>3. IsState(u)
  BY <1>1, <1>2, FinishNames DEF Finished, FoldStates
<1>4. end.error \in Errors \cup {""}
  <2>1. end = IF u.error = "" /\ u.files = 0 THEN [u EXCEPT !.error = "invalid_patch"] ELSE u
    BY <1>2 DEF WithFiles, Fail
  <2> QED BY <1>3, <2>1 DEF IsState, Errors
<1>5. ParseUnifiedDiff(d) = Parsed(end)
  BY <1>1, <1>2 DEF ParseUnifiedDiff, Start, FoldStates
<1>6. Parsed(end).error = end.error
  BY DEF Parsed
<1> QED BY <1>4, <1>5, <1>6

\* A patch that is not rejected names nothing forbidden, and one that is allowed
\* nothing a human has to see.
LEMMA GateClears ==
  ASSUME NEW diff \in Seq(DiffLine), NEW apply, NEW fits,
         GatePatch(Policy, diff, apply, fits).kind # "rejected"
  PROVE  Clears(GatePatch(Policy, diff, apply, fits), diff)
<1> DEFINE decision == GatePatch(Policy, diff, apply, fits)
           parsed == ParseUnifiedDiff(diff)
           static == StaticReasons(Policy, parsed)
           reasons == WithCheck(static, apply, fits)
<1>1. /\ decision.patch = diff /\ decision.kind = KindOf(reasons)
      /\ decision = [patch |-> diff, paths |-> parsed.paths, kind |-> KindOf(reasons),
                     reasons |-> reasons, apply |-> apply]
  BY DEF GatePatch, GateParsed, Decision
<1>2. decision # Null
  <2>1. "patch" \in DOMAIN decision
    BY <1>1
  <2>2. DOMAIN Null = {"null"}
    BY DEF Null
  <2> QED BY <2>1, <2>2
<1>3. static \subseteq reasons
  BY DEF WithCheck
<1>4. reasons \cap Rejections = {}
  BY <1>1 DEF KindOf
<1>5. parsed.error = ""
  <2>1. ASSUME parsed.error # "" PROVE FALSE
    <3>1. parsed.error \in static
      BY <2>1 DEF StaticReasons
    <3>2. parsed.error \in Rejections
      BY <2>1, ErrorsAre DEF Errors, Rejections
    <3> QED BY <1>3, <1>4, <3>1, <3>2
  <2> QED BY <2>1
<1>6. Touched(diff) \subseteq parsed.paths
  BY <1>5, ParseNames
<1>7. ASSUME NEW p \in Touched(diff)
      PROVE  /\ ~MatchesAny(p, Policy.forbidden)
             /\ decision.kind = "allowed" => ~MatchesAny(p, ReviewPatterns(Policy))
  <2>1. PathReasons(Policy, p) \subseteq static
    BY <1>5, <1>6, <1>7 DEF StaticReasons
  <2>2. MatchesAny(p, Policy.forbidden) => "forbidden_path" \in static
    BY <2>1 DEF PathReasons
  <2>3. MatchesAny(p, ReviewPatterns(Policy)) => "policy_requires_human_review" \in static
    BY <2>1 DEF PathReasons
  <2>4. decision.kind = "allowed" => reasons = {}
    BY <1>1 DEF KindOf
  <2> HIDE DEF decision, static, reasons
  <2> QED BY <1>3, <1>4, <2>2, <2>3, <2>4 DEF Rejections
<1> HIDE DEF decision
<1> QED BY <1>1, <1>2, <1>7 DEF Clears, decision

\* What the answer of a step may say, and the patch that is proposed.
LEMMA AnswerIs ==
  ASSUME NEW s \in StepNames, NEW a \in Read(s)
  PROVE  /\ a = [is |-> a.is, what |-> a.what]
         /\ a.is = "passed" => s \in {"research", "analysis", "spec_creation"}
         /\ a.is = "approve_spec" => s = "spec_review"
         /\ a.is = "approve_for_tests" => s = "output_review"
         /\ a.is = "patch_proposed" => s = "development" /\ PatchOf(a) \in DOMAIN Diffs
<1>1. PICK result \in Answers[s] : a = ReadAnswer(Diffs, RoleOf[s], result)
  BY DEF Read
<1>2. result \in Result
  BY AnswersAssumption
<1> DEFINE role == RoleOf[s]
           audit == BoundedAudit(result)
           outcome == Outcome(Diffs, role, audit)
<1>3. a.is = outcome /\ a.what = (IF outcome \in Spoken THEN What(result) ELSE {})
      /\ a = [is |-> a.is, what |-> a.what]
  BY <1>1 DEF ReadAnswer, Meant
<1>4. \/ outcome \in {"provider_failure", "invalid_json", "invalid_response"}
      \/ /\ outcome = audit.says /\ audit.ok /\ ParsesAs(Diffs, role, audit)
         /\ ~ApprovesOther(role, audit.says)
  BY DEF Outcome
<1>5. audit = result \/ audit = [result EXCEPT !.ok = FALSE]
  BY DEF BoundedAudit
<1>6. audit.ok => audit = result
  BY <1>2, <1>5 DEF Result
<1>7. s \in DOMAIN Rank
  BY StepsAre
<1>8. /\ role \in Agents => s \in {"research", "analysis", "spec_creation"}
      /\ role = "spec_reviewer" => s = "spec_review"
      /\ role = "output_reviewer" => s = "output_review"
      /\ role = "developer" => s = "development"
      /\ role \in Agents \/ role \in Reviewers \/ role = "developer"
      /\ role \in Agents => role \notin Reviewers /\ role # "developer"
      /\ role \in Reviewers => role # "developer"
  BY <1>7 DEF Rank, RoleOf, Agents, Reviewers
<1> HIDE DEF audit, outcome, role
<1>9. CASE outcome \in {"provider_failure", "invalid_json", "invalid_response"}
  BY <1>3, <1>9
<1>10. CASE /\ outcome = result.says /\ ParsesAs(Diffs, role, result)
            /\ ~ApprovesOther(role, result.says)
  <2>1. outcome \in Sayings(role) /\ PatchFits(Diffs, role, result)
    BY <1>10 DEF ParsesAs
  <2>2. /\ outcome = "passed" => role \in Agents
        /\ outcome = "patch_proposed" => role = "developer"
    BY <1>8, <2>1 DEF Sayings
  <2>3. /\ outcome = "approve_spec" => role = "spec_reviewer"
        /\ outcome = "approve_for_tests" => role = "output_reviewer"
    BY <1>10 DEF ApprovesOther
  <2>4. ASSUME outcome = "patch_proposed" PROVE PatchOf(a) \in DOMAIN Diffs
    <3>1. result.patch # NoPatch
      BY <1>10, <2>1, <2>2, <2>4 DEF PatchFits
    <3>2. result.patch \in DOMAIN Diffs \cup {NoPatch}
      BY <1>2 DEF Result
    <3>3. What(result) = {result.patch}
      BY <1>10, <2>4 DEF What
    <3>4. a.what = {result.patch}
      BY <1>3, <2>4, <3>3 DEF Spoken
    <3>5. PatchOf(a) = result.patch
      BY <3>4 DEF PatchOf
    <3> QED BY <3>1, <3>2, <3>5
  <2> QED BY <1>3, <1>8, <2>2, <2>3, <2>4
<1> QED BY <1>4, <1>6, <1>9, <1>10

LEMMA SameEntries ==
  ASSUME run'.ledger = run.ledger, proc'.step = proc.step, proc'.attempt = proc.attempt
  PROVE  /\ Entries' = Entries /\ LastEntry' = LastEntry /\ FirstEntry' = FirstEntry
         /\ AtTheEnd => AtTheEnd'
<1>1. Entries' = Entries
  BY DEF Entries, RecordsOf
<1> QED BY <1>1 DEF LastEntry, FirstEntry, AtTheEnd

\* The steps before one that is not done are done.
LEMMA EarlierDone ==
  ASSUME RunIsTyped, StepsInOrder, NEW s \in StepNames, run.st[s] = "running", NEW t \in StepNames,
         Rank[t] < Rank[s]
  PROVE  run.st[t] \in Terminal
BY DEF RunIsTyped, StepsInOrder

\* At work, the records of the attempt are at the end, and the last one is as it
\* should be.
LEMMA LastEntryIs ==
  ASSUME DiskInv, ProcInv, AtWork, proc.pc # "prompt", proc.next = Null
  PROVE  /\ Entries # {} /\ LastEntry = run.ledger[Len(run.ledger)] /\ Len(run.ledger) \in Entries
         /\ Len(run.ledger) \in DOMAIN run.ledger /\ Len(run.ledger) \in Nat
         /\ IsEntry(LastEntry) /\ SameAttempt(LastEntry, proc)
         /\ LastAsked(proc.step) = Len(run.ledger)
         /\ \A k \in Entries : run.ledger[k].request.prereq = LastEntry.request.prereq
         /\ \A t \in Needs(proc.step) : LastEntry.request.prereq[t].response = Standing(t)
<1>1. RunIsTyped /\ LedgerHolds /\ AttemptIsLast /\ StepIsRunning /\ StepsInOrder /\ ProcIsTyped
  BY DEF DiskInv, ProcInv
<1> DEFINE n == Len(run.ledger)
<1>2. Entries # {} /\ AtTheEnd
  BY <1>1 DEF AttemptIsLast
<1>3. LastEntry = run.ledger[n] /\ n \in Entries /\ n \in DOMAIN run.ledger /\ n \in Nat
  BY <1>1, <1>2, EntriesAre, LedgerIs
<1>4. SameAttempt(LastEntry, proc)
  BY <1>1, <1>3, EntriesAre DEF SameAttempt
<1>5. IsEntry(LastEntry)
  BY <1>1, <1>3 DEF LedgerHolds
<1>6. LastAsked(proc.step) = n
  <2>1. LastAsked(proc.step) \in Nat /\ LastAsked(proc.step) <= n /\ n <= LastAsked(proc.step)
    BY <1>1, <1>3, <1>4, LastAskedIs DEF SameAttempt
  <2> QED BY <1>3, <2>1
<1>7. \A k \in Entries : run.ledger[k].request.prereq = LastEntry.request.prereq
  <2>1. SUFFICES ASSUME NEW k \in Entries
                 PROVE  run.ledger[k].request.prereq = LastEntry.request.prereq
    OBVIOUS
  <2>2. SameAttempt(run.ledger[k], run.ledger[n]) /\ k \in DOMAIN run.ledger
    BY <1>1, <1>3, EntriesAre DEF SameAttempt
  <2> QED BY <1>1, <1>3, <2>2 DEF LedgerHolds
<1>8. ASSUME NEW t \in Needs(proc.step)
      PROVE  LastEntry.request.prereq[t].response = Standing(t)
  <2>1. proc.step \in StepNames /\ run.st[proc.step] = "running"
    BY <1>1 DEF ProcIsTyped, StepIsRunning, AtWork
  <2>2. t \in StepNames /\ Rank[t] < Rank[proc.step] /\ t # proc.step
    BY <2>1, NeedsAre, StepsAre
  <2>3. run.st[t] \in Terminal
    BY <1>1, <2>1, <2>2, EarlierDone
  <2>4. LastAsked(t) < n
    <3>1. /\ LastAsked(t) \in Nat /\ LastAsked(t) <= n
          /\ LastAsked(t) > 0 => run.ledger[LastAsked(t)].step = t
      BY <1>1, LastAskedIs
    <3>2. n > 0
      BY <1>1, <1>3, LedgerIs
    <3>3. run.ledger[n].step = proc.step
      BY <1>3, <1>4 DEF SameAttempt
    <3>4. LastAsked(t) # n
      BY <2>2, <3>1, <3>2, <3>3
    <3> QED BY <1>3, <3>1, <3>4
  <2>5. t \in Needs(run.ledger[n].step)
    BY <1>3, <1>4, <1>8 DEF SameAttempt
  <2> QED BY <1>1, <1>3, <2>3, <2>4, <2>5 DEF LedgerHolds
<1> QED BY <1>2, <1>3, <1>4, <1>5, <1>6, <1>7, <1>8

(* The steps that leave run.json alone.                                    *)

\* A process that goes on with its attempt: what only a change of its own can break.
LEMMA GoesOn ==
  ASSUME DiskInv, ProcInv, run' = run, FilesKept, FilesTyped', AtWork, proc'.pc # "idle",
         proc'.step = proc.step, proc'.attempt = proc.attempt, proc'.early = proc.early,
         proc'.pc # "step",
         AtWork' /\ proc'.pc # "prompt" =>
           <<"prompt", proc.step, proc.attempt>> \in DOMAIN files' /\ (proc'.next = Null => Entries # {})
  PROVE  /\ DiskInv' /\ MemoryStands' /\ StepIsRunning' /\ AttemptIsLast'
         /\ Entries' = Entries /\ LastEntry' = LastEntry /\ FirstEntry' = FirstEntry
<1>1. /\ MemoryStands /\ StepIsRunning /\ AttemptIsLast /\ ProcIsTyped
  BY DEF ProcInv
<1>2. DiskInv'
  BY SameRun
<1>3. proc.pc # "idle"
  BY DEF AtWork
<1>4. MemoryStands'
  BY <1>1, <1>3, MemoryStays
<1>5. StepIsRunning'
  BY <1>1 DEF StepIsRunning, Approved
<1>6. Entries' = Entries /\ LastEntry' = LastEntry /\ FirstEntry' = FirstEntry /\ (AtTheEnd => AtTheEnd')
  BY SameEntries
<1>7. AttemptIsLast'
  BY <1>1, <1>6 DEF AttemptIsLast
<1> QED BY <1>2, <1>4, <1>5, <1>6, <1>7

\* The same for a step that leaves the process's files and records as they are.
LEMMA CarriesOn ==
  ASSUME DiskInv, ProcInv, run' = run, FilesKept, FilesTyped', AtWork, proc.pc # "prompt",
         proc.next = Null, proc'.pc \notin {"idle", "step"},
         proc'.step = proc.step, proc'.attempt = proc.attempt, proc'.early = proc.early
  PROVE  /\ DiskInv' /\ MemoryStands' /\ StepIsRunning' /\ AttemptIsLast'
         /\ Entries' = Entries /\ LastEntry' = LastEntry /\ FirstEntry' = FirstEntry
<1>1. <<"prompt", proc.step, proc.attempt>> \in DOMAIN files /\ Entries # {}
  BY DEF ProcInv, AttemptIsLast
<1>2. <<"prompt", proc.step, proc.attempt>> \in DOMAIN files'
  BY <1>1 DEF FilesKept
<1> QED BY <1>1, <1>2, GoesOn

\* A process whose step has come to an output.
LEMMA FinishesHold ==
  ASSUME DiskInv, ProcInv, run' = run, FilesKept, FilesTyped', AtWork, proc.pc # "prompt",
         proc.next = Null, NEW output, proc' = Finishes(output), OutputHolds(output)'
  PROVE  ChainInv'
<1>1. ProcIsTyped
  BY DEF ProcInv
<1>2. proc.pc # "idle"
  BY DEF AtWork
<1>3. PICK p, q : p = proc /\ q = proc'
  OBVIOUS
<1>4. q = [p EXCEPT !.pc = "artifact", !.output = output]
  BY <1>3 DEF Finishes
<1>5. p = [pc |-> p.pc, step |-> p.step, attempt |-> p.attempt, early |-> p.early,
           bundle |-> p.bundle, revision |-> p.revision, apply |-> p.apply, next |-> p.next,
           output |-> p.output]
  BY <1>1, <1>2, <1>3 DEF ProcIsTyped
<1>6. /\ q.pc = "artifact" /\ q.output = output /\ q.step = p.step /\ q.attempt = p.attempt
      /\ q.early = p.early /\ q.next = p.next
      /\ q = [pc |-> q.pc, step |-> q.step, attempt |-> q.attempt, early |-> q.early,
              bundle |-> q.bundle, revision |-> q.revision, apply |-> q.apply, next |-> q.next,
              output |-> q.output]
  BY <1>4, <1>5
<1>7. DiskInv' /\ MemoryStands' /\ StepIsRunning' /\ AttemptIsLast'
  BY <1>3, <1>6, CarriesOn
<1>8. ProcIsTyped'
  BY <1>1, <1>2, <1>3, <1>6 DEF ProcIsTyped
<1>9. NextStands' /\ GateStands' /\ OutputStands'
  BY <1>3, <1>6 DEF NextStands, GateStands, OutputStands
<1> QED BY <1>7, <1>8, <1>9 DEF ChainInv, ProcInv

\* A failed step has no decision.
LEMMA FailureHolds ==
  ASSUME NEW why
  PROVE  OutputHolds(Failure(why))' /\ OutputHolds(Denied)'
<1>1. \A output : output \in {Failure(why), Denied} =>
        /\ output = [status |-> output.status, artifact |-> output.artifact, decision |-> output.decision]
        /\ output.status \in {"failed", "blocked"} /\ output.decision = Null
  BY DEF Failure, Denied, Output
<1> QED BY <1>1 DEF OutputHolds, Advances

LEMMA FailStepKeeps ==
  ASSUME ChainInv, FailStep
  PROVE  ChainInv'
<1>1. DiskInv /\ ProcInv
  BY DEF ChainInv
<1>2. proc.pc = "call" /\ proc.next = Null /\ AtWork
  BY DEF FailStep, Answered, AtWork
<1>3. PICK why : proc' = Finishes(Failure(why))
  BY DEF FailStep
<1>4. OutputHolds(Failure(why))'
  BY FailureHolds
<1>5. FilesKept /\ FilesTyped' /\ run' = run
  BY <1>1, SameFiles DEF FailStep, DiskInv
<1> QED BY <1>1, <1>2, <1>3, <1>4, <1>5, FinishesHold

LEMMA RefuseContextKeeps ==
  ASSUME ChainInv, RefuseContext
  PROVE  ChainInv'
<1>1. DiskInv /\ ProcInv
  BY DEF ChainInv
<1>2. proc.pc = "call" /\ proc.next = Null /\ AtWork
  BY DEF RefuseContext, Answered, AtWork
<1>3. PICK output : proc' = Finishes(output) /\ output \in {Failure("context_audit_failure"), Denied}
  BY DEF RefuseContext, RefuseFor
<1>4. OutputHolds(output)'
  BY <1>3, FailureHolds
<1>5. FilesKept /\ FilesTyped' /\ run' = run
  BY <1>1, SameFiles DEF RefuseContext, DiskInv
<1> QED BY <1>1, <1>2, <1>3, <1>4, <1>5, FinishesHold

LEMMA FinishResponseKeeps ==
  ASSUME ChainInv, FinishResponse
  PROVE  ChainInv'
<1>1. DiskInv /\ ProcInv
  BY DEF ChainInv
<1>2. proc.pc = "call" /\ proc.next = Null /\ AtWork
  BY DEF FinishResponse, Answered, AtWork
<1>3. PICK a, output : /\ a = LastEntry.answer
                       /\ output = Output(Statuses[a.is], [result |-> "role", answer |-> a], Null)
  OBVIOUS
<1>4. proc' = Finishes(output)
  BY <1>3 DEF FinishResponse
<1>5. FilesKept /\ FilesTyped' /\ run' = run
  BY <1>1, SameFiles DEF FinishResponse, DiskInv
<1>6. a.is \in DOMAIN Statuses /\ LastEntry.phase = "response"
  BY <1>3 DEF FinishResponse, Answered
<1>7. a \in Read(proc.step) /\ proc.step \in StepNames
  <2>1. IsEntry(LastEntry) /\ SameAttempt(LastEntry, proc)
    BY <1>1, <1>2, LastEntryIs
  <2> QED BY <1>3, <1>6, <2>1 DEF IsEntry, SameAttempt
<1>8. /\ output.status = Statuses[a.is] /\ output.artifact = [result |-> "role", answer |-> a]
      /\ output.decision = Null
      /\ output = [status |-> output.status, artifact |-> output.artifact, decision |-> output.decision]
      /\ output.artifact.result = "role" /\ output.artifact.answer = a
  BY <1>3 DEF Output
<1>9. /\ output.status \in {"completed", "passed", "blocked", "failed"}
      /\ output.status = "completed" => a.is = "passed"
      /\ output.status = "passed" => a.is \in {"approve_spec", "approve_for_tests"}
  BY <1>6, <1>8 DEF Statuses
<1>10. proc'.step = proc.step
  BY <1>1, <1>2, <1>4 DEF Finishes, ProcInv, ProcIsTyped
<1>11. OutputHolds(output)'
  <2>1. proc.step = "development" => output.status # "completed"
    BY <1>7, <1>9, AnswerIs
  <2>2. proc.step = "output_review" /\ Advances(output.status) => a.is = "approve_for_tests"
    BY <1>7, <1>9, AnswerIs DEF Advances
  <2> QED BY <1>8, <1>9, <1>10, <2>1, <2>2 DEF OutputHolds
<1> QED BY <1>1, <1>2, <1>4, <1>5, <1>11, FinishesHold

(* Requests.                                                               *)

\* A process that has another request to ask.
LEMMA NextKeeps ==
  ASSUME DiskInv, ProcInv, run' = run, FilesKept, FilesTyped', proc.pc \in {"prompt", "call"},
         proc.next = Null, <<"prompt", proc.step, proc.attempt>> \in DOMAIN files',
         NEW next, proc' = [proc EXCEPT !.pc = "call", !.next = next],
         next = Null => Entries # {},
         next # Null => NextHolds(next)'
  PROVE  ChainInv'
<1>1. ProcIsTyped
  BY DEF ProcInv
<1>2. proc.pc # "idle" /\ AtWork
  BY DEF AtWork
<1>3. PICK p, q : p = proc /\ q = proc'
  OBVIOUS
<1>4. q = [p EXCEPT !.pc = "call", !.next = next]
  BY <1>3
<1>5. p = [pc |-> p.pc, step |-> p.step, attempt |-> p.attempt, early |-> p.early,
           bundle |-> p.bundle, revision |-> p.revision, apply |-> p.apply, next |-> p.next,
           output |-> p.output]
  BY <1>1, <1>2, <1>3 DEF ProcIsTyped
<1>6. /\ q.pc = "call" /\ q.next = next /\ q.step = p.step /\ q.attempt = p.attempt
      /\ q.early = p.early
      /\ q = [pc |-> q.pc, step |-> q.step, attempt |-> q.attempt, early |-> q.early,
              bundle |-> q.bundle, revision |-> q.revision, apply |-> q.apply, next |-> q.next,
              output |-> q.output]
  BY <1>4, <1>5
<1>7. DiskInv' /\ MemoryStands' /\ StepIsRunning' /\ AttemptIsLast'
  BY <1>2, <1>3, <1>6, GoesOn
<1>8. ProcIsTyped'
  BY <1>1, <1>2, <1>3, <1>6 DEF ProcIsTyped
<1>9. NextStands'
  BY <1>3, <1>6 DEF NextStands
<1>10. GateStands' /\ OutputStands'
  BY <1>3, <1>6 DEF GateStands, OutputStands
<1> QED BY <1>7, <1>8, <1>9, <1>10 DEF ChainInv, ProcInv

\* Another request of the attempt, with what the ones before it carried.
LEMMA AskAgain ==
  ASSUME DiskInv, ProcInv, run' = run, FilesKept, proc.pc = "call", proc.next = Null,
         NEW kind, NEW round, NEW chain, NEW q, IsRequest(q, proc.step),
         q.prereq = LastEntry.request.prereq,
         proc'.step = proc.step, proc'.attempt = proc.attempt,
         NEW e, e = Entry(kind, round, "request", q, chain)
  PROVE  NextHolds(e)' /\ e # Null
<1>2. /\ e = [step |-> e.step, attempt |-> e.attempt, kind |-> e.kind, round |-> e.round,
              phase |-> e.phase, request |-> e.request, chain |-> e.chain, answer |-> e.answer]
      /\ e.step = proc.step /\ e.attempt = proc.attempt /\ e.phase = "request" /\ e.request = q
  BY DEF Entry
<1>4. AtWork /\ ProcIsTyped /\ RunIsTyped /\ StepsInOrder /\ StepIsRunning
  BY DEF AtWork, ProcInv, DiskInv
<1>5. /\ Entries # {}
      /\ \A k \in Entries : run.ledger[k].request.prereq = LastEntry.request.prereq
      /\ \A t \in Needs(proc.step) : LastEntry.request.prereq[t].response = Standing(t)
  BY <1>4, LastEntryIs
<1>6. IsEntry(e)
  BY <1>2, <1>4 DEF IsEntry, ProcIsTyped, AtWork
<1>7. Entries' = Entries
  BY SameEntries
<1>8. \A t \in Needs(proc.step) : Standing(t)' = Standing(t)
  <2>1. SUFFICES ASSUME NEW t \in Needs(proc.step) PROVE Standing(t)' = Standing(t)
    OBVIOUS
  <2>2. proc.step \in StepNames /\ run.st[proc.step] = "running"
    BY <1>4 DEF ProcIsTyped, StepIsRunning, AtWork
  <2>3. t \in StepNames /\ run.st[t] \in Terminal
    BY <1>4, <2>2, NeedsAre, EarlierDone
  <2> QED BY <1>4, <2>3, ThereStays
<1>9. e # Null
  <2>1. "step" \in DOMAIN e
    BY <1>2
  <2> QED BY <2>1 DEF Null
<1> QED BY <1>2, <1>5, <1>6, <1>7, <1>8, <1>9 DEF NextHolds, SameAttempt

LEMMA RepairJsonKeeps ==
  ASSUME ChainInv, RepairJson
  PROVE  ChainInv'
<1>1. DiskInv /\ ProcInv
  BY DEF ChainInv
<1>2. proc.pc = "call" /\ proc.next = Null /\ AtWork
  BY DEF RepairJson, Answered, AtWork
<1>3. PICK l, q, next, round, chain :
        /\ l = LastEntry.request /\ q = [l EXCEPT !.repaired = TRUE]
        /\ round = LastEntry.round /\ chain = LastEntry.chain
        /\ next = Entry("repair", round, "request", q, chain)
  OBVIOUS
<1>4. proc' = [proc EXCEPT !.next = next]
  BY <1>3 DEF RepairJson
<1>5. FilesKept /\ FilesTyped' /\ run' = run
  BY <1>1, SameFiles DEF RepairJson, DiskInv
<1>6. proc' = [proc EXCEPT !.pc = "call", !.next = next] /\ proc'.step = proc.step /\ proc'.attempt = proc.attempt
  BY <1>1, <1>2, <1>4 DEF ProcInv, ProcIsTyped
<1>7. IsEntry(LastEntry) /\ SameAttempt(LastEntry, proc)
  BY <1>1, <1>2, LastEntryIs
<1>8. IsRequest(l, proc.step)
  BY <1>3, <1>7 DEF IsEntry, SameAttempt
<1>9. IsRequest(q, proc.step) /\ q.prereq = l.prereq
  BY <1>3, <1>8 DEF IsRequest
<1>10. NextHolds(next)' /\ next # Null
  BY <1>1, <1>2, <1>3, <1>5, <1>6, <1>9, AskAgain
<1>11. <<"prompt", proc.step, proc.attempt>> \in DOMAIN files'
  BY <1>1, <1>2, <1>5 DEF ProcInv, AttemptIsLast, FilesKept
<1> QED BY <1>1, <1>2, <1>5, <1>6, <1>10, <1>11, NextKeeps

LEMMA KeysAre ==
  ASSUME NEW kind, NEW s, NEW a
  PROVE  /\ <<kind, s, a>>[3] = a
         /\ \A r : <<kind, s, a, r>>[3] = a
OBVIOUS

LEMMA PublishedAt ==
  ASSUME DiskInv, ProcInv, proc.pc # "idle", NEW key, NEW content, Free(key, content),
         Publish(key, content), key[3] = proc.attempt
  PROVE  /\ FilesKept /\ FilesTyped' /\ DOMAIN files' = DOMAIN files \cup {key}
         /\ files'[key] = content
<1>1. RunIsTyped /\ proc.attempt \in Nat
  BY DEF DiskInv, ProcInv, ProcIsTyped
<1> QED BY <1>1, PublishTyped, PublishIs

LEMMA EndKeeps ==
  ASSUME ChainInv, UNCHANGED <<run, files>>, proc' = Idle
  PROVE  ChainInv'
<1>1. FilesKept /\ FilesTyped' /\ run' = run
  BY SameFiles DEF ChainInv, DiskInv
<1> QED BY <1>1, SameRun, IdleHolds DEF ChainInv

LEMMA ExpandContextKeeps ==
  ASSUME ChainInv, ExpandContext
  PROVE  ChainInv'
<1>1. DiskInv /\ ProcInv /\ RunIsTyped
  BY DEF ChainInv, DiskInv
<1>2. proc.pc = "call" /\ proc.next = Null /\ AtWork /\ run' = run
  BY DEF ExpandContext, Answered, AtWork
<1>3. PICK x, chain, key : /\ key = <<"expansion", proc.step, proc.attempt, x.round>>
                           /\ PublishExpansion(key, x, chain)
  BY DEF ExpandContext, Grant
<1>4. CASE ~Free(key, x)
  <2>1. proc' = Idle /\ UNCHANGED <<run, files>>
    BY <1>2, <1>3, <1>4 DEF PublishExpansion
  <2> QED BY <2>1, EndKeeps
<1>5. CASE Free(key, x)
  <2>1. PICK l, q, round, next :
          /\ l = FirstEntry.request /\ q = [l EXCEPT !.files = RetryFiles(chain)] /\ round = x.round
          /\ next = Entry("retry", round, "request", q, chain)
    OBVIOUS
  <2>2. Publish(key, x) /\ proc' = [proc EXCEPT !.next = next]
    BY <1>3, <1>5, <2>1 DEF PublishExpansion, RetryRequest
  <2>3. key[3] = proc.attempt
    BY <1>3, KeysAre
  <2>4. FilesKept /\ FilesTyped'
    BY <1>1, <1>2, <1>5, <2>2, <2>3, PublishedAt
  <2>5. proc' = [proc EXCEPT !.pc = "call", !.next = next] /\ proc'.step = proc.step /\ proc'.attempt = proc.attempt
    BY <1>1, <1>2, <2>2 DEF ProcInv, ProcIsTyped
  <2>6. IsRequest(l, proc.step) /\ l.prereq = LastEntry.request.prereq
    <3>1. Entries # {} /\ \A k \in Entries : run.ledger[k].request.prereq = LastEntry.request.prereq
      BY <1>1, <1>2, LastEntryIs
    <3>2. PICK k \in Entries : FirstEntry = run.ledger[k]
      BY <1>1, <3>1, EntriesAre
    <3>3. k \in DOMAIN run.ledger /\ run.ledger[k].step = proc.step
      BY <1>1, EntriesAre
    <3>4. IsEntry(run.ledger[k])
      BY <1>1, <3>3 DEF DiskInv, LedgerHolds
    <3> QED BY <2>1, <3>1, <3>2, <3>3, <3>4 DEF IsEntry
  <2>7. IsRequest(q, proc.step) /\ q.prereq = l.prereq
    BY <2>1, <2>6 DEF IsRequest
  <2>8. NextHolds(next)' /\ next # Null
    BY <1>1, <1>2, <2>1, <2>4, <2>5, <2>6, <2>7, AskAgain
  <2>9. <<"prompt", proc.step, proc.attempt>> \in DOMAIN files'
    BY <1>1, <1>2, <2>4 DEF ProcInv, AttemptIsLast, FilesKept
  <2> QED BY <1>1, <1>2, <2>4, <2>5, <2>8, <2>9, NextKeeps
<1> QED BY <1>4, <1>5

\* What the first request of an attempt is.
LEMMA RoleRequestIs ==
  ASSUME DiskInv, ProcInv, proc.pc = "prompt"
  PROVE  /\ IsRequest(RoleRequest, proc.step)
         /\ \A t \in Needs(proc.step) : RoleRequest.prereq[t].response = Standing(t)
<1> DEFINE s == proc.step
<1>1. ProcIsTyped /\ RunIsTyped /\ StepsInOrder /\ StepIsRunning /\ MemoryStands /\ AtWork
  BY DEF ProcInv, DiskInv, AtWork
<1>2. s \in StepNames /\ run.status = "running" /\ run.st[s] = "running"
  BY <1>1 DEF ProcIsTyped, StepIsRunning, AtWork
<1>3. ASSUME NEW t \in Needs(s)
      PROVE  proc.early[t] = [path |-> proc.early[t].path, response |-> Standing(t)]
  <2>1. t \in StepNames /\ run.st[t] \in Terminal
    BY <1>1, <1>2, NeedsAre, EarlierDone
  <2>2. t \in EarlySteps
    <3>1. \A u \in DOMAIN Rank : Prerequisites[u] \subseteq {"research", "analysis", "spec_creation", "spec_review"}
      BY DEF Rank, Prerequisites
    <3> QED BY <1>2, <2>1, <3>1, StepsAre DEF Needs, EarlySteps
  <2> QED BY <1>1, <1>2, <2>1, <2>2 DEF MemoryStands, Open
<1>7. ASSUME NEW t \in Needs(s)
      PROVE  /\ proc.early[t].response = Standing(t)
             /\ [proc.early[t] EXCEPT !.path = 0].response = Standing(t)
  <2>1. PICK e, st : e = proc.early[t] /\ st = Standing(t)
    OBVIOUS
  <2>2. e = [path |-> e.path, response |-> st]
    BY <1>3, <2>1
  <2>3. PICK f : f = [e EXCEPT !.path = 0]
    OBVIOUS
  <2>4. e.response = st /\ f.response = st
    BY <2>2, <2>3
  <2> QED BY <2>1, <2>3, <2>4
<1>4. CASE s \notin {"development", "output_review"}
  <2>1. PICK q : q = RoleRequest
    OBVIOUS
  <2>2. q = EarlyPrompt(s)
    BY <1>4, <2>1 DEF RoleRequest
  <2>3. PICK asking, rev : /\ asking = Asking(s, [t \in Needs(s) |-> [proc.early[t] EXCEPT !.path = 0]])
                           /\ rev = IF s = "spec_creation" THEN proc.revision ELSE Null
    OBVIOUS
  <2>4. q = [asking EXCEPT !.revision = rev]
    BY <2>2, <2>3 DEF EarlyPrompt, Needs
  <2>5. /\ q = [step |-> q.step, prereq |-> q.prereq, bundle |-> q.bundle, revision |-> q.revision,
                patch |-> q.patch, files |-> q.files, repaired |-> q.repaired]
        /\ q.prereq = [t \in Needs(s) |-> [proc.early[t] EXCEPT !.path = 0]]
    BY <2>3, <2>4 DEF Asking
  <2>6. \A t \in Needs(s) : q.prereq[t].response = Standing(t)
    BY <1>7, <2>5
  <2> QED BY <1>4, <2>1, <2>5, <2>6 DEF IsRequest
<1>5. CASE s = "development"
  <2>1. PICK q : q = RoleRequest
    OBVIOUS
  <2>2. q = DevelopmentPrompt
    BY <1>5, <2>1 DEF RoleRequest
  <2>3. Prerequisites["development"] = Needs(s)
    BY <1>5, StepsAre DEF Needs, Prerequisites
  <2>4. /\ q = [step |-> q.step, prereq |-> q.prereq, bundle |-> q.bundle, revision |-> q.revision,
                patch |-> q.patch, files |-> q.files, repaired |-> q.repaired]
        /\ q.prereq = [t \in Needs(s) |-> proc.early[t]]
    BY <2>2, <2>3 DEF DevelopmentPrompt, Asking
  <2>5. "spec_review" \in Needs(s)
    BY <1>5, <2>3 DEF Prerequisites
  <2>6. q.prereq["spec_review"].response.answer.is = "approve_spec"
    BY <1>1, <1>5, <2>4, <2>5 DEF StepIsRunning, Approved
  <2>7. \A t \in Needs(s) : q.prereq[t].response = Standing(t)
    BY <1>7, <2>4
  <2> QED BY <2>1, <2>4, <2>6, <2>7 DEF IsRequest
<1>6. CASE s = "output_review"
  <2>1. PICK q : q = RoleRequest
    OBVIOUS
  <2>2. q = OutputReviewSubject
    BY <1>6, <2>1 DEF RoleRequest
  <2>3. Prerequisites["output_review"] = Needs(s)
    BY <1>6, StepsAre DEF Needs, Prerequisites
  <2>4. PICK asking, patch : /\ asking = Asking("output_review", [t \in Needs(s) |-> proc.early[t]])
                             /\ patch = run.decision.patch
    OBVIOUS
  <2>5. q = [asking EXCEPT !.bundle = <<>>, !.patch = patch]
    BY <2>2, <2>3, <2>4 DEF OutputReviewSubject
  <2>6. /\ q = [step |-> q.step, prereq |-> q.prereq, bundle |-> q.bundle, revision |-> q.revision,
                patch |-> q.patch, files |-> q.files, repaired |-> q.repaired]
        /\ q.prereq = [t \in Needs(s) |-> proc.early[t]]
    BY <2>4, <2>5 DEF Asking
  <2>7. \A t \in Needs(s) : q.prereq[t].response = Standing(t)
    BY <1>7, <2>6
  <2> QED BY <1>6, <2>1, <2>6, <2>7 DEF IsRequest
<1> QED BY <1>4, <1>5, <1>6

LEMMA WritePromptKeeps ==
  ASSUME ChainInv, WritePrompt
  PROVE  ChainInv'
<1>1. DiskInv /\ ProcInv /\ RunIsTyped
  BY DEF ChainInv, DiskInv
<1>2. proc.pc = "prompt" /\ AtWork /\ run' = run
  BY DEF WritePrompt, AtWork
<1>3. proc.next = Null
  BY <1>1, <1>2 DEF ProcInv, ProcIsTyped
<1>4. PICK key, q : key = <<"prompt", proc.step, proc.attempt>> /\ q = RoleRequest
  OBVIOUS
<1>5. CASE ~Free(key, q)
  <2>1. proc' = Idle /\ UNCHANGED <<run, files>>
    BY <1>2, <1>4, <1>5 DEF WritePrompt
  <2> QED BY <2>1, EndKeeps
<1>6. CASE Free(key, q)
  <2>1. PICK next : next = IF Entries # {} THEN Null ELSE Entry("initial", 0, "request", q, <<>>)
    OBVIOUS
  <2>2. Publish(key, q) /\ proc' = [proc EXCEPT !.pc = "call", !.next = next]
    BY <1>4, <1>6, <2>1 DEF WritePrompt
  <2>3. key[3] = proc.attempt
    BY <1>4, KeysAre
  <2>4. FilesKept /\ FilesTyped' /\ key \in DOMAIN files'
    BY <1>1, <1>2, <1>6, <2>2, <2>3, PublishedAt
  <2>5. IsRequest(q, proc.step) /\ \A t \in Needs(proc.step) : q.prereq[t].response = Standing(t)
    BY <1>1, <1>2, <1>4, RoleRequestIs
  <2>6. proc'.step = proc.step /\ proc'.attempt = proc.attempt
    BY <1>1, <1>2, <2>2 DEF ProcInv, ProcIsTyped
  <2>7. ASSUME Entries = {} PROVE NextHolds(next)' /\ next # Null
    <3>1. /\ next = [step |-> next.step, attempt |-> next.attempt, kind |-> next.kind,
                     round |-> next.round, phase |-> next.phase, request |-> next.request,
                     chain |-> next.chain, answer |-> next.answer]
          /\ next.step = proc.step /\ next.attempt = proc.attempt /\ next.phase = "request"
          /\ next.request = q /\ next.kind = "initial"
      BY <2>1, <2>7 DEF Entry
    <3>2. /\ ProcIsTyped /\ StepsInOrder /\ StepIsRunning /\ proc.step \in StepNames
          /\ proc.attempt \in Nat \ {0} /\ run.st[proc.step] = "running"
      BY <1>1, <1>2 DEF ProcInv, DiskInv, ProcIsTyped, StepIsRunning, AtWork
    <3>3. IsEntry(next)
      BY <2>5, <3>1, <3>2 DEF IsEntry
    <3>4. Entries' = {}
      BY <1>2, <2>6, <2>7, SameEntries
    <3>5. \A t \in Needs(proc.step) : Standing(t)' = Standing(t)
      <4>1. SUFFICES ASSUME NEW t \in Needs(proc.step) PROVE Standing(t)' = Standing(t)
        OBVIOUS
      <4>2. t \in StepNames /\ run.st[t] \in Terminal
        BY <1>1, <3>2, NeedsAre, EarlierDone
      <4> QED BY <1>1, <1>2, <2>4, <3>2, <4>2, ThereStays
    <3>6. next # Null
      <4>1. "step" \in DOMAIN next
        BY <3>1
      <4> QED BY <4>1 DEF Null
    <3> QED BY <2>5, <2>6, <3>1, <3>3, <3>4, <3>5, <3>6 DEF NextHolds, SameAttempt
  <2>8. (next = Null => Entries # {}) /\ (next # Null => NextHolds(next)')
    BY <2>1, <2>7
  <2>9. <<"prompt", proc.step, proc.attempt>> \in DOMAIN files'
    BY <1>4, <2>4
  <2>10. proc.pc \in {"prompt", "call"}
    BY <1>2
  <2> QED BY <1>1, <1>2, <1>3, <2>2, <2>4, <2>8, <2>9, <2>10, NextKeeps
<1> QED BY <1>5, <1>6

\* A developer's step goes on to the gate.
LEMMA PublishDiffKeeps ==
  ASSUME ChainInv, PublishDiff
  PROVE  ChainInv'
<1>1. DiskInv /\ ProcInv /\ RunIsTyped /\ ProcIsTyped
  BY DEF ChainInv, DiskInv, ProcInv
<1>2. proc.pc = "call" /\ proc.next = Null /\ AtWork /\ run' = run
  BY DEF PublishDiff, Answered, AtWork
<1>3. PICK key, diff : key = <<"diff", proc.step, proc.attempt>> /\ diff = Diffs[PatchOf(LastEntry.answer)]
  OBVIOUS
<1>4. PublishOr(key, diff, [proc EXCEPT !.pc = "decide"], Finishes(Failure("post_response_failure")))
  BY <1>3 DEF PublishDiff
<1>5. CASE ~Free(key, diff)
  <2>1. proc' = Finishes(Failure("post_response_failure")) /\ UNCHANGED files
    BY <1>4, <1>5 DEF PublishOr
  <2>2. FilesKept /\ FilesTyped'
    BY <1>1, <2>1, SameFiles
  <2>3. PICK output : output = Failure("post_response_failure")
    OBVIOUS
  <2>4. OutputHolds(output)'
    BY <2>3, FailureHolds
  <2> QED BY <1>1, <1>2, <2>1, <2>2, <2>3, <2>4, FinishesHold
<1>6. CASE Free(key, diff)
  <2>1. Publish(key, diff) /\ proc' = [proc EXCEPT !.pc = "decide"]
    BY <1>4, <1>6 DEF PublishOr
  <2>2. key[3] = proc.attempt
    BY <1>3, KeysAre
  <2>3. FilesKept /\ FilesTyped' /\ key \in DOMAIN files' /\ files'[key] = diff
    BY <1>1, <1>2, <1>6, <2>1, <2>2, PublishedAt
  <2>4. PICK p, q : p = proc /\ q = proc'
    OBVIOUS
  <2>5. p = [pc |-> p.pc, step |-> p.step, attempt |-> p.attempt, early |-> p.early,
             bundle |-> p.bundle, revision |-> p.revision, apply |-> p.apply, next |-> p.next,
             output |-> p.output]
    BY <1>1, <1>2, <2>4 DEF ProcIsTyped
  <2>6. /\ q.pc = "decide" /\ q.step = p.step /\ q.attempt = p.attempt
        /\ q.early = p.early /\ q.next = p.next
        /\ q = [pc |-> q.pc, step |-> q.step, attempt |-> q.attempt, early |-> q.early,
                bundle |-> q.bundle, revision |-> q.revision, apply |-> q.apply, next |-> q.next,
                output |-> q.output]
    BY <2>1, <2>4, <2>5
  <2>7. /\ DiskInv' /\ MemoryStands' /\ StepIsRunning' /\ AttemptIsLast'
        /\ LastEntry' = LastEntry
    BY <1>1, <1>2, <2>3, <2>4, <2>6, CarriesOn
  <2>8. ProcIsTyped'
    BY <1>1, <1>2, <2>4, <2>6 DEF ProcIsTyped
  <2>9. proc.step = "development" /\ PatchOf(LastEntry.answer) \in DOMAIN Diffs
    <3>1. LastEntry.phase = "response" /\ LastEntry.answer.is = "patch_proposed"
      BY DEF PublishDiff, Answered
    <3>2. IsEntry(LastEntry) /\ SameAttempt(LastEntry, proc) /\ proc.step \in StepNames
      BY <1>1, <1>2, LastEntryIs DEF ProcIsTyped
    <3>3. LastEntry.answer \in Read(proc.step)
      BY <3>1, <3>2 DEF IsEntry, SameAttempt
    <3> QED BY <3>1, <3>2, <3>3, AnswerIs
  <2>10. GateStands'
    BY <1>3, <2>3, <2>4, <2>6, <2>7, <2>9 DEF GateStands, PatchOf
  <2>11. NextStands' /\ OutputStands'
    BY <2>4, <2>6 DEF NextStands, OutputStands
  <2> QED BY <2>7, <2>8, <2>10, <2>11 DEF ChainInv, ProcInv
<1> QED BY <1>5, <1>6

\* The decision on file is on the patch on file.
LEMMA DecideKeeps ==
  ASSUME ChainInv, Decide
  PROVE  ChainInv'
<1>1. DiskInv /\ ProcInv /\ RunIsTyped /\ ProcIsTyped /\ GateStands
  BY DEF ChainInv, DiskInv, ProcInv
<1>2. proc.pc = "decide" /\ AtWork /\ run' = run
  BY DEF Decide, AtWork
<1>3. proc.next = Null
  BY <1>1, <1>2 DEF ProcIsTyped
<1>4. PICK diff, key, decision :
        /\ diff = Diffs[PatchOf(LastEntry.answer)]
        /\ key = <<"decision", proc.step, proc.attempt>>
        /\ decision = GatePatch(Policy, diff, proc.apply, PatchOf(LastEntry.answer) \in Fits)
  OBVIOUS
<1>5. PublishOr(key, decision, Finishes(Gated(decision)), Finishes(Failure("post_response_failure")))
  BY <1>4 DEF Decide, Decided
<1>6. CASE ~Free(key, decision)
  <2>1. proc' = Finishes(Failure("post_response_failure")) /\ UNCHANGED files
    BY <1>5, <1>6 DEF PublishOr
  <2>2. FilesKept /\ FilesTyped'
    BY <1>1, <2>1, SameFiles
  <2>3. PICK output : output = Failure("post_response_failure")
    OBVIOUS
  <2>4. OutputHolds(output)'
    BY <2>3, FailureHolds
  <2> QED BY <1>1, <1>2, <1>3, <2>1, <2>2, <2>3, <2>4, FinishesHold
<1>7. CASE Free(key, decision)
  <2>1. Publish(key, decision) /\ proc' = Finishes(Gated(decision))
    BY <1>5, <1>7 DEF PublishOr
  <2>2. key[3] = proc.attempt
    BY <1>4, KeysAre
  <2>3. FilesKept /\ FilesTyped' /\ key \in DOMAIN files' /\ files'[key] = decision
    BY <1>1, <1>2, <1>7, <2>1, <2>2, PublishedAt
  <2>4. PICK output : output = Gated(decision)
    OBVIOUS
  <2>5. proc'.step = proc.step /\ proc'.attempt = proc.attempt
    BY <1>1, <1>2, <2>1 DEF Finishes, ProcIsTyped
  <2>6. CASE output = Failure("post_response_failure")
    <3>1. OutputHolds(output)'
      BY <2>6, FailureHolds
    <3> QED BY <1>1, <1>2, <1>3, <2>1, <2>3, <2>4, <3>1, FinishesHold
  <2>7. CASE output # Failure("post_response_failure")
    <3>1. /\ output.status = (IF decision.kind = "rejected" THEN "failed" ELSE "completed")
          /\ output.decision = decision
          /\ output = [status |-> output.status, artifact |-> output.artifact, decision |-> output.decision]
      BY <2>4, <2>7 DEF Gated, Output
    <3>2. /\ proc.step = "development" /\ diff \in Seq(DiffLine)
          /\ <<"diff", "development", proc.attempt>> \in DOMAIN files
          /\ files[<<"diff", "development", proc.attempt>>] = diff
      BY <1>1, <1>2, <1>4, AnswersAssumption DEF GateStands
    <3>3. decision.kind # "rejected" => Clears(decision, diff)
      BY <1>4, <3>2, GateClears
    <3>4. /\ <<"diff", "development", proc.attempt>> \in DOMAIN files'
          /\ files'[<<"diff", "development", proc.attempt>>] = diff
      BY <2>3, <3>2 DEF FilesKept
    <3>5. key = <<"decision", "development", proc.attempt>>
      BY <1>4, <3>2
    <3>6. output.status = "completed" => OnFile(proc.attempt, decision)'
      BY <2>3, <2>5, <3>1, <3>3, <3>4, <3>5 DEF OnFile
    <3>7. OutputHolds(output)'
      BY <2>5, <3>1, <3>2, <3>6 DEF OutputHolds
    <3> QED BY <1>1, <1>2, <1>3, <2>1, <2>3, <2>4, <3>7, FinishesHold
  <2> QED BY <2>6, <2>7
<1> QED BY <1>6, <1>7

LEMMA WriteArtifactKeeps ==
  ASSUME ChainInv, WriteArtifact
  PROVE  ChainInv'
<1>1. DiskInv /\ ProcInv /\ RunIsTyped /\ ProcIsTyped /\ OutputStands
  BY DEF ChainInv, DiskInv, ProcInv
<1>2. proc.pc = "artifact" /\ AtWork /\ run' = run
  BY DEF WriteArtifact, AtWork
<1>3. proc.next = Null
  BY <1>1, <1>2 DEF ProcIsTyped
<1>4. PICK key, artifact : key = <<"artifact", proc.step, proc.attempt>> /\ artifact = proc.output.artifact
  OBVIOUS
<1>5. \/ proc' = Idle /\ UNCHANGED <<run, files>>
      \/ Free(key, artifact) /\ Publish(key, artifact) /\ proc' = [proc EXCEPT !.pc = "persist"]
  BY <1>4 DEF WriteArtifact, ArtifactName
<1>6. CASE proc' = Idle /\ UNCHANGED <<run, files>>
  BY <1>6, EndKeeps
<1>7. CASE Free(key, artifact) /\ Publish(key, artifact) /\ proc' = [proc EXCEPT !.pc = "persist"]
  <2>2. key[3] = proc.attempt
    BY <1>4, KeysAre
  <2>3. FilesKept /\ FilesTyped' /\ key \in DOMAIN files' /\ files'[key] = artifact
    BY <1>1, <1>2, <1>7, <2>2, PublishedAt
  <2>4. PICK p, q : p = proc /\ q = proc'
    OBVIOUS
  <2>5. p = [pc |-> p.pc, step |-> p.step, attempt |-> p.attempt, early |-> p.early,
             bundle |-> p.bundle, revision |-> p.revision, apply |-> p.apply, next |-> p.next,
             output |-> p.output]
    BY <1>1, <1>2, <2>4 DEF ProcIsTyped
  <2>6. /\ q.pc = "persist" /\ q.step = p.step /\ q.attempt = p.attempt
        /\ q.early = p.early /\ q.next = p.next /\ q.output = p.output
        /\ q = [pc |-> q.pc, step |-> q.step, attempt |-> q.attempt, early |-> q.early,
                bundle |-> q.bundle, revision |-> q.revision, apply |-> q.apply, next |-> q.next,
                output |-> q.output]
    BY <1>7, <2>4, <2>5
  <2>7. DiskInv' /\ MemoryStands' /\ StepIsRunning' /\ AttemptIsLast'
    BY <1>1, <1>2, <1>3, <2>3, <2>4, <2>6, CarriesOn
  <2>8. ProcIsTyped'
    BY <1>1, <1>2, <2>4, <2>6 DEF ProcIsTyped
  <2>9. PICK a, o, d : a = proc.attempt /\ o = proc.output /\ d = o.decision
    OBVIOUS
  <2>10. OutputHolds(o)
    BY <1>1, <1>2, <2>9 DEF OutputStands
  <2>11. OnFile(a, d) => OnFile(a, d)'
    BY <2>3, OnFileStays
  <2>12. OutputHolds(o)'
    BY <2>4, <2>6, <2>9, <2>10, <2>11 DEF OutputHolds
  <2>14. OutputStands'
    BY <1>4, <2>3, <2>4, <2>6, <2>9, <2>12 DEF OutputStands
  <2>13. NextStands' /\ GateStands'
    BY <2>4, <2>6 DEF NextStands, GateStands
  <2> QED BY <2>7, <2>8, <2>13, <2>14 DEF ChainInv, ProcInv
<1> QED BY <1>5, <1>6, <1>7

(* The ledger grows.                                                       *)

\* A record that may follow the ones of its attempt.
Follows(e) ==
  /\ IsEntry(e) /\ SameAttempt(e, proc)
  /\ Entries = {} => e.kind = "initial" /\ e.phase = "request"
  /\ \A j \in Entries : run.ledger[j].request.prereq = e.request.prereq
  /\ \A t \in Needs(e.step) : e.request.prereq[t].response = Standing(t)

LEMMA LedgerGrows ==
  ASSUME DiskInv, ProcInv, proc.pc = "call", NEW e, Follows(e), UNCHANGED files,
         run' = [run EXCEPT !.ledger = Append(@, e)]
  PROVE  /\ DiskInv' /\ run'.st = run.st /\ run'.art = run.art /\ run'.status = run.status
         /\ Len(run'.ledger) \in RecordsOf(run', proc.step, proc.attempt)
<1> DEFINE n == Len(run.ledger)
<1>1. /\ RunIsTyped /\ StepsInOrder /\ LedgerHolds /\ PatchIsDecided /\ AwaitsApproval
      /\ StepIsRunning /\ AttemptIsLast /\ ProcIsTyped /\ AtWork
  BY DEF DiskInv, ProcInv, AtWork
<1>2. PICK r, q : r = run /\ q = run'
  OBVIOUS
<1>3. r = [status |-> r.status, step |-> r.step, st |-> r.st, art |-> r.art,
           ledger |-> r.ledger, decision |-> r.decision, recovery |-> r.recovery,
           patch |-> r.patch]
  BY <1>1, <1>2 DEF RunIsTyped
<1>4. PICK l : l = Append(r.ledger, e)
  OBVIOUS
<1>5. q = [r EXCEPT !.ledger = l]
  BY <1>2, <1>4
<1>6. /\ q.ledger = l /\ q.status = r.status /\ q.step = r.step /\ q.st = r.st /\ q.art = r.art
      /\ q.decision = r.decision /\ q.recovery = r.recovery /\ q.patch = r.patch
      /\ q = [status |-> q.status, step |-> q.step, st |-> q.st, art |-> q.art,
              ledger |-> q.ledger, decision |-> q.decision, recovery |-> q.recovery,
              patch |-> q.patch]
  BY <1>3, <1>5
<1>7. run'.ledger = Append(run.ledger, e)
  BY <1>2, <1>4, <1>6
<1>8. /\ n \in Nat /\ DOMAIN run.ledger = 1 .. n
      /\ Len(run'.ledger) = n + 1 /\ DOMAIN run'.ledger = 1 .. n + 1
      /\ run'.ledger \in Seq(ToSet(run'.ledger))
      /\ \A k \in 1 .. n : run'.ledger[k] = run.ledger[k]
      /\ run'.ledger[n + 1] = e
      /\ RunIsTyped' => \A s : LastAsked(s)' = IF s = e.step THEN n + 1 ELSE LastAsked(s)
  BY <1>1, <1>7, LedgerAppended
<1>9. /\ run'.st = run.st /\ run'.art = run.art /\ run'.status = run.status
      /\ run'.decision = run.decision /\ run'.patch = run.patch
  BY <1>2, <1>6
<1>10. RunIsTyped'
  BY <1>1, <1>2, <1>6, <1>8 DEF RunIsTyped
<1> HIDE DEF n
<1>11. \A s : LastAsked(s)' = IF s = e.step THEN n + 1 ELSE LastAsked(s)
  BY <1>8, <1>10
<1>12. StepsInOrder' /\ PatchIsDecided' /\ AwaitsApproval'
  BY <1>1, <1>9 DEF StepsInOrder, PatchIsDecided, AwaitsApproval, OnFile, Answer, Clears
<1>13. e.step = proc.step /\ e.attempt = proc.attempt /\ e.step \in StepNames /\ run.st[e.step] = "running"
  BY <1>1 DEF Follows, SameAttempt, ProcIsTyped, StepIsRunning, AtWork
<1>14. \A i \in Initials(run) : i \in Initials(run')
  <2>1. SUFFICES ASSUME NEW i \in Initials(run) PROVE i \in Initials(run')
    OBVIOUS
  <2>2. PICK k \in DOMAIN run.ledger : /\ run.ledger[k].kind = "initial" /\ run.ledger[k].phase = "request"
                                       /\ i = run.ledger[k]
    BY DEF Initials
  <2>3. k \in 1 .. n + 1 /\ run'.ledger[k] = run.ledger[k]
    BY <1>8, <2>2
  <2> QED BY <1>8, <2>2, <2>3 DEF Initials
<1>15. \A t : Standing(t)' = Standing(t)
  BY <1>9 DEF Standing
<1>16. \A k \in 1 .. n : k \in Entries <=> SameAttempt(run.ledger[k], e)
  BY <1>1, <1>8, <1>13, EntriesAre DEF SameAttempt
<1> DEFINE Holds(k) ==
      LET f == run'.ledger[k]
      IN  /\ IsEntry(f) /\ <<"prompt", f.step, f.attempt>> \in DOMAIN files
          /\ \E i \in Initials(run') : SameAttempt(i, f)
          /\ \A j \in 1 .. n + 1 :
               SameAttempt(run'.ledger[j], f) => run'.ledger[j].request.prereq = f.request.prereq
          /\ \A t \in Needs(f.step) : LastAsked(t)' < k /\ run.st[t] \in Terminal =>
               f.request.prereq[t].response = Standing(t)
<1>17. ASSUME NEW k \in 1 .. n PROVE Holds(k)
  <2>1. PICK f : f = run.ledger[k]
    OBVIOUS
  <2>2. /\ IsEntry(f) /\ <<"prompt", f.step, f.attempt>> \in DOMAIN files
        /\ \E i \in Initials(run) : SameAttempt(i, f)
        /\ \A j \in 1 .. n :
             SameAttempt(run.ledger[j], f) => run.ledger[j].request.prereq = f.request.prereq
        /\ \A t \in Needs(f.step) : LastAsked(t) < k /\ run.st[t] \in Terminal =>
             f.request.prereq[t].response = Standing(t)
    BY <1>1, <1>8, <2>1 DEF LedgerHolds
  <2>3. run'.ledger[k] = f
    BY <1>8, <2>1
  <2>4. \E i \in Initials(run') : SameAttempt(i, f)
    BY <1>14, <2>2
  <2>5. ASSUME NEW j \in 1 .. n + 1, SameAttempt(run'.ledger[j], f)
        PROVE  run'.ledger[j].request.prereq = f.request.prereq
    <3>1. CASE j \in 1 .. n
      BY <1>8, <2>2, <2>5, <3>1
    <3>2. CASE j = n + 1
      <4>1. SameAttempt(f, e)
        BY <1>8, <2>5, <3>2 DEF SameAttempt
      <4>2. k \in Entries
        BY <1>16, <2>1, <4>1
      <4> QED BY <1>8, <2>1, <3>2, <4>2 DEF Follows
    <3> QED BY <1>8, <3>1, <3>2
  <2>6. ASSUME NEW t \in Needs(f.step), LastAsked(t)' < k, run.st[t] \in Terminal
        PROVE  f.request.prereq[t].response = Standing(t)
    <3>1. LastAsked(t)' = LastAsked(t)
      BY <1>8, <1>11, <2>6
    <3> QED BY <2>2, <2>6, <3>1
  <2> QED BY <2>2, <2>3, <2>4, <2>5, <2>6
<1>18. Holds(n + 1)
  <2>1. run'.ledger[n + 1] = e /\ n + 1 \in 1 .. n + 1
    BY <1>8
  <2>2. IsEntry(e) /\ <<"prompt", e.step, e.attempt>> \in DOMAIN files
    BY <1>1, <1>13 DEF Follows, AttemptIsLast
  <2>3. \E i \in Initials(run') : SameAttempt(i, e)
    <3>1. CASE Entries = {}
      <4>1. e \in Initials(run')
        BY <1>8, <2>1, <3>1 DEF Follows, Initials
      <4> QED BY <4>1 DEF SameAttempt
    <3>2. CASE Entries # {}
      <4>1. PICK j \in Entries : TRUE
        BY <3>2
      <4>2. j \in 1 .. n /\ SameAttempt(run.ledger[j], e)
        BY <1>1, <1>8, <1>16, EntriesAre
      <4>3. PICK i \in Initials(run) : SameAttempt(i, run.ledger[j])
        BY <1>1, <1>8, <4>2 DEF LedgerHolds
      <4> QED BY <1>14, <4>2, <4>3 DEF SameAttempt
    <3> QED BY <3>1, <3>2
  <2>4. ASSUME NEW j \in 1 .. n + 1, SameAttempt(run'.ledger[j], e)
        PROVE  run'.ledger[j].request.prereq = e.request.prereq
    <3>1. CASE j \in 1 .. n
      BY <1>8, <1>16, <2>4, <3>1 DEF Follows
    <3>2. CASE j = n + 1
      BY <2>1, <3>2
    <3> QED BY <1>8, <3>1, <3>2
  <2>5. \A t \in Needs(e.step) : e.request.prereq[t].response = Standing(t)
    BY DEF Follows
  <2> QED BY <2>1, <2>2, <2>3, <2>4, <2>5
<1>19. \A k \in 1 .. n + 1 : Holds(k)
  <2>1. \A k \in 1 .. n + 1 : k \in 1 .. n \/ k = n + 1
    BY <1>8
  <2> HIDE DEF Holds
  <2> QED BY <1>17, <1>18, <2>1
<1>20. ASSUME NEW t \in StepNames, run.st[t] \in Terminal
       PROVE  /\ LastAsked(t)' > 0
              /\ \A s \in StepNames : Rank[s] < Rank[t] => LastAsked(s)' < LastAsked(t)'
  <2>1. /\ LastAsked(t) > 0
        /\ \A s \in StepNames : Rank[s] < Rank[t] => LastAsked(s) < LastAsked(t)
    BY <1>1, <1>20 DEF LedgerHolds
  <2>2. t # e.step
    BY <1>13, <1>20 DEF Terminal
  <2>3. ~(Rank[e.step] < Rank[t])
    BY <1>1, <1>13, <1>20 DEF StepsInOrder, Open, Terminal
  <2> QED BY <1>11, <2>1, <2>2, <2>3
<1>21. LedgerHolds'
  <2>1. \A k \in DOMAIN run'.ledger :
          LET f == run'.ledger[k]
          IN  /\ IsEntry(f) /\ <<"prompt", f.step, f.attempt>> \in DOMAIN files'
              /\ \E i \in Initials(run') : SameAttempt(i, f)
              /\ \A j \in DOMAIN run'.ledger :
                   SameAttempt(run'.ledger[j], f) => run'.ledger[j].request.prereq = f.request.prereq
              /\ \A t \in Needs(f.step) : LastAsked(t)' < k /\ run'.st[t] \in Terminal =>
                   f.request.prereq[t].response = Standing(t)'
    <3>1. SUFFICES ASSUME NEW k \in 1 .. n + 1
                   PROVE
          LET f == run'.ledger[k]
          IN  /\ IsEntry(f) /\ <<"prompt", f.step, f.attempt>> \in DOMAIN files'
              /\ \E i \in Initials(run') : SameAttempt(i, f)
              /\ \A j \in DOMAIN run'.ledger :
                   SameAttempt(run'.ledger[j], f) => run'.ledger[j].request.prereq = f.request.prereq
              /\ \A t \in Needs(f.step) : LastAsked(t)' < k /\ run'.st[t] \in Terminal =>
                   f.request.prereq[t].response = Standing(t)'
      BY <1>8
    <3>2. Holds(k)
      BY <1>19
    <3> QED BY <1>8, <1>9, <1>15, <3>2
  <2>2. \A t \in StepNames : run'.st[t] \in Terminal =>
          /\ LastAsked(t)' > 0
          /\ \A s \in StepNames : Rank[s] < Rank[t] => LastAsked(s)' < LastAsked(t)'
    BY <1>9, <1>20
  <2> QED BY <2>1, <2>2 DEF LedgerHolds
<1>22. Len(run'.ledger) \in RecordsOf(run', proc.step, proc.attempt)
  BY <1>8, <1>13 DEF RecordsOf
<1> QED BY <1>9, <1>10, <1>12, <1>21, <1>22 DEF DiskInv

\* The process after a record was appended.
LEMMA AppendedKeeps ==
  ASSUME DiskInv, ProcInv, proc.pc = "call", NEW e, Follows(e), UNCHANGED files,
         run' = [run EXCEPT !.ledger = Append(@, e)],
         ProcIsTyped', proc'.pc = "call", proc'.step = proc.step, proc'.attempt = proc.attempt,
         proc'.early = proc.early, proc'.next = Null
  PROVE  ChainInv'
<1>1. /\ DiskInv' /\ run'.st = run.st /\ run'.art = run.art /\ run'.status = run.status
      /\ Len(run'.ledger) \in RecordsOf(run', proc.step, proc.attempt)
  BY LedgerGrows
<1>2. MemoryStands /\ StepIsRunning /\ AttemptIsLast /\ AtWork
  BY DEF ProcInv, AtWork
<1>3. MemoryStands'
  BY <1>1, <1>2 DEF MemoryStands, Standing
<1>4. StepIsRunning'
  BY <1>1, <1>2 DEF StepIsRunning, Approved
<1>5. Len(run'.ledger) \in Entries'
  BY <1>1 DEF Entries
<1>6. AttemptIsLast'
  BY <1>2, <1>5 DEF AttemptIsLast, AtTheEnd, AtWork
<1>7. NextStands' /\ GateStands' /\ OutputStands'
  BY DEF NextStands, GateStands, OutputStands
<1> QED BY <1>1, <1>3, <1>4, <1>6, <1>7 DEF ChainInv, ProcInv

LEMMA AppendRequestKeeps ==
  ASSUME ChainInv, AppendRequest
  PROVE  ChainInv'
<1>1. DiskInv /\ ProcInv /\ ProcIsTyped
  BY DEF ChainInv, ProcInv
<1>2. /\ proc.pc = "call" /\ proc.next # Null /\ UNCHANGED files
      /\ run' = [run EXCEPT !.ledger = Append(@, proc.next)]
      /\ proc' = [proc EXCEPT !.next = Null]
  BY DEF AppendRequest
<1>3. PICK e : e = proc.next
  OBVIOUS
<1>4. NextHolds(e)
  BY <1>1, <1>2, <1>3 DEF ProcInv, NextStands
<1>5. Follows(e)
  BY <1>4 DEF NextHolds, Follows
<1>6. run' = [run EXCEPT !.ledger = Append(@, e)]
  BY <1>2, <1>3
<1>7. PICK p, q : p = proc /\ q = proc'
  OBVIOUS
<1>8. p = [pc |-> p.pc, step |-> p.step, attempt |-> p.attempt, early |-> p.early,
           bundle |-> p.bundle, revision |-> p.revision, apply |-> p.apply, next |-> p.next,
           output |-> p.output]
  BY <1>1, <1>2, <1>7 DEF ProcIsTyped
<1>9. /\ q.pc = p.pc /\ q.step = p.step /\ q.attempt = p.attempt
      /\ q.early = p.early /\ q.next = Null
      /\ q = [pc |-> q.pc, step |-> q.step, attempt |-> q.attempt, early |-> q.early,
              bundle |-> q.bundle, revision |-> q.revision, apply |-> q.apply, next |-> q.next,
              output |-> q.output]
  BY <1>2, <1>7, <1>8
<1>10. ProcIsTyped'
  BY <1>1, <1>2, <1>7, <1>9 DEF ProcIsTyped
<1> QED BY <1>1, <1>2, <1>5, <1>6, <1>7, <1>9, <1>10, AppendedKeeps

LEMMA AskKeeps ==
  ASSUME ChainInv, Ask
  PROVE  ChainInv'
<1>1. DiskInv /\ ProcInv /\ ProcIsTyped
  BY DEF ChainInv, ProcInv
<1>2. proc.pc = "call" /\ proc.next = Null /\ UNCHANGED <<files, proc>> /\ AtWork
  BY DEF Ask, AtWork
<1>3. PICK result \in Answers[proc.step] :
        run' = [run EXCEPT !.ledger =
                  Append(@, [LastEntry EXCEPT
                               !.phase = "response",
                               !.answer = ReadAnswer(Diffs, RoleOf[proc.step], result)])]
  BY DEF Ask
<1>4. PICK l, a, e : /\ l = LastEntry /\ a = ReadAnswer(Diffs, RoleOf[proc.step], result)
                     /\ e = [l EXCEPT !.phase = "response", !.answer = a]
  OBVIOUS
<1>5. run' = [run EXCEPT !.ledger = Append(@, e)]
  BY <1>3, <1>4
<1>6. /\ Entries # {} /\ IsEntry(l) /\ SameAttempt(l, proc)
      /\ \A k \in Entries : run.ledger[k].request.prereq = l.request.prereq
      /\ \A t \in Needs(proc.step) : l.request.prereq[t].response = Standing(t)
  BY <1>1, <1>2, <1>4, LastEntryIs
<1>7. /\ e = [step |-> e.step, attempt |-> e.attempt, kind |-> e.kind, round |-> e.round,
              phase |-> e.phase, request |-> e.request, chain |-> e.chain, answer |-> e.answer]
      /\ e.step = l.step /\ e.attempt = l.attempt /\ e.request = l.request /\ e.answer = a
  BY <1>4, <1>6 DEF IsEntry
<1>8. a \in Read(l.step)
  BY <1>4, <1>6 DEF Read, SameAttempt
<1>9. IsEntry(e)
  BY <1>6, <1>7, <1>8 DEF IsEntry
<1>10. Follows(e)
  BY <1>6, <1>7, <1>9 DEF Follows, SameAttempt
<1>11. ProcIsTyped'
  BY <1>1, <1>2 DEF ProcIsTyped
<1> QED BY <1>1, <1>2, <1>5, <1>10, <1>11, AppendedKeeps

(* Steps that change run.json besides the ledger.                          *)

\* A run whose ledger is the same: what is asked of the ledger when the state of
\* steps changes.
LEMMA LedgerKept ==
  ASSUME DiskInv, run'.ledger = run.ledger, FilesKept,
         \A t \in StepNames : run'.st[t] \in Terminal =>
           \/ run.st[t] \in Terminal /\ run'.art[t] = run.art[t]
           \/ /\ LastAsked(t) = Len(run.ledger) /\ run.ledger # <<>>
  PROVE  LedgerHolds'
<1>1. RunIsTyped /\ StepsInOrder /\ LedgerHolds
  BY DEF DiskInv
<1>2. \A s : LastAsked(s)' = LastAsked(s)
  BY SameLedger
<1>3. \A k \in DOMAIN run.ledger : run.ledger[k].step \in StepNames
  BY <1>1 DEF LedgerHolds, IsEntry
<1>4. Initials(run') = Initials(run)
  BY DEF Initials
<1>5. ASSUME NEW k \in DOMAIN run.ledger, NEW t \in Needs(run.ledger[k].step),
             LastAsked(t) < k, run'.st[t] \in Terminal
      PROVE  run.ledger[k].request.prereq[t].response = Standing(t)'
  <2>1. t \in StepNames
    BY <1>3, NeedsAre
  <2>2. LastAsked(t) # Len(run.ledger)
    BY <1>1, <1>5, LedgerIs, LastAskedIs
  <2>3. run.st[t] \in Terminal /\ run'.art[t] = run.art[t]
    BY <1>5, <2>1, <2>2
  <2>4. Standing(t)' = Standing(t)
    BY <1>1, <2>1, <2>3, ThereStays
  <2> QED BY <1>1, <1>5, <2>3, <2>4 DEF LedgerHolds
<1>6. ASSUME NEW t \in StepNames, run'.st[t] \in Terminal
      PROVE  /\ LastAsked(t) > 0
             /\ \A s \in StepNames : Rank[s] < Rank[t] => LastAsked(s) < LastAsked(t)
  <2>1. CASE run.st[t] \in Terminal
    BY <1>1, <2>1 DEF LedgerHolds
  <2>2. CASE run.st[t] \notin Terminal
    <3>1. LastAsked(t) = Len(run.ledger) /\ run.ledger # <<>>
      BY <1>6, <2>2
    <3>2. Len(run.ledger) \in Nat /\ Len(run.ledger) > 0
      <4>1. run.ledger \in Seq(ToSet(run.ledger))
        BY <1>1 DEF RunIsTyped
      <4> QED BY <3>1, <4>1
    <3>3. ASSUME NEW s \in StepNames, Rank[s] < Rank[t] PROVE LastAsked(s) < LastAsked(t)
      <4>1. /\ LastAsked(s) \in Nat /\ LastAsked(s) <= Len(run.ledger)
            /\ LastAsked(s) > 0 => run.ledger[LastAsked(s)].step = s
        BY <1>1, LastAskedIs
      <4>2. run.ledger[LastAsked(t)].step = t
        BY <1>1, <3>1, <3>2, LastAskedIs
      <4>3. s # t
        BY <3>3, StepsAre
      <4>4. LastAsked(s) # Len(run.ledger)
        BY <3>1, <3>2, <4>1, <4>2, <4>3
      <4> QED BY <3>1, <3>2, <4>1, <4>4
    <3> QED BY <3>1, <3>2, <3>3
  <2> QED BY <2>1, <2>2
<1>7. ASSUME NEW k \in DOMAIN run.ledger
      PROVE  LET e == run.ledger[k]
             IN  /\ IsEntry(e) /\ <<"prompt", e.step, e.attempt>> \in DOMAIN files'
                 /\ \E i \in Initials(run') : SameAttempt(i, e)
                 /\ \A j \in DOMAIN run.ledger :
                      SameAttempt(run.ledger[j], e) => run.ledger[j].request.prereq = e.request.prereq
  BY <1>1, <1>4 DEF LedgerHolds, FilesKept
<1>8. \A k \in DOMAIN run'.ledger :
        LET f == run'.ledger[k]
        IN  /\ IsEntry(f) /\ <<"prompt", f.step, f.attempt>> \in DOMAIN files'
            /\ \E i \in Initials(run') : SameAttempt(i, f)
            /\ \A j \in DOMAIN run'.ledger :
                 SameAttempt(run'.ledger[j], f) => run'.ledger[j].request.prereq = f.request.prereq
            /\ \A t \in Needs(f.step) : LastAsked(t)' < k /\ run'.st[t] \in Terminal =>
                 f.request.prereq[t].response = Standing(t)'
  BY <1>2, <1>5, <1>7
<1>9. \A t \in StepNames : run'.st[t] \in Terminal =>
        /\ LastAsked(t)' > 0
        /\ \A s \in StepNames : Rank[s] < Rank[t] => LastAsked(s)' < LastAsked(t)'
  BY <1>2, <1>6
<1> QED BY <1>8, <1>9 DEF LedgerHolds

IsRun(r) ==
  r = [status |-> r.status, step |-> r.step, st |-> r.st, art |-> r.art, ledger |-> r.ledger,
       decision |-> r.decision, recovery |-> r.recovery, patch |-> r.patch]

IsProc(p) ==
  p = [pc |-> p.pc, step |-> p.step, attempt |-> p.attempt, early |-> p.early,
       bundle |-> p.bundle, revision |-> p.revision, apply |-> p.apply, next |-> p.next,
       output |-> p.output]

\* What the end of a step leaves in run.json.
LEMMA PersistIs ==
  ASSUME ChainInv, Persist, NEW s, s = proc.step, NEW status, status = proc.output.status
  PROVE  /\ IsRun(run')
         /\ run'.st = [run.st EXCEPT ![s] = status] /\ run'.art = [run.art EXCEPT ![s] = proc.attempt]
         /\ run'.status = StatusAfter(s, status) /\ run'.step \in StepNames
         /\ run'.decision = IF proc.output.decision # Null THEN proc.output.decision ELSE run.decision
         /\ run'.ledger = run.ledger /\ run'.recovery = run.recovery /\ run'.patch = run.patch
<1>1. RunIsTyped /\ ProcIsTyped /\ proc.pc = "persist"
  BY DEF ChainInv, DiskInv, ProcInv, Persist
<1>2. PICK r, q : r = run /\ q = run'
  OBVIOUS
<1>3. IsRun(r)
  BY <1>1, <1>2 DEF RunIsTyped, IsRun
<1>4. PICK st, art, decision :
        /\ st = [r.st EXCEPT ![s] = status] /\ art = [r.art EXCEPT ![s] = proc.attempt]
        /\ decision = IF proc.output.decision # Null THEN proc.output.decision ELSE run.decision
  OBVIOUS
<1>5. PICK stepped : stepped = [r EXCEPT !.st = st, !.art = art]
  OBVIOUS
<1>6. PICK step, after : /\ step = IF Advances(status) /\ NextStep(stepped) # NoStep
                                   THEN NextStep(stepped) ELSE s
                         /\ after = StatusAfter(s, status)
  OBVIOUS
<1>7. stepped = [run EXCEPT !.st[s] = status, !.art[s] = proc.attempt]
  BY <1>2, <1>4, <1>5
<1>8. IsRun(stepped) /\ stepped.decision = r.decision
      /\ stepped.st = st /\ stepped.art = art /\ stepped.ledger = r.ledger
      /\ stepped.recovery = r.recovery /\ stepped.patch = r.patch
  BY <1>3, <1>5 DEF IsRun
<1>9. q = [stepped EXCEPT !.status = after, !.step = step, !.decision = decision]
  BY <1>2, <1>4, <1>6, <1>7, <1>8 DEF Persist
<1>10. /\ IsRun(q) /\ q.st = st /\ q.art = art /\ q.status = after /\ q.step = step
       /\ q.decision = decision /\ q.ledger = r.ledger /\ q.recovery = r.recovery
       /\ q.patch = r.patch
  BY <1>8, <1>9 DEF IsRun
<1>11. step \in StepNames
  <2>1. NextStep(stepped) = NoStep \/ NextStep(stepped) \in StepNames
    BY NextStepIs
  <2> QED BY <1>1, <1>6, <2>1 DEF ProcIsTyped
<1> QED BY <1>2, <1>4, <1>6, <1>10, <1>11

LEMMA PersistKeeps ==
  ASSUME ChainInv, Persist
  PROVE  ChainInv'
<1>1. /\ DiskInv /\ ProcInv /\ RunIsTyped /\ StepsInOrder /\ LedgerHolds /\ PatchIsDecided
      /\ AwaitsApproval /\ ProcIsTyped /\ MemoryStands /\ StepIsRunning /\ AttemptIsLast
      /\ OutputStands
  BY DEF ChainInv, DiskInv, ProcInv
<1>2. proc.pc = "persist" /\ AtWork /\ UNCHANGED files
  BY DEF Persist, AtWork
<1>3. PICK s, status, output : s = proc.step /\ output = proc.output /\ status = output.status
  OBVIOUS
<1>4. /\ IsRun(run')
      /\ run'.st = [run.st EXCEPT ![s] = status] /\ run'.art = [run.art EXCEPT ![s] = proc.attempt]
      /\ run'.status = StatusAfter(s, status) /\ run'.step \in StepNames
      /\ run'.decision = IF output.decision # Null THEN output.decision ELSE run.decision
      /\ run'.ledger = run.ledger /\ run'.recovery = run.recovery /\ run'.patch = run.patch
  BY <1>3, PersistIs
<1>5. /\ s \in StepNames /\ proc.attempt \in Nat \ {0} /\ run.st[s] = "running"
      /\ run.status = "running" /\ proc.next = Null
  BY <1>1, <1>2, <1>3 DEF ProcIsTyped, StepIsRunning, AtWork
<1>6. /\ OutputHolds(output) /\ <<"artifact", s, proc.attempt>> \in DOMAIN files
      /\ files[<<"artifact", s, proc.attempt>>] = output.artifact
  BY <1>1, <1>2, <1>3 DEF OutputStands
<1>7. status \in Terminal /\ status \in {"completed", "passed", "blocked", "failed"}
  BY <1>3, <1>6 DEF OutputHolds, Terminal
<1>8. /\ run.st \in [StepNames -> Open \cup Terminal] /\ run.art \in [StepNames -> Nat]
  BY <1>1 DEF RunIsTyped
<1>9. /\ \A t \in StepNames : t # s => run'.st[t] = run.st[t] /\ run'.art[t] = run.art[t]
      /\ run'.st[s] = status /\ run'.art[s] = proc.attempt
      /\ run'.st \in [StepNames -> Open \cup Terminal] /\ run'.art \in [StepNames -> Nat]
  BY <1>4, <1>5, <1>7, <1>8
<1>10. /\ FilesKept /\ FilesTyped' /\ LastAsked(s) = Len(run.ledger) /\ run.ledger # <<>>
       /\ AtTheEnd
  <2>1. Entries # {} /\ Len(run.ledger) \in DOMAIN run.ledger /\ LastAsked(s) = Len(run.ledger)
    BY <1>1, <1>2, <1>3, <1>5, LastEntryIs
  <2>2. run.ledger # <<>>
    <3>1. DOMAIN <<>> = {}
      OBVIOUS
    <3> QED BY <2>1, <3>1
  <2> QED BY <1>1, <1>2, <2>1, <2>2, SameFiles DEF AttemptIsLast
<1>11. RunIsTyped'
  <2>1. run'.status \in {"pending", "running", "blocked", "failed", "awaiting"}
    BY <1>4, <1>7 DEF StatusAfter, Advances
  <2> QED BY <1>1, <1>2, <1>4, <1>9, <2>1 DEF RunIsTyped, IsRun
<1>12. StepsInOrder'
  <2>1. ASSUME NEW u \in StepNames, NEW t \in StepNames, Rank[u] < Rank[t], run'.st[u] \in Open
        PROVE  run'.st[t] = "pending"
    <3>1. u # s
      BY <1>7, <1>9, <2>1 DEF Open, Terminal
    <3>2. run.st[t] = "pending"
      BY <1>1, <1>9, <2>1, <3>1 DEF StepsInOrder
    <3> QED BY <1>5, <1>9, <3>2
  <2>2. ASSUME NEW u \in StepNames, run'.st[u] \in Terminal
        PROVE  <<"artifact", u, run'.art[u]>> \in DOMAIN files
    <3>1. CASE u = s
      BY <1>6, <1>9, <3>1
    <3>2. CASE u # s
      BY <1>1, <1>9, <2>2, <3>2 DEF StepsInOrder
    <3> QED BY <3>1, <3>2
  <2> QED BY <1>2, <2>1, <2>2 DEF StepsInOrder
<1>13. LedgerHolds'
  <2>1. \A t \in StepNames : run'.st[t] \in Terminal =>
           \/ run.st[t] \in Terminal /\ run'.art[t] = run.art[t]
           \/ LastAsked(t) = Len(run.ledger) /\ run.ledger # <<>>
    BY <1>9, <1>10
  <2> QED BY <1>1, <1>4, <1>10, <2>1, LedgerKept
<1>14. PatchIsDecided'
  <2>1. "development" \in StepNames
    BY StepsAre
  <2>2. CASE s = "development"
    <3>1. run.patch # "applied"
      BY <1>1, <1>5, <2>2 DEF PatchIsDecided
    <3>2. ASSUME status = "completed"
          PROVE  OnFile(run.art["development"], run.decision)'
      <4>1. OnFile(proc.attempt, output.decision)
        BY <1>3, <1>6, <2>2, <3>2 DEF OutputHolds
      <4>2. run'.art["development"] = proc.attempt /\ run'.decision = output.decision
        BY <1>4, <1>9, <2>2, <4>1 DEF OnFile, Clears
      <4>3. PICK a, d : a = proc.attempt /\ d = output.decision
        OBVIOUS
      <4>4. OnFile(a, d)'
        BY <1>10, <4>1, <4>3, OnFileStays
      <4> QED BY <4>2, <4>3, <4>4
    <3> QED BY <1>4, <1>9, <2>2, <3>1, <3>2 DEF PatchIsDecided
  <2>3. CASE s # "development"
    <3>1. output.decision = Null
      BY <1>3, <1>6, <2>3 DEF OutputHolds
    <3>2. /\ run'.decision = run.decision /\ run'.st["development"] = run.st["development"]
          /\ run'.art["development"] = run.art["development"]
      BY <1>4, <1>9, <2>1, <2>3, <3>1
    <3> QED BY <1>1, <1>2, <1>4, <3>2 DEF PatchIsDecided, OnFile, Clears
  <2> QED BY <2>2, <2>3
<1>15. AwaitsApproval'
  <2>1. SUFFICES ASSUME run'.status = "awaiting"
                 PROVE  run'.st["output_review"] \in Terminal /\ Answer("output_review")'.is = "approve_for_tests"
    BY DEF AwaitsApproval
  <2>2. s = "output_review" /\ Advances(status)
    BY <1>4, <1>7, <2>1 DEF StatusAfter
  <2>3. output.artifact.answer.is = "approve_for_tests"
    BY <1>3, <1>6, <2>2 DEF OutputHolds
  <2> QED BY <1>2, <1>6, <1>7, <1>9, <2>2, <2>3 DEF Answer
<1>16. DiskInv'
  BY <1>11, <1>12, <1>13, <1>14, <1>15 DEF DiskInv
<1>17. PICK p, q : p = proc /\ q = proc'
  OBVIOUS
<1>18. PICK place, early :
         /\ place = IF s = "development" /\ status = "completed" THEN "apply" ELSE "step"
         /\ early = IF s \in EarlySteps /\ output.artifact.result = "role"
                    THEN With(p.early, s, [path |-> 1, response |-> output.artifact]) ELSE p.early
  OBVIOUS
<1>19. q = [p EXCEPT !.pc = place, !.early = early, !.output = Null]
  BY <1>3, <1>17, <1>18 DEF Persist
<1>20. IsProc(p)
  BY <1>1, <1>2, <1>17 DEF ProcIsTyped, IsProc
<1>21. /\ IsProc(q) /\ q.pc = place /\ q.early = early /\ q.step = p.step /\ q.attempt = p.attempt
       /\ q.next = p.next
  BY <1>19, <1>20 DEF IsProc
<1>22. ProcIsTyped'
  BY <1>3, <1>5, <1>17, <1>18, <1>21 DEF ProcIsTyped, IsProc
<1>23. MemoryStands'
  <2>1. SUFFICES ASSUME run'.status \in Open, NEW t \in EarlySteps, run'.st[t] \in Terminal
                 PROVE  t \in DOMAIN early /\ early[t] = [path |-> early[t].path, response |-> Standing(t)']
    BY <1>17, <1>21 DEF MemoryStands
  <2>2. t \in StepNames
    BY DEF EarlySteps
  <2>3. CASE t = s
    <3>1. Advances(status)
      BY <1>4, <1>7, <2>1 DEF StatusAfter, Open
    <3>2. s # "development"
      BY <2>3 DEF EarlySteps
    <3>3. output.artifact.result = "role"
      BY <1>3, <1>6, <3>1, <3>2 DEF OutputHolds
    <3>4. early = With(p.early, s, [path |-> 1, response |-> output.artifact])
      BY <1>18, <2>3, <3>3
    <3>5. s \in DOMAIN early /\ early[s] = [path |-> 1, response |-> output.artifact]
      BY <3>4 DEF With
    <3>6. Standing(t)' = output.artifact
      BY <1>2, <1>6, <1>9, <2>3 DEF Standing
    <3> QED BY <2>3, <3>5, <3>6
  <2>4. CASE t # s
    <3>1. run.st[t] \in Terminal /\ run'.art[t] = run.art[t]
      BY <1>9, <2>1, <2>2, <2>4
    <3>2. t \in DOMAIN p.early /\ p.early[t] = [path |-> p.early[t].path, response |-> Standing(t)]
      BY <1>1, <1>2, <1>5, <1>17, <3>1 DEF MemoryStands, Open
    <3>3. t \in DOMAIN early /\ early[t] = p.early[t]
      BY <1>18, <2>4, <3>2 DEF With
    <3>4. Standing(t)' = Standing(t)
      BY <1>1, <1>10, <2>2, <3>1, ThereStays
    <3> QED BY <3>2, <3>3, <3>4
  <2> QED BY <2>3, <2>4
<1>24. StepIsRunning'
  BY <1>17, <1>18, <1>21 DEF StepIsRunning, AtWork
<1>25. AttemptIsLast'
  <2>1. Entries' = Entries /\ AtTheEnd'
    BY <1>4, <1>10, <1>17, <1>21, SameEntries
  <2> QED BY <1>17, <1>18, <1>21, <2>1 DEF AttemptIsLast, AtWork
<1>26. NextStands' /\ OutputStands'
  BY <1>17, <1>18, <1>21 DEF NextStands, OutputStands
<1>27. GateStands'
  BY <1>3, <1>9, <1>17, <1>18, <1>21 DEF GateStands
<1> QED BY <1>16, <1>22, <1>23, <1>24, <1>25, <1>26, <1>27 DEF ChainInv, ProcInv

\* A run whose patch is recorded as applied after Development was completed.
LEMMA PatchApplied ==
  ASSUME DiskInv, UNCHANGED files, run.st["development"] = "completed",
         run' = [run EXCEPT !.patch = "applied"]
  PROVE  /\ DiskInv' /\ run'.ledger = run.ledger /\ run'.st = run.st /\ run'.art = run.art
         /\ run'.status = run.status /\ run'.recovery = run.recovery
<1>1. RunIsTyped /\ StepsInOrder /\ LedgerHolds /\ PatchIsDecided /\ AwaitsApproval
  BY DEF DiskInv
<1>2. PICK r, q : r = run /\ q = run'
  OBVIOUS
<1>3. IsRun(r)
  BY <1>1, <1>2 DEF RunIsTyped, IsRun
<1>4. q = [r EXCEPT !.patch = "applied"]
  BY <1>2
<1>5. /\ IsRun(q) /\ q.ledger = r.ledger /\ q.status = r.status /\ q.step = r.step /\ q.st = r.st
      /\ q.art = r.art /\ q.decision = r.decision /\ q.recovery = r.recovery
      /\ q.patch = "applied"
  BY <1>3, <1>4 DEF IsRun
<1>6. FilesKept
  BY <1>1, SameFiles
<1>7. RunIsTyped'
  BY <1>1, <1>2, <1>5 DEF RunIsTyped, IsRun
<1>8. StepsInOrder' /\ PatchIsDecided' /\ AwaitsApproval'
  BY <1>1, <1>2, <1>5 DEF StepsInOrder, PatchIsDecided, AwaitsApproval, OnFile, Answer, Clears
<1>9. LedgerHolds'
  BY <1>2, <1>5, <1>6, LedgerKept
<1> QED BY <1>2, <1>5, <1>7, <1>8, <1>9 DEF DiskInv

LEMMA ApplyPatchToCandidateKeeps ==
  ASSUME ChainInv, ApplyPatchToCandidate
  PROVE  ChainInv'
<1>1. DiskInv /\ ProcInv /\ ProcIsTyped /\ GateStands /\ MemoryStands /\ RunIsTyped
  BY DEF ChainInv, ProcInv, DiskInv
<1>2. /\ proc.pc = "apply" /\ UNCHANGED files
      /\ \/ run' = [run EXCEPT !.patch = "applied"] /\ proc' = [proc EXCEPT !.pc = "step"]
         \/ proc' = Idle /\ UNCHANGED run
  BY DEF ApplyPatchToCandidate
<1>3. CASE proc' = Idle /\ UNCHANGED run
  BY <1>2, <1>3, EndKeeps
<1>4. CASE run' = [run EXCEPT !.patch = "applied"] /\ proc' = [proc EXCEPT !.pc = "step"]
  <2>1. proc.step = "development" /\ run.st["development"] = "completed"
    BY <1>1, <1>2 DEF GateStands
  <2>2. /\ DiskInv' /\ run'.ledger = run.ledger /\ run'.st = run.st /\ run'.art = run.art
        /\ run'.status = run.status
    BY <1>1, <1>2, <1>4, <2>1, PatchApplied
  <2>3. PICK p, q : p = proc /\ q = proc'
    OBVIOUS
  <2>4. IsProc(p)
    BY <1>1, <1>2, <2>3 DEF ProcIsTyped, IsProc
  <2>5. /\ IsProc(q) /\ q.pc = "step" /\ q.early = p.early /\ q.step = p.step
        /\ q.attempt = p.attempt /\ q.next = p.next
    BY <1>4, <2>3, <2>4 DEF IsProc
  <2>6. ProcIsTyped'
    BY <1>1, <1>2, <2>3, <2>5 DEF ProcIsTyped, IsProc
  <2>7. MemoryStands'
    BY <1>1, <1>2, <2>2, <2>3, <2>5 DEF MemoryStands, Standing
  <2>8. NextStep(run') # "development"
    <3>1. NextStep(run') = NoStep \/ run'.st[NextStep(run')] \in Open
      BY NextStepIs
    <3> QED BY <2>1, <2>2, <3>1 DEF NoStep, Open
  <2>9. AttemptIsLast' /\ StepIsRunning' /\ NextStands' /\ GateStands' /\ OutputStands'
    BY <2>1, <2>3, <2>5, <2>8 DEF AttemptIsLast, StepIsRunning, NextStands, GateStands, OutputStands, AtWork
  <2> QED BY <2>2, <2>6, <2>7, <2>9 DEF ChainInv, ProcInv
<1> QED BY <1>2, <1>3, <1>4

\* An attempt that comes after every prompt has no record yet.
LEMMA NewAttempt ==
  ASSUME DiskInv, NEW s, NEW a, a = LatestPrompt(s) + 1
  PROVE  RecordsOf(run, s, a) = {}
<1>1. RunIsTyped /\ LedgerHolds
  BY DEF DiskInv
<1>2. SUFFICES ASSUME NEW k \in DOMAIN run.ledger, run.ledger[k].step = s, run.ledger[k].attempt = a
               PROVE  FALSE
  BY DEF RecordsOf
<1>3. <<"prompt", s, a>> \in DOMAIN files
  BY <1>1, <1>2 DEF LedgerHolds
<1>4. a <= LatestPrompt(s) /\ LatestPrompt(s) \in Nat
  BY <1>1, <1>3, LatestPromptIs
<1> QED BY <1>4

LEMMA StartStepKeeps ==
  ASSUME ChainInv, StartStep
  PROVE  ChainInv'
<1>1. /\ DiskInv /\ ProcInv /\ RunIsTyped /\ StepsInOrder /\ LedgerHolds /\ PatchIsDecided
      /\ AwaitsApproval /\ ProcIsTyped /\ MemoryStands /\ StepIsRunning /\ AttemptIsLast
  BY DEF ChainInv, DiskInv, ProcInv
<1>2. PICK s : s = NextStep(run)
  OBVIOUS
<1>3. /\ proc.pc = "step" /\ UNCHANGED files /\ MayStart
      /\ run' = [run EXCEPT !.status = "running", !.step = s, !.st[s] = "running"]
      /\ proc' = [proc EXCEPT !.pc = "prompt", !.step = s,
                              !.attempt = IF proc.step = s THEN @ ELSE LatestPrompt(s) + 1,
                              !.revision = IF proc.step = s THEN @ ELSE Null]
  BY <1>2 DEF StartStep
<1>4. /\ s \in StepNames /\ run.st[s] \in Open
      /\ \A t \in StepNames : Rank[t] < Rank[s] => run.st[t] \notin Open
  BY <1>2, <1>3, NextStepIs DEF MayStart
<1>5. PICK r, q, st : r = run /\ q = run' /\ st = [r.st EXCEPT ![s] = "running"]
  OBVIOUS
<1>6. IsRun(r)
  BY <1>1, <1>5 DEF RunIsTyped, IsRun
<1>7. q = [r EXCEPT !.status = "running", !.step = s, !.st = st]
  BY <1>3, <1>5
<1>8. /\ IsRun(q) /\ q.ledger = r.ledger /\ q.status = "running" /\ q.step = s /\ q.st = st
      /\ q.art = r.art /\ q.decision = r.decision /\ q.recovery = r.recovery /\ q.patch = r.patch
  BY <1>6, <1>7 DEF IsRun
<1>9. /\ \A t \in StepNames : t # s => run'.st[t] = run.st[t]
      /\ run'.st[s] = "running" /\ run'.st \in [StepNames -> Open \cup Terminal]
  <2>1. r.st \in [StepNames -> Open \cup Terminal]
    BY <1>1, <1>5 DEF RunIsTyped
  <2> QED BY <1>4, <1>5, <1>8, <2>1 DEF Open
<1>10. FilesKept
  BY <1>1, <1>3, SameFiles
<1>11. RunIsTyped'
  BY <1>1, <1>3, <1>4, <1>5, <1>8, <1>9 DEF RunIsTyped, IsRun
<1>12. \A t \in StepNames : run'.st[t] \in Terminal => run.st[t] \in Terminal /\ t # s
  BY <1>9 DEF Terminal
<1>13. StepsInOrder'
  <2>1. ASSUME NEW u \in StepNames, NEW t \in StepNames, Rank[u] < Rank[t], run'.st[u] \in Open
        PROVE  run'.st[t] = "pending"
    <3>1. run.st[u] \in Open
      BY <1>4, <1>9, <2>1
    <3>2. run.st[t] = "pending" /\ t # s
      BY <1>1, <1>4, <2>1, <3>1 DEF StepsInOrder
    <3> QED BY <1>9, <3>2
  <2>2. \A t \in StepNames :
          run'.st[t] \in Terminal => <<"artifact", t, run'.art[t]>> \in DOMAIN files'
    BY <1>1, <1>3, <1>5, <1>8, <1>12 DEF StepsInOrder
  <2> QED BY <2>1, <2>2 DEF StepsInOrder
<1>14. LedgerHolds'
  BY <1>1, <1>5, <1>8, <1>10, <1>12, LedgerKept
<1>15. PatchIsDecided'
  <2>1. "development" \in StepNames
    BY StepsAre
  <2>2. run'.st["development"] = "completed" => run.st["development"] = "completed"
    BY <1>9, <2>1
  <2>3. run.st["development"] = "completed" => s # "development"
    BY <1>4 DEF Open
  <2>4. run.st["development"] = "completed" => OnFile(run.art["development"], run.decision)
    BY <1>1 DEF PatchIsDecided
  <2>5. run.st["development"] = "completed" => OnFile(run.art["development"], run.decision)'
    BY <1>3, <1>5, <1>8, <2>4 DEF OnFile, Clears
  <2>6. run.patch = "applied" => run'.st["development"] = "completed"
    BY <1>1, <1>9, <2>1, <2>3 DEF PatchIsDecided
  <2> QED BY <1>5, <1>8, <2>2, <2>5, <2>6 DEF PatchIsDecided
<1>16. AwaitsApproval'
  BY <1>5, <1>8 DEF AwaitsApproval
<1>17. DiskInv'
  BY <1>11, <1>13, <1>14, <1>15, <1>16 DEF DiskInv
<1>18. PICK p, z, attempt, rev :
         /\ p = proc /\ z = proc'
         /\ attempt = IF proc.step = s THEN p.attempt ELSE LatestPrompt(s) + 1
         /\ rev = IF proc.step = s THEN p.revision ELSE Null
  OBVIOUS
<1>19. IsProc(p)
  BY <1>1, <1>3, <1>18 DEF ProcIsTyped, IsProc
<1>20. z = [p EXCEPT !.pc = "prompt", !.step = s, !.attempt = attempt, !.revision = rev]
  BY <1>3, <1>18
<1>21. /\ IsProc(z) /\ z.pc = "prompt" /\ z.early = p.early /\ z.step = s
       /\ z.attempt = attempt /\ z.next = p.next
  BY <1>19, <1>20 DEF IsProc
<1>22. attempt \in Nat \ {0}
  <2>1. LatestPrompt(s) \in Nat
    BY <1>1, LatestPromptIs
  <2>2. proc.attempt \in Nat \ {0}
    BY <1>1, <1>3 DEF ProcIsTyped
  <2> QED BY <1>18, <2>1, <2>2
<1>23. ProcIsTyped'
  BY <1>1, <1>3, <1>4, <1>18, <1>21, <1>22 DEF ProcIsTyped, IsProc
<1>24. MemoryStands'
  <2>1. run.status \in Open
    BY <1>3 DEF MayStart, Open
  <2>2. SUFFICES ASSUME NEW t \in EarlySteps, run'.st[t] \in Terminal
                 PROVE  t \in DOMAIN p.early /\ p.early[t] = [path |-> p.early[t].path, response |-> Standing(t)']
    BY <1>18, <1>21 DEF MemoryStands
  <2>3. t \in StepNames /\ run.st[t] \in Terminal
    BY <1>12, <2>2 DEF EarlySteps
  <2>4. Standing(t)' = Standing(t)
    BY <1>3, <1>5, <1>8 DEF Standing
  <2> QED BY <1>1, <1>3, <1>18, <2>1, <2>3, <2>4 DEF MemoryStands
<1>25. StepIsRunning'
  <2>1. s = "development" => Approved(proc.early)
    BY <1>2, <1>3 DEF MayStart
  <2> QED BY <1>5, <1>8, <1>9, <1>18, <1>21, <2>1 DEF StepIsRunning, Approved
<1>26. AttemptIsLast'
  <2>1. CASE proc.step = s
    <3>1. AtTheEnd
      BY <1>1, <1>2, <1>3, <2>1 DEF AttemptIsLast
    <3>2. AtTheEnd'
      BY <1>5, <1>8, <1>18, <1>21, <2>1, <3>1, SameEntries
    <3> QED BY <1>18, <1>21, <3>2 DEF AttemptIsLast, AtWork
  <2>2. CASE proc.step # s
    <3>1. RecordsOf(run, s, attempt) = {}
      BY <1>1, <1>18, <2>2, NewAttempt
    <3>2. Entries' = {}
      BY <1>5, <1>8, <1>18, <1>21, <3>1 DEF Entries, RecordsOf
    <3> QED BY <1>18, <1>21, <3>2 DEF AttemptIsLast, AtWork, AtTheEnd
  <2> QED BY <2>1, <2>2
<1>27. NextStands' /\ GateStands' /\ OutputStands'
  BY <1>18, <1>21 DEF NextStands, GateStands, OutputStands
<1> QED BY <1>17, <1>23, <1>24, <1>25, <1>26, <1>27 DEF ChainInv, ProcInv

\* What a revision leaves in run.json.
LEMMA ReviseIs ==
  ASSUME ChainInv, NEW s \in StepNames, Revise(s)
  PROVE  /\ IsRun(run') /\ run'.status = "pending" /\ run'.step = s
         /\ run'.st = [t \in StepNames |-> IF PosOf(t) >= PosOf(s) THEN "pending" ELSE run.st[t]]
         /\ run'.art = [t \in StepNames |-> IF PosOf(t) >= PosOf(s) THEN 0 ELSE run.art[t]]
         /\ run'.decision = IF PosOf(s) <= PosOf("development") THEN Null ELSE run.decision
         /\ run'.ledger = run.ledger /\ run'.patch = run.patch
         /\ run'.recovery.step = s /\ run'.recovery.attempt = Durable(run, s) + 1
<1>1. RunIsTyped
  BY DEF ChainInv, DiskInv
<1>2. PICK r, q : r = run /\ q = run'
  OBVIOUS
<1>3. IsRun(r)
  BY <1>1, <1>2 DEF RunIsTyped, IsRun
<1>4. PICK st, art, decision, recovery :
        /\ st = [t \in StepNames |-> IF PosOf(t) >= PosOf(s) THEN "pending" ELSE r.st[t]]
        /\ art = [t \in StepNames |-> IF PosOf(t) >= PosOf(s) THEN 0 ELSE r.art[t]]
        /\ decision = IF PosOf(s) <= PosOf("development") THEN Null ELSE r.decision
        /\ recovery = [step |-> s, attempt |-> Durable(run, s) + 1,
                       source |-> [status |-> run.status, step |-> run.step,
                                   st |-> run.st, art |-> run.art]]
  OBVIOUS
<1>5. PICK reset : reset = [r EXCEPT !.status = "pending", !.step = s, !.st = st, !.art = art,
                                     !.decision = decision]
  OBVIOUS
<1>6. reset = ResetFrom(run, s)
  BY <1>2, <1>4, <1>5 DEF ResetFrom
<1>7. q = [reset EXCEPT !.recovery = recovery]
  BY <1>2, <1>4, <1>6 DEF Revise
<1>8. /\ IsRun(reset) /\ reset.status = "pending" /\ reset.step = s /\ reset.st = st
      /\ reset.art = art /\ reset.decision = decision /\ reset.ledger = r.ledger
      /\ reset.patch = r.patch
  BY <1>3, <1>5 DEF IsRun
<1>9. /\ IsRun(q) /\ q.status = "pending" /\ q.step = s /\ q.st = st /\ q.art = art
      /\ q.decision = decision /\ q.ledger = r.ledger /\ q.patch = r.patch
      /\ q.recovery = recovery
  BY <1>7, <1>8 DEF IsRun
<1>10. recovery.step = s /\ recovery.attempt = Durable(run, s) + 1
  BY <1>4
<1> QED BY <1>2, <1>4, <1>9, <1>10

LEMMA ReviseKeeps ==
  ASSUME ChainInv, NEW s \in StepNames, Revise(s)
  PROVE  ChainInv'
<1>1. /\ DiskInv /\ ProcInv /\ RunIsTyped /\ StepsInOrder /\ LedgerHolds /\ PatchIsDecided
  BY DEF ChainInv, DiskInv
<1>2. /\ IsRun(run') /\ run'.status = "pending" /\ run'.step = s
      /\ run'.st = [t \in StepNames |-> IF PosOf(t) >= PosOf(s) THEN "pending" ELSE run.st[t]]
      /\ run'.art = [t \in StepNames |-> IF PosOf(t) >= PosOf(s) THEN 0 ELSE run.art[t]]
      /\ run'.decision = IF PosOf(s) <= PosOf("development") THEN Null ELSE run.decision
      /\ run'.ledger = run.ledger /\ run'.patch = run.patch
      /\ run'.recovery.step = s /\ run'.recovery.attempt = Durable(run, s) + 1
  BY ReviseIs
<1>3. proc.pc = "idle" /\ MayRevise(run, s) /\ UNCHANGED <<files, proc>>
  BY DEF Revise
<1>4. FilesKept
  BY <1>1, <1>3, SameFiles
<1>5. /\ \A t \in StepNames : Rank[t] >= Rank[s] => run'.st[t] = "pending" /\ run'.art[t] = 0
      /\ \A t \in StepNames : ~(Rank[t] >= Rank[s]) => run'.st[t] = run.st[t] /\ run'.art[t] = run.art[t]
  BY <1>2, PosOrder
<1>6. \A t \in StepNames : run'.st[t] \in Terminal =>
        ~(Rank[t] >= Rank[s]) /\ run'.st[t] = run.st[t] /\ run'.art[t] = run.art[t]
  BY <1>5 DEF Terminal
<1>7. RunIsTyped'
  <2>1. /\ run.st \in [StepNames -> Open \cup Terminal] /\ run.art \in [StepNames -> Nat]
    BY <1>1 DEF RunIsTyped
  <2>2. run'.st \in [StepNames -> Open \cup Terminal] /\ run'.art \in [StepNames -> Nat]
    BY <1>2, <2>1 DEF Open
  <2>3. Durable(run, s) \in Nat
    <3>1. \A k \in DOMAIN run.ledger : run.ledger[k].attempt \in Nat \ {0}
      BY <1>1 DEF LedgerHolds, IsEntry
    <3> QED BY <1>1, <3>1, DurableIs
  <2> QED BY <1>1, <1>2, <1>3, <2>2, <2>3 DEF RunIsTyped, IsRun
<1>8. StepsInOrder'
  <2>1. ASSUME NEW u \in StepNames, NEW t \in StepNames, Rank[u] < Rank[t], run'.st[u] \in Open
        PROVE  run'.st[t] = "pending"
    <3>1. Rank[u] \in Nat /\ Rank[t] \in Nat /\ Rank[s] \in Nat
      BY StepsAre
    <3>2. CASE Rank[t] >= Rank[s]
      BY <1>5, <3>2
    <3>3. CASE ~(Rank[t] >= Rank[s])
      <4>1. ~(Rank[u] >= Rank[s])
        BY <2>1, <3>1, <3>3
      <4> QED BY <1>1, <1>5, <2>1, <3>3, <4>1 DEF StepsInOrder
    <3> QED BY <3>2, <3>3
  <2> QED BY <1>1, <1>3, <1>6, <2>1 DEF StepsInOrder
<1>9. LedgerHolds'
  BY <1>1, <1>2, <1>4, <1>6, LedgerKept
<1>10. PatchIsDecided'
  <2>1. "development" \in StepNames /\ "output_review" \in StepNames
    BY StepsAre
  <2>2. ASSUME run'.st["development"] = "completed"
        PROVE  OnFile(run.art["development"], run.decision)'
    <3>1. /\ ~(Rank["development"] >= Rank[s]) /\ run.st["development"] = "completed"
          /\ run'.art["development"] = run.art["development"]
      BY <1>6, <2>1, <2>2 DEF Terminal
    <3>2. ~(PosOf(s) <= PosOf("development"))
      <4>1. PosOf(s) <= PosOf("development") <=> Rank[s] <= Rank["development"]
        BY <2>1, PosOrder
      <4>2. Rank[s] \in Nat /\ Rank["development"] \in Nat
        BY <2>1, StepsAre
      <4> QED BY <3>1, <4>1, <4>2
    <3>3. run'.decision = run.decision
      BY <1>2, <3>2
    <3> QED BY <1>1, <1>3, <3>1, <3>3 DEF PatchIsDecided, OnFile, Clears
  <2>3. ASSUME run'.patch = "applied"
        PROVE  run'.st["development"] = "completed"
    <3>1. s = "output_review" /\ run.st["development"] = "completed"
      BY <1>1, <1>2, <1>3, <2>3 DEF MayRevise, PatchIsDecided
    <3>2. ~(Rank["development"] >= Rank["output_review"])
      BY DEF Rank
    <3> QED BY <1>5, <2>1, <3>1, <3>2
  <2> QED BY <2>2, <2>3 DEF PatchIsDecided
<1>11. AwaitsApproval'
  BY <1>2 DEF AwaitsApproval
<1>12. ProcInv'
  BY <1>1, <1>3 DEF ProcInv, ProcIsTyped, MemoryStands, StepIsRunning, AttemptIsLast, NextStands,
                    GateStands, OutputStands, AtWork
<1> QED BY <1>7, <1>8, <1>9, <1>10, <1>11, <1>12 DEF ChainInv, DiskInv

(* A process begins.                                                       *)

\* A rerun begins an attempt that has no record.
IsFresh(s, authorised) ==
  \/ authorised = 0
  \/ authorised \in Nat /\ authorised > 0 /\ RecordsOf(run, s, authorised) = {}

\* The attempt a process is prepared for has its records at the end, or has none.
LEMMA AttemptPreparedAtTheEnd ==
  ASSUME DiskInv, NEW r, r.ledger = run.ledger,
         NEW s \in StepNames, NEW authorised, NEW recovered, NEW a,
         IsFresh(s, authorised),
         recovered = RecoveredAttempt(r, s, authorised),
         a = IF recovered > 0 THEN recovered ELSE LatestPrompt(s) + 1
  PROVE  /\ a \in Nat \ {0}
         /\ RecordsOf(run, s, a) = {} \/ Len(run.ledger) \in RecordsOf(run, s, a)
<1>1. RunIsTyped /\ LedgerHolds
  BY DEF DiskInv
<1>2. LatestPrompt(s) \in Nat
  BY <1>1, LatestPromptIs
<1>3. \A k \in DOMAIN run.ledger : run.ledger[k].attempt \in Nat \ {0}
  BY <1>1 DEF LedgerHolds, IsEntry
<1>4. /\ Durable(r, s) \in Nat
      /\ \A k \in DOMAIN run.ledger : run.ledger[k].step = s => run.ledger[k].attempt <= Durable(r, s)
  BY <1>1, <1>3, DurableIs
<1>5. CASE authorised > 0
  <2>1. a = authorised
    BY <1>5 DEF RecoveredAttempt
  <2> QED BY <1>5, <2>1 DEF IsFresh
<1>6. CASE ~(authorised > 0) /\ r.st[s] = "running" /\ LatestPrompt(s) > Durable(r, s)
  <2>1. a = LatestPrompt(s)
    BY <1>2, <1>4, <1>6 DEF RecoveredAttempt
  <2>2. RecordsOf(run, s, a) = {}
    <3>1. SUFFICES ASSUME NEW k \in DOMAIN run.ledger, run.ledger[k].step = s, run.ledger[k].attempt = a
                   PROVE  FALSE
      BY DEF RecordsOf
    <3> QED BY <1>2, <1>4, <1>6, <2>1, <3>1
  <2> QED BY <1>2, <1>4, <1>6, <2>1, <2>2
<1>7. CASE /\ ~(authorised > 0) /\ ~(r.st[s] = "running" /\ LatestPrompt(s) > Durable(r, s))
           /\ r.st[s] = "running" /\ r.ledger # <<>> /\ Last(r.ledger).step = s
  <2>1. recovered = Last(r.ledger).attempt
    BY <1>7 DEF RecoveredAttempt
  <2>2. PICK l : l = run.ledger
    OBVIOUS
  <2>3. l \in Seq(ToSet(l)) /\ l # <<>>
    BY <1>1, <1>7, <2>2 DEF RunIsTyped
  <2>4. Last(l) = l[Len(l)] /\ Len(l) \in DOMAIN l
    BY <2>3 DEF Last
  <2>5. a = run.ledger[Len(run.ledger)].attempt /\ a \in Nat \ {0}
    BY <1>3, <2>1, <2>2, <2>4
  <2>6. Len(run.ledger) \in RecordsOf(run, s, a)
    BY <1>7, <2>2, <2>4, <2>5 DEF RecordsOf
  <2> QED BY <2>5, <2>6
<1>8. CASE recovered = 0
  <2>1. a = LatestPrompt(s) + 1
    BY <1>8
  <2> QED BY <1>2, <2>1, NewAttempt
<1> QED BY <1>5, <1>6, <1>7, <1>8 DEF RecoveredAttempt

\* A process that was prepared knows what stands.
IsPrepared(p, s) ==
  /\ IsProc(p) /\ p.pc = "step" /\ p.next = Null /\ p.step = s /\ s \in StepNames
  /\ p.attempt \in Nat \ {0}
  /\ RecordsOf(run, s, p.attempt) = {} \/ Len(run.ledger) \in RecordsOf(run, s, p.attempt)
  /\ \A t \in EarlySteps : run.st[t] \in Terminal =>
       /\ t \in DOMAIN p.early
       /\ p.early[t] = [path |-> p.early[t].path, response |-> Standing(t)]

LEMMA PreparedIs ==
  ASSUME DiskInv, NEW r, r.ledger = run.ledger, r.st = run.st, r.art = run.art,
         NEW s, s = NextStep(r), s # NoStep, NEW authorised, NEW apply,
         IsFresh(s, authorised),
         NEW p, p = Prepared(r, authorised, apply)
  PROVE  IsPrepared(p, s)
<1>1. s \in StepNames
  BY NextStepIs
<1>2. PICK recovered, a, early, bundle, rev :
        /\ recovered = RecoveredAttempt(r, s, authorised)
        /\ a = IF recovered > 0 THEN recovered ELSE LatestPrompt(s) + 1
        /\ early = EarlyOf(r) /\ bundle = InitialBundle(r)
        /\ rev = IF NeedsRevisionContext(r) THEN RevisionContext(r) ELSE Null
  OBVIOUS
<1>3. p = [pc |-> "step", step |-> s, attempt |-> a, early |-> early, bundle |-> bundle,
           revision |-> rev, apply |-> apply, next |-> Null, output |-> Null]
  BY <1>2 DEF Prepared
<1>4. IsProc(p) /\ p.pc = "step" /\ p.next = Null /\ p.step = s /\ p.attempt = a /\ p.early = early
  BY <1>3 DEF IsProc
<1>5. /\ a \in Nat \ {0}
      /\ RecordsOf(run, s, a) = {} \/ Len(run.ledger) \in RecordsOf(run, s, a)
  BY <1>1, <1>2, AttemptPreparedAtTheEnd
<1>6. ASSUME NEW t \in EarlySteps, run.st[t] \in Terminal
      PROVE  /\ t \in DOMAIN early
             /\ early[t] = [path |-> early[t].path, response |-> Standing(t)]
  <2>1. t \in DOMAIN early /\ early[t] = LoadEarly(r, t)
    BY <1>2, <1>6 DEF EarlyOf
  <2>2. LoadEarly(r, t) = [path |-> r.art[t], response |-> Standing(t)]
    BY DEF LoadEarly, Standing
  <2>3. early[t].path = r.art[t]
    BY <2>1, <2>2
  <2> QED BY <2>1, <2>2, <2>3
<1> QED BY <1>1, <1>4, <1>5, <1>6 DEF IsPrepared

LEMMA BeginKeeps ==
  ASSUME DiskInv, DiskInv', UNCHANGED files,
         NEW r, r = run', r.ledger = run.ledger, r.st = run.st, r.art = run.art,
         NEW s, s = NextStep(r), s # NoStep, NEW authorised, NEW apply,
         IsFresh(s, authorised),
         proc' = Prepared(r, authorised, apply)
  PROVE  ChainInv'
<1>1. PICK p : p = proc'
  OBVIOUS
<1>2. /\ IsProc(p) /\ p.pc = "step" /\ p.next = Null /\ p.step = s /\ s \in StepNames
      /\ p.attempt \in Nat \ {0}
      /\ RecordsOf(run, s, p.attempt) = {} \/ Len(run.ledger) \in RecordsOf(run, s, p.attempt)
      /\ \A t \in EarlySteps : run.st[t] \in Terminal =>
           /\ t \in DOMAIN p.early
           /\ p.early[t] = [path |-> p.early[t].path, response |-> Standing(t)]
  <2>1. p = Prepared(r, authorised, apply)
    BY <1>1
  <2>2. IsPrepared(p, s)
    BY <2>1, PreparedIs
  <2> QED BY <2>2 DEF IsPrepared
<1>3. ProcIsTyped'
  BY <1>1, <1>2 DEF ProcIsTyped, IsProc
<1>4. MemoryStands'
  BY <1>1, <1>2 DEF MemoryStands, Standing
<1>5. AttemptIsLast'
  <2>1. Entries' = RecordsOf(run, s, p.attempt)
    BY <1>1, <1>2 DEF Entries, RecordsOf
  <2>2. AtTheEnd'
    BY <1>2, <2>1 DEF AtTheEnd
  <2> QED BY <1>1, <1>2, <2>2 DEF AttemptIsLast, AtWork
<1>6. StepIsRunning' /\ NextStands' /\ GateStands' /\ OutputStands'
  BY <1>1, <1>2 DEF StepIsRunning, NextStands, GateStands, OutputStands, AtWork
<1> QED BY <1>3, <1>4, <1>5, <1>6 DEF ChainInv, ProcInv

\* A preparation may record first that the patch is in the candidate.
LEMMA NormalizedIs ==
  ASSUME DiskInv, UNCHANGED files, run' = Normalized(run)
  PROVE  /\ DiskInv' /\ run'.ledger = run.ledger /\ run'.st = run.st /\ run'.art = run.art
<1>1. CASE run.st["development"] = "completed"
  <2>1. run' = [run EXCEPT !.patch = "applied"]
    BY <1>1 DEF Normalized
  <2> QED BY <1>1, <2>1, PatchApplied
<1>2. CASE run.st["development"] # "completed"
  <2>1. run' = run
    BY <1>2 DEF Normalized
  <2>2. FilesKept /\ FilesTyped'
    BY SameFiles DEF DiskInv
  <2> QED BY <2>1, <2>2, SameRun
<1> QED BY <1>1, <1>2

LEMMA ResumeKeeps ==
  ASSUME ChainInv, Resume
  PROVE  ChainInv'
<1>1. DiskInv
  BY DEF ChainInv
<1>2. PICK r, apply : r = run' /\ apply = (ApplyPatch /\ PersistedApply(run'))
  OBVIOUS
<1>3. UNCHANGED files /\ run' = Normalized(run) /\ MayPrepare(r, 0) /\ proc' = Prepared(r, 0, apply)
  BY <1>2 DEF Resume
<1>4. /\ DiskInv' /\ r.ledger = run.ledger /\ r.st = run.st /\ r.art = run.art
  BY <1>1, <1>2, <1>3, NormalizedIs
<1>5. PICK s : s = NextStep(r) /\ s # NoStep
  BY <1>3 DEF MayPrepare
<1>6. IsFresh(s, 0)
  BY DEF IsFresh
<1> QED BY <1>1, <1>2, <1>3, <1>4, <1>5, <1>6, BeginKeeps

LEMMA RerunKeeps ==
  ASSUME ChainInv, Rerun
  PROVE  ChainInv'
<1>1. DiskInv /\ RunIsTyped /\ LedgerHolds
  BY DEF ChainInv, DiskInv
<1>2. PICK r, a, apply : r = run' /\ a = run.recovery.attempt /\ apply = (ApplyPatch /\ PersistedApply(run'))
  OBVIOUS
<1>3. /\ UNCHANGED files /\ run' = Normalized(run) /\ MayPrepare(r, a) /\ proc' = Prepared(r, a, apply)
      /\ PendingRecovery(run) /\ NextStep(r) = run.recovery.step
  BY <1>2 DEF Rerun
<1>4. /\ DiskInv' /\ r.ledger = run.ledger /\ r.st = run.st /\ r.art = run.art
  BY <1>1, <1>2, <1>3, NormalizedIs
<1>5. PICK s : s = NextStep(r) /\ s # NoStep
  BY <1>3 DEF MayPrepare
<1>6. a \in Nat /\ a > 0
  BY <1>1, <1>2, <1>3 DEF RunIsTyped, PendingRecovery
<1>7. RecordsOf(run, s, a) = {}
  <2>1. SUFFICES ASSUME NEW k \in DOMAIN run.ledger, run.ledger[k].step = s, run.ledger[k].attempt = a
                 PROVE  FALSE
    BY DEF RecordsOf
  <2>2. PICK i \in Initials(run) : SameAttempt(i, run.ledger[k])
    BY <1>1, <2>1 DEF LedgerHolds
  <2>3. i.step = run.recovery.step /\ i.attempt = run.recovery.attempt
    BY <1>2, <1>3, <1>5, <2>1, <2>2 DEF SameAttempt
  <2> QED BY <1>3, <2>2, <2>3 DEF PendingRecovery
<1>8. IsFresh(s, a)
  BY <1>6, <1>7 DEF IsFresh
<1> QED BY <1>1, <1>2, <1>3, <1>4, <1>5, <1>8, BeginKeeps

(* The invariant of the chain.                                             *)

LEMMA ChainInvInitially ==
  ASSUME ChainInit
  PROVE  ChainInv
<1>1. Steps[1] \in StepNames
  <2>1. Steps # <<>> /\ Steps \in Seq(DOMAIN Rank)
    BY StepsAssumption DEF StepNames, ToSet
  <2> QED BY <2>1 DEF StepNames, ToSet
<1>2. PICK r, p : r = run /\ p = proc
  OBVIOUS
<1>3. r = [status |-> "pending", step |-> Steps[1], st |-> [s \in StepNames |-> "pending"],
           art |-> [s \in StepNames |-> 0], ledger |-> <<>>, decision |-> Null,
           recovery |-> Null, patch |-> "none"]
  BY <1>2 DEF ChainInit
<1>4. /\ r = [status |-> r.status, step |-> r.step, st |-> r.st, art |-> r.art,
              ledger |-> r.ledger, decision |-> r.decision, recovery |-> r.recovery,
              patch |-> r.patch]
      /\ r.status = "pending" /\ r.step = Steps[1] /\ r.patch = "none" /\ r.recovery = Null
      /\ r.st = [s \in StepNames |-> "pending"] /\ r.art = [s \in StepNames |-> 0]
      /\ r.ledger = <<>> /\ DOMAIN r.ledger = {}
  BY <1>3
<1>5. p = [pc |-> "step", step |-> Steps[1], attempt |-> 1, early |-> <<>>,
           bundle |-> PackContext(Tree, Relevant), revision |-> Null, apply |-> ApplyPatch,
           next |-> Null, output |-> Null]
  BY <1>2 DEF ChainInit
<1>6. /\ p = [pc |-> p.pc, step |-> p.step, attempt |-> p.attempt, early |-> p.early,
              bundle |-> p.bundle, revision |-> p.revision, apply |-> p.apply,
              next |-> p.next, output |-> p.output]
      /\ p.pc = "step" /\ p.step = Steps[1] /\ p.attempt = 1 /\ p.next = Null
  BY <1>5
<1>7. IsFiniteSet(DOMAIN files) /\ \A f \in DOMAIN files : f[3] \in Nat
  BY FS_EmptySet DEF ChainInit
<1>8. r.ledger \in Seq(ToSet(r.ledger))
  BY <1>4
<1>9. RunIsTyped
  BY <1>1, <1>2, <1>4, <1>7, <1>8 DEF RunIsTyped, Open
<1>10. StepsInOrder
  BY <1>2, <1>4 DEF StepsInOrder, Terminal
<1>11. LedgerHolds
  BY <1>2, <1>4 DEF LedgerHolds, Terminal
<1>12. PatchIsDecided /\ AwaitsApproval
  BY <1>2, <1>4, StepsAre DEF PatchIsDecided, AwaitsApproval
<1>13. ProcIsTyped
  BY <1>1, <1>2, <1>6 DEF ProcIsTyped
<1>14. MemoryStands
  BY <1>2, <1>4 DEF MemoryStands, EarlySteps, Terminal
<1>15. AttemptIsLast
  <2>1. Entries = {}
    BY <1>2, <1>4 DEF Entries, RecordsOf
  <2> QED BY <1>2, <1>6, <2>1 DEF AttemptIsLast, AtTheEnd, AtWork
<1>16. StepIsRunning /\ NextStands /\ GateStands /\ OutputStands
  BY <1>2, <1>6 DEF StepIsRunning, NextStands, GateStands, OutputStands, AtWork
<1> QED BY <1>9, <1>10, <1>11, <1>12, <1>13, <1>14, <1>15, <1>16 DEF ChainInv, DiskInv, ProcInv

LEMMA ChainInvStutters ==
  ASSUME ChainInv, UNCHANGED chainVars
  PROVE  ChainInv'
<1>1. FilesKept /\ FilesTyped' /\ run' = run /\ proc' = proc
  BY SameFiles DEF ChainInv, DiskInv, chainVars
<1>2. DiskInv'
  BY <1>1, SameRun DEF ChainInv
<1>3. ProcInv'
  BY DEF chainVars, ChainInv, ProcInv, ProcIsTyped, MemoryStands, StepIsRunning, AttemptIsLast,
         NextStands, GateStands, OutputStands, AtWork, AtTheEnd, Entries, NextHolds, OutputHolds,
         OnFile, LastEntry, Standing
<1> QED BY <1>2, <1>3 DEF ChainInv

LEMMA ChainInvInductive ==
  ASSUME ChainInv, [ChainNext]_chainVars
  PROVE  ChainInv'
<1>1. CASE Resume
  BY <1>1, ResumeKeeps
<1>2. CASE Rerun
  BY <1>2, RerunKeeps
<1>3. CASE Crash
  BY <1>3, EndKeeps DEF Crash
<1>4. ASSUME NEW s \in StepNames, Revise(s)
      PROVE  ChainInv'
  BY <1>4, ReviseKeeps
<1>5. CASE StartStep
  BY <1>5, StartStepKeeps
<1>6. CASE EndProcess
  BY <1>6, EndKeeps DEF EndProcess
<1>7. CASE WritePrompt
  BY <1>7, WritePromptKeeps
<1>8. CASE AppendRequest
  BY <1>8, AppendRequestKeeps
<1>9. CASE Ask
  BY <1>9, AskKeeps
<1>10. CASE RepairJson
  BY <1>10, RepairJsonKeeps
<1>11. CASE FailStep
  BY <1>11, FailStepKeeps
<1>12. CASE ExpandContext
  BY <1>12, ExpandContextKeeps
<1>13. CASE RefuseContext
  BY <1>13, RefuseContextKeeps
<1>14. CASE FinishResponse
  BY <1>14, FinishResponseKeeps
<1>15. CASE PublishDiff
  BY <1>15, PublishDiffKeeps
<1>16. CASE Decide
  BY <1>16, DecideKeeps
<1>17. CASE WriteArtifact
  BY <1>17, WriteArtifactKeeps
<1>18. CASE Persist
  BY <1>18, PersistKeeps
<1>19. CASE ApplyPatchToCandidate
  BY <1>19, ApplyPatchToCandidateKeeps
<1>20. CASE UNCHANGED chainVars
  BY <1>20, ChainInvStutters
<1> QED BY <1>1, <1>2, <1>3, <1>4, <1>5, <1>6, <1>7, <1>8, <1>9, <1>10, <1>11, <1>12, <1>13,
           <1>14, <1>15, <1>16, <1>17, <1>18, <1>19, <1>20 DEF ChainNext

\* The chain keeps its invariant: what run.json, the ledger, the create-only files and
\* the memory of the process say of each other holds in every state, whoever was
\* killed and whatever was revised (model_runner.rs, runner.rs, artifacts.rs).
THEOREM ChainInvHolds == ChainSpec => []ChainInv
<1>1. ChainInit => ChainInv
  BY ChainInvInitially
<1>2. ChainInv /\ [ChainNext]_chainVars => ChainInv'
  BY ChainInvInductive
<1> QED BY <1>1, <1>2, PTL DEF ChainSpec

\* What reaches the candidate is the patch of the current Development attempt, as the
\* one decision on file lets it through, for every diff and every policy
\* (gate_patch_with_execution, classify_paths, append_policy_decisions).
THEOREM DecisionHolds == ChainSpec => []DecisionStands
<1>1. ChainInv => DecisionStands
  BY DEF ChainInv, DiskInv, PatchIsDecided, OnFile, Clears, DecisionStands
<1> QED BY <1>1, ChainInvHolds, PTL

LEMMA CarriesFromInv ==
  ASSUME ChainInv
  PROVE  CarriesWhatStands
<1>1. RunIsTyped /\ LedgerHolds /\ AwaitsApproval
  BY DEF ChainInv, DiskInv
<1>2. ASSUME NEW s \in StepNames, NEW k, k = LastAsked(s), NEW request, request = run.ledger[k].request,
             k > 0, \A t \in DOMAIN request.prereq : LastAsked(t) < k /\ run.st[t] \in Terminal
      PROVE  /\ \A t \in DOMAIN request.prereq : request.prereq[t].response.answer = Answer(t)
             /\ s = "development" =>
                  /\ request.prereq["spec_review"].response.answer.is = "approve_spec"
                  /\ run.ledger[LastAsked("spec_review")].request.prereq["spec_creation"].response
                       = request.prereq["spec_creation"].response
  <2>1. k \in DOMAIN run.ledger /\ run.ledger[k].step = s
    BY <1>1, <1>2, LastAskedIs
  <2>2. /\ IsRequest(request, s)
        /\ \A t \in Needs(s) : LastAsked(t) < k /\ run.st[t] \in Terminal =>
             request.prereq[t].response = Standing(t)
    BY <1>1, <1>2, <2>1 DEF LedgerHolds, IsEntry
  <2>3. DOMAIN request.prereq = Needs(s)
    BY <2>2 DEF IsRequest
  <2>4. \A t \in Needs(s) : run.st[t] \in Terminal /\ request.prereq[t].response = Standing(t)
    BY <1>2, <2>2, <2>3
  <2>5. \A t \in Needs(s) : request.prereq[t].response.answer = Answer(t)
    BY <2>4 DEF Answer, Standing
  <2>6. ASSUME s = "development"
        PROVE  /\ request.prereq["spec_review"].response.answer.is = "approve_spec"
               /\ run.ledger[LastAsked("spec_review")].request.prereq["spec_creation"].response
                    = request.prereq["spec_creation"].response
    <3>1. {"spec_creation", "spec_review"} \subseteq Needs(s)
      BY <2>6, StepsAre DEF Needs, Prerequisites
    <3>2. /\ run.st["spec_review"] \in Terminal /\ run.st["spec_creation"] \in Terminal
          /\ request.prereq["spec_creation"].response = Standing("spec_creation")
      BY <2>4, <3>1
    <3>3. /\ LastAsked("spec_review") > 0
          /\ LastAsked("spec_creation") < LastAsked("spec_review")
      BY <1>1, <3>2, StepsAre DEF LedgerHolds, Rank
    <3>4. PICK j : j = LastAsked("spec_review")
      OBVIOUS
    <3>5. j \in DOMAIN run.ledger /\ run.ledger[j].step = "spec_review"
      BY <1>1, <3>3, <3>4, LastAskedIs
    <3>6. "spec_creation" \in Needs("spec_review")
      BY StepsAre DEF Needs, Prerequisites
    <3>7. run.ledger[j].request.prereq["spec_creation"].response = Standing("spec_creation")
      BY <1>1, <3>2, <3>3, <3>4, <3>5, <3>6 DEF LedgerHolds
    <3> QED BY <2>2, <2>6, <3>2, <3>4, <3>7 DEF IsRequest
  <2> QED BY <2>3, <2>5, <2>6
<1>3. run.status = "awaiting" => Answer("output_review").is = "approve_for_tests"
  BY <1>1 DEF AwaitsApproval
<1> QED BY <1>2, <1>3 DEF CarriesWhatStands

\* What a role was asked about still stands, for every order of steps, every answer,
\* and any number of crashes and revisions (prepare_provider_workspace,
\* development_prompt, output_review_subject, classify_provider_exchange_response).
THEOREM CarriesHolds == ChainSpec => []CarriesWhatStands
BY CarriesFromInv, ChainInvHolds, PTL

-----------------------------------------------------------------------------
(* Folds over a sequence, whatever is folded.                              *)

Solves(iter, n, base, op) ==
  \A s \in SUBSET (1 .. n) :
    iter[s] = IF s = {} THEN base ELSE op[<<iter[s \ {Max(s)}], Max(s)>>]

\* What a fold is computed from exists: a function of the positions folded so far.
LEMMA FoldExists ==
  ASSUME NEW n \in Nat, NEW S, NEW base \in S, NEW op, op \in [S \X (1 .. n) -> S]
  PROVE  \E g \in [SUBSET (1 .. n) -> S] : Solves(g, n, base, op)
<1> DEFINE Iter(g, m) ==
             /\ g \in [SUBSET (1 .. m) -> S]
             /\ \A s \in SUBSET (1 .. m) :
                  g[s] = IF s = {} THEN base ELSE op[<<g[s \ {Max(s)}], Max(s)>>]
           P == {m \in 0 .. n : \E g : Iter(g, m)}
<1>1. 0 \in P
  <2> DEFINE g == [s \in SUBSET (1 .. 0) |-> base]
  <2>1. \A s \in SUBSET (1 .. 0) : s = {}
    OBVIOUS
  <2>2. Iter(g, 0)
    BY <2>1
  <2>3. 0 \in 0 .. n
    OBVIOUS
  <2> HIDE DEF g, Iter
  <2> QED BY <2>2, <2>3
<1>2. ASSUME NEW m \in 0 .. n, m < n, m \in P PROVE m + 1 \in P
  <2>1. PICK g : Iter(g, m)
    BY <1>2
  <2> DEFINE M == 1 .. m + 1
             f == [s \in SUBSET M |-> IF m + 1 \in s THEN op[<<g[s \ {m + 1}], m + 1>>] ELSE g[s]]
  <2>0. m + 1 \in 1 .. n /\ \A s \in SUBSET M : s \ {m + 1} \in SUBSET (1 .. m)
    <3>1. m + 1 \in 1 .. n
      BY <1>2
    <3>2. \A k \in M : k = m + 1 \/ k \in 1 .. m
      BY <1>2
    <3> QED BY <3>1, <3>2
  <2>2. f \in [SUBSET M -> S]
    <3>1. ASSUME NEW s \in SUBSET M, m + 1 \in s PROVE op[<<g[s \ {m + 1}], m + 1>>] \in S
      <4>1. g[s \ {m + 1}] \in S
        BY <2>0, <2>1
      <4> QED BY <2>0, <4>1
    <3>2. ASSUME NEW s \in SUBSET M, m + 1 \notin s PROVE g[s] \in S
      <4>1. s = s \ {m + 1}
        BY <3>2
      <4> QED BY <2>0, <2>1, <4>1
    <3> QED BY <3>1, <3>2
  <2>3. ASSUME NEW s \in SUBSET M, m + 1 \in s
        PROVE  f[s] = op[<<f[s \ {Max(s)}], Max(s)>>]
    <3>1. Max(s) = m + 1
      BY <2>3, MaxUpTo
    <3>2. f[s \ {m + 1}] = g[s \ {m + 1}]
      OBVIOUS
    <3> QED BY <2>3, <3>1, <3>2
  <2>4. ASSUME NEW s \in SUBSET M, m + 1 \notin s
        PROVE  f[s] = IF s = {} THEN base ELSE op[<<f[s \ {Max(s)}], Max(s)>>]
    <3>1. s \in SUBSET (1 .. m)
      BY <2>0, <2>4
    <3>2. f[s] = g[s]
      BY <2>4
    <3>3. f[s \ {Max(s)}] = g[s \ {Max(s)}]
      BY <2>4
    <3>4. g[s] = IF s = {} THEN base ELSE op[<<g[s \ {Max(s)}], Max(s)>>]
      <4> HIDE DEF f
      <4> QED BY <2>1, <3>1
    <3> HIDE DEF f
    <3> QED BY <3>2, <3>3, <3>4
  <2>5. \A s \in SUBSET M : f[s] = IF s = {} THEN base ELSE op[<<f[s \ {Max(s)}], Max(s)>>]
    <3> HIDE DEF f
    <3> QED BY <2>3, <2>4
  <2>6. Iter(f, m + 1)
    <3> HIDE DEF f
    <3> QED BY <2>2, <2>5
  <2>7. m + 1 \in 0 .. n
    BY <1>2
  <2> HIDE DEF f, Iter
  <2> QED BY <2>6, <2>7
<1>3. n \in P
  <2>1. \A m \in 0 .. n : m < n /\ m \in P => m + 1 \in P
    BY <1>2
  <2>2. n \in 0 .. n
    OBVIOUS
  <2> HIDE DEF P
  <2>3. \A m \in 0 .. n : m \in P
    BY <1>1, <2>1, UpTo
  <2> QED BY <2>2, <2>3
<1>4. PICK g : Iter(g, n)
  BY <1>3
<1>5. g \in [SUBSET (1 .. n) -> S]
  BY <1>4
<1>6. Solves(g, n, base, op)
  <2>1. \A s \in SUBSET (1 .. n) :
          g[s] = IF s = {} THEN base ELSE op[<<g[s \ {Max(s)}], Max(s)>>]
    BY <1>4
  <2> QED BY <2>1 DEF Solves
<1> QED BY <1>5, <1>6

\* Only the prefixes of the sequence count: the values a fold goes through.
IsFold(h, n, base, op) ==
  h[0] = base /\ \A k \in 1 .. n : h[k] = op[<<h[k - 1], k>>]

LEMMA PrefixesAre ==
  ASSUME NEW n \in Nat
  PROVE  /\ 1 .. 0 = {} /\ {} \in SUBSET (1 .. n) /\ 1 .. n \in SUBSET (1 .. n)
         /\ \A k \in 1 .. n : /\ Max(1 .. k) = k /\ (1 .. k) \ {k} = 1 .. k - 1
                              /\ 1 .. k # {} /\ 1 .. k \in SUBSET (1 .. n)
                              /\ k - 1 \in 0 .. n /\ k \in 0 .. n
<1>1. ASSUME NEW k \in 1 .. n
      PROVE  /\ Max(1 .. k) = k /\ (1 .. k) \ {k} = 1 .. k - 1
             /\ 1 .. k # {} /\ 1 .. k \in SUBSET (1 .. n)
             /\ k - 1 \in 0 .. n /\ k \in 0 .. n
  <2>1. k \in 1 .. k /\ \A i \in 1 .. k : i \in 1 .. n
    OBVIOUS
  <2>2. \A i : i \in (1 .. k) \ {k} <=> i \in 1 .. k - 1
    OBVIOUS
  <2>3. Max(1 .. k) = k
    BY <2>1, MaxUpTo
  <2> QED BY <2>1, <2>2, <2>3
<1> QED BY <1>1

LEMMA FoldStatesOf ==
  ASSUME NEW n \in Nat, NEW S, NEW base \in S, NEW op, op \in [S \X (1 .. n) -> S]
  PROVE  \E g, h : /\ g \in [SUBSET (1 .. n) -> S] /\ Solves(g, n, base, op)
                   /\ h \in [0 .. n -> S] /\ IsFold(h, n, base, op)
<1>1. PICK g \in [SUBSET (1 .. n) -> S] : Solves(g, n, base, op)
  BY FoldExists
<1> DEFINE h == [k \in 0 .. n |-> g[1 .. k]]
<1>2. ASSUME NEW k \in 1 .. n PROVE h[k] = op[<<h[k - 1], k>>]
  <2>1. /\ Max(1 .. k) = k /\ (1 .. k) \ {k} = 1 .. k - 1
        /\ 1 .. k # {} /\ 1 .. k \in SUBSET (1 .. n)
        /\ k - 1 \in 0 .. n /\ k \in 0 .. n
    BY PrefixesAre
  <2>2. g[1 .. k] = op[<<g[(1 .. k) \ {Max(1 .. k)}], Max(1 .. k)>>]
    BY <1>1, <2>1 DEF Solves
  <2> QED BY <2>1, <2>2
<1>3. h[0] = base
  <2>1. g[1 .. 0] = base
    BY <1>1, PrefixesAre DEF Solves
  <2>2. 0 \in 0 .. n
    OBVIOUS
  <2> QED BY <2>1, <2>2
<1>4. h \in [0 .. n -> S]
  <2>1. \A k \in 0 .. n : 1 .. k \in SUBSET (1 .. n)
    BY PrefixesAre
  <2> QED BY <1>1, <2>1
<1> HIDE DEF h
<1>5. IsFold(h, n, base, op)
  BY <1>2, <1>3 DEF IsFold
<1> QED BY <1>1, <1>4, <1>5

SameSteps(iter, h, n, base, op) ==
  /\ iter[1 .. 0] = base
  /\ \A k \in 1 .. n : iter[1 .. k - 1] = h[k - 1] => iter[1 .. k] = op[<<h[k - 1], k>>]

\* Whatever is computed by the same steps comes to the same.
LEMMA FoldIsUnique ==
  ASSUME NEW n \in Nat, NEW base, NEW op, NEW h, IsFold(h, n, base, op), NEW iter,
         SameSteps(iter, h, n, base, op)
  PROVE  iter[1 .. n] = h[n]
<1> DEFINE P == {k \in 0 .. n : iter[1 .. k] = h[k]}
<1>1. 0 \in P
  BY DEF IsFold, SameSteps
<1>2. ASSUME NEW m \in 0 .. n, m < n, m \in P PROVE m + 1 \in P
  <2>1. m + 1 \in 1 .. n /\ m + 1 - 1 = m /\ m + 1 \in 0 .. n
    BY <1>2
  <2>2. iter[1 .. m + 1] = op[<<h[m], m + 1>>]
    BY <1>2, <2>1 DEF SameSteps
  <2>3. h[m + 1] = op[<<h[m], m + 1>>]
    BY <2>1 DEF IsFold
  <2> QED BY <2>1, <2>2, <2>3
<1>3. \A m \in 0 .. n : m < n /\ m \in P => m + 1 \in P
  BY <1>2
<1>4. n \in 0 .. n
  OBVIOUS
<1> HIDE DEF P
<1>5. n \in P
  BY <1>1, <1>3, <1>4, UpTo
<1> QED BY <1>5 DEF P

-----------------------------------------------------------------------------
(* Sizes and names of files.                                               *)

LEMMA BytesFold ==
  ASSUME NEW T, T \in {Nat, Int}, NEW f, Len(f) \in Nat, DOMAIN f = 1 .. Len(f),
         \A k \in 1 .. Len(f) : f[k].bytes \in T
  PROVE  \E h \in [0 .. Len(f) -> T] :
           /\ h[0] = 0 /\ \A k \in 1 .. Len(f) : h[k] = h[k - 1] + f[k].bytes
           /\ Bytes(f) = h[Len(f)]
<1> DEFINE n == Len(f)
           op == [x \in T \X (1 .. n) |-> x[1] + f[x[2]].bytes]
           Iter(g) == g = [s \in SUBSET (1 .. n) |->
                             IF s = {} THEN 0 ELSE g[s \ {Max(s)}] + f[Max(s)].bytes]
           iter == CHOOSE g : Iter(g)
<1>1. 0 \in T /\ op \in [T \X (1 .. n) -> T]
  OBVIOUS
<1>2. \A x \in T, k \in 1 .. n : op[<<x, k>>] = x + f[k].bytes
  OBVIOUS
<1>3. Bytes(f) = iter[1 .. n]
  BY DEF Bytes, FoldLeft, MapThenFoldSet
<1>4. n \in Nat
  OBVIOUS
<1> HIDE DEF op, n
<1>5. PICK g, h : /\ g \in [SUBSET (1 .. n) -> T] /\ Solves(g, n, 0, op)
                  /\ h \in [0 .. n -> T] /\ IsFold(h, n, 0, op)
  BY <1>1, <1>4, FoldStatesOf
<1>6. Iter(g)
  <2>1. ASSUME NEW s \in SUBSET (1 .. n), s # {} PROVE g[s] = g[s \ {Max(s)}] + f[Max(s)].bytes
    <3>1. Max(s) \in 1 .. n /\ g[s \ {Max(s)}] \in T
      BY <1>4, <1>5, <2>1, MaxUpTo
    <3> QED BY <1>2, <1>5, <2>1, <3>1 DEF Solves
  <2>2. g[{}] = 0
    BY <1>4, <1>5, PrefixesAre DEF Solves
  <2>3. \A s \in SUBSET (1 .. n) :
          g[s] = IF s = {} THEN 0 ELSE g[s \ {Max(s)}] + f[Max(s)].bytes
    BY <2>1, <2>2
  <2> QED BY <1>5, <2>3
<1>7. Iter(iter)
  <2> HIDE DEF Iter
  <2> QED BY <1>6
<1> HIDE DEF iter
<1>8. iter[1 .. 0] = 0
  BY <1>4, <1>7, PrefixesAre
<1>9. \A k \in 1 .. n : h[k - 1] \in T
  BY <1>4, <1>5, PrefixesAre
<1>10. \A k \in 1 .. n : iter[1 .. k - 1] = h[k - 1] => iter[1 .. k] = op[<<h[k - 1], k>>]
  <2> SUFFICES ASSUME NEW k \in 1 .. n, iter[1 .. k - 1] = h[k - 1]
               PROVE  iter[1 .. k] = op[<<h[k - 1], k>>]
    OBVIOUS
  <2>1. /\ Max(1 .. k) = k /\ (1 .. k) \ {k} = 1 .. k - 1
        /\ 1 .. k # {} /\ 1 .. k \in SUBSET (1 .. n)
    BY <1>4, PrefixesAre
  <2>2. iter[1 .. k] = iter[(1 .. k) \ {Max(1 .. k)}] + f[Max(1 .. k)].bytes
    BY <1>7, <2>1
  <2> QED BY <1>2, <1>9, <2>1, <2>2
<1>11. iter[1 .. n] = h[n]
  <2>1. SameSteps(iter, h, n, 0, op)
    BY <1>8, <1>10 DEF SameSteps
  <2> QED BY <1>4, <1>5, <2>1, FoldIsUnique
<1>12. \A k \in 1 .. n : h[k] = h[k - 1] + f[k].bytes
  BY <1>2, <1>5, <1>9 DEF IsFold
<1> QED BY <1>3, <1>5, <1>11, <1>12 DEF IsFold, n

LEMMA BytesIs ==
  ASSUME NEW T, T \in {Nat, Int}, NEW R, \A r \in R : r.bytes \in T, NEW f \in Seq(R)
  PROVE  Bytes(f) \in T
<1>0. Len(f) \in Nat /\ DOMAIN f = 1 .. Len(f) /\ \A k \in 1 .. Len(f) : f[k].bytes \in T
  OBVIOUS
<1>1. PICK h \in [0 .. Len(f) -> T] : Bytes(f) = h[Len(f)]
  BY <1>0, BytesFold
<1>2. Len(f) \in 0 .. Len(f)
  OBVIOUS
<1> QED BY <1>1, <1>2

LEMMA BytesJoined ==
  ASSUME NEW R, \A r \in R : r.bytes \in Int, NEW a \in Seq(R), NEW b \in Seq(R)
  PROVE  Bytes(a \o b) = Bytes(a) + Bytes(b)
<1>1. PICK c, m, n : c = a \o b /\ m = Len(a) /\ n = Len(b)
  OBVIOUS
<1>2. /\ m \in Nat /\ n \in Nat /\ c \in Seq(R) /\ Len(c) = m + n
      /\ DOMAIN a = 1 .. m /\ DOMAIN b = 1 .. n /\ DOMAIN c = 1 .. m + n
      /\ \A k \in 1 .. m : c[k] = a[k] /\ a[k] \in R
      /\ \A k \in 1 .. n : c[m + k] = b[k] /\ b[k] \in R
  BY <1>1
<1>3. Len(c) \in Nat /\ DOMAIN c = 1 .. Len(c) /\ \A k \in 1 .. Len(c) : c[k].bytes \in Int
  BY <1>2
<1>4. PICK f \in [0 .. m -> Int] :
        /\ f[0] = 0 /\ \A k \in 1 .. m : f[k] = f[k - 1] + a[k].bytes
        /\ Bytes(a) = f[m]
  BY <1>1, <1>2, BytesFold
<1>5. PICK g \in [0 .. n -> Int] :
        /\ g[0] = 0 /\ \A k \in 1 .. n : g[k] = g[k - 1] + b[k].bytes
        /\ Bytes(b) = g[n]
  BY <1>1, <1>2, BytesFold
<1>6. PICK h \in [0 .. m + n -> Int] :
        /\ h[0] = 0 /\ \A k \in 1 .. m + n : h[k] = h[k - 1] + c[k].bytes
        /\ Bytes(c) = h[m + n]
  <2>1. PICK h \in [0 .. Len(c) -> Int] :
          /\ h[0] = 0 /\ \A k \in 1 .. Len(c) : h[k] = h[k - 1] + c[k].bytes
          /\ Bytes(c) = h[Len(c)]
    BY <1>3, BytesFold
  <2> QED BY <1>2, <2>1
<1> DEFINE P == {k \in 0 .. m : h[k] = f[k]}
           Q == {k \in 0 .. n : h[m + k] = f[m] + g[k]}
<1>7. m \in P
  <2>1. 0 \in P
    BY <1>2, <1>4, <1>6
  <2>2. \A k \in 0 .. m : k < m /\ k \in P => k + 1 \in P
    <3>1. ASSUME NEW k \in 0 .. m, k < m, k \in P PROVE k + 1 \in P
      <4>1. k + 1 \in 1 .. m /\ k + 1 - 1 = k /\ k + 1 \in 1 .. m + n /\ k + 1 \in 0 .. m
        BY <1>2, <3>1
      <4>2. h[k + 1] = h[k] + c[k + 1].bytes /\ f[k + 1] = f[k] + a[k + 1].bytes
        BY <1>4, <1>6, <4>1
      <4>3. c[k + 1] = a[k + 1]
        BY <1>2, <4>1
      <4> QED BY <3>1, <4>1, <4>2, <4>3
    <3> QED BY <3>1
  <2>3. m \in 0 .. m
    BY <1>2
  <2> HIDE DEF P
  <2> QED BY <1>2, <2>1, <2>2, <2>3, UpTo
<1>8. n \in Q
  <2>1. 0 \in Q
    <3>1. f[m] \in Int
      BY <1>2, <1>4
    <3> QED BY <1>2, <1>5, <1>7, <3>1
  <2>2. \A k \in 0 .. n : k < n /\ k \in Q => k + 1 \in Q
    <3>1. ASSUME NEW k \in 0 .. n, k < n, k \in Q PROVE k + 1 \in Q
      <4>1. /\ k + 1 \in 1 .. n /\ k + 1 - 1 = k /\ k + 1 \in 0 .. n
            /\ m + (k + 1) \in 1 .. m + n /\ m + (k + 1) - 1 = m + k
        <5>1. m \in Nat /\ n \in Nat /\ k \in Nat /\ k < n
          BY <1>2, <3>1
        <5> HIDE DEF P, Q
        <5> QED BY <5>1
      <4>2. h[m + (k + 1)] = h[m + k] + c[m + (k + 1)].bytes /\ g[k + 1] = g[k] + b[k + 1].bytes
        <5>1. h[m + (k + 1)] = h[m + k] + c[m + (k + 1)].bytes
          <6>1. PICK j : j = m + (k + 1)
            OBVIOUS
          <6>2. j \in 1 .. m + n
            BY <4>1, <6>1
          <6>3. h[j] = h[j - 1] + c[j].bytes
            BY <1>6, <6>2
          <6>4. j - 1 = m + k
            <7>1. m \in Nat /\ k \in Nat
              BY <1>2, <3>1
            <7> HIDE DEF P, Q
            <7> QED BY <6>1, <7>1
          <6>5. h[j] = h[m + k] + c[j].bytes
            BY <6>3, <6>4
          <6> QED BY <6>1, <6>5
        <5>2. g[k + 1] = g[k + 1 - 1] + b[k + 1].bytes
          BY <1>5, <4>1
        <5> QED BY <4>1, <5>1, <5>2
      <4>3. c[m + (k + 1)] = b[k + 1] /\ b[k + 1].bytes \in Int
        BY <1>2, <4>1
      <4>4. f[m] \in Int /\ g[k] \in Int
        BY <1>2, <1>4, <1>5, <3>1
      <4> QED BY <3>1, <4>1, <4>2, <4>3, <4>4
    <3> QED BY <3>1
  <2>3. n \in 0 .. n
    BY <1>2
  <2> HIDE DEF Q
  <2> QED BY <1>2, <2>1, <2>2, <2>3, UpTo
<1> QED BY <1>1, <1>4, <1>5, <1>6, <1>8

LEMMA BytesOfNone == Bytes(<<>>) = 0
<1>1. Len(<<>>) = 0 /\ DOMAIN <<>> = 1 .. 0 /\ \A k \in 1 .. 0 : FALSE
  OBVIOUS
<1>2. PICK h : h[0] = 0 /\ Bytes(<<>>) = h[0]
  BY <1>1, BytesFold
<1> QED BY <1>2

LEMMA BytesAppended ==
  ASSUME NEW R, \A r \in R : r.bytes \in Int, NEW f \in Seq(R), NEW x \in R
  PROVE  Bytes(Append(f, x)) = Bytes(f) + x.bytes
<1>1. Append(f, x) = f \o <<x>> /\ <<x>> \in Seq(R)
  OBVIOUS
<1>2. Bytes(<<x>>) = x.bytes
  <2>1. PICK y : y = <<x>>
    OBVIOUS
  <2>2. Len(y) = 1 /\ DOMAIN y = 1 .. 1 /\ y[1] = x /\ 1 \in 1 .. 1 /\ \A k \in 1 .. 1 : y[k].bytes \in Int
    BY <2>1
  <2>a. Len(y) \in Nat /\ DOMAIN y = 1 .. Len(y) /\ \A k \in 1 .. Len(y) : y[k].bytes \in Int
    BY <2>2
  <2>3. PICK h \in [0 .. Len(y) -> Int] :
          /\ h[0] = 0 /\ \A k \in 1 .. Len(y) : h[k] = h[k - 1] + y[k].bytes
          /\ Bytes(y) = h[Len(y)]
    BY <2>a, BytesFold
  <2>4. h[1] = h[1 - 1] + y[1].bytes
    BY <2>2, <2>3
  <2>5. x.bytes \in Int
    OBVIOUS
  <2> QED BY <2>1, <2>2, <2>3, <2>4, <2>5
<1> QED BY <1>1, <1>2, BytesJoined

LEMMA FilesAre ==
  /\ \A r \in File : r.bytes \in Nat /\ r.bytes \in Int /\ r.path \in DOMAIN Tree
                     /\ ~MatchesAny(r.path, Forbidden)
  /\ \A f \in Seq(File) : /\ Len(f) \in Nat /\ DOMAIN f = 1 .. Len(f) /\ IsFiniteSet(Paths(f))
                          /\ \A p \in Paths(f) : p \in DOMAIN Tree /\ ~MatchesAny(p, Forbidden)
<1>1. \A r \in File : r.bytes \in Nat /\ r.bytes \in Int /\ r.path \in DOMAIN Tree
                     /\ ~MatchesAny(r.path, Forbidden)
  BY DEF File
<1>2. ASSUME NEW f \in Seq(File)
      PROVE  /\ Len(f) \in Nat /\ DOMAIN f = 1 .. Len(f) /\ IsFiniteSet(Paths(f))
             /\ \A p \in Paths(f) : p \in DOMAIN Tree /\ ~MatchesAny(p, Forbidden)
  <2>1. Len(f) \in Nat /\ DOMAIN f = 1 .. Len(f) /\ \A k \in DOMAIN f : f[k] \in File
    OBVIOUS
  <2>2. IsFiniteSet(DOMAIN f)
    BY <2>1, FS_Interval
  <2> DEFINE path == [k \in DOMAIN f |-> f[k].path]
  <2>3. Paths(f) = {path[k] : k \in DOMAIN f}
    BY DEF Paths
  <2>4. IsFiniteSet(Paths(f))
    <3> HIDE DEF path
    <3> QED BY <2>2, <2>3, FiniteImage
  <2> QED BY <1>1, <2>1, <2>4 DEF Paths
<1> QED BY <1>1, <1>2

LEMMA PathsJoined ==
  ASSUME NEW R, NEW a \in Seq(R), NEW b \in Seq(R)
  PROVE  Paths(a \o b) = Paths(a) \cup Paths(b)
<1>1. PICK c, m, n : c = a \o b /\ m = Len(a) /\ n = Len(b)
  OBVIOUS
<1>2. /\ m \in Nat /\ n \in Nat /\ DOMAIN a = 1 .. m /\ DOMAIN b = 1 .. n /\ DOMAIN c = 1 .. m + n
      /\ \A k \in 1 .. m : c[k] = a[k]
      /\ \A k \in 1 .. n : c[m + k] = b[k]
  BY <1>1
<1>3. \A k \in 1 .. m + n : k \in 1 .. m \/ \E j \in 1 .. n : k = m + j
  <2>1. ASSUME NEW k \in 1 .. m + n, k \notin 1 .. m PROVE k - m \in 1 .. n /\ k = m + (k - m)
    BY <1>2, <2>1
  <2> QED BY <2>1
<1>4. ASSUME NEW p \in Paths(c) PROVE p \in Paths(a) \cup Paths(b)
  <2>1. PICK k \in 1 .. m + n : p = c[k].path
    BY <1>2, <1>4 DEF Paths
  <2> QED BY <1>2, <1>3, <2>1 DEF Paths
<1>5. ASSUME NEW p \in Paths(a) PROVE p \in Paths(c)
  <2>1. PICK k \in 1 .. m : p = a[k].path
    BY <1>2, <1>5 DEF Paths
  <2>2. k \in 1 .. m + n
    BY <1>2
  <2> QED BY <1>2, <2>1, <2>2 DEF Paths
<1>6. ASSUME NEW p \in Paths(b) PROVE p \in Paths(c)
  <2>1. PICK k \in 1 .. n : p = b[k].path
    BY <1>2, <1>6 DEF Paths
  <2>2. m + k \in 1 .. m + n
    BY <1>2
  <2> QED BY <1>2, <2>1, <2>2 DEF Paths
<1> QED BY <1>1, <1>4, <1>5, <1>6

LEMMA PathsAppended ==
  ASSUME NEW R, NEW f \in Seq(R), NEW x \in R
  PROVE  Paths(Append(f, x)) = Paths(f) \cup {x.path}
<1>1. Append(f, x) = f \o <<x>> /\ <<x>> \in Seq(R)
  OBVIOUS
<1>2. Paths(<<x>>) = {x.path}
  <2>1. PICK y : y = <<x>>
    OBVIOUS
  <2>2. DOMAIN y = {1} /\ y[1] = x
    BY <2>1
  <2> QED BY <2>1, <2>2 DEF Paths
<1>3. PICK y : y = <<x>> /\ y \in Seq(R)
  BY <1>1
<1>4. Paths(f \o y) = Paths(f) \cup Paths(y)
  BY <1>3, PathsJoined
<1> QED BY <1>1, <1>2, <1>3, <1>4

LEMMA PathsOfNone == Paths(<<>>) = {} /\ Cardinality(Paths(<<>>)) = Len(<<>>)
<1>1. Paths(<<>>) = {} /\ Len(<<>>) = 0
  BY DEF Paths
<1> QED BY <1>1, FS_EmptySet

-----------------------------------------------------------------------------
(* The files of a chain.                                                   *)

LEMMA ChainFold ==
  ASSUME NEW c, Len(c) \in Nat, DOMAIN c = 1 .. Len(c), \A k \in 1 .. Len(c) : c[k].files \in Seq(File)
  PROVE  \E h \in [0 .. Len(c) -> Seq(File)] :
           /\ h[0] = <<>> /\ \A k \in 1 .. Len(c) : h[k] = h[k - 1] \o c[k].files
           /\ ChainFiles(c) = h[Len(c)]
<1> DEFINE n == Len(c)
           T == Seq(File)
           op == [x \in T \X (1 .. n) |-> x[1] \o c[x[2]].files]
           Iter(g) == g = [s \in SUBSET (1 .. n) |->
                             IF s = {} THEN <<>> ELSE g[s \ {Max(s)}] \o c[Max(s)].files]
           iter == CHOOSE g : Iter(g)
<1>1. <<>> \in T /\ op \in [T \X (1 .. n) -> T]
  OBVIOUS
<1>2. \A x \in T, k \in 1 .. n : op[<<x, k>>] = x \o c[k].files
  OBVIOUS
<1>3. ChainFiles(c) = iter[1 .. n]
  BY DEF ChainFiles, FoldLeft, MapThenFoldSet
<1>4. n \in Nat
  OBVIOUS
<1> HIDE DEF op, n, T
<1>5. PICK g, h : /\ g \in [SUBSET (1 .. n) -> T] /\ Solves(g, n, <<>>, op)
                  /\ h \in [0 .. n -> T] /\ IsFold(h, n, <<>>, op)
  BY <1>1, <1>4, FoldStatesOf
<1>6. Iter(g)
  <2>1. ASSUME NEW s \in SUBSET (1 .. n), s # {} PROVE g[s] = g[s \ {Max(s)}] \o c[Max(s)].files
    <3>1. Max(s) \in 1 .. n /\ g[s \ {Max(s)}] \in T
      BY <1>4, <1>5, <2>1, MaxUpTo
    <3>2. g[s] = op[<<g[s \ {Max(s)}], Max(s)>>]
      BY <1>5, <2>1 DEF Solves
    <3> QED BY <1>2, <3>1, <3>2
  <2>2. g[{}] = <<>>
    BY <1>4, <1>5, PrefixesAre DEF Solves
  <2>3. \A s \in SUBSET (1 .. n) :
          g[s] = IF s = {} THEN <<>> ELSE g[s \ {Max(s)}] \o c[Max(s)].files
    BY <2>1, <2>2
  <2> QED BY <1>5, <2>3
<1>7. Iter(iter)
  <2> HIDE DEF Iter
  <2> QED BY <1>6
<1> HIDE DEF iter
<1>8. iter[1 .. 0] = <<>>
  BY <1>4, <1>7, PrefixesAre
<1>9. \A k \in 1 .. n : h[k - 1] \in T
  BY <1>4, <1>5, PrefixesAre
<1>10. \A k \in 1 .. n : iter[1 .. k - 1] = h[k - 1] => iter[1 .. k] = op[<<h[k - 1], k>>]
  <2> SUFFICES ASSUME NEW k \in 1 .. n, iter[1 .. k - 1] = h[k - 1]
               PROVE  iter[1 .. k] = op[<<h[k - 1], k>>]
    OBVIOUS
  <2>1. /\ Max(1 .. k) = k /\ (1 .. k) \ {k} = 1 .. k - 1
        /\ 1 .. k # {} /\ 1 .. k \in SUBSET (1 .. n)
    BY <1>4, PrefixesAre
  <2>2. iter[1 .. k] = iter[(1 .. k) \ {Max(1 .. k)}] \o c[Max(1 .. k)].files
    BY <1>7, <2>1
  <2> QED BY <1>2, <1>9, <2>1, <2>2
<1>11. iter[1 .. n] = h[n]
  <2>1. SameSteps(iter, h, n, <<>>, op)
    BY <1>8, <1>10 DEF SameSteps
  <2> QED BY <1>4, <1>5, <2>1, FoldIsUnique
<1>12. \A k \in 1 .. n : h[k] = h[k - 1] \o c[k].files
  BY <1>2, <1>5, <1>9 DEF IsFold
<1> QED BY <1>3, <1>5, <1>11, <1>12 DEF IsFold, n, T

LEMMA ChainFilesAre ==
  ASSUME NEW c, IsChain(c)
  PROVE  ChainFiles(c) \in Seq(File)
<1>1. Len(c) \in Nat /\ DOMAIN c = 1 .. Len(c) /\ \A k \in 1 .. Len(c) : c[k].files \in Seq(File)
  BY DEF IsChain
<1>2. PICK h \in [0 .. Len(c) -> Seq(File)] : ChainFiles(c) = h[Len(c)]
  BY <1>1, ChainFold
<1>3. Len(c) \in 0 .. Len(c)
  BY <1>1
<1> QED BY <1>2, <1>3

LEMMA ChainFilesOfNone == IsChain(<<>>) /\ ChainFiles(<<>>) = <<>>
<1>1. Len(<<>>) = 0 /\ DOMAIN <<>> = 1 .. 0 /\ \A k \in 1 .. 0 : FALSE
  OBVIOUS
<1>2. PICK h : h[0] = <<>> /\ ChainFiles(<<>>) = h[0]
  BY <1>1, ChainFold
<1>3. IsChain(<<>>)
  BY DEF IsChain
<1> QED BY <1>2, <1>3

LEMMA ChainFilesAppended ==
  ASSUME NEW c, IsChain(c), NEW x, x.files \in Seq(File)
  PROVE  IsChain(Append(c, x)) /\ ChainFiles(Append(c, x)) = ChainFiles(c) \o x.files
<1>1. PICK d, n : d = Append(c, x) /\ n = Len(c)
  OBVIOUS
<1>2. /\ n \in Nat /\ DOMAIN c = 1 .. n /\ \A k \in 1 .. n : c[k].files \in Seq(File)
      /\ d \in Seq(ToSet(d)) /\ Len(d) = n + 1 /\ DOMAIN d = 1 .. n + 1
      /\ \A k \in 1 .. n : d[k] = c[k]
      /\ d[n + 1] = x
  <2>1. c \in Seq(ToSet(c)) /\ \A k \in DOMAIN c : c[k].files \in Seq(File)
    BY DEF IsChain
  <2>2. /\ Append(c, x) \in Seq(ToSet(Append(c, x)))
        /\ Len(c) \in Nat /\ Len(Append(c, x)) = Len(c) + 1
        /\ \A k \in 1 .. Len(c) : Append(c, x)[k] = c[k]
        /\ Append(c, x)[Len(c) + 1] = x
    BY <2>1, Appended
  <2>3. d \in Seq(ToSet(d)) /\ Len(d) = n + 1
    BY <1>1, <2>2
  <2>4. DOMAIN d = 1 .. n + 1
    BY <2>3
  <2>5. DOMAIN c = 1 .. n
    BY <1>1, <2>1
  <2> QED BY <1>1, <2>1, <2>2, <2>3, <2>4, <2>5
<1>3. \A k \in 1 .. n + 1 : d[k].files \in Seq(File)
  <2>1. \A k \in 1 .. n + 1 : k \in 1 .. n \/ k = n + 1
    BY <1>2
  <2> QED BY <1>2, <2>1
<1>4. IsChain(d)
  BY <1>2, <1>3 DEF IsChain
<1>5. Len(d) \in Nat /\ DOMAIN d = 1 .. Len(d) /\ \A k \in 1 .. Len(d) : d[k].files \in Seq(File)
  BY <1>2, <1>3
<1>6. PICK f \in [0 .. n -> Seq(File)] :
        /\ f[0] = <<>> /\ \A k \in 1 .. n : f[k] = f[k - 1] \o c[k].files
        /\ ChainFiles(c) = f[n]
  BY <1>1, <1>2, ChainFold
<1>7. PICK h \in [0 .. n + 1 -> Seq(File)] :
        /\ h[0] = <<>> /\ \A k \in 1 .. n + 1 : h[k] = h[k - 1] \o d[k].files
        /\ ChainFiles(d) = h[n + 1]
  <2>1. PICK h \in [0 .. Len(d) -> Seq(File)] :
          /\ h[0] = <<>> /\ \A k \in 1 .. Len(d) : h[k] = h[k - 1] \o d[k].files
          /\ ChainFiles(d) = h[Len(d)]
    BY <1>5, ChainFold
  <2> QED BY <1>2, <2>1
<1> DEFINE P == {k \in 0 .. n : h[k] = f[k]}
<1>8. n \in P
  <2>1. 0 \in P
    BY <1>2, <1>6, <1>7
  <2>2. ASSUME NEW k \in 0 .. n, k < n, k \in P PROVE k + 1 \in P
    <3>1. PICK j : j = k + 1
      OBVIOUS
    <3>2. j \in 1 .. n /\ j - 1 = k /\ j \in 1 .. n + 1 /\ j \in 0 .. n
      BY <1>2, <2>2, <3>1
    <3>3. h[j] = h[j - 1] \o d[j].files
      BY <1>7, <3>2
    <3>4. f[j] = f[j - 1] \o c[j].files
      BY <1>6, <3>2
    <3>5. d[j] = c[j]
      BY <1>2, <3>2
    <3> QED BY <2>2, <3>1, <3>2, <3>3, <3>4, <3>5
  <2>3. \A k \in 0 .. n : k < n /\ k \in P => k + 1 \in P
    BY <2>2
  <2>4. n \in 0 .. n
    BY <1>2
  <2> HIDE DEF P
  <2> QED BY <1>2, <2>1, <2>3, <2>4, UpTo
<1>9. h[n + 1] = h[n] \o x.files
  <2>1. PICK j : j = n + 1
    OBVIOUS
  <2>2. j \in 1 .. n + 1 /\ j - 1 = n
    BY <1>2, <2>1
  <2>3. h[j] = h[j - 1] \o d[j].files
    BY <1>7, <2>2
  <2> QED BY <1>2, <2>1, <2>2, <2>3
<1> QED BY <1>1, <1>4, <1>6, <1>7, <1>8, <1>9

-----------------------------------------------------------------------------
(* The bundle.                                                             *)

LEMMA Remainder ==
  ASSUME NEW n \in Nat, NEW w \in Nat \ {0}
  PROVE  n % w \in Nat /\ n % w <= n
<1>1. n % w \in 0 .. w - 1
  OBVIOUS
<1>2. CASE n < w
  <2>1. n % w = n
    BY <1>2
  <2> QED BY <2>1
<1>3. CASE n >= w
  BY <1>1, <1>3
<1> QED BY <1>2, <1>3

LEMMA PrefixIs ==
  ASSUME NEW p \in DOMAIN Tree, NEW limit \in Nat
  PROVE  PrefixLen(Tree[p], limit) \in Nat /\ PrefixLen(Tree[p], limit) <= limit
<1>1. PICK n, w : n = MinOf(Tree[p].size, limit) /\ w = Tree[p].width
  OBVIOUS
<1>2. n \in Nat /\ n <= limit /\ w \in Nat \ {0}
  BY <1>1, TreeAssumption DEF MinOf
<1>3. n % w \in Nat /\ n % w <= n
  BY <1>2, Remainder
<1>4. PrefixLen(Tree[p], limit) = n - (n % w)
  BY <1>1 DEF PrefixLen
<1>5. PICK m : m = n % w
  OBVIOUS
<1> QED BY <1>2, <1>3, <1>4, <1>5

\* What packing goes through: files within the total, none twice.
Packing ==
  {p \in [files : Seq(File), stop : BOOLEAN] :
     Cardinality(Paths(p.files)) = Len(p.files) /\ Bytes(p.files) <= Limits.total}

LEMMA PackOneKeeps ==
  ASSUME NEW packed \in Packing, NEW path \in DOMAIN Tree, ~MatchesAny(path, Forbidden)
  PROVE  PackOne(Tree, packed, path) \in Packing
<1>1. PICK found, left, cut :
        /\ found = Tree[path] /\ left = Limits.total - Bytes(packed.files)
        /\ cut = PrefixLen(found, MinOf(Limits.file, left))
  OBVIOUS
<1>2. /\ packed.files \in Seq(File) /\ packed.stop \in BOOLEAN
      /\ packed = [files |-> packed.files, stop |-> packed.stop]
      /\ Cardinality(Paths(packed.files)) = Len(packed.files) /\ Bytes(packed.files) <= Limits.total
  BY DEF Packing
<1>3. Bytes(packed.files) \in Nat
  BY <1>2, FilesAre, BytesIs
<1>4. left \in Nat /\ Limits.total \in Nat /\ Limits.file \in Nat
  BY <1>1, <1>2, <1>3, TreeAssumption
<1>5. cut \in Nat /\ cut <= left
  <2>1. PICK limit : limit = MinOf(Limits.file, left)
    OBVIOUS
  <2>2. limit \in Nat /\ limit <= left
    BY <1>4, <2>1 DEF MinOf
  <2>3. cut = PrefixLen(Tree[path], limit)
    BY <1>1, <2>1
  <2>4. cut \in Nat /\ cut <= limit
    BY <2>2, <2>3, PrefixIs
  <2> QED BY <1>4, <2>2, <2>4
<1>6. CASE packed.stop \/ path \in Paths(packed.files) \/ found.is # "text"
  <2>1. PackOne(Tree, packed, path) = packed
    BY <1>1, <1>6 DEF PackOne
  <2> QED BY <2>1
<1>7. CASE /\ ~(packed.stop \/ path \in Paths(packed.files) \/ found.is # "text")
           /\ left = 0 \/ (cut = 0 /\ found.size > 0)
  <2>1. PackOne(Tree, packed, path) = [files |-> packed.files, stop |-> TRUE]
    BY <1>1, <1>7 DEF PackOne
  <2>3. PICK q : q = [files |-> packed.files, stop |-> TRUE]
    OBVIOUS
  <2>4. q \in [files : Seq(File), stop : BOOLEAN] /\ q.files = packed.files
    BY <1>2, <2>3
  <2>5. q \in Packing
    BY <1>2, <2>4 DEF Packing
  <2> QED BY <2>1, <2>3, <2>5
<1>8. CASE /\ ~(packed.stop \/ path \in Paths(packed.files) \/ found.is # "text")
           /\ ~(left = 0 \/ (cut = 0 /\ found.size > 0))
  <2>1. PICK x, f, stop, q :
          /\ x = [path |-> path, bytes |-> cut] /\ f = Append(packed.files, x) /\ stop = (cut >= left)
          /\ q = [files |-> f, stop |-> stop]
    OBVIOUS
  <2>2. PackOne(Tree, packed, path) = q
    BY <1>1, <1>8, <2>1 DEF PackOne
  <2>3. x \in File /\ x.path = path /\ x.bytes = cut
    BY <1>5, <2>1 DEF File
  <2>4. stop \in BOOLEAN
    BY <2>1
  <2>5. f \in Seq(File) /\ Len(f) = Len(packed.files) + 1
    BY <1>2, <2>1, <2>3
  <2>6. q \in [files : Seq(File), stop : BOOLEAN] /\ q.files = f
    BY <2>1, <2>4, <2>5
  <2>7. Bytes(f) = Bytes(packed.files) + cut
    BY <1>2, <2>1, <2>3, FilesAre, BytesAppended
  <2>8. Bytes(f) <= Limits.total
    BY <1>1, <1>3, <1>4, <1>5, <2>7
  <2>9. Paths(f) = Paths(packed.files) \cup {path}
    BY <1>2, <2>1, <2>3, PathsAppended
  <2>10. Cardinality(Paths(f)) = Len(f)
    <3>1. IsFiniteSet(Paths(packed.files))
      BY <1>2, FilesAre
    <3>2. Cardinality(Paths(packed.files) \cup {path}) = Cardinality(Paths(packed.files)) + 1
      BY <1>8, <3>1, FS_AddElement
    <3> QED BY <1>2, <2>5, <2>9, <3>2
  <2>11. q \in Packing
    BY <2>6, <2>8, <2>10 DEF Packing
  <2> QED BY <2>2, <2>11
<1> QED BY <1>6, <1>7, <1>8

\* The bundle is within the total, without a file twice or forbidden.
LEMMA PackedIs ==
  ASSUME ~LiveRefused(Tree, Relevant)
  PROVE  /\ Packed \in Seq(File)
         /\ Cardinality(Paths(Packed)) = Len(Packed) /\ Bytes(Packed) <= Limits.total
<1> DEFINE n == Len(Relevant)
           start == [files |-> <<>>, stop |-> FALSE]
           op == [x \in Packing \X (1 .. n) |-> PackOne(Tree, x[1], NormalPath(Relevant[x[2]]))]
           Iter(g) == g = [s \in SUBSET (1 .. n) |->
                             IF s = {} THEN start
                             ELSE PackOne(Tree, g[s \ {Max(s)}], NormalPath(Relevant[Max(s)]))]
           iter == CHOOSE g : Iter(g)
<1>1. n \in Nat /\ DOMAIN Relevant = 1 .. n
  BY TreeAssumption
<1>2. start \in Packing
  <2>1. start \in [files : Seq(File), stop : BOOLEAN] /\ start.files = <<>>
    OBVIOUS
  <2>2. Bytes(start.files) <= Limits.total /\ Cardinality(Paths(start.files)) = Len(start.files)
    <3>1. Bytes(<<>>) <= Limits.total
      BY BytesOfNone, TreeAssumption
    <3> QED BY <2>1, <3>1, PathsOfNone
  <2> HIDE DEF start
  <2> QED BY <2>1, <2>2 DEF Packing
<1>3. \A k \in 1 .. n : /\ NormalPath(Relevant[k]) \in DOMAIN Tree
                        /\ ~MatchesAny(NormalPath(Relevant[k]), Forbidden)
  BY <1>1, TreeAssumption DEF LiveRefused
<1>4. op \in [Packing \X (1 .. n) -> Packing]
  <2>1. ASSUME NEW x \in Packing \X (1 .. n)
        PROVE  PackOne(Tree, x[1], NormalPath(Relevant[x[2]])) \in Packing
    <3>1. x[1] \in Packing /\ x[2] \in 1 .. n
      OBVIOUS
    <3> QED BY <1>3, <3>1, PackOneKeeps
  <2> QED BY <2>1
<1>5. \A x \in Packing, k \in 1 .. n : op[<<x, k>>] = PackOne(Tree, x, NormalPath(Relevant[k]))
  OBVIOUS
<1>6. Packed = iter[1 .. n].files
  BY <1>1 DEF Packed, PackContext, FoldLeft, MapThenFoldSet
<1> HIDE DEF op, n, start
<1>7. PICK g, h : /\ g \in [SUBSET (1 .. n) -> Packing] /\ Solves(g, n, start, op)
                  /\ h \in [0 .. n -> Packing] /\ IsFold(h, n, start, op)
  BY <1>1, <1>2, <1>4, FoldStatesOf
<1>8. Iter(g)
  <2>1. ASSUME NEW s \in SUBSET (1 .. n), s # {}
        PROVE  g[s] = PackOne(Tree, g[s \ {Max(s)}], NormalPath(Relevant[Max(s)]))
    <3>1. Max(s) \in 1 .. n /\ g[s \ {Max(s)}] \in Packing
      BY <1>1, <1>7, <2>1, MaxUpTo
    <3>2. g[s] = op[<<g[s \ {Max(s)}], Max(s)>>]
      BY <1>7, <2>1 DEF Solves
    <3> QED BY <1>5, <3>1, <3>2
  <2>2. g[{}] = start
    BY <1>1, <1>7, PrefixesAre DEF Solves
  <2>3. \A s \in SUBSET (1 .. n) :
          g[s] = IF s = {} THEN start ELSE PackOne(Tree, g[s \ {Max(s)}], NormalPath(Relevant[Max(s)]))
    BY <2>1, <2>2
  <2> QED BY <1>7, <2>3
<1>9. Iter(iter)
  <2> HIDE DEF Iter
  <2> QED BY <1>8
<1> HIDE DEF iter
<1>10. iter[1 .. 0] = start
  BY <1>1, <1>9, PrefixesAre
<1>11. \A k \in 1 .. n : h[k - 1] \in Packing
  BY <1>1, <1>7, PrefixesAre
<1>12. \A k \in 1 .. n : iter[1 .. k - 1] = h[k - 1] => iter[1 .. k] = op[<<h[k - 1], k>>]
  <2> SUFFICES ASSUME NEW k \in 1 .. n, iter[1 .. k - 1] = h[k - 1]
               PROVE  iter[1 .. k] = op[<<h[k - 1], k>>]
    OBVIOUS
  <2>1. /\ Max(1 .. k) = k /\ (1 .. k) \ {k} = 1 .. k - 1
        /\ 1 .. k # {} /\ 1 .. k \in SUBSET (1 .. n)
    BY <1>1, PrefixesAre
  <2>2. iter[1 .. k] = PackOne(Tree, iter[(1 .. k) \ {Max(1 .. k)}], NormalPath(Relevant[Max(1 .. k)]))
    BY <1>9, <2>1
  <2> QED BY <1>5, <1>11, <2>1, <2>2
<1>13. iter[1 .. n] = h[n]
  <2>1. SameSteps(iter, h, n, start, op)
    BY <1>10, <1>12 DEF SameSteps
  <2> QED BY <1>1, <1>7, <2>1, FoldIsUnique
<1>14. h[n] \in Packing
  BY <1>1, <1>7
<1> QED BY <1>6, <1>13, <1>14 DEF Packing

-----------------------------------------------------------------------------
(* An expansion.                                                           *)

ReadFile(new) == [path : new \cap DOMAIN Tree, bytes : Int]

LEMMA ReadNewKeeps ==
  ASSUME NEW new, NEW room \in Int, NEW f \in Seq(ReadFile(new)), NEW p \in DOMAIN Tree
  PROVE  ReadNew(Tree, room, new, f, p) \in Seq(ReadFile(new))
<1>1. PICK limit, cut, x :
        /\ limit = MinOf(Limits.file, room - Bytes(f)) /\ cut = PrefixLen(Tree[p], limit)
        /\ x = [path |-> p, bytes |-> cut]
  OBVIOUS
<1>2. Bytes(f) \in Int
  BY BytesIs DEF ReadFile
<1>3. limit \in Int
  BY <1>1, <1>2, TreeAssumption DEF MinOf
<1>4. cut \in Int
  <2>1. PICK n, w : n = MinOf(Tree[p].size, limit) /\ w = Tree[p].width
    OBVIOUS
  <2>2. n \in Int /\ w \in Nat \ {0}
    BY <1>3, <2>1, TreeAssumption DEF MinOf
  <2>3. n % w \in Int
    BY <2>2
  <2>4. cut = n - (n % w)
    BY <1>1, <2>1 DEF PrefixLen
  <2> QED BY <2>2, <2>3, <2>4
<1>5. CASE p \notin new
  BY <1>5 DEF ReadNew
<1>6. CASE p \in new
  <2>1. ReadNew(Tree, room, new, f, p) = Append(f, x)
    BY <1>1, <1>6 DEF ReadNew
  <2>2. x \in ReadFile(new)
    BY <1>1, <1>4, <1>6 DEF ReadFile
  <2> QED BY <2>1, <2>2
<1> QED BY <1>5, <1>6

\* What an expansion reads is asked for and was not there before.
LEMMA NewFilesAre ==
  ASSUME NEW of, NEW chain, NEW asked, NEW next, next = Len(chain) + 1,
         TotalBefore(of, chain, next) \in Int
  PROVE  NewFiles(Tree, Order, of, chain, asked)
           \in Seq(ReadFile(asked \ LoadedBefore(of, chain, next)))
<1> DEFINE n == Len(Order)
           new == asked \ LoadedBefore(of, chain, Len(chain) + 1)
           room == Limits.total - TotalBefore(of, chain, Len(chain) + 1)
           T == Seq(ReadFile(new))
           op == [x \in T \X (1 .. n) |-> ReadNew(Tree, room, new, x[1], Order[x[2]])]
           Iter(g) == g = [s \in SUBSET (1 .. n) |->
                             IF s = {} THEN <<>>
                             ELSE ReadNew(Tree, room, new, g[s \ {Max(s)}], Order[Max(s)])]
           iter == CHOOSE g : Iter(g)
<1>1. n \in Nat /\ DOMAIN Order = 1 .. n /\ \A k \in 1 .. n : Order[k] \in DOMAIN Tree
  BY TreeAssumption
<1>2. room \in Int
  BY TreeAssumption
<1>3. NewFiles(Tree, Order, of, chain, asked) = iter[1 .. n]
  BY <1>1 DEF NewFiles, FoldLeft, MapThenFoldSet
<1>4. T = Seq(ReadFile(asked \ LoadedBefore(of, chain, next)))
  OBVIOUS
<1> HIDE DEF n, new, room
<1>5. <<>> \in T
  OBVIOUS
<1>6. \A x \in T, k \in 1 .. n : ReadNew(Tree, room, new, x, Order[k]) \in T
  BY <1>1, <1>2, ReadNewKeeps
<1>7. op \in [T \X (1 .. n) -> T]
  <2>1. ASSUME NEW x \in T \X (1 .. n) PROVE ReadNew(Tree, room, new, x[1], Order[x[2]]) \in T
    <3>1. x[1] \in T /\ x[2] \in 1 .. n
      OBVIOUS
    <3> QED BY <1>6, <3>1
  <2> HIDE DEF T
  <2> QED BY <2>1
<1>8. \A x \in T, k \in 1 .. n : op[<<x, k>>] = ReadNew(Tree, room, new, x, Order[k])
  <2> HIDE DEF T
  <2> QED OBVIOUS
<1> HIDE DEF op, T
<1>9. PICK g, h : /\ g \in [SUBSET (1 .. n) -> T] /\ Solves(g, n, <<>>, op)
                  /\ h \in [0 .. n -> T] /\ IsFold(h, n, <<>>, op)
  BY <1>1, <1>5, <1>7, FoldStatesOf
<1>10. Iter(g)
  <2>1. ASSUME NEW s \in SUBSET (1 .. n), s # {}
        PROVE  g[s] = ReadNew(Tree, room, new, g[s \ {Max(s)}], Order[Max(s)])
    <3>1. Max(s) \in 1 .. n /\ g[s \ {Max(s)}] \in T
      BY <1>1, <1>9, <2>1, MaxUpTo
    <3>2. g[s] = op[<<g[s \ {Max(s)}], Max(s)>>]
      BY <1>9, <2>1 DEF Solves
    <3> QED BY <1>8, <3>1, <3>2
  <2>2. g[{}] = <<>>
    BY <1>1, <1>9, PrefixesAre DEF Solves
  <2>3. \A s \in SUBSET (1 .. n) :
          g[s] = IF s = {} THEN <<>> ELSE ReadNew(Tree, room, new, g[s \ {Max(s)}], Order[Max(s)])
    BY <2>1, <2>2
  <2> QED BY <1>9, <2>3
<1>11. Iter(iter)
  <2> HIDE DEF Iter
  <2> QED BY <1>10
<1> HIDE DEF iter
<1>12. iter[1 .. 0] = <<>>
  BY <1>1, <1>11, PrefixesAre
<1>13. \A k \in 1 .. n : h[k - 1] \in T
  BY <1>1, <1>9, PrefixesAre
<1>14. \A k \in 1 .. n : iter[1 .. k - 1] = h[k - 1] => iter[1 .. k] = op[<<h[k - 1], k>>]
  <2> SUFFICES ASSUME NEW k \in 1 .. n, iter[1 .. k - 1] = h[k - 1]
               PROVE  iter[1 .. k] = op[<<h[k - 1], k>>]
    OBVIOUS
  <2>1. /\ Max(1 .. k) = k /\ (1 .. k) \ {k} = 1 .. k - 1
        /\ 1 .. k # {} /\ 1 .. k \in SUBSET (1 .. n)
    BY <1>1, PrefixesAre
  <2>2. iter[1 .. k] = ReadNew(Tree, room, new, iter[(1 .. k) \ {Max(1 .. k)}], Order[Max(1 .. k)])
    BY <1>11, <2>1
  <2> QED BY <1>8, <1>13, <2>1, <2>2
<1>15. iter[1 .. n] = h[n]
  <2>1. SameSteps(iter, h, n, <<>>, op)
    BY <1>12, <1>14 DEF SameSteps
  <2> QED BY <1>1, <1>9, <2>1, FoldIsUnique
<1>16. h[n] \in T
  BY <1>1, <1>9
<1> QED BY <1>3, <1>4, <1>15, <1>16

\* The total and the names count what one more expansion adds.
LEMMA BeforeAppended ==
  ASSUME NEW chain, IsChain(chain), NEW x, NEW n, n = Len(chain) + 1, NEW of
  PROVE  /\ Len(Append(chain, x)) + 1 = n + 1
         /\ TotalBefore(of, Append(chain, x), n + 1) = x.total
         /\ LoadedBefore(of, Append(chain, x), n + 1) = LoadedBefore(of, chain, n) \cup Paths(x.files)
<1>1. PICK d, m : d = Append(chain, x) /\ m = Len(chain)
  OBVIOUS
<1>2. /\ m \in Nat /\ Len(d) = m + 1 /\ n = m + 1
      /\ \A k \in 1 .. m : d[k] = chain[k]
      /\ d[m + 1] = x
  <2>1. chain \in Seq(ToSet(chain))
    BY DEF IsChain
  <2>2. /\ Len(chain) \in Nat /\ Len(Append(chain, x)) = Len(chain) + 1
        /\ \A k \in 1 .. Len(chain) : Append(chain, x)[k] = chain[k]
        /\ Append(chain, x)[Len(chain) + 1] = x
    BY <2>1, Appended
  <2> QED BY <1>1, <2>2
<1>3. TotalBefore(of, d, n + 1) = x.total
  <2>1. n + 1 # 1 /\ n + 1 - 1 = m + 1
    BY <1>2
  <2>2. TotalBefore(of, d, n + 1) = d[n + 1 - 1].total
    BY <2>1 DEF TotalBefore
  <2> QED BY <1>2, <2>1, <2>2
<1>4. LoadedBefore(of, d, n + 1) = LoadedBefore(of, chain, n) \cup Paths(x.files)
  <2>1. \A j : j \in 1 .. n + 1 - 1 <=> j \in 1 .. n - 1 \/ j = m + 1
    BY <1>2
  <2>2. \A j \in 1 .. n - 1 : d[j] = chain[j]
    BY <1>2
  <2>3. ASSUME NEW p
        PROVE  (\E j \in 1 .. n + 1 - 1 : p \in Paths(d[j].files))
                 <=> (\E j \in 1 .. n - 1 : p \in Paths(chain[j].files)) \/ p \in Paths(x.files)
    BY <1>2, <2>1, <2>2
  <2>4. \A p : p \in LoadedBefore(of, d, n + 1)
                 <=> p \in Paths(of.bundle) \/ \E j \in 1 .. n + 1 - 1 : p \in Paths(d[j].files)
    BY DEF LoadedBefore
  <2>5. \A p : p \in LoadedBefore(of, chain, n)
                 <=> p \in Paths(of.bundle) \/ \E j \in 1 .. n - 1 : p \in Paths(chain[j].files)
    BY DEF LoadedBefore
  <2> QED BY <2>3, <2>4, <2>5
<1> QED BY <1>1, <1>2, <1>3, <1>4

NotRefused(made) == made.refused = ""

\* One more granted expansion fits the bundle and the chain before it.
LEMMA ExpansionFits ==
  ASSUME ~LiveRefused(Tree, Relevant), NEW chain, ChainFits(chain), NEW of, of.bundle = Packed,
         NEW requested, NEW made, made = Expand(Tree, Order, of, chain, requested),
         NotRefused(made)
  PROVE  /\ ChainFits(Append(chain, made.expansion))
         /\ Paths(ChainFiles(chain)) \subseteq Paths(ChainFiles(Append(chain, made.expansion)))
<1>1. PICK A, f, x, n, here : /\ A = {NormalPath(p) : p \in requested}
                              /\ f = NewFiles(Tree, Order, of, chain, A)
                              /\ x = NewExpansion(of, chain, A, f)
                              /\ n = Len(chain) + 1 /\ here = [bundle |-> Packed]
  OBVIOUS
<1>2. ~AskForbidden(requested) /\ made = Expanded(Tree, x)
  <2>1. \A why : Refused(why).refused = why
    BY DEF Refused
  <2>2. NotRefused(made)
    OBVIOUS
  <2>3. ~NotRefused(Refused("denied")) /\ ~NotRefused(Refused("invalid"))
    <3>1. Refused("denied").refused = "denied" /\ Refused("invalid").refused = "invalid"
      BY <2>1
    <3> QED BY <3>1, Zenon DEF NotRefused
  <2>4. NotRefused(Expand(Tree, Order, of, chain, requested))
    BY <2>2
  <2>5. /\ ~AskUnsafe(requested) /\ ~AskTwice(requested) /\ ~AskForbidden(requested)
        /\ ChainHolds(chain, of)
    BY <2>3, <2>4, Zenon DEF Expand
  <2>6. Expand(Tree, Order, of, chain, requested) = Expanded(Tree, x)
    BY <1>1, <2>5, Zenon DEF Expand
  <2> QED BY <2>5, <2>6
<1>3. Verdict(Tree, x) = "" /\ made.expansion = x
  <2>1. PICK v : v = Verdict(Tree, x)
    OBVIOUS
  <2>2. made = [refused |-> v, expansion |-> x]
    BY <1>2, <2>1 DEF Expanded
  <2>3. made.refused = v /\ made.expansion = x
    BY <2>2
  <2>4. NotRefused(made)
    OBVIOUS
  <2> QED BY <2>1, <2>3, <2>4, Zenon DEF NotRefused
<1>4. /\ x.files = f /\ x.prior = TotalBefore(of, chain, n)
      /\ x.total = TotalBefore(of, chain, n) + Bytes(f)
  BY <1>1 DEF NewExpansion
<1>5. /\ x.total <= Limits.total /\ Cardinality(Paths(f)) = Len(f)
      /\ \A k \in DOMAIN f : f[k].bytes \in 1 .. Limits.file
  BY <1>3, <1>4 DEF Verdict, StructureHolds
<1>6. TotalBefore(of, chain, n) = TotalBefore(here, chain, n)
      /\ LoadedBefore(of, chain, n) = LoadedBefore(here, chain, n)
  BY <1>1 DEF TotalBefore, LoadedBefore
<1>7. PICK asked, total, loaded :
        /\ asked = ChainFiles(chain) /\ total = TotalBefore(here, chain, n)
        /\ loaded = LoadedBefore(here, chain, n)
  OBVIOUS
<1>8. /\ IsChain(chain) /\ total = Bytes(Packed) + Bytes(asked) /\ total <= Limits.total
      /\ loaded = Paths(Packed) \cup Paths(asked) /\ Paths(Packed) \cap Paths(asked) = {}
      /\ Cardinality(Paths(asked)) = Len(asked)
  BY <1>1, <1>7 DEF ChainFits
<1>9. /\ Packed \in Seq(File) /\ Bytes(Packed) \in Nat
      /\ asked \in Seq(File) /\ Bytes(asked) \in Nat
  <2>1. Packed \in Seq(File) /\ asked \in Seq(File)
    BY <1>7, <1>8, PackedIs, ChainFilesAre
  <2>2. \A r \in File : r.bytes \in Nat
    BY FilesAre
  <2> QED BY <2>1, <2>2, BytesIs
<1>10. f \in Seq(ReadFile(A \ loaded))
  <2>1. TotalBefore(of, chain, n) \in Int
    <3>1. total \in Int
      BY <1>8, <1>9
    <3> QED BY <1>6, <1>7, <3>1
  <2> QED BY <1>1, <1>6, <1>7, <2>1, NewFilesAre
<1>11. f \in Seq(File) /\ Paths(f) \cap loaded = {}
  <2>1. Len(f) \in Nat /\ f \in [1 .. Len(f) -> ReadFile(A \ loaded)]
    <3>1. \A R : f \in Seq(R) => Len(f) \in Nat /\ f \in [1 .. Len(f) -> R]
      OBVIOUS
    <3> QED BY <1>10, <3>1
  <2>2. ASSUME NEW k \in 1 .. Len(f) PROVE f[k] \in File /\ f[k].path \in A \ loaded
    <3>1. f[k] \in ReadFile(A \ loaded)
      BY <2>1
    <3>2. /\ f[k] = [path |-> f[k].path, bytes |-> f[k].bytes]
          /\ f[k].path \in A \ loaded /\ f[k].path \in DOMAIN Tree
      BY <3>1 DEF ReadFile
    <3>3. f[k].bytes \in Nat
      <4>1. k \in DOMAIN f
        BY <2>1
      <4>2. f[k].bytes \in 1 .. Limits.file
        BY <1>5, <4>1
      <4> QED BY <4>2, TreeAssumption
    <3>4. ~MatchesAny(f[k].path, Forbidden)
      BY <1>1, <1>2, <3>2 DEF AskForbidden
    <3>5. PICK p, b : p = f[k].path /\ b = f[k].bytes /\ f[k] = [path |-> p, bytes |-> b]
      BY <3>2
    <3>6. f[k] \in File
      BY <3>2, <3>3, <3>4, <3>5 DEF File
    <3> QED BY <3>2, <3>6
  <2>3. f \in [1 .. Len(f) -> File]
    BY <2>1, <2>2
  <2>4. f \in Seq(File)
    <3>1. \A R : f \in [1 .. Len(f) -> R] /\ Len(f) \in Nat => f \in Seq(R)
      OBVIOUS
    <3> QED BY <2>1, <2>3, <3>1
  <2>5. DOMAIN f = 1 .. Len(f)
    BY <2>1
  <2> QED BY <2>2, <2>4, <2>5 DEF Paths
<1>12. PICK d : d = Append(chain, x)
  OBVIOUS
<1>13. IsChain(d) /\ ChainFiles(d) = asked \o f
  BY <1>4, <1>7, <1>8, <1>11, <1>12, ChainFilesAppended
<1>14. /\ Len(d) + 1 = n + 1 /\ TotalBefore(here, d, n + 1) = x.total
       /\ LoadedBefore(here, d, n + 1) = loaded \cup Paths(f)
  <2>1. /\ Len(Append(chain, x)) + 1 = n + 1
        /\ TotalBefore(here, Append(chain, x), n + 1) = x.total
        /\ LoadedBefore(here, Append(chain, x), n + 1) = LoadedBefore(here, chain, n) \cup Paths(x.files)
    <3>1. IsChain(chain) /\ n = Len(chain) + 1
      BY <1>1, <1>8
    <3> QED BY <3>1, BeforeAppended
  <2> QED BY <1>4, <1>7, <1>12, <2>1
<1>15. Bytes(asked \o f) = Bytes(asked) + Bytes(f)
  BY <1>9, <1>11, FilesAre, BytesJoined
<1>16. Paths(asked \o f) = Paths(asked) \cup Paths(f)
  BY <1>9, <1>11, PathsJoined
<1>17. Cardinality(Paths(asked \o f)) = Len(asked \o f)
  <2>1. Paths(asked) \cap Paths(f) = {}
    BY <1>8, <1>11
  <2>2. IsFiniteSet(Paths(asked)) /\ IsFiniteSet(Paths(f))
    BY <1>9, <1>11, FilesAre
  <2>3. Cardinality(Paths(asked) \cup Paths(f)) = Cardinality(Paths(asked)) + Cardinality(Paths(f))
    <3>1. /\ Cardinality(Paths(asked)) \in Nat /\ Cardinality(Paths(f)) \in Nat
          /\ Cardinality(Paths(asked) \cap Paths(f)) = 0
      BY <2>1, <2>2, FS_CardinalityType, FS_EmptySet
    <3>a. PICK S, T : S = Paths(asked) /\ T = Paths(f)
      OBVIOUS
    <3>2. Cardinality(Paths(asked) \cup Paths(f))
            = Cardinality(Paths(asked)) + Cardinality(Paths(f)) - Cardinality(Paths(asked) \cap Paths(f))
      <4>1. Cardinality(S \cup T) = Cardinality(S) + Cardinality(T) - Cardinality(S \cap T)
        BY <2>2, <3>a, FS_Union
      <4> QED BY <3>a, <4>1
    <3> QED BY <3>1, <3>2
  <2>4. Len(asked \o f) = Len(asked) + Len(f)
    <3>1. \A a, b : a \in Seq(File) /\ b \in Seq(File) => Len(a \o b) = Len(a) + Len(b)
      OBVIOUS
    <3> QED BY <1>9, <1>11, <3>1
  <2> QED BY <1>5, <1>8, <1>16, <2>3, <2>4
<1>18. x.total = Bytes(Packed) + Bytes(asked \o f)
  <2>1. Bytes(f) \in Nat
    BY <1>11, FilesAre, BytesIs
  <2>2. x.total = total + Bytes(f)
    BY <1>4, <1>6, <1>7
  <2> QED BY <1>8, <1>9, <1>15, <2>1, <2>2
<1>19. ChainFits(d)
  BY <1>1, <1>5, <1>8, <1>11, <1>13, <1>14, <1>16, <1>17, <1>18 DEF ChainFits
<1> QED BY <1>3, <1>7, <1>12, <1>13, <1>16, <1>19

LEMMA EmptyChainFits ==
  ASSUME ~LiveRefused(Tree, Relevant)
  PROVE  ChainFits(<<>>) /\ ChainFiles(<<>>) = <<>>
<1>1. PICK e : e = <<>>
  OBVIOUS
<1>2. /\ IsChain(e) /\ ChainFiles(e) = <<>> /\ Bytes(<<>>) = 0 /\ Paths(<<>>) = {}
      /\ Cardinality(Paths(<<>>)) = Len(<<>>)
  BY <1>1, ChainFilesOfNone, BytesOfNone, PathsOfNone
<1>3. Len(e) + 1 = 1
  BY <1>1
<1>4. TotalBefore([bundle |-> Packed], e, 1) = Bytes(Packed)
  BY DEF TotalBefore
<1>5. LoadedBefore([bundle |-> Packed], e, 1) = Paths(Packed)
  <2>1. 1 .. 1 - 1 = {}
    OBVIOUS
  <2> QED BY <2>1 DEF LoadedBefore
<1>6. Bytes(Packed) \in Nat /\ Bytes(Packed) <= Limits.total
  BY PackedIs, FilesAre, BytesIs
<1>7. ChainFits(e)
  BY <1>2, <1>3, <1>4, <1>5, <1>6 DEF ChainFits
<1> QED BY <1>1, <1>2, <1>7

-----------------------------------------------------------------------------
(* What the steps do to the requests' context.                             *)

\* The ledger and the bundle stay, and nothing new is to be asked.
Continues ==
  /\ run'.ledger = run.ledger
  /\ proc'.pc # "idle" =>
       /\ proc.pc # "idle" /\ proc'.bundle = proc.bundle
       /\ proc'.pc = "call" => proc'.next = Null

LEMMA ContextKept ==
  ASSUME ContextInv, run'.ledger = run.ledger, proc'.pc # "idle" => proc'.bundle = Packed,
         proc'.pc = "call" => proc'.next = Null
  PROVE  ContextInv'
<1>1. LedgerCarries'
  BY DEF ContextInv, LedgerCarries
<1>2. BundleStands' /\ NextCarries'
  BY DEF BundleStands, NextCarries
<1> QED BY <1>1, <1>2 DEF ContextInv

LEMMA ProcessContinues ==
  ASSUME proc.pc # "idle", run'.ledger = run.ledger, proc'.bundle = proc.bundle,
         proc'.pc = "call" => proc'.next = Null
  PROVE  Continues
BY DEF Continues

LEMMA ProcessEnds ==
  ASSUME run'.ledger = run.ledger, proc' = Idle
  PROVE  Continues
<1>1. proc'.pc = "idle"
  BY DEF Idle
<1> QED BY <1>1 DEF Continues

LEMMA FinishContinues ==
  ASSUME ProcIsTyped, proc.pc # "idle", run' = run, NEW output, proc' = Finishes(output)
  PROVE  Continues
<1>1. PICK p, q : p = proc /\ q = proc'
  OBVIOUS
<1>2. IsProc(p) /\ q = [p EXCEPT !.pc = "artifact", !.output = output]
  BY <1>1 DEF ProcIsTyped, IsProc, Finishes
<1>3. q.bundle = p.bundle /\ q.pc = "artifact"
  BY <1>2 DEF IsProc
<1> QED BY <1>1, <1>3, ProcessContinues

LEMMA StepsContinue ==
  ASSUME ChainInv,
         \/ Crash \/ EndProcess \/ StartStep \/ (\E s \in StepNames : Revise(s))
         \/ FailStep \/ RefuseContext \/ FinishResponse \/ PublishDiff \/ Decide
         \/ WriteArtifact \/ Persist \/ ApplyPatchToCandidate
  PROVE  Continues
<1>1. ProcIsTyped /\ RunIsTyped
  BY DEF ChainInv, DiskInv, ProcInv
<1>2. PICK p, q : p = proc /\ q = proc'
  OBVIOUS
<1>3. proc.pc # "idle" => IsProc(p) /\ (p.pc # "call" => p.next = Null)
  BY <1>1, <1>2 DEF ProcIsTyped, IsProc
<1>4. CASE Crash \/ EndProcess
  <2>1. proc.pc # "idle" /\ proc' = Idle /\ run' = run
    BY <1>4 DEF Crash, EndProcess
  <2> QED BY <2>1, ProcessEnds
<1>5. ASSUME NEW s \in StepNames, Revise(s) PROVE Continues
  <2>1. run'.ledger = run.ledger /\ proc' = proc /\ proc.pc = "idle"
    BY <1>5, ReviseIs DEF Revise
  <2> QED BY <2>1 DEF Continues
<1>6. CASE StartStep
  <2>1. PICK s, a, rev : /\ proc.pc = "step"
                         /\ run' = [run EXCEPT !.status = "running", !.step = s, !.st[s] = "running"]
                         /\ proc' = [proc EXCEPT !.pc = "prompt", !.step = s, !.attempt = a, !.revision = rev]
    BY <1>6 DEF StartStep
  <2>2. run'.ledger = run.ledger
    <3>1. PICK r, st : r = run /\ st = [r.st EXCEPT ![s] = "running"]
      OBVIOUS
    <3>2. run' = [r EXCEPT !.status = "running", !.step = s, !.st = st] /\ IsRun(r)
      BY <1>1, <2>1, <3>1 DEF RunIsTyped, IsRun
    <3> QED BY <3>1, <3>2 DEF IsRun
  <2>3. q.bundle = p.bundle /\ q.pc = "prompt"
    BY <1>2, <1>3, <2>1 DEF IsProc
  <2> QED BY <1>1, <1>2, <2>1, <2>2, <2>3, ProcessContinues
<1>7. CASE FailStep
  <2>1. PICK output : proc' = Finishes(output) /\ proc.pc = "call" /\ run' = run
    BY <1>7 DEF FailStep, Answered
  <2> QED BY <1>1, <2>1, FinishContinues
<1>8. CASE RefuseContext
  <2>1. PICK output : proc' = Finishes(output) /\ proc.pc = "call" /\ run' = run
    BY <1>8 DEF RefuseContext, RefuseFor, Answered
  <2> QED BY <1>1, <2>1, FinishContinues
<1>9. CASE FinishResponse
  <2>1. PICK output : proc' = Finishes(output) /\ proc.pc = "call" /\ run' = run
    BY <1>9 DEF FinishResponse, Answered
  <2> QED BY <1>1, <2>1, FinishContinues
<1>10. CASE PublishDiff
  <2>1. PICK output : /\ proc' = [proc EXCEPT !.pc = "decide"] \/ proc' = Finishes(output)
                      /\ proc.pc = "call" /\ proc.next = Null /\ run' = run
    BY <1>10 DEF PublishDiff, PublishOr, Answered
  <2>2. CASE proc' = [proc EXCEPT !.pc = "decide"]
    <3>1. q.bundle = p.bundle /\ q.pc = "decide"
      BY <1>2, <1>3, <2>1, <2>2 DEF IsProc
    <3> QED BY <1>1, <1>2, <2>1, <3>1, ProcessContinues
  <2>3. CASE proc' = Finishes(output)
    BY <1>1, <2>1, <2>3, FinishContinues
  <2> QED BY <2>1, <2>2, <2>3
<1>11. CASE Decide
  <2>1. PICK output : proc' = Finishes(output) /\ proc.pc = "decide" /\ run' = run
    BY <1>11 DEF Decide, Decided, PublishOr
  <2> QED BY <1>1, <2>1, FinishContinues
<1>12. CASE WriteArtifact
  <2>1. /\ proc' = [proc EXCEPT !.pc = "persist"] \/ proc' = Idle
        /\ proc.pc = "artifact" /\ run' = run
    BY <1>12 DEF WriteArtifact
  <2>2. CASE proc' = Idle
    BY <2>1, <2>2, ProcessEnds
  <2>3. CASE proc' = [proc EXCEPT !.pc = "persist"]
    <3>1. q.bundle = p.bundle /\ q.pc = "persist"
      BY <1>2, <1>3, <2>1, <2>3 DEF IsProc
    <3> QED BY <1>2, <2>1, <3>1, ProcessContinues
  <2> QED BY <2>1, <2>2, <2>3
<1>13. CASE Persist
  <2>1. PICK to, early : /\ proc' = [proc EXCEPT !.pc = to, !.early = early, !.output = Null]
                         /\ to \in {"apply", "step"} /\ proc.pc = "persist"
    BY <1>13 DEF Persist
  <2>2. run'.ledger = run.ledger
    <3>1. PICK s, status : s = proc.step /\ status = proc.output.status
      OBVIOUS
    <3> QED BY <1>13, <3>1, PersistIs
  <2>3. q.bundle = p.bundle /\ q.pc = to
    BY <1>2, <1>3, <2>1 DEF IsProc
  <2> QED BY <1>1, <1>2, <2>1, <2>2, <2>3, ProcessContinues
<1>14. CASE ApplyPatchToCandidate
  <2>1. /\ proc.pc = "apply"
        /\ \/ run' = [run EXCEPT !.patch = "applied"] /\ proc' = [proc EXCEPT !.pc = "step"]
           \/ proc' = Idle /\ run' = run
    BY <1>14 DEF ApplyPatchToCandidate
  <2>2. run'.ledger = run.ledger
    BY <1>1, <2>1 DEF RunIsTyped
  <2>3. CASE proc' = Idle
    BY <2>1, <2>2, <2>3, ProcessEnds
  <2>4. CASE proc' = [proc EXCEPT !.pc = "step"]
    <3>1. q.bundle = p.bundle /\ q.pc = "step"
      BY <1>2, <1>3, <2>1, <2>4 DEF IsProc
    <3> QED BY <1>2, <2>1, <2>2, <3>1, ProcessContinues
  <2> QED BY <2>1, <2>3, <2>4
<1> QED BY <1>4, <1>5, <1>6, <1>7, <1>8, <1>9, <1>10, <1>11, <1>12, <1>13, <1>14

\* Such a step leaves what requests carry alone.
LEMMA ContinuesKeeps ==
  ASSUME ContextInv, Continues
  PROVE  ContextInv'
BY ContextKept DEF Continues, ContextInv, BundleStands

\* A process is prepared with the bundle of the first request.
LEMMA PreparedCarries ==
  ASSUME ChainInv, ContextInv, Resume \/ Rerun
  PROVE  ContextInv'
<1>1. DiskInv /\ RunIsTyped
  BY DEF ChainInv, DiskInv
<1>2. PICK r, a, apply : /\ r = run' /\ UNCHANGED files /\ run' = Normalized(run)
                         /\ proc' = Prepared(r, a, apply)
  BY DEF Resume, Rerun
<1>3. run'.ledger = run.ledger
  BY <1>1, <1>2, NormalizedIs
<1>4. PICK q : q = proc'
  OBVIOUS
<1>5. q.bundle = InitialBundle(r) /\ q.next = Null
  BY <1>2, <1>4 DEF Prepared
<1>6. InitialBundle(r) = Packed
  <2>1. CASE Initials(r) = {}
    BY <2>1 DEF InitialBundle, Packed
  <2>2. CASE Initials(r) # {}
    <3>1. PICK j : j \in DOMAIN run.ledger
      BY <1>2, <1>3, <2>2 DEF Initials
    <3>2. run.ledger # <<>> /\ 1 \in DOMAIN run.ledger
      BY <1>1, <3>1, LedgerIs
    <3>3. run.ledger[1].step # "output_review" /\ CarriesContext(run.ledger[1])
      BY <3>2 DEF ContextInv, LedgerCarries
    <3>4. run.ledger[1].request.bundle = Packed
      BY <3>3 DEF CarriesContext
    <3> QED BY <1>2, <1>3, <2>2, <3>4 DEF InitialBundle
  <2> QED BY <2>1, <2>2
<1> QED BY <1>3, <1>4, <1>5, <1>6, ContextKept

\* What the record after the last one has to carry.
LEMMA LastCarries ==
  ASSUME DiskInv, ProcInv, AtWork, proc.pc # "prompt", proc.next = Null, ContextInv
  PROVE  /\ CarriesContext(LastEntry) /\ LastEntry.step = proc.step
         /\ \A j \in Entries : CarriesOver(run.ledger[j], LastEntry)
         /\ Entries # {} => FirstEntry.step = proc.step /\ CarriesContext(FirstEntry)
<1> DEFINE n == Len(run.ledger)
<1>1. RunIsTyped
  BY DEF DiskInv
<1>2. /\ LastEntry = run.ledger[n] /\ n \in Entries /\ n \in DOMAIN run.ledger /\ n \in Nat
      /\ SameAttempt(LastEntry, proc)
  BY LastEntryIs
<1>3. CarriesContext(LastEntry)
  BY <1>2 DEF ContextInv, LedgerCarries
<1>4. ASSUME NEW j \in Entries PROVE CarriesOver(run.ledger[j], LastEntry)
  <2>1. j \in DOMAIN run.ledger /\ SameAttempt(run.ledger[j], run.ledger[n]) /\ j <= n /\ j \in Nat
    BY <1>1, <1>2, EntriesAre, LedgerIs DEF SameAttempt
  <2>2. CASE j = n
    BY <1>2, <2>2 DEF CarriesOver
  <2>3. CASE j < n
    BY <1>2, <2>1, <2>3 DEF ContextInv, LedgerCarries
  <2> QED BY <1>2, <2>1, <2>2, <2>3
<1>5. ASSUME Entries # {} PROVE FirstEntry.step = proc.step /\ CarriesContext(FirstEntry)
  <2>1. PICK k \in Entries : FirstEntry = run.ledger[k]
    BY <1>1, <1>5, EntriesAre
  <2>2. k \in DOMAIN run.ledger /\ run.ledger[k].step = proc.step
    BY <1>1, EntriesAre
  <2> QED BY <2>1, <2>2 DEF ContextInv, LedgerCarries
<1> QED BY <1>2, <1>3, <1>4, <1>5 DEF SameAttempt

\* A process that has another request to ask.
LEMMA NextKeepsContext ==
  ASSUME ProcIsTyped, ContextInv, run' = run, proc.pc # "idle",
         NEW next, proc' = [proc EXCEPT !.pc = "call", !.next = next],
         next # Null => CarriesContext(next) /\ \A j \in Entries : CarriesOver(run.ledger[j], next)
  PROVE  ContextInv'
<1>1. PICK p, q : p = proc /\ q = proc'
  OBVIOUS
<1>2. IsProc(p) /\ q = [p EXCEPT !.pc = "call", !.next = next]
  BY <1>1 DEF ProcIsTyped, IsProc
<1>3. q.bundle = p.bundle /\ q.next = next /\ q.step = p.step /\ q.attempt = p.attempt
  BY <1>2 DEF IsProc
<1>4. Entries' = Entries
  BY <1>1, <1>3, SameEntries
<1>5. BundleStands'
  BY <1>1, <1>3 DEF ContextInv, BundleStands
<1>6. LedgerCarries'
  BY DEF ContextInv, LedgerCarries
<1>7. NextCarries'
  BY <1>1, <1>3, <1>4 DEF NextCarries
<1> QED BY <1>5, <1>6, <1>7 DEF ContextInv

LEMMA RepairCarries ==
  ASSUME ChainInv, ContextInv, RepairJson
  PROVE  ContextInv'
<1>1. DiskInv /\ ProcInv /\ ProcIsTyped
  BY DEF ChainInv, ProcInv
<1>2. proc.pc = "call" /\ proc.next = Null /\ AtWork /\ run' = run
  BY DEF RepairJson, Answered, AtWork
<1>3. PICK e, l, q, next, round :
        /\ e = LastEntry /\ l = e.request /\ q = [l EXCEPT !.repaired = TRUE] /\ round = e.round
        /\ next = Entry("repair", round, "request", q, e.chain)
  OBVIOUS
<1>4. proc' = [proc EXCEPT !.pc = "call", !.next = next]
  <2>1. proc' = [proc EXCEPT !.next = next]
    BY <1>3 DEF RepairJson
  <2> QED BY <1>1, <1>2, <2>1 DEF ProcIsTyped
<1>5. /\ CarriesContext(e) /\ e.step = proc.step
      /\ \A j \in Entries : CarriesOver(run.ledger[j], e)
  BY <1>1, <1>2, <1>3, LastCarries
<1>6. IsEntry(e)
  BY <1>1, <1>2, <1>3, LastEntryIs
<1>7. q.files = l.files /\ q.bundle = l.bundle
  BY <1>3, <1>6 DEF IsEntry, IsRequest
<1>8. next.step = proc.step /\ next.request = q /\ next.chain = e.chain
  BY <1>3 DEF Entry
<1>9. CarriesContext(next)
  BY <1>3, <1>5, <1>7, <1>8 DEF CarriesContext
<1>10. \A j \in Entries : CarriesOver(run.ledger[j], next)
  BY <1>3, <1>5, <1>7, <1>8 DEF CarriesOver
<1> QED BY <1>1, <1>2, <1>4, <1>9, <1>10, NextKeepsContext

\* A granted request carries the files of its whole chain.
LEMMA ExpandCarries ==
  ASSUME ChainInv, ContextInv, ExpandContext
  PROVE  ContextInv'
<1>1. DiskInv /\ ProcInv /\ RunIsTyped /\ ProcIsTyped
  BY DEF ChainInv, DiskInv, ProcInv
<1>2. proc.pc = "call" /\ proc.next = Null /\ AtWork /\ run' = run
  BY DEF ExpandContext, Answered, AtWork
<1>3. PICK e, made, of, before, asked :
        /\ e = LastEntry /\ before = e.chain /\ asked = e.answer.what
        /\ of = [step |-> proc.step, attempt |-> proc.attempt, bundle |-> proc.bundle]
        /\ made = Expand(Tree, Order, of, before, asked)
  OBVIOUS
<1>4. made = Asked
  BY <1>3 DEF Asked
<1>5. PICK x, chain, key : x = made.expansion /\ chain = Append(before, x)
                           /\ key = <<"expansion", proc.step, proc.attempt, x.round>>
  OBVIOUS
<1>6. PublishExpansion(key, x, chain) /\ NotRefused(made)
  <2>1. Grant(made)
    BY <1>4 DEF ExpandContext
  <2> QED BY <1>3, <1>5, <2>1, Zenon DEF Grant, NotRefused
<1>7. CASE proc' = Idle
  BY <1>2, <1>7, ProcessEnds, ContinuesKeeps
<1>8. CASE proc' # Idle
  <2>1. PICK l, q, round, next :
          /\ l = FirstEntry.request /\ q = [l EXCEPT !.files = RetryFiles(chain)] /\ round = x.round
          /\ next = Entry("retry", round, "request", q, chain)
    OBVIOUS
  <2>2. proc' = [proc EXCEPT !.next = next]
    BY <1>6, <1>8, <2>1 DEF PublishExpansion, RetryRequest
  <2>3. proc' = [proc EXCEPT !.pc = "call", !.next = next]
    BY <1>1, <1>2, <2>2 DEF ProcIsTyped
  <2>4. /\ CarriesContext(e) /\ e.step = proc.step
        /\ \A j \in Entries : CarriesOver(run.ledger[j], e)
        /\ Entries # {} => FirstEntry.step = proc.step /\ CarriesContext(FirstEntry)
    BY <1>1, <1>2, <1>3, LastCarries
  <2>5. /\ FirstEntry.step = proc.step /\ CarriesContext(FirstEntry)
    <3>1. Entries # {}
      BY <1>1, <1>2, LastEntryIs
    <3> QED BY <2>4, <3>1
  <2>6. IsRequest(l, proc.step)
    <3>1. PICK k \in Entries : FirstEntry = run.ledger[k]
      <4>1. Entries # {}
        BY <1>1, <1>2, LastEntryIs
      <4> QED BY <1>1, <4>1, EntriesAre
    <3>2. k \in DOMAIN run.ledger
      BY <1>1, EntriesAre
    <3>3. IsEntry(FirstEntry)
      BY <1>1, <3>1, <3>2 DEF DiskInv, LedgerHolds
    <3> QED BY <2>1, <2>5, <3>3 DEF IsEntry
  <2>7. q.files = ChainFiles(chain) /\ q.bundle = l.bundle
    BY <2>1, <2>6 DEF IsRequest, RetryFiles
  <2>8. /\ ChainFits(before) /\ e.request.files = ChainFiles(before)
    BY <1>3, <2>4 DEF CarriesContext
  <2>9. /\ ChainFits(chain) /\ Paths(ChainFiles(before)) \subseteq Paths(ChainFiles(chain))
    <3>1. of.bundle = Packed /\ ~LiveRefused(Tree, Relevant)
      BY <1>2, <1>3 DEF ContextInv, BundleStands
    <3> QED BY <1>3, <1>5, <1>6, <2>8, <3>1, ExpansionFits
  <2>10. next.step = proc.step /\ next.request = q /\ next.chain = chain
    BY <2>1 DEF Entry
  <2>11. CarriesContext(next)
    BY <2>1, <2>5, <2>7, <2>9, <2>10 DEF CarriesContext
  <2>12. \A j \in Entries : CarriesOver(run.ledger[j], next)
    BY <2>4, <2>7, <2>8, <2>9, <2>10 DEF CarriesOver
  <2> QED BY <1>1, <1>2, <2>3, <2>11, <2>12, NextKeepsContext
<1> QED BY <1>7, <1>8

\* The first request of an attempt carries the bundle and no file besides.
LEMMA RoleRequestCarries ==
  /\ RoleRequest.files = <<>>
  /\ RoleRequest.bundle = IF proc.step = "output_review" THEN <<>> ELSE proc.bundle
<1>1. \A s, prereq : /\ Asking(s, prereq).files = <<>> /\ Asking(s, prereq).bundle = proc.bundle
  BY DEF Asking
<1>2. CASE proc.step = "development"
  BY <1>1, <1>2 DEF RoleRequest, DevelopmentPrompt
<1>3. CASE proc.step = "output_review"
  <2>1. PICK asking, patch :
          /\ asking = Asking("output_review", [t \in Prerequisites["output_review"] |-> proc.early[t]])
          /\ patch = run.decision.patch
    OBVIOUS
  <2>2. RoleRequest = [asking EXCEPT !.bundle = <<>>, !.patch = patch]
    BY <1>3, <2>1 DEF RoleRequest, OutputReviewSubject
  <2>3. PICK q : q = [asking EXCEPT !.bundle = <<>>, !.patch = patch]
    OBVIOUS
  <2>4. q.files = <<>> /\ q.bundle = <<>>
    BY <2>1, <2>3 DEF Asking
  <2> QED BY <1>3, <2>2, <2>3, <2>4
<1>4. CASE proc.step \notin {"development", "output_review"}
  <2>1. PICK asking, rev, s :
          /\ s = proc.step
          /\ asking = Asking(s, [t \in Prerequisites[s] \cap StepNames |-> [proc.early[t] EXCEPT !.path = 0]])
          /\ rev = IF s = "spec_creation" THEN proc.revision ELSE Null
    OBVIOUS
  <2>2. RoleRequest = [asking EXCEPT !.revision = rev]
    BY <1>4, <2>1 DEF RoleRequest, EarlyPrompt
  <2>3. PICK q : q = [asking EXCEPT !.revision = rev]
    OBVIOUS
  <2>4. q.files = <<>> /\ q.bundle = proc.bundle
    BY <2>1, <2>3 DEF Asking
  <2> QED BY <1>4, <2>2, <2>3, <2>4
<1> QED BY <1>2, <1>3, <1>4

LEMMA PromptCarries ==
  ASSUME ChainInv, ContextInv, WritePrompt
  PROVE  ContextInv'
<1>1. DiskInv /\ ProcInv /\ ProcIsTyped
  BY DEF ChainInv, ProcInv
<1>2. proc.pc = "prompt" /\ run' = run
  BY DEF WritePrompt
<1>3. PICK q, e, next : /\ q = RoleRequest /\ e = Entry("initial", 0, "request", q, <<>>)
                        /\ next = IF Entries # {} THEN Null ELSE e
  OBVIOUS
<1>4. proc' = Idle \/ proc' = [proc EXCEPT !.pc = "call", !.next = next]
  BY <1>3 DEF WritePrompt
<1>5. CASE proc' = Idle
  BY <1>2, <1>5, ProcessEnds, ContinuesKeeps
<1>6. CASE proc' = [proc EXCEPT !.pc = "call", !.next = next]
  <2>1. e.step = proc.step /\ e.request = q /\ e.chain = <<>>
    BY <1>3 DEF Entry
  <2>2. ~LiveRefused(Tree, Relevant) /\ proc.bundle = Packed
    BY <1>2 DEF ContextInv, BundleStands
  <2>3. q.files = <<>> /\ q.bundle = IF proc.step = "output_review" THEN <<>> ELSE Packed
    BY <1>3, <2>2, RoleRequestCarries
  <2>4. ChainFits(<<>>) /\ ChainFiles(<<>>) = <<>>
    BY <2>2, EmptyChainFits
  <2>5. CarriesContext(e)
    BY <2>1, <2>3, <2>4 DEF CarriesContext
  <2>6. next # Null => CarriesContext(next) /\ \A j \in Entries : CarriesOver(run.ledger[j], next)
    BY <1>3, <2>5
  <2> QED BY <1>1, <1>2, <1>6, <2>6, NextKeepsContext
<1> QED BY <1>4, <1>5, <1>6

\* Another record at the end of the ledger.
LEMMA ContextGrows ==
  ASSUME RunIsTyped, ContextInv, NEW e, run'.ledger = Append(run.ledger, e), CarriesContext(e),
         \A j \in DOMAIN run.ledger : SameAttempt(run.ledger[j], e) => CarriesOver(run.ledger[j], e),
         run.ledger = <<>> => e.step # "output_review",
         proc'.pc # "idle" => proc'.bundle = Packed, proc'.next = Null
  PROVE  ContextInv'
<1>1. PICK n, l, m : n = Len(run.ledger) /\ l = run.ledger /\ m = run'.ledger
  OBVIOUS
<1>2. /\ n \in Nat /\ DOMAIN l = 1 .. n /\ DOMAIN m = 1 .. n + 1
      /\ \A k \in 1 .. n : m[k] = l[k]
      /\ m[n + 1] = e
  BY <1>1, LedgerAppended
<1>3. l # <<>> => n > 0
  <2>1. l \in Seq(ToSet(l))
    BY <1>1 DEF RunIsTyped
  <2> QED BY <1>1, <1>2, <2>1
<1>4. m[1].step # "output_review"
  <2>1. CASE l = <<>>
    <3>1. n = 0
      BY <1>1, <2>1
    <3> QED BY <1>1, <1>2, <2>1, <3>1
  <2>2. CASE l # <<>>
    BY <1>1, <1>2, <1>3, <2>2 DEF ContextInv, LedgerCarries
  <2> QED BY <2>1, <2>2
<1>5. ASSUME NEW k \in 1 .. n + 1 PROVE CarriesContext(m[k])
  <2>1. CASE k = n + 1
    BY <1>2, <2>1
  <2>2. CASE k # n + 1
    <3>1. k \in 1 .. n
      BY <1>2, <2>2
    <3> QED BY <1>1, <1>2, <3>1 DEF ContextInv, LedgerCarries
  <2> QED BY <2>1, <2>2
<1>6. ASSUME NEW j \in 1 .. n + 1, NEW k \in 1 .. n + 1, j < k, SameAttempt(m[j], m[k])
      PROVE  CarriesOver(m[j], m[k])
  <2>1. j \in 1 .. n
    BY <1>2, <1>6
  <2>2. CASE k = n + 1
    BY <1>1, <1>2, <1>6, <2>1, <2>2
  <2>3. CASE k # n + 1
    <3>1. k \in 1 .. n
      BY <1>2, <2>3
    <3> QED BY <1>1, <1>2, <1>6, <2>1, <3>1 DEF ContextInv, LedgerCarries
  <2> QED BY <2>2, <2>3
<1>7. LedgerCarries'
  BY <1>1, <1>2, <1>4, <1>5, <1>6 DEF LedgerCarries
<1>8. BundleStands' /\ NextCarries'
  BY DEF BundleStands, NextCarries
<1> QED BY <1>7, <1>8 DEF ContextInv

\* Before an output review is at work the spec was asked for.
LEMMA ReviewIsLater ==
  ASSUME DiskInv, ProcInv, AtWork, run.ledger = <<>>
  PROVE  proc.step # "output_review"
<1>1. /\ RunIsTyped /\ StepsInOrder /\ LedgerHolds /\ StepIsRunning /\ ProcIsTyped
  BY DEF DiskInv, ProcInv
<1>2. SUFFICES ASSUME proc.step = "output_review" PROVE FALSE
  OBVIOUS
<1>3. run.st["output_review"] = "running"
  BY <1>1, <1>2 DEF StepIsRunning
<1>4. /\ "spec_creation" \in StepNames /\ "output_review" \in StepNames
      /\ Rank["spec_creation"] < Rank["output_review"]
  BY StepsAssumption DEF Rank
<1>5. run.st["spec_creation"] \in Terminal
  BY <1>1, <1>3, <1>4, EarlierDone
<1>6. LastAsked("spec_creation") > 0
  BY <1>1, <1>4, <1>5 DEF LedgerHolds
<1>7. LastAsked("spec_creation") \in DOMAIN run.ledger
  BY <1>1, <1>6, LastAskedIs
<1>8. DOMAIN run.ledger = {}
  OBVIOUS
<1> QED BY <1>7, <1>8

LEMMA RequestCarries ==
  ASSUME ChainInv, ContextInv, AppendRequest
  PROVE  ContextInv'
<1>1. DiskInv /\ ProcInv /\ ProcIsTyped /\ RunIsTyped
  BY DEF ChainInv, ProcInv, DiskInv
<1>2. PICK e : /\ e = proc.next /\ proc.pc = "call" /\ e # Null
               /\ run' = [run EXCEPT !.ledger = Append(@, e)]
               /\ proc' = [proc EXCEPT !.next = Null]
  BY DEF AppendRequest
<1>3. run'.ledger = Append(run.ledger, e)
  <2>1. PICK r, l : r = run /\ l = Append(r.ledger, e)
    OBVIOUS
  <2>2. IsRun(r) /\ run' = [r EXCEPT !.ledger = l]
    BY <1>1, <1>2, <2>1 DEF RunIsTyped, IsRun
  <2> QED BY <2>1, <2>2 DEF IsRun
<1>4. proc'.bundle = proc.bundle /\ proc'.next = Null
  BY <1>1, <1>2 DEF ProcIsTyped
<1>5. CarriesContext(e) /\ \A j \in Entries : CarriesOver(run.ledger[j], e)
  BY <1>2 DEF ContextInv, NextCarries
<1>6. SameAttempt(e, proc)
  BY <1>1, <1>2 DEF ProcInv, NextStands, NextHolds
<1>7. ASSUME NEW j \in DOMAIN run.ledger, SameAttempt(run.ledger[j], e)
      PROVE  CarriesOver(run.ledger[j], e)
  <2>1. j \in Entries
    BY <1>1, <1>6, <1>7, EntriesAre DEF SameAttempt
  <2> QED BY <1>5, <2>1
<1>8. AtWork /\ proc.bundle = Packed
  BY <1>2 DEF AtWork, ContextInv, BundleStands
<1>9. run.ledger = <<>> => e.step # "output_review"
  BY <1>1, <1>6, <1>8, ReviewIsLater DEF SameAttempt
<1> QED BY <1>1, <1>3, <1>4, <1>5, <1>7, <1>8, <1>9, ContextGrows

LEMMA ResponseCarries ==
  ASSUME ChainInv, ContextInv, Ask
  PROVE  ContextInv'
<1>1. DiskInv /\ ProcInv /\ ProcIsTyped /\ RunIsTyped
  BY DEF ChainInv, ProcInv, DiskInv
<1>2. proc.pc = "call" /\ proc.next = Null /\ proc' = proc /\ AtWork
  BY DEF Ask, AtWork
<1>3. PICK result \in Answers[proc.step] :
        run' = [run EXCEPT !.ledger =
                  Append(@, [LastEntry EXCEPT
                               !.phase = "response",
                               !.answer = ReadAnswer(Diffs, RoleOf[proc.step], result)])]
  BY DEF Ask
<1>4. PICK l, a, e : /\ l = LastEntry /\ a = ReadAnswer(Diffs, RoleOf[proc.step], result)
                     /\ e = [l EXCEPT !.phase = "response", !.answer = a]
  OBVIOUS
<1>5. run'.ledger = Append(run.ledger, e)
  <2>1. PICK r, m : r = run /\ m = Append(r.ledger, e)
    OBVIOUS
  <2>2. IsRun(r) /\ run' = [r EXCEPT !.ledger = m]
    BY <1>1, <1>3, <1>4, <2>1 DEF RunIsTyped, IsRun
  <2> QED BY <2>1, <2>2 DEF IsRun
<1>6. IsEntry(l) /\ SameAttempt(l, proc) /\ Len(run.ledger) \in DOMAIN run.ledger
  BY <1>1, <1>2, <1>4, LastEntryIs
<1>7. /\ e.step = l.step /\ e.attempt = l.attempt /\ e.request = l.request /\ e.chain = l.chain
  BY <1>4, <1>6 DEF IsEntry
<1>8. CarriesContext(l) /\ \A j \in Entries : CarriesOver(run.ledger[j], l)
  BY <1>1, <1>2, <1>4, LastCarries
<1>9. CarriesContext(e)
  BY <1>7, <1>8 DEF CarriesContext
<1>10. ASSUME NEW j \in DOMAIN run.ledger, SameAttempt(run.ledger[j], e)
       PROVE  CarriesOver(run.ledger[j], e)
  <2>1. j \in Entries
    BY <1>1, <1>6, <1>7, <1>10, EntriesAre DEF SameAttempt
  <2> QED BY <1>7, <1>8, <2>1 DEF CarriesOver
<1>11. run.ledger # <<>>
  BY <1>6
<1>12. proc'.pc # "idle" => proc'.bundle = Packed
  BY <1>2 DEF ContextInv, BundleStands
<1> QED BY <1>1, <1>2, <1>5, <1>9, <1>10, <1>11, <1>12, ContextGrows

LEMMA ContextInitially ==
  ASSUME ChainInit
  PROVE  ContextInv
<1>1. PICK r, p : r = run /\ p = proc
  OBVIOUS
<1>2. r = [status |-> "pending", step |-> Steps[1], st |-> [s \in StepNames |-> "pending"],
           art |-> [s \in StepNames |-> 0], ledger |-> <<>>, decision |-> Null,
           recovery |-> Null, patch |-> "none"]
  BY <1>1 DEF ChainInit
<1>3. p = [pc |-> "step", step |-> Steps[1], attempt |-> 1, early |-> <<>>,
           bundle |-> Packed, revision |-> Null, apply |-> ApplyPatch,
           next |-> Null, output |-> Null]
  BY <1>1 DEF ChainInit, Packed
<1>4. r.ledger = <<>> /\ DOMAIN r.ledger = {} /\ p.pc = "step" /\ p.bundle = Packed
  BY <1>2, <1>3
<1>5. BundleStands /\ LedgerCarries /\ NextCarries
  BY <1>1, <1>4 DEF BundleStands, LedgerCarries, NextCarries
<1> QED BY <1>5 DEF ContextInv, ChainInit

LEMMA ContextInvInductive ==
  ASSUME ChainInv, ContextInv, [ChainNext]_chainVars
  PROVE  ContextInv'
<1>1. CASE Resume \/ Rerun
  BY <1>1, PreparedCarries
<1>2. CASE \/ Crash \/ EndProcess \/ StartStep \/ (\E s \in StepNames : Revise(s))
           \/ FailStep \/ RefuseContext \/ FinishResponse \/ PublishDiff \/ Decide
           \/ WriteArtifact \/ Persist \/ ApplyPatchToCandidate
  BY <1>2, StepsContinue, ContinuesKeeps
<1>3. CASE WritePrompt
  BY <1>3, PromptCarries
<1>4. CASE AppendRequest
  BY <1>4, RequestCarries
<1>5. CASE Ask
  BY <1>5, ResponseCarries
<1>6. CASE RepairJson
  BY <1>6, RepairCarries
<1>7. CASE ExpandContext
  BY <1>7, ExpandCarries
<1>8. CASE UNCHANGED chainVars
  BY <1>8 DEF chainVars, ContextInv, BundleStands, LedgerCarries, NextCarries, Entries
<1> QED BY <1>1, <1>2, <1>3, <1>4, <1>5, <1>6, <1>7, <1>8 DEF ChainNext

\* A request has its bundle and the files of its chain, which fit together.
LEMMA CarriedIsBounded ==
  ASSUME ~LiveRefused(Tree, Relevant), NEW e, CarriesContext(e),
         NEW carried, carried = e.request.bundle \o e.request.files
  PROVE  /\ Bytes(carried) <= Limits.total /\ Cardinality(Paths(carried)) = Len(carried)
         /\ \A p \in Paths(carried) : ~MatchesAny(p, Forbidden)
<1>1. PICK bundle, asked : bundle = e.request.bundle /\ asked = ChainFiles(e.chain)
  OBVIOUS
<1>2. /\ carried = bundle \o asked /\ (bundle = <<>> \/ bundle = Packed)
  BY <1>1 DEF CarriesContext
<1>3. /\ IsChain(e.chain) /\ Bytes(Packed) + Bytes(asked) <= Limits.total
      /\ Paths(Packed) \cap Paths(asked) = {} /\ Cardinality(Paths(asked)) = Len(asked)
  BY <1>1 DEF CarriesContext, ChainFits
<1>4. /\ Packed \in Seq(File) /\ Cardinality(Paths(Packed)) = Len(Packed)
      /\ asked \in Seq(File)
  BY <1>1, <1>3, PackedIs, ChainFilesAre
<1>5. Bytes(Packed) \in Nat /\ Bytes(asked) \in Nat
  BY <1>4, FilesAre, BytesIs
<1>6. /\ bundle \in Seq(File) /\ Bytes(bundle) \in Nat /\ Bytes(bundle) <= Bytes(Packed)
      /\ Paths(bundle) \cap Paths(asked) = {} /\ Cardinality(Paths(bundle)) = Len(bundle)
  <2>1. CASE bundle = Packed
    BY <1>3, <1>4, <1>5, <2>1
  <2>2. CASE bundle = <<>>
    <3>1. bundle \in Seq(File)
      BY <2>2
    <3>2. Bytes(bundle) = 0 /\ Paths(bundle) = {} /\ Cardinality(Paths(bundle)) = Len(bundle)
      BY <2>2, BytesOfNone, PathsOfNone
    <3> QED BY <1>5, <3>1, <3>2
  <2> QED BY <1>2, <2>1, <2>2
<1>7. Bytes(carried) <= Limits.total
  <2>1. Bytes(bundle \o asked) = Bytes(bundle) + Bytes(asked)
    BY <1>4, <1>6, FilesAre, BytesJoined
  <2>2. Limits.total \in Nat
    BY TreeAssumption
  <2> QED BY <1>2, <1>3, <1>5, <1>6, <2>1, <2>2
<1>8. Paths(carried) = Paths(bundle) \cup Paths(asked)
  BY <1>2, <1>4, <1>6, PathsJoined
<1>9. Cardinality(Paths(carried)) = Len(carried)
  <2>1. IsFiniteSet(Paths(bundle)) /\ IsFiniteSet(Paths(asked))
    BY <1>4, <1>6, FilesAre
  <2>2. PICK S, T : S = Paths(bundle) /\ T = Paths(asked)
    OBVIOUS
  <2>3. Cardinality(S \cup T) = Cardinality(S) + Cardinality(T) - Cardinality(S \cap T)
    BY <2>1, <2>2, FS_Union
  <2>4. Cardinality(S \cap T) = 0 /\ Cardinality(S) \in Nat /\ Cardinality(T) \in Nat
    BY <1>6, <2>1, <2>2, FS_EmptySet, FS_CardinalityType
  <2>5. Len(carried) = Len(bundle) + Len(asked)
    <3>1. \A a, b : a \in Seq(File) /\ b \in Seq(File) => Len(a \o b) = Len(a) + Len(b)
      OBVIOUS
    <3> QED BY <1>2, <1>4, <1>6, <3>1
  <2> QED BY <1>3, <1>6, <1>8, <2>2, <2>3, <2>4, <2>5
<1>10. \A p \in Paths(carried) : ~MatchesAny(p, Forbidden)
  BY <1>4, <1>6, <1>8, FilesAre
<1> QED BY <1>7, <1>9, <1>10

LEMMA ContextFromInv ==
  ASSUME ChainInv, ContextInv
  PROVE  ContextIsBounded
<1>1. RunIsTyped /\ ~LiveRefused(Tree, Relevant)
  BY DEF ChainInv, DiskInv, ContextInv
<1>2. SUFFICES ASSUME NEW k \in DOMAIN run.ledger
               PROVE  LET e == run.ledger[k]
                          carried == e.request.bundle \o e.request.files
                          earlier == {j \in 1 .. k - 1 : run.ledger[j].step = e.step
                                                         /\ run.ledger[j].attempt = e.attempt}
                      IN  /\ Bytes(carried) <= Limits.total
                          /\ Cardinality(Paths(carried)) = Len(carried)
                          /\ \A p \in Paths(carried) : ~MatchesAny(p, Forbidden)
                          /\ e.step # "output_review" =>
                               e.request.bundle = run.ledger[1].request.bundle
                          /\ \A j \in earlier :
                               Paths(run.ledger[j].request.files) \subseteq Paths(e.request.files)
  BY Zenon DEF ContextIsBounded
<1>3. PICK e, carried : e = run.ledger[k] /\ carried = e.request.bundle \o e.request.files
  OBVIOUS
<1>4. CarriesContext(e)
  BY <1>3 DEF ContextInv, LedgerCarries
<1>5. /\ Bytes(carried) <= Limits.total /\ Cardinality(Paths(carried)) = Len(carried)
      /\ \A p \in Paths(carried) : ~MatchesAny(p, Forbidden)
  BY <1>1, <1>3, <1>4, CarriedIsBounded
<1>6. 1 \in DOMAIN run.ledger /\ run.ledger # <<>> /\ k \in Nat
  BY <1>1, LedgerIs
<1>7. e.step # "output_review" => e.request.bundle = run.ledger[1].request.bundle
  <2>1. run.ledger[1].request.bundle = Packed
    BY <1>6 DEF ContextInv, LedgerCarries, CarriesContext
  <2> QED BY <1>4, <2>1 DEF CarriesContext
<1>8. ASSUME NEW j \in 1 .. k - 1, run.ledger[j].step = e.step, run.ledger[j].attempt = e.attempt
      PROVE  Paths(run.ledger[j].request.files) \subseteq Paths(e.request.files)
  <2>1. j \in DOMAIN run.ledger /\ j < k
    BY <1>1, <1>6, LedgerIs
  <2>2. SameAttempt(run.ledger[j], run.ledger[k])
    BY <1>3, <1>8 DEF SameAttempt
  <2>3. CarriesOver(run.ledger[j], run.ledger[k])
    BY <2>1, <2>2 DEF ContextInv, LedgerCarries
  <2> QED BY <1>3, <2>3 DEF CarriesOver
<1> QED BY <1>3, <1>5, <1>7, <1>8

\* What requests carry of the repository keeps its invariant along the chain's: the
\* bundle a process has in memory is the one packed first, every chain of expansions
\* fits it, and each request of an attempt carries its whole chain (model_runner.rs,
\* context.rs, context_expansion.rs).
THEOREM ContextInvHolds == ChainSpec => [](ChainInv /\ ContextInv)
<1>1. ChainInit => ChainInv /\ ContextInv
  BY ChainInvInitially, ContextInitially
<1>2. ChainInv /\ ContextInv /\ [ChainNext]_chainVars => (ChainInv /\ ContextInv)'
  BY ChainInvInductive, ContextInvInductive
<1> QED BY <1>1, <1>2, PTL DEF ChainSpec

\* Every request carries one bundle and stays below the total limit with no file twice
\* or forbidden, and what a round granted is still there in the next, for every tree,
\* every limit and every request of a role (pack_context, create_context_expansion,
\* context_retry_request).
THEOREM ContextHolds == ChainSpec => []ContextIsBounded
BY ContextFromInv, ContextInvHolds, PTL

=============================================================================
