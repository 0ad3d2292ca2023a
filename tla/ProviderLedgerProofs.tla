------------------------ MODULE ProviderLedgerProofs ------------------------
(***************************************************************************)
(* Any number of runners of one run, any answers, deaths and revisions.    *)
(***************************************************************************)
EXTENDS ProviderLedger, TLAPS, FiniteSetTheorems, WellFoundedInduction

-----------------------------------------------------------------------------
(* The highest number of a bounded set, and sequences.                     *)

Less == {ss \in Nat \X Nat : ss[1] < ss[2]}

LEMMA LessWellFounded == IsWellFoundedOn(Less, Nat)
  BY NatLessThanWellFounded, Zenon DEF OpToRel, Less

LEMMA HighestIsHighest ==
  ASSUME NEW S, S \subseteq Nat, NEW N \in Nat, \A n \in S : n <= N, S # {}
  PROVE  Highest(S) \in S /\ \A m \in S : m <= Highest(S)
<1> DEFINE T == {N - n : n \in S}
<1>1. T \subseteq Nat /\ T # {}
  <2>1. \A n \in S : n \in Nat /\ n <= N
    OBVIOUS
  <2>2. \A n \in S : N - n \in Nat
    BY <2>1
  <2>3. QED
    BY <2>2
<1>2. PICK t \in T : \A u \in T : ~(<<u, t>> \in Less)
  BY <1>1, LessWellFounded, WFMin
<1>3. \A u \in T : ~(u < t)
  BY <1>1, <1>2 DEF Less
<1>4. PICK n \in S : t = N - n
  BY <1>2
<1>5. \A m \in S : N - m \in T
  OBVIOUS
<1>6. \A m \in S : m <= n
  BY <1>3, <1>4, <1>5
<1>7. QED
  BY <1>6 DEF Highest

LEMMA HighestOfBounded ==
  ASSUME NEW N \in Nat, NEW S, S \subseteq 1 .. N
  PROVE  /\ Highest(S) \in 0 .. N
         /\ S # {} => Highest(S) \in S /\ \A m \in S : m <= Highest(S)
<1>1. CASE S = {}
  BY <1>1 DEF Highest
<1>2. CASE S # {}
  <2>1. S \subseteq Nat /\ \A n \in S : n <= N
    OBVIOUS
  <2>2. Highest(S) \in S /\ \A m \in S : m <= Highest(S)
    BY <1>2, <2>1, HighestIsHighest
  <2>3. Highest(S) \in 1 .. N
    BY <2>2
  <2>4. QED
    BY <2>2, <2>3
<1>3. QED
  BY <1>1, <1>2

\* Appending to the ledger, entry by entry.
LEMMA Appended ==
  ASSUME NEW S, NEW led \in Seq(S), NEW x
  PROVE  /\ Len(Append(led, x)) = Len(led) + 1
         /\ DOMAIN Append(led, x) = 1 .. Len(led) + 1
         /\ DOMAIN led = 1 .. Len(led)
         /\ \A i \in DOMAIN led : Append(led, x)[i] = led[i]
         /\ Append(led, x)[Len(led) + 1] = x
         /\ x \in S => Append(led, x) \in Seq(S)
  OBVIOUS

LEMMA LastOf ==
  ASSUME NEW S, NEW led \in Seq(S), led # << >>
  PROVE  /\ Len(led) \in DOMAIN led /\ Len(led) >= 1
         /\ Last(led) = led[Len(led)] /\ Last(led) \in S
  BY DEF Last

-----------------------------------------------------------------------------
(* Adopting staged records: at most one, because a record after it would    *)
(* follow from one that is not in the ledger yet.                           *)

LEMMA ReconciledIs ==
  ASSUME IInv, NEW led \in Reconciled
  PROVE  \/ led = run.ledger
         \/ \E x \in Unreferenced : /\ led = Append(run.ledger, x)
                                    /\ Links(run, run.ledger, x)
<1>1. run.ledger \in Seq(Records) /\ filed \subseteq Records /\ IsFiniteSet(filed)
  BY DEF IInv, TypeOK, Runs, FiledOK
<1>2. IsFiniteSet(Unreferenced) /\ Unreferenced \subseteq filed
  BY <1>1, FS_Subset DEF Unreferenced
<1>3. Cardinality(Unreferenced) \in Nat
  BY <1>2, FS_CardinalityType
<1>4. PICK t \in SetToSeqs(Unreferenced) : Adopts(t) /\ led = run.ledger \o t
  BY DEF Reconciled
<1>5. t \in Seq(Unreferenced)
  BY <1>3, <1>4 DEF SetToSeqs
<1>6. ASSUME Len(t) >= 1 PROVE Links(run, run.ledger, t[1])
  <2>1. run.ledger \o SubSeq(t, 1, 1 - 1) = run.ledger
    BY <1>1, <1>5
  <2>2. 1 \in DOMAIN t /\ 1 \in 1 .. Len(t)
    BY <1>5, <1>6
  <2>3. Links(run, run.ledger \o SubSeq(t, 1, 1 - 1), t[1])
    BY <1>4, <2>2 DEF Adopts
  <2>4. QED
    BY <2>1, <2>3
<1>7. ASSUME Len(t) >= 2 PROVE FALSE
  <2> DEFINE x == t[1]
             y == t[2]
             grown == Append(run.ledger, x)
  <2>1. x \in Unreferenced /\ y \in Unreferenced /\ x \in filed /\ y \in filed
    BY <1>2, <1>5, <1>7
  <2>2. run.ledger \o SubSeq(t, 1, 2 - 1) = grown
    BY <1>1, <1>2, <1>5, <1>7
  <2>3. 2 \in DOMAIN t /\ 2 \in 2 .. Len(t)
    BY <1>5, <1>7
  <2>4. Links(run, run.ledger \o SubSeq(t, 1, 2 - 1), t[2])
    BY <1>4, <2>3 DEF Adopts
  <2>5. Links(run, grown, y)
    BY <2>2, <2>4
  <2>6. grown # << >> /\ Last(grown) = x
    BY <1>1 DEF Last
  <2>7. y.prev = Key(x) /\ (y.phase = "response" => x.phase = "request" /\ Coordinate(x) = Coordinate(y))
    BY <2>5, <2>6 DEF Links, HeadKey
  <2>8. \A i \in DOMAIN run.ledger : Key(run.ledger[i]) # Key(x)
    BY <2>1 DEF Unreferenced, IInv, FiledOK, LedgerOK
  <2>9. CASE y.phase = "response"
    <3>1. PICK i \in DOMAIN run.ledger :
            run.ledger[i].phase = "request" /\ Coordinate(run.ledger[i]) = Coordinate(y)
      BY <2>1, <2>9 DEF IInv, FiledOK, FiledFact, AnswersRequest
    <3>2. Key(run.ledger[i]) = Key(x)
      BY <2>7, <2>9, <3>1 DEF Key, Coordinate
    <3>3. QED
      BY <2>8, <3>1, <3>2
  <2>10. CASE y.phase = "request"
    <3>1. y.prev # NoRecord
      BY <2>7 DEF Key, NoRecord
    <3>2. QED
      BY <2>1, <2>7, <2>8, <2>10, <3>1 DEF IInv, FiledOK, FiledFact, Follows
  <2>11. QED
    BY <1>1, <2>1, <2>9, <2>10 DEF Records, Phases
<1>8. CASE Len(t) = 0
  BY <1>1, <1>4, <1>5, <1>8
<1>9. CASE Len(t) = 1
  <2>1. t[1] \in Unreferenced /\ t = <<t[1]>>
    BY <1>5, <1>9
  <2>2. \A a \in Seq(Records), b \in Records : a \o <<b>> = Append(a, b)
    OBVIOUS
  <2>3. t[1] \in Records
    BY <1>1, <1>2, <2>1
  <2>4. led = Append(run.ledger, t[1])
    BY <1>1, <1>4, <2>1, <2>2, <2>3
  <2>5. QED
    BY <1>6, <1>9, <2>1, <2>4
<1>10. Len(t) = 0 \/ Len(t) = 1 \/ Len(t) >= 2
  <2>1. Len(t) \in Nat
    BY <1>5
  <2>2. \A n \in Nat : n = 0 \/ n = 1 \/ n >= 2
    OBVIOUS
  <2>3. QED
    BY <2>1, <2>2
<1>11. QED
  BY <1>7, <1>8, <1>9, <1>10

-----------------------------------------------------------------------------
(* One more record in the ledger.                                          *)

IsRetry(x) == x.phase = "request" /\ x.kind = "context"

LEMMA RoundsOfAppend ==
  ASSUME NEW led \in Seq(Records), NEW x \in Records, NEW S
  PROVE  /\ Rounds(led, S) \in Nat
         /\ Rounds(Append(led, x), S) =
              IF IsRetry(x) /\ x.step \in S THEN Rounds(led, S) + 1 ELSE Rounds(led, S)
<1> DEFINE old == {i \in Retries(led) : led[i].step \in S}
           grown == Append(led, x)
           new == {i \in Retries(grown) : grown[i].step \in S}
           n == Len(led) + 1
<1>1. /\ DOMAIN led = 1 .. Len(led) /\ DOMAIN grown = 1 .. n
      /\ \A i \in DOMAIN led : grown[i] = led[i]
      /\ grown[n] = x /\ Len(led) \in Nat
  BY Appended
<1>2. old \subseteq 1 .. Len(led) /\ n \notin old
  BY <1>1 DEF Retries
<1>3. IsFiniteSet(old)
  BY <1>1, <1>2, FS_Interval, FS_Subset
<1>4. Cardinality(old) \in Nat
  BY <1>3, FS_CardinalityType
<1>5. CASE IsRetry(x) /\ x.step \in S
  <2>1. new = old \cup {n}
    BY <1>1, <1>5 DEF Retries, IsRetry
  <2>2. Cardinality(new) = Cardinality(old) + 1
    BY <1>2, <1>3, <2>1, FS_AddElement
  <2>3. QED
    BY <1>4, <1>5, <2>2 DEF Rounds
<1>6. CASE ~(IsRetry(x) /\ x.step \in S)
  <2>1. new = old
    BY <1>1, <1>6 DEF Retries, IsRetry
  <2>2. QED
    BY <1>4, <1>6, <2>1 DEF Rounds
<1>7. QED
  BY <1>5, <1>6

\* x is the next record of the ledger.
Extends(x) ==
  /\ x \in Records /\ x \in filed'
  /\ Links(run, run.ledger, x)
  /\ \A i \in DOMAIN run.ledger : run.ledger[i] # x
  /\ IsRetry(x) => ~CapReached(run.ledger, x.step)
  /\ x.phase = "response" => x.answer \in Answers
  /\ run'.ledger = Append(run.ledger, x)

Grows == run'.ledger = run.ledger \/ \E x \in filed' : Extends(x)

LEMMA GrowthKeepsLedger ==
  ASSUME IInv, filed \subseteq filed', Grows
  PROVE  LedgerOK' /\ CapsHold'
<1>1. CASE run'.ledger = run.ledger
  <2>1. LedgerOK'
    BY <1>1 DEF IInv, LedgerOK, IsInjective
  <2>3. CapsHold'
    BY <1>1 DEF IInv, CapsHold, Rounds, Retries
  <2>4. QED
    BY <2>1, <2>3
<1>2. CASE \E x \in filed' : Extends(x)
  <2>1. PICK x \in filed' : Extends(x)
    BY <1>2
  <2> DEFINE led == run.ledger
             n == Len(led) + 1
  <2>2. led \in Seq(Records) /\ x \in Records
    BY <2>1 DEF IInv, TypeOK, Runs, Extends
  <2>3. /\ DOMAIN led = 1 .. Len(led) /\ DOMAIN run'.ledger = 1 .. n
        /\ \A i \in DOMAIN led : run'.ledger[i] = led[i]
        /\ run'.ledger[n] = x /\ Len(led) \in Nat
    BY <2>1, <2>2, Appended DEF Extends
  <2>4. \A i \in DOMAIN led :
          /\ led[i] \in filed
          /\ led[i].phase = "request" <=> i % 2 = 1
          /\ i > 1 => led[i].prev = Key(led[i - 1])
          /\ led[i].phase = "response" => i > 1 /\ Coordinate(led[i]) = Coordinate(led[i - 1])
    <3>1. \A i \in DOMAIN led : led[i].phase = "response" => i > 1
      <4>1. \A i \in DOMAIN led : led[i].phase = "response" => i % 2 # 1 /\ i \in 1 .. Len(led)
        BY <2>3 DEF IInv, LedgerOK
      <4>2. QED
        BY <2>3, <4>1
    <3>2. QED
      BY <3>1 DEF IInv, LedgerOK
  <2>5. led = << >> => n = 1 /\ x.phase = "request"
    BY <2>1, <2>2 DEF Extends, Links, Records, Phases
  <2>6. led # << >> => n > 1 /\ Len(led) \in DOMAIN led /\ Last(led) = led[Len(led)]
    BY <2>2, <2>3, LastOf
  <2>7. n > 1 => led # << >>
    OBVIOUS
  <2>8. led # << >> => (x.phase = "request" <=> Last(led).phase = "response")
    BY <2>1, <2>2, <2>6 DEF Extends, Links, FollowsResponse, StartsGroup, Records, Phases
  <2>9. x.phase = "request" <=> n % 2 = 1
    <3>1. CASE led = << >>
      BY <2>5, <3>1
    <3>2. CASE led # << >>
      <4>1. Last(led) \in Records
        BY <2>2, <3>2, LastOf
      <4>2. Last(led).phase = "request" <=> Len(led) % 2 = 1
        BY <2>4, <2>6, <3>2
      <4>3. \A k \in Nat : (k + 1) % 2 = 1 <=> ~(k % 2 = 1)
        OBVIOUS
      <4>4. QED
        BY <2>3, <2>8, <3>2, <4>1, <4>2, <4>3 DEF Records, Phases
    <3>3. QED
      BY <3>1, <3>2
  <2>10. /\ n > 1 => x.prev = Key(led[n - 1])
         /\ x.phase = "response" => n > 1 /\ Coordinate(x) = Coordinate(led[n - 1])
    <3>1. CASE n > 1
      <4>1. led # << >> /\ n - 1 = Len(led)
        BY <2>3, <2>7, <3>1
      <4>2. QED
        BY <2>1, <2>6, <3>1, <4>1 DEF Extends, Links, HeadKey
    <3>2. CASE ~(n > 1)
      BY <2>5, <2>6, <3>2
    <3>3. QED
      BY <3>1, <3>2
  <2>11. \A i \in DOMAIN run'.ledger :
           /\ run'.ledger[i] \in filed'
           /\ run'.ledger[i].phase = "request" <=> i % 2 = 1
           /\ i > 1 => run'.ledger[i].prev = Key(run'.ledger[i - 1])
           /\ run'.ledger[i].phase = "response" =>
                Coordinate(run'.ledger[i]) = Coordinate(run'.ledger[i - 1])
    <3>1. SUFFICES ASSUME NEW i \in DOMAIN run'.ledger
                   PROVE  /\ run'.ledger[i] \in filed'
                          /\ run'.ledger[i].phase = "request" <=> i % 2 = 1
                          /\ i > 1 => run'.ledger[i].prev = Key(run'.ledger[i - 1])
                          /\ run'.ledger[i].phase = "response" =>
                               Coordinate(run'.ledger[i]) = Coordinate(run'.ledger[i - 1])
      OBVIOUS
    <3>2. CASE i = n
      <4>1. n > 1 => n - 1 \in DOMAIN led /\ run'.ledger[n - 1] = led[n - 1]
        BY <2>3
      <4>2. QED
        BY <2>1, <2>3, <2>9, <2>10, <3>2, <4>1
    <3>3. CASE i \in DOMAIN led
      <4>1. i > 1 => i - 1 \in DOMAIN led /\ run'.ledger[i - 1] = led[i - 1]
        BY <2>3, <3>3
      <4>2. QED
        BY <2>3, <2>4, <3>3, <4>1
    <3>4. QED
      BY <2>3, <3>1, <3>2, <3>3
  <2>12. IsInjective(run'.ledger)
    <3>1. IsInjective(led)
      BY DEF IInv, LedgerOK
    <3>2. \A i \in DOMAIN led : led[i] # x
      BY <2>1 DEF Extends
    <3>3. QED
      BY <2>3, <3>1, <3>2 DEF IsInjective
  <2>13. LedgerOK'
    BY <2>11, <2>12 DEF LedgerOK, Key, Coordinate
  <2>14. CapsHold'
    <3>1. \A S : /\ Rounds(led, S) \in Nat
                 /\ Rounds(run'.ledger, S) =
                      IF IsRetry(x) /\ x.step \in S THEN Rounds(led, S) + 1 ELSE Rounds(led, S)
      BY <2>1, <2>2, RoundsOfAppend DEF Extends
    <3>2. IsRetry(x) => ~(Rounds(led, Steps) >= RunRounds) /\ ~(Rounds(led, {x.step}) >= StepRounds)
      BY <2>1 DEF Extends, CapReached
    <3>3. /\ Rounds(led, Steps) <= RunRounds
          /\ \A s \in Steps : Rounds(led, {s}) <= StepRounds
      BY DEF IInv, CapsHold
    <3>4. RunRounds \in Nat /\ StepRounds \in Nat
      BY LedgerAssumption
    <3>5. Rounds(run'.ledger, Steps) <= RunRounds
      BY <3>1, <3>2, <3>3, <3>4
    <3>6. \A s \in Steps : Rounds(run'.ledger, {s}) <= StepRounds
      <4>1. SUFFICES ASSUME NEW s \in Steps PROVE Rounds(run'.ledger, {s}) <= StepRounds
        OBVIOUS
      <4>2. CASE s = x.step
        BY <3>1, <3>2, <3>3, <3>4, <4>2
      <4>3. CASE s # x.step
        BY <3>1, <3>3, <4>3
      <4>4. QED
        BY <4>2, <4>3
    <3>7. QED
      BY <3>5, <3>6 DEF CapsHold, Rounds, Retries
  <2>15. QED
    BY <2>13, <2>14
<1>3. QED
  BY <1>1, <1>2 DEF Grows

-----------------------------------------------------------------------------
(* Where a record of the ledger comes from.                                *)

\* A record found staged.
LEMMA AdoptedExtends ==
  ASSUME IInv, NEW x \in Unreferenced, Links(run, run.ledger, x), filed \subseteq filed',
         run'.ledger = Append(run.ledger, x)
  PROVE  Extends(x)
<1> DEFINE led == run.ledger
<1>1. x \in filed /\ x \in Records /\ \A i \in DOMAIN led : led[i] # x
  BY DEF Unreferenced, IInv, TypeOK
<1>2. led \in Seq(Records)
  BY DEF IInv, TypeOK, Runs
<1>3. x.phase = "response" => x.answer \in Answers
  BY <1>1 DEF IInv, TypeOK, FiledOK, FiledFact, AnswersRequest
<1>4. ASSUME IsRetry(x) PROVE ~CapReached(led, x.step)
  <2>1. led # << >>
    BY <1>4 DEF Links, StartsGroup, IsRetry
  <2>2. Len(led) \in DOMAIN led /\ Last(led) = led[Len(led)] /\ x.prev = Key(led[Len(led)])
    BY <1>2, <2>1, LastOf DEF Links, HeadKey
  <2>3. x.prev # NoRecord
    BY <2>2 DEF Key, NoRecord
  <2>4. PICK n \in DOMAIN led :
          Key(led[n]) = x.prev /\ ~CapReached(SubSeq(led, 1, n), x.step)
    BY <1>1, <1>4, <2>3 DEF IInv, FiledOK, FiledFact, Follows, IsRetry
  <2>5. led[n] \in filed /\ led[Len(led)] \in filed
    BY <2>2 DEF IInv, LedgerOK
  <2>6. led[n] = led[Len(led)]
    BY <2>2, <2>4, <2>5 DEF IInv, FiledOK
  <2>7. n = Len(led)
    BY <2>2, <2>6 DEF IInv, LedgerOK, IsInjective
  <2>8. SubSeq(led, 1, Len(led)) = led
    BY <1>2
  <2>9. QED
    BY <2>4, <2>7, <2>8
<1>5. QED
  BY <1>1, <1>3, <1>4 DEF Extends

LEMMA AdoptionGrows ==
  ASSUME IInv, filed \subseteq filed', run'.ledger \in Reconciled
  PROVE  Grows
<1>1. CASE run'.ledger = run.ledger
  BY <1>1 DEF Grows
<1>2. CASE \E x \in Unreferenced : run'.ledger = Append(run.ledger, x) /\ Links(run, run.ledger, x)
  <2>1. PICK x \in Unreferenced : run'.ledger = Append(run.ledger, x) /\ Links(run, run.ledger, x)
    BY <1>2
  <2>2. Extends(x)
    BY <2>1, AdoptedExtends
  <2>3. QED
    BY <2>2 DEF Grows, Extends
<1>3. QED
  BY <1>1, <1>2, ReconciledIs

\* What a runner writes has the type of a record once it has an attempt.
LEMMA RecordType ==
  ASSUME IInv, NEW p \in Runners, runner[p].attempt # 0, runner[p].index # 0,
         NEW phase \in Phases, NEW answer \in Answers \cup {NoAnswer}
  PROVE  /\ Record(p, phase, answer) \in Records
         /\ Coordinate(Record(p, phase, answer)) = Here(p) /\ Here(p) \in Coordinates
<1>1. runner[p] \in Progress
  BY DEF IInv, TypeOK
<1>2. /\ runner[p].run.step \in Steps /\ runner[p].attempt \in 1 .. MaxAttempt
      /\ runner[p].index \in Nat \ {0} /\ runner[p].kind \in Kinds /\ runner[p].round \in Nat
      /\ runner[p].view.ledger \in Seq(Records)
  <2>1. MaxAttempt \in Nat
    BY LedgerAssumption
  <2>2. QED
    BY <1>1, <2>1 DEF Progress, Runs
<1>3. HeadKey(runner[p].view.ledger) \in
        {NoRecord} \cup (Steps \X (1 .. MaxAttempt) \X (Nat \ {0}) \X Phases)
  <2>1. CASE runner[p].view.ledger = << >>
    BY <2>1 DEF HeadKey
  <2>2. CASE runner[p].view.ledger # << >>
    <3>1. Last(runner[p].view.ledger) \in Records
      BY <1>2, <2>2, LastOf
    <3>2. QED
      BY <2>2, <3>1 DEF HeadKey, Key, Records
  <2>3. QED
    BY <2>1, <2>2
<1>4. QED
  BY <1>2, <1>3 DEF Record, Records, Coordinate, Here, Coordinates

\* A response whose request is the head is not in the ledger.
LEMMA ResponseIsNew ==
  ASSUME IInv, NEW x \in filed, x.phase = "response", Links(run, run.ledger, x)
  PROVE  \A i \in DOMAIN run.ledger : run.ledger[i] # x
<1> DEFINE led == run.ledger
<1>1. led \in Seq(Records) /\ led # << >>
  BY DEF IInv, TypeOK, Runs, Links
<1>2. /\ Len(led) \in DOMAIN led /\ Last(led) = led[Len(led)]
      /\ x.prev = Key(led[Len(led)]) /\ led[Len(led)].phase = "request"
  BY <1>1, LastOf DEF Links, HeadKey
<1>3. SUFFICES ASSUME NEW i \in DOMAIN led, led[i] = x PROVE FALSE
  OBVIOUS
<1>4. i % 2 # 1
  BY <1>3 DEF IInv, LedgerOK
<1>5. i \in 1 .. Len(led) /\ Len(led) \in Nat
  BY <1>1
<1>6. i > 1
  BY <1>4, <1>5
<1>7. i - 1 \in DOMAIN led /\ Key(led[i - 1]) = Key(led[Len(led)])
  BY <1>1, <1>2, <1>3, <1>5, <1>6 DEF IInv, LedgerOK
<1>8. led[i - 1] = led[Len(led)]
  BY <1>2, <1>7 DEF IInv, LedgerOK, FiledOK
<1>9. i - 1 = Len(led)
  BY <1>2, <1>7, <1>8 DEF IInv, LedgerOK, IsInjective
<1>10. QED
  BY <1>5, <1>9

-----------------------------------------------------------------------------
(* What every step leaves standing.                                        *)

Accretes ==
  /\ requests \subseteq requests' /\ responses \subseteq responses'
  /\ filed \subseteq filed' /\ expansions \subseteq expansions'

LEMMA LedgerPrefix ==
  ASSUME IInv, Grows, NEW n \in DOMAIN run.ledger
  PROVE  /\ n \in DOMAIN run'.ledger /\ run'.ledger[n] = run.ledger[n]
         /\ SubSeq(run'.ledger, 1, n) = SubSeq(run.ledger, 1, n)
<1> DEFINE led == run.ledger
<1>1. led \in Seq(Records)
  BY DEF IInv, TypeOK, Runs
<1>2. CASE run'.ledger = led
  BY <1>2
<1>3. CASE \E x \in filed' : Extends(x)
  <2>1. PICK x \in Records : run'.ledger = Append(led, x)
    BY <1>3 DEF Extends
  <2>2. n \in 1 .. Len(led) /\ Len(led) \in Nat
    BY <1>1
  <2>3. n \in DOMAIN run'.ledger /\ run'.ledger[n] = led[n]
    BY <1>1, <2>1, Appended
  <2>4. SubSeq(Append(led, x), 1, n) = SubSeq(led, 1, n)
    BY <1>1, <2>2
  <2>5. QED
    BY <2>1, <2>3, <2>4
<1>4. QED
  BY <1>2, <1>3 DEF Grows

LEMMA FiledStays ==
  ASSUME IInv, Grows, Accretes, NEW x \in filed
  PROVE  FiledFact(x)'
<1>1. FiledFact(x)
  BY DEF IInv, FiledOK
<1>2. Expanded(x.step, x.attempt, x.round)'
  BY <1>1 DEF FiledFact, Expanded, Accretes
<1>3. ASSUME x.phase = "request" PROVE Coordinate(x) \in requests' /\ Follows(x)'
  <2>1. Coordinate(x) \in requests'
    BY <1>1, <1>3 DEF FiledFact, Accretes
  <2>2. CASE x.prev = NoRecord
    BY <2>1, <2>2 DEF Follows
  <2>3. CASE x.prev # NoRecord
    <3>1. PICK n \in DOMAIN run.ledger :
            /\ Key(run.ledger[n]) = x.prev
            /\ x.kind = "context" => ~CapReached(SubSeq(run.ledger, 1, n), x.step)
      BY <1>1, <1>3, <2>3 DEF FiledFact, Follows
    <3>2. /\ n \in DOMAIN run'.ledger /\ run'.ledger[n] = run.ledger[n]
          /\ SubSeq(run'.ledger, 1, n) = SubSeq(run.ledger, 1, n)
      BY LedgerPrefix
    <3>3. /\ Key(run'.ledger[n]) = x.prev
          /\ x.kind = "context" => ~CapReached(SubSeq(run'.ledger, 1, n), x.step)
      BY <3>1, <3>2
    <3>4. \E m \in DOMAIN run'.ledger :
            /\ Key(run'.ledger[m]) = x.prev
            /\ x.kind = "context" => ~CapReached(SubSeq(run'.ledger, 1, m), x.step)
      BY <3>2, <3>3
    <3>5. QED
      BY <2>1, <3>4 DEF Follows, Key, CapReached, Rounds, Retries
  <2>4. QED
    BY <2>2, <2>3
<1>4. ASSUME x.phase = "response" PROVE AnswersRequest(x)'
  <2>1. [to |-> Coordinate(x), answer |-> x.answer] \in responses'
    BY <1>1, <1>4 DEF FiledFact, AnswersRequest, Accretes
  <2>2. PICK i \in DOMAIN run.ledger :
          run.ledger[i].phase = "request" /\ Coordinate(run.ledger[i]) = Coordinate(x)
    BY <1>1, <1>4 DEF FiledFact, AnswersRequest
  <2>3. i \in DOMAIN run'.ledger /\ run'.ledger[i] = run.ledger[i]
    BY LedgerPrefix
  <2>4. QED
    BY <2>1, <2>2, <2>3 DEF AnswersRequest, Coordinate
<1>5. QED
  BY <1>2, <1>3, <1>4 DEF FiledFact

\* No record is filed, or one with a path of its own.
LEMMA FiledStep ==
  ASSUME IInv, Grows, Accretes,
         \/ filed' = filed
         \/ \E x \in Records : /\ filed' = filed \cup {x} /\ FiledFact(x)'
                               /\ \A y \in filed : Key(y) # Key(x)
  PROVE  FiledOK'
<1>1. IsFiniteSet(filed) /\ \A x, y \in filed : Key(x) = Key(y) => x = y
  BY DEF IInv, FiledOK
<1>2. \A x \in filed : FiledFact(x)'
  BY FiledStays
<1>3. CASE filed' = filed
  BY <1>1, <1>2, <1>3 DEF FiledOK, Key
<1>4. CASE \E x \in Records : /\ filed' = filed \cup {x} /\ FiledFact(x)'
                              /\ \A y \in filed : Key(y) # Key(x)
  <2>1. PICK x \in Records : /\ filed' = filed \cup {x} /\ FiledFact(x)'
                             /\ \A y \in filed : Key(y) # Key(x)
    BY <1>4
  <2>2. IsFiniteSet(filed')
    BY <1>1, <2>1, FS_AddElement
  <2>3. \A y, z \in filed' : Key(y) = Key(z) => y = z
    BY <1>1, <2>1
  <2>4. \A y \in filed' : FiledFact(y)'
    BY <1>2, <2>1
  <2>5. QED
    BY <2>2, <2>3, <2>4 DEF FiledOK, Key
<1>5. QED
  BY <1>3, <1>4

LEMMA OthersStay ==
  ASSUME IInv, Accretes, NEW q \in Runners, runner'[q] = runner[q]
  PROVE  RunnerFact(q)'
<1>1. RunnerFact(q)
  BY DEF IInv
<1>2. \A a : ResponseFile(q, a)' = ResponseFile(q, a)
  BY DEF ResponseFile, Here, Record, Coordinate, HeadKey, Key
<1>3. Response(q)' = Response(q)
  BY DEF Response, Record, HeadKey, Key
<1>4. QED
  BY <1>1, <1>2, <1>3 DEF RunnerFact, Accretes, Expanded, CapReached, Rounds, Retries

\* What is left to show of a step of one runner, or of none.
LEMMA StepKeeps ==
  ASSUME IInv, NEW p \in Runners, TypeOK', Grows, Accretes, OneAnswer',
         \/ filed' = filed
         \/ \E x \in Records : /\ filed' = filed \cup {x} /\ FiledFact(x)'
                               /\ \A y \in filed : Key(y) # Key(x),
         \A q \in Runners \ {p} : runner'[q] = runner[q],
         RunnerFact(p)'
  PROVE  IInv'
<1>1. LedgerOK' /\ CapsHold'
  BY GrowthKeepsLedger DEF Accretes
<1>2. FiledOK'
  BY FiledStep
<1>3. \A q \in Runners : RunnerFact(q)'
  BY OthersStay
<1>4. QED
  BY <1>1, <1>2, <1>3 DEF IInv

-----------------------------------------------------------------------------
(* Types.                                                                  *)

LEMMA OwnType ==
  ASSUME IInv, NEW p \in Runners
  PROVE  /\ runner[p] \in Progress /\ RunnerFact(p)
         /\ runner[p].run \in Runs /\ runner[p].run.step \in Steps
         /\ runner[p].run.ledger \in Seq(Records) /\ runner[p].view.ledger \in Seq(Records)
         /\ runner[p].index \in Nat /\ runner[p].round \in Nat
         /\ runner[p].attempt \in 0 .. MaxAttempt
         /\ runner[p].answer \in Answers \cup {NoAnswer}
  BY DEF IInv, TypeOK, Progress, Runs

LEMMA ReadyType ==
  ASSUME NEW rn \in Runs, NEW a \in 0 .. MaxAttempt
  PROVE  Ready(rn, a) \in Progress
<1>1. View(rn) \in [ledger : Seq(Records), revision : Nat]
  BY DEF View, Runs
<1>2. QED
  BY <1>1 DEF Ready, Progress, Points, Kinds

LEMMA IdleType ==
  /\ Fresh \in Runs /\ Idle \in Progress
  /\ \A rn \in Runs : View(rn) \in [ledger : Seq(Records), revision : Nat]
<1>1. LastStep \in Nat \ {0} /\ MaxAttempt \in Nat
  BY LedgerAssumption
<1>2. << >> \in Seq(Records) /\ 1 \in Steps
  BY <1>1 DEF Steps
<1>3. Fresh \in Runs
  BY <1>2 DEF Fresh, Runs
<1>4. \A rn \in Runs : View(rn) \in [ledger : Seq(Records), revision : Nat]
  BY DEF View, Runs
<1>5. Idle \in Progress
  <2>1. Ready(Fresh, 0) \in Progress
    BY <1>1, <1>3, ReadyType
  <2>2. QED
    BY <2>1 DEF Idle, Progress, Points
<1>6. QED
  BY <1>3, <1>4, <1>5

LEMMA IdleFact ==
  ASSUME NEW p \in Runners, runner'[p] = Idle
  PROVE  RunnerFact(p)'
  BY DEF RunnerFact, Idle, Ready, View, Fresh, Exchanging

\* A runner's step, its types.
LEMMA StepType ==
  ASSUME IInv, NEW p \in Runners, NEW r \in Progress,
         runner' = [runner EXCEPT ![p] = r],
         run' \in Runs, run'.revision = run.revision, UNCHANGED revisions,
         requests' \subseteq Coordinates,
         responses' \subseteq [to : Coordinates, answer : Answers],
         filed' \subseteq Records,
         expansions' \subseteq Steps \X (1 .. MaxAttempt) \X Nat,
         prompts' \subseteq Steps \X (1 .. MaxAttempt),
         faults' \in 0 .. MaxFaults
  PROVE  /\ TypeOK' /\ runner'[p] = r
         /\ \A q \in Runners \ {p} : runner'[q] = runner[q]
<1>1. runner' \in [Runners -> Progress]
  BY DEF IInv, TypeOK
<1>2. run'.revision <= Len(revisions')
  BY DEF IInv, TypeOK
<1>3. revisions' \in Seq(Revisions)
  BY DEF IInv, TypeOK
<1>4. runner'[p] = r /\ \A q \in Runners \ {p} : runner'[q] = runner[q]
  BY DEF IInv, TypeOK
<1>5. QED
  BY <1>1, <1>2, <1>3, <1>4 DEF TypeOK

LEMMA Faults ==
  ASSUME IInv
  PROVE  /\ faults \in 0 .. MaxFaults
         /\ faults < MaxFaults => faults + 1 \in 0 .. MaxFaults
<1>1. MaxFaults \in Nat /\ faults \in 0 .. MaxFaults
  BY LedgerAssumption DEF IInv, TypeOK
<1>2. QED
  BY <1>1

\* A step that changes the runner alone.
LEMMA RunnerStep ==
  ASSUME IInv, NEW p \in Runners, NEW r \in Progress,
         runner' = [runner EXCEPT ![p] = r],
         UNCHANGED <<run, files, revisions>>, faults' \in 0 .. MaxFaults,
         runner'[p] = r => RunnerFact(p)'
  PROVE  IInv'
<1>1. UNCHANGED <<run, requests, responses, filed, expansions, prompts, revisions>>
  BY DEF files
<1>2. TypeOK' /\ runner'[p] = r /\ \A q \in Runners \ {p} : runner'[q] = runner[q]
  <2>1. /\ run' \in Runs /\ run'.revision = run.revision
        /\ requests' \subseteq Coordinates
        /\ responses' \subseteq [to : Coordinates, answer : Answers]
        /\ filed' \subseteq Records
        /\ expansions' \subseteq Steps \X (1 .. MaxAttempt) \X Nat
        /\ prompts' \subseteq Steps \X (1 .. MaxAttempt)
    BY <1>1 DEF IInv, TypeOK
  <2>2. QED
    BY <1>1, <2>1, StepType
<1>3. Grows /\ Accretes
  BY <1>1 DEF Grows, Accretes
<1>4. OneAnswer'
  BY <1>1 DEF IInv, OneAnswer
<1>5. QED
  BY <1>1, <1>2, <1>3, <1>4, StepKeeps

\* A step that changes the runner and run.json, which it leaves its ledger or extends
\* by what it found staged.
LEMMA RunStep ==
  ASSUME IInv, NEW p \in Runners, NEW r \in Progress,
         runner' = [runner EXCEPT ![p] = r],
         run' \in Runs, run'.revision = run.revision, Grows,
         UNCHANGED <<files, revisions>>, faults' \in 0 .. MaxFaults,
         runner'[p] = r => RunnerFact(p)'
  PROVE  IInv'
<1>1. UNCHANGED <<requests, responses, filed, expansions, prompts, revisions>>
  BY DEF files
<1>2. TypeOK' /\ runner'[p] = r /\ \A q \in Runners \ {p} : runner'[q] = runner[q]
  <2>1. /\ requests' \subseteq Coordinates
        /\ responses' \subseteq [to : Coordinates, answer : Answers]
        /\ filed' \subseteq Records
        /\ expansions' \subseteq Steps \X (1 .. MaxAttempt) \X Nat
        /\ prompts' \subseteq Steps \X (1 .. MaxAttempt)
    BY <1>1 DEF IInv, TypeOK
  <2>2. QED
    BY <1>1, <2>1, StepType
<1>3. Accretes
  BY <1>1 DEF Accretes
<1>4. OneAnswer'
  BY <1>1 DEF IInv, OneAnswer
<1>5. QED
  BY <1>1, <1>2, <1>3, <1>4, StepKeeps

-----------------------------------------------------------------------------
(* The steps that change a runner alone.                                   *)

LEMMA DieKeeps ==
  ASSUME IInv, NEW p \in Runners, Die(p)
  PROVE  IInv'
<1>1. faults' \in 0 .. MaxFaults
  BY Faults DEF Die
<1>2. QED
  BY <1>1, IdleType, IdleFact, RunnerStep DEF Die, Leave

LEMMA RefuseKeeps ==
  ASSUME IInv, NEW p \in Runners, Refuse(p)
  PROVE  IInv'
<1>1. faults' \in 0 .. MaxFaults
  BY Faults DEF Refuse
<1>2. QED
  BY <1>1, IdleType, IdleFact, RunnerStep DEF Refuse, Leave

LEMMA AskKeeps ==
  ASSUME IInv, NEW p \in Runners, Ask(p)
  PROVE  IInv'
<1> DEFINE r == [runner[p] EXCEPT !.at = "call"]
<1>1. runner[p] \in Progress /\ RunnerFact(p) /\ runner[p].at = "ask"
  BY OwnType DEF Ask
<1>2. r \in Progress /\ runner' = [runner EXCEPT ![p] = r]
  BY <1>1 DEF Ask, Goto, Progress, Points
<1>3. /\ r.at = "call" /\ r.run = runner[p].run /\ r.view = runner[p].view
      /\ r.attempt = runner[p].attempt /\ r.index = runner[p].index /\ r.round = runner[p].round
  BY <1>1 DEF Progress
<1>4. UNCHANGED <<run, files, revisions>> /\ faults' \in 0 .. MaxFaults
  BY Faults DEF Ask
<1>5. runner'[p] = r => RunnerFact(p)'
  BY <1>1, <1>3, <1>4 DEF RunnerFact, Exchanging, Expanded, files
<1>6. QED
  BY <1>2, <1>4, <1>5, RunnerStep

LEMMA RepairKeeps ==
  ASSUME IInv, NEW p \in Runners, Repair(p)
  PROVE  IInv'
<1> DEFINE r == NextRequest(p, "repair", runner[p].round)
<1>1. runner[p] \in Progress /\ RunnerFact(p) /\ runner[p].at = "decide"
  BY OwnType DEF Repair
<1>2. r \in Progress /\ runner' = [runner EXCEPT ![p] = r]
  BY <1>1 DEF Repair, NextRequest, Progress, Points, Kinds
<1>3. UNCHANGED <<run, files, revisions>> /\ faults' \in 0 .. MaxFaults
  BY Faults DEF Repair
<1>4. /\ r.at = "request" /\ r.run = runner[p].run /\ r.view = runner[p].view
      /\ r.attempt = runner[p].attempt /\ r.index # 0
      /\ r.round = runner[p].round /\ r.kind = "repair"
  BY OwnType DEF NextRequest
<1>5. runner'[p] = r => RunnerFact(p)'
  BY <1>1, <1>3, <1>4 DEF RunnerFact, Exchanging, Expanded, files
<1>6. QED
  BY <1>2, <1>3, <1>5, RunnerStep

-----------------------------------------------------------------------------
(* The steps that change run.json.                                         *)

LEMMA PrepareKeeps ==
  ASSUME IInv, NEW p \in Runners, NEW led \in Reconciled, NEW a \in 1 .. MaxAttempt,
         Prepare(p, led, a), UNCHANGED <<files, revisions, faults>>
  PROVE  IInv'
<1> DEFINE r == Ready(run', a)
<1>1. run \in Runs /\ Unreferenced \subseteq Records
  BY DEF IInv, TypeOK, Unreferenced
<1>2. led \in Seq(Records)
  <2>1. run.ledger \in Seq(Records)
    BY <1>1 DEF Runs
  <2>2. QED
    BY <1>1, <2>1, ReconciledIs
<1>3. run' \in Runs /\ run'.ledger = led /\ run'.revision = run.revision
  BY <1>1, <1>2 DEF Prepare, Runs
<1>4. r.at = "ready" /\ r.view.ledger = led
  BY <1>3 DEF Ready, View
<1>6. r \in Progress
  BY <1>3, ReadyType
<1>7. Accretes /\ Grows
  <2>1. Accretes
    BY DEF Accretes, files
  <2>2. QED
    BY <1>3, <2>1, AdoptionGrows DEF Accretes
<1>8. \A i \in DOMAIN led : led[i] \in filed'
  <2>1. LedgerOK'
    BY <1>7, GrowthKeepsLedger DEF Accretes
  <2>2. QED
    BY <1>3, <2>1 DEF LedgerOK
<1>9. runner'[p] = r => RunnerFact(p)'
  BY <1>4, <1>8 DEF RunnerFact, Exchanging
<1>10. faults' \in 0 .. MaxFaults /\ runner' = [runner EXCEPT ![p] = r]
  BY Faults DEF Prepare
<1>11. QED
  BY <1>3, <1>6, <1>7, <1>9, <1>10, RunStep

LEMMA ResumeKeeps ==
  ASSUME IInv, NEW p \in Runners, Resume(p)
  PROVE  IInv'
<1>1. PICK led \in Reconciled : \E a \in ResumedAttempt(led) : Prepare(p, led, a)
  BY DEF Resume
<1>2. PICK a \in 1 .. MaxAttempt : Prepare(p, led, a)
  BY <1>1 DEF ResumedAttempt
<1>3. QED
  BY <1>2, PrepareKeeps DEF Resume

LEMMA RerunKeeps ==
  ASSUME IInv, NEW p \in Runners, Rerun(p)
  PROVE  IInv'
<1>1. PICK led \in Reconciled : Prepare(p, led, revisions[run.revision].attempt)
  BY DEF Rerun
<1>2. run.revision \in DOMAIN revisions
  BY DEF Rerun, IInv, TypeOK, Runs
<1>3. revisions[run.revision].attempt \in 1 .. MaxAttempt
  <2>1. revisions \in Seq(Revisions)
    BY DEF IInv, TypeOK
  <2>2. revisions[run.revision] \in Revisions
    BY <1>2, <2>1
  <2>3. QED
    BY <2>2 DEF Revisions
<1>4. QED
  BY <1>1, <1>3, PrepareKeeps DEF Rerun

LEMMA NextAttemptType ==
  ASSUME IInv, NEW p \in Runners, NextAttempt(p) <= MaxAttempt
  PROVE  NextAttempt(p) \in 1 .. MaxAttempt
<1>1. MaxAttempt \in Nat
  BY LedgerAssumption
<1>2. CASE runner[p].attempt # 0
  BY <1>1, <1>2, OwnType DEF NextAttempt
<1>3. CASE runner[p].attempt = 0
  <2>1. LastPrompt(runner[p].run.step) \in 0 .. MaxAttempt
    BY <1>1, HighestOfBounded DEF LastPrompt
  <2>2. QED
    BY <1>1, <1>3, <2>1 DEF NextAttempt
<1>4. QED
  BY <1>2, <1>3

LEMMA MarkRunningKeeps ==
  ASSUME IInv, NEW p \in Runners, MarkRunning(p)
  PROVE  IInv'
<1> DEFINE r == [runner[p] EXCEPT !.at = "marked", !.run = Marked(p), !.attempt = NextAttempt(p)]
<1>1. /\ runner[p] \in Progress /\ RunnerFact(p) /\ runner[p].run \in Runs
      /\ NextAttempt(p) \in 1 .. MaxAttempt
  BY OwnType, NextAttemptType DEF MarkRunning
<1>2. /\ Marked(p) \in Runs /\ Marked(p).ledger = runner[p].run.ledger
      /\ Marked(p).revision = runner[p].run.revision /\ Marked(p).status = "running"
  BY <1>1 DEF Marked, Runs
<1>3. run' = Marked(p) /\ run \in {runner[p].run, Marked(p)}
  BY <1>2 DEF MarkRunning, MayPublish
<1>4. run' \in Runs /\ run'.revision = run.revision /\ Grows
  BY <1>2, <1>3 DEF Grows
<1>5. r \in Progress
  <2>1. [runner[p] EXCEPT !.at = "marked"] \in Progress
    BY <1>1 DEF Progress, Points
  <2>2. [runner[p] EXCEPT !.at = "marked", !.run = Marked(p)] \in Progress
    BY <1>2, <2>1 DEF Progress
  <2>3. NextAttempt(p) \in 0 .. MaxAttempt
    BY <1>1
  <2>4. QED
    BY <2>2, <2>3 DEF Progress
<1>6. runner' = [runner EXCEPT ![p] = r]
  BY DEF MarkRunning
<1>7. r.at = "marked" /\ r.view = runner[p].view /\ r.attempt # 0
  BY <1>1 DEF Progress
<1>8. UNCHANGED <<files, revisions>> /\ faults' \in 0 .. MaxFaults
  BY Faults DEF MarkRunning
<1>9. runner'[p] = r => RunnerFact(p)'
  BY <1>1, <1>7, <1>8 DEF RunnerFact, Exchanging, files
<1>10. QED
  BY <1>4, <1>5, <1>6, <1>8, <1>9, RunStep

LEMMA FinishedType ==
  ASSUME IInv, NEW p \in Runners, NEW ending \in {"completed", "blocked", "failed"}
  PROVE  /\ Imported(p) \in Runs /\ Imported(p).ledger = runner[p].view.ledger
         /\ Finished(p, ending) \in Runs
         /\ Finished(p, ending).ledger = Imported(p).ledger
         /\ Finished(p, ending).revision = Imported(p).revision
<1>1. runner[p].run \in Runs /\ runner[p].view.ledger \in Seq(Records)
  BY OwnType
<1>2. Imported(p) \in Runs /\ Imported(p).ledger = runner[p].view.ledger
  BY <1>1 DEF Imported, Runs
<1>3. CASE ending # "completed"
  BY <1>2, <1>3 DEF Finished, Runs
<1>4. CASE ending = "completed" /\ Imported(p).step = LastStep
  BY <1>2, <1>4 DEF Finished, Runs
<1>5. CASE ending = "completed" /\ Imported(p).step # LastStep
  <2>1. Imported(p).step + 1 \in Steps
    BY <1>2, <1>5, LedgerAssumption DEF Runs, Steps
  <2>2. QED
    BY <1>2, <1>5, <2>1 DEF Finished, Runs
<1>6. QED
  BY <1>2, <1>3, <1>4, <1>5

LEMMA FinishKeeps ==
  ASSUME IInv, NEW p \in Runners, NEW ending \in {"completed", "blocked", "failed"},
         Finish(p, ending), faults' \in 0 .. MaxFaults
  PROVE  IInv'
<1> DEFINE finished == Finished(p, ending)
<1>1. /\ Imported(p) \in Runs /\ Imported(p).ledger = runner[p].view.ledger
      /\ finished \in Runs /\ finished.ledger = Imported(p).ledger
      /\ finished.revision = Imported(p).revision
  BY FinishedType
<1>2. run' = finished /\ MayPublish(Imported(p), finished)
  BY DEF Finish
<1>3. run \in {Imported(p), finished}
  BY <1>2 DEF MayPublish
<1>4. run' \in Runs /\ run'.revision = run.revision /\ Grows
  BY <1>1, <1>2, <1>3 DEF Grows
<1>5. RunnerFact(p) /\ \A i \in DOMAIN runner[p].view.ledger : runner[p].view.ledger[i] \in filed
  BY OwnType DEF RunnerFact
<1>6. UNCHANGED <<files, revisions>>
  BY DEF Finish
<1>7. CASE finished.status = "pending"
  <2>1. Ready(finished, 0) \in Progress
    BY <1>1, ReadyType, LedgerAssumption
  <2>2. Ready(finished, 0).at = "ready" /\ Ready(finished, 0).view.ledger = runner[p].view.ledger
    BY <1>1 DEF Ready, View
  <2>3. runner'[p] = Ready(finished, 0) => RunnerFact(p)'
    BY <1>5, <1>6, <2>2 DEF RunnerFact, Exchanging, files
  <2>4. runner' = [runner EXCEPT ![p] = Ready(finished, 0)]
    BY <1>7 DEF Finish
  <2>5. QED
    BY <1>4, <1>6, <2>1, <2>3, <2>4, RunStep
<1>8. CASE finished.status # "pending"
  <2>1. runner' = [runner EXCEPT ![p] = Idle]
    BY <1>8 DEF Finish, Leave
  <2>2. QED
    BY <1>4, <1>6, <2>1, IdleType, IdleFact, RunStep
<1>9. QED
  BY <1>7, <1>8

LEMMA DecideKeeps ==
  ASSUME IInv, NEW p \in Runners, Decide(p)
  PROVE  IInv'
<1>1. Ending(p) \in {"completed", "blocked", "failed"}
  BY DEF Ending
<1>2. QED
  BY <1>1, Faults, FinishKeeps DEF Decide

LEMMA ExpansionFailsKeeps ==
  ASSUME IInv, NEW p \in Runners, ExpansionFails(p)
  PROVE  IInv'
  BY Faults, FinishKeeps DEF ExpansionFails

-----------------------------------------------------------------------------
(* The steps that write the files around a request.                        *)

LEMMA EnteredType ==
  ASSUME IInv, NEW p \in Runners, runner[p].attempt # 0
  PROVE  /\ Entered(p) \in Progress
         /\ Entered(p).at \in {"request", "ask", "decide"}
         /\ Entered(p).run = runner[p].run /\ Entered(p).view = runner[p].view
         /\ Entered(p).attempt = runner[p].attempt
         /\ Entered(p).index # 0
         /\ Expanded(runner[p].run.step, runner[p].attempt, Entered(p).round)
         /\ Entered(p).at = "request" => Entered(p).kind = "initial"
<1> DEFINE r == runner[p]
           group == Group(r.view.ledger, r.run.step, r.attempt)
           last == r.view.ledger[Highest(group)]
<1>1. r \in Progress /\ r.view.ledger \in Seq(Records) /\ RunnerFact(p)
  BY OwnType
<1>2. CASE group = {}
  <2> DEFINE r1 == [r EXCEPT !.at = "request", !.index = 1]
             r2 == [r1 EXCEPT !.kind = "initial", !.round = 0]
  <2>1. Entered(p) = r2
    BY <1>2 DEF Entered
  <2>2. r1 \in Progress /\ r1.at = "request" /\ r1.run = r.run /\ r1.view = r.view
        /\ r1.attempt = r.attempt /\ r1.index = 1
    BY <1>1 DEF Progress, Points
  <2> HIDE DEF r1
  <2>3. r2 \in Progress /\ r2.at = "request" /\ r2.run = r.run /\ r2.view = r.view
        /\ r2.attempt = r.attempt /\ r2.index = 1 /\ r2.kind = "initial" /\ r2.round = 0
    BY <2>2 DEF Progress, Kinds
  <2>4. QED
    BY <2>1, <2>3 DEF Expanded
<1>3. CASE group # {}
  <2>1. group \subseteq 1 .. Len(r.view.ledger) /\ Len(r.view.ledger) \in Nat
    BY <1>1 DEF Group
  <2>2. Highest(group) \in group
    BY <1>3, <2>1, HighestOfBounded
  <2>3. /\ last \in Records /\ last.step = r.run.step /\ last.attempt = r.attempt
        /\ last \in filed
    <3>1. /\ Highest(group) \in DOMAIN r.view.ledger
          /\ last.step = r.run.step /\ last.attempt = r.attempt
      BY <2>2 DEF Group
    <3>2. last \in Records
      BY <1>1, <3>1
    <3>3. last \in filed
      BY <1>1, <3>1 DEF RunnerFact
    <3>4. QED
      BY <3>1, <3>2, <3>3
  <2>4. Expanded(last.step, last.attempt, last.round)
    BY <2>3 DEF IInv, FiledOK, FiledFact
  <2>5. /\ last.index \in Nat \ {0} /\ last.kind \in Kinds /\ last.round \in Nat
        /\ last.answer \in Answers \cup {NoAnswer}
    BY <2>3 DEF Records
  <2> DEFINE at == IF last.phase = "request" THEN "ask" ELSE "decide"
             r1 == [r EXCEPT !.at = at, !.index = last.index]
             r2 == [r1 EXCEPT !.kind = last.kind, !.round = last.round]
             r3 == [r2 EXCEPT !.answer = last.answer]
  <2>6. Entered(p) = r3
    BY <1>3 DEF Entered
  <2>7. at \in {"ask", "decide"}
    OBVIOUS
  <2> HIDE DEF last, at
  <2>8. r1 \in Progress /\ r1.at = at /\ r1.run = r.run /\ r1.view = r.view
        /\ r1.attempt = r.attempt /\ r1.index = last.index
    BY <1>1, <2>5, <2>7 DEF Progress, Points
  <2> HIDE DEF r1
  <2>9. r2 \in Progress /\ r2.at = at /\ r2.run = r.run /\ r2.view = r.view
        /\ r2.attempt = r.attempt /\ r2.index = last.index /\ r2.round = last.round
    BY <2>5, <2>8 DEF Progress
  <2> HIDE DEF r2
  <2>10. r3 \in Progress /\ r3.at = at /\ r3.run = r.run /\ r3.view = r.view
         /\ r3.attempt = r.attempt /\ r3.index = last.index /\ r3.round = last.round
    BY <2>5, <2>9 DEF Progress
  <2>11. QED
    BY <2>3, <2>4, <2>5, <2>6, <2>7, <2>10
<1>4. QED
  BY <1>2, <1>3

LEMMA WritePromptKeeps ==
  ASSUME IInv, NEW p \in Runners, WritePrompt(p)
  PROVE  IInv'
<1> DEFINE r == Entered(p)
<1>1. /\ RunnerFact(p) /\ runner[p].at = "marked" /\ runner[p].attempt # 0
      /\ runner[p].attempt \in 0 .. MaxAttempt /\ runner[p].run.step \in Steps
  BY OwnType DEF WritePrompt, RunnerFact
<1>2. UNCHANGED <<run, requests, responses, filed, expansions, revisions, faults>>
  BY DEF WritePrompt
<1>3. /\ r \in Progress
      /\ r.at \in {"request", "ask", "decide"} /\ r.run = runner[p].run /\ r.view = runner[p].view
      /\ r.attempt = runner[p].attempt /\ r.index # 0
      /\ Expanded(runner[p].run.step, runner[p].attempt, r.round)
      /\ r.at = "request" => r.kind = "initial"
  BY <1>1, EnteredType
<1>4. runner' = [runner EXCEPT ![p] = r]
  BY DEF WritePrompt
<1>5. prompts' \subseteq Steps \X (1 .. MaxAttempt)
  <2>1. prompts \subseteq Steps \X (1 .. MaxAttempt)
    BY DEF IInv, TypeOK
  <2>2. runner[p].attempt \in 1 .. MaxAttempt
    BY <1>1, LedgerAssumption
  <2>3. QED
    BY <1>1, <2>1, <2>2 DEF WritePrompt
<1> HIDE DEF r
<1>6. TypeOK' /\ runner'[p] = r /\ \A q \in Runners \ {p} : runner'[q] = runner[q]
  <2>1. /\ run' \in Runs /\ run'.revision = run.revision
        /\ requests' \subseteq Coordinates
        /\ responses' \subseteq [to : Coordinates, answer : Answers]
        /\ filed' \subseteq Records
        /\ expansions' \subseteq Steps \X (1 .. MaxAttempt) \X Nat
        /\ faults' \in 0 .. MaxFaults
    BY <1>2 DEF IInv, TypeOK
  <2>2. QED
    BY <1>2, <1>3, <1>4, <1>5, <2>1, StepType
<1>7. RunnerFact(p)'
  BY <1>1, <1>2, <1>3, <1>6 DEF RunnerFact, Exchanging, Expanded
<1>8. Grows /\ Accretes /\ OneAnswer'
  BY <1>2 DEF Grows, Accretes, IInv, OneAnswer
<1>9. QED
  BY <1>2, <1>6, <1>7, <1>8, StepKeeps

LEMMA ExpandKeeps ==
  ASSUME IInv, NEW p \in Runners, Expand(p)
  PROVE  IInv'
<1> DEFINE r == NextRequest(p, "context", runner[p].round + 1)
           here == <<runner[p].run.step, runner[p].attempt, runner[p].round + 1>>
<1>1. /\ runner[p] \in Progress /\ RunnerFact(p) /\ runner[p].at = "decide"
      /\ runner[p].attempt # 0 /\ runner[p].index # 0
      /\ runner[p].attempt \in 0 .. MaxAttempt /\ runner[p].run.step \in Steps
      /\ runner[p].round \in Nat /\ runner[p].index \in Nat
  BY OwnType DEF Expand, RunnerFact, Exchanging
<1>2. UNCHANGED <<run, requests, responses, filed, prompts, revisions, faults>>
  BY DEF Expand
<1>3. r \in Progress /\ runner' = [runner EXCEPT ![p] = r]
  BY <1>1 DEF Expand, NextRequest, Progress, Points, Kinds
<1>4. /\ r.at = "request" /\ r.run = runner[p].run /\ r.view = runner[p].view
      /\ r.attempt = runner[p].attempt /\ r.index # 0 /\ r.round = runner[p].round + 1
  BY <1>1 DEF NextRequest
<1>5. expansions' = expansions \cup {here}
  BY DEF Expand
<1>6. here \in Steps \X (1 .. MaxAttempt) \X Nat
  BY <1>1, LedgerAssumption
<1>7. ~CapReached(runner[p].view.ledger, runner[p].run.step)
  BY DEF Expand, WantsContext
<1> HIDE DEF r
<1>8. TypeOK' /\ runner'[p] = r /\ \A q \in Runners \ {p} : runner'[q] = runner[q]
  <2>1. /\ run' \in Runs /\ run'.revision = run.revision
        /\ requests' \subseteq Coordinates
        /\ responses' \subseteq [to : Coordinates, answer : Answers]
        /\ filed' \subseteq Records
        /\ prompts' \subseteq Steps \X (1 .. MaxAttempt)
        /\ faults' \in 0 .. MaxFaults
    BY <1>2 DEF IInv, TypeOK
  <2>2. expansions' \subseteq Steps \X (1 .. MaxAttempt) \X Nat
    BY <1>5, <1>6 DEF IInv, TypeOK
  <2>3. QED
    BY <1>2, <1>3, <2>1, <2>2, StepType
<1>9. RunnerFact(p)'
  <2>1. \A i \in DOMAIN r.view.ledger : r.view.ledger[i] \in filed'
    BY <1>1, <1>2, <1>4 DEF RunnerFact
  <2>2. <<r.run.step, r.attempt, r.round>> \in expansions'
    BY <1>4, <1>5
  <2>3. ~CapReached(r.view.ledger, r.run.step)
    BY <1>4, <1>7
  <2>4. QED
    BY <1>1, <1>4, <1>8, <2>1, <2>2, <2>3
       DEF RunnerFact, Exchanging, Expanded, CapReached, Rounds, Retries
<1>10. Grows /\ Accretes /\ OneAnswer'
  BY <1>2, <1>5 DEF Grows, Accretes, IInv, OneAnswer
<1>11. QED
  BY <1>2, <1>8, <1>9, <1>10, StepKeeps

-----------------------------------------------------------------------------
(* The exchange.                                                           *)

LEMMA ExchangingFacts ==
  ASSUME IInv, NEW p \in Runners, runner[p].at \in Exchanging
  PROVE  /\ runner[p].attempt # 0 /\ runner[p].index # 0
         /\ Expanded(runner[p].run.step, runner[p].attempt, runner[p].round)
         /\ \A phase \in Phases, answer \in Answers \cup {NoAnswer} :
              /\ Record(p, phase, answer) \in Records
              /\ Coordinate(Record(p, phase, answer)) = Here(p)
         /\ Here(p) \in Coordinates
<1>1. runner[p].attempt # 0 /\ runner[p].index # 0
  BY OwnType DEF RunnerFact, Exchanging
<1>2. Expanded(runner[p].run.step, runner[p].attempt, runner[p].round)
  BY OwnType DEF RunnerFact
<1>3. QED
  BY <1>1, <1>2, RecordType DEF Phases

LEMMA PublishRequestKeeps ==
  ASSUME IInv, NEW p \in Runners, NEW cut \in 0 .. 3, PublishRequest(p, cut)
  PROVE  IInv' /\ Grows
<1> DEFINE led == run.ledger
<1>0. PICK x : x = Record(p, "request", NoAnswer)
  OBVIOUS
<1>1. /\ runner[p] \in Progress /\ RunnerFact(p) /\ runner[p].at = "request"
      /\ runner[p].at \in Exchanging
  BY OwnType DEF PublishRequest, Exchanging
<1>2. /\ x \in Records /\ Coordinate(x) = Here(p) /\ Here(p) \in Coordinates
      /\ Expanded(runner[p].run.step, runner[p].attempt, runner[p].round)
  BY <1>0, <1>1, ExchangingFacts DEF Phases
<1>3. /\ led = runner[p].view.ledger /\ Links(run, led, x)
      /\ \A y \in filed : Key(y) # Key(x)
  BY <1>0 DEF PublishRequest, MayRequest, SameAuthority
<1>4. /\ x.step = runner[p].run.step /\ x.attempt = runner[p].attempt
      /\ x.round = runner[p].round /\ x.kind = runner[p].kind
      /\ x.phase = "request" /\ x.prev = HeadKey(led)
  BY <1>0, <1>3 DEF Record
<1>5. led \in Seq(Records) /\ run \in Runs /\ \A i \in DOMAIN led : led[i] \in filed
  BY DEF IInv, TypeOK, Runs, LedgerOK
<1>6. IsRetry(x) => ~CapReached(led, x.step)
  BY <1>1, <1>3, <1>4 DEF RunnerFact, IsRetry
<1>7. /\ requests' = IF cut >= 1 THEN requests \cup {Here(p)} ELSE requests
      /\ filed' = IF cut >= 2 THEN filed \cup {x} ELSE filed
      /\ UNCHANGED <<responses, expansions, prompts, revisions>>
  BY <1>0 DEF PublishRequest
<1>8. Accretes
  BY <1>7 DEF Accretes
<1>9. /\ run' \in Runs /\ run'.revision = run.revision
      /\ run'.ledger = IF cut = 3 THEN Append(led, x) ELSE led
  <2>1. CASE cut = 3
    <3>1. run' = [run EXCEPT !.ledger = Append(@, x)] /\ Append(led, x) \in Seq(Records)
      BY <1>0, <1>2, <1>5, <2>1, Appended DEF PublishRequest
    <3>2. QED
      BY <1>5, <2>1, <3>1 DEF Runs
  <2>2. CASE cut # 3
    BY <1>5, <2>2 DEF PublishRequest
  <2>3. QED
    BY <2>1, <2>2
<1>10. Grows
  <2>1. CASE cut = 3
    <3>1. x \in filed'
      BY <1>7, <2>1
    <3>2. Extends(x)
      BY <1>2, <1>3, <1>4, <1>5, <1>6, <1>9, <2>1, <3>1 DEF Extends
    <3>3. QED
      BY <3>1, <3>2 DEF Grows
  <2>2. CASE cut # 3
    BY <1>9, <2>2 DEF Grows
  <2>3. QED
    BY <2>1, <2>2
<1>11. ASSUME cut >= 2 PROVE FiledFact(x)'
  <2>1. Expanded(x.step, x.attempt, x.round)'
    BY <1>2, <1>4, <1>7 DEF Expanded
  <2>2. Coordinate(x) \in requests'
    BY <1>2, <1>7, <1>11
  <2>3. CASE led = << >>
    BY <1>4, <2>1, <2>2, <2>3 DEF FiledFact, Follows, HeadKey
  <2>4. CASE led # << >>
    <3> DEFINE n == Len(led)
    <3>1. n \in DOMAIN led /\ Last(led) = led[n]
      BY <1>5, <2>4, LastOf
    <3>2. Key(led[n]) = x.prev
      BY <1>4, <2>4, <3>1 DEF HeadKey
    <3>3. SubSeq(led, 1, n) = led
      BY <1>5
    <3>4. /\ n \in DOMAIN run'.ledger /\ run'.ledger[n] = led[n]
          /\ SubSeq(run'.ledger, 1, n) = SubSeq(led, 1, n)
      BY <1>10, <3>1, LedgerPrefix
    <3>5. /\ Key(run'.ledger[n]) = x.prev
          /\ x.kind = "context" => ~CapReached(SubSeq(run'.ledger, 1, n), x.step)
      BY <1>4, <1>6, <3>2, <3>3, <3>4 DEF IsRetry
    <3>6. Follows(x)'
      <4>1. \E m \in DOMAIN run'.ledger :
              /\ Key(run'.ledger[m]) = x.prev
              /\ x.kind = "context" => ~CapReached(SubSeq(run'.ledger, 1, m), x.step)
        BY <3>4, <3>5
      <4>2. QED
        BY <4>1 DEF Follows, Key, CapReached, Rounds, Retries
    <3>7. QED
      BY <1>4, <2>1, <2>2, <3>6 DEF FiledFact
  <2>5. QED
    BY <2>3, <2>4
<1>12. filed' = filed \/ (filed' = filed \cup {x} /\ FiledFact(x)')
  BY <1>7, <1>11
<1>13. OneAnswer'
  BY <1>7 DEF IInv, OneAnswer
<1>14. /\ requests' \subseteq Coordinates /\ filed' \subseteq Records
       /\ responses' \subseteq [to : Coordinates, answer : Answers]
       /\ expansions' \subseteq Steps \X (1 .. MaxAttempt) \X Nat
       /\ prompts' \subseteq Steps \X (1 .. MaxAttempt)
  BY <1>2, <1>7 DEF IInv, TypeOK
<1>15. CASE cut = 3
  <2> DEFINE r == [runner[p] EXCEPT !.at = "ask", !.view = View(run')]
  <2>1. runner' = [runner EXCEPT ![p] = r] /\ faults' \in 0 .. MaxFaults
    BY <1>15, Faults DEF PublishRequest
  <2>2. View(run') \in [ledger : Seq(Records), revision : Nat] /\ View(run').ledger = run'.ledger
    BY <1>9, IdleType DEF View
  <2>3. r \in Progress /\ r.at = "ask" /\ r.view = View(run') /\ r.run = runner[p].run
        /\ r.attempt = runner[p].attempt /\ r.index = runner[p].index
        /\ r.round = runner[p].round
    BY <1>1, <2>2 DEF Progress, Points
  <2>4. TypeOK' /\ runner'[p] = r /\ \A q \in Runners \ {p} : runner'[q] = runner[q]
    BY <1>7, <1>9, <1>14, <2>1, <2>3, StepType
  <2>5. LedgerOK'
    BY <1>8, <1>10, GrowthKeepsLedger DEF Accretes
  <2>6. \A i \in DOMAIN r.view.ledger : r.view.ledger[i] \in filed'
    BY <2>2, <2>3, <2>5 DEF LedgerOK
  <2>7. RunnerFact(p)'
    BY <1>1, <1>7, <2>3, <2>4, <2>6 DEF RunnerFact, Exchanging, Expanded
  <2>8. QED
    BY <1>2, <1>3, <1>8, <1>10, <1>12, <1>13, <2>4, <2>7, StepKeeps
<1>16. CASE cut # 3
  <2>1. runner' = [runner EXCEPT ![p] = Idle] /\ faults' \in 0 .. MaxFaults
    BY <1>16, Faults DEF PublishRequest, Leave
  <2>2. TypeOK' /\ runner'[p] = Idle /\ \A q \in Runners \ {p} : runner'[q] = runner[q]
    BY <1>7, <1>9, <1>14, <2>1, IdleType, StepType
  <2>3. RunnerFact(p)'
    BY <2>2, IdleFact
  <2>4. QED
    BY <1>2, <1>3, <1>8, <1>10, <1>12, <1>13, <2>2, <2>3, StepKeeps
<1>17. QED
  BY <1>15, <1>16

LEMMA WriteResponseKeeps ==
  ASSUME IInv, NEW p \in Runners, NEW a \in Answers, WriteResponse(p, a)
  PROVE  IInv'
<1> DEFINE f == ResponseFile(p, a)
           r == [runner[p] EXCEPT !.at = "stage", !.answer = a]
<1>1. /\ runner[p] \in Progress /\ RunnerFact(p) /\ runner[p].at = "call"
      /\ runner[p].at \in Exchanging
  BY OwnType DEF WriteResponse, Exchanging
<1>2. /\ Here(p) \in Coordinates
      /\ Expanded(runner[p].run.step, runner[p].attempt, runner[p].round)
  BY <1>1, ExchangingFacts
<1>3. f \in [to : Coordinates, answer : Answers] /\ f.to = Here(p)
  BY <1>2 DEF ResponseFile
<1>4. UNCHANGED <<run, requests, filed, expansions, prompts, revisions, faults>>
  BY DEF WriteResponse
<1>5. responses' = {g \in responses : g.to # Here(p)} \cup {f}
  BY DEF WriteResponse
<1>6. \A g \in responses : g.to = Here(p) => g = f
  <2>1. CASE Answered(Here(p))
    <3>1. f \in responses
      BY <2>1 DEF WriteResponse, MayRespond
    <3>2. QED
      BY <1>3, <3>1 DEF IInv, OneAnswer
  <2>2. CASE ~Answered(Here(p))
    BY <2>2 DEF Answered
  <2>3. QED
    BY <2>1, <2>2
<1>7. responses \subseteq responses'
  BY <1>5, <1>6
<1>8. OneAnswer'
  <2>1. \A g, h \in responses' : g.to = h.to => g = h
    BY <1>3, <1>5 DEF IInv, OneAnswer
  <2>2. QED
    BY <2>1 DEF OneAnswer
<1>9. runner' = [runner EXCEPT ![p] = r]
  BY DEF WriteResponse
<1>10. r \in Progress /\ r.at = "stage" /\ r.answer = a /\ r.view = runner[p].view
       /\ r.run = runner[p].run /\ r.attempt = runner[p].attempt
       /\ r.index = runner[p].index /\ r.round = runner[p].round
  BY <1>1 DEF Progress, Points
<1>11. TypeOK' /\ runner'[p] = r /\ \A q \in Runners \ {p} : runner'[q] = runner[q]
  <2>1. /\ run' \in Runs /\ run'.revision = run.revision
        /\ requests' \subseteq Coordinates /\ filed' \subseteq Records
        /\ expansions' \subseteq Steps \X (1 .. MaxAttempt) \X Nat
        /\ prompts' \subseteq Steps \X (1 .. MaxAttempt)
        /\ faults' \in 0 .. MaxFaults
    BY <1>4 DEF IInv, TypeOK
  <2>2. responses' \subseteq [to : Coordinates, answer : Answers]
    BY <1>3, <1>5 DEF IInv, TypeOK
  <2>3. QED
    BY <1>4, <1>9, <1>10, <2>1, <2>2, StepType
<1>12. RunnerFact(p)'
  <2>1. Here(p)' = Here(p)
    BY <1>10, <1>11 DEF Here, Record, Coordinate
  <2>2. [to |-> Here(p)', answer |-> a] \in responses'
    BY <1>5, <2>1 DEF ResponseFile
  <2>3. QED
    BY <1>1, <1>4, <1>10, <1>11, <2>2 DEF RunnerFact, Exchanging, Expanded, ResponseFile
<1>13. Grows /\ Accretes
  BY <1>4, <1>7 DEF Grows, Accretes
<1>14. QED
  BY <1>4, <1>8, <1>11, <1>12, <1>13, StepKeeps

LEMMA StageResponseKeeps ==
  ASSUME IInv, NEW p \in Runners, StageResponse(p)
  PROVE  IInv'
<1> DEFINE r == [runner[p] EXCEPT !.at = "bind"]
<1>0. PICK y : y = Response(p)
  OBVIOUS
<1>1. /\ runner[p] \in Progress /\ RunnerFact(p) /\ runner[p].at = "stage"
      /\ runner[p].at \in Exchanging
  BY OwnType DEF StageResponse, Exchanging
<1>2. /\ y \in Records /\ Coordinate(y) = Here(p)
      /\ Expanded(runner[p].run.step, runner[p].attempt, runner[p].round)
  BY <1>0, <1>1, OwnType, ExchangingFacts DEF Response, Phases
<1>3. /\ y.step = runner[p].run.step /\ y.attempt = runner[p].attempt
      /\ y.round = runner[p].round /\ y.phase = "response" /\ y.answer = runner[p].answer
  BY <1>0 DEF Response, Record
<1>4. UNCHANGED <<run, requests, responses, expansions, prompts, revisions, faults>>
  BY DEF StageResponse
<1>5. filed' = filed \cup {y} /\ MayStage(p)
  BY <1>0 DEF StageResponse
<1>6. Grows /\ Accretes /\ OneAnswer'
  BY <1>4, <1>5 DEF Grows, Accretes, IInv, OneAnswer
<1>7. \/ filed' = filed
      \/ filed' = filed \cup {y} /\ FiledFact(y)' /\ \A z \in filed : Key(z) # Key(y)
  <2>1. CASE \E z \in filed : Key(z) = Key(y)
    <3>1. y \in filed
      BY <1>0, <1>5, <2>1 DEF MayStage
    <3>2. QED
      BY <1>5, <3>1
  <2>2. CASE ~\E z \in filed : Key(z) = Key(y)
    <3>1. OpenRequest(p)
      BY <1>0, <1>5, <2>2 DEF MayStage
    <3>2. run.ledger \in Seq(Records)
      BY DEF IInv, TypeOK, Runs
    <3>3. /\ Len(run.ledger) \in DOMAIN run.ledger
          /\ run.ledger[Len(run.ledger)].phase = "request"
          /\ Coordinate(run.ledger[Len(run.ledger)]) = Coordinate(y)
      BY <1>2, <3>1, <3>2, LastOf DEF OpenRequest
    <3>4. [to |-> Coordinate(y), answer |-> y.answer] \in responses
      BY <1>1, <1>2, <1>3 DEF RunnerFact, ResponseFile
    <3>5. AnswersRequest(y)'
      BY <1>4, <3>3, <3>4 DEF AnswersRequest, Coordinate
    <3>6. Expanded(y.step, y.attempt, y.round)'
      BY <1>2, <1>3, <1>4 DEF Expanded
    <3>7. FiledFact(y)'
      BY <1>3, <3>5, <3>6 DEF FiledFact
    <3>8. QED
      BY <1>5, <2>2, <3>7
  <2>3. QED
    BY <2>1, <2>2
<1>8. runner' = [runner EXCEPT ![p] = r]
  BY DEF StageResponse, Goto
<1>9. r \in Progress /\ r.at = "bind" /\ r.answer = runner[p].answer /\ r.view = runner[p].view
      /\ r.run = runner[p].run /\ r.attempt = runner[p].attempt
      /\ r.index = runner[p].index /\ r.round = runner[p].round /\ r.kind = runner[p].kind
  BY <1>1 DEF Progress, Points
<1>10. TypeOK' /\ runner'[p] = r /\ \A q \in Runners \ {p} : runner'[q] = runner[q]
  <2>1. /\ run' \in Runs /\ run'.revision = run.revision
        /\ requests' \subseteq Coordinates
        /\ responses' \subseteq [to : Coordinates, answer : Answers]
        /\ expansions' \subseteq Steps \X (1 .. MaxAttempt) \X Nat
        /\ prompts' \subseteq Steps \X (1 .. MaxAttempt)
        /\ faults' \in 0 .. MaxFaults
    BY <1>4 DEF IInv, TypeOK
  <2>2. filed' \subseteq Records
    BY <1>2, <1>5 DEF IInv, TypeOK
  <2>3. QED
    BY <1>4, <1>8, <1>9, <2>1, <2>2, StepType
<1>11. RunnerFact(p)'
  <2>1. Response(p)' = Response(p)
    BY <1>9, <1>10 DEF Response, Record, HeadKey, Key
  <2>2. \A a : ResponseFile(p, a)' = ResponseFile(p, a)
    BY <1>9, <1>10 DEF ResponseFile, Here, Record, Coordinate
  <2>3. Response(p)' \in filed'
    BY <1>0, <1>5, <2>1
  <2>4. ResponseFile(p, r.answer) \in responses'
    BY <1>1, <1>4, <1>9 DEF RunnerFact
  <2>5. QED
    BY <1>1, <1>4, <1>5, <1>9, <1>10, <2>2, <2>3, <2>4 DEF RunnerFact, Exchanging, Expanded
<1>12. QED
  BY <1>2, <1>6, <1>7, <1>10, <1>11, StepKeeps

LEMMA BindResponseKeeps ==
  ASSUME IInv, NEW p \in Runners, BindResponse(p)
  PROVE  IInv' /\ Grows
<1> DEFINE r == [runner[p] EXCEPT !.at = "decide", !.view = View(run')]
           led == run.ledger
<1>0. PICK y : y = Response(p)
  OBVIOUS
<1>1. /\ runner[p] \in Progress /\ RunnerFact(p) /\ runner[p].at = "bind"
      /\ runner[p].at \in Exchanging
  BY OwnType DEF BindResponse, Exchanging
<1>2. /\ y \in Records /\ y \in filed /\ y.phase = "response"
      /\ y.answer = runner[p].answer
  <2>1. y \in filed
    BY <1>0, <1>1 DEF RunnerFact
  <2>2. QED
    BY <1>0, <2>1 DEF IInv, TypeOK, Response, Record
<1>3. y.answer \in Answers
  <2>1. [to |-> Coordinate(y), answer |-> y.answer] \in responses
    BY <1>2 DEF IInv, FiledOK, FiledFact, AnswersRequest
  <2>2. QED
    BY <2>1 DEF IInv, TypeOK
<1>4. UNCHANGED <<requests, responses, filed, expansions, prompts, revisions, faults>>
  BY DEF BindResponse, files
<1>5. run \in Runs /\ led \in Seq(Records)
  BY DEF IInv, TypeOK, Runs
<1>6. run' \in Runs /\ run'.revision = run.revision /\ Grows
  <2>1. CASE IsHead(y)
    BY <1>0, <1>5, <2>1 DEF BindResponse, Grows
  <2>2. CASE ~IsHead(y)
    <3>1. run' = [run EXCEPT !.ledger = Append(@, y)] /\ Links(run, led, y)
      BY <1>0, <2>2 DEF BindResponse, MayBind
    <3>2. Append(led, y) \in Seq(Records)
      BY <1>2, <1>5, Appended
    <3>3. run' \in Runs /\ run'.revision = run.revision /\ run'.ledger = Append(led, y)
      BY <1>5, <3>1, <3>2 DEF Runs
    <3>4. \A i \in DOMAIN led : led[i] # y
      BY <1>2, <3>1, ResponseIsNew
    <3>5. Extends(y)
      BY <1>2, <1>3, <1>4, <3>1, <3>3, <3>4 DEF Extends, IsRetry
    <3>6. QED
      BY <1>2, <1>4, <3>3, <3>5 DEF Grows
  <2>3. QED
    BY <2>1, <2>2
<1>7. View(run') \in [ledger : Seq(Records), revision : Nat] /\ View(run').ledger = run'.ledger
  BY <1>6, IdleType DEF View
<1>8. /\ r \in Progress /\ r.at = "decide" /\ r.view = View(run') /\ r.run = runner[p].run
      /\ r.attempt = runner[p].attempt /\ r.index = runner[p].index
      /\ r.round = runner[p].round
  BY <1>1, <1>7 DEF Progress, Points
<1>9. \A i \in DOMAIN r.view.ledger : r.view.ledger[i] \in filed'
  <2>1. LedgerOK'
    BY <1>4, <1>6, GrowthKeepsLedger
  <2>2. QED
    BY <1>7, <1>8, <2>1 DEF LedgerOK
<1>10. runner'[p] = r => RunnerFact(p)'
  BY <1>1, <1>4, <1>8, <1>9 DEF RunnerFact, Exchanging, Expanded
<1>11. /\ runner' = [runner EXCEPT ![p] = r] /\ UNCHANGED <<files, revisions>>
       /\ faults' \in 0 .. MaxFaults
  BY Faults DEF BindResponse
<1>12. QED
  BY <1>6, <1>8, <1>10, <1>11, RunStep

-----------------------------------------------------------------------------
(* The invariant.                                                          *)

LEMMA ReviseKeeps ==
  ASSUME IInv, NEW s \in Steps, Revise(s)
  PROVE  IInv'
<1>1. PICK a \in SourceAttempt(s) :
        /\ a < MaxAttempt
        /\ revisions' = Append(revisions, [step |-> s, attempt |-> a + 1, base |-> run.ledger])
  BY DEF Revise
<1>2. UNCHANGED <<requests, responses, filed, expansions, prompts, runner, faults>>
  BY DEF Revise, files
<1>3. run \in Runs /\ run.ledger \in Seq(Records) /\ revisions \in Seq(Revisions)
  BY DEF IInv, TypeOK, Runs
<1>4. a \in 1 .. MaxAttempt
  <2>1. PICK j \in DOMAIN run.ledger : a = run.ledger[j].attempt
    BY <1>1 DEF SourceAttempt, AttemptsOf
  <2>2. run.ledger[j] \in Records
    BY <1>3, <2>1
  <2>3. QED
    BY <2>1, <2>2 DEF Records
<1>5. revisions' \in Seq(Revisions) /\ Len(revisions') \in Nat
  <2>1. a + 1 \in 1 .. MaxAttempt
    BY <1>1, <1>4, LedgerAssumption
  <2>2. [step |-> s, attempt |-> a + 1, base |-> run.ledger] \in Revisions
    BY <1>3, <2>1 DEF Revisions
  <2>3. QED
    BY <1>1, <1>3, <2>2
<1>6. run' \in Runs /\ run'.ledger = run.ledger /\ run'.revision <= Len(revisions')
  <2>1. run' = [run EXCEPT !.step = s, !.status = "pending", !.revision = Len(revisions')]
    BY DEF Revise
  <2> DEFINE r1 == [run EXCEPT !.step = s, !.status = "pending"]
  <2>2. r1 \in Runs /\ r1.ledger = run.ledger
    BY <1>3 DEF Runs
  <2>3. run' = [r1 EXCEPT !.revision = Len(revisions')]
    BY <2>1
  <2> HIDE DEF r1
  <2>4. run' \in Runs /\ run'.ledger = run.ledger /\ run'.revision = Len(revisions')
    BY <1>5, <2>2, <2>3 DEF Runs
  <2>5. QED
    BY <1>5, <2>4
<1>7. Grows /\ Accretes /\ OneAnswer'
  BY <1>2, <1>6 DEF Grows, Accretes, IInv, OneAnswer
<1>8. TypeOK'
  BY <1>2, <1>5, <1>6 DEF IInv, TypeOK
<1>9. LedgerOK' /\ CapsHold'
  BY <1>7, GrowthKeepsLedger DEF Accretes
<1>10. FiledOK'
  BY <1>2, <1>7, FiledStep
<1>11. \A q \in Runners : RunnerFact(q)'
  BY <1>2, <1>7, OthersStay
<1>12. QED
  BY <1>7, <1>8, <1>9, <1>10, <1>11 DEF IInv

\* Every exchange, death and revision keeps the ledger, its evidence and what the
\* runners go by together.
THEOREM IInvInductive ==
  /\ Init => IInv
  /\ IInv /\ [Next]_vars => IInv'
<1>1. ASSUME Init PROVE IInv
  <2>1. TypeOK
    <3>1. runner \in [Runners -> Progress] /\ run \in Runs
      BY <1>1, IdleType DEF Init
    <3>2. run.revision <= Len(revisions) /\ revisions \in Seq(Revisions)
      BY <1>1 DEF Init, Fresh
    <3>3. faults \in 0 .. MaxFaults
      BY <1>1, LedgerAssumption DEF Init
    <3>4. QED
      BY <1>1, <3>1, <3>2, <3>3 DEF Init, TypeOK
  <2>2. \A p \in Runners : RunnerFact(p)
    BY <1>1 DEF Init, RunnerFact, Idle, Ready, View, Fresh, Exchanging
  <2>3. run.ledger = << >>
    BY <1>1 DEF Init, Fresh
  <2>4. LedgerOK /\ OneAnswer
    BY <1>1, <2>3 DEF Init, LedgerOK, IsInjective, OneAnswer
  <2>5. FiledOK
    BY <1>1, FS_EmptySet DEF Init, FiledOK
  <2>6. CapsHold
    <3>1. \A S : Rounds(<< >>, S) = 0
      <4>1. \A S : {i \in Retries(<< >>) : << >>[i].step \in S} = {}
        BY DEF Retries
      <4>2. QED
        BY <4>1, FS_EmptySet DEF Rounds
    <3>2. QED
      BY <2>3, <3>1, LedgerAssumption DEF CapsHold
  <2>7. QED
    BY <2>1, <2>2, <2>4, <2>5, <2>6 DEF IInv
<1>2. ASSUME IInv, [Next]_vars PROVE IInv'
  <2>1. CASE UNCHANGED vars
    <3>1. UNCHANGED <<run, requests, responses, filed, expansions, prompts, revisions, runner,
                      faults>>
      BY <2>1 DEF vars, files
    <3>2. Grows /\ Accretes /\ OneAnswer'
      BY <1>2, <3>1 DEF Grows, Accretes, IInv, OneAnswer
    <3>3. TypeOK'
      BY <1>2, <3>1 DEF IInv, TypeOK
    <3>4. LedgerOK' /\ CapsHold'
      BY <1>2, <3>2, GrowthKeepsLedger DEF Accretes
    <3>5. FiledOK' /\ \A q \in Runners : RunnerFact(q)'
      BY <1>2, <3>1, <3>2, FiledStep, OthersStay
    <3>6. QED
      BY <3>2, <3>3, <3>4, <3>5 DEF IInv
  <2>2. ASSUME NEW p \in Runners, Step(p) PROVE IInv'
    <3>1. CASE Exchange(p)
      BY <1>2, <3>1, PublishRequestKeeps, AskKeeps, WriteResponseKeeps, StageResponseKeeps,
         BindResponseKeeps DEF Exchange
    <3>2. CASE ~Exchange(p)
      BY <1>2, <2>2, <3>2, ResumeKeeps, RerunKeeps, MarkRunningKeeps, WritePromptKeeps,
         RepairKeeps, ExpandKeeps, DecideKeeps, ExpansionFailsKeeps, RefuseKeeps, DieKeeps
         DEF Step
    <3>3. QED
      BY <3>1, <3>2
  <2>3. ASSUME NEW s \in Steps, Revise(s) PROVE IInv'
    BY <1>2, <2>3, ReviseKeeps
  <2>4. QED
    BY <1>2, <2>1, <2>2, <2>3 DEF Next
<1>3. QED
  BY <1>1, <1>2

\* They stay together in every reachable state.
THEOREM IInvHolds == Spec => []IInv
  BY IInvInductive, PTL DEF Spec

\* The ledger, its files and the runners have their types.
THEOREM TypeHolds == Spec => []TypeOK
<1>1. IInv => TypeOK
  BY DEF IInv
<1>2. QED
  BY <1>1, IInvHolds, PTL

\* Whatever run.json names is on disk: the record, its request, its expansion, and the
\* one answer it was classified by.
THEOREM EvidenceHolds == Spec => []EvidenceIsBound
<1>1. ASSUME IInv PROVE EvidenceIsBound
  <2>1. SUFFICES ASSUME NEW i \in DOMAIN run.ledger, NEW x, x = run.ledger[i]
                 PROVE  /\ x \in filed /\ Coordinate(x) \in requests
                        /\ x.round > 0 => <<x.step, x.attempt, x.round>> \in expansions
                        /\ x.phase = "response" =>
                             {f \in responses : f.to = Coordinate(x)} =
                               {[to |-> Coordinate(x), answer |-> x.answer]}
    BY DEF EvidenceIsBound
  <2>2. x \in filed /\ FiledFact(x) /\ x \in Records
    BY <1>1, <2>1 DEF IInv, LedgerOK, FiledOK, TypeOK
  <2>3. CASE x.phase = "request"
    BY <2>2, <2>3 DEF FiledFact, Expanded
  <2>4. CASE x.phase = "response"
    <3>1. PICK j \in DOMAIN run.ledger :
            run.ledger[j].phase = "request" /\ Coordinate(run.ledger[j]) = Coordinate(x)
      BY <2>2, <2>4 DEF FiledFact, AnswersRequest
    <3>2. Coordinate(x) \in requests
      BY <1>1, <3>1 DEF IInv, LedgerOK, FiledOK, FiledFact
    <3>3. [to |-> Coordinate(x), answer |-> x.answer] \in responses
      BY <2>2, <2>4 DEF FiledFact, AnswersRequest
    <3>4. {f \in responses : f.to = Coordinate(x)} = {[to |-> Coordinate(x), answer |-> x.answer]}
      BY <1>1, <3>3 DEF IInv, OneAnswer
    <3>5. QED
      BY <2>2, <2>4, <3>2, <3>4 DEF FiledFact, Expanded
  <2>5. QED
    BY <2>2, <2>3, <2>4 DEF Records, Phases
<1>2. QED
  BY <1>1, IInvHolds, PTL

\* However often a step is revised, neither it nor the run takes more context rounds
\* than it may.
THEOREM CapsStand == Spec => []CapsHold
<1>1. IInv => CapsHold
  BY DEF IInv
<1>2. QED
  BY <1>1, IInvHolds, PTL

\* Whoever takes which step, the ledger is left alone or extended by one record.
LEMMA StepGrows ==
  ASSUME IInv, [Next]_vars
  PROVE  Grows
<1>1. ASSUME run'.ledger = run.ledger PROVE Grows
  BY <1>1 DEF Grows
<1>2. CASE UNCHANGED run
  BY <1>1, <1>2
<1>3. ASSUME NEW s \in Steps, Revise(s) PROVE Grows
  <2>1. run \in Runs
    BY DEF IInv, TypeOK
  <2>2. run'.ledger = run.ledger
    BY <1>3, <2>1 DEF Revise, Runs
  <2>3. QED
    BY <1>1, <2>2
<1>4. ASSUME NEW p \in Runners, Step(p), run' # run PROVE Grows
  <2>1. ASSUME NEW led \in Reconciled, NEW a, Prepare(p, led, a), UNCHANGED filed PROVE Grows
    <3>1. run'.ledger = led
      BY <2>1 DEF Prepare, IInv, TypeOK, Runs
    <3>2. QED
      BY <2>1, <3>1, AdoptionGrows
  <2>2. CASE Resume(p) \/ Rerun(p)
    BY <2>1, <2>2 DEF Resume, Rerun, files
  <2>3. CASE MarkRunning(p)
    <3>1. Marked(p).ledger = runner[p].run.ledger /\ Marked(p).status = "running"
      BY OwnType DEF Marked, Runs
    <3>2. QED
      BY <1>1, <2>3, <3>1 DEF MarkRunning, MayPublish
  <2>4. ASSUME NEW ending \in {"completed", "blocked", "failed"}, Finish(p, ending) PROVE Grows
    BY <1>1, <2>4, FinishedType DEF Finish, MayPublish
  <2>5. CASE Decide(p) \/ ExpansionFails(p)
    <3>1. Ending(p) \in {"completed", "blocked", "failed"}
      BY DEF Ending
    <3>2. QED
      BY <2>4, <2>5, <3>1 DEF Decide, ExpansionFails
  <2>6. CASE \E cut \in 0 .. 3 : PublishRequest(p, cut)
    BY <2>6, PublishRequestKeeps
  <2>7. CASE BindResponse(p)
    BY <2>7, BindResponseKeeps
  <2>8. QED
    BY <1>4, <2>2, <2>3, <2>5, <2>6, <2>7
       DEF Step, Exchange, WritePrompt, Ask, WriteResponse, StageResponse, Repair, Expand,
           Refuse, Die
<1>5. QED
  BY <1>2, <1>3, <1>4 DEF Next, vars

-----------------------------------------------------------------------------
(* No question is put twice.                                               *)

LEMMA OnlyAskCalls ==
  ASSUME IInv, NEW p \in Runners, NEW q \in Runners, Step(q),
         runner'[p].at = "call", runner[p].at # "call"
  PROVE  q = p /\ Ask(p)
<1>1. runner \in [Runners -> Progress]
  BY DEF IInv, TypeOK
<1>2. ASSUME NEW r, r.at # "call", runner' = [runner EXCEPT ![q] = r] PROVE FALSE
  BY <1>1, <1>2
<1>3. Idle.at # "call" /\ \A rn, a : Ready(rn, a).at # "call"
  BY DEF Idle, Ready
<1>4. ~Resume(q) /\ ~Rerun(q)
  <2>1. \A led, a : ~Prepare(q, led, a)
    BY <1>2, <1>3 DEF Prepare
  <2>2. QED
    BY <2>1 DEF Resume, Rerun
<1>5. ~Refuse(q) /\ ~Die(q) /\ \A ending : ~Finish(q, ending)
  BY <1>2, <1>3 DEF Refuse, Die, Finish, Leave
<1>6. ~Repair(q) /\ ~Expand(q)
  <2>1. \A kind, round : NextRequest(q, kind, round).at # "call"
    BY DEF NextRequest
  <2>2. QED
    BY <1>2, <2>1 DEF Repair, Expand
<1>7. ~WritePrompt(q)
  <2>1. ASSUME WritePrompt(q) PROVE Entered(q).at # "call"
    <3>1. runner[q].attempt # 0
      BY <2>1, OwnType DEF WritePrompt, RunnerFact
    <3>2. QED
      BY <3>1, EnteredType
  <2>2. QED
    BY <1>2, <2>1 DEF WritePrompt
<1>8. ~MarkRunning(q) /\ \A a : ~WriteResponse(q, a)
  <2>1. runner[q] \in Progress
    BY <1>1
  <2>2. [runner[q] EXCEPT !.at = "marked", !.run = Marked(q), !.attempt = NextAttempt(q)].at # "call"
    BY <2>1 DEF Progress
  <2>3. \A a : [runner[q] EXCEPT !.at = "stage", !.answer = a].at # "call"
    BY <2>1 DEF Progress
  <2>4. QED
    BY <1>2, <2>2, <2>3 DEF MarkRunning, WriteResponse
<1>9. ~StageResponse(q) /\ ~BindResponse(q)
  <2>1. runner[q] \in Progress
    BY <1>1
  <2>2. [runner[q] EXCEPT !.at = "bind"].at # "call"
    BY <2>1 DEF Progress
  <2>3. [runner[q] EXCEPT !.at = "decide", !.view = View(run')].at # "call"
    BY <2>1 DEF Progress
  <2>4. QED
    BY <1>2, <2>2, <2>3 DEF StageResponse, BindResponse, Goto
<1>10. \A cut \in 0 .. 3 : ~PublishRequest(q, cut)
  <2>1. runner[q] \in Progress
    BY <1>1
  <2>2. [runner[q] EXCEPT !.at = "ask", !.view = View(run')].at # "call"
    BY <2>1 DEF Progress
  <2>3. QED
    BY <1>2, <1>3, <2>2 DEF PublishRequest, Leave
<1>11. Ask(q)
  BY <1>4, <1>5, <1>6, <1>7, <1>8, <1>9, <1>10 DEF Step, Exchange, Decide, ExpansionFails
<1>12. q = p
  BY <1>1, <1>11 DEF Ask, Goto
<1>13. QED
  BY <1>11, <1>12

\* A runner calls its provider only for a request that has no response file yet,
\* whichever process would have written it.
THEOREM NeverAskedAgain == Spec => AskedUnanswered
<1>1. ASSUME IInv, [Next]_vars, NEW p \in Runners, runner'[p].at = "call", runner[p].at # "call"
      PROVE  ~Answered(Here(p))
  <2>1. runner' # runner
    BY <1>1
  <2>2. PICK q \in Runners : Step(q)
    BY <1>1, <2>1 DEF Next, Revise, vars
  <2>3. Ask(p)
    BY <1>1, <2>2, OnlyAskCalls
  <2>4. QED
    BY <2>3 DEF Ask, MayAsk
<1>2. ASSUME IInv, [Next]_vars
      PROVE  [\A p \in Runners :
                runner'[p].at = "call" /\ runner[p].at # "call" => ~Answered(Here(p))]_vars
  BY <1>1, <1>2
<1>3. QED
  BY <1>2, IInvHolds, PTL DEF Spec, AskedUnanswered

-----------------------------------------------------------------------------
(* The ledger as a log of questions and answers.                           *)

LEMMA Halves ==
  ASSUME NEW k \in Nat
  PROVE  /\ (2 * k + 1) \div 2 = k /\ (2 * k + 1 + 1) \div 2 = k + 1
         /\ (2 * k + 1 + 1 + 1) \div 2 = k + 1
         /\ (2 * k) % 2 # 1 /\ (2 * k + 1) % 2 = 1
  OBVIOUS

LEMMA EvenOrOdd ==
  ASSUME NEW n \in Nat
  PROVE  \E k \in Nat : n = 2 * k \/ n = 2 * k + 1
<1>1. n \div 2 \in Nat /\ (n = 2 * (n \div 2) \/ n = 2 * (n \div 2) + 1)
  OBVIOUS
<1>2. QED
  BY <1>1

Question(led, n) ==
  [step |-> led[2 * n - 1].step, attempt |-> led[2 * n - 1].attempt,
   answer |-> IF 2 * n <= Len(led) THEN led[2 * n].answer ELSE "open"]

\* The log of a ledger with k questions, the last of them answered or not.
LEMMA QuestionsAre ==
  ASSUME NEW led \in Seq(Records), NEW k \in Nat,
         Len(led) = 2 * k \/ (k > 0 /\ Len(led) = 2 * k - 1)
  PROVE  /\ Questions(led) = [n \in 1 .. k |-> Question(led, n)]
         /\ Len(Questions(led)) = k /\ DOMAIN Questions(led) = 1 .. k
         /\ k = 0 => Questions(led) = << >>
         /\ k > 0 => Questions(led) # << >> /\ Last(Questions(led)) = Question(led, k)
<1>1. (Len(led) + 1) \div 2 = k
  <2>1. CASE Len(led) = 2 * k
    BY <2>1, Halves
  <2>2. CASE k > 0 /\ Len(led) = 2 * k - 1
    <3>1. Len(led) + 1 = 2 * k /\ (2 * k) \div 2 = k
      BY <2>2
    <3>2. QED
      BY <3>1
  <2>3. QED
    BY <2>1, <2>2
<1>2. Questions(led) = [n \in 1 .. k |-> Question(led, n)]
  BY <1>1 DEF Questions, Question
<1>3. Len(Questions(led)) = k /\ DOMAIN Questions(led) = 1 .. k
  BY <1>2
<1>4. k = 0 => Questions(led) = << >>
  BY <1>2
<1>5. k > 0 => Questions(led) # << >> /\ Last(Questions(led)) = Question(led, k)
  BY <1>2, <1>3 DEF Last
<1>6. QED
  BY <1>2, <1>3, <1>4, <1>5

LEMMA LogLast == \A log : Log!Last(log) = Last(log)
  BY DEF Log!Last, Last

LEMMA ResponsesAnswer ==
  ASSUME IInv, NEW x \in filed, x.phase = "response"
  PROVE  x.answer \in Answers /\ x.answer # "open"
<1>1. x.answer \in Answers
  BY DEF IInv, TypeOK, FiledOK, FiledFact, AnswersRequest
<1>2. QED
  BY <1>1, LedgerAssumption

\* A response at the head of the ledger answers the last question.
LEMMA ResponseAnswers ==
  ASSUME IInv, IInv', NEW x \in filed', Extends(x), x.phase = "response"
  PROVE  \E answer \in Answers : Log!Answer(answer)
<1> DEFINE led == run.ledger
           led1 == run'.ledger
<1>1. led \in Seq(Records) /\ x \in Records /\ led1 = Append(led, x) /\ led1 \in Seq(Records)
  BY Appended DEF IInv, TypeOK, Runs, Extends
<1>2. led # << >> /\ Len(led) \in DOMAIN led /\ led[Len(led)].phase = "request"
  BY <1>1, LastOf DEF Extends, Links
<1>3. Len(led) % 2 = 1
  BY <1>2 DEF IInv, LedgerOK
<1>4. PICK k \in Nat : Len(led) = 2 * k + 1
  <2>1. PICK k \in Nat : Len(led) = 2 * k \/ Len(led) = 2 * k + 1
    <3>1. Len(led) \in Nat
      BY <1>1
    <3>2. QED
      BY <3>1, EvenOrOdd
  <2>2. QED
    BY <1>3, <2>1, Halves
<1> DEFINE m == k + 1
<1>5. m \in Nat /\ m > 0 /\ Len(led) = 2 * m - 1 /\ Len(led1) = 2 * m
  BY <1>1, <1>4, SMTT(30)
<1>6. /\ Questions(led) = [n \in 1 .. m |-> Question(led, n)]
      /\ Len(Questions(led)) = m /\ DOMAIN Questions(led) = 1 .. m
      /\ Questions(led) # << >> /\ Last(Questions(led)) = Question(led, m)
      /\ Questions(led1) = [n \in 1 .. m |-> Question(led1, n)]
  <2> HIDE DEF m
  <2>1. QED
    BY <1>1, <1>5, QuestionsAre
<1>7. Question(led, m).answer = "open"
  BY <1>5 DEF Question
<1>8. \A i \in DOMAIN led : led1[i] = led[i]
  BY <1>1, Appended
<1>9. led1[2 * m] = x
  BY <1>1, <1>5, Appended
<1>10. \A n \in 1 .. m : n # m => Question(led1, n) = Question(led, n)
  <2>1. SUFFICES ASSUME NEW n \in 1 .. m, n # m PROVE Question(led1, n) = Question(led, n)
    OBVIOUS
  <2>2. /\ 2 * n - 1 \in 1 .. Len(led) /\ 2 * n \in 1 .. Len(led)
        /\ 2 * n <= Len(led) /\ 2 * n <= Len(led1)
    BY <1>5, <2>1
  <2>3. QED
    BY <1>1, <1>8, <2>2 DEF Question
<1>11. Question(led1, m) = [Question(led, m) EXCEPT !.answer = x.answer]
  <2>1. 2 * m - 1 \in DOMAIN led /\ 2 * m <= Len(led1)
    BY <1>1, <1>5
  <2>2. QED
    BY <1>8, <1>9, <2>1 DEF Question
<1>12. Questions(led1) = [Questions(led) EXCEPT ![m].answer = x.answer]
  <2>1. [Questions(led) EXCEPT ![m].answer = x.answer] =
          [n \in 1 .. m |-> IF n = m THEN [Question(led, m) EXCEPT !.answer = x.answer]
                           ELSE Question(led, n)]
    BY <1>5, <1>6
  <2>2. \A n \in 1 .. m :
          Question(led1, n) = IF n = m THEN [Question(led, m) EXCEPT !.answer = x.answer]
                              ELSE Question(led, n)
    BY <1>10, <1>11
  <2>3. [n \in 1 .. m |-> Question(led1, n)] =
          [n \in 1 .. m |-> IF n = m THEN [Question(led, m) EXCEPT !.answer = x.answer]
                           ELSE Question(led, n)]
    BY <2>2
  <2>4. Questions(led1) = [n \in 1 .. m |-> Question(led1, n)]
    BY <1>6
  <2> HIDE DEF m
  <2>5. QED
    BY <2>1, <2>3, <2>4, Zenon
<1>13. x.answer \in Answers
  BY ResponsesAnswer DEF Extends
<1>14. QED
  <2>1. ~Log!Settled
    BY <1>6, <1>7, LogLast DEF Log!Settled
  <2>2. Questions(run.ledger)' = [Questions(run.ledger) EXCEPT
                                    ![Len(Questions(run.ledger))].answer = x.answer]
    BY <1>6, <1>12 DEF Questions
  <2>3. QED
    BY <1>13, <2>1, <2>2 DEF Log!Answer

\* A request at the head of the ledger follows from the last answer or opens an attempt.
LEMMA RequestAsks ==
  ASSUME IInv, IInv', NEW x \in filed', Extends(x), x.phase = "request"
  PROVE  \E s \in Steps, a \in 1 .. MaxAttempt : Log!Ask(s, a)
<1> DEFINE led == run.ledger
           led1 == run'.ledger
<1>1. led \in Seq(Records) /\ x \in Records /\ led1 = Append(led, x) /\ led1 \in Seq(Records)
  BY Appended DEF IInv, TypeOK, Runs, Extends
<1>2. led # << >> => /\ Len(led) \in DOMAIN led /\ Last(led) = led[Len(led)]
                     /\ led[Len(led)].phase = "response"
  BY <1>1, LastOf DEF Extends, Links, FollowsResponse, StartsGroup
<1>3. PICK k \in Nat : Len(led) = 2 * k
  <2>1. PICK k \in Nat : Len(led) = 2 * k \/ Len(led) = 2 * k + 1
    <3>1. Len(led) \in Nat
      BY <1>1
    <3>2. QED
      BY <3>1, EvenOrOdd
  <2>2. CASE Len(led) = 2 * k + 1
    <3>1. led # << >>
      BY <2>2
    <3>2. Len(led) % 2 # 1
      BY <1>2, <3>1 DEF IInv, LedgerOK
    <3>3. QED
      BY <2>2, <3>2, Halves
  <2>3. QED
    BY <2>1, <2>2
<1> DEFINE m == k + 1
           q == [step |-> x.step, attempt |-> x.attempt, answer |-> "open"]
<1>4. m \in Nat /\ m > 0 /\ Len(led1) = 2 * m - 1
  BY <1>1, <1>3
<1>5. /\ Questions(led) = [n \in 1 .. k |-> Question(led, n)]
      /\ Len(Questions(led)) = k /\ DOMAIN Questions(led) = 1 .. k
      /\ k = 0 => Questions(led) = << >>
      /\ k > 0 => Questions(led) # << >> /\ Last(Questions(led)) = Question(led, k)
  BY <1>1, <1>3, QuestionsAre
<1>6. Questions(led1) = [n \in 1 .. m |-> Question(led1, n)]
  <2> HIDE DEF m
  <2>1. QED
    BY <1>1, <1>4, QuestionsAre
<1>7. \A i \in DOMAIN led : led1[i] = led[i]
  BY <1>1, Appended
<1>8. led1[2 * m - 1] = x
  <2>1. 2 * m - 1 = Len(led) + 1
    BY <1>3
  <2>2. QED
    BY <1>1, <2>1, Appended
<1>9. \A n \in 1 .. k : /\ 2 * n - 1 \in DOMAIN led /\ 2 * n \in DOMAIN led
                        /\ 2 * n <= Len(led) /\ 2 * n <= Len(led1)
  BY <1>1, <1>3, <1>4
<1>10. \A n \in 1 .. k : Question(led1, n) = Question(led, n)
  BY <1>7, <1>9 DEF Question
<1>11. Question(led1, m) = q
  <2>1. ~(2 * m <= Len(led1))
    BY <1>4
  <2>2. QED
    BY <1>8, <2>1 DEF Question
<1>12. Questions(led1) = Append(Questions(led), q)
  BY <1>5, <1>6, <1>10, <1>11
<1>13. k > 0 => /\ led # << >> /\ Last(led) = led[2 * k] /\ led[2 * k].phase = "response"
                /\ Question(led, k).answer = led[2 * k].answer
                /\ led[2 * k].step = led[2 * k - 1].step
                /\ led[2 * k].attempt = led[2 * k - 1].attempt
  <2>1. SUFFICES ASSUME k > 0
                 PROVE  /\ led # << >> /\ Last(led) = led[2 * k] /\ led[2 * k].phase = "response"
                        /\ Question(led, k).answer = led[2 * k].answer
                        /\ led[2 * k].step = led[2 * k - 1].step
                        /\ led[2 * k].attempt = led[2 * k - 1].attempt
    OBVIOUS
  <2>2. led # << >>
    BY <1>3, <2>1
  <2>3. Coordinate(led[2 * k]) = Coordinate(led[2 * k - 1])
    BY <1>2, <1>3, <2>2 DEF IInv, LedgerOK
  <2>4. QED
    BY <1>2, <1>3, <2>2, <2>3 DEF Question, Coordinate
<1>14. Log!Settled
  <2>1. CASE k = 0
    BY <1>5, <2>1 DEF Log!Settled
  <2>2. CASE k > 0
    <3>1. led[2 * k] \in filed
      BY <1>9, <2>2 DEF IInv, LedgerOK
    <3>2. Last(Questions(led)).answer # "open"
      BY <1>5, <1>13, <2>2, <3>1, ResponsesAnswer
    <3>3. QED
      BY <3>2, LogLast DEF Log!Settled
  <2>3. QED
    BY <2>1, <2>2
<1>15. Log!Continues(x.step, x.attempt) \/ Log!Opens(x.step, x.attempt)
  <2>1. CASE led = << >>
    <3>1. k = 0
      BY <1>3, <2>1
    <3>2. QED
      BY <1>5, <3>1 DEF Log!Opens
  <2>2. CASE led # << >> /\ Last(led).step = x.step /\ Last(led).attempt = x.attempt
    <3>1. k > 0
      BY <1>1, <1>2, <1>3, <2>2
    <3>2. Last(led).answer \in {"context", "malformed"}
      BY <2>2, LedgerAssumption DEF Extends, Links, FollowsResponse
    <3>3. /\ Last(Questions(led)).step = x.step /\ Last(Questions(led)).attempt = x.attempt
          /\ Last(Questions(led)).answer = Last(led).answer
      BY <1>5, <1>13, <2>2, <3>1 DEF Question
    <3>4. QED
      BY <1>5, <3>1, <3>2, <3>3, LogLast DEF Log!Continues
  <2>3. CASE led # << >> /\ ~(Last(led).step = x.step /\ Last(led).attempt = x.attempt)
    <3>1. x.attempt = LastAttempt(led, x.step) + 1
      BY <2>3 DEF Extends, Links, StartsGroup
    <3>2. MaxAttempt \in Nat /\ \A i \in DOMAIN led : led[i].attempt \in 1 .. MaxAttempt
      <4>1. \A i \in DOMAIN led : led[i] \in Records
        BY <1>1
      <4>2. QED
        BY <4>1, LedgerAssumption DEF Records
    <3>3. AttemptsOf(led, x.step) \subseteq 1 .. MaxAttempt
      BY <3>2 DEF AttemptsOf
    <3>4. /\ LastAttempt(led, x.step) \in 0 .. MaxAttempt
          /\ \A a \in AttemptsOf(led, x.step) : a <= LastAttempt(led, x.step)
      BY <3>2, <3>3, HighestOfBounded DEF LastAttempt
    <3>5. \A i \in DOMAIN led : led[i].step = x.step => led[i].attempt < x.attempt
      BY <3>1, <3>2, <3>4 DEF AttemptsOf
    <3>6. \A n \in 1 .. k : Question(led, n).step = x.step => Question(led, n).attempt < x.attempt
      BY <1>9, <3>5 DEF Question
    <3>7. QED
      BY <1>5, <3>6 DEF Log!Opens
  <2>4. QED
    BY <2>1, <2>2, <2>3
<1>16. x.step \in Steps /\ x.attempt \in 1 .. MaxAttempt
  BY <1>1 DEF Records
<1>17. Log!Ask(x.step, x.attempt)
  BY <1>12, <1>14, <1>15 DEF Log!Ask, Questions
<1>18. QED
  BY <1>16, <1>17

\* What any number of runners write, from whichever copy of run.json and wherever they
\* die, is a log of questions with one answer each that is only ever extended.
THEOREM ImplementsExchangeLog == Spec => IsExchangeLog
<1>1. ASSUME Init PROVE Log!Init
  <2>1. run.ledger = << >> /\ << >> \in Seq(Records) /\ Len(<< >>) = 2 * 0
    BY <1>1 DEF Init, Fresh
  <2>2. Questions(run.ledger) = << >>
    BY <2>1, QuestionsAre
  <2>3. QED
    BY <2>2 DEF Log!Init
<1>2. ASSUME IInv, IInv', [Next]_vars PROVE [Log!Next]_(Questions(run.ledger))
  <2>1. Grows
    BY <1>2, StepGrows
  <2>2. CASE run'.ledger = run.ledger
    BY <2>2 DEF Questions
  <2>3. ASSUME NEW x \in filed', Extends(x) PROVE Log!Next
    <3>1. x.phase = "request" \/ x.phase = "response"
      BY <2>3 DEF Extends, Records, Phases
    <3>2. QED
      BY <1>2, <2>3, <3>1, RequestAsks, ResponseAnswers DEF Log!Next
  <2>4. QED
    BY <2>1, <2>2, <2>3 DEF Grows
<1>3. QED
  BY <1>1, <1>2, IInvHolds, PTL DEF Spec, IsExchangeLog, Log!Spec

-----------------------------------------------------------------------------
(***************************************************************************)
(* A run passes its steps by their answers, whoever publishes which        *)
(* transition from which copy of run.json, and across revisions.           *)
(***************************************************************************)

-----------------------------------------------------------------------------
(* The last record of a step.                                              *)

LEMMA HighestAtEnd ==
  ASSUME NEW N \in Nat, NEW S, S \subseteq 1 .. N, N \in S
  PROVE  Highest(S) = N
<1>1. Highest(S) \in 1 .. N /\ N <= Highest(S)
  BY HighestOfBounded
<1>2. QED
  BY <1>1

LEMMA HeadOfLedger ==
  ASSUME IInv
  PROVE  /\ run \in Runs /\ run.ledger \in Seq(Records)
         /\ run.ledger # << >> => /\ Len(run.ledger) \in DOMAIN run.ledger
                                  /\ Last(run.ledger) = run.ledger[Len(run.ledger)]
                                  /\ Last(run.ledger) \in Records
                                  /\ Last(run.ledger) \in filed
<1>1. run \in Runs /\ run.ledger \in Seq(Records)
  BY DEF IInv, TypeOK, Runs
<1>2. QED
  BY <1>1, LastOf DEF IInv, LedgerOK

\* A step whose last record is the last of the ledger has ended if that approves.
LEMMA EndedAtHead ==
  ASSUME NEW led \in Seq(Records), led # << >>
  PROVE  Ended(led, Last(led).step) <=>
           Last(led).phase = "response" /\ Last(led).answer = "advance"
<1> DEFINE here == {i \in DOMAIN led : led[i].step = Last(led).step}
<1>1. Len(led) \in DOMAIN led /\ Last(led) = led[Len(led)] /\ DOMAIN led = 1 .. Len(led)
      /\ Len(led) \in Nat
  BY LastOf
<1>2. Highest(here) = Len(led) /\ here # {}
  BY <1>1, HighestAtEnd
<1>3. QED
  BY <1>1, <1>2 DEF Ended

LEMMA EndedOfAppend ==
  ASSUME NEW led \in Seq(Records), NEW x \in Records, NEW s, s # x.step
  PROVE  Ended(Append(led, x), s) <=> Ended(led, s)
<1> DEFINE led1 == Append(led, x)
           here == {i \in DOMAIN led : led[i].step = s}
           here1 == {i \in DOMAIN led1 : led1[i].step = s}
<1>1. /\ DOMAIN led = 1 .. Len(led) /\ DOMAIN led1 = 1 .. Len(led) + 1
      /\ \A i \in DOMAIN led : led1[i] = led[i]
      /\ led1[Len(led) + 1] = x /\ Len(led) \in Nat
  BY Appended
<1>2. here1 = here
  BY <1>1
<1>3. here # {} => Highest(here) \in DOMAIN led
  BY <1>1, HighestOfBounded
<1>4. here # {} => led1[Highest(here)] = led[Highest(here)]
  BY <1>1, <1>3
<1>5. QED
  BY <1>2, <1>4 DEF Ended

-----------------------------------------------------------------------------
(* The run.                                                                *)

\* Nothing is added to a step the run is past.
LEMMA ExtendsForward ==
  ASSUME IInv, PInv, NEW x, Extends(x)
  PROVE  x \in Records /\ run.step <= x.step
<1>0. PICK led, s, t : led = run.ledger /\ s = run.step /\ t = x.step
  OBVIOUS
<1>1. x \in Records /\ led \in Seq(Records) /\ Links(run, led, x)
  BY <1>0, HeadOfLedger DEF Extends
<1>2. s \in Nat \ {0} /\ t \in Nat \ {0} /\ s \in Steps
  <2>1. s \in Steps /\ t \in Steps
    BY <1>0, <1>1, HeadOfLedger DEF Records, Runs
  <2>2. QED
    BY <2>1, LedgerAssumption DEF Steps
<1>3. CASE led = << >>
  <2>1. s = 1
    BY <1>0, <1>3 DEF PInv, StepOK
  <2>2. QED
    BY <1>0, <1>1, <1>2, <2>1
<1>4. CASE led # << >>
  <2>0. PICK last, u : last = Last(led) /\ u = last.step
    OBVIOUS
  <2>1. last \in Records /\ u \in Steps /\ u \in Nat
    <3>1. last \in Records
      BY <1>0, <1>4, <2>0, HeadOfLedger
    <3>2. u \in Steps
      BY <2>0, <3>1 DEF Records
    <3>3. QED
      BY <3>1, <3>2, LedgerAssumption DEF Steps
  <2>2. s <= u + 1
    BY <1>0, <1>4, <2>0 DEF PInv, StepOK
  <2>3. u < s => last.phase = "response" /\ last.answer = "advance"
    <3>1. ASSUME u < s PROVE Ended(led, u)
      BY <1>0, <2>1, <3>1 DEF PInv, ProgressIsLedgered
    <3>2. QED
      BY <1>1, <1>4, <2>0, <3>1, EndedAtHead
  <2>4. CASE x.phase = "response"
    <3>1. u = t /\ last.phase = "request"
      BY <1>0, <1>1, <2>0, <2>4 DEF Links, Coordinate
    <3>2. ~(u < s)
      BY <2>3, <3>1
    <3>3. s <= t
      BY <1>2, <2>1, <3>1, <3>2
    <3>4. QED
      BY <1>0, <1>1, <3>3
  <2>5. CASE x.phase # "response" /\ u = t /\ last.attempt = x.attempt
    <3>1. FollowsResponse(led, x)
      BY <1>0, <1>1, <1>4, <2>0, <2>5 DEF Links
    <3>2. last.answer # "advance"
      BY <2>0, <3>1 DEF FollowsResponse
    <3>3. s <= t
      BY <1>2, <2>1, <2>3, <2>5, <3>2
    <3>4. QED
      BY <1>0, <1>1, <3>3
  <2>6. CASE x.phase # "response" /\ ~(u = t /\ last.attempt = x.attempt)
    <3>1. StartsGroup(run, led, x)
      BY <1>0, <1>1, <1>4, <2>0, <2>6 DEF Links
    <3>2. t = s \/ t = u + 1
      BY <1>0, <2>0, <3>1 DEF StartsGroup
    <3>3. s <= t
      BY <1>2, <2>1, <2>2, <3>2
    <3>4. QED
      BY <1>0, <1>1, <3>3
  <2>7. QED
    BY <2>4, <2>5, <2>6
<1>5. QED
  BY <1>3, <1>4

RunPart == ProgressIsLedgered /\ StepOK

\* What RunPart' says of the next run, in terms of its fields.
LEMMA RunPartOf ==
  ASSUME NEW led, run'.ledger = led,
         \A s \in Steps : s < run'.step \/ run'.status = "review" => Ended(led, s),
         IF led = << >> THEN run'.step = 1 ELSE run'.step <= Last(led).step + 1,
         run'.status = "review" => run'.step = LastStep
  PROVE  RunPart'
<1>1. ProgressIsLedgered'
  BY DEF ProgressIsLedgered
<1>2. StepOK'
  BY DEF StepOK
<1>3. QED
  BY <1>1, <1>2 DEF RunPart

\* The run grows by a record, or is only marked.
LEMMA GrowthKeepsRun ==
  ASSUME IInv, PInv, Grows, run'.step = run.step,
         run'.status # "review" \/ run'.status = run.status,
         run.status = "review" => run'.ledger = run.ledger
  PROVE  RunPart'
<1>0. PICK led : led = run.ledger
  OBVIOUS
<1>1. /\ \A s \in Steps : s < run.step \/ run.status = "review" => Ended(led, s)
      /\ IF led = << >> THEN run.step = 1 ELSE run.step <= Last(led).step + 1
      /\ run.status = "review" => run.step = LastStep
  BY <1>0 DEF PInv, ProgressIsLedgered, StepOK
<1>2. CASE run'.ledger = run.ledger
  BY <1>0, <1>1, <1>2, RunPartOf
<1>3. ASSUME run'.ledger # run.ledger PROVE RunPart'
  <2>1. PICK x \in filed' : Extends(x)
    BY <1>3 DEF Grows
  <2>2. PICK t, u : t = run.step /\ u = x.step
    OBVIOUS
  <2>3. x \in Records /\ t <= u /\ led \in Seq(Records)
    BY <1>0, <2>1, <2>2, ExtendsForward, HeadOfLedger
  <2>4. t \in Nat /\ u \in Nat
    BY <2>2, <2>3, HeadOfLedger, LedgerAssumption DEF Records, Runs, Steps
  <2>5. PICK grown : grown = Append(led, x)
    OBVIOUS
  <2>6. run'.ledger = grown
    BY <1>0, <2>1, <2>5 DEF Extends
  <2>7. grown # << >> /\ Last(grown) = x
    BY <2>3, <2>5, Appended DEF Last
  <2>8. run'.status # "review" /\ run.status # "review"
    BY <1>3
  <2>9. \A s \in Steps : s < t => Ended(grown, s)
    <3>1. SUFFICES ASSUME NEW s \in Steps, s < t PROVE Ended(grown, s)
      OBVIOUS
    <3>2. s # u
      BY <2>3, <2>4, <3>1, LedgerAssumption DEF Steps
    <3>3. Ended(led, s)
      BY <1>1, <2>2, <3>1
    <3>4. QED
      BY <2>2, <2>3, <2>5, <3>2, <3>3, EndedOfAppend
  <2>10. t <= u + 1
    BY <2>3, <2>4
  <2>11. QED
    BY <2>2, <2>6, <2>7, <2>8, <2>9, <2>10, RunPartOf
<1>4. QED
  BY <1>2, <1>3

\* The run is finished with the step of the last record.
LEMMA AdvanceKeepsRun ==
  ASSUME IInv, PInv, run'.ledger = run.ledger, run.ledger # << >>,
         Last(run.ledger).step = run.step,
         Last(run.ledger).phase = "response", Last(run.ledger).answer = "advance",
         \/ run'.step = run.step + 1 /\ run'.status # "review"
         \/ run'.step = run.step /\ run.step = LastStep
  PROVE  RunPart'
<1>0. PICK led, t : led = run.ledger /\ t = run.step
  OBVIOUS
<1>1. led \in Seq(Records) /\ t \in Nat /\ LastStep \in Nat
  BY <1>0, HeadOfLedger, LedgerAssumption DEF Runs, Steps
<1>2. Ended(led, t)
  BY <1>0, <1>1, EndedAtHead
<1>3. \A s \in Steps : s <= t => Ended(led, s)
  <2>1. SUFFICES ASSUME NEW s \in Steps, s <= t, s # t PROVE Ended(led, s)
    BY <1>2
  <2>2. s < t
    BY <1>1, <2>1, LedgerAssumption DEF Steps
  <2>3. QED
    BY <1>0, <2>2 DEF PInv, ProgressIsLedgered
<1>4. \A s \in Steps : s < run'.step \/ run'.status = "review" => s <= t
  <2>1. \A s \in Steps : s \in Nat /\ s <= LastStep
    BY LedgerAssumption DEF Steps
  <2>2. CASE run'.step = t + 1 /\ run'.status # "review"
    BY <1>1, <2>1, <2>2
  <2>3. CASE run'.step = t /\ t = LastStep
    BY <1>1, <2>1, <2>3
  <2>4. QED
    BY <1>0, <2>2, <2>3
<1>5. run'.step <= t + 1 /\ (run'.status = "review" => run'.step = LastStep)
  BY <1>0, <1>1
<1>6. QED
  BY <1>0, <1>3, <1>4, <1>5, RunPartOf

-----------------------------------------------------------------------------
(* What every step leaves standing.                                        *)

LEMMA RunTypes ==
  ASSUME IInv
  PROVE  /\ run.step \in Steps /\ run.step \in Nat /\ run.revision \in Nat
         /\ Len(revisions) \in Nat /\ run.revision <= Len(revisions)
         /\ \A x \in filed : x \in Records /\ x.step \in Nat /\ x.attempt \in 1 .. MaxAttempt
         /\ \A p \in Runners : /\ runner[p].view.revision \in Nat
                               /\ runner[p].run.step \in Nat
<1>1. run \in Runs /\ run.revision <= Len(revisions) /\ Len(revisions) \in Nat
  BY DEF IInv, TypeOK
<1>2. Steps \subseteq Nat
  BY LedgerAssumption DEF Steps
<1>3. \A x \in filed : x \in Records /\ x.step \in Steps /\ x.attempt \in 1 .. MaxAttempt
  BY DEF IInv, TypeOK, Records
<1>4. \A p \in Runners : runner[p].view.revision \in Nat /\ runner[p].run.step \in Steps
  BY OwnType DEF Progress
<1>5. QED
  BY <1>1, <1>2, <1>3, <1>4 DEF Runs

LEMMA OthersContinue ==
  ASSUME IInv, IInv', NEW q \in Runners, ContinuesFact(q), runner'[q] = runner[q],
         prompts \subseteq prompts', Len(revisions) <= Len(revisions'),
         \/ run'.revision = run.revision /\ run.step <= run'.step
         \/ run'.revision > Len(revisions)
  PROVE  ContinuesFact(q)'
<1>0. PICK r : r = runner[q]
  OBVIOUS
<1>1. PICK n, t : n = r.view.revision /\ t = r.run.step
  OBVIOUS
<1>2. /\ n \in Nat /\ t \in Nat /\ Len(revisions) \in Nat /\ Len(revisions') \in Nat
      /\ run.step \in Nat /\ run'.step \in Nat /\ run'.revision \in Nat
  <2>1. n \in Nat /\ t \in Nat /\ Len(revisions) \in Nat /\ run.step \in Nat
    BY <1>0, <1>1, RunTypes
  <2>2. run'.step \in Nat /\ run'.revision \in Nat /\ Len(revisions') \in Nat
    <3>1. run' \in Runs /\ revisions' \in Seq(Revisions)
      BY DEF IInv, TypeOK
    <3>2. QED
      BY <3>1, LedgerAssumption DEF Runs, Steps
  <2>3. QED
    BY <2>1, <2>2
<1>3. n <= Len(revisions)
  BY <1>0, <1>1 DEF ContinuesFact
<1>4. n <= Len(revisions')
  BY <1>2, <1>3
<1>5. n = run'.revision => n = run.revision /\ run.step <= run'.step
  BY <1>2, <1>3
<1>6. /\ r.at \in {"ready", "marked"} \/ (r.at = "request" /\ r.kind = "initial")
      /\ n = run'.revision
      => t <= run'.step
  <2>1. /\ r.at \in {"ready", "marked"} \/ (r.at = "request" /\ r.kind = "initial")
        /\ n = run.revision
        => t <= run.step
    BY <1>0, <1>1 DEF ContinuesFact
  <2>2. QED
    BY <1>2, <1>5, <2>1
<1>7. r.at \in Exchanging => <<r.run.step, r.attempt>> \in prompts'
  BY <1>0 DEF ContinuesFact
<1>8. /\ r.at \in {"ready", "marked"} /\ r.attempt # 0 =>
           \/ Group(r.view.ledger, r.run.step, r.attempt) = {}
           \/ Len(r.view.ledger) \in Group(r.view.ledger, r.run.step, r.attempt)
      /\ r.at = "decide" =>
           /\ r.view.ledger # << >>
           /\ Last(r.view.ledger).step = r.run.step /\ Last(r.view.ledger).phase = "response"
           /\ Last(r.view.ledger).answer = r.answer
  BY <1>0 DEF ContinuesFact
<1>9. runner'[q] = r
  BY <1>0
<1>10. QED
  BY <1>1, <1>4, <1>6, <1>7, <1>8, <1>9 DEF ContinuesFact

\* What is left to show of a step of one runner.
LEMMA StepLeads ==
  ASSUME IInv, PInv, IInv', NEW p \in Runners, RunPart',
         run.step <= run'.step, run'.revision = run.revision, UNCHANGED revisions,
         prompts \subseteq prompts',
         \A x \in filed' : x \in filed \/ ReachedFact(x)',
         \A q \in Runners \ {p} : runner'[q] = runner[q],
         ContinuesFact(p)'
  PROVE  PInv'
<1>1. \A x \in filed' : ReachedFact(x)'
  <2>1. SUFFICES ASSUME NEW x \in filed PROVE ReachedFact(x)'
    OBVIOUS
  <2>2. ReachedFact(x)
    BY DEF PInv
  <2>3. x.step \in Nat /\ run.step \in Nat /\ run'.step \in Nat /\ Development \in Nat
    <3>1. run' \in Runs
      BY DEF IInv, TypeOK
    <3>2. QED
      BY <3>1, RunTypes, LedgerAssumption DEF Runs, Steps
  <2>4. x.step <= run'.step \/ x.step <= Development
    BY <2>2, <2>3 DEF ReachedFact
  <2>5. QED
    BY <2>2, <2>4 DEF ReachedFact
<1>2. (\A i \in DOMAIN revisions : RevisedFact(revisions[i]))'
  BY DEF PInv, RevisedFact
<1>3. \A q \in Runners : ContinuesFact(q)'
  <2>1. SUFFICES ASSUME NEW q \in Runners \ {p} PROVE ContinuesFact(q)'
    OBVIOUS
  <2>2. ContinuesFact(q) /\ Len(revisions) <= Len(revisions')
    BY RunTypes DEF PInv
  <2>3. QED
    BY <2>2, OthersContinue
<1>4. QED
  BY <1>1, <1>2, <1>3 DEF PInv, RunPart

\* A step that leaves run.json, the records and the revisions as they are.
LEMMA RunnerLeads ==
  ASSUME IInv, PInv, IInv', NEW p \in Runners, UNCHANGED <<run, filed, revisions>>,
         prompts \subseteq prompts',
         \A q \in Runners \ {p} : runner'[q] = runner[q],
         ContinuesFact(p)'
  PROVE  PInv'
<1>1. RunPart'
  BY GrowthKeepsRun DEF Grows
<1>2. run.step <= run'.step
  BY RunTypes
<1>3. QED
  BY <1>1, <1>2, StepLeads

\* Every record of a ledger whose records are filed is of an attempt that is prompted.
LEMMA FreshAttempt ==
  ASSUME IInv, PInv, NEW led, \A i \in DOMAIN led : led[i] \in filed, NEW s
  PROVE  Group(led, s, LastPrompt(s) + 1) = {}
<1> DEFINE S == {a \in 1 .. MaxAttempt : <<s, a>> \in prompts}
<1>1. SUFFICES ASSUME NEW i \in DOMAIN led, led[i].step = s,
                      led[i].attempt = LastPrompt(s) + 1
               PROVE  FALSE
  BY DEF Group
<1>2. PICK x, a : x = led[i] /\ x \in filed /\ a = x.attempt
  OBVIOUS
<1>3. a \in 1 .. MaxAttempt
  BY <1>2, RunTypes
<1>4. <<x.step, x.attempt>> \in prompts
  BY <1>2 DEF PInv, ReachedFact
<1>5. a \in S
  BY <1>1, <1>2, <1>3, <1>4
<1>6. a <= Highest(S) /\ Highest(S) \in 0 .. MaxAttempt
  BY <1>5, HighestOfBounded, LedgerAssumption
<1>7. a = Highest(S) + 1
  BY <1>1, <1>2 DEF LastPrompt
<1>8. QED
  BY <1>3, <1>6, <1>7

LEMMA AttemptsAreBelow ==
  ASSUME NEW led \in Seq(Records), NEW s
  PROVE  /\ LastAttempt(led, s) \in 0 .. MaxAttempt
         /\ \A i \in DOMAIN led : led[i].step = s => led[i].attempt <= LastAttempt(led, s)
<1> DEFINE S == AttemptsOf(led, s)
<1>1. \A i \in DOMAIN led : led[i] \in Records
  OBVIOUS
<1>2. S \subseteq 1 .. MaxAttempt
  BY <1>1 DEF AttemptsOf, Records
<1>3. Highest(S) \in 0 .. MaxAttempt /\ (S # {} => \A m \in S : m <= Highest(S))
  BY <1>2, HighestOfBounded, LedgerAssumption
<1>4. \A i \in DOMAIN led : led[i].step = s => led[i].attempt \in S
  BY DEF AttemptsOf
<1>5. QED
  BY <1>3, <1>4 DEF LastAttempt

LEMMA IdleContinues ==
  ASSUME IInv', NEW p \in Runners, runner'[p] = Idle
  PROVE  ContinuesFact(p)'
<1>1. Idle.at = "idle" /\ Idle.view.revision = 0
  BY DEF Idle, Ready, View, Fresh
<1>2. 0 <= Len(revisions')
  <2>1. revisions' \in Seq(Revisions)
    BY DEF IInv, TypeOK
  <2>2. QED
    BY <2>1
<1>3. QED
  BY <1>1, <1>2 DEF ContinuesFact, Exchanging

-----------------------------------------------------------------------------
(* The steps of a runner.                                                  *)

LEMMA IdleLeads ==
  ASSUME IInv, PInv, IInv', NEW p \in Runners, UNCHANGED <<run, files, revisions>>, Leave(p)
  PROVE  PInv'
<1>1. runner'[p] = Idle /\ \A q \in Runners \ {p} : runner'[q] = runner[q]
  BY DEF Leave, IInv, TypeOK
<1>2. ContinuesFact(p)'
  BY <1>1, IdleContinues
<1>3. QED
  BY <1>1, <1>2, RunnerLeads DEF files

\* Steps of an exchange that has begun.
LEMMA ExchangeLeads ==
  ASSUME IInv, PInv, IInv', NEW p \in Runners, NEW r, runner' = [runner EXCEPT ![p] = r],
         UNCHANGED <<run, filed, prompts, revisions>>,
         runner[p].at \in Exchanging,
         r.at \in {"request", "ask", "call", "stage", "bind"},
         r.at = "request" => r.kind # "initial",
         r.run = runner[p].run, r.view = runner[p].view, r.attempt = runner[p].attempt
  PROVE  PInv'
<1>1. runner'[p] = r /\ \A q \in Runners \ {p} : runner'[q] = runner[q]
  BY DEF IInv, TypeOK
<1>2. ContinuesFact(p)
  BY DEF PInv
<1>3. ContinuesFact(p)'
  BY <1>1, <1>2 DEF ContinuesFact
<1>4. QED
  BY <1>1, <1>3, RunnerLeads

LEMMA AskLeads ==
  ASSUME IInv, PInv, IInv', NEW p \in Runners, Ask(p)
  PROVE  PInv'
<1>0. PICK r : r = [runner[p] EXCEPT !.at = "call"]
  OBVIOUS
<1>1. runner[p] \in Progress /\ runner[p].at = "ask"
  BY OwnType DEF Ask
<1>2. /\ r.at = "call" /\ r.run = runner[p].run /\ r.view = runner[p].view
      /\ r.attempt = runner[p].attempt
  BY <1>0, <1>1 DEF Progress
<1>3. runner' = [runner EXCEPT ![p] = r]
  BY <1>0 DEF Ask, Goto
<1>4. UNCHANGED <<run, filed, prompts, revisions>>
  BY DEF Ask, files
<1>5. QED
  BY <1>1, <1>2, <1>3, <1>4, ExchangeLeads DEF Exchanging

LEMMA WriteResponseLeads ==
  ASSUME IInv, PInv, IInv', NEW p \in Runners, NEW a \in Answers, WriteResponse(p, a)
  PROVE  PInv'
<1>0. PICK r : r = [runner[p] EXCEPT !.at = "stage", !.answer = a]
  OBVIOUS
<1>1. runner[p] \in Progress /\ runner[p].at = "call"
  BY OwnType DEF WriteResponse
<1>2. /\ r.at = "stage" /\ r.run = runner[p].run /\ r.view = runner[p].view
      /\ r.attempt = runner[p].attempt
  BY <1>0, <1>1 DEF Progress
<1>3. runner' = [runner EXCEPT ![p] = r]
  BY <1>0 DEF WriteResponse
<1>4. UNCHANGED <<run, filed, prompts, revisions>>
  BY DEF WriteResponse
<1>5. QED
  BY <1>1, <1>2, <1>3, <1>4, ExchangeLeads DEF Exchanging

LEMMA NextRequestLeads ==
  ASSUME IInv, PInv, IInv', NEW p \in Runners, Repair(p) \/ Expand(p)
  PROVE  PInv'
<1>0. PICK r : r = IF Repair(p) THEN NextRequest(p, "repair", runner[p].round)
                   ELSE NextRequest(p, "context", runner[p].round + 1)
  OBVIOUS
<1>1. runner[p].at = "decide"
  BY DEF Repair, Expand
<1>2. /\ r.at = "request" /\ r.kind # "initial" /\ r.run = runner[p].run
      /\ r.view = runner[p].view /\ r.attempt = runner[p].attempt
  BY <1>0 DEF NextRequest
<1>3. runner' = [runner EXCEPT ![p] = r]
  BY <1>0 DEF Repair, Expand
<1>4. UNCHANGED <<run, filed, prompts, revisions>>
  BY DEF Repair, Expand, files
<1>5. QED
  BY <1>1, <1>2, <1>3, <1>4, ExchangeLeads DEF Exchanging

\* A staged response is of the attempt of the request at the head.
LEMMA StageResponseLeads ==
  ASSUME IInv, PInv, IInv', NEW p \in Runners, StageResponse(p)
  PROVE  PInv'
<1>0. PICK r, y : r = [runner[p] EXCEPT !.at = "bind"] /\ y = Response(p)
  OBVIOUS
<1>1. runner[p] \in Progress /\ runner[p].at = "stage" /\ runner[p].at \in Exchanging
  BY OwnType DEF StageResponse, Exchanging
<1>2. /\ r.at = "bind" /\ r.run = runner[p].run /\ r.view = runner[p].view
      /\ r.attempt = runner[p].attempt
  BY <1>0, <1>1 DEF Progress
<1>3. runner' = [runner EXCEPT ![p] = r]
  BY <1>0 DEF StageResponse, Goto
<1>4. runner'[p] = r /\ \A q \in Runners \ {p} : runner'[q] = runner[q]
  BY <1>3 DEF IInv, TypeOK
<1>5. UNCHANGED <<run, prompts, revisions>> /\ filed' = filed \cup {y}
  BY <1>0 DEF StageResponse
<1>6. ContinuesFact(p)'
  <2>1. ContinuesFact(p)
    BY DEF PInv
  <2>2. QED
    BY <1>1, <1>2, <1>4, <1>5, <2>1 DEF ContinuesFact
<1>7. y \in filed \/ ReachedFact(y)'
  <2>1. SUFFICES ASSUME y \notin filed PROVE ReachedFact(y)'
    OBVIOUS
  <2>2. OpenRequest(p)
    BY <1>0, <2>1 DEF StageResponse, MayStage
  <2>3. PICK x \in filed : x = Last(run.ledger) /\ Coordinate(x) = Here(p)
    BY <2>2, HeadOfLedger DEF OpenRequest
  <2>4. x.step = y.step /\ x.attempt = y.attempt /\ y.phase = "response"
    BY <1>0, <2>3 DEF Here, Coordinate, Response, Record
  <2>5. ReachedFact(x)
    BY DEF PInv
  <2>6. QED
    BY <1>5, <2>4, <2>5 DEF ReachedFact
<1>8. RunPart' /\ run.step <= run'.step /\ run'.revision = run.revision
  BY <1>5, GrowthKeepsRun, RunTypes DEF Grows
<1>9. QED
  BY <1>4, <1>5, <1>6, <1>7, <1>8, StepLeads

\* Where the attempt of a runner is the last of the ledger it saw, it goes on with the
\* last record.
LEMMA EnteredIs ==
  ASSUME IInv, NEW p \in Runners, runner[p].attempt # 0,
         \/ Group(runner[p].view.ledger, runner[p].run.step, runner[p].attempt) = {}
         \/ Len(runner[p].view.ledger)
              \in Group(runner[p].view.ledger, runner[p].run.step, runner[p].attempt)
  PROVE  Entered(p).at = "decide" =>
           /\ runner[p].view.ledger # << >>
           /\ Last(runner[p].view.ledger).step = runner[p].run.step
           /\ Last(runner[p].view.ledger).phase = "response"
           /\ Last(runner[p].view.ledger).answer = Entered(p).answer
<1>0. PICK r, led, group : /\ r = runner[p] /\ led = r.view.ledger
                           /\ group = Group(led, r.run.step, r.attempt)
  OBVIOUS
<1>1. r \in Progress /\ led \in Seq(Records)
  BY <1>0, OwnType
<1>2. CASE group = {}
  <2>1. Entered(p).at = "request"
    BY <1>0, <1>1, <1>2 DEF Entered, Progress
  <2>2. QED
    BY <2>1
<1>3. CASE Len(led) \in group
  <2>1. group \subseteq 1 .. Len(led) /\ Len(led) \in Nat
    BY <1>0, <1>1 DEF Group
  <2>2. Highest(group) = Len(led)
    BY <1>3, <2>1, HighestAtEnd
  <2>3. led # << >> /\ Len(led) \in DOMAIN led /\ led[Len(led)].step = r.run.step
    BY <1>0, <1>1, <1>3, <2>1 DEF Group
  <2>4. PICK last : last = Last(led)
    OBVIOUS
  <2>5. last = led[Len(led)] /\ last \in Records
    BY <1>1, <2>3, <2>4, LastOf
  <2>6. Entered(p) = [r EXCEPT !.at = IF last.phase = "request" THEN "ask" ELSE "decide",
                               !.index = last.index, !.kind = last.kind,
                               !.round = last.round, !.answer = last.answer]
    BY <1>0, <1>3, <2>2, <2>5 DEF Entered
  <2>7. /\ Entered(p).at = IF last.phase = "request" THEN "ask" ELSE "decide"
        /\ Entered(p).answer = last.answer
    BY <1>1, <2>6 DEF Progress
  <2>8. last.phase \in Phases
    BY <2>5 DEF Records
  <2>9. QED
    BY <1>0, <2>3, <2>4, <2>5, <2>7, <2>8 DEF Phases
<1>4. QED
  BY <1>0, <1>2, <1>3

LEMMA WritePromptLeads ==
  ASSUME IInv, PInv, IInv', NEW p \in Runners, WritePrompt(p)
  PROVE  PInv'
<1>0. PICK r, e : r = runner[p] /\ e = Entered(p)
  OBVIOUS
<1>1. r.at = "marked" /\ r.attempt # 0
  BY <1>0, OwnType DEF WritePrompt, RunnerFact
<1>2. /\ e.at \in {"request", "ask", "decide"} /\ e.run = r.run /\ e.view = r.view
      /\ e.attempt = r.attempt
  BY <1>0, <1>1, EnteredType
<1>3. runner'[p] = e /\ \A q \in Runners \ {p} : runner'[q] = runner[q]
  BY <1>0 DEF WritePrompt, IInv, TypeOK
<1>4. UNCHANGED <<run, filed, revisions>> /\ prompts \subseteq prompts'
      /\ <<r.run.step, r.attempt>> \in prompts'
  BY <1>0 DEF WritePrompt
<1>5. /\ r.view.revision <= Len(revisions)
      /\ \/ Group(r.view.ledger, r.run.step, r.attempt) = {}
         \/ Len(r.view.ledger) \in Group(r.view.ledger, r.run.step, r.attempt)
      /\ r.view.revision = run.revision => r.run.step <= run.step
  BY <1>0, <1>1 DEF PInv, ContinuesFact
<1>6. e.at = "decide" =>
        /\ r.view.ledger # << >>
        /\ Last(r.view.ledger).step = r.run.step /\ Last(r.view.ledger).phase = "response"
        /\ Last(r.view.ledger).answer = e.answer
  BY <1>0, <1>1, <1>5, EnteredIs
<1>7. ContinuesFact(p)'
  BY <1>2, <1>3, <1>4, <1>5, <1>6 DEF ContinuesFact
<1>8. QED
  BY <1>3, <1>4, <1>7, RunnerLeads

LEMMA MarkRunningLeads ==
  ASSUME IInv, PInv, IInv', NEW p \in Runners, MarkRunning(p)
  PROVE  PInv'
<1>0. PICK r, m, a : r = runner[p] /\ m = Marked(p) /\ a = NextAttempt(p)
  OBVIOUS
<1>1. r.at = "ready" /\ r \in Progress /\ r.run \in Runs
  BY <1>0, OwnType DEF MarkRunning
<1>2. /\ m.ledger = r.run.ledger /\ m.revision = r.run.revision
      /\ m.status = "running" /\ m.step = r.run.step
  BY <1>0, <1>1 DEF Marked, Runs
<1>3. run' = m /\ run \in {r.run, m}
  BY <1>0, <1>2 DEF MarkRunning, MayPublish
<1>4. UNCHANGED <<filed, prompts, revisions>>
  BY DEF MarkRunning, files
<1>5. PICK e : e = [r EXCEPT !.at = "marked", !.run = m, !.attempt = a]
  OBVIOUS
<1>6. e.at = "marked" /\ e.view = r.view /\ e.run = m /\ e.attempt = a
  BY <1>1, <1>5 DEF Progress
<1>7. runner'[p] = e /\ \A q \in Runners \ {p} : runner'[q] = runner[q]
  BY <1>0, <1>5 DEF MarkRunning, IInv, TypeOK
<1>8. \/ Group(r.view.ledger, m.step, a) = {}
      \/ Len(r.view.ledger) \in Group(r.view.ledger, m.step, a)
  <2>1. CASE r.attempt # 0
    <3>1. a = r.attempt
      BY <1>0, <2>1 DEF NextAttempt
    <3>2. QED
      BY <1>0, <1>1, <1>2, <2>1, <3>1 DEF PInv, ContinuesFact
  <2>2. CASE r.attempt = 0
    <3>1. a = LastPrompt(m.step) + 1
      BY <1>0, <1>2, <2>2 DEF NextAttempt
    <3>2. \A i \in DOMAIN r.view.ledger : r.view.ledger[i] \in filed
      BY <1>0, OwnType DEF RunnerFact
    <3>3. QED
      BY <3>1, <3>2, FreshAttempt
  <2>3. QED
    BY <2>1, <2>2
<1>9. RunPart' /\ run.step <= run'.step /\ run'.revision = run.revision
  BY <1>2, <1>3, GrowthKeepsRun, RunTypes DEF Grows
<1>10. r.view.revision <= Len(revisions)
  BY <1>0 DEF PInv, ContinuesFact
<1>11. m.step <= run'.step
  BY <1>2, <1>3, RunTypes
<1>12. ContinuesFact(p)'
  BY <1>4, <1>6, <1>7, <1>8, <1>10, <1>11 DEF ContinuesFact, Exchanging
<1>13. QED
  BY <1>4, <1>7, <1>9, <1>12, StepLeads

LEMMA PrepareLeads ==
  ASSUME IInv, PInv, IInv', NEW p \in Runners, NEW led \in Reconciled, NEW a,
         Runnable, Prepare(p, led, a), UNCHANGED <<files, revisions>>,
         \/ Group(led, run.step, a) = {}
         \/ Len(led) \in Group(led, run.step, a)
  PROVE  PInv'
<1>0. PICK l, n, t : l = led /\ n = run.revision /\ t = run.step
  OBVIOUS
<1>1. run \in Runs
  BY DEF IInv, TypeOK
<1>2. /\ run'.ledger = l /\ run'.step = t /\ run'.status = run.status
      /\ run'.revision = n
  BY <1>0, <1>1 DEF Prepare, Runs
<1>3. Accretes /\ UNCHANGED <<filed, prompts>>
  BY DEF Accretes, files
<1>4. Grows
  BY <1>0, <1>2, <1>3, AdoptionGrows DEF Accretes
<1>5. run.status # "review"
  BY DEF Runnable
<1>6. RunPart' /\ run.step <= run'.step
  BY <1>0, <1>2, <1>4, <1>5, GrowthKeepsRun, RunTypes
<1>7. PICK r : r = Ready(run', a)
  OBVIOUS
<1>8. /\ r.at = "ready" /\ r.run.step = t /\ r.view.ledger = l /\ r.view.revision = n
      /\ r.attempt = a
  BY <1>2, <1>7 DEF Ready, View
<1>9. runner'[p] = r /\ \A q \in Runners \ {p} : runner'[q] = runner[q]
  BY <1>7 DEF Prepare, IInv, TypeOK
<1>10. n <= Len(revisions) /\ t <= run'.step
  BY <1>0, <1>2, RunTypes
<1>11. Group(l, t, a) = {} \/ Len(l) \in Group(l, t, a)
  BY <1>0
<1>12. ContinuesFact(p)'
  BY <1>8, <1>9, <1>10, <1>11 DEF ContinuesFact, Exchanging
<1>13. QED
  BY <1>0, <1>2, <1>3, <1>6, <1>9, <1>12, StepLeads

LEMMA ReconciledIsFiled ==
  ASSUME IInv, NEW led \in Reconciled
  PROVE  led \in Seq(Records) /\ \A i \in DOMAIN led : led[i] \in filed
<1>1. run.ledger \in Seq(Records) /\ \A i \in DOMAIN run.ledger : run.ledger[i] \in filed
  BY HeadOfLedger DEF IInv, LedgerOK
<1>2. CASE led = run.ledger
  BY <1>1, <1>2
<1>3. ASSUME NEW x \in Unreferenced, led = Append(run.ledger, x)
      PROVE  led \in Seq(Records) /\ \A i \in DOMAIN led : led[i] \in filed
  <2>1. x \in filed /\ x \in Records
    BY DEF Unreferenced, IInv, TypeOK
  <2>2. QED
    BY <1>1, <1>3, <2>1, Appended
<1>4. QED
  BY <1>2, <1>3, ReconciledIs

\* The attempt a resumed runner goes on with is new, or the last of the ledger.
LEMMA ResumeLeads ==
  ASSUME IInv, PInv, IInv', NEW p \in Runners, Resume(p)
  PROVE  PInv'
<1>1. PICK led \in Reconciled : \E a \in ResumedAttempt(led) : Prepare(p, led, a)
  BY DEF Resume
<1>2. PICK a \in ResumedAttempt(led) : Prepare(p, led, a)
  BY <1>1
<1>3. Runnable /\ UNCHANGED <<files, revisions>>
  BY DEF Resume
<1>4. led \in Seq(Records) /\ \A i \in DOMAIN led : led[i] \in filed
  BY ReconciledIsFiled
<1>5. \/ a = LastAttempt(led, run.step) + 1
      \/ led # << >> /\ Last(led).step = run.step /\ a = Last(led).attempt
      \/ a = LastPrompt(run.step) + 1
  BY <1>2 DEF ResumedAttempt
<1>6. \/ Group(led, run.step, a) = {}
      \/ Len(led) \in Group(led, run.step, a)
  <2>1. CASE a = LastAttempt(led, run.step) + 1
    <3>1. PICK n, t : n = LastAttempt(led, run.step) /\ t = run.step
      OBVIOUS
    <3>2. n \in Nat /\ \A i \in DOMAIN led : led[i].step = t => led[i].attempt <= n
      BY <1>4, <3>1, AttemptsAreBelow, LedgerAssumption
    <3>3. \A i \in DOMAIN led : ~(led[i].step = t /\ led[i].attempt = n + 1)
      BY <3>2
    <3>4. QED
      BY <2>1, <3>1, <3>3 DEF Group
  <2>2. CASE led # << >> /\ Last(led).step = run.step /\ a = Last(led).attempt
    <3>1. Len(led) \in DOMAIN led /\ Last(led) = led[Len(led)]
      BY <1>4, <2>2, LastOf
    <3>2. QED
      BY <2>2, <3>1 DEF Group
  <2>3. CASE a = LastPrompt(run.step) + 1
    BY <1>4, <2>3, FreshAttempt
  <2>4. QED
    BY <1>5, <2>1, <2>2, <2>3
<1>7. QED
  BY <1>2, <1>3, <1>6, PrepareLeads

\* The attempt of a revision that no request consumed is new.
LEMMA RerunLeads ==
  ASSUME IInv, PInv, IInv', NEW p \in Runners, Rerun(p)
  PROVE  PInv'
<1>1. PICK led \in Reconciled :
        /\ Descends(led) /\ ~Consumed(led, run.revision)
        /\ run.step = revisions[run.revision].step
        /\ Prepare(p, led, revisions[run.revision].attempt)
  BY DEF Rerun
<1>2. Runnable /\ UNCHANGED <<files, revisions>> /\ run.revision # 0
  BY DEF Rerun
<1>3. PICK n, v : n = run.revision /\ v = revisions[n]
  OBVIOUS
<1>4. n \in DOMAIN revisions /\ v \in Revisions /\ RevisedFact(v)
  <2>1. n \in DOMAIN revisions /\ revisions \in Seq(Revisions)
    BY <1>2, <1>3, RunTypes DEF IInv, TypeOK
  <2>2. QED
    BY <1>3, <2>1 DEF PInv
<1>5. led = v.base
  BY <1>1, <1>3 DEF Descends
<1>6. v.base \in Seq(Records) /\ v.attempt \in Nat
  BY <1>4, LedgerAssumption DEF Revisions
<1>7. \A i \in DOMAIN led : ~(led[i].step = v.step /\ led[i].attempt = v.attempt)
  <2>1. SUFFICES ASSUME NEW i \in DOMAIN led, led[i].step = v.step,
                        led[i].attempt = v.attempt
                 PROVE  FALSE
    OBVIOUS
  <2>2. led[i].attempt < v.attempt
    BY <1>4, <1>5, <2>1 DEF RevisedFact
  <2>3. QED
    BY <1>6, <2>1, <2>2
<1>8. Group(led, run.step, v.attempt) = {}
  BY <1>1, <1>3, <1>7 DEF Group
<1>9. Prepare(p, led, v.attempt)
  BY <1>1, <1>3
<1>10. QED
  BY <1>2, <1>8, <1>9, PrepareLeads

\* A request is filed for the step the run is at, or for one it has been at.
LEMMA RequestReaches ==
  ASSUME IInv, PInv, NEW p \in Runners, runner[p].at = "request", MayRequest(p)
  PROVE  ReachedFact(Record(p, "request", NoAnswer))
<1>0. PICK r, x : r = runner[p] /\ x = Record(p, "request", NoAnswer)
  OBVIOUS
<1>1. /\ x.step = r.run.step /\ x.attempt = r.attempt /\ x.kind = r.kind
      /\ x.phase = "request" /\ x.answer = NoAnswer
  BY <1>0 DEF Record
<1>2. ContinuesFact(p)
  BY DEF PInv
<1>3. <<x.step, x.attempt>> \in prompts
  BY <1>0, <1>1, <1>2 DEF ContinuesFact, Exchanging
<1>4. x.step <= run.step \/ x.step <= Development
  <2>1. CASE x.kind = "initial"
    <3>1. r.view.revision = run.revision
      BY <1>0 DEF MayRequest, SameAuthority
    <3>2. QED
      BY <1>0, <1>1, <1>2, <2>1, <3>1 DEF ContinuesFact
  <2>2. CASE x.kind # "initial"
    <3>1. Links(run, run.ledger, x)
      BY <1>0 DEF MayRequest
    <3>2. run.ledger # << >> /\ Last(run.ledger).step = x.step
      BY <1>1, <2>2, <3>1 DEF Links, StartsGroup
    <3>3. PICK y \in filed : y = Last(run.ledger)
      BY <3>2, HeadOfLedger
    <3>4. QED
      BY <3>2, <3>3 DEF PInv, ReachedFact
  <2>3. QED
    BY <2>1, <2>2
<1>5. QED
  BY <1>0, <1>1, <1>3, <1>4 DEF ReachedFact

LEMMA PublishRequestLeads ==
  ASSUME IInv, PInv, IInv', NEW p \in Runners, NEW cut \in 0 .. 3, PublishRequest(p, cut)
  PROVE  PInv'
<1>0. PICK r, x : r = runner[p] /\ x = Record(p, "request", NoAnswer)
  OBVIOUS
<1>1. /\ r \in Progress /\ r.at = "request" /\ MayRequest(p) /\ ~Frozen
      /\ UNCHANGED <<prompts, revisions>>
  BY <1>0, OwnType DEF PublishRequest, MayRequest
<1>2. PICK t, n : t = run.step /\ n = run.revision
  OBVIOUS
<1>3. /\ run'.step = t /\ run'.revision = n /\ run'.status = run.status
  <2>1. run \in Runs
    BY DEF IInv, TypeOK
  <2>2. run' = run \/ run' = [run EXCEPT !.ledger = Append(@, x)]
    BY <1>0 DEF PublishRequest
  <2>3. QED
    BY <1>2, <2>1, <2>2 DEF Runs
<1>4. RunPart' /\ run.step <= run'.step
  <2>1. Grows
    BY PublishRequestKeeps
  <2>2. QED
    BY <1>1, <1>2, <1>3, <2>1, GrowthKeepsRun, RunTypes DEF Frozen
<1>5. \A y \in filed' : y \in filed \/ ReachedFact(y)'
  <2>1. \A y \in filed' : y \in filed \/ y = x
    BY <1>0 DEF PublishRequest
  <2>2. ReachedFact(x)
    BY <1>0, <1>1, RequestReaches
  <2>3. ReachedFact(x)'
    BY <1>1, <1>2, <1>3, <2>2 DEF ReachedFact
  <2>4. QED
    BY <2>1, <2>3
<1>6. PICK e : e = IF cut = 3 THEN [r EXCEPT !.at = "ask", !.view = View(run')] ELSE Idle
  OBVIOUS
<1>7. runner'[p] = e /\ \A q \in Runners \ {p} : runner'[q] = runner[q]
  BY <1>0, <1>6 DEF PublishRequest, Leave, IInv, TypeOK
<1>8. ContinuesFact(p)'
  <2>1. CASE cut = 3
    <3>1. /\ e.at = "ask" /\ e.run = r.run /\ e.attempt = r.attempt
          /\ e.view.revision = n
      BY <1>1, <1>3, <1>6, <2>1 DEF Progress, View
    <3>2. n <= Len(revisions)
      BY <1>2, RunTypes
    <3>3. <<r.run.step, r.attempt>> \in prompts
      BY <1>0, <1>1 DEF PInv, ContinuesFact, Exchanging
    <3>4. QED
      BY <1>1, <1>7, <3>1, <3>2, <3>3 DEF ContinuesFact
  <2>2. CASE cut # 3
    BY <1>6, <1>7, <2>2, IdleContinues
  <2>3. QED
    BY <2>1, <2>2
<1>9. QED
  BY <1>1, <1>2, <1>3, <1>4, <1>5, <1>7, <1>8, StepLeads

LEMMA BindResponseLeads ==
  ASSUME IInv, PInv, IInv', NEW p \in Runners, BindResponse(p)
  PROVE  PInv'
<1>0. PICK r, y, led : r = runner[p] /\ y = Response(p) /\ led = run.ledger
  OBVIOUS
<1>1. /\ r \in Progress /\ r.at = "bind" /\ ~Frozen /\ led \in Seq(Records)
      /\ UNCHANGED <<filed, prompts, revisions>>
  BY <1>0, OwnType, HeadOfLedger DEF BindResponse, MayBind, files
<1>2. y.step = r.run.step /\ y.phase = "response" /\ y.answer = r.answer
  BY <1>0 DEF Response, Record
<1>3. PICK t, n, grown : /\ t = run.step /\ n = run.revision
                         /\ grown = IF IsHead(y) THEN led ELSE Append(led, y)
  OBVIOUS
<1>4. /\ run'.step = t /\ run'.revision = n /\ run'.status = run.status
      /\ run'.ledger = grown
  <2>1. run \in Runs
    BY DEF IInv, TypeOK
  <2>2. run' = IF IsHead(y) THEN run ELSE [run EXCEPT !.ledger = Append(@, y)]
    BY <1>0 DEF BindResponse
  <2>3. QED
    BY <1>0, <1>3, <2>1, <2>2 DEF Runs
<1>5. RunPart' /\ run.step <= run'.step
  <2>1. Grows
    BY BindResponseKeeps
  <2>2. QED
    BY <1>1, <1>3, <1>4, <2>1, GrowthKeepsRun, RunTypes DEF Frozen
<1>6. grown # << >> /\ Last(grown) = y
  <2>1. CASE IsHead(y)
    BY <1>0, <1>3, <2>1 DEF IsHead
  <2>2. CASE ~IsHead(y)
    BY <1>1, <1>3, <2>2, Appended DEF Last
  <2>3. QED
    BY <2>1, <2>2
<1>7. PICK e : e = [r EXCEPT !.at = "decide", !.view = View(run')]
  OBVIOUS
<1>8. /\ e.at = "decide" /\ e.run = r.run /\ e.attempt = r.attempt /\ e.answer = r.answer
      /\ e.view.ledger = grown /\ e.view.revision = n
  BY <1>1, <1>4, <1>7 DEF Progress, View
<1>9. runner'[p] = e /\ \A q \in Runners \ {p} : runner'[q] = runner[q]
  BY <1>0, <1>7 DEF BindResponse, IInv, TypeOK
<1>10. n <= Len(revisions) /\ <<r.run.step, r.attempt>> \in prompts
  BY <1>0, <1>1, <1>3, RunTypes DEF PInv, ContinuesFact, Exchanging
<1>11. ContinuesFact(p)'
  BY <1>1, <1>2, <1>6, <1>8, <1>9, <1>10 DEF ContinuesFact
<1>12. QED
  BY <1>1, <1>3, <1>4, <1>5, <1>9, <1>11, StepLeads

\* A step is finished by the answer at the head of the ledger, by whichever runner
\* publishes it.
LEMMA FinishLeads ==
  ASSUME IInv, PInv, IInv', NEW p \in Runners,
         NEW ending \in {"completed", "blocked", "failed"}, runner[p].at = "decide",
         ending = "completed" => runner[p].answer = "advance", Finish(p, ending)
  PROVE  PInv'
<1>0. PICK r, here, fin : r = runner[p] /\ here = Imported(p) /\ fin = Finished(p, ending)
  OBVIOUS
<1>1. /\ here \in Runs /\ here.ledger = r.view.ledger /\ here.step \in Steps
      /\ fin \in Runs /\ fin.ledger = here.ledger /\ fin.revision = here.revision
  BY <1>0, FinishedType DEF Runs
<1>2. here.step = r.run.step
  BY <1>0, OwnType DEF Imported, Runs
<1>3. CASE ending # "completed"
  <2>1. fin.step = here.step /\ fin.status = ending
    BY <1>0, <1>1, <1>3 DEF Finished, Runs
  <2>2. run' = fin /\ run \in {here, fin}
    BY <1>0, <1>3, <2>1 DEF Finish, MayPublish
  <2>3. RunPart'
    BY <1>1, <1>3, <2>1, <2>2, GrowthKeepsRun DEF Grows
  <2>4. runner' = [runner EXCEPT ![p] = Idle]
    BY <1>0, <1>3, <2>1 DEF Finish, Leave
  <2>5. runner'[p] = Idle /\ \A q \in Runners \ {p} : runner'[q] = runner[q]
    BY <2>4 DEF IInv, TypeOK
  <2>6. run.step <= run'.step /\ run'.revision = run.revision
    BY <1>1, <2>1, <2>2, RunTypes
  <2>7. QED
    BY <2>3, <2>5, <2>6, IdleContinues, StepLeads DEF Finish, files
<1>4. CASE ending = "completed"
  <2>1. \/ fin.status = "review" /\ fin.step = here.step /\ here.step = LastStep
        \/ fin.status = "pending" /\ fin.step = here.step + 1
    <3>1. CASE here.step = LastStep
      BY <1>0, <1>1, <1>4, <3>1 DEF Finished, Runs
    <3>2. CASE here.step # LastStep
      <4>1. fin = [here EXCEPT !.step = @ + 1, !.status = "pending"]
        BY <1>0, <1>4, <3>2 DEF Finished
      <4>2. QED
        BY <1>1, <4>1 DEF Runs
    <3>3. QED
      BY <3>1, <3>2
  <2>2. run' = fin /\ run \in {here, fin}
    BY <1>0 DEF Finish, MayPublish
  <2>3. RunPart'
    <3>1. CASE run = fin
      BY <2>2, <3>1, GrowthKeepsRun DEF Grows
    <3>2. CASE run = here
      <4>1. /\ r.view.ledger # << >>
            /\ Last(r.view.ledger).step = r.run.step /\ Last(r.view.ledger).phase = "response"
            /\ Last(r.view.ledger).answer = "advance"
        BY <1>0, <1>4 DEF PInv, ContinuesFact
      <4>2. run.ledger = r.view.ledger /\ run'.ledger = run.ledger /\ run.step = r.run.step
        BY <1>1, <1>2, <2>2, <3>2
      <4>3. \/ run'.step = run.step + 1 /\ run'.status # "review"
            \/ run'.step = run.step /\ run.step = LastStep
        BY <2>1, <2>2, <3>2
      <4>4. /\ run.ledger # << >> /\ Last(run.ledger).step = run.step
            /\ Last(run.ledger).phase = "response" /\ Last(run.ledger).answer = "advance"
        BY <4>1, <4>2
      <4>5. QED
        BY <4>2, <4>3, <4>4, AdvanceKeepsRun
    <3>3. QED
      BY <2>2, <3>1, <3>2
  <2>4. PICK e : e = IF fin.status = "pending" THEN Ready(fin, 0) ELSE Idle
    OBVIOUS
  <2>5. runner'[p] = e /\ \A q \in Runners \ {p} : runner'[q] = runner[q]
    BY <1>0, <2>4 DEF Finish, Leave, IInv, TypeOK
  <2>6. run.step <= run'.step /\ run'.revision = run.revision
    <3>1. here.step \in Nat
      BY <1>1, LedgerAssumption DEF Steps
    <3>2. here.step <= fin.step /\ fin.step <= fin.step
      BY <2>1, <3>1
    <3>3. QED
      BY <1>1, <2>2, <3>2
  <2>7. ContinuesFact(p)'
    <3>1. CASE fin.status = "pending"
      <4>1. /\ e.at = "ready" /\ e.attempt = 0 /\ e.run = fin
            /\ e.view.revision = fin.revision
        BY <2>4, <3>1 DEF Ready, View
      <4>2. fin.revision <= Len(revisions') /\ fin.step <= run'.step
        <5>1. run'.revision <= Len(revisions') /\ run'.step \in Nat
          BY LedgerAssumption DEF IInv, TypeOK, Runs, Steps
        <5>2. QED
          BY <2>2, <5>1
      <4>3. QED
        BY <2>5, <4>1, <4>2 DEF ContinuesFact, Exchanging
    <3>2. CASE fin.status # "pending"
      BY <2>4, <2>5, <3>2, IdleContinues
    <3>3. QED
      BY <3>1, <3>2
  <2>8. QED
    BY <2>3, <2>5, <2>6, <2>7, StepLeads DEF Finish, files
<1>5. QED
  BY <1>3, <1>4

\* A revision goes back to a step the run is at or past.
LEMMA ReviseLeads ==
  ASSUME IInv, PInv, IInv', NEW s \in Steps, Revise(s)
  PROVE  PInv'
<1>0. PICK led, t : led = run.ledger /\ t = run.step
  OBVIOUS
<1>1. PICK a \in SourceAttempt(s) :
        revisions' = Append(revisions, [step |-> s, attempt |-> a + 1, base |-> run.ledger])
  BY DEF Revise
<1>2. /\ led \in Seq(Records) /\ revisions \in Seq(Revisions) /\ Len(revisions) \in Nat
      /\ t \in Steps /\ t \in Nat /\ s \in Nat /\ Development \in Nat /\ LastStep \in Nat
      /\ s <= LastStep /\ t <= LastStep
  <2>1. led \in Seq(Records) /\ t \in Steps /\ Len(revisions) \in Nat
    BY <1>0, HeadOfLedger, RunTypes
  <2>2. revisions \in Seq(Revisions)
    BY DEF IInv, TypeOK
  <2>3. \A u \in Steps : u \in Nat /\ u <= LastStep
    BY LedgerAssumption DEF Steps
  <2>4. Development \in Nat /\ LastStep \in Nat
    BY <2>3, LedgerAssumption
  <2>5. QED
    BY <2>1, <2>2, <2>3, <2>4
<1>3. PICK j \in DOMAIN led : led[j].step = s
  BY <1>0, <1>1 DEF SourceAttempt
<1>4. s <= t /\ (t <= Development \/ s = LastStep)
  <2>1. ReachedFact(led[j])
    BY <1>0, <1>3 DEF IInv, LedgerOK, PInv
  <2>2. s <= t \/ s <= Development
    BY <1>0, <1>3, <2>1 DEF ReachedFact
  <2>3. run.status = "review" => t = LastStep
    BY <1>0 DEF PInv, StepOK
  <2>4. Eligible(s)
    BY DEF Revise
  <2>5. CASE run.status = "review"
    <3>1. t = LastStep /\ s = LastStep
      BY <2>3, <2>4, <2>5 DEF Eligible
    <3>2. QED
      BY <1>2, <3>1
  <2>6. CASE run.status # "review" /\ t <= Development
    BY <1>0, <1>2, <2>4, <2>6 DEF Eligible
  <2>7. CASE run.status # "review" /\ t > Development
    <3>1. ~(t <= Development)
      BY <1>2, <2>7
    <3>2. s = LastStep
      BY <1>0, <2>4, <2>7, <3>1 DEF Eligible
    <3>3. QED
      BY <1>2, <2>2, <2>7, <3>2
  <2>8. QED
    BY <1>2, <2>5, <2>6, <2>7
<1>5. /\ run'.step = s /\ run'.status = "pending" /\ run'.ledger = led
      /\ run'.revision = Len(revisions')
  <2>1. run \in Runs
    BY DEF IInv, TypeOK
  <2>2. run' = [run EXCEPT !.step = s, !.status = "pending", !.revision = Len(revisions')]
    BY DEF Revise
  <2>3. QED
    BY <1>0, <2>1, <2>2 DEF Runs
<1>6. UNCHANGED <<filed, prompts, runner>>
  BY DEF Revise, files
<1>7. RunPart'
  <2>1. \A u \in Steps : u < s => Ended(led, u)
    <3>1. \A u \in Steps : u < s => u < t
      BY <1>2, <1>4, LedgerAssumption DEF Steps
    <3>2. QED
      BY <1>0, <3>1 DEF PInv, ProgressIsLedgered
  <2>2. led # << >> /\ s <= Last(led).step + 1
    <3>1. led # << >>
      BY <1>2, <1>3
    <3>2. Last(led) \in Records /\ t <= Last(led).step + 1
      BY <1>0, <3>1, HeadOfLedger DEF PInv, StepOK
    <3>3. PICK u : u = Last(led).step
      OBVIOUS
    <3>4. u \in Nat
      BY <3>2, <3>3, LedgerAssumption DEF Records, Steps
    <3>5. s <= u + 1
      BY <1>2, <1>4, <3>2, <3>3, <3>4
    <3>6. QED
      BY <3>1, <3>3, <3>5
  <2>3. QED
    BY <1>5, <2>1, <2>2, RunPartOf
<1>8. \A x \in filed' : ReachedFact(x)'
  <2>1. SUFFICES ASSUME NEW x \in filed PROVE ReachedFact(x)'
    BY <1>6
  <2>2. ReachedFact(x)
    BY DEF PInv
  <2>3. x.step \in Nat /\ x.step <= LastStep
    <3>1. x.step \in Steps
      BY RunTypes DEF Records
    <3>2. QED
      BY <3>1, LedgerAssumption DEF Steps
  <2>4. x.step <= s \/ x.step <= Development
    BY <1>0, <1>2, <1>4, <2>2, <2>3 DEF ReachedFact
  <2>5. QED
    BY <1>5, <1>6, <2>2, <2>4 DEF ReachedFact
<1>9. (\A i \in DOMAIN revisions : RevisedFact(revisions[i]))'
  <2>1. PICK v : v = [step |-> s, attempt |-> a + 1, base |-> led]
    OBVIOUS
  <2>2. RevisedFact(v)
    <3>1. a = LastAttempt(led, s)
      BY <1>0, <1>1 DEF SourceAttempt
    <3>2. a \in 0 .. MaxAttempt
          /\ \A i \in DOMAIN led : led[i].step = s => led[i].attempt <= a
      BY <1>2, <3>1, AttemptsAreBelow
    <3>3. \A i \in DOMAIN led : led[i].attempt \in Nat
      <4>1. \A i \in DOMAIN led : led[i] \in Records
        BY <1>2
      <4>2. QED
        BY <4>1, LedgerAssumption DEF Records
    <3>4. \A i \in DOMAIN led : led[i].step = s => led[i].attempt < a + 1
      BY <3>2, <3>3, LedgerAssumption
    <3>5. v.base = led /\ v.step = s /\ v.attempt = a + 1
      BY <2>1
    <3>6. QED
      BY <3>4, <3>5 DEF RevisedFact
  <2>3. \A i \in DOMAIN revisions : RevisedFact(revisions[i])
    BY DEF PInv
  <2>4. revisions' = Append(revisions, v)
    BY <1>0, <1>1, <2>1
  <2>5. \A i \in DOMAIN revisions' :
          revisions'[i] = v \/ \E k \in DOMAIN revisions : revisions'[i] = revisions[k]
    BY <1>2, <2>4, Appended
  <2>6. SUFFICES ASSUME NEW i \in DOMAIN revisions' PROVE RevisedFact(revisions[i])'
    OBVIOUS
  <2>7. PICK w : w = revisions'[i]
    OBVIOUS
  <2>8. RevisedFact(w)
    BY <2>2, <2>3, <2>5, <2>7
  <2>9. QED
    BY <2>7, <2>8 DEF RevisedFact
<1>10. \A q \in Runners : ContinuesFact(q)'
  <2>1. Len(revisions') = Len(revisions) + 1
    BY <1>1, <1>2
  <2>2. Len(revisions) <= Len(revisions') /\ run'.revision > Len(revisions)
    BY <1>2, <1>5, <2>1
  <2>3. SUFFICES ASSUME NEW q \in Runners PROVE ContinuesFact(q)'
    OBVIOUS
  <2>4. ContinuesFact(q)
    BY DEF PInv
  <2>5. QED
    BY <1>6, <2>2, <2>4, OthersContinue
<1>11. QED
  BY <1>7, <1>8, <1>9, <1>10 DEF PInv, RunPart

-----------------------------------------------------------------------------
(* How far the run is.                                                     *)

\* Every step of every runner and every revision keeps how far the run is in line with
\* its ledger, with what is staged and with what the runners go by.
THEOREM PInvInductive ==
  /\ Init => PInv
  /\ IInv /\ PInv /\ [Next]_vars => PInv'
<1>1. ASSUME Init PROVE PInv
  <2>1. /\ run.ledger = << >> /\ run.step = 1 /\ run.status = "pending" /\ run.revision = 0
        /\ filed = {} /\ revisions = << >>
    BY <1>1 DEF Init, Fresh
  <2>2. ProgressIsLedgered
    <3>1. \A s \in Steps : ~(s < 1)
      BY LedgerAssumption DEF Steps
    <3>2. QED
      BY <2>1, <3>1 DEF ProgressIsLedgered
  <2>3. StepOK
    BY <2>1 DEF StepOK
  <2>4. \A p \in Runners : ContinuesFact(p)
    <3>1. \A p \in Runners : runner[p] = Idle
      BY <1>1 DEF Init
    <3>2. Idle.at = "idle" /\ Idle.view.revision = 0
      BY DEF Idle, Ready, View, Fresh
    <3>3. QED
      BY <2>1, <3>1, <3>2 DEF ContinuesFact, Exchanging
  <2>5. QED
    BY <2>1, <2>2, <2>3, <2>4 DEF PInv
<1>2. ASSUME IInv, PInv, [Next]_vars PROVE PInv'
  <2>1. IInv'
    BY <1>2, IInvInductive
  <2>2. CASE UNCHANGED vars
    <3>1. UNCHANGED <<run, filed, prompts, revisions, runner>>
      BY <2>2 DEF vars, files
    <3>2. QED
      BY <1>2, <3>1 DEF PInv, ProgressIsLedgered, StepOK, ReachedFact, ContinuesFact
  <2>3. ASSUME NEW s \in Steps, Revise(s) PROVE PInv'
    BY <1>2, <2>1, <2>3, ReviseLeads
  <2>4. ASSUME NEW p \in Runners, Step(p) PROVE PInv'
    <3>1. CASE Resume(p) \/ Rerun(p)
      BY <1>2, <2>1, <3>1, ResumeLeads, RerunLeads
    <3>2. CASE MarkRunning(p) \/ WritePrompt(p)
      BY <1>2, <2>1, <3>2, MarkRunningLeads, WritePromptLeads
    <3>3. CASE Exchange(p)
      BY <1>2, <2>1, <3>3, PublishRequestLeads, AskLeads, WriteResponseLeads,
         StageResponseLeads, BindResponseLeads DEF Exchange
    <3>4. CASE Repair(p) \/ Expand(p)
      BY <1>2, <2>1, <3>4, NextRequestLeads
    <3>5. CASE Decide(p)
      <4>1. /\ Ending(p) \in {"completed", "blocked", "failed"}
            /\ Ending(p) = "completed" => runner[p].answer = "advance"
        BY DEF Ending
      <4>2. QED
        BY <1>2, <2>1, <3>5, <4>1, FinishLeads DEF Decide
    <3>6. CASE ExpansionFails(p)
      BY <1>2, <2>1, <3>6, FinishLeads DEF ExpansionFails
    <3>7. CASE Refuse(p) \/ Die(p)
      BY <1>2, <2>1, <3>7, IdleLeads DEF Refuse, Die
    <3>8. QED
      BY <2>4, <3>1, <3>2, <3>3, <3>4, <3>5, <3>6, <3>7 DEF Step
  <2>5. QED
    BY <1>2, <2>2, <2>3, <2>4 DEF Next
<1>3. QED
  BY <1>1, <1>2

\* How far the run is stays in line with its ledger in every reachable state.
THEOREM PInvHolds == Spec => []PInv
<1>1. Init => PInv
  BY PInvInductive
<1>2. IInv /\ PInv /\ [Next]_vars => PInv'
  BY PInvInductive
<1>3. QED
  BY <1>1, <1>2, IInvHolds, PTL DEF Spec

\* Every step the run is past was ended by the approving answer that is the last one of
\* the step in the ledger, and no step and no run takes more context rounds than it may:
\* for any number of runners, steps, attempts, revisions and deaths.
THEOREM ProgressHolds == Spec => []ProgressIsBounded
<1>1. IInv /\ PInv => ProgressIsBounded
  BY DEF IInv, PInv, ProgressIsBounded
<1>2. QED
  BY <1>1, IInvHolds, PInvHolds, PTL

-----------------------------------------------------------------------------
(* The ledger is in order, as long as nothing has failed.                  *)

LEMMA PrefixIs ==
  ASSUME NEW S, NEW a \in Seq(S), NEW b \in Seq(S), IsPrefix(a, b)
  PROVE  /\ Len(a) <= Len(b) /\ \A i \in DOMAIN a : i \in DOMAIN b /\ a[i] = b[i]
         /\ SubSeq(b, 1, Len(a)) = a
         /\ a # b => Len(a) < Len(b)
<1>1. Len(a) \in Nat /\ Len(b) \in Nat /\ Len(a) <= Len(b)
  BY DEF IsPrefix
<1>2. SubSeq(a, 1, Len(a)) = a /\ SubSeq(b, 1, Len(b)) = b
  OBVIOUS
<1>3. SubSeq(b, 1, Len(a)) = a
  BY <1>2 DEF IsPrefix
<1>4. \A i \in DOMAIN a : i \in DOMAIN b /\ a[i] = b[i]
  <2>1. SUFFICES ASSUME NEW i \in DOMAIN a PROVE i \in DOMAIN b /\ a[i] = b[i]
    OBVIOUS
  <2>2. i \in 1 .. Len(a) /\ i \in DOMAIN b
    BY <1>1
  <2>3. SubSeq(b, 1, Len(a))[i] = b[i]
    BY <1>1, <2>2
  <2>4. QED
    BY <1>3, <2>2, <2>3
<1>5. Len(a) = Len(b) => a = b
  BY <1>2, <1>3
<1>6. QED
  BY <1>1, <1>3, <1>4, <1>5

LEMMA PrefixGrows ==
  ASSUME NEW S, NEW b \in Seq(S), NEW x \in S
  PROVE  /\ IsPrefix(b, b) /\ IsPrefix(b, Append(b, x))
         /\ \A n \in 1 .. Len(b) : SubSeq(Append(b, x), 1, n) = SubSeq(b, 1, n)
         /\ SubSeq(Append(b, x), 1, Len(b) + 1) = Append(b, x)
         /\ \A a \in Seq(S) : IsPrefix(a, b) => IsPrefix(a, Append(b, x)) /\ a # Append(b, x)
<1> DEFINE c == Append(b, x)
<1>1. Len(b) \in Nat /\ c \in Seq(S) /\ Len(c) = Len(b) + 1
  OBVIOUS
<1>2. \A n \in 0 .. Len(b) : SubSeq(c, 1, n) = SubSeq(b, 1, n)
  OBVIOUS
<1>3. IsPrefix(b, b) /\ IsPrefix(b, c)
  BY <1>1, <1>2 DEF IsPrefix
<1>4. SubSeq(c, 1, Len(b) + 1) = c
  BY <1>1
<1>5. \A a \in Seq(S) : IsPrefix(a, b) => IsPrefix(a, c) /\ a # c
  <2>1. SUFFICES ASSUME NEW a \in Seq(S), IsPrefix(a, b) PROVE IsPrefix(a, c) /\ a # c
    OBVIOUS
  <2>2. Len(a) \in Nat /\ Len(a) <= Len(b) /\ SubSeq(a, 1, Len(a)) = SubSeq(b, 1, Len(a))
    BY <2>1 DEF IsPrefix
  <2>3. SubSeq(c, 1, Len(a)) = SubSeq(b, 1, Len(a)) /\ Len(a) <= Len(c)
    BY <1>1, <1>2, <2>2
  <2>4. QED
    BY <1>1, <2>2, <2>3 DEF IsPrefix
<1>6. QED
  BY <1>1, <1>2, <1>3, <1>4, <1>5

\* The rounds of an attempt when one more record is in the ledger.
LEMMA AttemptRoundsOfAppend ==
  ASSUME NEW led \in Seq(Records), NEW x \in Records, NEW s, NEW a
  PROVE  /\ AttemptRounds(led, s, a) \in Nat
         /\ AttemptRounds(Append(led, x), s, a) =
              IF IsRetry(x) /\ x.step = s /\ x.attempt = a
                THEN AttemptRounds(led, s, a) + 1 ELSE AttemptRounds(led, s, a)
         /\ Group(led, s, a) = {} => AttemptRounds(led, s, a) = 0
<1> DEFINE old == Retries(led) \cap Group(led, s, a)
           grown == Append(led, x)
           new == Retries(grown) \cap Group(grown, s, a)
           n == Len(led) + 1
<1>1. /\ DOMAIN led = 1 .. Len(led) /\ DOMAIN grown = 1 .. n
      /\ \A i \in DOMAIN led : grown[i] = led[i]
      /\ grown[n] = x /\ Len(led) \in Nat
  BY Appended
<1>2. old \subseteq 1 .. Len(led) /\ n \notin old
  BY <1>1 DEF Retries
<1>3. IsFiniteSet(old)
  <2>1. \A k \in Nat : IsFiniteSet(1 .. k)
    BY FS_Interval
  <2>2. IsFiniteSet(1 .. Len(led))
    BY <1>1, <2>1
  <2>3. QED
    BY <1>2, <2>2, FS_Subset
<1>4. Cardinality(old) \in Nat
  BY <1>3, FS_CardinalityType
<1>5. CASE IsRetry(x) /\ x.step = s /\ x.attempt = a
  <2>1. new = old \cup {n}
    BY <1>1, <1>5 DEF Retries, IsRetry, Group
  <2>2. Cardinality(new) = Cardinality(old) + 1
    BY <1>2, <1>3, <2>1, FS_AddElement
  <2>3. QED
    BY <1>4, <1>5, <2>2, FS_EmptySet DEF AttemptRounds
<1>6. CASE ~(IsRetry(x) /\ x.step = s /\ x.attempt = a)
  <2>1. new = old
    BY <1>1, <1>6 DEF Retries, IsRetry, Group
  <2>2. QED
    BY <1>4, <1>6, <2>1, FS_EmptySet DEF AttemptRounds
<1>7. QED
  BY <1>5, <1>6

LEMMA HeldNow ==
  ASSUME IInv, PInv, Held
  PROVE  /\ run.ledger \in Seq(Records) /\ revisions \in Seq(Revisions)
         /\ run.revision = Len(revisions) /\ Len(revisions) \in Nat
         /\ DOMAIN revisions = 1 .. Len(revisions)
         /\ \A n \in DOMAIN revisions :
              /\ revisions[n] \in Revisions /\ revisions[n].base \in Seq(Records)
              /\ RevisionOK(n)
         /\ \A p \in Runners : GoesOn(p) /\ runner[p].view.ledger \in Seq(Records)
<1>1. revisions \in Seq(Revisions) /\ run.ledger \in Seq(Records)
  BY HeadOfLedger DEF IInv, TypeOK
<1>2. DOMAIN revisions = 1 .. Len(revisions) /\ \A n \in DOMAIN revisions : revisions[n] \in Revisions
  BY <1>1
<1>3. QED
  BY <1>1, <1>2, OwnType DEF Held, Revisions

-----------------------------------------------------------------------------
(* A record that may be the next one as long as nothing has failed.        *)

Fits(x) ==
  /\ Extends(x) /\ ~Frozen
  /\ x.phase = "response" => x.round = Last(run.ledger).round
  /\ x.phase = "request" =>
       /\ x.answer = NoAnswer
       /\ x.kind = "initial" => x.round = 0 /\ x.step <= run.step
  /\ Pending(run.ledger) =>
       Key(x) = <<revisions[run.revision].step, revisions[run.revision].attempt, 1, "request">>

LEMMA LinkCases ==
  ASSUME IInv, NEW x, Extends(x), run.ledger # << >>
  PROVE  \/ /\ x.phase = "response" /\ Last(run.ledger).phase = "request"
            /\ Coordinate(Last(run.ledger)) = Coordinate(x)
         \/ /\ x.phase = "request" /\ Last(run.ledger).phase = "response"
            /\ \/ /\ x.step = Last(run.ledger).step /\ x.attempt = Last(run.ledger).attempt
                  /\ FollowsResponse(run.ledger, x)
               \/ /\ ~(x.step = Last(run.ledger).step /\ x.attempt = Last(run.ledger).attempt)
                  /\ StartsGroup(run, run.ledger, x)
<1>1. x \in Records /\ Links(run, run.ledger, x)
  BY DEF Extends
<1>2. CASE x.phase = "response"
  BY <1>1, <1>2 DEF Links
<1>3. CASE x.phase = "request"
  BY <1>1, <1>3 DEF Links, FollowsResponse, StartsGroup
<1>4. QED
  BY <1>1, <1>2, <1>3 DEF Records, Phases

LEMMA LastIsInOrder ==
  ASSUME IInv, PInv, Held, run.ledger # << >>
  PROVE  LET last == Last(run.ledger) IN
         /\ last \in Records
         /\ \A i \in Group(run.ledger, last.step, last.attempt) : run.ledger[i].index <= last.index
         /\ last.round = AttemptRounds(run.ledger, last.step, last.attempt)
         /\ last.phase = "request" => last.answer = NoAnswer
<1>0. PICK led, n : led = run.ledger /\ n = Len(led)
  OBVIOUS
<1>1. led \in Seq(Records) /\ n \in DOMAIN led /\ Last(led) = led[n] /\ led[n] \in filed
      /\ Last(led) \in Records
  BY <1>0, HeadOfLedger
<1>2. SubSeq(led, 1, n) = led
  BY <1>0, <1>1
<1>3. /\ \A i \in Group(SubSeq(led, 1, n), led[n].step, led[n].attempt) :
            SubSeq(led, 1, n)[i].index <= led[n].index
      /\ led[n].round = AttemptRounds(SubSeq(led, 1, n), led[n].step, led[n].attempt)
  BY <1>0, <1>1 DEF Held, InOrder, OrderedAt
<1>4. led[n].phase = "request" => led[n].answer = NoAnswer
  BY <1>1 DEF PInv, ReachedFact
<1>5. QED
  BY <1>0, <1>1, <1>2, <1>3, <1>4

\* After an open context round nothing but its request comes.
LEMMA NextRound ==
  ASSUME IInv, PInv, Held, NEW x, Fits(x), run.ledger # << >>,
         Last(run.ledger).answer = "context", ~CapReached(run.ledger, Last(run.ledger).step)
  PROVE  LET last == Last(run.ledger) IN
         x.step = last.step /\ x.attempt = last.attempt /\ x.round = last.round + 1
<1>0. PICK led, last : led = run.ledger /\ last = Last(led)
  OBVIOUS
<1>1. /\ led \in Seq(Records) /\ last \in Records
      /\ last.round = AttemptRounds(led, last.step, last.attempt)
      /\ last.phase = "request" => last.answer = NoAnswer
  BY <1>0, HeadOfLedger, LastIsInOrder
<1>2. last.phase # "request"
  BY <1>0, <1>1 DEF NoAnswer
<1>3. \/ /\ x.step = last.step /\ x.attempt = last.attempt
         /\ FollowsResponse(led, x)
      \/ StartsGroup(run, led, x)
  BY <1>0, <1>2, LinkCases DEF Fits
<1>4. CASE x.step = last.step /\ x.attempt = last.attempt /\ FollowsResponse(led, x)
  <2>1. x.round = AttemptRounds(led, x.step, x.attempt) + 1
    BY <1>0, <1>4 DEF FollowsResponse
  <2>2. QED
    BY <1>0, <1>1, <1>4, <2>1
<1>5. ASSUME StartsGroup(run, led, x) PROVE FALSE
  <2>1. x.attempt = LastAttempt(led, x.step) + 1
    BY <1>0, <1>5 DEF StartsGroup
  <2>2. Authorized(led, run.revision, x.step, x.attempt)
    BY <1>0, <1>5 DEF StartsGroup, Advancing
  <2>3. PICK i \in 1 .. run.revision : revisions[i].step = x.step /\ revisions[i].attempt = x.attempt
    BY <2>2 DEF Authorized
  <2>4. PICK v : v = revisions[i]
    OBVIOUS
  <2>5. i \in DOMAIN revisions /\ RevisionOK(i) /\ v.base \in Seq(Records)
    BY <2>3, <2>4, HeldNow
  <2>6. CASE Consumed(led, i)
    <3>1. PICK n : n = Len(v.base) + 1
      OBVIOUS
    <3>2. n \in DOMAIN led /\ led[n].step = v.step /\ led[n].attempt = v.attempt
      <4>1. Len(led) > Len(v.base) /\ Key(led[n]) = <<v.step, v.attempt, 1, "request">>
        BY <2>4, <2>6, <3>1 DEF Consumed
      <4>2. Len(led) \in Nat /\ Len(v.base) \in Nat
        BY <1>1, <2>5
      <4>3. n \in DOMAIN led
        BY <1>1, <3>1, <4>1, <4>2
      <4>4. QED
        BY <4>1, <4>3 DEF Key
    <3>3. /\ LastAttempt(led, x.step) \in 0 .. MaxAttempt
          /\ led[n].attempt <= LastAttempt(led, x.step)
      BY <1>1, <2>3, <2>4, <3>2, AttemptsAreBelow
    <3>4. PICK k : k = LastAttempt(led, x.step)
      OBVIOUS
    <3>5. k + 1 <= k /\ k \in Nat
      BY <2>1, <2>3, <2>4, <3>2, <3>3, <3>4, LedgerAssumption
    <3>6. QED
      BY <3>5
  <2>7. CASE v.base = led
    <3>1. Settled(led)
      BY <2>4, <2>5, <2>7 DEF RevisionOK
    <3>2. QED
      BY <1>0, <3>1 DEF Settled
  <2>8. QED
    BY <1>0, <2>4, <2>5, <2>6, <2>7 DEF RevisionOK
<1>6. QED
  BY <1>0, <1>3, <1>4, <1>5

LEMMA FitsInOrder ==
  ASSUME IInv, PInv, Held, NEW x, Fits(x)
  PROVE  /\ \A i \in Group(run.ledger, x.step, x.attempt) : run.ledger[i].index <= x.index
         /\ x.round = AttemptRounds(Append(run.ledger, x), x.step, x.attempt)
<1>0. PICK led, last, here : /\ led = run.ledger /\ last = Last(led)
                             /\ here = Group(led, x.step, x.attempt)
  OBVIOUS
<1>1. /\ led \in Seq(Records) /\ x \in Records /\ Extends(x) /\ Links(run, led, x)
      /\ x.phase = "response" => x.round = last.round
      /\ x.phase = "request" /\ x.kind = "initial" => x.round = 0
  BY <1>0, HeadOfLedger DEF Fits, Extends
<1>2. /\ AttemptRounds(led, x.step, x.attempt) \in Nat
      /\ here = {} => AttemptRounds(led, x.step, x.attempt) = 0
      /\ AttemptRounds(Append(led, x), x.step, x.attempt) =
           IF IsRetry(x) THEN AttemptRounds(led, x.step, x.attempt) + 1
           ELSE AttemptRounds(led, x.step, x.attempt)
  BY <1>0, <1>1, AttemptRoundsOfAppend
<1>3. /\ x.index \in Nat
      /\ led # << >> =>
           /\ last \in Records /\ last.index \in Nat
           /\ \A i \in Group(led, last.step, last.attempt) : led[i].index <= last.index
           /\ last.round = AttemptRounds(led, last.step, last.attempt)
  BY <1>0, <1>1, LastIsInOrder DEF Records
<1>4. \A i \in DOMAIN led : led[i].index \in Nat
  <2>1. \A i \in DOMAIN led : led[i] \in Records
    BY <1>1
  <2>2. QED
    BY <2>1 DEF Records
<1>5. ASSUME StartsGroup(run, led, x), x.phase = "request"
      PROVE  here = {} /\ x.round = AttemptRounds(Append(led, x), x.step, x.attempt)
  <2>1. x.kind = "initial" /\ ~IsRetry(x)
    BY <1>5 DEF StartsGroup, IsRetry
  <2>2. here = {}
    <3>1. CASE led = << >>
      BY <1>0, <3>1 DEF Group
    <3>2. CASE led # << >>
      <4>1. PICK k : k = LastAttempt(led, x.step)
        OBVIOUS
      <4>2. x.attempt = k + 1
        BY <1>5, <3>2, <4>1 DEF StartsGroup
      <4>3. k \in Nat /\ \A i \in DOMAIN led : led[i].step = x.step => led[i].attempt <= k
        BY <1>1, <4>1, AttemptsAreBelow, LedgerAssumption
      <4>4. \A i \in DOMAIN led : ~(led[i].step = x.step /\ led[i].attempt = k + 1)
        BY <4>3
      <4>5. QED
        BY <1>0, <4>2, <4>4 DEF Group
    <3>3. QED
      BY <3>1, <3>2
  <2>3. QED
    BY <1>1, <1>2, <1>5, <2>1, <2>2
<1>6. CASE led = << >>
  <2>1. StartsGroup(run, led, x) /\ x.phase = "request"
    BY <1>1, <1>6 DEF Links, Records, Phases
  <2>2. QED
    BY <1>0, <1>5, <2>1
<1>7. CASE led # << >>
  <2>1. CASE x.phase = "response" /\ Coordinate(last) = Coordinate(x)
    <3>1. x.step = last.step /\ x.attempt = last.attempt /\ x.index = last.index /\ ~IsRetry(x)
      BY <2>1 DEF Coordinate, IsRetry
    <3>2. QED
      BY <1>0, <1>1, <1>2, <1>3, <1>7, <2>1, <3>1
  <2>2. CASE /\ x.phase = "request" /\ x.step = last.step /\ x.attempt = last.attempt
             /\ FollowsResponse(led, x)
    <3>1. x.index = last.index + 1
      BY <1>0, <2>2 DEF FollowsResponse
    <3>2. \A i \in here : led[i].index <= x.index
      <4>1. \A i \in here : led[i].index <= last.index /\ led[i].index \in Nat
        BY <1>0, <1>3, <1>4, <1>7, <2>2 DEF Group
      <4>2. QED
        BY <1>3, <1>7, <3>1, <4>1
    <3>3. x.round = AttemptRounds(Append(led, x), x.step, x.attempt)
      <4>1. CASE x.kind = "context" /\ x.round = AttemptRounds(led, x.step, x.attempt) + 1
        BY <1>2, <2>2, <4>1 DEF IsRetry
      <4>2. CASE x.kind = "repair" /\ x.round = last.round
        BY <1>2, <1>3, <1>7, <2>2, <4>2 DEF IsRetry
      <4>3. QED
        BY <1>0, <2>2, <4>1, <4>2 DEF FollowsResponse
    <3>4. QED
      BY <1>0, <3>2, <3>3
  <2>3. CASE x.phase = "request" /\ StartsGroup(run, led, x)
    BY <1>0, <1>5, <2>3
  <2>4. QED
    BY <1>0, <1>1, <1>7, <2>1, <2>2, <2>3, LinkCases
<1>8. QED
  BY <1>6, <1>7

LEMMA GrownOrder ==
  ASSUME IInv, PInv, Held, NEW x, Fits(x)
  PROVE  InOrder'
<1>0. PICK led, grown : led = run.ledger /\ grown = Append(led, x)
  OBVIOUS
<1>1. led \in Seq(Records) /\ x \in Records /\ run'.ledger = grown
  BY <1>0, HeadOfLedger DEF Fits, Extends
<1>2. /\ Len(grown) = Len(led) + 1 /\ DOMAIN grown = 1 .. Len(led) + 1
      /\ DOMAIN led = 1 .. Len(led) /\ Len(led) \in Nat
      /\ \A i \in DOMAIN led : grown[i] = led[i]
      /\ grown[Len(led) + 1] = x
  BY <1>0, <1>1, Appended
<1>3. /\ \A n \in 1 .. Len(led) : SubSeq(grown, 1, n) = SubSeq(led, 1, n)
      /\ SubSeq(grown, 1, Len(led) + 1) = grown
  <2>1. led \in Seq(Records) /\ x \in Records
    BY <1>1
  <2>2. QED
    BY <1>0, <2>1, PrefixGrows
<1> DEFINE Ordered(l, n) ==
             /\ \A i \in Group(SubSeq(l, 1, n), l[n].step, l[n].attempt) :
                  SubSeq(l, 1, n)[i].index <= l[n].index
             /\ l[n].round = AttemptRounds(SubSeq(l, 1, n), l[n].step, l[n].attempt)
           Opens(l, n) ==
             n < Len(l) /\ l[n].answer = "context" /\ ~CapReached(SubSeq(l, 1, n), l[n].step) =>
               /\ l[n + 1].step = l[n].step /\ l[n + 1].attempt = l[n].attempt
               /\ l[n + 1].round = l[n].round + 1
<1>4. \A n \in DOMAIN led : Ordered(led, n) /\ Opens(led, n)
  BY <1>0 DEF Held, InOrder, OrderedAt
<1>5. \A n \in DOMAIN led : Ordered(grown, n)
  BY <1>2, <1>3, <1>4
<1>6. Ordered(grown, Len(led) + 1)
  <2>1. /\ \A i \in Group(led, x.step, x.attempt) : led[i].index <= x.index
        /\ x.round = AttemptRounds(grown, x.step, x.attempt)
    BY <1>0, FitsInOrder
  <2>2. x.index \in Nat
    BY <1>1 DEF Records
  <2>3. \A i \in Group(grown, x.step, x.attempt) : grown[i].index <= x.index
    <3>1. \A i \in Group(grown, x.step, x.attempt) :
            i = Len(led) + 1 \/ i \in Group(led, x.step, x.attempt)
      BY <1>2 DEF Group
    <3>2. \A i \in Group(led, x.step, x.attempt) : grown[i] = led[i]
      BY <1>2 DEF Group
    <3>3. QED
      BY <1>2, <2>1, <2>2, <3>1, <3>2
  <2>4. QED
    BY <1>2, <1>3, <2>1, <2>3
<1>7. \A n \in DOMAIN led : Opens(grown, n)
  <2>1. SUFFICES ASSUME NEW n \in DOMAIN led PROVE Opens(grown, n)
    OBVIOUS
  <2>2. CASE n < Len(led)
    <3>1. n + 1 \in DOMAIN led
      BY <1>2, <2>2
    <3>2. QED
      BY <1>2, <1>3, <1>4, <2>2, <3>1
  <2>3. CASE n = Len(led)
    <3>1. led # << >> /\ Last(led) = led[n] /\ SubSeq(led, 1, n) = led
      BY <1>1, <1>2, <2>3 DEF Last
    <3>2. led[n].answer = "context" /\ ~CapReached(led, led[n].step) =>
            x.step = led[n].step /\ x.attempt = led[n].attempt /\ x.round = led[n].round + 1
      BY <1>0, <3>1, NextRound
    <3>3. QED
      BY <1>2, <1>3, <2>3, <3>1, <3>2
  <2>4. QED
    BY <1>2, <2>2, <2>3
<1>8. Opens(grown, Len(led) + 1)
  BY <1>2
<1>9. \A n \in DOMAIN grown : OrderedAt(grown, n)
  <2>1. SUFFICES ASSUME NEW n \in DOMAIN grown PROVE Ordered(grown, n) /\ Opens(grown, n)
    BY DEF OrderedAt
  <2> HIDE DEF Ordered, Opens
  <2>2. n \in DOMAIN led \/ n = Len(led) + 1
    BY <1>2
  <2>3. QED
    BY <1>5, <1>6, <1>7, <1>8, <2>2
<1>10. QED
  BY <1>1, <1>9 DEF InOrder

LEMMA GrownRevisions ==
  ASSUME IInv, PInv, Held, NEW x, Fits(x), UNCHANGED revisions
  PROVE  \A n \in DOMAIN revisions' : RevisionOK(n)'
<1>1. SUFFICES ASSUME NEW n \in DOMAIN revisions PROVE RevisionOK(n)'
  OBVIOUS
<1>2. PICK led, grown, v : led = run.ledger /\ grown = Append(led, x) /\ v = revisions[n]
  OBVIOUS
<1>3. /\ led \in Seq(Records) /\ x \in Records /\ run'.ledger = grown
      /\ v.base \in Seq(Records) /\ RevisionOK(n) /\ run.revision = Len(revisions)
      /\ Len(revisions) \in Nat /\ DOMAIN revisions = 1 .. Len(revisions)
  BY <1>2, HeldNow DEF Fits, Extends
<1>4. /\ IsPrefix(v.base, led) /\ Settled(v.base)
      /\ Consumed(led, n) \/ (n = Len(revisions) /\ v.base = led)
  BY <1>2, <1>3 DEF RevisionOK
<1>5. IsPrefix(v.base, grown)
  BY <1>2, <1>3, <1>4, PrefixGrows
<1>6. Consumed(grown, n)
  <2>1. PICK m : m = Len(v.base) + 1
    OBVIOUS
  <2>2. /\ Len(grown) = Len(led) + 1 /\ Len(led) \in Nat /\ Len(v.base) \in Nat
        /\ \A i \in DOMAIN led : grown[i] = led[i]
        /\ grown[Len(led) + 1] = x /\ DOMAIN led = 1 .. Len(led)
    BY <1>2, <1>3, Appended
  <2>3. CASE Consumed(led, n)
    <3>1. Len(led) > Len(v.base) /\ Key(led[m]) = <<v.step, v.attempt, 1, "request">>
      BY <1>2, <2>1, <2>3 DEF Consumed
    <3>2. m \in DOMAIN led
      BY <2>1, <2>2, <3>1
    <3>3. Len(grown) > Len(v.base) /\ Key(grown[m]) = <<v.step, v.attempt, 1, "request">>
      BY <2>2, <3>1, <3>2
    <3>4. QED
      BY <1>2, <2>1, <3>3 DEF Consumed
  <2>4. CASE n = Len(revisions) /\ v.base = led
    <3>1. Pending(led)
      BY <1>2, <1>3, <2>4 DEF Pending
    <3>2. Key(x) = <<v.step, v.attempt, 1, "request">>
      BY <1>2, <1>3, <2>4, <3>1 DEF Fits
    <3>3. Len(grown) > Len(v.base) /\ Key(grown[m]) = <<v.step, v.attempt, 1, "request">>
      BY <2>1, <2>2, <2>4, <3>2
    <3>4. QED
      BY <1>2, <2>1, <3>3 DEF Consumed
  <2>5. QED
    BY <1>4, <2>3, <2>4
<1>7. revisions'[n] = v
  BY <1>2
<1>8. Consumed(run.ledger, n)'
  BY <1>2, <1>3, <1>6, <1>7 DEF Consumed
<1>9. IsPrefix(revisions'[n].base, run'.ledger) /\ Settled(revisions'[n].base)
  BY <1>3, <1>4, <1>5, <1>7
<1>10. QED
  BY <1>8, <1>9 DEF RevisionOK

\* Nothing follows in a run that has stopped.
LEMMA NothingFits ==
  ASSUME IInv, PInv, Held, NEW x, Fits(x)
  PROVE  run.status \notin {"blocked", "failed", "review"}
<1>0. PICK led, last : led = run.ledger /\ last = Last(led)
  OBVIOUS
<1>1. SUFFICES ASSUME run.status \in {"blocked", "failed"} PROVE FALSE
  BY DEF Fits, Frozen
<1>2. /\ Settled(led) /\ run.step = last.step
  BY <1>0, <1>1 DEF Held, StoppedOK
<1>3. led # << >> /\ last.phase = "response"
  BY <1>0, <1>2 DEF Settled
<1>4. /\ x \in Records /\ x.phase = "request"
      /\ \/ x.step = last.step /\ FollowsResponse(led, x)
         \/ StartsGroup(run, led, x)
  BY <1>0, <1>3, LinkCases DEF Fits, Extends
<1>5. CASE x.step = last.step /\ FollowsResponse(led, x)
  <2>1. last.answer = "malformed" => last.kind = "repair"
    BY <1>0, <1>2 DEF Settled
  <2>2. last.answer = "context" /\ x.kind = "context"
    BY <1>0, <1>5, <2>1 DEF FollowsResponse
  <2>3. CapReached(led, x.step)
    BY <1>0, <1>2, <1>5, <2>2 DEF Settled
  <2>4. QED
    BY <1>0, <1>4, <2>2, <2>3 DEF Fits, Extends, IsRetry
<1>6. CASE StartsGroup(run, led, x)
  <2>1. x.kind = "initial" /\ x.step = last.step + 1
    BY <1>0, <1>1, <1>6 DEF StartsGroup
  <2>2. x.step <= run.step
    BY <1>4, <2>1 DEF Fits
  <2>3. last.step \in Nat
    BY <1>2, RunTypes
  <2>4. QED
    BY <1>2, <2>1, <2>2, <2>3
<1>7. QED
  BY <1>4, <1>5, <1>6

-----------------------------------------------------------------------------
(* The runners that stand still.                                           *)

\* What a runner asks depends on the runner alone.
LEMMA OwnRecords ==
  ASSUME NEW q \in Runners, runner'[q] = runner[q]
  PROVE  /\ Here(q)' = Here(q) /\ Response(q)' = Response(q)
         /\ run'.ledger = run.ledger =>
              /\ OpenRequest(q) => OpenRequest(q)'
              /\ run'.revision = run.revision /\ SameAuthority(q) => SameAuthority(q)'
<1>1. Here(q)' = Here(q) /\ Response(q)' = Response(q)
  BY DEF Here, Response, Record, Coordinate, HeadKey, Key
<1>2. ASSUME run'.ledger = run.ledger, OpenRequest(q) PROVE OpenRequest(q)'
  BY <1>1, <1>2 DEF OpenRequest
<1>3. ASSUME run'.ledger = run.ledger, run'.revision = run.revision, SameAuthority(q)
      PROVE  SameAuthority(q)'
  BY <1>3 DEF SameAuthority
<1>4. QED
  BY <1>1, <1>2, <1>3

LEMMA OthersGoOn ==
  ASSUME IInv, PInv, Held, NEW q \in Runners, runner'[q] = runner[q], UNCHANGED revisions,
         run'.revision = run.revision,
         run'.ledger = run.ledger \/ \E x \in Records : run'.ledger = Append(run.ledger, x)
  PROVE  GoesOn(q)'
<1>0. PICK r, led, last : r = runner[q] /\ led = r.view.ledger /\ last = Last(led)
  OBVIOUS
<1>1. GoesOn(q) /\ led \in Seq(Records) /\ run.ledger \in Seq(Records)
  BY <1>0, HeldNow
<1>2. IsPrefix(led, run.ledger)
  BY <1>0, <1>1 DEF GoesOn
<1>3. IsPrefix(led, run'.ledger) /\ (led = run'.ledger => run'.ledger = run.ledger)
  <2>1. CASE run'.ledger = run.ledger
    BY <1>2, <2>1
  <2>2. ASSUME NEW x \in Records, run'.ledger = Append(run.ledger, x)
        PROVE  IsPrefix(led, run'.ledger) /\ led # run'.ledger
    BY <1>1, <1>2, <2>2, PrefixGrows
  <2>3. QED
    BY <2>1, <2>2
<1>4. runner'[q] = r /\ Here(q)' = Here(q)
  BY <1>0, OwnRecords
<1>5. Pending(led)' = Pending(led)
  BY DEF Pending
<1>6. /\ r.at \in {"ready", "marked"} => r.view.revision = r.run.revision
      /\ r.run.revision <= Len(revisions)
      /\ r.run.revision # 0 => Len(revisions[r.run.revision].base) <= Len(led)
      /\ r.at # "idle" /\ led = run'.ledger => r.view.revision = run.revision \/ Settled(led)
  BY <1>0, <1>1, <1>3 DEF GoesOn
<1>7. /\ r.at \in {"ask", "call", "stage", "bind", "decide"} =>
           /\ led # << >> /\ Coordinate(last) = Here(q)
           /\ last.kind = r.kind /\ last.round = r.round
           /\ last.phase = IF r.at = "decide" THEN "response" ELSE "request"
      /\ r.at = "request" /\ r.kind = "initial" => r.index = 1 /\ r.round = 0
      /\ r.at = "request" /\ r.kind = "context" =>
           /\ led # << >> /\ last.phase = "response" /\ last.answer = "context"
           /\ last.step = r.run.step /\ last.attempt = r.attempt
           /\ r.index = last.index + 1 /\ r.round = last.round + 1
  BY <1>0, <1>1 DEF GoesOn
<1>8. /\ r.at \in {"ready", "marked", "request"} /\ Pending(led) /\ r.view.revision = run.revision =>
           /\ r.run.step = revisions[run.revision].step
           /\ r.attempt = revisions[run.revision].attempt
           /\ r.at = "request" => r.index = 1
      /\ r.at = "decide" /\ Pending(led) => r.run.revision # run.revision
  BY <1>0, <1>1 DEF GoesOn
<1>9. Settled(led) => Settled(led)'
  BY DEF Settled
<1>10. QED
  BY <1>0, <1>3, <1>4, <1>5, <1>6, <1>7, <1>8, <1>9 DEF GoesOn

LEMMA IdleGoesOn ==
  ASSUME IInv', NEW p \in Runners, runner'[p] = Idle
  PROVE  GoesOn(p)'
<1>1. /\ Idle.at = "idle" /\ Idle.view.ledger = << >> /\ Idle.run.revision = 0
  BY DEF Idle, Ready, View, Fresh
<1>2. 0 <= Len(revisions') /\ IsPrefix(<< >>, run'.ledger)
  <2>1. revisions' \in Seq(Revisions) /\ run'.ledger \in Seq(Records)
    BY DEF IInv, TypeOK, Runs
  <2>2. SubSeq(<< >>, 1, 0) = << >> /\ SubSeq(run'.ledger, 1, 0) = << >>
    BY <2>1
  <2>3. QED
    BY <2>1, <2>2 DEF IsPrefix
<1>3. QED
  BY <1>1, <1>2 DEF GoesOn

-----------------------------------------------------------------------------
(* Who holds what.                                                         *)

Holds(p) ==
  \/ runner[p].at \in {"stage", "bind"} /\ OpenRequest(p)
  \/ runner[p].at = "request" /\ runner[p].kind = "context" /\ SameAuthority(p)

ResponseHeld(f) == ResponseBound(f) \/ \E p \in Runners : Responding(p, f)
ExpansionHeld(e) == ExpansionBound(e) \/ \E p \in Runners : Expanding(p, e)

\* What is held stays so when a runner moves that holds nothing.
LEMMA FilesStay ==
  ASSUME Held, NEW p \in Runners, ~Holds(p),
         \A q \in Runners \ {p} : runner'[q] = runner[q],
         run'.ledger = run.ledger, run'.revision = run.revision,
         UNCHANGED <<requests, filed>>
  PROVE  /\ RequestsBound' /\ RecordsHeld'
         /\ \A f \in responses : ResponseHeld(f)'
         /\ \A e \in expansions : ExpansionHeld(e)'
<1>1. RequestsBound'
  BY DEF Held, RequestsBound
<1>2. RecordsHeld'
  <2>1. Unreferenced' = Unreferenced
    BY DEF Unreferenced
  <2>2. SUFFICES ASSUME NEW x \in Unreferenced
                 PROVE  \E q \in Runners : Staged(q)' /\ x = Response(q)'
    BY <2>1 DEF RecordsHeld
  <2>3. PICK q \in Runners : Staged(q) /\ x = Response(q)
    BY DEF Held, RecordsHeld
  <2>4. q # p
    BY <2>3 DEF Staged, Holds
  <2>5. Staged(q)' /\ x = Response(q)'
    BY <2>3, <2>4, OwnRecords DEF Staged
  <2>6. QED
    BY <2>5
<1>3. ASSUME NEW f \in responses PROVE ResponseHeld(f)'
  <2>1. CASE ResponseBound(f)
    BY <2>1 DEF ResponseHeld, ResponseBound
  <2>2. ASSUME NEW q \in Runners, Responding(q, f) PROVE ResponseHeld(f)'
    <3>1. q # p
      BY <2>2 DEF Responding, Holds
    <3>2. Responding(q, f)'
      BY <2>2, <3>1, OwnRecords DEF Responding
    <3>3. QED
      BY <3>2 DEF ResponseHeld
  <2>3. QED
    BY <2>1, <2>2 DEF Held, ResponsesHeld
<1>4. ASSUME NEW e \in expansions PROVE ExpansionHeld(e)'
  <2>1. CASE ExpansionBound(e)
    BY <2>1 DEF ExpansionHeld, ExpansionBound
  <2>2. ASSUME NEW q \in Runners, Expanding(q, e) PROVE ExpansionHeld(e)'
    <3>1. q # p
      BY <2>2 DEF Expanding, Holds
    <3>2. Expanding(q, e)'
      BY <2>2, <3>1, OwnRecords DEF Expanding
    <3>3. QED
      BY <3>2 DEF ExpansionHeld
  <2>3. QED
    BY <2>1, <2>2 DEF Held, ExpansionsHeld
<1>5. QED
  BY <1>1, <1>2, <1>3, <1>4

\* With the next record everything is bound that was held.
LEMMA FilesGrow ==
  ASSUME IInv, PInv, Held, IInv', NEW x, Fits(x),
         requests' = requests \/ (requests' = requests \cup {Coordinate(x)} /\ x.phase = "request"),
         filed' \subseteq filed \cup {x}, UNCHANGED <<responses, expansions>>
  PROVE  RequestsBound' /\ RecordsHeld' /\ ResponsesHeld' /\ ExpansionsHeld'
<1>0. PICK led, grown : led = run.ledger /\ grown = Append(led, x)
  OBVIOUS
<1>1. led \in Seq(Records) /\ x \in Records /\ x \in filed' /\ Extends(x) /\ run'.ledger = grown
  BY <1>0, HeadOfLedger DEF Fits, Extends
<1>2. /\ DOMAIN grown = 1 .. Len(led) + 1 /\ DOMAIN led = 1 .. Len(led) /\ Len(led) \in Nat
      /\ \A i \in DOMAIN led : i \in DOMAIN grown /\ grown[i] = led[i]
      /\ Len(led) + 1 \in DOMAIN grown /\ grown[Len(led) + 1] = x
  BY <1>0, <1>1, Appended
<1>3. ASSUME NEW p \in Runners, OpenRequest(p)
      PROVE  x.phase = "response" /\ Coordinate(x) = Here(p) /\ Coordinate(Last(led)) = Here(p)
             /\ led # << >>
  <2>1. led # << >> /\ Last(led).phase = "request" /\ Coordinate(Last(led)) = Here(p)
    BY <1>0, <1>3 DEF OpenRequest
  <2>2. QED
    BY <1>0, <1>1, <2>1, LinkCases
<1>4. RequestsBound'
  <2>1. SUFFICES ASSUME NEW c \in requests'
                 PROVE  \E i \in DOMAIN grown : grown[i].phase = "request" /\ Coordinate(grown[i]) = c
    BY <1>1 DEF RequestsBound
  <2>2. CASE c \in requests
    <3>1. PICK i \in DOMAIN led : led[i].phase = "request" /\ Coordinate(led[i]) = c
      BY <1>0, <2>2 DEF Held, RequestsBound
    <3>2. QED
      BY <1>2, <3>1
  <2>3. CASE c = Coordinate(x) /\ x.phase = "request"
    BY <1>2, <2>3
  <2>4. QED
    BY <2>2, <2>3
<1>5. RecordsHeld'
  <2>1. ASSUME NEW y \in filed', \A i \in DOMAIN grown : grown[i] # y PROVE FALSE
    <3>1. y # x /\ y \in filed /\ \A i \in DOMAIN led : led[i] # y
      BY <1>2, <2>1
    <3>2. PICK p \in Runners : Staged(p) /\ y = Response(p)
      BY <1>0, <3>1 DEF Held, RecordsHeld, Unreferenced
    <3>3. x.phase = "response" /\ Coordinate(x) = Here(p)
      BY <1>3, <3>2 DEF Staged
    <3>4. Key(x) = Key(y)
      BY <3>2, <3>3 DEF Response, Here, Record, Coordinate, Key
    <3>5. FiledOK'
      BY DEF IInv
    <3>6. \A a, b \in filed' : Key(a) = Key(b) => a = b
      BY <3>5 DEF FiledOK
    <3>7. QED
      BY <1>1, <2>1, <3>1, <3>4, <3>6
  <2>2. Unreferenced' = {}
    BY <1>1, <2>1 DEF Unreferenced
  <2>3. QED
    BY <2>2 DEF RecordsHeld
<1>6. ResponsesHeld'
  <2>1. SUFFICES ASSUME NEW f \in responses
                 PROVE  \E i \in DOMAIN grown : grown[i].phase = "response" /\ Coordinate(grown[i]) = f.to
    BY <1>1 DEF ResponsesHeld, ResponseBound
  <2>2. CASE ResponseBound(f)
    BY <1>0, <1>2, <2>2 DEF ResponseBound
  <2>3. ASSUME NEW p \in Runners, Responding(p, f)
        PROVE  \E i \in DOMAIN grown : grown[i].phase = "response" /\ Coordinate(grown[i]) = f.to
    <3>1. x.phase = "response" /\ Coordinate(x) = f.to
      BY <1>3, <2>3 DEF Responding
    <3>2. QED
      BY <1>2, <3>1
  <2>4. QED
    BY <2>2, <2>3 DEF Held, ResponsesHeld
<1>7. ExpansionsHeld'
  <2>1. SUFFICES ASSUME NEW e \in expansions
                 PROVE  \E i \in DOMAIN grown : <<grown[i].step, grown[i].attempt, grown[i].round>> = e
    BY <1>1 DEF ExpansionsHeld, ExpansionBound
  <2>2. CASE ExpansionBound(e)
    BY <1>0, <1>2, <2>2 DEF ExpansionBound
  <2>3. ASSUME NEW p \in Runners, Expanding(p, e)
        PROVE  \E i \in DOMAIN grown : <<grown[i].step, grown[i].attempt, grown[i].round>> = e
    <3>0. PICK r, last : r = runner[p] /\ last = Last(led)
      OBVIOUS
    <3>1. /\ r.at = "request" /\ r.kind = "context" /\ r.view.ledger = led
          /\ e = <<r.run.step, r.attempt, r.round>>
      BY <1>0, <2>3, <3>0 DEF Expanding, SameAuthority
    <3>2. /\ led # << >> /\ last.answer = "context" /\ last.step = r.run.step
          /\ last.attempt = r.attempt /\ r.round = last.round + 1
      BY <3>0, <3>1, HeldNow DEF GoesOn
    <3>3. ~CapReached(led, r.run.step)
      BY <3>0, <3>1, OwnType DEF RunnerFact
    <3>4. x.step = last.step /\ x.attempt = last.attempt /\ x.round = last.round + 1
      BY <1>0, <3>0, <3>2, <3>3, NextRound
    <3>5. <<x.step, x.attempt, x.round>> = e
      BY <3>1, <3>2, <3>4
    <3>6. QED
      BY <1>2, <3>5
  <2>4. QED
    BY <2>2, <2>3 DEF Held, ExpansionsHeld
<1>8. QED
  BY <1>4, <1>5, <1>6, <1>7

LEMMA HeldStep ==
  ASSUME IInv, PInv, Held, NEW p \in Runners, UNCHANGED revisions,
         \A q \in Runners \ {p} : runner'[q] = runner[q],
         run'.revision = run.revision,
         \/ run'.ledger = run.ledger /\ StoppedOK'
         \/ run'.status = run.status /\ \E x \in Records : Fits(x),
         GoesOn(p)', RequestsBound', RecordsHeld', ResponsesHeld', ExpansionsHeld'
  PROVE  Held'
<1>1. run'.ledger = run.ledger \/ \E x \in Records : run'.ledger = Append(run.ledger, x)
  BY DEF Fits, Extends
<1>2. \A q \in Runners : GoesOn(q)'
  <2>1. SUFFICES ASSUME NEW q \in Runners \ {p} PROVE GoesOn(q)'
    OBVIOUS
  <2>2. QED
    BY <1>1, OthersGoOn
<1>3. run'.revision = Len(revisions')
  BY DEF Held
<1>4. InOrder' /\ StoppedOK' /\ \A n \in DOMAIN revisions' : RevisionOK(n)'
  <2>1. CASE run'.ledger = run.ledger /\ StoppedOK'
    <3>1. InOrder'
      BY <2>1 DEF Held, InOrder
    <3>2. \A n \in DOMAIN revisions' : RevisionOK(n)'
      <4>1. SUFFICES ASSUME NEW n \in DOMAIN revisions PROVE RevisionOK(n)'
        OBVIOUS
      <4>2. RevisionOK(n)
        BY DEF Held
      <4>3. Consumed(run.ledger, n) => Consumed(run.ledger, n)'
        BY <2>1 DEF Consumed
      <4>4. QED
        BY <2>1, <4>2, <4>3 DEF RevisionOK
    <3>3. QED
      BY <2>1, <3>1, <3>2
  <2>2. ASSUME NEW x \in Records, Fits(x), run'.status = run.status
        PROVE  InOrder' /\ StoppedOK' /\ \A n \in DOMAIN revisions' : RevisionOK(n)'
    <3>1. StoppedOK'
      BY <2>2, NothingFits DEF StoppedOK
    <3>2. QED
      BY <2>2, <3>1, GrownOrder, GrownRevisions
  <2>3. QED
    BY <2>1, <2>2
<1>5. QED
  BY <1>2, <1>3, <1>4 DEF Held

\* A runner moves that holds nothing, and files nothing.
LEMMA QuietStep ==
  ASSUME IInv, PInv, Held, NEW p \in Runners, ~Holds(p), UNCHANGED revisions,
         \A q \in Runners \ {p} : runner'[q] = runner[q],
         run'.ledger = run.ledger, run'.revision = run.revision, StoppedOK',
         UNCHANGED <<requests, responses, filed, expansions>>, GoesOn(p)'
  PROVE  Held'
<1>1. /\ RequestsBound' /\ RecordsHeld'
      /\ \A f \in responses : ResponseHeld(f)'
      /\ \A e \in expansions : ExpansionHeld(e)'
  BY FilesStay
<1>2. ResponsesHeld' /\ ExpansionsHeld'
  BY <1>1 DEF ResponsesHeld, ExpansionsHeld, ResponseHeld, ExpansionHeld
<1>3. QED
  BY <1>1, <1>2, HeldStep

LEMMA SameRun ==
  ASSUME Held, UNCHANGED run
  PROVE  /\ StoppedOK' /\ run'.ledger = run.ledger /\ run'.revision = run.revision
  BY DEF Held, StoppedOK

\* What extends the ledger is what is appended to it.
LEMMA GrowsBy ==
  ASSUME IInv, Grows, NEW x \in Records, run'.ledger = Append(run.ledger, x)
  PROVE  Extends(x)
<1>1. PICK led : led = run.ledger
  OBVIOUS
<1>2. led \in Seq(Records)
  BY <1>1, HeadOfLedger
<1>3. Append(led, x) # led /\ \A y : Append(led, x) = Append(led, y) => x = y
  <2>1. Len(Append(led, x)) = Len(led) + 1 /\ Len(led) \in Nat
    BY <1>2
  <2>2. \A y : Append(led, y)[Len(led) + 1] = y
    BY <1>2
  <2>3. QED
    BY <2>1, <2>2
<1>4. PICK y \in filed' : Extends(y)
  BY <1>1, <1>3 DEF Grows
<1>5. x = y
  BY <1>1, <1>3, <1>4 DEF Extends
<1>6. QED
  BY <1>4, <1>5

\* The request at the head is the one a runner goes on with, if it has its coordinate.
LEMMA HeadIsOwn ==
  ASSUME IInv, PInv, Held, NEW p \in Runners,
         runner[p].at \in {"ask", "call", "stage", "bind"}, OpenRequest(p)
  PROVE  /\ run.ledger # << >> /\ Last(run.ledger) = Last(runner[p].view.ledger)
         /\ Last(run.ledger).phase = "request"
         /\ Last(run.ledger).round = runner[p].round /\ Last(run.ledger).kind = runner[p].kind
         /\ Response(p).prev = HeadKey(run.ledger) /\ Response(p).phase = "response"
         /\ Response(p).round = Last(run.ledger).round
         /\ Coordinate(Response(p)) = Coordinate(Last(run.ledger))
         /\ Links(run, run.ledger, Response(p)) /\ ~Frozen /\ ~Pending(run.ledger)
<1>0. PICK r, led, seen : r = runner[p] /\ led = run.ledger /\ seen = r.view.ledger
  OBVIOUS
<1>1. led # << >> /\ Last(led).phase = "request" /\ Coordinate(Last(led)) = Here(p)
  BY <1>0 DEF OpenRequest
<1>2. /\ seen # << >> /\ Coordinate(Last(seen)) = Here(p) /\ Last(seen).phase = "request"
      /\ Last(seen).kind = r.kind /\ Last(seen).round = r.round /\ seen \in Seq(Records)
  BY <1>0, HeldNow DEF GoesOn
<1>3. Last(led) = Last(seen)
  <2>1. Last(led) \in filed
    BY <1>0, <1>1, HeadOfLedger
  <2>2. Last(seen) \in filed
    BY <1>0, <1>2, LastOf, OwnType DEF RunnerFact
  <2>3. Key(Last(led)) = Key(Last(seen))
    BY <1>1, <1>2 DEF Key, Coordinate
  <2>4. QED
    BY <2>1, <2>2, <2>3 DEF IInv, FiledOK
<1>4. /\ Response(p).prev = HeadKey(seen) /\ Response(p).phase = "response"
      /\ Response(p).round = r.round /\ Coordinate(Response(p)) = Here(p)
  BY <1>0 DEF Response, Record, Here, Coordinate
<1>5. HeadKey(seen) = HeadKey(led)
  BY <1>1, <1>2, <1>3 DEF HeadKey
<1>6. Links(run, led, Response(p))
  BY <1>1, <1>4, <1>5 DEF Links
<1>7. ~Settled(led)
  BY <1>1 DEF Settled
<1>8. ~Frozen
  BY <1>0, <1>7 DEF Frozen, Held, StoppedOK
<1>9. ~Pending(led)
  <2>1. SUFFICES ASSUME Pending(led) PROVE FALSE
    OBVIOUS
  <2>2. run.revision \in DOMAIN revisions /\ RevisionOK(run.revision)
    <3>1. run.revision \in 1 .. Len(revisions)
      BY <2>1, HeldNow DEF Pending
    <3>2. QED
      BY <3>1, HeldNow
  <2>3. QED
    BY <1>7, <2>1, <2>2 DEF RevisionOK, Pending
<1>10. QED
  BY <1>0, <1>1, <1>2, <1>3, <1>4, <1>5, <1>6, <1>8, <1>9

\* Its record, where one is filed, is the one the runner would file.
LEMMA StagedIsOwn ==
  ASSUME IInv, PInv, Held, NEW p \in Runners, runner[p].at \in {"stage", "bind"},
         OpenRequest(p), NEW z \in filed, Key(z) = Key(Response(p))
  PROVE  z = Response(p) /\ \A i \in DOMAIN run.ledger : run.ledger[i] # z
<1>0. PICK y, led : y = Response(p) /\ led = run.ledger
  OBVIOUS
<1>1. /\ led # << >> /\ Last(led).phase = "request"
      /\ Last(led).round = runner[p].round /\ Last(led).kind = runner[p].kind
      /\ y.prev = HeadKey(led) /\ y.phase = "response"
      /\ Coordinate(y) = Coordinate(Last(led))
  BY <1>0, HeadIsOwn
<1>2. z.phase = "response" /\ Coordinate(z) = Coordinate(Last(led)) /\ z \in Records
  <2>1. z \in Records
    BY RunTypes
  <2>2. QED
    BY <1>0, <1>1, <2>1 DEF Key, Coordinate
<1>3. /\ led \in Seq(Records) /\ Len(led) \in DOMAIN led /\ Last(led) = led[Len(led)]
  BY <1>0, <1>1, HeadOfLedger
<1>4. ASSUME NEW i \in DOMAIN led, led[i] = z PROVE FALSE
  <2>1. i % 2 # 1 /\ i \in Nat /\ i >= 1 /\ i <= Len(led) /\ Len(led) \in Nat
    <3>1. i \in 1 .. Len(led) /\ Len(led) \in Nat
      BY <1>3
    <3>2. QED
      BY <1>0, <1>2, <1>4, <3>1 DEF IInv, LedgerOK
  <2>2. i - 1 \in DOMAIN led /\ i > 1
    <3>1. i # 1
      BY <2>1
    <3>2. i - 1 \in 1 .. Len(led) /\ i > 1
      BY <2>1, <3>1
    <3>3. QED
      BY <1>3, <3>2
  <2>3. Coordinate(led[i - 1]) = Coordinate(z) /\ led[i - 1].phase = "request"
    <3>1. Coordinate(led[i - 1]) = Coordinate(z)
      BY <1>0, <1>2, <1>4 DEF IInv, LedgerOK
    <3>2. (i - 1) % 2 = 1
      BY <2>1
    <3>3. QED
      BY <1>0, <2>2, <3>1, <3>2 DEF IInv, LedgerOK
  <2>4. Key(led[i - 1]) = Key(led[Len(led)])
    BY <1>1, <1>2, <1>3, <2>3 DEF Key, Coordinate
  <2>5. led[i - 1] = led[Len(led)]
    BY <1>0, <1>3, <2>2, <2>4 DEF IInv, LedgerOK, FiledOK
  <2>6. i - 1 = Len(led)
    BY <1>0, <1>3, <2>2, <2>5 DEF IInv, LedgerOK, IsInjective
  <2>7. QED
    BY <2>1, <2>6
<1>5. PICK q \in Runners : Staged(q) /\ z = Response(q)
  BY <1>0, <1>4 DEF Held, RecordsHeld, Unreferenced
<1>6. /\ runner[q].at = "bind" /\ OpenRequest(q)
      /\ Last(led).round = runner[q].round /\ Last(led).kind = runner[q].kind
      /\ z.prev = HeadKey(led)
  BY <1>0, <1>5, HeadIsOwn DEF Staged
<1>7. runner[p].answer = runner[q].answer
  <2>1. [to |-> Here(p), answer |-> runner[p].answer] \in responses
    BY OwnType DEF RunnerFact, ResponseFile
  <2>2. [to |-> Here(q), answer |-> runner[q].answer] \in responses
    BY <1>6, OwnType DEF RunnerFact, ResponseFile
  <2>3. Here(p) = Here(q)
    BY <1>6 DEF OpenRequest
  <2>4. QED
    BY <2>1, <2>2, <2>3 DEF IInv, OneAnswer
<1>8. z = Response(p)
  <2>1. z = [step |-> runner[q].run.step, attempt |-> runner[q].attempt,
             index |-> runner[q].index, kind |-> runner[q].kind, round |-> runner[q].round,
             phase |-> "response", answer |-> runner[q].answer, prev |-> HeadKey(led)]
    BY <1>5, <1>6 DEF Response, Record
  <2>2. y = [step |-> runner[p].run.step, attempt |-> runner[p].attempt,
             index |-> runner[p].index, kind |-> runner[p].kind, round |-> runner[p].round,
             phase |-> "response", answer |-> runner[p].answer, prev |-> HeadKey(led)]
    BY <1>0, <1>1 DEF Response, Record
  <2>3. /\ runner[p].run.step = runner[q].run.step /\ runner[p].attempt = runner[q].attempt
        /\ runner[p].index = runner[q].index
    BY <1>6 DEF OpenRequest, Here, Record, Coordinate
  <2>4. runner[p].kind = runner[q].kind /\ runner[p].round = runner[q].round
    BY <1>1, <1>6
  <2>5. QED
    BY <1>0, <1>7, <2>1, <2>2, <2>3, <2>4
<1>9. QED
  BY <1>0, <1>4, <1>8

-----------------------------------------------------------------------------
(* The steps of a runner that hold.                                        *)

\* A runner goes on in its exchange.
LEMMA ExchangeGoesOn ==
  ASSUME IInv, PInv, Held, NEW p \in Runners, NEW r, runner'[p] = r, UNCHANGED <<run, revisions>>,
         runner[p].at \in {"ask", "call", "stage"}, r.at \in {"call", "stage", "bind"},
         r.run = runner[p].run, r.view = runner[p].view, r.attempt = runner[p].attempt,
         r.index = runner[p].index, r.kind = runner[p].kind, r.round = runner[p].round
  PROVE  GoesOn(p)' /\ Here(p)' = Here(p)
<1>1. Here(p)' = Here(p)
  BY DEF Here, Record, Coordinate
<1>2. PICK led, last : led = runner[p].view.ledger /\ last = Last(led)
  OBVIOUS
<1>3. /\ IsPrefix(led, run.ledger) /\ r.run.revision <= Len(revisions)
      /\ r.run.revision # 0 => Len(revisions[r.run.revision].base) <= Len(led)
      /\ led = run.ledger => r.view.revision = run.revision \/ Settled(led)
      /\ led # << >> /\ Coordinate(last) = Here(p)
      /\ last.kind = r.kind /\ last.round = r.round /\ last.phase = "request"
  BY <1>2, HeldNow DEF GoesOn
<1>4. QED
  BY <1>1, <1>2, <1>3 DEF GoesOn

LEMMA AskHolds ==
  ASSUME IInv, PInv, Held, IInv', NEW p \in Runners, Ask(p)
  PROVE  Held'
<1>0. PICK r : r = [runner[p] EXCEPT !.at = "call"]
  OBVIOUS
<1>1. runner[p] \in Progress /\ runner[p].at = "ask"
  BY OwnType DEF Ask
<1>2. /\ r.at = "call" /\ r.run = runner[p].run /\ r.view = runner[p].view
      /\ r.attempt = runner[p].attempt /\ r.index = runner[p].index
      /\ r.kind = runner[p].kind /\ r.round = runner[p].round
  BY <1>0, <1>1 DEF Progress
<1>3. runner'[p] = r /\ \A q \in Runners \ {p} : runner'[q] = runner[q]
  BY <1>0 DEF Ask, Goto, IInv, TypeOK
<1>4. UNCHANGED <<run, requests, responses, filed, expansions, revisions>>
  BY DEF Ask, files
<1>5. GoesOn(p)'
  BY <1>1, <1>2, <1>3, <1>4, ExchangeGoesOn
<1>6. ~Holds(p)
  BY <1>1 DEF Holds
<1>7. QED
  BY <1>3, <1>4, <1>5, <1>6, SameRun, QuietStep

LEMMA WriteResponseHolds ==
  ASSUME IInv, PInv, Held, IInv', NEW p \in Runners, NEW a \in Answers, WriteResponse(p, a)
  PROVE  Held'
<1>0. PICK r, f : r = [runner[p] EXCEPT !.at = "stage", !.answer = a] /\ f = ResponseFile(p, a)
  OBVIOUS
<1>1. runner[p] \in Progress /\ runner[p].at = "call"
  BY OwnType DEF WriteResponse
<1>2. /\ r.at = "stage" /\ r.run = runner[p].run /\ r.view = runner[p].view
      /\ r.attempt = runner[p].attempt /\ r.index = runner[p].index
      /\ r.kind = runner[p].kind /\ r.round = runner[p].round
  BY <1>0, <1>1 DEF Progress
<1>3. runner'[p] = r /\ \A q \in Runners \ {p} : runner'[q] = runner[q]
  BY <1>0 DEF WriteResponse, IInv, TypeOK
<1>4. UNCHANGED <<run, requests, filed, expansions, revisions>>
  BY DEF WriteResponse
<1>5. GoesOn(p)' /\ Here(p)' = Here(p)
  BY <1>1, <1>2, <1>3, <1>4, ExchangeGoesOn
<1>6. ~Holds(p)
  BY <1>1 DEF Holds
<1>7. StoppedOK' /\ run'.ledger = run.ledger /\ run'.revision = run.revision
  BY <1>4, SameRun
<1>8. /\ RequestsBound' /\ RecordsHeld'
      /\ \A g \in responses : ResponseHeld(g)'
      /\ \A e \in expansions : ExpansionHeld(e)'
  BY <1>3, <1>4, <1>6, <1>7, FilesStay
<1>9. ExpansionsHeld'
  BY <1>4, <1>8 DEF ExpansionsHeld, ExpansionHeld
<1>10. ResponsesHeld'
  <2>1. SUFFICES ASSUME NEW g \in responses' PROVE ResponseHeld(g)'
    BY DEF ResponsesHeld, ResponseHeld
  <2>2. g \in responses \/ (g = f /\ f \notin responses)
    BY <1>0 DEF WriteResponse
  <2>3. CASE g = f /\ f \notin responses
    <3>1. OpenRequest(p)
      BY <1>0, <2>3 DEF WriteResponse, MayRespond
    <3>2. OpenRequest(p)'
      BY <1>5, <1>7, <3>1 DEF OpenRequest
    <3>3. Responding(p, g)'
      BY <1>0, <1>2, <1>3, <1>5, <2>3, <3>2 DEF Responding, ResponseFile
    <3>4. QED
      BY <3>3 DEF ResponseHeld
  <2>4. QED
    BY <1>8, <2>2, <2>3
<1>11. QED
  BY <1>3, <1>4, <1>5, <1>7, <1>8, <1>9, <1>10, HeldStep

LEMMA StageResponseHolds ==
  ASSUME IInv, PInv, Held, IInv', NEW p \in Runners, StageResponse(p)
  PROVE  Held'
<1>0. PICK r, y : r = [runner[p] EXCEPT !.at = "bind"] /\ y = Response(p)
  OBVIOUS
<1>1. runner[p] \in Progress /\ runner[p].at = "stage" /\ MayStage(p)
  BY OwnType DEF StageResponse
<1>2. /\ r.at = "bind" /\ r.run = runner[p].run /\ r.view = runner[p].view
      /\ r.attempt = runner[p].attempt /\ r.index = runner[p].index
      /\ r.kind = runner[p].kind /\ r.round = runner[p].round /\ r.answer = runner[p].answer
  BY <1>0, <1>1 DEF Progress
<1>3. runner'[p] = r /\ \A q \in Runners \ {p} : runner'[q] = runner[q]
  BY <1>0 DEF StageResponse, Goto, IInv, TypeOK
<1>4. UNCHANGED <<run, requests, responses, expansions, revisions>> /\ filed' = filed \cup {y}
  BY <1>0 DEF StageResponse
<1>5. GoesOn(p)' /\ Here(p)' = Here(p)
  BY <1>1, <1>2, <1>3, <1>4, ExchangeGoesOn
<1>6. StoppedOK' /\ run'.ledger = run.ledger /\ run'.revision = run.revision
  BY <1>4, SameRun
<1>7. CASE ~OpenRequest(p)
  <2>1. filed' = filed
    BY <1>0, <1>1, <1>4, <1>7 DEF MayStage
  <2>2. ~Holds(p)
    BY <1>1, <1>7 DEF Holds
  <2>3. QED
    BY <1>3, <1>4, <1>5, <1>6, <2>1, <2>2, QuietStep
<1>8. CASE OpenRequest(p)
  <2>1. OpenRequest(p)' /\ Response(p)' = y
    <3>1. OpenRequest(p)'
      BY <1>5, <1>6, <1>8 DEF OpenRequest
    <3>2. Response(p)' = y
      BY <1>0, <1>2, <1>3 DEF Response, Record, HeadKey, Key
    <3>3. QED
      BY <3>1, <3>2
  <2>2. Staged(p)' /\ y = Response(p)'
    BY <1>2, <1>3, <2>1 DEF Staged
  <2>3. RequestsBound'
    BY <1>4, <1>6 DEF Held, RequestsBound
  <2>4. RecordsHeld'
    <3>1. SUFFICES ASSUME NEW x \in Unreferenced'
                   PROVE  \E q \in Runners : Staged(q)' /\ x = Response(q)'
      BY DEF RecordsHeld
    <3>2. x = y \/ x \in Unreferenced
      BY <1>4, <1>6 DEF Unreferenced
    <3>3. CASE x = y
      BY <2>2, <3>3
    <3>4. CASE x \in Unreferenced
      <4>1. PICK q \in Runners : Staged(q) /\ x = Response(q)
        BY <3>4 DEF Held, RecordsHeld
      <4>2. q # p
        BY <1>1, <4>1 DEF Staged
      <4>3. Staged(q)' /\ x = Response(q)'
        BY <1>3, <1>6, <4>1, <4>2, OwnRecords DEF Staged
      <4>4. QED
        BY <4>3
    <3>5. QED
      BY <3>2, <3>3, <3>4
  <2>5. ResponsesHeld'
    <3>1. SUFFICES ASSUME NEW f \in responses PROVE ResponseHeld(f)'
      BY <1>4 DEF ResponsesHeld, ResponseHeld
    <3>2. CASE ResponseBound(f)
      BY <1>6, <3>2 DEF ResponseHeld, ResponseBound
    <3>3. ASSUME NEW q \in Runners, Responding(q, f) PROVE ResponseHeld(f)'
      <4>1. CASE q = p
        <5>1. Responding(p, f)'
          BY <1>2, <1>3, <1>5, <2>1, <3>3, <4>1 DEF Responding
        <5>2. QED
          BY <5>1 DEF ResponseHeld
      <4>2. CASE q # p
        <5>1. Responding(q, f)'
          BY <1>3, <1>6, <3>3, <4>2, OwnRecords DEF Responding
        <5>2. QED
          BY <5>1 DEF ResponseHeld
      <4>3. QED
        BY <4>1, <4>2
    <3>4. QED
      BY <3>2, <3>3 DEF Held, ResponsesHeld
  <2>6. ExpansionsHeld'
    <3>1. SUFFICES ASSUME NEW e \in expansions PROVE ExpansionHeld(e)'
      BY <1>4 DEF ExpansionsHeld, ExpansionHeld
    <3>2. CASE ExpansionBound(e)
      BY <1>6, <3>2 DEF ExpansionHeld, ExpansionBound
    <3>3. ASSUME NEW q \in Runners, Expanding(q, e) PROVE ExpansionHeld(e)'
      <4>1. q # p
        BY <1>1, <3>3 DEF Expanding
      <4>2. Expanding(q, e)'
        BY <1>3, <1>6, <3>3, <4>1, OwnRecords DEF Expanding
      <4>3. QED
        BY <4>2 DEF ExpansionHeld
    <3>4. QED
      BY <3>2, <3>3 DEF Held, ExpansionsHeld
  <2>7. QED
    BY <1>3, <1>4, <1>5, <1>6, <2>3, <2>4, <2>5, <2>6, HeldStep
<1>9. QED
  BY <1>7, <1>8

LEMMA MarkRunningHolds ==
  ASSUME IInv, PInv, Held, IInv', NEW p \in Runners, MarkRunning(p)
  PROVE  Held'
<1>0. PICK r, m, a : r = runner[p] /\ m = Marked(p) /\ a = NextAttempt(p)
  OBVIOUS
<1>1. r.at = "ready" /\ r \in Progress /\ r.run \in Runs
  BY <1>0, OwnType DEF MarkRunning
<1>2. /\ m.ledger = r.run.ledger /\ m.revision = r.run.revision
      /\ m.status = "running" /\ m.step = r.run.step
  BY <1>0, <1>1 DEF Marked, Runs
<1>3. run' = m /\ run \in {r.run, m}
  BY <1>0, <1>2 DEF MarkRunning, MayPublish
<1>4. UNCHANGED <<requests, responses, filed, expansions, revisions>>
  BY DEF MarkRunning, files
<1>5. PICK e : e = [r EXCEPT !.at = "marked", !.run = m, !.attempt = a]
  OBVIOUS
<1>6. e.at = "marked" /\ e.view = r.view /\ e.run = m /\ e.attempt = a
  BY <1>1, <1>5 DEF Progress
<1>7. runner'[p] = e /\ \A q \in Runners \ {p} : runner'[q] = runner[q]
  BY <1>0, <1>5 DEF MarkRunning, IInv, TypeOK
<1>8. run'.ledger = run.ledger /\ run'.revision = run.revision /\ StoppedOK'
  BY <1>2, <1>3 DEF StoppedOK
<1>9. PICK led : led = r.view.ledger
  OBVIOUS
<1>10. /\ IsPrefix(led, run.ledger) /\ r.run.revision <= Len(revisions)
       /\ r.view.revision = r.run.revision
       /\ r.run.revision # 0 => Len(revisions[r.run.revision].base) <= Len(led)
       /\ led = run.ledger => r.view.revision = run.revision \/ Settled(led)
       /\ Pending(led) /\ r.view.revision = run.revision =>
            /\ r.run.step = revisions[run.revision].step
            /\ r.attempt = revisions[run.revision].attempt
  BY <1>0, <1>1, <1>9, HeldNow DEF GoesOn
<1>11. Pending(led) => r.attempt # revisions[run.revision].attempt \/ a = r.attempt
  <2>1. ASSUME Pending(led) PROVE revisions[run.revision].attempt # 0
    <3>1. run.revision \in DOMAIN revisions
      BY <2>1, HeldNow DEF Pending
    <3>2. revisions[run.revision] \in Revisions
      BY <3>1, HeldNow
    <3>3. QED
      BY <3>2, LedgerAssumption DEF Revisions
  <2>2. QED
    BY <1>0, <2>1 DEF NextAttempt
<1>12. GoesOn(p)'
  <2>1. Pending(led)' => Pending(led)
    BY <1>4, <1>8 DEF Pending
  <2>2. Settled(led) => Settled(led)'
    BY DEF Settled
  <2>3. QED
    BY <1>2, <1>4, <1>6, <1>7, <1>8, <1>9, <1>10, <1>11, <2>1, <2>2 DEF GoesOn
<1>13. ~Holds(p)
  BY <1>0, <1>1 DEF Holds
<1>14. QED
  BY <1>4, <1>7, <1>8, <1>12, <1>13, QuietStep

\* How a runner enters its attempt.
LEMMA EnteredGoesOn ==
  ASSUME IInv, NEW p \in Runners, runner[p].attempt # 0
  PROVE  LET r == runner[p]
             led == r.view.ledger
             group == Group(led, r.run.step, r.attempt)
             e == Entered(p)
         IN
         /\ group = {} => e.at = "request" /\ e.kind = "initial" /\ e.index = 1 /\ e.round = 0
         /\ Len(led) \in group =>
              /\ led # << >> /\ e.index = Last(led).index /\ e.kind = Last(led).kind
              /\ e.round = Last(led).round /\ Last(led).step = r.run.step
              /\ Last(led).attempt = r.attempt
              /\ e.at = IF Last(led).phase = "request" THEN "ask" ELSE "decide"
              /\ Last(led).phase \in Phases
<1>0. PICK r, led, group : /\ r = runner[p] /\ led = r.view.ledger
                           /\ group = Group(led, r.run.step, r.attempt)
  OBVIOUS
<1>1. r \in Progress /\ led \in Seq(Records)
  BY <1>0, OwnType
<1>2. CASE group = {}
  <2>1. Entered(p) = [r EXCEPT !.at = "request", !.index = 1, !.kind = "initial", !.round = 0]
    BY <1>0, <1>2 DEF Entered
  <2>2. /\ Entered(p).at = "request" /\ Entered(p).kind = "initial"
        /\ Entered(p).index = 1 /\ Entered(p).round = 0
    BY <1>1, <2>1 DEF Progress
  <2>3. QED
    BY <1>0, <1>2, <2>2
<1>3. CASE Len(led) \in group
  <2>1. group \subseteq 1 .. Len(led) /\ Len(led) \in Nat
    BY <1>0, <1>1 DEF Group
  <2>2. Highest(group) = Len(led)
    BY <1>3, <2>1, HighestAtEnd
  <2>3. /\ led # << >> /\ Len(led) \in DOMAIN led /\ led[Len(led)].step = r.run.step
        /\ led[Len(led)].attempt = r.attempt
    BY <1>0, <1>1, <1>3, <2>1 DEF Group
  <2>4. PICK last : last = Last(led)
    OBVIOUS
  <2>5. last = led[Len(led)] /\ last \in Records
    BY <1>1, <2>3, <2>4, LastOf
  <2>6. Entered(p) = [r EXCEPT !.at = IF last.phase = "request" THEN "ask" ELSE "decide",
                               !.index = last.index, !.kind = last.kind,
                               !.round = last.round, !.answer = last.answer]
    BY <1>0, <1>3, <2>2, <2>5 DEF Entered
  <2>7. /\ Entered(p).at = IF last.phase = "request" THEN "ask" ELSE "decide"
        /\ Entered(p).index = last.index /\ Entered(p).kind = last.kind
        /\ Entered(p).round = last.round
    BY <1>1, <2>6 DEF Progress
  <2>8. last.phase \in Phases
    BY <2>5 DEF Records
  <2>9. QED
    BY <1>0, <1>3, <2>1, <2>3, <2>4, <2>5, <2>7, <2>8
<1>4. CASE group # {} /\ Len(led) \notin group
  BY <1>0, <1>4
<1>5. QED
  BY <1>2, <1>3, <1>4

LEMMA WritePromptHolds ==
  ASSUME IInv, PInv, Held, IInv', NEW p \in Runners, WritePrompt(p)
  PROVE  Held'
<1>0. PICK r, e, led, last : r = runner[p] /\ e = Entered(p) /\ led = r.view.ledger /\ last = Last(led)
  OBVIOUS
<1>1. r.at = "marked" /\ r.attempt # 0
  BY <1>0, OwnType DEF WritePrompt, RunnerFact
<1>2. /\ e.at \in {"request", "ask", "decide"} /\ e.run = r.run /\ e.view = r.view
      /\ e.attempt = r.attempt
  BY <1>0, <1>1, EnteredType
<1>3. runner'[p] = e /\ \A q \in Runners \ {p} : runner'[q] = runner[q]
  BY <1>0 DEF WritePrompt, IInv, TypeOK
<1>4. UNCHANGED <<run, requests, responses, filed, expansions, revisions>>
  BY DEF WritePrompt
<1>5. PICK group : group = Group(led, r.run.step, r.attempt)
  OBVIOUS
<1>6. group = {} \/ Len(led) \in group
  BY <1>0, <1>1, <1>5 DEF PInv, ContinuesFact
<1>7. /\ IsPrefix(led, run.ledger) /\ r.run.revision <= Len(revisions)
      /\ r.view.revision = r.run.revision
      /\ r.run.revision # 0 => Len(revisions[r.run.revision].base) <= Len(led)
      /\ led = run.ledger => r.view.revision = run.revision \/ Settled(led)
      /\ Pending(led) /\ r.view.revision = run.revision =>
           /\ r.run.step = revisions[run.revision].step
           /\ r.attempt = revisions[run.revision].attempt
  BY <1>0, <1>1, HeldNow DEF GoesOn
<1>8. Pending(led) /\ r.view.revision = run.revision => group = {}
  <2>1. SUFFICES ASSUME Pending(led), r.view.revision = run.revision PROVE group = {}
    OBVIOUS
  <2>2. PICK v : v = revisions[run.revision]
    OBVIOUS
  <2>3. run.revision \in DOMAIN revisions
    BY <2>1, HeldNow DEF Pending
  <2>4. v \in Revisions /\ RevisedFact(v)
    BY <2>2, <2>3, HeldNow DEF PInv
  <2>5. \A i \in DOMAIN led : led[i].step = v.step => led[i].attempt < v.attempt
    BY <2>1, <2>2, <2>4 DEF Pending, RevisedFact
  <2>6. v.attempt \in Nat /\ ~(v.attempt < v.attempt)
    BY <2>4, LedgerAssumption DEF Revisions
  <2>7. QED
    BY <1>5, <1>7, <2>1, <2>2, <2>5, <2>6 DEF Group
<1>9. /\ group = {} => e.at = "request" /\ e.kind = "initial" /\ e.index = 1 /\ e.round = 0
      /\ Len(led) \in group =>
           /\ led # << >> /\ e.index = last.index /\ e.kind = last.kind
           /\ e.round = last.round /\ last.step = r.run.step /\ last.attempt = r.attempt
           /\ e.at = IF last.phase = "request" THEN "ask" ELSE "decide"
           /\ last.phase \in Phases
  BY <1>0, <1>1, <1>5, EnteredGoesOn
<1>10. GoesOn(p)'
  <2>1. Here(p)' = [step |-> r.run.step, attempt |-> r.attempt, index |-> e.index]
    BY <1>2, <1>3 DEF Here, Record, Coordinate
  <2>2. Pending(led)' = Pending(led) /\ Settled(led)' = Settled(led)
    BY <1>4 DEF Pending, Settled
  <2>3. CASE group = {}
    BY <1>0, <1>2, <1>3, <1>4, <1>7, <1>9, <2>2, <2>3 DEF GoesOn
  <2>4. CASE group # {} /\ Len(led) \in group
    <3>1. e.at \in {"ask", "decide"} /\ Coordinate(last) = Here(p)'
      BY <1>9, <2>1, <2>4 DEF Coordinate
    <3>2. last.phase = IF e.at = "decide" THEN "response" ELSE "request"
      BY <1>9, <2>4 DEF Phases
    <3>3. Pending(led) => e.run.revision # run.revision
      BY <1>2, <1>7, <1>8, <2>4
    <3>4. QED
      BY <1>0, <1>2, <1>3, <1>4, <1>7, <1>9, <2>2, <2>4, <3>1, <3>2, <3>3 DEF GoesOn
  <2>5. QED
    BY <1>6, <2>3, <2>4
<1>11. ~Holds(p)
  BY <1>0, <1>1 DEF Holds
<1>12. QED
  BY <1>3, <1>4, <1>10, <1>11, SameRun, QuietStep

\* What a runner decides on.
LEMMA DecidesOn ==
  ASSUME IInv, PInv, Held, NEW p \in Runners, runner[p].at = "decide"
  PROVE  LET r == runner[p]
             led == r.view.ledger
             last == Last(led)
         IN
         /\ led \in Seq(Records) /\ IsPrefix(led, run.ledger) /\ led # << >>
         /\ r.run.revision <= Len(revisions)
         /\ r.run.revision # 0 => Len(revisions[r.run.revision].base) <= Len(led)
         /\ led = run.ledger => r.view.revision = run.revision \/ Settled(led)
         /\ last.step = r.run.step /\ last.attempt = r.attempt /\ last.index = r.index
         /\ last.kind = r.kind /\ last.round = r.round
         /\ last.phase = "response" /\ last.answer = r.answer
         /\ Pending(led) => r.run.revision # run.revision /\ Settled(led)
         /\ Settled(led) <=> ~Repairs(p) /\ ~WantsContext(p)
<1>0. PICK r, led, last : r = runner[p] /\ led = r.view.ledger /\ last = Last(led)
  OBVIOUS
<1>1. /\ led \in Seq(Records) /\ IsPrefix(led, run.ledger) /\ led # << >>
      /\ r.run.revision <= Len(revisions)
      /\ r.run.revision # 0 => Len(revisions[r.run.revision].base) <= Len(led)
      /\ led = run.ledger => r.view.revision = run.revision \/ Settled(led)
      /\ Coordinate(last) = Here(p) /\ last.kind = r.kind /\ last.round = r.round
      /\ last.phase = "response"
      /\ Pending(led) => r.run.revision # run.revision
  BY <1>0, HeldNow DEF GoesOn
<1>2. last.step = r.run.step /\ last.attempt = r.attempt /\ last.index = r.index
  BY <1>0, <1>1 DEF Coordinate, Here, Record
<1>3. last.answer = r.answer
  BY <1>0 DEF PInv, ContinuesFact
<1>4. Pending(led) => Settled(led)
  <2>1. SUFFICES ASSUME Pending(led) PROVE Settled(led)
    OBVIOUS
  <2>2. run.revision \in DOMAIN revisions
    BY <2>1, HeldNow DEF Pending
  <2>3. QED
    BY <2>1, <2>2, HeldNow DEF Pending, RevisionOK
<1>5. Settled(led) <=> ~Repairs(p) /\ ~WantsContext(p)
  BY <1>0, <1>1, <1>2, <1>3 DEF Settled, Repairs, WantsContext
<1>6. QED
  BY <1>0, <1>1, <1>2, <1>3, <1>4, <1>5

LEMMA RepairHolds ==
  ASSUME IInv, PInv, Held, IInv', NEW p \in Runners, Repair(p)
  PROVE  Held'
<1>0. PICK r, e, led : /\ r = runner[p] /\ led = r.view.ledger
                       /\ e = NextRequest(p, "repair", runner[p].round)
  OBVIOUS
<1>1. r.at = "decide" /\ Repairs(p)
  BY <1>0 DEF Repair
<1>2. /\ e.at = "request" /\ e.kind = "repair" /\ e.run = r.run /\ e.view = r.view
      /\ e.attempt = r.attempt
  BY <1>0 DEF NextRequest
<1>3. runner'[p] = e /\ \A q \in Runners \ {p} : runner'[q] = runner[q]
  BY <1>0 DEF Repair, IInv, TypeOK
<1>4. UNCHANGED <<run, requests, responses, filed, expansions, revisions>>
  BY DEF Repair, files
<1>5. /\ IsPrefix(led, run.ledger) /\ r.run.revision <= Len(revisions)
      /\ r.run.revision # 0 => Len(revisions[r.run.revision].base) <= Len(led)
      /\ led = run.ledger => r.view.revision = run.revision \/ Settled(led)
      /\ ~Settled(led) /\ ~Pending(led)
  BY <1>0, <1>1, DecidesOn
<1>6. GoesOn(p)'
  <2>1. Pending(led)' = Pending(led) /\ Settled(led)' = Settled(led)
    BY <1>4 DEF Pending, Settled
  <2>2. QED
    BY <1>0, <1>2, <1>3, <1>4, <1>5, <2>1 DEF GoesOn
<1>7. ~Holds(p)
  BY <1>0, <1>1 DEF Holds
<1>8. QED
  BY <1>3, <1>4, <1>6, <1>7, SameRun, QuietStep

\* The expansion belongs to the runner, or its request is in the ledger already.
LEMMA ExpandHolds ==
  ASSUME IInv, PInv, Held, IInv', NEW p \in Runners, Expand(p)
  PROVE  Held'
<1>0. PICK r, e, led, last : /\ r = runner[p] /\ led = r.view.ledger /\ last = Last(led)
                             /\ e = NextRequest(p, "context", runner[p].round + 1)
  OBVIOUS
<1>1. r.at = "decide" /\ WantsContext(p) /\ r.answer = "context" /\ ~CapReached(led, r.run.step)
  BY <1>0 DEF Expand, WantsContext
<1>2. /\ e.at = "request" /\ e.kind = "context" /\ e.run = r.run /\ e.view = r.view
      /\ e.attempt = r.attempt /\ e.index = r.index + 1 /\ e.round = r.round + 1
  BY <1>0 DEF NextRequest
<1>3. runner'[p] = e /\ \A q \in Runners \ {p} : runner'[q] = runner[q]
  BY <1>0 DEF Expand, IInv, TypeOK
<1>4. PICK here : here = <<r.run.step, r.attempt, r.round + 1>>
  OBVIOUS
<1>5. /\ UNCHANGED <<run, requests, responses, filed, revisions>>
      /\ expansions' = expansions \cup {here}
  BY <1>0, <1>4 DEF Expand
<1>6. /\ led \in Seq(Records) /\ IsPrefix(led, run.ledger) /\ led # << >>
      /\ r.run.revision <= Len(revisions)
      /\ r.run.revision # 0 => Len(revisions[r.run.revision].base) <= Len(led)
      /\ led = run.ledger => r.view.revision = run.revision \/ Settled(led)
      /\ last.step = r.run.step /\ last.attempt = r.attempt /\ last.index = r.index
      /\ last.round = r.round /\ last.phase = "response" /\ last.answer = "context"
      /\ ~Settled(led) /\ ~Pending(led)
  BY <1>0, <1>1, DecidesOn
<1>7. GoesOn(p)'
  <2>1. Pending(led)' = Pending(led) /\ Settled(led)' = Settled(led)
    BY <1>5 DEF Pending, Settled
  <2>2. QED
    BY <1>0, <1>2, <1>3, <1>5, <1>6, <2>1 DEF GoesOn
<1>8. ~Holds(p)
  BY <1>0, <1>1 DEF Holds
<1>9. StoppedOK' /\ run'.ledger = run.ledger /\ run'.revision = run.revision
  BY <1>5, SameRun
<1>10. /\ RequestsBound' /\ RecordsHeld'
       /\ \A f \in responses : ResponseHeld(f)'
       /\ \A x \in expansions : ExpansionHeld(x)'
  BY <1>3, <1>5, <1>8, <1>9, FilesStay
<1>11. ExpansionHeld(here)'
  <2>1. CASE led = run.ledger
    <3>1. SameAuthority(p)'
      BY <1>0, <1>2, <1>3, <1>6, <1>9, <2>1 DEF SameAuthority
    <3>2. Expanding(p, here)'
      BY <1>2, <1>3, <1>4, <3>1 DEF Expanding
    <3>3. QED
      BY <3>2 DEF ExpansionHeld
  <2>2. CASE led # run.ledger
    <3>1. PICK n, all : n = Len(led) /\ all = run.ledger
      OBVIOUS
    <3>2. all \in Seq(Records)
      BY <3>1, HeadOfLedger
    <3>3. /\ n \in DOMAIN led /\ n \in Nat /\ Last(led) = led[n]
      BY <1>6, <3>1, LastOf
    <3>4. /\ n < Len(all) /\ n \in DOMAIN all /\ all[n] = last /\ SubSeq(all, 1, n) = led
      BY <1>0, <1>6, <2>2, <3>1, <3>2, <3>3, PrefixIs
    <3>5. n + 1 \in DOMAIN all
      BY <3>2, <3>3, <3>4
    <3>6. OrderedAt(all, n)
      BY <3>1, <3>4 DEF Held, InOrder
    <3>7. ~CapReached(led, last.step)
      BY <1>1, <1>6
    <3>8. /\ all[n + 1].step = last.step /\ all[n + 1].attempt = last.attempt
          /\ all[n + 1].round = last.round + 1
      BY <1>6, <3>4, <3>6, <3>7 DEF OrderedAt
    <3>9. <<all[n + 1].step, all[n + 1].attempt, all[n + 1].round>> = here
      BY <1>4, <1>6, <3>8
    <3>10. ExpansionBound(here)'
      BY <1>9, <3>1, <3>5, <3>9 DEF ExpansionBound
    <3>11. QED
      BY <3>10 DEF ExpansionHeld
  <2>3. QED
    BY <2>1, <2>2
<1>12. ResponsesHeld' /\ ExpansionsHeld'
  BY <1>5, <1>10, <1>11 DEF ResponsesHeld, ExpansionsHeld, ResponseHeld, ExpansionHeld
<1>13. QED
  BY <1>3, <1>5, <1>7, <1>9, <1>10, <1>12, HeldStep

\* A step ends with an answer that settles its attempt.
LEMMA DecideHolds ==
  ASSUME IInv, PInv, Held, IInv', NEW p \in Runners, Decide(p)
  PROVE  Held'
<1>0. PICK r, led, last, here, fin : /\ r = runner[p] /\ led = r.view.ledger /\ last = Last(led)
                                     /\ here = Imported(p) /\ fin = Finished(p, Ending(p))
  OBVIOUS
<1>1. r.at = "decide" /\ ~Repairs(p) /\ ~WantsContext(p) /\ Finish(p, Ending(p))
  BY <1>0 DEF Decide
<1>2. Ending(p) \in {"completed", "blocked", "failed"}
  BY DEF Ending
<1>3. /\ here \in Runs /\ here.ledger = led /\ here.step \in Steps
      /\ fin \in Runs /\ fin.ledger = here.ledger /\ fin.revision = here.revision
  BY <1>0, <1>2, FinishedType DEF Runs
<1>4. here.step = r.run.step /\ here.revision = r.run.revision
  BY <1>0, OwnType DEF Imported, Runs
<1>5. run' = fin /\ run \in {here, fin} /\ UNCHANGED <<files, revisions>>
  BY <1>0, <1>1 DEF Finish, MayPublish
<1>6. /\ run.ledger = led /\ run'.ledger = led /\ run.revision = r.run.revision
      /\ run'.revision = run.revision
  BY <1>3, <1>4, <1>5
<1>7. /\ led \in Seq(Records) /\ r.run.revision <= Len(revisions)
      /\ r.run.revision # 0 => Len(revisions[r.run.revision].base) <= Len(led)
      /\ last.step = r.run.step /\ Settled(led) /\ ~Pending(led)
      /\ IsPrefix(led, run.ledger)
  BY <1>0, <1>1, <1>6, DecidesOn
<1>8. /\ fin.status \in {"blocked", "failed"} => fin.step = r.run.step
      /\ fin.status \in {"blocked", "failed", "review", "pending"}
  <2>1. CASE Ending(p) # "completed"
    <3>1. fin = [here EXCEPT !.status = Ending(p)]
      BY <1>0, <2>1 DEF Finished
    <3>2. fin.step = here.step /\ fin.status = Ending(p)
      BY <1>3, <3>1 DEF Runs
    <3>3. QED
      BY <1>2, <1>4, <2>1, <3>2
  <2>2. CASE Ending(p) = "completed"
    <3>1. \/ fin = [here EXCEPT !.status = "review"]
          \/ fin = [here EXCEPT !.step = @ + 1, !.status = "pending"]
      BY <1>0, <2>2 DEF Finished
    <3>2. fin.status \in {"review", "pending"}
      BY <1>3, <3>1 DEF Runs
    <3>3. QED
      BY <3>2
  <2>3. QED
    BY <2>1, <2>2
<1>9. StoppedOK'
  BY <1>0, <1>5, <1>6, <1>7, <1>8 DEF StoppedOK
<1>10. PICK e : e = IF fin.status = "pending" THEN Ready(fin, 0) ELSE Idle
  OBVIOUS
<1>11. runner'[p] = e /\ \A q \in Runners \ {p} : runner'[q] = runner[q]
  BY <1>0, <1>1, <1>10 DEF Finish, Leave, IInv, TypeOK
<1>12. GoesOn(p)'
  <2>1. CASE fin.status # "pending"
    BY <1>10, <1>11, <2>1, IdleGoesOn
  <2>2. CASE fin.status = "pending"
    <3>1. /\ e.at = "ready" /\ e.run = fin /\ e.view.ledger = led
          /\ e.view.revision = fin.revision
      BY <1>3, <1>10, <2>2 DEF Ready, View
    <3>2. fin.revision = r.run.revision /\ run'.revision = fin.revision
      BY <1>3, <1>4, <1>5
    <3>3. IsPrefix(led, run'.ledger) /\ revisions' = revisions
      BY <1>5, <1>6, <1>7
    <3>4. ~Pending(led)'
      BY <1>5, <1>6, <1>7 DEF Pending
    <3>5. QED
      BY <1>7, <1>11, <3>1, <3>2, <3>3, <3>4 DEF GoesOn
  <2>3. QED
    BY <2>1, <2>2
<1>13. ~Holds(p)
  BY <1>0, <1>1 DEF Holds
<1>14. QED
  BY <1>5, <1>6, <1>9, <1>11, <1>12, <1>13, QuietStep DEF files

\* What is refused holds nothing.
LEMMA RefusedHoldsNothing ==
  ASSUME IInv, PInv, Held, NEW p \in Runners, Refused(p)
  PROVE  ~Holds(p)
<1>0. PICK r, led, last, y : /\ r = runner[p] /\ led = run.ledger /\ last = Last(r.view.ledger)
                             /\ y = Response(p)
  OBVIOUS
<1>1. ASSUME r.at = "stage", OpenRequest(p) PROVE MayStage(p)
  <2>1. \A z \in filed : Key(z) = Key(y) => z = y /\ \A i \in DOMAIN led : led[i] # z
    BY <1>0, <1>1, StagedIsOwn
  <2>2. QED
    BY <1>0, <1>1, <2>1 DEF MayStage
<1>2. ASSUME r.at = "bind", OpenRequest(p) PROVE MayBind(p)
  <2>1. Links(run, run.ledger, Response(p)) /\ ~Frozen
    BY <1>0, <1>2, HeadIsOwn
  <2>2. QED
    BY <2>1 DEF MayBind
<1>3. ASSUME r.at = "request", r.kind = "context", SameAuthority(p) PROVE MayRequest(p)
  <2>0. PICK x : x = Record(p, "request", NoAnswer)
    OBVIOUS
  <2>1. /\ x.step = r.run.step /\ x.attempt = r.attempt /\ x.index = r.index
        /\ x.kind = "context" /\ x.round = r.round /\ x.phase = "request"
        /\ x.prev = HeadKey(r.view.ledger) /\ Coordinate(x) = Here(p)
    BY <1>0, <1>3, <2>0 DEF Record, Here
  <2>2. led = r.view.ledger /\ last = Last(led)
    BY <1>0, <1>3 DEF SameAuthority
  <2>3. /\ led # << >> /\ last.phase = "response" /\ last.answer = "context"
        /\ last.step = r.run.step /\ last.attempt = r.attempt
        /\ r.index = last.index + 1 /\ r.round = last.round + 1
    BY <1>0, <1>3, <2>2, HeldNow DEF GoesOn
  <2>4. ~CapReached(led, r.run.step)
    BY <1>0, <1>3, <2>2, OwnType DEF RunnerFact
  <2>5. ~Frozen
    <3>1. ~Settled(led)
      BY <2>2, <2>3, <2>4 DEF Settled
    <3>2. QED
      BY <1>0, <3>1 DEF Frozen, Held, StoppedOK
  <2>6. /\ last.round = AttemptRounds(led, last.step, last.attempt) /\ last \in Records
        /\ \A i \in Group(led, last.step, last.attempt) : led[i].index <= last.index
    BY <1>0, <2>2, <2>3, LastIsInOrder
  <2>7. ASSUME NEW i \in DOMAIN led, Coordinate(led[i]) = Coordinate(x) PROVE FALSE
    <3>1. /\ led[i].step = last.step /\ led[i].attempt = last.attempt
          /\ led[i].index = last.index + 1
      BY <2>1, <2>3, <2>7 DEF Coordinate
    <3>2. last.index + 1 <= last.index
      BY <2>6, <3>1 DEF Group
    <3>3. last.index \in Nat
      BY <2>6 DEF Records
    <3>4. QED
      BY <3>2, <3>3
  <2>8. Here(p) \notin requests
    BY <1>0, <2>1, <2>7 DEF Held, RequestsBound
  <2>9. \A z \in filed : Key(z) # Key(x)
    <3>1. SUFFICES ASSUME NEW z \in filed, Key(z) = Key(x) PROVE FALSE
      OBVIOUS
    <3>2. z.phase = "request" /\ Coordinate(z) = Coordinate(x)
      BY <2>1, <3>1 DEF Key, Coordinate
    <3>3. Coordinate(z) \in requests
      BY <3>2 DEF IInv, FiledOK, FiledFact
    <3>4. QED
      BY <2>1, <2>8, <3>2, <3>3
  <2>10. Links(run, led, x)
    <3>1. FollowsResponse(led, x)
      BY <2>1, <2>2, <2>3, <2>6 DEF FollowsResponse
    <3>2. QED
      BY <2>1, <2>2, <2>3, <3>1 DEF Links
  <2>11. QED
    BY <1>0, <1>3, <2>0, <2>5, <2>8, <2>9, <2>10 DEF MayRequest
<1>4. QED
  BY <1>0, <1>1, <1>2, <1>3 DEF Refused, Holds

LEMMA RefuseHolds ==
  ASSUME IInv, PInv, Held, IInv', NEW p \in Runners, Refuse(p)
  PROVE  Held'
<1>1. runner'[p] = Idle /\ \A q \in Runners \ {p} : runner'[q] = runner[q]
  BY DEF Refuse, Leave, IInv, TypeOK
<1>2. UNCHANGED <<run, requests, responses, filed, expansions, revisions>>
  BY DEF Refuse, files
<1>3. ~Holds(p)
  BY RefusedHoldsNothing DEF Refuse
<1>4. GoesOn(p)'
  BY <1>1, IdleGoesOn
<1>5. QED
  BY <1>1, <1>2, <1>3, <1>4, SameRun, QuietStep

LEMMA LengthsCompare ==
  ASSUME NEW S, NEW a \in Seq(S), NEW b \in Seq(S), NEW c \in Seq(S),
         Len(a) <= Len(b), Len(b) <= Len(c)
  PROVE  Len(a) <= Len(c)
  OBVIOUS

\* A runner that has bound a record goes on with it.
LEMMA BoundGoesOn ==
  ASSUME IInv, PInv, Held, IInv', NEW p \in Runners, UNCHANGED revisions,
         NEW x \in Records, run'.revision = run.revision, run'.ledger # << >>,
         Last(run'.ledger) = x, Coordinate(x) = Here(p), x.kind = runner[p].kind,
         x.round = runner[p].round, Len(runner[p].view.ledger) <= Len(run'.ledger),
         NEW r, runner'[p] = r, r.at = IF x.phase = "request" THEN "ask" ELSE "decide",
         r.run = runner[p].run, r.view = View(run'), r.attempt = runner[p].attempt,
         r.index = runner[p].index, r.kind = runner[p].kind, r.round = runner[p].round,
         x.phase = "response" /\ Pending(run'.ledger) => r.run.revision # run.revision
  PROVE  GoesOn(p)'
<1>0. PICK grown, seen : grown = run'.ledger /\ seen = runner[p].view.ledger
  OBVIOUS
<1>1. Here(p)' = Here(p)
  BY DEF Here, Record, Coordinate
<1>2. r.view.ledger = grown /\ r.view.revision = run'.revision
  BY <1>0 DEF View
<1>3. grown \in Seq(Records) /\ IsPrefix(grown, grown)
  <2>1. grown \in Seq(Records)
    BY <1>0 DEF IInv, TypeOK, Runs
  <2>2. QED
    BY <2>1 DEF IsPrefix
<1>4. /\ r.run.revision <= Len(revisions)
      /\ r.run.revision # 0 => Len(revisions[r.run.revision].base) <= Len(grown)
  <2>1. /\ r.run.revision <= Len(revisions)
        /\ r.run.revision # 0 => Len(revisions[r.run.revision].base) <= Len(seen)
    BY <1>0, HeldNow DEF GoesOn
  <2>2. ASSUME r.run.revision # 0
        PROVE  Len(revisions[r.run.revision].base) <= Len(grown)
    <3>1. r.run.revision \in DOMAIN revisions
      BY <2>1, <2>2, HeldNow, OwnType DEF Runs
    <3>2. PICK base : base = revisions[r.run.revision].base
      OBVIOUS
    <3>3. base \in Seq(Records) /\ seen \in Seq(Records)
      BY <1>0, <3>1, <3>2, HeldNow
    <3>4. Len(base) <= Len(seen)
      BY <2>1, <2>2, <3>2
    <3>5. Len(seen) <= Len(grown)
      BY <1>0
    <3>6. Len(base) <= Len(grown)
      BY <1>3, <3>3, <3>4, <3>5, LengthsCompare
    <3>7. QED
      BY <3>2, <3>6
  <2>3. QED
    BY <2>1, <2>2
<1>5. x.phase = IF r.at = "decide" THEN "response" ELSE "request"
  BY DEF Records, Phases
<1>6. r.at \in {"ask", "decide"}
  OBVIOUS
<1>7. r.at = "decide" /\ Pending(grown)' => r.run.revision # run'.revision
  BY <1>0, <1>5 DEF Pending
<1>8. QED
  BY <1>0, <1>1, <1>2, <1>3, <1>4, <1>5, <1>6, <1>7 DEF GoesOn

LEMMA PublishRequestHolds ==
  ASSUME IInv, PInv, Held, IInv', NEW p \in Runners, PublishRequest(p, 3)
  PROVE  Held'
<1>0. PICK r, x, led : /\ r = runner[p] /\ x = Record(p, "request", NoAnswer)
                       /\ led = run.ledger
  OBVIOUS
<1>1. /\ r \in Progress /\ r.at = "request" /\ MayRequest(p) /\ ~Frozen
      /\ r.view.ledger = led /\ r.view.revision = run.revision /\ Links(run, led, x)
      /\ led \in Seq(Records) /\ run \in Runs
  BY <1>0, OwnType, HeadOfLedger DEF PublishRequest, MayRequest, SameAuthority
<1>2. x \in Records /\ Coordinate(x) = Here(p)
  BY <1>0, <1>1, ExchangingFacts, RecordType DEF Exchanging, Phases
<1>3. /\ x.step = r.run.step /\ x.attempt = r.attempt /\ x.index = r.index
      /\ x.kind = r.kind /\ x.round = r.round /\ x.phase = "request" /\ x.answer = NoAnswer
  BY <1>0 DEF Record
<1>4. /\ requests' = requests \cup {Here(p)} /\ filed' = filed \cup {x}
      /\ UNCHANGED <<responses, expansions, revisions>>
      /\ run' = [run EXCEPT !.ledger = Append(@, x)]
  BY <1>0 DEF PublishRequest
<1>5. /\ run'.ledger = Append(led, x) /\ run'.status = run.status
      /\ run'.revision = run.revision
  BY <1>0, <1>1, <1>4 DEF Runs
<1>6. Fits(x)
  <2>1. Grows
    BY PublishRequestKeeps
  <2>2. Extends(x)
    BY <1>0, <1>2, <1>5, <2>1, GrowsBy
  <2>3. x.kind = "initial" => x.round = 0 /\ x.step <= run.step
    <3>1. r.kind = "initial" => r.round = 0
      BY <1>0, <1>1, HeldNow DEF GoesOn
    <3>2. r.kind = "initial" => r.run.step <= run.step
      BY <1>0, <1>1 DEF PInv, ContinuesFact
    <3>3. QED
      BY <1>3, <3>1, <3>2
  <2>4. Pending(led) =>
          Key(x) = <<revisions[run.revision].step, revisions[run.revision].attempt, 1, "request">>
    <3>1. Pending(led) => /\ r.run.step = revisions[run.revision].step
                          /\ r.attempt = revisions[run.revision].attempt /\ r.index = 1
      BY <1>0, <1>1, HeldNow DEF GoesOn
    <3>2. QED
      BY <1>3, <3>1 DEF Key
  <2>5. QED
    BY <1>0, <1>1, <1>3, <2>2, <2>3, <2>4 DEF Fits
<1>7. RequestsBound' /\ RecordsHeld' /\ ResponsesHeld' /\ ExpansionsHeld'
  BY <1>2, <1>3, <1>4, <1>6, FilesGrow
<1>8. PICK e : e = [r EXCEPT !.at = "ask", !.view = View(run')]
  OBVIOUS
<1>9. /\ e.at = "ask" /\ e.run = r.run /\ e.view = View(run') /\ e.attempt = r.attempt
      /\ e.index = r.index /\ e.kind = r.kind /\ e.round = r.round
  BY <1>1, <1>8 DEF Progress
<1>10. runner'[p] = e /\ \A q \in Runners \ {p} : runner'[q] = runner[q]
  BY <1>0, <1>8 DEF PublishRequest, IInv, TypeOK
<1>11. GoesOn(p)'
  <2>1. /\ run'.ledger # << >> /\ Last(run'.ledger) = x
        /\ Len(r.view.ledger) <= Len(run'.ledger)
    <3>1. Len(Append(led, x)) = Len(led) + 1 /\ Len(led) \in Nat
          /\ Append(led, x) # << >> /\ Append(led, x)[Len(led) + 1] = x
      BY <1>1, <1>2, Appended
    <3>2. QED
      BY <1>1, <1>5, <3>1 DEF Last
  <2>2. QED
    BY <1>0, <1>2, <1>3, <1>4, <1>5, <1>9, <1>10, <2>1, BoundGoesOn
<1>12. QED
  BY <1>2, <1>4, <1>5, <1>6, <1>7, <1>10, <1>11, HeldStep

\* A prefix of a ledger that ends with an open question is not its revision.
LEMMA BindResponseHolds ==
  ASSUME IInv, PInv, Held, IInv', NEW p \in Runners, BindResponse(p)
  PROVE  Held'
<1>0. PICK r, y, led, seen : /\ r = runner[p] /\ y = Response(p) /\ led = run.ledger
                             /\ seen = runner[p].view.ledger
  OBVIOUS
<1>1. /\ r \in Progress /\ r.at = "bind" /\ ~Frozen /\ led \in Seq(Records) /\ run \in Runs
      /\ seen \in Seq(Records)
      /\ UNCHANGED <<requests, responses, filed, expansions, revisions>>
  BY <1>0, OwnType, HeadOfLedger DEF BindResponse, MayBind, files
<1>2. y \in Records /\ Coordinate(y) = Here(p)
  <2>1. r.answer \in Answers \cup {NoAnswer}
    BY <1>0, OwnType
  <2>2. Record(p, "response", r.answer) \in Records
    BY <1>0, <1>1, <2>1, ExchangingFacts, RecordType DEF Exchanging, Phases
  <2>3. QED
    BY <1>0, <2>2 DEF Response, Record, Here, Coordinate
<1>3. /\ y.step = r.run.step /\ y.attempt = r.attempt /\ y.index = r.index
      /\ y.kind = r.kind /\ y.round = r.round /\ y.phase = "response"
  BY <1>0 DEF Response, Record
<1>4. /\ IsPrefix(seen, led) /\ seen # << >> /\ Last(seen).phase = "request"
      /\ r.run.revision <= Len(revisions)
      /\ r.run.revision # 0 => Len(revisions[r.run.revision].base) <= Len(seen)
  BY <1>0, <1>1, HeldNow DEF GoesOn
<1>5. /\ Len(seen) <= Len(led) /\ (seen # led => Len(seen) < Len(led))
      /\ Len(seen) \in Nat /\ Len(led) \in Nat
  BY <1>1, <1>4, PrefixIs
<1>6. PICK e : e = [r EXCEPT !.at = "decide", !.view = View(run')]
  OBVIOUS
<1>7. /\ e.at = "decide" /\ e.run = r.run /\ e.view = View(run') /\ e.attempt = r.attempt
      /\ e.index = r.index /\ e.kind = r.kind /\ e.round = r.round
  BY <1>1, <1>6 DEF Progress
<1>8. runner'[p] = e /\ \A q \in Runners \ {p} : runner'[q] = runner[q]
  BY <1>0, <1>6 DEF BindResponse, IInv, TypeOK
<1>9. ASSUME IsHead(y) PROVE Held'
  <2>1. run' = run /\ led # << >> /\ Last(led) = y
    BY <1>0, <1>9 DEF BindResponse, IsHead
  <2>2. Pending(led) => r.run.revision # run.revision
    <3>1. SUFFICES ASSUME Pending(led), r.run.revision = run.revision PROVE FALSE
      OBVIOUS
    <3>2. Len(led) <= Len(seen)
      BY <1>4, <3>1 DEF Pending
    <3>3. seen = led
      BY <1>5, <3>2
    <3>4. QED
      BY <1>3, <1>4, <2>1, <3>3
  <2>3. GoesOn(p)'
    BY <1>0, <1>1, <1>2, <1>3, <1>5, <1>7, <1>8, <2>1, <2>2, BoundGoesOn
  <2>4. ~Holds(p)
    BY <1>0, <1>1, <1>3, <2>1 DEF Holds, OpenRequest
  <2>5. QED
    BY <1>1, <1>8, <2>1, <2>3, <2>4, SameRun, QuietStep
<1>10. ASSUME ~IsHead(y) PROVE Held'
  <2>1. Links(run, led, y) /\ run' = [run EXCEPT !.ledger = Append(@, y)]
    BY <1>0, <1>10 DEF BindResponse, MayBind
  <2>2. /\ run'.ledger = Append(led, y) /\ run'.status = run.status
        /\ run'.revision = run.revision
    BY <1>0, <1>1, <2>1 DEF Runs
  <2>3. OpenRequest(p)
    BY <1>0, <1>2, <1>3, <2>1 DEF Links, OpenRequest
  <2>4. y.round = Last(led).round /\ ~Pending(led)
    BY <1>0, <1>1, <2>3, HeadIsOwn
  <2>5. Grows
    BY BindResponseKeeps
  <2>6. Fits(y)
    <3>1. Extends(y)
      BY <1>0, <1>2, <2>2, <2>5, GrowsBy
    <3>2. QED
      BY <1>0, <1>1, <1>3, <2>4, <3>1 DEF Fits
  <2>7. RequestsBound' /\ RecordsHeld' /\ ResponsesHeld' /\ ExpansionsHeld'
    BY <1>1, <2>6, FilesGrow
  <2>8. /\ run'.ledger # << >> /\ Last(run'.ledger) = y /\ Len(run'.ledger) = Len(led) + 1
    BY <1>1, <1>2, <2>2, Appended DEF Last
  <2>9. ~Pending(run'.ledger)
    <3>1. SUFFICES ASSUME Pending(run'.ledger) PROVE FALSE
      OBVIOUS
    <3>2. run.revision \in DOMAIN revisions
      BY <3>1, HeldNow DEF Pending
    <3>3. IsPrefix(run'.ledger, led)
      BY <1>0, <3>1, <3>2, HeldNow DEF Pending, RevisionOK
    <3>4. Len(run'.ledger) <= Len(led)
      BY <3>3 DEF IsPrefix
    <3>5. QED
      BY <1>5, <2>8, <3>4
  <2>10. GoesOn(p)'
    <3>1. Len(seen) <= Len(run'.ledger)
      BY <1>5, <2>8
    <3>2. QED
      BY <1>0, <1>1, <1>2, <1>3, <1>7, <1>8, <2>2, <2>8, <2>9, <3>1, BoundGoesOn
  <2>11. QED
    BY <1>1, <1>2, <1>8, <2>2, <2>6, <2>7, <2>10, HeldStep
<1>11. QED
  BY <1>9, <1>10

-----------------------------------------------------------------------------
(* Resume, rerun and revision.                                             *)

\* A prepared runner goes by what it has just published.
LEMMA ReadyGoesOn ==
  ASSUME IInv, PInv, Held, IInv', NEW p \in Runners, NEW a, UNCHANGED revisions,
         runner'[p] = Ready(run', a), run'.revision = run.revision, run'.step = run.step,
         run'.ledger = run.ledger \/ \E x \in Records : run'.ledger = Append(run.ledger, x),
         Pending(run'.ledger) => /\ run.step = revisions[run.revision].step
                                 /\ a = revisions[run.revision].attempt
  PROVE  GoesOn(p)'
<1>0. PICK r, grown, n : r = runner'[p] /\ grown = run'.ledger /\ n = run.revision
  OBVIOUS
<1>1. /\ r.at = "ready" /\ r.run = run' /\ r.view.ledger = grown /\ r.view.revision = n
      /\ r.attempt = a
  BY <1>0 DEF Ready, View
<1>2. run.ledger \in Seq(Records) /\ grown \in Seq(Records) /\ IsPrefix(grown, grown)
  <2>1. run.ledger \in Seq(Records) /\ grown \in Seq(Records)
    BY <1>0, HeldNow DEF IInv, TypeOK, Runs
  <2>2. QED
    BY <2>1 DEF IsPrefix
<1>3. n <= Len(revisions)
  BY <1>0, RunTypes
<1>4. n # 0 => Len(revisions[n].base) <= Len(grown)
  <2>1. SUFFICES ASSUME n # 0 PROVE Len(revisions[n].base) <= Len(grown)
    OBVIOUS
  <2>2. n \in DOMAIN revisions
    BY <1>0, <2>1, HeldNow
  <2>3. revisions[n].base \in Seq(Records) /\ IsPrefix(revisions[n].base, run.ledger)
    BY <2>2, HeldNow DEF RevisionOK
  <2>4. PICK base, led : base = revisions[n].base /\ led = run.ledger
    OBVIOUS
  <2>5. base \in Seq(Records) /\ led \in Seq(Records) /\ Len(base) <= Len(led)
    BY <1>2, <2>3, <2>4 DEF IsPrefix
  <2>6. Len(led) <= Len(grown)
    <3>1. CASE grown = led
      BY <2>5, <3>1
    <3>2. ASSUME NEW x \in Records, grown = Append(led, x) PROVE Len(led) <= Len(grown)
      <4>1. Len(grown) = Len(led) + 1 /\ Len(led) \in Nat
        BY <2>5, <3>2, Appended
      <4>2. QED
        BY <4>1
    <3>3. QED
      BY <1>0, <2>4, <3>1, <3>2
  <2>7. QED
    BY <1>2, <2>4, <2>5, <2>6, LengthsCompare
<1>5. Pending(grown)' => /\ run.step = revisions[n].step /\ a = revisions[n].attempt
  BY <1>0 DEF Pending
<1>6. /\ r.run.revision = n /\ r.run.step = run.step
  BY <1>0, <1>1
<1>7. QED
  BY <1>0, <1>1, <1>2, <1>3, <1>4, <1>5, <1>6 DEF GoesOn

LEMMA PrepareHolds ==
  ASSUME IInv, PInv, Held, IInv', NEW p \in Runners, NEW led \in Reconciled, NEW a,
         runner[p].at = "idle", Runnable, Prepare(p, led, a), UNCHANGED <<files, revisions>>,
         Pending(led) => /\ run.step = revisions[run.revision].step
                         /\ a = revisions[run.revision].attempt
  PROVE  Held'
<1>0. PICK l : l = run.ledger
  OBVIOUS
<1>1. run \in Runs /\ l \in Seq(Records)
  BY <1>0, HeadOfLedger
<1>2. /\ run'.ledger = led /\ run'.step = run.step /\ run'.status = run.status
      /\ run'.revision = run.revision
  BY <1>1 DEF Prepare, Runs
<1>3. UNCHANGED <<requests, responses, filed, expansions, revisions>>
  BY DEF files
<1>4. runner'[p] = Ready(run', a) /\ \A q \in Runners \ {p} : runner'[q] = runner[q]
  BY DEF Prepare, IInv, TypeOK
<1>5. CASE led = l
  <2>1. GoesOn(p)'
    BY <1>0, <1>2, <1>3, <1>4, <1>5, ReadyGoesOn
  <2>2. StoppedOK'
    BY <1>2 DEF StoppedOK, Runnable
  <2>3. ~Holds(p)
    BY DEF Holds
  <2>4. QED
    BY <1>0, <1>2, <1>3, <1>4, <1>5, <2>1, <2>2, <2>3, QuietStep
<1>6. ASSUME NEW x \in Unreferenced, led = Append(l, x), Links(run, l, x)
      PROVE  Held'
  <2>1. PICK q \in Runners : Staged(q) /\ x = Response(q)
    BY DEF Held, RecordsHeld
  <2>2. x.phase = "response" /\ x.round = Last(l).round /\ ~Frozen /\ ~Pending(l)
    BY <1>0, <2>1, HeadIsOwn DEF Staged
  <2>3. Extends(x)
    BY <1>0, <1>2, <1>3, <1>6, AdoptedExtends
  <2>4. Fits(x) /\ x \in Records
    BY <1>0, <2>2, <2>3 DEF Fits, Extends
  <2>5. RequestsBound' /\ RecordsHeld' /\ ResponsesHeld' /\ ExpansionsHeld'
    BY <1>3, <2>4, FilesGrow
  <2>6. GoesOn(p)'
    BY <1>0, <1>2, <1>3, <1>4, <1>6, <2>4, ReadyGoesOn
  <2>7. QED
    BY <1>2, <1>3, <1>4, <2>4, <2>5, <2>6, HeldStep
<1>7. QED
  BY <1>0, <1>5, <1>6, ReconciledIs

LEMMA ResumeHolds ==
  ASSUME IInv, PInv, Held, IInv', NEW p \in Runners, Resume(p)
  PROVE  Held'
<1>1. PICK led \in Reconciled : /\ run.revision # 0 => Consumed(led, run.revision)
                                /\ \E a \in ResumedAttempt(led) : Prepare(p, led, a)
  BY DEF Resume
<1>2. PICK a : Prepare(p, led, a)
  BY <1>1
<1>3. ~Pending(led)
  <2>1. SUFFICES ASSUME Pending(led) PROVE FALSE
    OBVIOUS
  <2>2. Len(led) > Len(led) /\ Len(led) \in Nat
    BY <1>1, <2>1, ReconciledIsFiled DEF Pending, Consumed
  <2>3. QED
    BY <2>2
<1>4. runner[p].at = "idle" /\ Runnable /\ UNCHANGED <<files, revisions>>
  BY DEF Resume
<1>5. QED
  BY <1>2, <1>3, <1>4, PrepareHolds

LEMMA RerunHolds ==
  ASSUME IInv, PInv, Held, IInv', NEW p \in Runners, Rerun(p)
  PROVE  Held'
<1>1. PICK led \in Reconciled :
        /\ run.step = revisions[run.revision].step
        /\ Prepare(p, led, revisions[run.revision].attempt)
  BY DEF Rerun
<1>2. runner[p].at = "idle" /\ Runnable /\ UNCHANGED <<files, revisions>>
  BY DEF Rerun
<1>3. QED
  BY <1>1, <1>2, PrepareHolds

\* Where nobody holds anything, everything is bound.
LEMMA NothingHeld ==
  ASSUME Held, \A p \in Runners : ~Holds(p)
  PROVE  /\ Unreferenced = {}
         /\ \A f \in responses : ResponseBound(f)
         /\ \A e \in expansions : ExpansionBound(e)
<1>1. \A p \in Runners : ~Staged(p)
  BY DEF Holds, Staged
<1>2. \A p \in Runners, f \in responses : ~Responding(p, f)
  BY DEF Holds, Responding
<1>3. \A p \in Runners, e \in expansions : ~Expanding(p, e)
  BY DEF Holds, Expanding
<1>4. QED
  BY <1>1, <1>2, <1>3 DEF Held, RecordsHeld, ResponsesHeld, ExpansionsHeld

LEMMA SettledHoldsNothing ==
  ASSUME IInv, PInv, Held, Settled(run.ledger), NEW p \in Runners
  PROVE  ~Holds(p)
<1>0. PICK r, led : r = runner[p] /\ led = run.ledger
  OBVIOUS
<1>1. ~OpenRequest(p)
  BY DEF Settled, OpenRequest
<1>2. ASSUME r.at = "request", r.kind = "context", SameAuthority(p) PROVE FALSE
  <2>1. r.view.ledger = led
    BY <1>0, <1>2 DEF SameAuthority
  <2>2. Last(led).answer = "context" /\ Last(led).step = r.run.step
    BY <1>0, <1>2, <2>1, HeldNow DEF GoesOn
  <2>3. ~CapReached(led, r.run.step)
    BY <1>0, <1>2, <2>1, OwnType DEF RunnerFact
  <2>4. QED
    BY <1>0, <2>2, <2>3 DEF Settled
<1>3. QED
  BY <1>0, <1>1, <1>2 DEF Holds

LEMMA ReviseHolds ==
  ASSUME IInv, PInv, Held, IInv', NEW s \in Steps, Revise(s)
  PROVE  Held'
<1>0. PICK led, n : led = run.ledger /\ n = Len(revisions)
  OBVIOUS
<1>1. /\ Settled(led) /\ (run.revision # 0 => Consumed(led, run.revision))
      /\ UNCHANGED <<requests, responses, filed, expansions, runner>>
  BY <1>0 DEF Revise, Eligible, Held, StoppedOK, files
<1>2. PICK v : v.base = led /\ revisions' = Append(revisions, v)
  <2>1. PICK a \in SourceAttempt(s) :
          revisions' = Append(revisions, [step |-> s, attempt |-> a + 1, base |-> run.ledger])
    BY DEF Revise
  <2>2. [step |-> s, attempt |-> a + 1, base |-> run.ledger].base = led
    BY <1>0
  <2>3. QED
    BY <2>1, <2>2
<1>3. /\ Len(revisions') = n + 1 /\ DOMAIN revisions' = 1 .. n + 1 /\ DOMAIN revisions = 1 .. n
      /\ \A i \in DOMAIN revisions : revisions'[i] = revisions[i]
      /\ revisions'[n + 1] = v /\ n \in Nat /\ run.revision = n
  BY <1>0, <1>2, HeldNow, Appended
<1>4. run'.ledger = led /\ run'.status = "pending" /\ run'.revision = n + 1
  <2>1. run \in Runs
    BY HeadOfLedger
  <2>2. run' = [run EXCEPT !.step = s, !.status = "pending", !.revision = Len(revisions')]
    BY DEF Revise
  <2>3. QED
    BY <1>0, <1>3, <2>1, <2>2 DEF Runs
<1>5. InOrder' /\ StoppedOK'
  BY <1>0, <1>4 DEF Held, InOrder, StoppedOK
<1>6. run'.revision = Len(revisions') /\ \A i \in DOMAIN revisions' : RevisionOK(i)'
  <2>1. SUFFICES ASSUME NEW i \in DOMAIN revisions' PROVE RevisionOK(i)'
    BY <1>3, <1>4
  <2>2. CASE i \in DOMAIN revisions
    <3>1. RevisionOK(i) /\ revisions'[i] = revisions[i]
      BY <1>3, <2>2 DEF Held
    <3>2. Consumed(led, i)
      <4>1. CASE i = n
        BY <1>1, <1>3, <2>2, <4>1
      <4>2. CASE i # n
        BY <1>0, <3>1, <4>2 DEF RevisionOK
      <4>3. QED
        BY <4>1, <4>2
    <3>3. Consumed(led, i)'
      BY <3>1, <3>2 DEF Consumed
    <3>4. QED
      BY <1>0, <1>4, <3>1, <3>3 DEF RevisionOK
  <2>3. CASE i = n + 1
    <3>1. revisions'[i].base = led
      BY <1>2, <1>3, <2>3
    <3>2. IsPrefix(led, led)
      BY <1>0, HeldNow DEF IsPrefix
    <3>3. QED
      BY <1>1, <1>3, <1>4, <2>3, <3>1, <3>2 DEF RevisionOK
  <2>4. QED
    BY <1>3, <2>2, <2>3
<1>7. ASSUME NEW q \in Runners PROVE GoesOn(q)'
  <2>0. PICK r, seen : r = runner[q] /\ seen = r.view.ledger
    OBVIOUS
  <2>1. GoesOn(q) /\ r.run.revision \in Nat /\ r.view.revision \in Nat
    BY <2>0, HeldNow, OwnType, RunTypes DEF Runs
  <2>2. r.run.revision <= n /\ r.view.revision <= n
    BY <1>0, <2>0, <2>1 DEF GoesOn, PInv, ContinuesFact
  <2>3. r.run.revision # run'.revision /\ r.view.revision # run'.revision
        /\ r.run.revision <= Len(revisions')
    BY <1>3, <1>4, <2>1, <2>2
  <2>4. r.run.revision # 0 => Len(revisions'[r.run.revision].base) <= Len(seen)
    <3>1. r.run.revision # 0 => r.run.revision \in DOMAIN revisions
      BY <1>3, <2>1, <2>2
    <3>2. QED
      BY <1>3, <2>0, <2>1, <3>1 DEF GoesOn
  <2>5. Here(q)' = Here(q) /\ runner'[q] = r
    BY <1>1, <2>0, OwnRecords
  <2>6. /\ IsPrefix(seen, run'.ledger)
        /\ seen = run'.ledger => Settled(seen)
        /\ r.at \in {"ready", "marked"} => r.view.revision = r.run.revision
    BY <1>0, <1>1, <1>4, <2>0, <2>1 DEF GoesOn
  <2>7. /\ r.at \in {"ask", "call", "stage", "bind", "decide"} =>
             /\ seen # << >> /\ Coordinate(Last(seen)) = Here(q)
             /\ Last(seen).kind = r.kind /\ Last(seen).round = r.round
             /\ Last(seen).phase = IF r.at = "decide" THEN "response" ELSE "request"
        /\ r.at = "request" /\ r.kind = "initial" => r.index = 1 /\ r.round = 0
        /\ r.at = "request" /\ r.kind = "context" =>
             /\ seen # << >> /\ Last(seen).phase = "response" /\ Last(seen).answer = "context"
             /\ Last(seen).step = r.run.step /\ Last(seen).attempt = r.attempt
             /\ r.index = Last(seen).index + 1 /\ r.round = Last(seen).round + 1
    BY <2>0, <2>1 DEF GoesOn
  <2>8. QED
    BY <2>0, <2>3, <2>4, <2>5, <2>6, <2>7 DEF GoesOn
<1>8. /\ Unreferenced = {} /\ \A f \in responses : ResponseBound(f)
      /\ \A e \in expansions : ExpansionBound(e)
  BY <1>0, <1>1, SettledHoldsNothing, NothingHeld
<1>9. RequestsBound' /\ RecordsHeld' /\ ResponsesHeld' /\ ExpansionsHeld'
  <2>1. RequestsBound'
    BY <1>0, <1>1, <1>4 DEF Held, RequestsBound
  <2>2. Unreferenced' = {}
    BY <1>0, <1>1, <1>4, <1>8 DEF Unreferenced
  <2>3. RecordsHeld'
    BY <2>2 DEF RecordsHeld
  <2>4. ResponsesHeld' /\ ExpansionsHeld'
    BY <1>0, <1>1, <1>4, <1>8 DEF ResponsesHeld, ExpansionsHeld, ResponseBound, ExpansionBound
  <2>5. QED
    BY <2>1, <2>3, <2>4
<1>10. QED
  BY <1>5, <1>6, <1>7, <1>9 DEF Held

-----------------------------------------------------------------------------
(* Nothing but a fault leaves orphans.                                     *)

\* As long as nothing has failed, every step of every runner and every revision leaves
\* what no record binds with a runner that can still bind it.
THEOREM HInvInductive ==
  /\ Init => HInv
  /\ IInv /\ PInv /\ HInv /\ [Next]_vars => HInv'
<1>1. ASSUME Init PROVE HInv
  <2>1. /\ run.ledger = << >> /\ run.status = "pending" /\ run.revision = 0
        /\ requests = {} /\ responses = {} /\ filed = {} /\ expansions = {}
        /\ revisions = << >>
    BY <1>1 DEF Init, Fresh
  <2>2. InOrder /\ StoppedOK
    BY <2>1 DEF InOrder, StoppedOK
  <2>3. run.revision = Len(revisions) /\ \A n \in DOMAIN revisions : RevisionOK(n)
    BY <2>1
  <2>4. ASSUME NEW p \in Runners PROVE GoesOn(p)
    <3>1. runner[p] = Idle
      BY <1>1 DEF Init
    <3>2. Idle.at = "idle" /\ Idle.view.ledger = << >> /\ Idle.run.revision = 0
      BY DEF Idle, Ready, View, Fresh
    <3>3. IsPrefix(<< >>, << >>)
      BY DEF IsPrefix
    <3>4. QED
      BY <2>1, <3>1, <3>2, <3>3 DEF GoesOn
  <2>5. RequestsBound /\ RecordsHeld /\ ResponsesHeld /\ ExpansionsHeld
    BY <2>1 DEF RequestsBound, RecordsHeld, ResponsesHeld, ExpansionsHeld, Unreferenced
  <2>6. QED
    BY <2>2, <2>3, <2>4, <2>5 DEF HInv, Held
<1>2. ASSUME IInv, PInv, HInv, [Next]_vars PROVE HInv'
  <2>1. SUFFICES ASSUME faults' = 0 PROVE Held'
    BY DEF HInv
  <2>2. IInv' /\ faults \in Nat /\ faults + 1 # 0
    <3>1. faults \in Nat
      BY <1>2, LedgerAssumption DEF IInv, TypeOK
    <3>2. QED
      BY <1>2, <3>1, IInvInductive
  <2>3. CASE UNCHANGED vars
    <3>1. UNCHANGED <<run, requests, responses, filed, expansions, revisions, runner, faults>>
      BY <2>3 DEF vars, files
    <3>2. Held
      BY <1>2, <2>1, <3>1 DEF HInv
    <3>3. /\ InOrder' /\ StoppedOK'
          /\ run'.revision = Len(revisions') /\ \A n \in DOMAIN revisions' : RevisionOK(n)'
      BY <3>1, <3>2 DEF Held, InOrder, StoppedOK, RevisionOK, Consumed
    <3>4. \A p \in Runners : GoesOn(p)'
      BY <1>2, <3>1, <3>2, OthersGoOn
    <3>5. \A p \in Runners : /\ Response(p)' = Response(p) /\ Here(p)' = Here(p)
                             /\ OpenRequest(p) => OpenRequest(p)'
                             /\ SameAuthority(p) => SameAuthority(p)'
      BY <3>1, OwnRecords
    <3>6. RequestsBound' /\ RecordsHeld' /\ ResponsesHeld' /\ ExpansionsHeld'
      BY <3>1, <3>2, <3>5 DEF Held, RequestsBound, RecordsHeld, ResponsesHeld, ExpansionsHeld,
         Unreferenced, Staged, ResponseBound, Responding, ExpansionBound, Expanding
    <3>7. QED
      BY <3>3, <3>4, <3>6 DEF Held
  <2>4. ASSUME NEW s \in Steps, Revise(s) PROVE Held'
    BY <1>2, <2>1, <2>2, <2>4, ReviseHolds DEF HInv, Revise
  <2>5. ASSUME NEW p \in Runners, Step(p) PROVE Held'
    <3>1. ASSUME faults = 0 PROVE Held
      BY <1>2, <3>1 DEF HInv
    <3>2. CASE Resume(p) \/ Rerun(p)
      BY <1>2, <2>1, <2>2, <3>1, <3>2, ResumeHolds, RerunHolds DEF Resume, Rerun
    <3>3. CASE MarkRunning(p) \/ WritePrompt(p)
      BY <1>2, <2>1, <2>2, <3>1, <3>3, MarkRunningHolds, WritePromptHolds
         DEF MarkRunning, WritePrompt
    <3>4. CASE \E cut \in 0 .. 3 : PublishRequest(p, cut)
      <4>1. PICK cut \in 0 .. 3 : PublishRequest(p, cut)
        BY <3>4
      <4>2. cut = 3 /\ faults = 0
        BY <2>1, <2>2, <4>1 DEF PublishRequest
      <4>3. QED
        BY <1>2, <2>2, <3>1, <4>1, <4>2, PublishRequestHolds
    <3>5. CASE Ask(p) \/ (\E a \in Answers : WriteResponse(p, a))
      BY <1>2, <2>1, <2>2, <3>1, <3>5, AskHolds, WriteResponseHolds DEF Ask, WriteResponse
    <3>6. CASE StageResponse(p) \/ BindResponse(p)
      BY <1>2, <2>1, <2>2, <3>1, <3>6, StageResponseHolds, BindResponseHolds
         DEF StageResponse, BindResponse
    <3>7. CASE Repair(p) \/ Expand(p)
      BY <1>2, <2>1, <2>2, <3>1, <3>7, RepairHolds, ExpandHolds DEF Repair, Expand
    <3>8. CASE Decide(p)
      BY <1>2, <2>1, <2>2, <3>1, <3>8, DecideHolds DEF Decide
    <3>9. CASE ExpansionFails(p) \/ Die(p)
      BY <2>1, <2>2, <3>9 DEF ExpansionFails, Die
    <3>10. CASE Refuse(p)
      BY <1>2, <2>1, <2>2, <3>1, <3>10, RefuseHolds DEF Refuse
    <3>11. QED
      BY <2>5, <3>2, <3>3, <3>4, <3>5, <3>6, <3>7, <3>8, <3>9, <3>10 DEF Step, Exchange
  <2>6. QED
    BY <1>2, <2>3, <2>4, <2>5 DEF Next
<1>3. QED
  BY <1>1, <1>2

\* In every reachable state before a death or an I/O failure, what no record binds is
\* with a runner that is about to bind it, and can.
THEOREM HInvHolds == Spec => []HInv
<1>1. Init => HInv
  BY HInvInductive
<1>2. IInv /\ PInv /\ HInv /\ [Next]_vars => HInv'
  BY HInvInductive
<1>3. QED
  BY <1>1, <1>2, IInvHolds, PInvHolds, PTL DEF Spec

\* A ledger that binds everything is what a reconciliation finds.
LEMMA HeldReconciles ==
  ASSUME IInv, PInv, Held, \A p \in Runners : runner[p].at = "idle"
  PROVE  run.ledger \in Reconciled
<1>0. PICK led : led = run.ledger
  OBVIOUS
<1>1. led \in Seq(Records) /\ \A i \in DOMAIN led : led[i] \in filed
  BY <1>0, HeadOfLedger DEF IInv, LedgerOK
<1>2. /\ Unreferenced = {} /\ \A f \in responses : ResponseBound(f)
      /\ \A e \in expansions : ExpansionBound(e)
  <2>1. \A p \in Runners : ~Holds(p)
    BY DEF Holds
  <2>2. QED
    BY <2>1, NothingHeld
<1>3. << >> \in SetToSeqs(Unreferenced) /\ Adopts(<< >>)
  <2>1. Cardinality(Unreferenced) = 0
    BY <1>2, FS_EmptySet
  <2>2. << >> \in [1 .. 0 -> Unreferenced]
    BY SMT
  <2>3. << >> \in SetToSeqs(Unreferenced)
    BY <2>1, <2>2 DEF SetToSeqs
  <2>4. Adopts(<< >>)
    BY DEF Adopts
  <2>5. QED
    BY <2>3, <2>4
<1>4. led \o << >> = led
  BY <1>1
<1>5. Bound(led)
  BY <1>0, <1>2 DEF Bound, Held, RequestsBound, ResponseBound, ExpansionBound
<1>6. Prompted(led)
  BY <1>1 DEF Prompted, PInv, ReachedFact
<1>7. QED
  BY <1>0, <1>3, <1>4, <1>5, <1>6 DEF Reconciled

\* What is on disk and what run.json names go together, both ways: nothing but a death or
\* an I/O failure leaves evidence that no record binds, whatever the runners do to each
\* other, so that a run nobody works on can always be gone on with.
THEOREM EvidenceIsLedgeredHolds == Spec => []EvidenceIsLedgered
<1>1. IInv /\ PInv /\ HInv => OrphansNeedAFault
  BY HeldReconciles DEF HInv, OrphansNeedAFault
<1>2. EvidenceIsBound /\ OrphansNeedAFault => EvidenceIsLedgered
  BY DEF EvidenceIsLedgered
<1>3. QED
  BY <1>1, <1>2, IInvHolds, PInvHolds, HInvHolds, EvidenceHolds, PTL

=============================================================================
