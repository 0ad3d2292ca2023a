----------------------------- MODULE ExchangeLog -----------------------------
(***************************************************************************)
(* What the exchange ledger promises: a log of questions to a provider and *)
(* the one answer to each, that is only ever extended.  A question is asked *)
(* when the one before it has been answered, and follows from that answer  *)
(* or opens an attempt of a step.                                          *)
(***************************************************************************)
EXTENDS Naturals, Sequences, SequencesExt

CONSTANTS Steps, Attempts, Answers, Open

VARIABLE log   \* the questions, each with its answer or Open

Entries == [step : Steps, attempt : Attempts, answer : Answers \cup {Open}]

Settled == log = << >> \/ Last(log).answer # Open

\* A conversation goes on after an answer that calls for another question.
Continues(s, a) ==
  /\ log # << >>
  /\ Last(log).step = s /\ Last(log).attempt = a
  /\ Last(log).answer \in {"context", "malformed"}

Opens(s, a) == \A i \in DOMAIN log : log[i].step = s => log[i].attempt < a

Ask(s, a) ==
  /\ Settled
  /\ Continues(s, a) \/ Opens(s, a)
  /\ log' = Append(log, [step |-> s, attempt |-> a, answer |-> Open])

Answer(answer) ==
  /\ ~Settled
  /\ log' = [log EXCEPT ![Len(log)].answer = answer]

Init == log = << >>

Next == \/ \E s \in Steps, a \in Attempts : Ask(s, a)
        \/ \E answer \in Answers : Answer(answer)

Spec == Init /\ [][Next]_log
=============================================================================
