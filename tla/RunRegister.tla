---------------------------- MODULE RunRegister ----------------------------
(***************************************************************************)
(* What the persistence of run.json promises: a register whose value grows *)
(* by one transition at a time, each applied to the value that is there,   *)
(* and which may lose transitions only as long as nobody was told that     *)
(* they are durable.  A value is the sequence of transitions it went       *)
(* through; << >> is a run that does not exist.                            *)
(***************************************************************************)
EXTENDS Naturals, Sequences

CONSTANT Steps    \* the transitions a publication can apply

VARIABLES
  value,          \* what a reader sees
  stable          \* what was last acknowledged

vars == <<value, stable>>

Init == value = << >> /\ stable = << >>

Publish == \E s \in Steps : value' = Append(value, s) /\ UNCHANGED stable

Acknowledge == stable' = value /\ UNCHANGED value

Lose ==
  \E n \in Len(stable) .. Len(value) : value' = SubSeq(value, 1, n) /\ UNCHANGED stable

Next == Publish \/ Acknowledge \/ Lose

Spec == Init /\ [][Next]_vars
=============================================================================
