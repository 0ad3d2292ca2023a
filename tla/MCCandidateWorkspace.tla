------------------------ MODULE MCCandidateWorkspace ------------------------
EXTENDS CandidateWorkspace, TLC
CONSTANTS kept, edited, added, removed, old, new

\* The patch edits one file and adds another.
MCBase == [f \in Files |-> IF f = added THEN Missing ELSE old]
MCPatched == [f \in Files |-> CASE f = kept -> old [] f = removed -> Missing [] OTHER -> new]

\* Every run has a path of its own, or all runs have the same identifier.
OwnPlace == [r \in Runs |-> r]
SamePlace == [r \in Runs |-> CHOOSE x \in Places : TRUE]
=============================================================================
