----------------------- MODULE MCEvaluationAuthority -----------------------
EXTENDS EvaluationAuthority, TLC
OperatorSymmetry == Permutations(Operators)
=============================================================================
