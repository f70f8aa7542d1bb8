---------------------------- MODULE MCAlertEngine ----------------------------
(* Instances of AlertEngine for TLC. *)
EXTENDS AlertEngine, TLC

CONSTANTS s1, s2, s3, r1, r2, e1, e2, e3

TwoSubjects == [r \in {r1, r2} |-> IF r = r1 THEN s1 ELSE s2]
OneRule == [r \in {r1} |-> s1]

CooldownOne == [r \in Rules |-> 1]
CooldownTwo == [r \in Rules |-> 2]

AboutFirst == [t \in Evaluations |-> s1]
MessageSymmetry == Permutations(Evaluations \ DirectEvaluations)

AboutUnknown == [t \in Evaluations |-> IF t = e1 THEN s1 ELSE s3]
=============================================================================
