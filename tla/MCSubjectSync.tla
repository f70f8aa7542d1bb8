---------------------------- MODULE MCSubjectSync ----------------------------
(* Instances of SubjectSync for TLC. *)
EXTENDS SubjectSync, TLC

CONSTANT s1

OneYouTube == [s \in {s1} |-> "youtube"]
AllFacebook == [s \in Subjects |-> "facebook"]

IdSymmetry == Permutations(Ids)
=============================================================================
