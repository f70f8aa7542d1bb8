--------------------------- MODULE MCResponseCache ---------------------------
(* Instances of ResponseCache for TLC. *)
EXTENDS ResponseCache, TLC

CONSTANTS list, subject, ListTtl, SubjectTtl

EntryTtl == [e \in Entries |-> IF e \in Lists THEN ListTtl ELSE SubjectTtl]

RequestSymmetry == Permutations(Requests)
=============================================================================
