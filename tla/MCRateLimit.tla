----------------------------- MODULE MCRateLimit -----------------------------
(* Instances of RateLimit for TLC. *)
EXTENDS RateLimit, TLC

CONSTANTS key, ip, MinuteLength, DayLength, MinuteLimit, DayLimit

WindowLength == [w \in Windows |-> IF w = "minute" THEN MinuteLength ELSE DayLength]

ClientLimit ==
  [c \in Clients |-> [w \in Windows |-> IF w = "minute" THEN MinuteLimit ELSE DayLimit]]

RequestSymmetry == Permutations(Requests)
=============================================================================
