--------------------------- MODULE MCGatewaySession ---------------------------
(* Instances of GatewaySession for TLC.  At first every row says the same, and *)
(* of platforms, rules and credentials there are all or none.                  *)
EXTENDS GatewaySession, TLC

MCInit ==
  /\ Init
  /\ \A k \in Keys : db[k] # Absent => db[k].value = NoValue
  /\ \A k, l \in Keys \ Users : db[k] = db[l]

MCSpec == MCInit /\ [][Next]_vars

RequestSymmetry == Permutations(Requests)
=============================================================================
