------------------------- MODULE MCBrokerLifecycle --------------------------
(* Instances of BrokerLifecycle for TLC.                                   *)
EXTENDS BrokerLifecycle, TLC

CONSTANTS r1, r2, k1, k2

(* Two configurations that differ in region and credentials                *)
Configs == {[region |-> r1, creds |-> k1], [region |-> r2, creds |-> k2]}

(* Processes are interchangeable, and so are clients, and the two          *)
(* configurations as a whole.                                              *)
Swap == (r1 :> r2) @@ (r2 :> r1) @@ (k1 :> k2) @@ (k2 :> k1)
Symmetry == Permutations(Pid) \cup Permutations(Client) \cup {Swap}
=============================================================================
