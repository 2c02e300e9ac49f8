-------------------------- MODULE MCBrokerSessions --------------------------
(* Instances of BrokerSessions for TLC.                                    *)
EXTENDS BrokerSessions, TLC

(* Connections and session ids are interchangeable; clients are not, the   *)
(* policy tells them apart.                                                *)
Symmetry == Permutations(Conn) \cup Permutations(Sid)
=============================================================================
