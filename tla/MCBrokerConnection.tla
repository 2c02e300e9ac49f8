------------------------- MODULE MCBrokerConnection -------------------------
(***************************************************************************)
(* BrokerConnection for TLC.  The data signed are only compared, so they   *)
(* are interchangeable.                                                    *)
(***************************************************************************)
EXTENDS BrokerConnection, TLC

Symmetry == Permutations(Data)
=============================================================================
