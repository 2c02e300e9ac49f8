---------------------------- MODULE MCFirmwareFlow ----------------------------
(* FirmwareFlow with model values; the keys of a kind are alike. *)
EXTENDS FirmwareFlow, TLC

Symmetry == Permutations(Root) \cup Permutations(Bl) \cup Permutations(Cust)
            \cup Permutations(Boot)
==============================================================================
