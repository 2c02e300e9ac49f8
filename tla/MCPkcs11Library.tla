-------------------------- MODULE MCPkcs11Library --------------------------
(***************************************************************************)
(* Pkcs11Library for TLC.  Keys and chunks are only compared.              *)
(***************************************************************************)
EXTENDS Pkcs11Library, TLC

Symmetry == Permutations(Arn) \cup Permutations(Chunk)
=============================================================================
