--------------------------- MODULE MCProvisioning ---------------------------
(***************************************************************************)
(* DeviceProvisioning for TLC.  program-device calls the workflow with a   *)
(* reset callback and without disable_initialize; the constructor takes    *)
(* any combination.                                                        *)
(***************************************************************************)
EXTENDS DeviceProvisioning

CommandLine == [lock : BOOLEAN, disable : {FALSE}, callback : {TRUE}, version : 1 .. MaxVersion]
=============================================================================
