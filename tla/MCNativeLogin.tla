---------------------------- MODULE MCNativeLogin ----------------------------
(***************************************************************************)
(* Instances of NativeLogin for TLC.                                       *)
(***************************************************************************)
EXTENDS NativeLogin
=============================================================================
