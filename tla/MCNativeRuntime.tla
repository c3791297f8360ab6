-------------------------- MODULE MCNativeRuntime --------------------------
(***************************************************************************)
(* Instances of NativeRuntime for TLC: the tasks are model values.         *)
(***************************************************************************)
EXTENDS NativeRuntime, TLC

=============================================================================
