---------------------------- MODULE MCTransport ----------------------------
(***************************************************************************)
(* Instances of Transport for TLC.                                         *)
(***************************************************************************)
EXTENDS Transport, TLC

\* Tasks are only compared for equality.
Symmetry == Permutations(Client)
=============================================================================
