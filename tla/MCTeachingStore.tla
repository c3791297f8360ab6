-------------------------- MODULE MCTeachingStore --------------------------
(***************************************************************************)
(* Instances of TeachingStore for TLC.                                     *)
(***************************************************************************)
EXTENDS TeachingStore, TLC

\* Handler threads, and curators, are only compared for equality.
Symmetry == Permutations(Handler) \cup Permutations(Curator)
=============================================================================
