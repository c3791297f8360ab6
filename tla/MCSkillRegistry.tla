-------------------------- MODULE MCSkillRegistry --------------------------
(***************************************************************************)
(* Instances of SkillRegistry for TLC.                                     *)
(***************************************************************************)
EXTENDS SkillRegistry, TLC

\* Threads and mutations are only compared for equality.
Symmetry == Permutations(Thread) \cup Permutations(Mutation)
=============================================================================
