--------------------------- MODULE MCCoordinator ---------------------------
(***************************************************************************)
(* Instances of Coordinator for TLC.                                       *)
(***************************************************************************)
EXTENDS Coordinator, TLC

\* run_async() with a deadline.
LimitedForms == [mode : {"async"}, limited : {TRUE}, len : {1}]

\* run_async() and run_batch(), which is run() with more than one step.
AnyForms == LimitedForms \cup [mode : {"batch"}, limited : {TRUE}, len : {2}]

\* Calls, coordinators and owners are only compared for equality.
Symmetry == Permutations(Call) \cup Permutations(Coord) \cup Permutations(Owner)

=============================================================================
