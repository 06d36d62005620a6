--------------------------- MODULE MCRequestStore ---------------------------
(***************************************************************************)
(* Instances of RequestStore, with its mapping to ProjectQueue, for TLC.   *)
(* Request identifiers, projects and keys are symmetric: the store orders  *)
(* requests by queue sequence, time and rowid.                             *)
(***************************************************************************)
EXTENDS QueueRefinement, TLC

StoreSymmetry == Permutations(RequestIds) \cup Permutations(Projects) \cup Permutations(Keys)

=============================================================================
