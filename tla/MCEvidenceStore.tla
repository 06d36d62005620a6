--------------------------- MODULE MCEvidenceStore ---------------------------
(***************************************************************************)
(* The daemon and one pruning CLI process on one evidence directory.       *)
(***************************************************************************)
EXTENDS EvidenceStore, TLC

CONSTANTS cli, p1, p2, n1, d1, d2

MCClis == {cli}
MCProjects == {p1, p2}
MCNames == {n1}
MCDigests == {d1, d2}

Symmetry == Permutations(MCDigests) \cup Permutations(MCProjects)

=============================================================================
