--------------------------- MODULE MCProjectStore ---------------------------
(* Instances of ProjectStore for TLC. *)
EXTENDS ProjectStore, TLC

MCValues == Config
Symmetry == Permutations(Projects)

=============================================================================
