---------------------------- MODULE MCNodeScaler ----------------------------
(* Instances of NodeScaler for TLC. *)
EXTENDS NodeScaler, TLC

\* Nothing tells two names of the same kind apart.
Symmetry == Permutations(InitialNodes) \union Permutations(JobIds)
=============================================================================
