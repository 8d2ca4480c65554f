------------------------------ MODULE MCRelease ------------------------------
(***************************************************************************)
(* A small instance of Release: two patterns, three releases, so that a    *)
(* release can be prepared after a rollback and after a withdrawal.        *)
(***************************************************************************)
EXTENDS Release, TLC

Symmetry == Permutations(DeploymentIds) \cup Permutations(Artifacts)
              \cup Permutations(Patterns)
=============================================================================
