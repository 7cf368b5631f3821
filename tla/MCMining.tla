------------------------------ MODULE MCMining ------------------------------
(* Small instances of cmd_run with its worker pool.                        *)
EXTENDS Mining, TLC

\* No definition tells one seed hash from another; for safety runs only.
SeedSymmetry == Permutations(Seeds)
=============================================================================
