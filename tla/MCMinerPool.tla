---------------------------- MODULE MCMinerPool ----------------------------
(* Small instances of the worker pool.  The bounds are in the .cfg files.  *)
EXTENDS MinerPool, TLC
=============================================================================
