-------------------------- MODULE MCStratumSession --------------------------
(* A small instance of a miner and its Stratum V1 pool.                    *)
EXTENDS StratumSession, TLC
=============================================================================
