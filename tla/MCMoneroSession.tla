-------------------------- MODULE MCMoneroSession --------------------------
(* A small instance of a miner and its Monero pool.                        *)
EXTENDS MoneroSession, TLC
=============================================================================
