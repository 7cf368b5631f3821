----------------------------- MODULE MCShutdown -----------------------------
(* A small instance of a session from launch to exit.                      *)
EXTENDS Shutdown, TLC
=============================================================================
