---------------------------- MODULE MCTcpClient ----------------------------
(* TcpClient for TLC: a guard of one byte and reads of at most two.       *)
EXTENDS TcpClient
=============================================================================
