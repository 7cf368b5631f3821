---------------------------- MODULE MCArithmetic ----------------------------
(* Arithmetic for TLC: two-bit bytes, words of two bytes, targets of four  *)
(* words, doubles of six bits.                                             *)
EXTENDS Arithmetic
=============================================================================
