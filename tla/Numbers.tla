------------------------------ MODULE Numbers ------------------------------
(***************************************************************************)
(* Powers, by the multiplications they stand for, which a proof can follow *)
(* one at a time.                                                          *)
(***************************************************************************)
EXTENDS Integers

b ^^ n ==
    LET power[i \in 0 .. n] == IF i = 0 THEN 1 ELSE b * power[i - 1] IN power[n]

=============================================================================
