------------------------------ MODULE Dataset ------------------------------
(***************************************************************************)
(* How build_dataset_parallel (src/src/pow/randomx_context.cpp) divides    *)
(* the items of the RandomX dataset among its threads.                     *)
(***************************************************************************)
EXTENDS Integers

\* The constructor replaces 0 threads by one per core; std::max guards again.
InitThreads(n) == IF n = 0 THEN 1 ELSE n

\* Fault: every thread takes the same count, and the remainder is nobody's.
SliceEven(total, n, i) ==
    LET per == total \div n IN i * per .. (i + 1) * per - 1

\* The items thread i of n initialises: the last thread takes the remainder.
Slice(total, n, i) ==
    LET per   == total \div n
        start == i * per
        count == IF i = n - 1 THEN total - start ELSE per
    IN  start .. start + count - 1

=============================================================================
