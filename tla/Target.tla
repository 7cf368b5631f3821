------------------------------- MODULE Target -------------------------------
(***************************************************************************)
(* The 256-bit targets of src/src/pow/target.cpp as byte strings, least    *)
(* significant byte first, and the order of hashes against them.  The base *)
(* of a byte, the bytes of a 32-bit word, the words of a target and the    *)
(* bits of a double are parameters, so that small ones can be checked      *)
(* exhaustively.  A difficulty is the rational num / den.                  *)
(***************************************************************************)
EXTENDS Numbers, FiniteSetsExt

CONSTANTS
    Base,       \* values of a byte (256)
    WordBytes,  \* bytes of a uint32_t (4)
    Words,      \* words of a Hash256 (8)
    Precision   \* bits in the significand of a double (53)

ASSUME TargetAssumption ==
    /\ Base \in Nat /\ \E bits \in 1 .. Base : Base = 2 ^^ bits
    /\ WordBytes \in Nat /\ WordBytes % 2 = 0 /\ WordBytes > 0
    /\ Words \in Nat /\ Words > 2
    /\ Precision \in Nat \ {0}
    /\ Base ^^ (WordBytes \div 2) <= 2 ^^ Precision   \* a double holds 0xffff

Bytes   == WordBytes * Words
Radix   == Base ^^ WordBytes   \* 2^32
High    == Radix * Radix      \* 2^64
Hash256 == [0 .. Bytes - 1 -> 0 .. Base - 1]
AllOnes == [i \in 0 .. Bytes - 1 |-> Base - 1]

\* Byte i of an integer: static_cast<uint8_t>(v >> 8 * i).
ByteOf(v, i) == (v \div Base ^^ i) % Base

\* The number a byte string of n bytes stands for, least significant first.
ValueOf(b, n) ==
    LET sum[i \in 0 .. n] ==
            IF i = 0 THEN 0 ELSE sum[i - 1] + b[i - 1] * Base ^^ (i - 1)
    IN  sum[n]

-----------------------------------------------------------------------------
(* Doubles.                                                                *)

\* a / b rounded to an integer, ties to even.
Nearest(a, b) ==
    LET q == a \div b
        r == a % b
    IN  IF 2 * r < b \/ (2 * r = b /\ q % 2 = 0) THEN q ELSE q + 1

\* The bits it takes to write an integer.
BitLength(q) == CHOOSE e \in 0 .. q : 2 ^^ e > q /\ (e = 0 \/ 2 ^^ (e - 1) <= q)

\* The quotient a / b of two doubles, rounded to Precision bits, and truncated.
DoubleQuotient(a, b) ==
    LET bits == BitLength(a \div b)
    IN  IF bits >= Precision
        THEN Nearest(a, b * 2 ^^ (bits - Precision)) * 2 ^^ (bits - Precision)
        ELSE Nearest(a * 2 ^^ (Precision - bits), b) \div 2 ^^ (Precision - bits)

\* static_cast<uint64_t> of it.  Over 64 bits the conversion is undefined and
\* a build gives over: 0 with the usual x86 sequence, the largest integer with
\* a saturating one.
Overflow == {0, High - 1}

ToUint64(a, b, over) ==
    LET q == DoubleQuotient(a, b) IN IF q < High THEN q ELSE over

-----------------------------------------------------------------------------
(* target_from_difficulty.                                                 *)

TopWord == Words - 2                                     \* k = 6
Diff1   == (Base ^^ (WordBytes \div 2) - 1) * Base ^^ (WordBytes \div 2)
                                                         \* 0xffff0000

\* How often the loop divides d by 2^32: until it is at most 1 or k is 0.
Divisions(num, den) ==
    Min({j \in 0 .. TopWord : j = TopWord \/ num <= den * Radix ^^ j})

\* put_word(k, m) and put_word(k + 1, m >> 32).
PutWords(k, m) ==
    [i \in 0 .. Bytes - 1 |->
        CASE i \div WordBytes = k     -> ByteOf(m % Radix, i % WordBytes)
          [] i \div WordBytes = k + 1 -> ByteOf(m \div Radix, i % WordBytes)
          [] OTHER                    -> 0]

\* Fault: without the test for m = 0.
TargetFromDifficultyUnchecked(num, den, over) ==
    IF num <= 0 THEN AllOnes
    ELSE LET j == Divisions(num, den)
         IN  PutWords(TopWord - j, ToUint64(Diff1 * den * Radix ^^ j, num, over))

TargetFromDifficulty(num, den, over) ==
    IF num <= 0 THEN AllOnes
    ELSE LET j == Divisions(num, den)
             k == TopWord - j
             m == ToUint64(Diff1 * den * Radix ^^ j, num, over)
         IN  IF m = 0 /\ k = TopWord THEN AllOnes ELSE PutWords(k, m)

-----------------------------------------------------------------------------
\* target_from_compact: an exponent byte and three bytes of mantissa, whose
\* sign bit is masked.
TargetFromCompact(exp, mantissa) ==
    LET mant  == mantissa % (Base ^^ 3 \div 2)
        low   == mant \div Base ^^ (3 - exp)
        shift == exp - 3
    IN  [i \in 0 .. Bytes - 1 |->
            CASE exp <= 3 /\ i < 3           -> ByteOf(low, i)
              [] exp > 3 /\ i - shift \in 0 .. 2 -> ByteOf(mant, i - shift)
              [] OTHER                       -> 0]

\* The 64 bits at the top of a target.
PutHigh(hi) ==
    [i \in 0 .. Bytes - 1 |->
        IF i < Bytes - 2 * WordBytes THEN 0 ELSE ByteOf(hi, i - (Bytes - 2 * WordBytes))]

\* Fault: the compact form is shifted into place instead of divided.
MoneroTargetShifted(b, n) ==
    CASE n = Bytes         -> b
      [] n = WordBytes     -> PutHigh(ValueOf(b, n) * Radix)
      [] n = 2 * WordBytes -> PutHigh(ValueOf(b, n))

\* monero_target_from_hex of n bytes b: other lengths throw, and apply_job
\* drops the job.
MoneroTarget(b, n) ==
    CASE n = Bytes         -> b
      [] n = WordBytes     ->
            LET compact == ValueOf(b, n)
            IN  IF compact = 0 THEN AllOnes
                ELSE PutHigh((High - 1) \div ((Radix - 1) \div compact))
      [] n = 2 * WordBytes -> PutHigh(ValueOf(b, n))

\* Fault: the bytes are compared from the wrong end.
MeetsTargetReversed(hash, target) ==
    LET differ == {i \in 0 .. Bytes - 1 : hash[i] # target[i]}
    IN  differ = {} \/ hash[Min(differ)] < target[Min(differ)]

\* meets_target: the most significant byte that differs decides.
MeetsTarget(hash, target) ==
    LET differ == {i \in 0 .. Bytes - 1 : hash[i] # target[i]}
    IN  differ = {} \/ hash[Max(differ)] < target[Max(differ)]

=============================================================================
