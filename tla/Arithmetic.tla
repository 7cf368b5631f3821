----------------------------- MODULE Arithmetic -----------------------------
(***************************************************************************)
(* The pure functions the miner depends on, run on every input within      *)
(* bounds and compared with definitions that do not follow their code: the *)
(* targets (Target), the padding of SHA-256 (Sha256), the division of the  *)
(* dataset (Dataset) and the assembly of Stratum work (Work).              *)
(***************************************************************************)
EXTENDS Target, Sha256, Dataset, Work

CONSTANTS
    Den,       \* denominator of the difficulties
    MaxNum,    \* bound: numerator of a difficulty
    MaxMsg,    \* bound: bytes of a message
    MaxItems,  \* bound: items of a dataset
    MaxCount,  \* bound: value of xn2_counter_
    MaxXn2,    \* bound: bytes of an extranonce2
    MaxBranch  \* bound: nodes of a merkle branch

ASSUME ArithmeticAssumption == Den \in Nat \ {0} /\ MaxNum \in Nat /\ MaxItems \in Nat

VARIABLES input, output

vars == <<input, output>>

Difficulty == [fn : {"difficulty"}, num : 0 .. MaxNum, over : Overflow]
Compare    == [fn : {"meets"}, hash : Hash256, num : {0, Den, MaxNum}]
Monero     == {m \in [fn : {"monero"}, word : 0 .. High - 1, n : {WordBytes, 2 * WordBytes}] :
                  m.word < Base ^^ m.n}
Compact    == [fn : {"compact"}, exp : 0 .. Bytes + 4, mant : 0 .. Base ^^ 3 - 1]
Message    == {m \in [fn : {"sha256"}, len : 0 .. MaxMsg, cut : 0 .. MaxMsg] : m.cut <= m.len}
Items      == [fn : {"dataset"}, total : 0 .. MaxItems, n : 0 .. MaxItems]
Rebuilds   == [fn : {"work"}, first : 0 .. MaxCount, second : 0 .. MaxCount,
               size : 1 .. MaxXn2, branch : 0 .. MaxBranch]

Inputs ==
    Difficulty \cup Compare \cup Monero \cup Compact \cup Message \cup Items \cup Rebuilds

Init == input \in Inputs /\ output = <<>>

\* The bytes of a message are numbered, so that a lost or moved one is seen.
Msg(n) == [i \in 1 .. n |-> -i]

ByteString(v, n) == [i \in 0 .. n - 1 |-> ByteOf(v, i)]

\* output is empty before the call and holds the one result after it.
Call(fn) == output = <<>> /\ input.fn = fn

Return(result) == output' = <<result>> /\ UNCHANGED input

\* The target for a difficulty, and for the next higher one.
RunDifficulty ==
    /\ Call("difficulty")
    /\ Return(<<TargetFromDifficulty(input.num, Den, input.over),
                TargetFromDifficulty(input.num + 1, Den, input.over)>>)

RunMeets ==
    /\ Call("meets")
    /\ LET t == TargetFromDifficulty(input.num, Den, 0)
       IN  Return([met |-> MeetsTarget(input.hash, t), target |-> t])

RunMonero ==
    /\ Call("monero")
    /\ Return(MoneroTarget(ByteString(input.word, input.n), input.n))

RunCompact ==
    /\ Call("compact")
    /\ Return(TargetFromCompact(input.exp, input.mant))

\* sha256 of a message that comes in two pieces.
RunSha256 ==
    /\ Call("sha256")
    /\ LET msg   == Msg(input.len)
           first == Update(Fresh, SubSeq(msg, 1, input.cut))
       IN  Return(Finish(Update(first, SubSeq(msg, input.cut + 1, input.len))))

RunDataset ==
    /\ Call("dataset")
    /\ LET n == InitThreads(input.n)
       IN  Return([i \in 0 .. n - 1 |-> Slice(input.total, n, i)])

\* A job whose bytes are all different.
AnyJob(branch) ==
    [coinb1 |-> <<-1>>, coinb2 |-> <<-2>>, branch |-> [i \in 1 .. branch |-> -20 - i],
     prevhash |-> [i \in 1 .. 2 * WordBytes |-> -2 - i], version |-> <<-10, -11>>,
     ntime |-> <<-12, -13>>, nbits |-> <<-14, -15>>]

\* rebuild_job() at two values of xn2_counter_.
RunWork ==
    /\ Call("work")
    /\ LET Build(n) == BuildWork(AnyJob(input.branch), <<-16>>,
                                 EncodeExtranonce2(n, input.size))
       IN  Return(<<Build(input.first), Build(input.second)>>)

Next ==
    RunDifficulty \/ RunMeets \/ RunMonero \/ RunCompact \/ RunSha256 \/ RunDataset
    \/ RunWork

Spec == Init /\ [][Next]_vars

-----------------------------------------------------------------------------
Done(fn) == output # <<>> /\ input.fn = fn

Result == output[1]

Number(t) == ValueOf(t, Bytes)

\* The target of a difficulty is 0xffff0000 * 2^192 divided by it, up to what
\* the words below the two that are set, and the last bit of a double, can
\* hold; and a higher difficulty never has an easier target, not even where the
\* conversion of the quotient is undefined.
TargetFaithful ==
    Done("difficulty") =>
        /\ Number(Result[1]) >= Number(Result[2])
        /\ LET exact == (Diff1 * Radix ^^ TopWord * Den) \div input.num
               ulp   == (exact \div 2 ^^ Precision) + 1
               lost  == Radix ^^ (TopWord - Divisions(input.num, Den))
           IN  input.num > 0 /\ exact < Base ^^ Bytes =>
                 Number(Result[1]) \in exact - lost - ulp .. exact + ulp

\* meets_target is the order of the numbers (target.hpp:34: hash <= target), for
\* the target of all ones, the one of difficulty 1 and one in the lower words.
MeetsIsOrder ==
    Done("meets") => (Result.met <=> Number(input.hash) <= Number(Result.target))

\* A compact Monero target admits exactly the high words whose difficulty is at
\* least the one the pool wrote down, a longer one is the 64 bits on top, and an
\* nBits target is its mantissa shifted by its exponent (what lies above 256 bits
\* is dropped).
TargetsDecode ==
    /\ Done("monero") /\ input.n = WordBytes /\ input.word > 0 =>
          LET diff == (Radix - 1) \div input.word
          IN  \A hi \in 0 .. High - 1 :
                 MeetsTarget(PutHigh(hi), Result)
                     <=> hi = 0 \/ (High - 1) \div hi >= diff
    /\ Done("monero") /\ input.n = 2 * WordBytes =>
          Number(Result) = input.word * Base ^^ (Bytes - 2 * WordBytes)
    /\ Done("compact") =>
          LET mant == input.mant % (Base ^^ 3 \div 2)
          IN  Number(Result) = IF input.exp <= 3 THEN mant \div Base ^^ (3 - input.exp)
                               ELSE (mant * Base ^^ (input.exp - 3)) % Base ^^ Bytes

\* However a message is cut into updates, transform() sees it whole and in
\* order, then one bit, the fewest zeros that fill the last block, and its
\* length; at every length, also around a block boundary.
PaddingExact ==
    Done("sha256") =>
        LET n     == input.len
            total == Min({k \in 1 .. n + 2 * BlockLen + 1 :
                            k % BlockLen = 0 /\ k >= n + 1 + LenLen})
            whole == Msg(n) \o <<2 ^^ (ByteBits - 1)>> \o Zeros(total - n - 1 - LenLen)
                        \o LenBytes((n * ByteBits) % LenMod)
        IN  /\ Result.buf = <<>>
            /\ FlattenSeq(Result.blocks) = whole
            /\ \A b \in ToSet(Result.blocks) : Len(b) = BlockLen

\* Every item of the dataset is initialised, and by one thread only, also when
\* there are more threads than items.
SlicesTile ==
    Done("dataset") =>
        /\ UNION {Result[i] : i \in DOMAIN Result} = 0 .. input.total - 1
        /\ \A i, j \in DOMAIN Result : i # j => Result[i] \cap Result[j] = {}

\* rebuild_job() never hands out the same header twice for one job until its
\* counter has gone through all values of the bytes the pool allows, and it
\* submits an extranonce2 of just that length: work is repeated (and its shares
\* are duplicates) exactly when the truncated counter is.
WorkIsNew ==
    Done("work") =>
        /\ Result[1].blob = Result[2].blob
              <=> input.first % Base ^^ input.size = input.second % Base ^^ input.size
        /\ \A w \in ToSet(Result) : Len(w.extranonce2) = input.size
=============================================================================
