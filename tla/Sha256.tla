------------------------------- MODULE Sha256 -------------------------------
(***************************************************************************)
(* The streaming part of src/src/pow/sha256.cpp: what update() and         *)
(* finish() feed to transform(), block by block.  The compression function *)
(* itself is left uninterpreted: the digest is the list of the blocks it   *)
(* was given.                                                              *)
(***************************************************************************)
EXTENDS Numbers, SequencesExt

CONSTANTS
    BlockLen,  \* bytes of a block (64)
    LenLen,    \* bytes of the length field (8)
    ByteBits   \* bits of a byte (8)

ASSUME Sha256Assumption ==
    /\ LenLen \in Nat \ {0} /\ BlockLen \in Nat /\ LenLen < BlockLen
    /\ ByteBits \in Nat \ {0}

LenMod == 2 ^^ (ByteBits * LenLen)   \* range of bitlen_ (2^64)

\* reset().
Fresh == [blocks |-> <<>>, buf |-> <<>>, bitlen |-> 0]

\* One turn of the loop in update().
Put(s, b) ==
    LET buf == Append(s.buf, b)
    IN  IF Len(buf) = BlockLen
        THEN [blocks |-> Append(s.blocks, buf), buf |-> <<>>,
              bitlen |-> (s.bitlen + BlockLen * ByteBits) % LenMod]
        ELSE [s EXCEPT !.buf = buf]

Update(s, data) ==
    LET after[i \in 0 .. Len(data)] ==
            IF i = 0 THEN s ELSE Put(after[i - 1], data[i])
    IN  after[Len(data)]

Zeros(n) == [i \in 1 .. n |-> 0]

\* The length, most significant byte first.
LenBytes(bits) ==
    [i \in 1 .. LenLen |-> (bits \div 2 ^^ (ByteBits * (LenLen - i))) % 2 ^^ ByteBits]

Bits(s) == (s.bitlen + Len(s.buf) * ByteBits) % LenMod

\* The bit after the message, and zeros up to the place of the length.
Pad(s) ==
    LET one  == Put(s, 2 ^^ (ByteBits - 1))
        room == {n \in 0 .. BlockLen :
                    Len(Update(one, Zeros(n)).buf) = BlockLen - LenLen}
    IN  Update(one, Zeros(Min(room)))

\* Fault: the length is taken after the padding was added.
FinishLate(s) ==
    LET p == Pad(s) IN Update(p, LenBytes(Bits(p)))

\* finish(): the length is that of the message, taken before the padding.
Finish(s) == Update(Pad(s), LenBytes(Bits(s)))

=============================================================================
