-------------------------------- MODULE Work --------------------------------
(***************************************************************************)
(* The assembly of a Stratum job, src/src/stratum/work.cpp.  A byte string *)
(* is a sequence of bytes and sha256d an uninterpreted function, so that   *)
(* a digest is the term it was computed from and fills one place.          *)
(***************************************************************************)
EXTENDS Target, SequencesExt

Sha256d(data) == <<"sha256d", data>>

\* Fault: every byte is taken one place too high.
EncodeExtranonce2Shifted(value, size) ==
    [i \in 1 .. size |-> ByteOf(value, size - i + 1)]

\* encode_extranonce2: most significant byte first, in size bytes.
EncodeExtranonce2(value, size) == [i \in 1 .. size |-> ByteOf(value, size - i)]

\* The coinbase of the job with the two extranonces in it, hashed and folded
\* with the merkle branch.
MerkleRoot(job, xn1, xn2) ==
    LET root[i \in 0 .. Len(job.branch)] ==
            IF i = 0 THEN Sha256d(job.coinb1 \o xn1 \o xn2 \o job.coinb2)
            ELSE Sha256d(<<root[i - 1], job.branch[i]>>)
    IN  root[Len(job.branch)]

\* The bytes of each word of the previous hash are reversed.
SwapWords(prevhash) ==
    [i \in 1 .. Len(prevhash) |->
        LET w == (i - 1) \div WordBytes IN prevhash[2 * w * WordBytes + WordBytes + 1 - i]]

\* build_work: the header with an empty nonce, and what submit() will need.
BuildWork(job, xn1, xn2) ==
    [blob |-> Reverse(job.version) \o SwapWords(job.prevhash)
                 \o <<MerkleRoot(job, xn1, xn2)>>
                 \o Reverse(job.ntime) \o Reverse(job.nbits)
                 \o [i \in 1 .. WordBytes |-> 0],
     extranonce2 |-> xn2, ntime |-> job.ntime]
=============================================================================
