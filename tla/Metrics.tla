------------------------------ MODULE Metrics ------------------------------
(***************************************************************************)
(* Metrics (src/src/telemetry/metrics.cpp): the sampling window that every *)
(* snapshot() closes, taken by the status line of cmd_run and by each      *)
(* scrape of the HTTP endpoint.  The smoothed rate is a function of the    *)
(* samples, so the samples stand for it.                                   *)
(***************************************************************************)
EXTENDS Integers

CONSTANT Word   \* 2^64: the range of the unsigned subtraction

Samplers == {"main", "http"}

VARIABLES
    hashes_,      \* hashes_
    last_hashes_, \* last_hashes_
    m_,           \* the holder of m_, or "free"
    total,        \* the local of snapshot(), per thread, 0 outside it
    sampled       \* history: the sum of all samples total - last_hashes_

vars == <<hashes_, last_hashes_, m_, total, sampled>>

Init ==
    /\ hashes_ = 0 /\ last_hashes_ = 0 /\ m_ = "free"
    /\ total = [t \in Samplers |-> 0] /\ sampled = 0

\* A new process: the same values, after the first one.
Reset ==
    /\ hashes_' = 0 /\ last_hashes_' = 0 /\ m_' = "free"
    /\ total' = [t \in Samplers |-> 0] /\ sampled' = 0

set_total_hashes(n) ==
    hashes_' = n /\ UNCHANGED <<last_hashes_, m_, total, sampled>>

\* Fault: snapshot() reads the counter without waiting for m_.
BeginUnlocked(t) ==
    /\ total' = [total EXCEPT ![t] = hashes_] /\ m_' = t
    /\ UNCHANGED <<hashes_, last_hashes_, sampled>>

\* snapshot() by thread t locks m_ and reads the clock and the counter.
Begin(t) ==
    /\ m_ = "free" /\ m_' = t
    /\ total' = [total EXCEPT ![t] = hashes_]
    /\ UNCHANGED <<hashes_, last_hashes_, sampled>>

\* The window closes if the clock has moved since the last one; the lock is
\* released on return.
Close(t) ==
    /\ \/ /\ sampled' = sampled + ((total[t] - last_hashes_) % Word)
          /\ last_hashes_' = total[t]
       \/ UNCHANGED <<sampled, last_hashes_>>
    /\ m_' = "free" /\ total' = [total EXCEPT ![t] = 0]
    /\ UNCHANGED hashes_

-----------------------------------------------------------------------------
\* Every variable has its type.
TypeOK ==
    /\ hashes_ \in Nat /\ last_hashes_ \in Nat /\ sampled \in Nat
    /\ m_ \in Samplers \cup {"free"} /\ total \in [Samplers -> Nat]

\* The windows of all snapshots tile the hashes: however the status line and
\* the scrapes interleave, no hash is sampled twice or left out and no sample
\* wraps below zero into an absurd rate.
WindowsTile == sampled = last_hashes_ /\ last_hashes_ <= hashes_
=============================================================================
