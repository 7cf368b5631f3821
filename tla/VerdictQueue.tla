---------------------------- MODULE VerdictQueue ----------------------------
(***************************************************************************)
(* The counting argument behind the verdicts of both pool sessions.  The   *)
(* verdicts in favour that are under way sit at some places of a queue.    *)
(* They are no more than the shares the pool has accepted (hi) and the     *)
(* miner has not counted (lo) if each can be given a number of its own in  *)
(* between, in the order of the queue.                                     *)
(***************************************************************************)
EXTENDS Naturals, TLAPS

Numbered(places, lo, hi) ==
    \E n \in [places -> Nat] :
        /\ \A i \in places : lo < n[i] /\ n[i] <= hi
        /\ \A i, j \in places : i < j => n[i] < n[j]

\* The places after the head of the queue is gone.
Shifted(places) == {i \in Nat \ {0} : i + 1 \in places}

\* An empty queue of a client that lost its connection has no verdict.
LEMMA NumberedEmpty == \A lo, hi : Numbered({}, lo, hi)
<1> SUFFICES ASSUME NEW lo, NEW hi PROVE Numbered({}, lo, hi)
  OBVIOUS
<1> DEFINE n == [i \in {} |-> 0]
<1>1. n \in [{} -> Nat]
  OBVIOUS
<1> QED
  BY <1>1 DEF Numbered

\* A share accepted by the pool puts its verdict at the end of the queue.
LEMMA NumberedAppend ==
    ASSUME NEW places \in SUBSET Nat, NEW lo \in Nat, NEW hi \in Nat, lo <= hi,
           NEW k \in Nat, \A i \in places : i < k, Numbered(places, lo, hi)
    PROVE  Numbered(places \cup {k}, lo, hi + 1)
<1>1. PICK n \in [places -> Nat] :
        /\ \A i \in places : lo < n[i] /\ n[i] <= hi
        /\ \A i, j \in places : i < j => n[i] < n[j]
  BY DEF Numbered
<1> DEFINE m == [i \in places \cup {k} |-> IF i = k THEN hi + 1 ELSE n[i]]
<1>2. m \in [places \cup {k} -> Nat]
  BY <1>1
<1>3. \A i \in places \cup {k} : lo < m[i] /\ m[i] <= hi + 1
  BY <1>1
<1>4. \A i, j \in places \cup {k} : i < j => m[i] < m[j]
  BY <1>1
<1> HIDE DEF m
<1> QED
  BY <1>2, <1>3, <1>4 DEF Numbered

\* The head of the queue is read: if it was a verdict there is an accepted
\* share to count, and the rest still has numbers after that.
LEMMA NumberedTail ==
    ASSUME NEW places \in SUBSET (Nat \ {0}), NEW lo \in Nat, NEW hi \in Nat,
           Numbered(places, lo, hi)
    PROVE  /\ Numbered(Shifted(places), lo, hi)
           /\ 1 \in places => lo < hi /\ Numbered(Shifted(places), lo + 1, hi)
<1>1. PICK n \in [places -> Nat] :
        /\ \A i \in places : lo < n[i] /\ n[i] <= hi
        /\ \A i, j \in places : i < j => n[i] < n[j]
  BY DEF Numbered
<1> DEFINE m == [i \in Shifted(places) |-> n[i + 1]]
<1>2. m \in [Shifted(places) -> Nat]
  BY <1>1 DEF Shifted
<1>3. \A i \in Shifted(places) : lo < m[i] /\ m[i] <= hi
  BY <1>1 DEF Shifted
<1>4. \A i, j \in Shifted(places) : i < j => m[i] < m[j]
  BY <1>1 DEF Shifted
<1>5. ASSUME 1 \in places PROVE lo < hi /\ \A i \in Shifted(places) : lo + 1 < m[i]
  <2>1. lo < n[1] /\ n[1] <= hi
    BY <1>1, <1>5
  <2>2. \A i \in Shifted(places) : n[1] < m[i]
    BY <1>1, <1>5 DEF Shifted
  <2> QED
    BY <1>1, <1>2, <1>5, <2>1, <2>2
<1> HIDE DEF m
<1> QED
  BY <1>2, <1>3, <1>4, <1>5 DEF Numbered

\* A lost connection loses verdicts: those that remain keep their numbers.
LEMMA NumberedSub ==
    ASSUME NEW places, NEW lo, NEW hi, NEW fewer \in SUBSET places, Numbered(places, lo, hi)
    PROVE  Numbered(fewer, lo, hi)
<1>1. PICK n \in [places -> Nat] :
        /\ \A i \in places : lo < n[i] /\ n[i] <= hi
        /\ \A i, j \in places : i < j => n[i] < n[j]
  BY DEF Numbered
<1> DEFINE m == [i \in fewer |-> n[i]]
<1>2. m \in [fewer -> Nat] /\ \A i \in fewer : m[i] = n[i] /\ i \in places
  BY <1>1
<1> HIDE DEF m
<1> QED
  BY <1>1, <1>2 DEF Numbered
=============================================================================
