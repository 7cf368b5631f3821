-------------------------- MODULE MinerPoolProofs --------------------------
(***************************************************************************)
(* Proofs about the worker pool, for every number of threads, every chunk  *)
(* size and every bound.                                                   *)
(***************************************************************************)
EXTENDS MinerPool, Integers, FiniteSetTheorems, TLAPS

\* The remainder by a positive number is below it (the 32-bit nonce addition
\* and the 64-bit hash counter both wrap).
LEMMA ModRange ==
    ASSUME NEW a \in Nat, NEW m \in Nat \ {0}
    PROVE  a % m \in 0 .. m - 1
  OBVIOUS

\* The set of workers is finite.
LEMMA WorkersFinite == IsFiniteSet(Workers)
  BY FS_Interval, PoolAssumption DEF Workers

-----------------------------------------------------------------------------
(* Types, the length of a chunk and in_flight_ form one inductive          *)
(* invariant: in_flight_ stays a natural number only because it counts the *)
(* workers inside a chunk.                                                 *)

CountInv == TypeOK /\ ChunkOK /\ InFlightExact

LEMMA CountInit == Init => CountInv
<1> SUFFICES ASSUME Init PROVE CountInv
  OBVIOUS
<1>1. TypeOK
  <2>1. /\ running \in BOOLEAN /\ paused \in BOOLEAN /\ held \in BOOLEAN
        /\ sb \in {"empty", "set", "clear"} /\ (~TSO => sb = "empty")
        /\ cpc \in CallerAt
        /\ work \in Job \cup {NoJob} /\ carg \in Job \cup {NoJob}
    BY DEF Init, CallerAt
  <2>2. /\ inFlight \in Nat /\ workGen \in Nat /\ hasherGen \in Nat
        /\ hashes \in 0 .. HashMod - 1 /\ hashed \in 0 .. HashMod - 1
    BY PoolAssumption DEF Init
  <2>3. /\ wpc \in [Workers -> WorkerAt]
        /\ local \in [Workers -> Job \cup {NoJob}]
    BY DEF Init, WorkerAt
  <2>4. /\ localHG \in [Workers -> Nat]
        /\ gen \in [Workers -> Nat] /\ localGen \in [Workers -> Nat]
    BY DEF Init
  <2>5. /\ nonce \in [Workers -> 0 .. NonceSpace - 1]
        /\ done \in [Workers -> 0 .. KChunk]
        /\ slipped \in SUBSET Workers
    BY PoolAssumption DEF Init
  <2> QED
    BY <2>1, <2>2, <2>3, <2>4, <2>5 DEF TypeOK
<1>2. ChunkOK
  BY PoolAssumption DEF Init, ChunkOK, HashingAt
<1>3. InFlight = {}
  BY DEF Init, InFlight, InFlightAt
<1>4. InFlightExact
  BY <1>3, FS_EmptySet DEF Init, InFlightExact
<1> QED
  BY <1>1, <1>2, <1>4 DEF CountInv

\* The caller's operations preserve the types.
LEMMA TypeCaller ==
    TypeOK /\ (CallerBegins \/ CallerContinues \/ Drain) => TypeOK'
<1> SUFFICES ASSUME TypeOK, CallerBegins \/ CallerContinues \/ Drain
             PROVE  TypeOK'
  OBVIOUS
<1> USE PoolAssumption DEF TypeOK, shared, caller, progress, CallerAt, WorkerAt
<1>1. CASE Start \/ StartFails
  <2>1. PICK k \in 0 .. Threads : StartThreads(k)
    BY <1>1 DEF Start, StartFails
  <2>2. wpc' \in [Workers -> WorkerAt]
    BY <2>1 DEF StartThreads
  <2>3. /\ gen' \in [Workers -> Nat] /\ localGen' \in [Workers -> Nat]
        /\ local' \in [Workers -> Job \cup {NoJob}]
        /\ nonce' \in [Workers -> 0 .. NonceSpace - 1]
    BY <2>1 DEF StartThreads
  <2> QED
    BY <2>1, <2>2, <2>3 DEF StartThreads
<1>2. CASE Stop
  BY <1>2 DEF Stop
<1>3. CASE ClearWork
  BY <1>3 DEF ClearWork
<1>4. CASE Pause
  BY <1>4 DEF Pause, StorePaused
<1>5. CASE Resume
  BY <1>5 DEF Resume, StorePaused
<1>6. CASE RebuildHashers
  BY <1>6 DEF RebuildHashers
<1>7. ASSUME NEW j \in Jobs, SetWork(j)
      PROVE  TypeOK'
  BY <1>7 DEF SetWork, Job
<1>8. CASE StopStore
  BY <1>8 DEF StopStore
<1>9. CASE Join
  BY <1>9 DEF Join
<1>10. CASE SetStore
  BY <1>10 DEF SetStore
<1>11. CASE ClearStore
  BY <1>11 DEF ClearStore
<1>12. CASE PauseReturn
  BY <1>12 DEF PauseReturn
<1>13. CASE Drain
  BY <1>13 DEF Drain
<1> QED
  BY <1>1, <1>2, <1>3, <1>4, <1>5, <1>6, <1>7, <1>8, <1>9, <1>10, <1>11,
     <1>12, <1>13 DEF CallerBegins, CallerContinues

\* The end of a turn of the hash loop preserves the types it touches.
LEMMA TypeAdvance ==
    ASSUME TypeOK, NEW w \in Workers, done[w] < KChunk, Advance(w)
    PROVE  /\ nonce' \in [Workers -> 0 .. NonceSpace - 1]
           /\ done' \in [Workers -> 0 .. KChunk]
           /\ wpc' \in [Workers -> WorkerAt]
<1>1. nonce[w] + Threads \in Nat /\ NonceSpace \in Nat \ {0}
  BY PoolAssumption DEF TypeOK
<1>2. NextNonce(nonce[w]) \in 0 .. NonceSpace - 1
  BY <1>1, ModRange DEF NextNonce
<1>3. done[w] + 1 \in 0 .. KChunk
  BY PoolAssumption DEF TypeOK
<1> QED
  BY <1>2, <1>3 DEF TypeOK, Advance, Goto, WorkerAt

\* A worker inside a chunk is counted, so in_flight_ is positive.
LEMMA InFlightPositive ==
    ASSUME CountInv, NEW w \in Workers, wpc[w] \in InFlightAt
    PROVE  inFlight \in Nat \ {0} /\ IsFiniteSet(InFlight) /\ w \in InFlight
<1>1. w \in InFlight
  BY DEF InFlight
<1>2. IsFiniteSet(InFlight)
  BY WorkersFinite, FS_Subset DEF InFlight
<1>3. Cardinality(InFlight) \in Nat /\ Cardinality(InFlight) # 0
  BY <1>1, <1>2, FS_CardinalityType, FS_EmptySet
<1> QED
  BY <1>1, <1>2, <1>3 DEF CountInv, InFlightExact

\* A worker's steps preserve the types.
LEMMA TypeWorker ==
    ASSUME CountInv, NEW w \in Workers, Run(w)
    PROVE  TypeOK'
<1> USE PoolAssumption DEF CountInv, TypeOK, shared, caller, progress, Goto, WorkerAt
<1>1. CASE Make(w)
  BY <1>1 DEF Make
<1>2. CASE RecordHasherGen(w)
  BY <1>2 DEF RecordHasherGen
<1>3. CASE Top(w)
  BY <1>3 DEF Top
<1>4. CASE CheckPaused(w)
  BY <1>4 DEF CheckPaused
<1>5. CASE CheckHasher(w)
  BY <1>5 DEF CheckHasher
<1>6. CASE LoadGen(w)
  BY <1>6 DEF LoadGen
<1>7. CASE Fetch(w)
  <2>1. w \in 0 .. NonceSpace - 1
    BY DEF Workers
  <2> QED
    BY <1>7, <2>1 DEF Fetch
<1>8. CASE Enter(w)
  BY <1>8 DEF Enter
<1>9. CASE Recheck(w)
  BY <1>9 DEF Recheck
<1>10. CASE BackOff(w) \/ Leave(w)
  <2>1. inFlight - 1 \in Nat
    BY <1>10, InFlightPositive DEF BackOff, Leave, InFlightAt
  <2> QED
    BY <1>10, <2>1 DEF BackOff, Leave
<1>11. CASE HashMiss(w) \/ HashHit(w)
  <2>1. (hashed + 1) % HashMod \in 0 .. HashMod - 1
    BY ModRange
  <2>2. done[w] < KChunk
    BY <1>11 DEF HashMiss, HashHit, ChunkOK, HashingAt
  <2>3. CASE HashMiss(w)
    <3>1. /\ nonce' \in [Workers -> 0 .. NonceSpace - 1]
          /\ done' \in [Workers -> 0 .. KChunk]
          /\ wpc' \in [Workers -> WorkerAt]
      BY <2>2, <2>3, TypeAdvance DEF HashMiss
    <3> QED
      BY <2>1, <2>3, <3>1 DEF HashMiss
  <2>4. CASE HashHit(w)
    BY <2>1, <2>4 DEF HashHit
  <2> QED
    BY <1>11, <2>3, <2>4
<1>12. CASE ShareReturn(w)
  <2>1. done[w] < KChunk
    BY <1>12 DEF ShareReturn, ChunkOK, HashingAt
  <2> QED
    BY <1>12, <2>1, TypeAdvance DEF ShareReturn
<1>13. CASE Count(w)
  <2>1. hashes + done[w] \in Nat /\ HashMod \in Nat \ {0}
    OBVIOUS
  <2>2. (hashes + done[w]) % HashMod \in 0 .. HashMod - 1
    BY <2>1, ModRange
  <2> QED
    BY <1>13, <2>2 DEF Count
<1> QED
  BY <1>1, <1>2, <1>3, <1>4, <1>5, <1>6, <1>7, <1>8, <1>9, <1>10, <1>11,
     <1>12, <1>13 DEF Run

-----------------------------------------------------------------------------
(* in_flight_ and the chunk counter.                                       *)

\* The caller changes neither: start() finds every worker outside a chunk and
\* the join does too.
LEMMA CountCaller ==
    ASSUME CountInv, Lifecycle, CallerBegins \/ CallerContinues \/ Drain
    PROVE  (ChunkOK /\ InFlightExact)'
<1>1. CASE UNCHANGED <<wpc, done, inFlight>>
  BY <1>1 DEF CountInv, ChunkOK, InFlightExact, InFlight
<1>2. ASSUME UNCHANGED <<done, inFlight>>,
             \A w \in Workers : wpc[w] \in {"none", "done"},
             \A w \in Workers : wpc'[w] \in {"none", "make"}
      PROVE  (ChunkOK /\ InFlightExact)'
  <2>1. InFlight = {} /\ InFlight' = {}
    BY <1>2 DEF InFlight, InFlightAt
  <2>2. InFlightExact'
    BY <1>2, <2>1 DEF CountInv, InFlightExact
  <2>3. \A w \in Workers : done[w] = 0
    BY <1>2 DEF CountInv, ChunkOK, HashingAt
  <2>4. ChunkOK'
    BY <1>2, <2>3 DEF ChunkOK, HashingAt
  <2> QED
    BY <2>2, <2>4
<1>3. CASE Start \/ StartFails
  <2>1. \A w \in Workers : wpc[w] = "none"
    BY <1>3 DEF Start, StartFails, StartThreads, Lifecycle
  <2> QED
    BY <1>2, <1>3, <2>1 DEF Start, StartFails, StartThreads
<1>4. CASE Join
  BY <1>2, <1>4 DEF Join, shared, progress
<1>5. CASE \/ Stop \/ ClearWork \/ Pause \/ Resume \/ RebuildHashers
           \/ (\E j \in Jobs : SetWork(j))
  BY <1>1, <1>5
     DEF Stop, ClearWork, Pause, Resume, RebuildHashers, SetWork, progress
<1>6. CASE StopStore \/ SetStore \/ ClearStore \/ PauseReturn \/ Drain
  BY <1>1, <1>6
     DEF StopStore, SetStore, ClearStore, PauseReturn, Drain, progress, shared
<1> QED
  BY <1>3, <1>4, <1>5, <1>6 DEF CallerBegins, CallerContinues

\* A worker's step moves it into the in-flight set together with the
\* increment, out of it together with the decrement, or does neither.
LEMMA InFlightWorker ==
    ASSUME CountInv, NEW w \in Workers, Run(w)
    PROVE  InFlightExact'
<1> USE DEF CountInv
<1>0. wpc \in [Workers -> WorkerAt]
  BY DEF TypeOK
<1>1. CASE inFlight' = inFlight /\ InFlight' = InFlight
  BY <1>1 DEF InFlightExact
<1>2. CASE Enter(w)
  <2>1. InFlight' = InFlight \cup {w} /\ w \notin InFlight
    BY <1>0, <1>2 DEF Enter, Goto, InFlight, InFlightAt
  <2>2. IsFiniteSet(InFlight)
    BY WorkersFinite, FS_Subset DEF InFlight
  <2>3. Cardinality(InFlight') = Cardinality(InFlight) + 1
    BY <2>1, <2>2, FS_AddElement
  <2> QED
    BY <1>2, <2>3 DEF Enter, InFlightExact
<1>3. CASE BackOff(w) \/ Leave(w)
  <2>1. wpc[w] \in InFlightAt
    BY <1>3 DEF BackOff, Leave, InFlightAt
  <2>2. InFlight' = InFlight \ {w}
    BY <1>0, <1>3 DEF BackOff, Leave, Goto, InFlight, InFlightAt
  <2>3. Cardinality(InFlight') = Cardinality(InFlight) - 1
    BY <2>1, <2>2, InFlightPositive, FS_RemoveElement
  <2> QED
    BY <1>3, <2>3 DEF BackOff, Leave, InFlightExact
<1>4. CASE Recheck(w) \/ HashHit(w)
  BY <1>0, <1>1, <1>4 DEF Recheck, HashHit, Goto, InFlight, InFlightAt, shared
<1>5. CASE HashMiss(w) \/ ShareReturn(w)
  BY <1>0, <1>1, <1>5
     DEF HashMiss, ShareReturn, Advance, Goto, InFlight, InFlightAt, shared
<1>6. CASE Make(w) \/ RecordHasherGen(w) \/ Top(w) \/ CheckPaused(w) \/ CheckHasher(w)
  BY <1>0, <1>1, <1>6
     DEF Make, RecordHasherGen, Top, CheckPaused, CheckHasher, Goto, InFlight,
         InFlightAt, shared
<1>7. CASE LoadGen(w) \/ Fetch(w) \/ Count(w)
  BY <1>0, <1>1, <1>7 DEF LoadGen, Fetch, Count, Goto, InFlight, InFlightAt, shared
<1> QED
  BY <1>2, <1>3, <1>4, <1>5, <1>6, <1>7 DEF Run

\* A worker's step keeps its chunk within kChunk and clears the counter before
\* the next one.
LEMMA ChunkWorker ==
    ASSUME CountInv, NEW w \in Workers, Run(w)
    PROVE  ChunkOK'
<1> USE PoolAssumption DEF CountInv, TypeOK, ChunkOK, HashingAt, Goto
<1>1. CASE Make(w) \/ RecordHasherGen(w) \/ Top(w) \/ CheckPaused(w) \/ CheckHasher(w)
  BY <1>1 DEF Make, RecordHasherGen, Top, CheckPaused, CheckHasher, progress
<1>2. CASE LoadGen(w) \/ Fetch(w) \/ Enter(w)
  BY <1>2 DEF LoadGen, Fetch, Enter, progress
<1>3. CASE Recheck(w) \/ BackOff(w) \/ HashHit(w) \/ Leave(w)
  BY <1>3 DEF Recheck, BackOff, HashHit, Leave, progress
<1>4. CASE HashMiss(w) \/ ShareReturn(w)
  BY <1>4 DEF HashMiss, ShareReturn, Advance
<1>5. CASE Count(w)
  BY <1>5 DEF Count
<1> QED
  BY <1>1, <1>2, <1>3, <1>4, <1>5 DEF Run

-----------------------------------------------------------------------------
(* The life of the pool and the pause handshake.                           *)

LEMMA LifecycleStep == TypeOK /\ Lifecycle /\ [Next]_vars => Lifecycle'
<1> SUFFICES ASSUME TypeOK, Lifecycle, [Next]_vars PROVE Lifecycle'
  OBVIOUS
<1> USE DEF Lifecycle, TypeOK, shared, caller, progress
<1>1. CASE UNCHANGED vars
  BY <1>1 DEF vars
<1>2. CASE CallerBegins
  <2>1. CASE Start \/ StartFails \/ Stop
    BY <2>1 DEF Start, StartFails, StartThreads, Stop
  <2>2. CASE ClearWork \/ RebuildHashers \/ (\E j \in Jobs : SetWork(j))
    BY <2>2 DEF ClearWork, RebuildHashers, SetWork
  <2>3. CASE Pause \/ Resume
    BY <2>3 DEF Pause, Resume
  <2> QED
    BY <1>2, <2>1, <2>2, <2>3 DEF CallerBegins
<1>3. CASE CallerContinues \/ Drain
  <2>1. CASE StopStore \/ Join
    BY <2>1 DEF StopStore, Join
  <2>2. CASE SetStore \/ ClearStore
    BY <2>2 DEF SetStore, ClearStore
  <2>3. CASE PauseReturn \/ Drain
    BY <2>3 DEF PauseReturn, Drain
  <2> QED
    BY <1>3, <2>1, <2>2, <2>3 DEF CallerContinues
<1>4. ASSUME NEW w \in Workers, Run(w)
      PROVE  Lifecycle'
  <2>1. wpc[w] # "none"
    BY <1>4 DEF Run, Make, RecordHasherGen, Top, CheckPaused, CheckHasher,
                LoadGen, Fetch, Enter, Recheck, BackOff, HashMiss, HashHit,
                ShareReturn, Leave, Count
  <2>2. UNCHANGED <<running, cpc>>
    BY <1>4 DEF Run, Make, RecordHasherGen, Top, CheckPaused, CheckHasher,
                LoadGen, Fetch, Enter, Recheck, BackOff, HashMiss, HashHit,
                ShareReturn, Leave, Count
  <2> QED
    BY <2>1, <2>2
<1> QED
  BY <1>1, <1>2, <1>3, <1>4 DEF Next

\* Types, chunks, in_flight_ and the life of the pool are invariant together.
PoolInv == CountInv /\ Lifecycle

LEMMA PoolInvariant == Spec => []PoolInv
<1>1. Init => PoolInv
  <2>1. Init => Lifecycle
    BY DEF Init, Lifecycle
  <2> QED
    BY <2>1, CountInit DEF PoolInv
<1>2. PoolInv /\ [Next]_vars => PoolInv'
  <2> SUFFICES ASSUME PoolInv, [Next]_vars PROVE PoolInv'
    OBVIOUS
  <2>1. Lifecycle'
    BY LifecycleStep DEF PoolInv, CountInv
  <2>2. CASE UNCHANGED vars
    BY <2>1, <2>2
       DEF PoolInv, CountInv, TypeOK, ChunkOK, InFlightExact, InFlight, vars,
           shared, caller, progress
  <2>3. CASE CallerBegins \/ CallerContinues \/ Drain
    BY <2>1, <2>3, TypeCaller, CountCaller DEF PoolInv, CountInv
  <2>4. ASSUME NEW w \in Workers, Run(w)
        PROVE  PoolInv'
    BY <2>1, <2>4, TypeWorker, InFlightWorker, ChunkWorker DEF PoolInv, CountInv
  <2> QED
    BY <2>2, <2>3, <2>4 DEF Next
<1> QED
  BY <1>1, <1>2, PTL DEF Spec

\* Every variable of the pool keeps its type.
THEOREM TypeCorrect == Spec => []TypeOK
  BY PoolInvariant, PTL DEF PoolInv, CountInv

\* in_flight_ counts exactly the workers inside a chunk or backing out of one;
\* in particular it never wraps below zero.
THEOREM InFlightCorrect == Spec => []InFlightExact
  BY PoolInvariant, PTL DEF PoolInv, CountInv

-----------------------------------------------------------------------------
(* The pause handshake.  PauseHolds is not inductive: a worker that has    *)
(* been counted but not yet re-read paused_ starts hashing unless paused_  *)
(* is set or the store of it still buffered, so PausedWhileHeld goes with  *)
(* it; and the return of pause() finds no worker hashing because           *)
(* in_flight_ is exact.  With sequentially consistent accesses no worker   *)
(* ever overtakes the store, and no worker hashes at all.                  *)

PauseInv == PausedWhileHeld /\ PauseHolds

LEMMA PauseStep ==
    ASSUME PoolInv, PauseInv, [Next]_vars
    PROVE  PauseInv'
<1> USE DEF PauseInv, PausedWhileHeld, PauseHolds
<1>0. held \in BOOLEAN /\ paused \in BOOLEAN /\ running \in BOOLEAN
  BY DEF PoolInv, CountInv, TypeOK
<1>1. CASE UNCHANGED vars
  BY <1>1 DEF vars, shared, caller, progress
<1>2. CASE Start \/ StartFails
  BY <1>2 DEF Start, StartFails, StartThreads, caller, HashingAt
<1>3. CASE Join
  BY <1>3 DEF Join, shared, HashingAt
<1>4. CASE Pause
  <2>1. /\ sb' = "set" \/ (paused' = TRUE /\ sb' = "empty")
        /\ held' = ~running /\ wpc' = wpc /\ cpc' # "stopStore"
    BY <1>4 DEF Pause, StorePaused
  <2>2. ~running => \A w \in Workers : wpc[w] = "none"
    BY <1>4 DEF Pause, PoolInv, Lifecycle
  <2> QED
    BY <2>1, <2>2 DEF HashingAt
<1>5. CASE PauseReturn
  <2>1. Cardinality(InFlight) = 0
    BY <1>5 DEF PauseReturn, PoolInv, CountInv, InFlightExact
  <2>2. IsFiniteSet(InFlight)
    BY WorkersFinite, FS_Subset DEF InFlight
  <2>3. InFlight = {}
    BY <2>1, <2>2, FS_EmptySet
  <2>4. \A w \in Workers : wpc[w] \notin HashingAt
    BY <2>3 DEF InFlight, InFlightAt, HashingAt
  <2> QED
    BY <1>5, <2>4 DEF PauseReturn, shared
<1>6. CASE Resume
  BY <1>6 DEF Resume
<1>7. CASE Stop \/ StopStore
  BY <1>7 DEF Stop, StopStore
<1>8. CASE \/ ClearWork \/ RebuildHashers \/ SetStore \/ ClearStore
           \/ (\E j \in Jobs : SetWork(j))
  BY <1>8 DEF ClearWork, RebuildHashers, SetStore, ClearStore, SetWork, caller, progress
<1>9. CASE Drain
  BY <1>0, <1>9 DEF Drain, caller, progress
<1>10. ASSUME NEW w \in Workers, Run(w)
       PROVE  PauseInv'
  <2>0. wpc \in [Workers -> WorkerAt]
    BY DEF PoolInv, CountInv, TypeOK
  <2>1. UNCHANGED <<paused, sb, held, cpc>>
    BY <1>10 DEF Run, Make, RecordHasherGen, Top, CheckPaused, CheckHasher,
                 LoadGen, Fetch, Enter, Recheck, BackOff, HashMiss, HashHit,
                 ShareReturn, Leave, Count, shared, caller
  <2>2. held /\ wpc'[w] \in HashingAt => w \in slipped'
    <3>1. CASE Recheck(w)
      BY <2>0, <3>1 DEF Recheck, Goto, HashingAt
    <3>2. CASE HashMiss(w) \/ HashHit(w) \/ ShareReturn(w)
      BY <3>2 DEF HashMiss, HashHit, ShareReturn, HashingAt
    <3>3. CASE \/ Make(w) \/ RecordHasherGen(w) \/ Top(w) \/ CheckPaused(w)
               \/ CheckHasher(w) \/ LoadGen(w) \/ Fetch(w)
      BY <2>0, <3>3 DEF Make, RecordHasherGen, Top, CheckPaused, CheckHasher,
                        LoadGen, Fetch, Goto, HashingAt
    <3>4. CASE Enter(w) \/ BackOff(w) \/ Leave(w) \/ Count(w)
      BY <2>0, <3>4 DEF Enter, BackOff, Leave, Count, Goto, HashingAt
    <3> QED
      BY <1>10, <3>1, <3>2, <3>3, <3>4 DEF Run
  <2>3. \A v \in Workers : v # w => wpc'[v] = wpc[v]
    BY <1>10, <2>0
       DEF Run, Make, RecordHasherGen, Top, CheckPaused, CheckHasher, LoadGen,
           Fetch, Enter, Recheck, BackOff, HashMiss, HashHit, ShareReturn,
           Advance, Leave, Count, Goto
  <2>4. \A v \in Workers : v # w /\ v \in slipped => v \in slipped'
    BY <1>10
       DEF Run, Make, RecordHasherGen, Top, CheckPaused, CheckHasher, LoadGen,
           Fetch, Enter, Recheck, BackOff, HashMiss, HashHit, ShareReturn,
           Leave, Count, progress
  <2> QED
    BY <2>1, <2>2, <2>3, <2>4
<1> QED
  BY <1>1, <1>2, <1>3, <1>4, <1>5, <1>6, <1>7, <1>8, <1>9, <1>10
     DEF Next, CallerBegins, CallerContinues

LEMMA PauseInvariant == Spec => []PauseInv
<1>1. Init => PauseInv
  BY DEF Init, PauseInv, PausedWhileHeld, PauseHolds
<1>2. PoolInv /\ PauseInv /\ [Next]_vars => PauseInv'
  BY PauseStep
<1> QED
  BY <1>1, <1>2, PoolInvariant, PTL DEF Spec

\* With and without store buffering: between the return of pause() and the next
\* resume() or stop() only a worker whose second look at paused_ overtook the
\* store in pause() hashes, and it is in the chunk it then began.
THEOREM PauseIsSafe == Spec => []PauseHolds
  BY PauseInvariant, PTL DEF PauseInv

-----------------------------------------------------------------------------
(* Staleness.  MissesAtMostOne needs to know how old the published job can *)
(* be when a worker copies it: PublishedJob.                               *)

StaleInv == PublishedJob /\ MissesAtMostOne

LEMMA StaleStep ==
    ASSUME TypeOK, StaleInv, [Next]_vars
    PROVE  StaleInv'
<1> USE PoolAssumption DEF StaleInv, PublishedJob, MissesAtMostOne
<1>0. /\ workGen \in Nat /\ work \in Job \cup {NoJob} /\ carg \in Job \cup {NoJob}
      /\ gen \in [Workers -> Nat] /\ localGen \in [Workers -> Nat]
      /\ local \in [Workers -> Job \cup {NoJob}]
  BY DEF TypeOK
<1>1. CASE UNCHANGED <<work, workGen, cpc, carg, gen, localGen, local>>
  BY <1>1
<1>2. CASE Start \/ StartFails
  BY <1>0, <1>2 DEF Start, StartFails, StartThreads, caller, Job
<1>3. ASSUME NEW j \in Jobs, SetWork(j)
      PROVE  StaleInv'
  BY <1>0, <1>3 DEF SetWork, progress, Job
<1>4. CASE SetStore
  BY <1>0, <1>4 DEF SetStore, progress, Job
<1>5. CASE ClearWork
  BY <1>0, <1>5 DEF ClearWork, progress, Job
<1>6. CASE ClearStore
  BY <1>0, <1>6 DEF ClearStore, progress, Job
<1>7. CASE Stop \/ StopStore \/ Join \/ Pause \/ PauseReturn
  BY <1>0, <1>7 DEF Stop, StopStore, Join, Pause, PauseReturn, shared, progress
<1>8. CASE Resume \/ RebuildHashers \/ Drain
  BY <1>1, <1>8 DEF Resume, RebuildHashers, Drain, caller, progress
<1>9. ASSUME NEW w \in Workers, Run(w)
      PROVE  StaleInv'
  <2>1. CASE LoadGen(w)
    BY <1>0, <2>1 DEF LoadGen, shared, caller, Job
  <2>2. CASE Fetch(w)
    <3>1. work # NoJob => gen[w] <= work.generation + 1
      BY <1>0 DEF Job
    <3> QED
      BY <1>0, <2>2, <3>1 DEF Fetch, shared, caller
  <2>3. CASE \/ Make(w) \/ RecordHasherGen(w) \/ Top(w) \/ CheckPaused(w)
             \/ CheckHasher(w) \/ Enter(w) \/ Recheck(w) \/ BackOff(w)
    BY <1>1, <2>3 DEF Make, RecordHasherGen, Top, CheckPaused, CheckHasher,
                      Enter, Recheck, BackOff, shared, caller, progress
  <2>4. CASE HashMiss(w) \/ HashHit(w) \/ ShareReturn(w) \/ Leave(w) \/ Count(w)
    BY <1>1, <2>4 DEF HashMiss, HashHit, ShareReturn, Leave, Count, shared,
                      caller, progress
  <2> QED
    BY <1>9, <2>1, <2>2, <2>3, <2>4 DEF Run
<1>10. CASE UNCHANGED vars
  BY <1>1, <1>10 DEF vars, shared, caller, progress
<1> QED
  BY <1>2, <1>3, <1>4, <1>5, <1>6, <1>7, <1>8, <1>9, <1>10
     DEF Next, CallerBegins, CallerContinues

LEMMA StaleInvariant == Spec => []StaleInv
<1>1. Init => StaleInv
  BY PoolAssumption DEF Init, StaleInv, PublishedJob, MissesAtMostOne
<1>2. TypeOK /\ StaleInv /\ [Next]_vars => StaleInv'
  BY StaleStep
<1> QED
  BY <1>1, <1>2, TypeCorrect, PTL DEF Spec

\* However the workers interleave with set_work() and clear_work(), and with
\* or without store buffering, no worker misses two replacements of the job.
THEOREM StalenessIsBounded == Spec => []MissesAtMostOne
<1>1. StaleInv => MissesAtMostOne
  BY DEF StaleInv
<1> QED
  BY <1>1, StaleInvariant, PTL

\* A worker in a chunk has a job, and no worker has one that set_work() has not
\* given out yet.
Scanning ==
    \A w \in Workers :
        /\ wpc[w] \in {"enter", "recheck", "hash", "share"} => local[w] # NoJob
        /\ local[w] # NoJob => local[w].generation <= workGen

LEMMA ScanningInvariant == Spec => []Scanning
<1>1. Init => Scanning
  BY DEF Init, Scanning
<1>2. TypeOK /\ StaleInv /\ Scanning /\ [Next]_vars => Scanning'
  <2> SUFFICES ASSUME TypeOK, StaleInv, Scanning, [Next]_vars PROVE Scanning'
    OBVIOUS
  <2>0. /\ wpc \in [Workers -> WorkerAt] /\ local \in [Workers -> Job \cup {NoJob}]
        /\ workGen \in Nat /\ work \in Job \cup {NoJob}
        /\ \A j \in Job : j.generation \in Nat
    BY DEF TypeOK, Job
  <2>1. CASE UNCHANGED <<wpc, local, workGen>>
    BY <2>1 DEF Scanning
  <2>2. CASE Start \/ StartFails
    BY <2>0, <2>2 DEF Start, StartFails, StartThreads, Scanning
  <2>3. CASE Join
    BY <2>3 DEF Join, shared, progress, Scanning
  <2>4. ASSUME workGen' = workGen + 1, UNCHANGED <<wpc, local>> PROVE Scanning'
    BY <2>0, <2>4 DEF Scanning
  <2>5. CASE ClearWork \/ \E j \in Jobs : SetWork(j)
    BY <2>4, <2>5 DEF ClearWork, SetWork, progress
  <2>6. CASE Stop \/ Pause \/ Resume \/ RebuildHashers \/ Drain
    BY <2>1, <2>6 DEF Stop, Pause, Resume, RebuildHashers, Drain, progress
  <2>7. CASE StopStore \/ SetStore \/ ClearStore \/ PauseReturn
    BY <2>1, <2>7 DEF StopStore, SetStore, ClearStore, PauseReturn, shared, progress
  <2>8. ASSUME NEW w \in Workers, Run(w) PROVE Scanning'
    <3>1. CASE Fetch(w)
      <4>1. work # NoJob => work.generation <= workGen
        BY <2>0 DEF StaleInv, PublishedJob
      <4> QED
        BY <2>0, <3>1, <4>1 DEF Fetch, Goto, shared, Minable, Scanning
    <3>2. CASE LoadGen(w)
      BY <2>0, <3>2 DEF LoadGen, Goto, shared, Minable, Scanning
    <3>3. CASE Make(w) \/ RecordHasherGen(w) \/ Top(w) \/ CheckPaused(w) \/ CheckHasher(w)
      BY <2>0, <3>3 DEF Make, RecordHasherGen, Top, CheckPaused, CheckHasher, Goto, shared,
                        progress, Scanning
    <3>4. CASE Enter(w) \/ Recheck(w) \/ BackOff(w) \/ Leave(w) \/ Count(w)
      BY <2>0, <3>4 DEF Enter, Recheck, BackOff, Leave, Count, Goto, shared, progress, Scanning
    <3>5. CASE HashMiss(w) \/ HashHit(w) \/ ShareReturn(w)
      BY <2>0, <3>5 DEF HashMiss, HashHit, ShareReturn, Advance, Goto, shared, Scanning
    <3> QED
      BY <2>8, <3>1, <3>2, <3>3, <3>4, <3>5 DEF Run
  <2>9. CASE UNCHANGED vars
    BY <2>1, <2>9 DEF vars, shared, progress
  <2> QED
    BY <2>2, <2>3, <2>5, <2>6, <2>7, <2>8, <2>9 DEF Next, CallerBegins, CallerContinues
<1> QED
  BY <1>1, <1>2, TypeCorrect, StaleInvariant, PTL DEF Spec

-----------------------------------------------------------------------------
(* Nonce lanes.  DisjointLanes follows from each worker staying in its     *)
(* lane, which the wrap of the 32-bit addition preserves when threads_     *)
(* divides the nonce space.                                                *)

\* Adding threads_ and wrapping leads from a lane to the same lane.
LEMMA LaneStep ==
    ASSUME NEW m \in Nat, NonceSpace = m * Threads,
           NEW w \in Workers, NEW n \in 0 .. NonceSpace - 1, InLane(n, w)
    PROVE  InLane(NextNonce(n), w)
<1> DEFINE T == Threads
<1>1. T \in Nat \ {0} /\ NonceSpace \in Nat \ {0} /\ T <= NonceSpace /\ w \in 0 .. T - 1
  BY PoolAssumption DEF Workers
<1>2. PICK k \in 0 .. NonceSpace : n = w + k * T
  BY DEF InLane
<1>3. CASE n + T < NonceSpace
  <2>1. NextNonce(n) = n + T
    BY <1>1, <1>3 DEF NextNonce
  <2>2. n + T = w + (k + 1) * T
    BY <1>1, <1>2
  <2>3. k + 1 \in 0 .. NonceSpace
    <3>1. (k + 1) * T < NonceSpace
      BY <1>1, <1>3, <2>2
    <3>2. k + 1 <= (k + 1) * T
      BY <1>1
    <3> QED
      BY <1>1, <3>1, <3>2
  <2> QED
    BY <2>1, <2>2, <2>3 DEF InLane
<1>4. CASE n + T >= NonceSpace
  <2>1. k < m
    BY <1>1, <1>2
  <2>2. k + 1 >= m
    BY <1>1, <1>2, <1>4
  <2>3. n + T = w + NonceSpace
    BY <1>1, <1>2, <2>1, <2>2
  <2>4. NextNonce(n) = w
    BY <1>1, <2>3 DEF NextNonce
  <2> QED
    BY <1>1, <2>4 DEF InLane
<1> QED
  BY <1>1, <1>3, <1>4

\* A number has one remainder.
LEMMA UniqueRemainder ==
    ASSUME NEW t \in Nat \ {0}, NEW v \in 0 .. t - 1, NEW w \in 0 .. t - 1,
           NEW k \in Nat, NEW l \in Nat, v + k * t = w + l * t
    PROVE  v = w
  OBVIOUS

\* Two lanes have no nonce in common.
LEMMA LanesApart ==
    ASSUME NEW v \in Workers, NEW w \in Workers, NEW n, InLane(n, v), InLane(n, w)
    PROVE  v = w
<1>1. Threads \in Nat \ {0} /\ v \in 0 .. Threads - 1 /\ w \in 0 .. Threads - 1
  BY PoolAssumption DEF Workers
<1>0. 0 .. NonceSpace \subseteq Nat
  BY PoolAssumption
<1>2. PICK k \in Nat : n = v + k * Threads
  BY <1>0, Zenon DEF InLane
<1>3. PICK l \in Nat : n = w + l * Threads
  BY <1>0, Zenon DEF InLane
<1>4. v + k * Threads = w + l * Threads
  BY <1>2, <1>3
<1> QED
  BY <1>1, <1>4, UniqueRemainder

LEMMA LanesStep ==
    ASSUME NEW m \in Nat, NonceSpace = m * Threads, TypeOK, Lanes, [Next]_vars
    PROVE  Lanes'
<1>0. /\ wpc \in [Workers -> WorkerAt] /\ local \in [Workers -> Job \cup {NoJob}]
      /\ nonce \in [Workers -> 0 .. NonceSpace - 1]
  BY DEF TypeOK
<1>1. CASE UNCHANGED <<wpc, local, nonce>>
  BY <1>1 DEF Lanes
<1>2. CASE Start \/ StartFails
  BY <1>2 DEF Start, StartFails, StartThreads, Lanes
<1>3. CASE Join
  BY <1>3 DEF Join, Lanes, progress
<1>4. CASE \/ Stop \/ ClearWork \/ Pause \/ Resume \/ RebuildHashers
           \/ (\E j \in Jobs : SetWork(j))
  BY <1>1, <1>4
     DEF Stop, ClearWork, Pause, Resume, RebuildHashers, SetWork, progress
<1>5. CASE StopStore \/ SetStore \/ ClearStore \/ PauseReturn \/ Drain
  BY <1>1, <1>5 DEF StopStore, SetStore, ClearStore, PauseReturn, Drain, progress
<1>6. CASE UNCHANGED vars
  BY <1>1, <1>6 DEF vars, progress
<1>7. ASSUME NEW w \in Workers, Run(w)
      PROVE  Lanes'
  <2>1. CASE Fetch(w)
    <3>1. InLane(w, w)
      BY PoolAssumption DEF InLane, Workers
    <3> QED
      BY <1>0, <2>1, <3>1 DEF Fetch, Goto, Lanes, Minable
  <2>2. CASE HashMiss(w) \/ ShareReturn(w)
    <3>1. local[w] # NoJob /\ InLane(nonce[w], w) /\ local' = local
      BY <2>2 DEF HashMiss, ShareReturn, Lanes
    <3>2. InLane(NextNonce(nonce[w]), w)
      BY <1>0, <3>1, LaneStep
    <3>3. /\ nonce' = [nonce EXCEPT ![w] = NextNonce(nonce[w])]
          /\ \A v \in Workers : v # w => wpc'[v] = wpc[v]
      BY <1>0, <2>2 DEF HashMiss, ShareReturn, Advance, Goto
    <3> QED
      BY <1>0, <3>1, <3>2, <3>3 DEF Lanes
  <2>3. CASE LoadGen(w)
    BY <1>0, <2>3 DEF LoadGen, Goto, Lanes, Minable
  <2>4. CASE \/ Make(w) \/ RecordHasherGen(w) \/ Top(w) \/ CheckPaused(w)
             \/ CheckHasher(w)
    BY <1>0, <2>4 DEF Make, RecordHasherGen, Top, CheckPaused, CheckHasher,
                      Goto, Lanes, progress
  <2>5. CASE \/ Enter(w) \/ Recheck(w) \/ BackOff(w) \/ HashHit(w) \/ Leave(w)
             \/ Count(w)
    BY <1>0, <2>5 DEF Enter, Recheck, BackOff, HashHit, Leave, Count, Goto,
                      Lanes, progress
  <2> QED
    BY <1>7, <2>1, <2>2, <2>3, <2>4, <2>5 DEF Run
<1> QED
  BY <1>2, <1>3, <1>4, <1>5, <1>6, <1>7 DEF Next, CallerBegins, CallerContinues

\* When threads_ divides the nonce space, no two workers ever hash the same
\* nonce of the same job at one time, across any number of wraps.
THEOREM LanesAreDisjoint ==
    ASSUME NEW m \in Nat, NonceSpace = m * Threads
    PROVE  Spec => []DisjointLanes
<1>1. Init => Lanes
  BY DEF Init, Lanes
<1>2. TypeOK /\ Lanes /\ [Next]_vars => Lanes'
  BY LanesStep
<1>3. Lanes => DisjointLanes
  BY LanesApart DEF Lanes, DisjointLanes
<1> QED
  BY <1>1, <1>2, <1>3, TypeCorrect, PTL DEF Spec

-----------------------------------------------------------------------------
(* StopDrains.  Every hash is in hashes_ or still owed to it by the worker *)
(* that computed it, modulo the width of the counter.  The sum over the    *)
(* workers is given by its partial sums; that a stretch in which nobody    *)
(* owes anything adds nothing is part of what is carried along, since it   *)
(* cannot be concluded by induction here.                                  *)

\* The hashes w has computed and not added to hashes_.
Owed == [w \in Workers |-> done[w] + (IF wpc[w] = "share" THEN 1 ELSE 0)]

Totals(f, o) ==
    /\ f \in [0 .. Threads -> Int] /\ f[0] = 0
    /\ \A w \in Workers : f[w + 1] = f[w] + o[w]
    /\ \A j, k \in 0 .. Threads :
          j <= k /\ (\A v \in j .. k - 1 : o[v] = 0) => f[k] = f[j]

\* s is the sum of o over the workers.
Sums(o, s) == \E f \in [0 .. Threads -> Int] : Totals(f, o) /\ f[Threads] = s

\* Equality of 64-bit counters.
Same(a, b) == \E k \in Int : a = b + k * HashMod

Accounted == \E s \in Int : Sums(Owed, s) /\ Same(hashes + s, hashed)

\* Where nobody owes anything the sum is zero.
LEMMA SumZero ==
    ASSUME NEW o \in [Workers -> Nat], \A w \in Workers : o[w] = 0
    PROVE  Sums(o, 0) /\ \A s : Sums(o, s) => s = 0
<1> USE PoolAssumption
<1>1. Sums(o, 0)
  <2> DEFINE f == [i \in 0 .. Threads |-> 0]
  <2>1. f \in [0 .. Threads -> Int] /\ f[Threads] = 0
    OBVIOUS
  <2>2. Totals(f, o)
    BY DEF Totals, Workers
  <2> QED
    BY <2>1, <2>2 DEF Sums
<1>2. ASSUME NEW s, Sums(o, s) PROVE s = 0
  <2>1. PICK f \in [0 .. Threads -> Int] : Totals(f, o) /\ f[Threads] = s
    BY <1>2 DEF Sums
  <2>2. \A v \in 0 .. Threads - 1 : o[v] = 0
    BY DEF Workers
  <2>3. 0 \in 0 .. Threads /\ Threads \in 0 .. Threads /\ 0 <= Threads
    OBVIOUS
  <2> QED
    BY <2>1, <2>2, <2>3 DEF Totals
<1> QED
  BY <1>1, <1>2

\* One worker owes d more.
LEMMA SumAdd ==
    ASSUME NEW o \in [Workers -> Nat], NEW s \in Int, Sums(o, s), NEW w \in Workers,
           NEW p \in [Workers -> Nat], p[w] = o[w] + 1,
           \A v \in Workers : v # w => p[v] = o[v]
    PROVE  Sums(p, s + 1)
<1> USE PoolAssumption
<1>1. PICK f \in [0 .. Threads -> Int] : Totals(f, o) /\ f[Threads] = s
  BY DEF Sums
<1> DEFINE g == [i \in 0 .. Threads |-> IF i > w THEN f[i] + 1 ELSE f[i]]
<1>0. /\ w \in Nat /\ w < Threads /\ Threads \in 0 .. Threads /\ 0 \in 0 .. Threads
      /\ Threads > w /\ ~(0 > w)
  BY DEF Workers
<1>2. g \in [0 .. Threads -> Int] /\ g[Threads] = s + 1 /\ g[0] = 0
  <2>1. g \in [0 .. Threads -> Int]
    BY <1>0, <1>1
  <2>2. g[Threads] = f[Threads] + 1 /\ g[0] = f[0]
    BY <1>0, <1>1
  <2> QED
    BY <1>1, <2>1, <2>2 DEF Totals
<1>3. ASSUME NEW v \in Workers PROVE g[v + 1] = g[v] + p[v]
  <2>1. v \in 0 .. Threads /\ v + 1 \in 0 .. Threads /\ v \in Nat
    BY DEF Workers
  <2>2. f[v + 1] = f[v] + o[v] /\ f[v] \in Int /\ o[v] \in Int
    BY <1>1, <2>1 DEF Totals
  <2>3. CASE v = w
    BY <1>0, <1>1, <2>1, <2>2, <2>3
  <2>4. CASE v < w
    BY <1>0, <1>1, <2>1, <2>2, <2>4
  <2>5. CASE v > w
    BY <1>0, <1>1, <2>1, <2>2, <2>5
  <2> QED
    BY <1>0, <2>1, <2>3, <2>4, <2>5
<1>4. ASSUME NEW j \in 0 .. Threads, NEW k \in 0 .. Threads, j <= k,
             \A v \in j .. k - 1 : p[v] = 0
      PROVE  g[k] = g[j]
  <2>1. w \notin j .. k - 1
    <3>1. o[w] \in Nat /\ o[w] + 1 # 0
      OBVIOUS
    <3> QED
      BY <1>4, <3>1
  <2>2. ASSUME NEW v \in j .. k - 1 PROVE o[v] = 0
    <3>1. v \in Workers
      BY DEF Workers
    <3>2. v # w /\ p[v] = 0
      BY <1>4, <2>1
    <3> QED
      BY <3>1, <3>2
  <2>3. f[k] = f[j]
    BY <1>1, <1>4, <2>2 DEF Totals
  <2>4. k > w <=> j > w
    BY <1>0, <1>4, <2>1
  <2> QED
    BY <2>3, <2>4
<1> HIDE DEF g
<1>5. Totals(g, p)
  BY <1>2, <1>3, <1>4 DEF Totals
<1> QED
  BY <1>2, <1>5 DEF Sums

\* One worker pays what it owes.
LEMMA SumClear ==
    ASSUME NEW o \in [Workers -> Nat], NEW s \in Int, Sums(o, s), NEW w \in Workers,
           NEW p \in [Workers -> Nat], p[w] = 0,
           \A v \in Workers : v # w => p[v] = o[v]
    PROVE  Sums(p, s - o[w])
<1> USE PoolAssumption
<1>1. PICK f \in [0 .. Threads -> Int] : Totals(f, o) /\ f[Threads] = s
  BY DEF Sums
<1> DEFINE g == [i \in 0 .. Threads |-> IF i > w THEN f[i] - o[w] ELSE f[i]]
<1>0. /\ w \in Nat /\ w < Threads /\ Threads \in 0 .. Threads /\ 0 \in 0 .. Threads
      /\ Threads > w /\ ~(0 > w)
  BY DEF Workers
<1>2. g \in [0 .. Threads -> Int] /\ g[Threads] = s - o[w] /\ g[0] = 0
  <2>1. g \in [0 .. Threads -> Int]
    BY <1>0, <1>1
  <2>2. g[Threads] = f[Threads] - o[w] /\ g[0] = f[0]
    BY <1>0, <1>1
  <2> QED
    BY <1>1, <2>1, <2>2 DEF Totals
<1>3. ASSUME NEW v \in Workers PROVE g[v + 1] = g[v] + p[v]
  <2>1. v \in 0 .. Threads /\ v + 1 \in 0 .. Threads /\ v \in Nat
    BY DEF Workers
  <2>2. f[v + 1] = f[v] + o[v] /\ f[v] \in Int /\ o[v] \in Int
    BY <1>1, <2>1 DEF Totals
  <2>3. CASE v = w
    BY <1>0, <1>1, <2>1, <2>2, <2>3
  <2>4. CASE v < w
    BY <1>0, <1>1, <2>1, <2>2, <2>4
  <2>5. CASE v > w
    BY <1>0, <1>1, <2>1, <2>2, <2>5
  <2> QED
    BY <1>0, <2>1, <2>3, <2>4, <2>5
<1>4. ASSUME NEW j \in 0 .. Threads, NEW k \in 0 .. Threads, j <= k,
             \A v \in j .. k - 1 : p[v] = 0
      PROVE  g[k] = g[j]
  <2>1. CASE w \in j .. k - 1
    <3>1. f[w] = f[j]
      <4>1. \A v \in j .. w - 1 : o[v] = 0
        BY <1>4, <2>1 DEF Workers
      <4>2. w \in 0 .. Threads /\ j <= w
        BY <1>0, <2>1
      <4> QED
        BY <1>1, <4>1, <4>2 DEF Totals
    <3>2. f[k] = f[w + 1]
      <4>1. \A v \in w + 1 .. k - 1 : o[v] = 0
        BY <1>4, <2>1 DEF Workers
      <4>2. w + 1 \in 0 .. Threads /\ w + 1 <= k
        BY <2>1 DEF Workers
      <4> QED
        BY <1>1, <1>4, <4>1, <4>2 DEF Totals
    <3>3. f[w + 1] = f[w] + o[w]
      BY <1>1 DEF Totals
    <3>4. k > w /\ ~(j > w)
      BY <1>0, <2>1
    <3>5. g[k] = f[k] - o[w] /\ g[j] = f[j]
      BY <3>4
    <3>6. f[w] \in Int /\ o[w] \in Int
      BY <1>0, <1>1
    <3> HIDE DEF g
    <3> QED
      BY <3>1, <3>2, <3>3, <3>5, <3>6
  <2>2. CASE w \notin j .. k - 1
    <3>1. ASSUME NEW v \in j .. k - 1 PROVE o[v] = 0
      <4>1. v \in Workers
        BY DEF Workers
      <4>2. v # w /\ p[v] = 0
        BY <1>4, <2>2
      <4> QED
        BY <4>1, <4>2
    <3>2. f[k] = f[j]
      BY <1>1, <1>4, <3>1 DEF Totals
    <3>3. k > w <=> j > w
      BY <1>0, <1>4, <2>2
    <3> QED
      BY <3>2, <3>3
  <2> QED
    BY <2>1, <2>2
<1> HIDE DEF g
<1>5. Totals(g, p)
  BY <1>2, <1>3, <1>4 DEF Totals
<1> QED
  BY <1>2, <1>5 DEF Sums

\* A counter that wraps is the same as one that does not.
LEMMA SameMod ==
    ASSUME NEW a \in Int, NEW b \in Nat, Same(a, b)
    PROVE  Same(a, b % HashMod)
<1>0. HashMod \in Nat \ {0}
  BY PoolAssumption
<1>1. PICK k \in Int : a = b + k * HashMod
  BY DEF Same
<1>2. PICK l \in Int : b = (b % HashMod) + l * HashMod
  <2>1. b = (b % HashMod) + (b \div HashMod) * HashMod
    BY <1>0
  <2>2. b \div HashMod \in Int
    BY <1>0
  <2> QED
    BY <2>1, <2>2
<1>3. a = (b % HashMod) + (l + k) * HashMod
  BY <1>0, <1>1, <1>2
<1> QED
  BY <1>3 DEF Same

LEMMA SameShift ==
    ASSUME NEW a \in Int, NEW b \in Int, NEW c \in Int, Same(a, b)
    PROVE  Same(a + c, b + c)
<1>0. HashMod \in Nat \ {0}
  BY PoolAssumption
<1>1. PICK k \in Int : a = b + k * HashMod
  BY DEF Same
<1>2. a + c = (b + c) + k * HashMod
  BY <1>0, <1>1
<1> QED
  BY <1>2 DEF Same

LEMMA SameEqual ==
    ASSUME NEW a \in 0 .. HashMod - 1, NEW b \in 0 .. HashMod - 1, Same(a, b)
    PROVE  a = b
<1>0. HashMod \in Nat \ {0}
  BY PoolAssumption
<1>1. PICK k \in Int : a = b + k * HashMod
  BY DEF Same
<1>2. CASE k >= 1
  BY <1>0, <1>1, <1>2
<1>3. CASE k <= -1
  BY <1>0, <1>1, <1>3
<1>4. CASE k = 0
  BY <1>0, <1>1, <1>4
<1> QED
  BY <1>2, <1>3, <1>4

LEMMA OwedType ==
    /\ TypeOK => Owed \in [Workers -> Nat]
    /\ TypeOK' => Owed' \in [Workers -> Nat]
  BY PoolAssumption DEF TypeOK, Owed

LEMMA AccountedCaller ==
    ASSUME PoolInv, Accounted, CallerBegins \/ CallerContinues \/ Drain
    PROVE  Accounted'
<1>1. ASSUME Owed' = Owed, UNCHANGED <<hashes, hashed>> PROVE Accounted'
  BY <1>1 DEF Accounted
<1>2. CASE UNCHANGED <<wpc, done, hashes, hashed>>
  BY <1>1, <1>2 DEF Owed
<1>3. ASSUME NEW k, StartThreads(k) PROVE Accounted'
  <2>1. \A w \in Workers : wpc[w] = "none" /\ wpc'[w] # "share"
    BY <1>3 DEF StartThreads, PoolInv, Lifecycle
  <2>2. UNCHANGED <<done, hashes, hashed>>
    BY <1>3 DEF StartThreads
  <2>3. Owed' = Owed
    BY <2>1, <2>2 DEF Owed
  <2> QED
    BY <1>1, <2>2, <2>3
<1>4. CASE Join
  <2>1. \A w \in Workers : wpc[w] # "share" /\ wpc'[w] # "share"
    BY <1>4 DEF Join
  <2>2. UNCHANGED <<done, hashes, hashed>>
    BY <1>4 DEF Join, shared, progress
  <2>3. Owed' = Owed
    BY <2>1, <2>2 DEF Owed
  <2> QED
    BY <1>1, <2>2, <2>3
<1>5. CASE Stop \/ ClearWork \/ Pause \/ Resume \/ RebuildHashers
  BY <1>2, <1>5 DEF Stop, ClearWork, Pause, Resume, RebuildHashers, StorePaused, progress
<1>6. CASE StopStore \/ SetStore \/ ClearStore \/ PauseReturn \/ Drain
  BY <1>2, <1>6 DEF StopStore, SetStore, ClearStore, PauseReturn, Drain, shared, progress
<1>7. ASSUME NEW j \in Jobs, SetWork(j) PROVE Accounted'
  BY <1>2, <1>7 DEF SetWork, progress
<1> QED
  BY <1>3, <1>4, <1>5, <1>6, <1>7 DEF CallerBegins, CallerContinues, Start, StartFails

LEMMA AccountedWorker ==
    ASSUME PoolInv, NEW w \in Workers, Accounted, Run(w), PoolInv'
    PROVE  Accounted'
<1>0. /\ TypeOK /\ TypeOK' /\ Owed \in [Workers -> Nat] /\ Owed' \in [Workers -> Nat]
      /\ hashes \in Nat /\ hashed \in Nat /\ HashMod \in Nat \ {0}
      /\ wpc \in [Workers -> WorkerAt] /\ done \in [Workers -> 0 .. KChunk]
  BY OwedType, PoolAssumption DEF PoolInv, CountInv, TypeOK
<1>1. PICK s \in Int : Sums(Owed, s) /\ Same(hashes + s, hashed)
  BY DEF Accounted
<1>2. ASSUME Owed' = Owed, UNCHANGED <<hashes, hashed>> PROVE Accounted'
  BY <1>2 DEF Accounted
<1>3. \A v \in Workers : v # w => Owed'[v] = Owed[v]
  <2>1. \A v \in Workers : v # w => wpc'[v] = wpc[v]
    BY <1>0 DEF Run, Make, RecordHasherGen, Top, CheckPaused, CheckHasher, LoadGen, Fetch,
                Enter, Recheck, BackOff, HashMiss, HashHit, ShareReturn, Advance, Leave,
                Count, Goto
  <2>2. \A v \in Workers : v # w => done'[v] = done[v]
    BY <1>0 DEF Run, Make, RecordHasherGen, Top, CheckPaused, CheckHasher, LoadGen, Fetch,
                Enter, Recheck, BackOff, HashMiss, HashHit, ShareReturn, Advance, Leave,
                Count, progress
  <2> QED
    BY <2>1, <2>2 DEF Owed
<1>4. ASSUME Owed'[w] = Owed[w], UNCHANGED <<hashes, hashed>> PROVE Accounted'
  <2>1. Owed' = Owed
    BY <1>0, <1>3, <1>4
  <2> QED
    BY <1>2, <1>4, <2>1
<1>5. ASSUME wpc[w] # "share", wpc'[w] # "share", UNCHANGED <<done, hashes, hashed>>
      PROVE  Accounted'
  BY <1>4, <1>5 DEF Owed
<1>6. CASE Make(w) \/ RecordHasherGen(w) \/ Top(w) \/ CheckPaused(w) \/ CheckHasher(w)
  BY <1>0, <1>5, <1>6 DEF Make, RecordHasherGen, Top, CheckPaused, CheckHasher, Goto,
                          shared, progress
<1>7. CASE LoadGen(w) \/ Fetch(w) \/ Enter(w)
  BY <1>0, <1>5, <1>7 DEF LoadGen, Fetch, Enter, Goto, shared, progress
<1>8. CASE Recheck(w) \/ BackOff(w) \/ Leave(w)
  BY <1>0, <1>5, <1>8 DEF Recheck, BackOff, Leave, Goto, shared, progress
<1>9. CASE ShareReturn(w)
  <2>1. wpc[w] = "share" /\ wpc'[w] # "share" /\ done'[w] = done[w] + 1
    BY <1>0, <1>9 DEF ShareReturn, Advance, Goto
  <2>2. Owed'[w] = Owed[w]
    BY <1>0, <2>1 DEF Owed
  <2> QED
    BY <1>4, <1>9, <2>2 DEF ShareReturn, shared
<1>10. CASE HashMiss(w) \/ HashHit(w)
  <2>1. Owed'[w] = Owed[w] + 1
    <3>1. CASE HashMiss(w)
      <4>1. wpc[w] = "hash" /\ wpc'[w] # "share" /\ done'[w] = done[w] + 1
        BY <1>0, <3>1 DEF HashMiss, Advance, Goto
      <4> QED
        BY <1>0, <4>1 DEF Owed
    <3>2. CASE HashHit(w)
      <4>1. wpc[w] = "hash" /\ wpc'[w] = "share" /\ done'[w] = done[w]
        BY <1>0, <3>2 DEF HashHit, Goto
      <4> QED
        BY <1>0, <4>1 DEF Owed
    <3> QED
      BY <1>10, <3>1, <3>2
  <2>2. hashes' = hashes /\ hashed' = (hashed + 1) % HashMod
    BY <1>10 DEF HashMiss, HashHit, shared
  <2>3. Sums(Owed', s + 1)
    BY <1>0, <1>1, <1>3, <2>1, SumAdd
  <2>4. Same(hashes + s + 1, hashed + 1)
    <3>1. hashes + s \in Int /\ hashed \in Int /\ 1 \in Int
      BY <1>0
    <3> QED
      BY <1>1, <3>1, SameShift
  <2>5. Same(hashes + s + 1, (hashed + 1) % HashMod)
    BY <1>0, <2>4, SameMod
  <2>6. hashes' + (s + 1) = hashes + s + 1 /\ s + 1 \in Int
    BY <1>0, <2>2
  <2> QED
    BY <2>2, <2>3, <2>5, <2>6 DEF Accounted
<1>11. CASE Count(w)
  <2>1. /\ Owed[w] = done[w] /\ Owed'[w] = 0
        /\ hashes' = (hashes + done[w]) % HashMod /\ hashed' = hashed
    <3>1. /\ wpc[w] = "count" /\ wpc'[w] = "top" /\ done'[w] = 0
          /\ hashes' = (hashes + done[w]) % HashMod /\ hashed' = hashed
      BY <1>0, <1>11 DEF Count, Goto
    <3>2. done[w] \in Nat
      BY <1>0, PoolAssumption
    <3> QED
      BY <1>0, <3>1, <3>2 DEF Owed
  <2>2. Sums(Owed', s - Owed[w])
    BY <1>0, <1>1, <1>3, <2>1, SumClear
  <2> DEFINE d == Owed[w]
             h == (hashes + d) % HashMod
  <2>3. d \in Nat /\ h \in Int
    BY <1>0
  <2>4. Same(hashes + d, hashes + d)
    <3>1. hashes + d = (hashes + d) + 0 * HashMod
      BY <1>0, <2>3
    <3> QED
      BY <3>1 DEF Same
  <2>5. Same(hashes + d, h)
    BY <1>0, <2>3, <2>4, SameMod
  <2> HIDE DEF d, h
  <2>6. PICK k \in Int : hashes + d = h + k * HashMod
    BY <2>5 DEF Same
  <2>7. PICK l \in Int : hashes + s = hashed + l * HashMod
    BY <1>1 DEF Same
  <2>8. h + (s - d) = hashed + (l - k) * HashMod /\ l - k \in Int
    <3>1. k * HashMod \in Int /\ l * HashMod \in Int /\ (l - k) * HashMod = l * HashMod - k * HashMod
      BY <1>0
    <3> QED
      BY <1>0, <2>3, <2>6, <2>7, <3>1
  <2>9. Same(h + (s - d), hashed)
    BY <2>8 DEF Same
  <2>10. hashes' = h /\ hashed' = hashed /\ s - d \in Int /\ Sums(Owed', s - d)
    BY <2>1, <2>2, <2>3 DEF d, h
  <2> QED
    BY <2>9, <2>10 DEF Accounted
<1> QED
  BY <1>6, <1>7, <1>8, <1>9, <1>10, <1>11 DEF Run

\* When stop() has returned every worker is joined, in_flight_ is zero and the
\* hashes that total_hashes() reports, and persist(true) then writes, are all
\* that were computed, for any number of threads and any number of wraps of
\* the counter.
THEOREM StopLosesNothing == Spec => []StopDrains
<1>1. Init => Accounted
  <2> SUFFICES ASSUME Init PROVE Accounted
    OBVIOUS
  <2>1. Owed \in [Workers -> Nat] /\ \A w \in Workers : Owed[w] = 0
    BY DEF Init, Owed
  <2>2. Sums(Owed, 0)
    BY <2>1, SumZero
  <2>3. hashes + 0 = hashed + 0 * HashMod
    BY PoolAssumption DEF Init
  <2> QED
    BY <2>2, <2>3 DEF Accounted, Same
<1>2. PoolInv /\ PoolInv' /\ Accounted /\ [Next]_vars => Accounted'
  <2>1. CASE UNCHANGED vars
    BY <2>1 DEF vars, shared, progress, Accounted, Owed
  <2> QED
    BY <2>1, AccountedCaller, AccountedWorker DEF Next
<1>3. PoolInv /\ Accounted => StopDrains
  <2> SUFFICES ASSUME PoolInv, Accounted, cpc = "idle", ~running
               PROVE  /\ \A w \in Workers : wpc[w] = "none"
                      /\ inFlight = 0 /\ hashes = hashed
    BY DEF StopDrains
  <2>1. \A w \in Workers : wpc[w] = "none"
    BY DEF PoolInv, Lifecycle
  <2>2. InFlight = {}
    BY <2>1 DEF InFlight, InFlightAt
  <2>3. inFlight = 0
    BY <2>2, FS_EmptySet DEF PoolInv, CountInv, InFlightExact
  <2>4. Owed \in [Workers -> Nat] /\ \A w \in Workers : Owed[w] = 0
    <3>1. \A w \in Workers : done[w] = 0
      BY <2>1 DEF PoolInv, CountInv, ChunkOK, HashingAt
    <3> QED
      BY <2>1, <3>1 DEF Owed
  <2>5. PICK s \in Int : Sums(Owed, s) /\ Same(hashes + s, hashed)
    BY DEF Accounted
  <2>6. s = 0
    BY <2>4, <2>5, SumZero
  <2>7. hashes \in 0 .. HashMod - 1 /\ hashed \in 0 .. HashMod - 1 /\ hashes + 0 = hashes
    BY PoolAssumption DEF PoolInv, CountInv, TypeOK
  <2>8. Same(hashes, hashed)
    BY <2>5, <2>6, <2>7
  <2> QED
    BY <2>1, <2>3, <2>7, <2>8, SameEqual
<1> QED
  BY <1>1, <1>2, <1>3, PoolInvariant, PTL DEF Spec

=============================================================================
