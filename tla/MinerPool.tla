----------------------------- MODULE MinerPool -----------------------------
(***************************************************************************)
(* The worker pool of src/src/miner/worker.cpp: one thread (the caller)    *)
(* drives the public operations, Threads worker threads execute run().     *)
(* Every action performs at most one access to memory the threads share.   *)
(*                                                                         *)
(* paused_ is written with memory_order_release and read with acquire.     *)
(* When TSO is TRUE the caller's release store may stay in its store       *)
(* buffer (sb) while the caller already performs later loads, which is     *)
(* what the build does on x86: a release store is a plain mov.  A          *)
(* read-modify-write, a seq_cst store or a mutex operation of the caller   *)
(* waits for the buffer to drain.  When TSO is FALSE every access is       *)
(* sequentially consistent.                                                *)
(***************************************************************************)
EXTENDS Naturals, FiniteSets

CONSTANTS
    Threads,      \* threads_: the constructor turns 0 into 1
    Jobs,         \* what a MiningJob says, apart from its generation
    ShortJobs,    \* the jobs whose blob is shorter than nonce_offset + 4
    NoJob,        \* the null work_ pointer
    KChunk,       \* kChunk: nonces hashed between two checkpoints (16)
    NonceSpace,   \* number of nonces (2^32)
    HashMod,      \* range of hashes_ (2^64)
    MaxGen,       \* bound: set_work and clear_work calls
    MaxHasherGen, \* bound: rebuild_hashers calls
    ThreadsFail,  \* BOOLEAN: creating a std::thread may throw
    TSO           \* BOOLEAN: caller stores to paused_ go through a buffer

Workers == 0 .. Threads - 1
Job == [id : Jobs, generation : Nat]

ASSUME PoolAssumption ==
    /\ Threads \in Nat \ {0}
    /\ ShortJobs \subseteq Jobs
    /\ NoJob \notin Job
    /\ KChunk \in Nat \ {0}
    /\ NonceSpace \in Nat /\ Threads <= NonceSpace
    /\ HashMod \in Nat \ {0}
    /\ MaxGen \in Nat /\ MaxHasherGen \in Nat
    /\ ThreadsFail \in BOOLEAN /\ TSO \in BOOLEAN

VARIABLES
    running,    \* running_
    paused,     \* paused_, as the workers see it
    sb,         \* the caller's store to paused_ that memory has not seen yet
    inFlight,   \* in_flight_
    hashes,     \* hashes_
    workGen,    \* work_gen_
    hasherGen,  \* hasher_gen_
    work,       \* work_
    cpc,        \* where the caller is
    carg,       \* the job the caller's set_work is publishing
    wpc,        \* where each worker is
    localHG,    \* local_hasher_gen of each worker
    gen,        \* gen: the work_gen_ value a worker last found changed
    localGen,   \* local_work_gen
    local,      \* local: the job a worker scans
    nonce,      \* nonce
    done,       \* done: hashes of the current chunk
    held,       \* history: pause() returned, and no resume() or stop() since
    hashed,     \* history: hashes computed, modulo HashMod
    slipped     \* history: the workers in a chunk whose second look at paused_
                \* came while a store of TRUE to it was still buffered

shared   == <<running, paused, sb, inFlight, hashes, workGen, hasherGen, work>>
caller   == <<cpc, carg, held>>
progress == <<localHG, gen, localGen, local, nonce, done, hashed, slipped>>
vars     == <<shared, caller, wpc, progress>>

-----------------------------------------------------------------------------
(* Program points.  A worker is "none" when it has no thread.              *)

CallerAt == {"idle", "setStore", "clearStore", "pauseWait", "stopStore", "join"}
WorkerAt == {"none", "make", "makeGen", "top", "chkPaused", "chkHasher",
             "remake", "remakeGen", "loadGen", "fetch", "enter", "recheck",
             "backoff", "hash", "share", "leave", "count", "done"}

\* The points between in_flight_.fetch_add and the matching fetch_sub.
InFlightAt == {"recheck", "backoff", "hash", "share", "leave"}

\* The points at which a worker's IHasher may be computing a digest or its
\* chunk is not over.
HashingAt == {"hash", "share"}

Init ==
    /\ running = FALSE /\ paused = FALSE /\ sb = "empty"
    /\ inFlight = 0 /\ hashes = 0 /\ workGen = 0 /\ hasherGen = 0
    /\ work = NoJob
    /\ cpc = "idle" /\ carg = NoJob /\ held = FALSE
    /\ wpc = [w \in Workers |-> "none"]
    /\ localHG = [w \in Workers |-> 0]
    /\ gen = [w \in Workers |-> 0]
    /\ localGen = [w \in Workers |-> 0]
    /\ local = [w \in Workers |-> NoJob]
    /\ nonce = [w \in Workers |-> 0]
    /\ done = [w \in Workers |-> 0]
    /\ hashed = 0 /\ slipped = {}

-----------------------------------------------------------------------------
(* The caller's operations.                                                *)

\* A release store to paused_: buffered under TSO, immediate otherwise.  The
\* buffer holds one store (a second one waits for the first to drain).
StorePaused(b) ==
    /\ sb = "empty"
    /\ IF TSO THEN sb' = (IF b THEN "set" ELSE "clear") /\ UNCHANGED paused
              ELSE paused' = b /\ UNCHANGED sb

\* The buffered store reaches memory.
Drain ==
    /\ sb # "empty"
    /\ paused' = (sb = "set")
    /\ sb' = "empty"
    /\ UNCHANGED <<running, inFlight, hashes, workGen, hasherGen, work>>
    /\ UNCHANGED <<caller, wpc, progress>>

\* start() sets running_ first and then creates its threads one by one; the
\* first k of them begin run() with fresh locals.  start() on a running pool
\* returns at once and changes nothing.
StartThreads(k) ==
    /\ cpc = "idle" /\ sb = "empty" /\ ~running
    /\ running' = TRUE
    /\ wpc' = [w \in Workers |-> IF w < k THEN "make" ELSE "none"]
    /\ gen' = [w \in Workers |-> 0]
    /\ localGen' = [w \in Workers |-> 0]
    /\ local' = [w \in Workers |-> NoJob]
    /\ nonce' = [w \in Workers |-> 0]
    /\ UNCHANGED <<paused, sb, inFlight, hashes, workGen, hasherGen, work>>
    /\ UNCHANGED <<caller, localHG, done, hashed, slipped>>

Start == StartThreads(Threads)

\* A thread cannot be created: emplace_back throws out of start() and leaves a
\* pool that counts as running with the threads it has, perhaps none.
StartFails ==
    /\ ThreadsFail
    /\ \E k \in 0 .. Threads - 1 : StartThreads(k)

\* stop(): running_.exchange(false), then the seq_cst store to paused_, then
\* the joins.  stop() on a stopped pool returns at once.
Stop ==
    /\ cpc = "idle" /\ sb = "empty" /\ running
    /\ running' = FALSE
    /\ cpc' = "stopStore" /\ held' = FALSE
    /\ UNCHANGED <<paused, sb, inFlight, hashes, workGen, hasherGen, work>>
    /\ UNCHANGED <<carg, wpc, progress>>

StopStore ==
    /\ cpc = "stopStore"
    /\ paused' = FALSE
    /\ cpc' = "join"
    /\ UNCHANGED <<running, sb, inFlight, hashes, workGen, hasherGen, work>>
    /\ UNCHANGED <<carg, held, wpc, progress>>

\* Fault: stop() waits for threads_ threads instead of for those in pool_.
JoinAll ==
    /\ cpc = "join" /\ \A w \in Workers : wpc[w] = "done"
    /\ wpc' = [w \in Workers |-> "none"]
    /\ cpc' = "idle"
    /\ UNCHANGED <<shared, carg, held, progress>>

\* The threads in pool_ are joined, those a failed start() never made are not.
Join ==
    /\ cpc = "join" /\ \A w \in Workers : wpc[w] \in {"done", "none"}
    /\ wpc' = [w \in Workers |-> "none"]
    /\ cpc' = "idle"
    /\ UNCHANGED <<shared, carg, held, progress>>

\* set_work(): the generation is bumped first, the job stored afterwards.
SetWork(j) ==
    /\ cpc = "idle" /\ sb = "empty" /\ workGen < MaxGen
    /\ workGen' = workGen + 1
    /\ cpc' = "setStore" /\ carg' = [id |-> j, generation |-> workGen + 1]
    /\ UNCHANGED <<running, paused, sb, inFlight, hashes, hasherGen, work>>
    /\ UNCHANGED <<held, wpc, progress>>

\* Fault: set_work stores its job only where there was none.
SetStoreFirstOnly ==
    /\ cpc = "setStore"
    /\ work' = IF work = NoJob THEN carg ELSE work
    /\ cpc' = "idle" /\ carg' = NoJob
    /\ UNCHANGED <<running, paused, sb, inFlight, hashes, workGen, hasherGen>>
    /\ UNCHANGED <<held, wpc, progress>>

SetStore ==
    /\ cpc = "setStore"
    /\ work' = carg
    /\ cpc' = "idle" /\ carg' = NoJob
    /\ UNCHANGED <<running, paused, sb, inFlight, hashes, workGen, hasherGen>>
    /\ UNCHANGED <<held, wpc, progress>>

ClearWork ==
    /\ cpc = "idle" /\ sb = "empty" /\ workGen < MaxGen
    /\ workGen' = workGen + 1
    /\ cpc' = "clearStore"
    /\ UNCHANGED <<running, paused, sb, inFlight, hashes, hasherGen, work>>
    /\ UNCHANGED <<carg, held, wpc, progress>>

ClearStore ==
    /\ cpc = "clearStore"
    /\ work' = NoJob
    /\ cpc' = "idle"
    /\ UNCHANGED <<running, paused, sb, inFlight, hashes, workGen, hasherGen>>
    /\ UNCHANGED <<carg, held, wpc, progress>>

\* pause(): the store, then - on a running pool - the wait for in_flight_.
\* Only the caller writes running_, so it reads its own value of it.
Pause ==
    /\ cpc = "idle" /\ StorePaused(TRUE)
    /\ cpc' = IF running THEN "pauseWait" ELSE "idle"
    /\ held' = ~running
    /\ UNCHANGED <<running, inFlight, hashes, workGen, hasherGen, work>>
    /\ UNCHANGED <<carg, wpc, progress>>

PauseReturn ==
    /\ cpc = "pauseWait" /\ inFlight = 0
    /\ cpc' = "idle" /\ held' = TRUE
    /\ UNCHANGED <<shared, carg, wpc, progress>>

Resume ==
    /\ cpc = "idle" /\ StorePaused(FALSE)
    /\ held' = FALSE
    /\ UNCHANGED <<running, inFlight, hashes, workGen, hasherGen, work>>
    /\ UNCHANGED <<cpc, carg, wpc, progress>>

RebuildHashers ==
    /\ cpc = "idle" /\ sb = "empty" /\ hasherGen < MaxHasherGen
    /\ hasherGen' = hasherGen + 1
    /\ UNCHANGED <<running, paused, sb, inFlight, hashes, workGen, work>>
    /\ UNCHANGED <<caller, wpc, progress>>

-----------------------------------------------------------------------------
(* run(index), one action per shared access.                               *)

Goto(w, at) == wpc' = [wpc EXCEPT ![w] = at]

\* make_hasher_(), on entry and again when hasher_gen_ has moved.
Make(w) ==
    /\ \/ wpc[w] = "make"   /\ Goto(w, "makeGen")
       \/ wpc[w] = "remake" /\ Goto(w, "remakeGen")
    /\ UNCHANGED <<shared, caller, progress>>

\* Fault: a worker that has remade its hasher begins its loop again without
\* recording that it did.
RecordHasherGenOnce(w) ==
    /\ \/ wpc[w] = "makeGen" /\ localHG' = [localHG EXCEPT ![w] = hasherGen]
       \/ wpc[w] = "remakeGen" /\ UNCHANGED localHG
    /\ Goto(w, "top")
    /\ UNCHANGED <<shared, caller, gen, localGen, local, nonce, done, hashed, slipped>>

\* local_hasher_gen = hasher_gen_, read after the hasher was made.
RecordHasherGen(w) ==
    /\ \/ wpc[w] = "makeGen"   /\ Goto(w, "top")
       \/ wpc[w] = "remakeGen" /\ Goto(w, "loadGen")
    /\ localHG' = [localHG EXCEPT ![w] = hasherGen]
    /\ UNCHANGED <<shared, caller, gen, localGen, local, nonce, done, hashed, slipped>>

Top(w) ==
    /\ wpc[w] = "top"
    /\ Goto(w, IF running THEN "chkPaused" ELSE "done")
    /\ UNCHANGED <<shared, caller, progress>>

\* Fault: the look at paused_ at the top of the loop is missing.
CheckPausedNever(w) ==
    /\ wpc[w] = "chkPaused"
    /\ Goto(w, "chkHasher")
    /\ UNCHANGED <<shared, caller, progress>>

CheckPaused(w) ==
    /\ wpc[w] = "chkPaused"
    /\ Goto(w, IF paused THEN "top" ELSE "chkHasher")
    /\ UNCHANGED <<shared, caller, progress>>

CheckHasher(w) ==
    /\ wpc[w] = "chkHasher"
    /\ Goto(w, IF hasherGen # localHG[w] THEN "remake" ELSE "loadGen")
    /\ UNCHANGED <<shared, caller, progress>>

\* A job is scanned when there is one and its blob has room for the nonce.
Minable(j) == j # NoJob /\ j.id \notin ShortJobs

LoadGen(w) ==
    /\ wpc[w] = "loadGen"
    /\ IF workGen # localGen[w]
       THEN Goto(w, "fetch") /\ gen' = [gen EXCEPT ![w] = workGen]
       ELSE Goto(w, IF Minable(local[w]) THEN "enter" ELSE "top") /\ UNCHANGED gen
    /\ UNCHANGED <<shared, caller, localHG, localGen, local, nonce, done, hashed, slipped>>

\* Fault: every worker starts at nonce 0 instead of at its index.
FetchFromZero(w) ==
    /\ wpc[w] = "fetch"
    /\ local' = [local EXCEPT ![w] = work]
    /\ localGen' = [localGen EXCEPT ![w] = gen[w]]
    /\ nonce' = IF work = NoJob THEN nonce ELSE [nonce EXCEPT ![w] = 0]
    /\ Goto(w, IF Minable(work) THEN "enter" ELSE "top")
    /\ UNCHANGED <<shared, caller, localHG, gen, done, hashed, slipped>>

\* The copy under work_mtx_: it records the generation loaded before it.
Fetch(w) ==
    /\ wpc[w] = "fetch"
    /\ local' = [local EXCEPT ![w] = work]
    /\ localGen' = [localGen EXCEPT ![w] = gen[w]]
    /\ nonce' = IF work = NoJob THEN nonce ELSE [nonce EXCEPT ![w] = w]
    /\ Goto(w, IF Minable(work) THEN "enter" ELSE "top")
    /\ UNCHANGED <<shared, caller, localHG, gen, done, hashed, slipped>>

\* Fault: the fetch_add before the second look at paused_ is missing.
EnterUncounted(w) ==
    /\ wpc[w] = "enter"
    /\ Goto(w, "recheck")
    /\ UNCHANGED <<shared, caller, progress>>

Enter(w) ==
    /\ wpc[w] = "enter"
    /\ inFlight' = inFlight + 1
    /\ Goto(w, "recheck")
    /\ UNCHANGED <<running, paused, sb, hashes, workGen, hasherGen, work>>
    /\ UNCHANGED <<caller, progress>>

\* Fault: paused_ is not looked at again once in_flight_ was raised.
RecheckNever(w) ==
    /\ wpc[w] = "recheck"
    /\ Goto(w, "hash")
    /\ UNCHANGED <<shared, caller, progress>>

Recheck(w) ==
    /\ wpc[w] = "recheck"
    /\ Goto(w, IF paused THEN "backoff" ELSE "hash")
    /\ slipped' = IF ~paused /\ sb = "set" THEN slipped \cup {w} ELSE slipped
    /\ UNCHANGED <<shared, caller, localHG, gen, localGen, local, nonce, done, hashed>>

\* Fault: the way out for a paused pool leaves in_flight_ raised.
BackOffStillCounted(w) ==
    /\ wpc[w] = "backoff"
    /\ Goto(w, "top")
    /\ UNCHANGED <<shared, caller, progress>>

BackOff(w) ==
    /\ wpc[w] = "backoff"
    /\ inFlight' = inFlight - 1
    /\ Goto(w, "top")
    /\ UNCHANGED <<running, paused, sb, hashes, workGen, hasherGen, work>>
    /\ UNCHANGED <<caller, progress>>

\* The end of one turn of the hash loop: the 32-bit addition, the wrap test
\* and the loop test.
NextNonce(n) == (n + Threads) % NonceSpace

\* Fault: a chunk cut short by the wrap does not count its last hash (the
\* ++done before the break).
AdvanceUncounted(w) ==
    LET n == NextNonce(nonce[w])
        d == IF n < Threads THEN done[w] ELSE done[w] + 1
    IN  /\ nonce' = [nonce EXCEPT ![w] = n]
        /\ done' = [done EXCEPT ![w] = d]
        /\ Goto(w, IF n < Threads \/ d = KChunk THEN "leave" ELSE "hash")

Advance(w) ==
    LET n == NextNonce(nonce[w])
        d == done[w] + 1
    IN  /\ nonce' = [nonce EXCEPT ![w] = n]
        /\ done' = [done EXCEPT ![w] = d]
        /\ Goto(w, IF n < Threads \/ d = KChunk THEN "leave" ELSE "hash")

\* hasher->hash(): whether the digest meets the target is left open.
HashMiss(w) ==
    /\ wpc[w] = "hash"
    /\ hashed' = (hashed + 1) % HashMod
    /\ Advance(w)
    /\ UNCHANGED <<shared, caller, localHG, gen, localGen, local, slipped>>

HashHit(w) ==
    /\ wpc[w] = "hash"
    /\ hashed' = (hashed + 1) % HashMod
    /\ Goto(w, "share")
    /\ UNCHANGED <<shared, caller, localHG, gen, localGen, local, nonce, done, slipped>>

\* on_share() returns and the loop goes on.
ShareReturn(w) ==
    /\ wpc[w] = "share"
    /\ Advance(w)
    /\ UNCHANGED <<shared, caller, localHG, gen, localGen, local, hashed, slipped>>

Leave(w) ==
    /\ wpc[w] = "leave"
    /\ inFlight' = inFlight - 1
    /\ Goto(w, "count")
    /\ slipped' = slipped \ {w}
    /\ UNCHANGED <<running, paused, sb, hashes, workGen, hasherGen, work>>
    /\ UNCHANGED <<caller, localHG, gen, localGen, local, nonce, done, hashed>>

Count(w) ==
    /\ wpc[w] = "count"
    /\ hashes' = (hashes + done[w]) % HashMod
    /\ done' = [done EXCEPT ![w] = 0]
    /\ Goto(w, "top")
    /\ UNCHANGED <<running, paused, sb, inFlight, workGen, hasherGen, work>>
    /\ UNCHANGED <<caller, localHG, gen, localGen, local, nonce, hashed, slipped>>

-----------------------------------------------------------------------------
\* The steps of run() in which the worker does not wait for on_share.
Run(w) ==
    \/ Make(w) \/ RecordHasherGen(w) \/ Top(w) \/ CheckPaused(w)
    \/ CheckHasher(w) \/ LoadGen(w) \/ Fetch(w) \/ Enter(w) \/ Recheck(w)
    \/ BackOff(w) \/ HashMiss(w) \/ HashHit(w) \/ ShareReturn(w)
    \/ Leave(w) \/ Count(w)

\* What the caller does without being asked: it finishes the operation it began.
CallerContinues ==
    StopStore \/ Join \/ SetStore \/ ClearStore \/ PauseReturn

CallerBegins ==
    \/ Start \/ StartFails \/ Stop \/ ClearWork \/ Pause \/ Resume \/ RebuildHashers
    \/ \E j \in Jobs : SetWork(j)

Next ==
    \/ CallerBegins \/ CallerContinues \/ Drain
    \/ \E w \in Workers : Run(w)

Spec == Init /\ [][Next]_vars

\* Threads are scheduled and a store buffer drains; nobody has to call anything.
Fairness ==
    /\ WF_vars(CallerContinues) /\ WF_vars(Drain)
    /\ \A w \in Workers : WF_vars(Run(w))

FairSpec == Spec /\ Fairness

-----------------------------------------------------------------------------
\* Every variable has its type.
TypeOK ==
    /\ running \in BOOLEAN /\ paused \in BOOLEAN
    /\ sb \in {"empty", "set", "clear"} /\ (~TSO => sb = "empty")
    /\ inFlight \in Nat /\ hashes \in 0 .. HashMod - 1
    /\ workGen \in Nat /\ hasherGen \in Nat
    /\ work \in Job \cup {NoJob}
    /\ cpc \in CallerAt /\ carg \in Job \cup {NoJob} /\ held \in BOOLEAN
    /\ wpc \in [Workers -> WorkerAt]
    /\ localHG \in [Workers -> Nat]
    /\ gen \in [Workers -> Nat] /\ localGen \in [Workers -> Nat]
    /\ local \in [Workers -> Job \cup {NoJob}]
    /\ nonce \in [Workers -> 0 .. NonceSpace - 1]
    /\ done \in [Workers -> 0 .. KChunk]
    /\ hashed \in 0 .. HashMod - 1 /\ slipped \in SUBSET Workers

\* The workers between in_flight_.fetch_add and the matching fetch_sub.
InFlight == {w \in Workers : wpc[w] \in InFlightAt}

\* in_flight_ counts exactly the workers inside a chunk or backing out of one,
\* on every path through the loop.
InFlightExact == inFlight = Cardinality(InFlight)

\* A chunk never exceeds kChunk hashes, and a worker outside a chunk owes
\* total_hashes() nothing.
ChunkOK ==
    \A w \in Workers :
        /\ wpc[w] \in HashingAt => done[w] < KChunk
        /\ wpc[w] \notin HashingAt \cup {"leave", "count"} => done[w] = 0

\* Where running_ is false the workers are joined or being joined; only a
\* running pool is waited for by pause().
Lifecycle ==
    /\ ~running /\ cpc \notin {"stopStore", "join"} =>
          \A w \in Workers : wpc[w] = "none"
    /\ cpc \in {"stopStore", "join"} => ~running
    /\ cpc = "pauseWait" => running

\* paused_ is set, or about to be, from the store in pause() to the next
\* resume() or stop().
PausedWhileHeld ==
    /\ held \/ cpc = "pauseWait" => sb = "set" \/ (paused /\ sb = "empty")
    /\ cpc = "stopStore" => ~held

\* What the in_flight_ handshake of pause() gives on every memory model: after
\* its return the only workers that still compute digests or run on_share are
\* those whose look at paused_ after their fetch_add overtook the store in
\* pause().  Each of them finishes the one chunk it is in; the others are idle
\* until the next resume() or stop().
PauseHolds ==
    held => \A w \in Workers : wpc[w] \in HashingAt => w \in slipped

\* A worker that recorded generation g scans a job no older than g - 1: a
\* replacement may be missed by the race between the bump and the store in
\* set_work(), but never two of them.
MissesAtMostOne ==
    \A w \in Workers :
        local[w] # NoJob => localGen[w] <= local[w].generation + 1

\* The published job carries the current generation, or the previous one while
\* the caller is between the bump and the store.
PublishedJob ==
    LET storing == cpc \in {"setStore", "clearStore"}
    IN  /\ work # NoJob =>
             workGen = work.generation + (IF storing THEN 1 ELSE 0)
        /\ cpc = "setStore" => carg \in Job /\ carg.generation = workGen
        /\ \A w \in Workers : gen[w] <= workGen

\* Replacing the job (set_work) makes every worker restart (worker.hpp:17):
\* once set_work() has returned, a worker that takes itself to be up to date,
\* and so will not look again before the next replacement, scans its job.
SetWorkRestarts ==
    cpc = "idle" /\ work # NoJob =>
        \A w \in Workers :
            wpc[w] = "hash" /\ localGen[w] = workGen => local[w] = work

\* After stop() returned no worker is left, in_flight_ is 0 and total_hashes()
\* has every hash that was computed, which persist(true) then writes.
StopDrains ==
    cpc = "idle" /\ ~running =>
        /\ \A w \in Workers : wpc[w] = "none"
        /\ inFlight = 0
        /\ hashes = hashed

\* The nonces worker w scans when threads_ divides the nonce space.
InLane(n, w) == \E k \in 0 .. NonceSpace : n = w + k * Threads

\* A worker that has a job stays in its lane, and only a worker that has one
\* enters a chunk.
Lanes ==
    \A w \in Workers :
        /\ local[w] # NoJob => InLane(nonce[w], w)
        /\ wpc[w] \in {"enter", "recheck", "hash", "share"} => local[w] # NoJob

\* Two workers never hash the same nonce of the same job at one time: worker i
\* scans i, i + threads_, ...; this needs threads_ to divide the nonce space.
DisjointLanes ==
    \A v, w \in Workers :
        /\ v # w /\ wpc[v] = "hash" /\ wpc[w] = "hash"
        /\ local[v] = local[w]
        => nonce[v] # nonce[w]

\* A pause() on a running pool returns: the chunks in flight are finite and no
\* worker starts another one.
PauseReturns == (cpc = "pauseWait") ~> (cpc = "idle")

\* stop() returns: every worker leaves its loop and is joined.
StopReturns == (cpc = "stopStore") ~> (cpc = "idle" /\ ~running)

=============================================================================
