------------------------------- MODULE Mining -------------------------------
(***************************************************************************)
(* cmd_run's use of the worker pool (src/src/app/main.cpp): the on_job     *)
(* callback that re-keys RandomX between pause() and resume(), the main    *)
(* loop's clear_work(), the final stop(), and the on_share callback that   *)
(* the workers run under submit_mtx.  RandomXContext and RandomXHasher     *)
(* (src/src/pow) are the memory the workers' hashers read.  The pool's own *)
(* state and steps are those of MinerPool; every step here is one of its   *)
(* steps, or leaves it alone.                                              *)
(*                                                                         *)
(* A job is identified by the key its blob must be hashed under: the       *)
(* seed_hash it came with or, when it came without one, the current one.   *)
(***************************************************************************)
EXTENDS MinerPool

CONSTANTS
    Seeds,              \* seed hashes
    NoSeed,             \* the empty seed
    Mixed,              \* memory that is half one key and half another
    NoWorker,           \* nobody holds submit_mtx
    Fast,               \* BOOLEAN: fast mode (VMs read the dataset)
    DatasetThreadsFail, \* BOOLEAN: starting the dataset threads may throw
    CreateVMFails       \* BOOLEAN: randomx_create_vm may return null

Keys == Seeds \cup {NoSeed, Mixed}

ASSUME MiningAssumption ==
    /\ NoSeed \notin Seeds /\ Mixed \notin Seeds /\ NoSeed # Mixed
    /\ Jobs = Seeds \cup {NoSeed}
    /\ NoWorker \notin Workers
    /\ Fast \in BOOLEAN /\ DatasetThreadsFail \in BOOLEAN
    /\ CreateVMFails \in BOOLEAN

VARIABLES
    mpc,          \* where the main thread is in the loop or in on_job
    jobSeed,      \* the seed argument of on_job
    wasRunning,   \* was_running
    currentSeed,  \* current_seed of cmd_run
    ctxKey,       \* the key of the memory the VMs read: cache_, or dataset_
    seeded,       \* seeded_
    vmKey,        \* the key each worker's VM was created for
    digest,       \* history: the key each worker's last share was hashed under
    submitMtx,    \* who holds submit_mtx
    starter       \* history: the seed of the job whose on_job started the pool

main    == <<mpc, jobSeed, wasRunning, currentSeed>>
randomx == <<ctxKey, seeded>>
mvars   == <<vars, main, randomx, vmKey, digest, submitMtx, starter>>

MainAt == {"loop", "pause", "pausing", "rekey", "rekeying", "rebuild", "resume",
           "start", "setWork", "setStore", "clearing", "stopping", "exited",
           "dead", "aborted"}

\* std::terminate has not ended the process, in a worker ("dead") or in the main
\* thread ("aborted").
Alive == mpc \notin {"dead", "aborted"}

MInit ==
    /\ Init
    /\ mpc = "loop" /\ jobSeed = NoSeed /\ wasRunning = FALSE
    /\ currentSeed = NoSeed
    /\ ctxKey = NoSeed /\ seeded = FALSE
    /\ vmKey = [w \in Workers |-> NoSeed]
    /\ digest = [w \in Workers |-> NoSeed]
    /\ submitMtx = NoWorker /\ starter = NoSeed

-----------------------------------------------------------------------------
(* on_job, on the main thread (a callback of poll).                        *)

\* Fault: on_job re-keys without pausing the pool.
OnJobUnpaused(s) ==
    /\ mpc = "loop" /\ workGen < MaxGen /\ hasherGen < MaxHasherGen
    /\ jobSeed' = s
    /\ IF s # NoSeed /\ s # currentSeed
       THEN wasRunning' = running /\ mpc' = "rekey"
       ELSE mpc' = "start" /\ UNCHANGED wasRunning
    /\ UNCHANGED <<vars, currentSeed, randomx, vmKey, digest, submitMtx, starter>>

\* Fault: on_job starts the pool before it has keyed the context.
OnJobStartsFirst(s) ==
    /\ mpc = "loop" /\ workGen < MaxGen /\ hasherGen < MaxHasherGen
    /\ jobSeed' = s
    /\ IF s # NoSeed /\ s # currentSeed
       THEN /\ wasRunning' = TRUE
            /\ IF running THEN mpc' = "pause" /\ UNCHANGED <<vars, starter>>
                          ELSE mpc' = "rekey" /\ Start /\ starter' = s
       ELSE mpc' = "start" /\ UNCHANGED <<wasRunning, vars, starter>>
    /\ UNCHANGED <<currentSeed, randomx, vmKey, digest, submitMtx>>

\* A job with seed s (NoSeed when the pool sent none).  The bounds leave room
\* for the pool operations that handling it will take.
OnJob(s) ==
    /\ mpc = "loop" /\ workGen < MaxGen /\ hasherGen < MaxHasherGen
    /\ jobSeed' = s
    /\ IF s # NoSeed /\ s # currentSeed
       THEN /\ wasRunning' = running
            /\ mpc' = IF running THEN "pause" ELSE "rekey"
       ELSE mpc' = "start" /\ UNCHANGED wasRunning
    /\ UNCHANGED <<vars, currentSeed, randomx, vmKey, digest, submitMtx, starter>>

OnJobPause ==
    /\ mpc = "pause" /\ Pause
    /\ mpc' = "pausing"
    /\ UNCHANGED <<jobSeed, wasRunning, currentSeed, randomx, vmKey, digest, submitMtx, starter>>

OnJobPaused ==
    /\ mpc = "pausing" /\ PauseReturn
    /\ mpc' = "rekey"
    /\ UNCHANGED <<jobSeed, wasRunning, currentSeed, randomx, vmKey, digest, submitMtx, starter>>

\* Fault: current_seed is set, and ensure_seed skipped, when the pool already
\* runs.
EnsureSeedBeginOnlyOnce ==
    /\ mpc = "rekey" /\ sb = "empty"
    /\ IF seeded
       THEN /\ currentSeed' = jobSeed
            /\ mpc' = IF wasRunning THEN "rebuild" ELSE "start"
            /\ UNCHANGED ctxKey
       ELSE ctxKey' = Mixed /\ mpc' = "rekeying" /\ UNCHANGED currentSeed
    /\ UNCHANGED <<vars, jobSeed, wasRunning, seeded, vmKey, digest, submitMtx, starter>>

\* ensure_seed takes its mutex (which drains the store buffer), returns when
\* the context already has the seed, and otherwise starts rewriting the memory.
\* current_seed and seed_ are only ever set together, so the early return is
\* never taken from here.
EnsureSeedBegin ==
    /\ mpc = "rekey" /\ sb = "empty"
    /\ ~(seeded /\ currentSeed = jobSeed)
    /\ ctxKey' = Mixed
    /\ mpc' = "rekeying"
    /\ UNCHANGED <<vars, jobSeed, wasRunning, currentSeed, seeded, vmKey, digest, submitMtx, starter>>

\* Fault: the pool is not resumed after the re-key.
EnsureSeedEndStaysPaused ==
    /\ mpc = "rekeying"
    /\ ctxKey' = jobSeed /\ seeded' = TRUE
    /\ currentSeed' = jobSeed
    /\ mpc' = "start"
    /\ UNCHANGED <<vars, jobSeed, wasRunning, vmKey, digest, submitMtx, starter>>

\* The end of ensure_seed and the assignment of current_seed after it.
EnsureSeedEnd ==
    /\ mpc = "rekeying"
    /\ ctxKey' = jobSeed /\ seeded' = TRUE
    /\ currentSeed' = jobSeed
    /\ mpc' = IF wasRunning THEN "rebuild" ELSE "start"
    /\ UNCHANGED <<vars, jobSeed, wasRunning, vmKey, digest, submitMtx, starter>>

\* In fast mode a dataset thread may fail to start.  If it is the first one the
\* exception leaves on_job and apply_job swallows it, with the pool still
\* paused; if it is a later one the threads started before it are destroyed
\* unjoined, which is std::terminate.
EnsureSeedThrows ==
    /\ mpc = "rekeying" /\ Fast /\ DatasetThreadsFail
    /\ mpc' \in {"loop", "aborted"}
    /\ UNCHANGED <<vars, jobSeed, wasRunning, currentSeed, randomx, vmKey, digest, submitMtx, starter>>

OnJobRebuild ==
    /\ mpc = "rebuild" /\ RebuildHashers
    /\ mpc' = "resume"
    /\ UNCHANGED <<jobSeed, wasRunning, currentSeed, randomx, vmKey, digest, submitMtx, starter>>

OnJobResume ==
    /\ mpc = "resume" /\ Resume
    /\ mpc' = "start"
    /\ UNCHANGED <<jobSeed, wasRunning, currentSeed, randomx, vmKey, digest, submitMtx, starter>>

OnJobStart ==
    /\ mpc = "start" /\ Start
    /\ mpc' = "setWork" /\ starter' = jobSeed
    /\ UNCHANGED <<jobSeed, wasRunning, currentSeed, randomx, vmKey, digest, submitMtx>>

\* start() throws: apply_job swallows the exception, the job is never published
\* and the next on_job takes the pool for a running one.
OnJobStartFails ==
    /\ mpc = "start" /\ StartFails
    /\ mpc' = "loop" /\ starter' = jobSeed
    /\ UNCHANGED <<jobSeed, wasRunning, currentSeed, randomx, vmKey, digest, submitMtx>>

\* The key of the job is current_seed, whether or not the job named it.
OnJobSetWork ==
    /\ mpc = "setWork" \/ (mpc = "start" /\ running)
    /\ SetWork(currentSeed)
    /\ mpc' = "setStore"
    /\ UNCHANGED <<jobSeed, wasRunning, currentSeed, randomx, vmKey, digest, submitMtx, starter>>

OnJobSetStore ==
    /\ mpc = "setStore" /\ SetStore
    /\ mpc' = "loop" /\ jobSeed' = NoSeed
    /\ UNCHANGED <<wasRunning, currentSeed, randomx, vmKey, digest, submitMtx, starter>>

-----------------------------------------------------------------------------
(* The rest of the main loop: the connection dropped or the watchdog       *)
(* fired, and the shutdown after the loop.                                 *)

DropConnection ==
    /\ mpc = "loop" /\ ClearWork
    /\ mpc' = "clearing"
    /\ UNCHANGED <<jobSeed, wasRunning, currentSeed, randomx, vmKey, digest, submitMtx, starter>>

DropStore ==
    /\ mpc = "clearing" /\ ClearStore
    /\ mpc' = "loop"
    /\ UNCHANGED <<jobSeed, wasRunning, currentSeed, randomx, vmKey, digest, submitMtx, starter>>

\* g_stop or the deadline ends the loop.  stop() has nothing to do where no job
\* ever started the pool.
Shutdown ==
    /\ mpc = "loop"
    /\ \/ Stop /\ mpc' = "stopping"
       \/ ~running /\ mpc' = "exited" /\ UNCHANGED vars
    /\ UNCHANGED <<jobSeed, wasRunning, currentSeed, randomx, vmKey, digest, submitMtx, starter>>

ShutdownStore ==
    /\ mpc = "stopping" /\ StopStore
    /\ UNCHANGED <<main, randomx, vmKey, digest, submitMtx, starter>>

ShutdownJoin ==
    /\ mpc = "stopping" /\ Join
    /\ mpc' = "exited"
    /\ UNCHANGED <<jobSeed, wasRunning, currentSeed, randomx, vmKey, digest, submitMtx, starter>>

-----------------------------------------------------------------------------
(* The workers.                                                            *)

\* RandomXHasher's constructor: a VM of light mode is compiled for the cache
\* as it is now, a VM of fast mode only points to the dataset.
MakeVM(w) ==
    /\ Alive /\ Make(w) /\ seeded
    /\ vmKey' = [vmKey EXCEPT ![w] = IF Fast THEN NoSeed ELSE ctxKey]
    /\ UNCHANGED <<main, randomx, digest, submitMtx, starter>>

\* ... and it throws when the context has no seed or no VM can be created: the
\* exception leaves run(), and std::terminate ends the process.
MakeThrows(w) ==
    /\ Alive /\ wpc[w] \in {"make", "remake"} /\ (~seeded \/ CreateVMFails)
    /\ mpc' = "dead"
    /\ UNCHANGED <<vars, jobSeed, wasRunning, currentSeed, randomx, vmKey, digest, submitMtx, starter>>

\* The key a digest computed now by w's VM belongs to.
DigestKey(w) ==
    IF Fast \/ vmKey[w] = ctxKey THEN ctxKey ELSE Mixed

FindShare(w) ==
    /\ Alive /\ HashHit(w)
    /\ digest' = [digest EXCEPT ![w] = DigestKey(w)]
    /\ UNCHANGED <<main, randomx, vmKey, submitMtx, starter>>

\* on_share: take submit_mtx, submit, release it.
LockSubmit(w) ==
    /\ Alive /\ wpc[w] = "share" /\ submitMtx = NoWorker
    /\ submitMtx' = w
    /\ UNCHANGED <<vars, main, randomx, vmKey, digest, starter>>

\* Fault: submit_mtx is not released after the submit.
SubmittedLocked(w) ==
    /\ Alive /\ submitMtx = w /\ ShareReturn(w)
    /\ digest' = [digest EXCEPT ![w] = NoSeed]
    /\ UNCHANGED <<main, randomx, vmKey, submitMtx, starter>>

Submitted(w) ==
    /\ Alive /\ submitMtx = w /\ ShareReturn(w)
    /\ submitMtx' = NoWorker
    /\ digest' = [digest EXCEPT ![w] = NoSeed]
    /\ UNCHANGED <<main, randomx, vmKey, starter>>

\* Every other step of run().
OtherStep(w) ==
    /\ Alive
    /\ \/ RecordHasherGen(w) \/ Top(w) \/ CheckPaused(w) \/ CheckHasher(w)
       \/ LoadGen(w) \/ Fetch(w) \/ Enter(w) \/ Recheck(w) \/ BackOff(w)
       \/ HashMiss(w) \/ Leave(w) \/ Count(w)
    /\ UNCHANGED <<main, randomx, vmKey, digest, submitMtx, starter>>

MDrain ==
    /\ Alive /\ Drain
    /\ UNCHANGED <<main, randomx, vmKey, digest, submitMtx, starter>>

-----------------------------------------------------------------------------
\* The main thread finishes what it has begun.
MainContinues ==
    \/ OnJobPause \/ OnJobPaused \/ EnsureSeedBegin \/ EnsureSeedEnd
    \/ EnsureSeedThrows \/ OnJobRebuild \/ OnJobResume \/ OnJobStart
    \/ OnJobStartFails \/ OnJobSetWork \/ OnJobSetStore \/ DropStore \/ ShutdownStore \/ ShutdownJoin

MainBegins ==
    (\E s \in Seeds \cup {NoSeed} : OnJob(s)) \/ DropConnection \/ Shutdown

MWorker(w) ==
    \/ MakeVM(w) \/ MakeThrows(w) \/ FindShare(w) \/ LockSubmit(w)
    \/ Submitted(w) \/ OtherStep(w)

MNext ==
    \/ MainBegins \/ MainContinues \/ MDrain
    \/ \E w \in Workers : MWorker(w)

MSpec == MInit /\ [][MNext]_mvars

\* Threads are scheduled, store buffers drain and a submit returns; jobs,
\* drops and the shutdown need not come.
MFairness ==
    /\ WF_mvars(MainContinues) /\ WF_mvars(MDrain)
    /\ \A w \in Workers : WF_mvars(MWorker(w))

MFairSpec == MSpec /\ MFairness

-----------------------------------------------------------------------------
\* Every variable has its type.
MTypeOK ==
    /\ TypeOK
    /\ mpc \in MainAt /\ jobSeed \in Seeds \cup {NoSeed}
    /\ wasRunning \in BOOLEAN /\ currentSeed \in Seeds \cup {NoSeed}
    /\ ctxKey \in Keys /\ seeded \in BOOLEAN
    /\ vmKey \in [Workers -> Keys] /\ digest \in [Workers -> Keys]
    /\ submitMtx \in Workers \cup {NoWorker} /\ starter \in Seeds \cup {NoSeed}

\* When on_job reaches ensure_seed the pool is held by a pause() that has
\* returned, or has never been started.
RekeyProtocol ==
    /\ mpc \in {"loop", "pause", "rekey", "rekeying"} => cpc = "idle"
    /\ mpc = "pause" => running
    /\ mpc = "pausing" => cpc = "pauseWait"
    /\ mpc \in {"rekey", "rekeying"} => held \/ ~running
    /\ mpc = "rekeying" => sb = "empty"

\* While ensure_seed rewrites the cache or the dataset no worker begins a chunk
\* of hashes; one that is in a chunk overtook the store of the pause() before
\* it, and leaves the hash loop when that chunk is over.  On every memory model
\* the overlap of on_job's re-key with the hashing is bounded by this.
RekeyOverlapEnds ==
    [][mpc = "rekeying" =>
          \A w \in Workers :
              wpc'[w] \in HashingAt => wpc[w] \in HashingAt /\ w \in slipped]_mvars

\* pause() is "used while the RandomX cache is re-keyed" (worker.hpp:32): while
\* ensure_seed rewrites the cache or the dataset no worker is computing a digest
\* from it or submitting one.
NoHashDuringRekey ==
    mpc = "rekeying" => \A w \in Workers : wpc[w] \notin HashingAt

\* Outside on_job a running pool is held only where a re-key that threw has left
\* the memory half rewritten, and wherever it has: on_job does not forget to
\* resume() a pool whose memory is good, and never lets workers that have a
\* hasher go on over memory that is not.  (Unseeded workers have none.)
PausedWhileMixed ==
    mpc = "loop" /\ running =>
        /\ held => ctxKey = Mixed
        /\ seeded /\ ctxKey = Mixed => held

\* Outside on_job, a share for the job published last has the right digest:
\* wrong digests are confined to jobs that have already been replaced, and to
\* the time the pool is left paused by a re-key that threw.
CurrentJobDigest ==
    mpc = "loop" /\ ~held =>
        \A w \in Workers :
            /\ wpc[w] = "share" /\ local[w].generation = workGen
            => digest[w] = local[w].id

\* rebuild_hashers() recreates each worker's IHasher (worker.hpp:36): outside
\* on_job, a worker that has nothing left to rebuild has a hasher for the key
\* that is loaded.
HashersRebuilt ==
    mpc = "loop" =>
        \A w \in Workers :
            wpc[w] = "hash" /\ localHG[w] = hasherGen => vmKey[w] = ctxKey

\* Where VMs can be created, the process dies in a worker only if the job that
\* started the pool came without a seed: for a job that brings one start() never
\* precedes ensure_seed(), also not after a re-key or a start() that threw.
DiesOnlyUnseeded == mpc = "dead" /\ ~CreateVMFails => starter = NoSeed

\* on_job, and the shutdown, always come to an end: no worker keeps pause() or
\* the join waiting for ever, even one that waits for submit_mtx.
OnJobReturns ==
    (mpc \notin {"loop", "exited"}) ~> (mpc \in {"loop", "exited"} \/ ~Alive)

\* Once the main thread is back in its loop every worker there is takes notice
\* of the last set_work() or clear_work(), or is in on_share (submit_mtx promises
\* no fairness), also after a start() that threw half way.  Only an ensure_seed()
\* that threw after pause() leaves the pool paused (held), and its workers blind
\* to what follows.
WorkersNotice ==
    \A w \in Workers :
        (mpc = "loop" /\ running /\ ~held /\ wpc[w] # "none" /\ localGen[w] # workGen)
            ~> (mpc # "loop" \/ localGen[w] = workGen \/ wpc[w] = "share")

=============================================================================
