---------------------------- MODULE MiningProofs ----------------------------
(***************************************************************************)
(* cmd_run drives the worker pool through its operations only, so what is  *)
(* proved of the pool holds of the program; and the RandomX memory is      *)
(* never rewritten while a worker hashes.                                  *)
(***************************************************************************)
EXTENDS Mining, MinerPoolProofs

\* The seeds on_job handles are seeds a job can have.
SeedOK == currentSeed \in Jobs /\ jobSeed \in Jobs

LEMMA SeedInvariant == MSpec => []SeedOK
<1> USE MiningAssumption DEF SeedOK
<1>1. MInit => SeedOK
  BY DEF MInit
<1>2. SeedOK /\ [MNext]_mvars => SeedOK'
  <2> SUFFICES ASSUME SeedOK, [MNext]_mvars PROVE SeedOK'
    OBVIOUS
  <2>1. CASE UNCHANGED main
    BY <2>1 DEF main
  <2>2. ASSUME NEW s \in Seeds \cup {NoSeed}, OnJob(s)
        PROVE  SeedOK'
    BY <2>2 DEF OnJob
  <2>3. CASE EnsureSeedEnd
    BY <2>3 DEF EnsureSeedEnd
  <2>4. CASE OnJobSetStore
    BY <2>4 DEF OnJobSetStore
  <2>5. CASE DropConnection \/ Shutdown \/ DropStore \/ ShutdownStore \/ ShutdownJoin
    BY <2>1, <2>5 DEF DropConnection, Shutdown, DropStore, ShutdownStore, ShutdownJoin
  <2>6. CASE OnJobPause \/ OnJobPaused \/ EnsureSeedBegin \/ EnsureSeedThrows
    BY <2>6 DEF OnJobPause, OnJobPaused, EnsureSeedBegin, EnsureSeedThrows
  <2>7. CASE OnJobRebuild \/ OnJobResume \/ OnJobStart \/ OnJobStartFails \/ OnJobSetWork
    BY <2>7 DEF OnJobRebuild, OnJobResume, OnJobStart, OnJobStartFails, OnJobSetWork
  <2>8. CASE MDrain
    BY <2>1, <2>8 DEF MDrain
  <2>9. ASSUME NEW w \in Workers, MWorker(w)
        PROVE  SeedOK'
    BY <2>1, <2>9 DEF MWorker, MakeVM, MakeThrows, FindShare, LockSubmit,
                      Submitted, OtherStep
  <2>10. CASE UNCHANGED mvars
    BY <2>1, <2>10 DEF mvars
  <2> QED
    BY <2>2, <2>3, <2>4, <2>5, <2>6, <2>7, <2>8, <2>9, <2>10
       DEF MNext, MainBegins, MainContinues
<1> QED
  BY <1>1, <1>2, PTL DEF MSpec

\* Every step of cmd_run with its workers is a step of the pool or leaves it
\* alone: on_job, the main loop and on_share use nothing but its operations.
THEOREM MiningImplementsPool == MSpec => Spec
<1>1. MInit => Init
  BY DEF MInit
<1>2. SeedOK /\ [MNext]_mvars => [Next]_vars
  <2> SUFFICES ASSUME SeedOK, [MNext]_mvars PROVE [Next]_vars
    OBVIOUS
  <2>1. CASE UNCHANGED mvars
    BY <2>1 DEF mvars
  <2>2. CASE MainBegins
    BY <2>2 DEF MainBegins, OnJob, DropConnection, Shutdown, Next, CallerBegins
  <2>3. CASE OnJobPause \/ OnJobPaused \/ OnJobRebuild \/ OnJobResume \/ OnJobStart \/ OnJobStartFails
    BY <2>3 DEF OnJobPause, OnJobPaused, OnJobRebuild, OnJobResume, OnJobStart, OnJobStartFails,
                Next, CallerBegins, CallerContinues
  <2>4. CASE EnsureSeedBegin \/ EnsureSeedEnd \/ EnsureSeedThrows
    BY <2>4 DEF EnsureSeedBegin, EnsureSeedEnd, EnsureSeedThrows
  <2>5. CASE OnJobSetWork
    <3>1. \E j \in Jobs : SetWork(j)
      BY <2>5 DEF OnJobSetWork, SeedOK
    <3> QED
      BY <3>1 DEF Next, CallerBegins
  <2>6. CASE OnJobSetStore \/ DropStore \/ ShutdownStore \/ ShutdownJoin
    BY <2>6 DEF OnJobSetStore, DropStore, ShutdownStore, ShutdownJoin, Next,
                CallerContinues
  <2>7. CASE MDrain
    BY <2>7 DEF MDrain, Next
  <2>8. ASSUME NEW w \in Workers, MWorker(w)
        PROVE  [Next]_vars
    <3>1. CASE MakeVM(w) \/ FindShare(w) \/ Submitted(w)
      BY <3>1 DEF MakeVM, FindShare, Submitted, Next, Run
    <3>2. CASE MakeThrows(w) \/ LockSubmit(w)
      BY <3>2 DEF MakeThrows, LockSubmit
    <3>3. CASE OtherStep(w)
      BY <3>3 DEF OtherStep, Next, Run
    <3> QED
      BY <2>8, <3>1, <3>2, <3>3 DEF MWorker
  <2> QED
    BY <2>1, <2>2, <2>3, <2>4, <2>5, <2>6, <2>7, <2>8 DEF MNext, MainContinues
<1> QED
  BY <1>1, <1>2, SeedInvariant, PTL DEF MSpec, Spec

-----------------------------------------------------------------------------
(* RekeyOverlapEnds.  What the pool guarantees after pause() applies in    *)
(* ensure_seed because of RekeyProtocol, which is inductive relative to    *)
(* the pool's own invariants.                                              *)

LEMMA RekeyStep == RekeyProtocol /\ [MNext]_mvars => RekeyProtocol'
<1> SUFFICES ASSUME RekeyProtocol, [MNext]_mvars PROVE RekeyProtocol'
  OBVIOUS
<1> USE DEF RekeyProtocol
<1>1. CASE UNCHANGED <<mpc, cpc, running, held, sb>>
  BY <1>1
<1>2. ASSUME NEW s \in Seeds \cup {NoSeed}, OnJob(s)
      PROVE  RekeyProtocol'
  BY <1>2 DEF OnJob, vars, shared, caller
<1>3. CASE OnJobPause
  BY <1>3 DEF OnJobPause, Pause
<1>4. CASE OnJobPaused
  BY <1>4 DEF OnJobPaused, PauseReturn, shared
<1>5. CASE EnsureSeedBegin \/ EnsureSeedEnd \/ EnsureSeedThrows
  BY <1>5 DEF EnsureSeedBegin, EnsureSeedEnd, EnsureSeedThrows, vars, shared, caller
<1>6. CASE OnJobRebuild \/ OnJobResume \/ OnJobStart \/ OnJobSetWork
  BY <1>6 DEF OnJobRebuild, OnJobResume, OnJobStart, OnJobSetWork
<1>13. CASE OnJobStartFails
  BY <1>13 DEF OnJobStartFails, StartFails, StartThreads, caller
<1>7. CASE OnJobSetStore \/ DropStore
  BY <1>7 DEF OnJobSetStore, SetStore, DropStore, ClearStore
<1>8. CASE DropConnection \/ Shutdown \/ ShutdownJoin
  BY <1>8 DEF DropConnection, Shutdown, ShutdownJoin
<1>9. CASE ShutdownStore
  BY <1>9 DEF ShutdownStore, main
<1>10. CASE MDrain
  BY <1>10 DEF MDrain, Drain, main, caller
<1>11. ASSUME NEW w \in Workers, MWorker(w)
       PROVE  RekeyProtocol'
  <2>1. CASE MakeThrows(w)
    BY <2>1 DEF MakeThrows
  <2>2. CASE MakeVM(w) \/ FindShare(w) \/ LockSubmit(w) \/ Submitted(w)
    BY <1>1, <2>2 DEF MakeVM, Make, FindShare, HashHit, LockSubmit, Submitted,
                      ShareReturn, vars, shared, caller, main
  <2>3. CASE OtherStep(w)
    BY <1>1, <2>3 DEF OtherStep, RecordHasherGen, Top, CheckPaused, CheckHasher,
                      LoadGen, Fetch, Enter, Recheck, BackOff, HashMiss, Leave,
                      Count, shared, caller, main
  <2> QED
    BY <1>11, <2>1, <2>2, <2>3 DEF MWorker
<1>12. CASE UNCHANGED mvars
  BY <1>1, <1>12 DEF mvars, vars, shared, caller, main
<1> QED
  BY <1>2, <1>3, <1>4, <1>5, <1>6, <1>7, <1>8, <1>9, <1>10, <1>11, <1>12,
     <1>13
     DEF MNext, MainBegins, MainContinues

LEMMA RekeyInvariant == MSpec => []RekeyProtocol
<1>1. MInit => RekeyProtocol
  BY DEF MInit, Init, RekeyProtocol
<1> QED
  BY <1>1, RekeyStep, PTL DEF MSpec

\* A worker begins a chunk only with its second look at paused_, finding it clear.
LEMMA BeginsUnpaused ==
    ASSUME TypeOK, NEW w \in Workers, [MNext]_mvars,
           wpc'[w] \in HashingAt, wpc[w] \notin HashingAt
    PROVE  ~paused /\ wpc[w] = "recheck"
<1>0. wpc \in [Workers -> WorkerAt]
  BY DEF TypeOK
<1>1. ASSUME NEW v \in Workers, v # w, MWorker(v) PROVE wpc'[w] = wpc[w]
  <2>1. CASE MakeVM(v) \/ MakeThrows(v) \/ FindShare(v) \/ LockSubmit(v) \/ Submitted(v)
    BY <1>0, <1>1, <2>1 DEF MakeVM, Make, MakeThrows, FindShare, HashHit, LockSubmit,
                            Submitted, ShareReturn, Advance, Goto, vars
  <2>2. CASE OtherStep(v)
    BY <1>0, <1>1, <2>2 DEF OtherStep, RecordHasherGen, Top, CheckPaused, CheckHasher,
         LoadGen, Fetch, Enter, Recheck, BackOff, HashMiss, Advance, Leave, Count, Goto
  <2> QED
    BY <1>1, <2>1, <2>2 DEF MWorker
<1>2. CASE MWorker(w)
  <2>1. CASE MakeVM(w) \/ MakeThrows(w) \/ FindShare(w) \/ LockSubmit(w) \/ Submitted(w)
    BY <1>0, <2>1 DEF MakeVM, Make, MakeThrows, FindShare, HashHit, LockSubmit,
                      Submitted, ShareReturn, Goto, HashingAt, vars
  <2>2. CASE Recheck(w)
    BY <1>0, <2>2 DEF Recheck, Goto, HashingAt
  <2>3. CASE \/ RecordHasherGen(w) \/ Top(w) \/ CheckPaused(w) \/ CheckHasher(w)
             \/ LoadGen(w) \/ Fetch(w)
    BY <1>0, <2>3 DEF RecordHasherGen, Top, CheckPaused, CheckHasher, LoadGen, Fetch,
                      Goto, HashingAt
  <2>4. CASE Enter(w) \/ BackOff(w) \/ HashMiss(w) \/ Leave(w) \/ Count(w)
    BY <1>0, <2>4 DEF Enter, BackOff, HashMiss, Leave, Count, Goto, HashingAt
  <2> QED
    BY <1>2, <2>1, <2>2, <2>3, <2>4 DEF MWorker, OtherStep
<1>3. CASE MainBegins \/ MainContinues \/ MDrain \/ UNCHANGED mvars
  <2>1. CASE MainBegins \/ MDrain \/ UNCHANGED mvars
    BY <2>1 DEF MainBegins, OnJob, DropConnection, ClearWork, Shutdown, Stop, MDrain, Drain,
                mvars, vars
  <2>2. CASE OnJobStart \/ OnJobStartFails \/ ShutdownJoin
    BY <2>2 DEF OnJobStart, OnJobStartFails, Start, StartFails, StartThreads, ShutdownJoin,
                Join, HashingAt
  <2>3. CASE \/ OnJobPause \/ OnJobPaused \/ EnsureSeedBegin \/ EnsureSeedEnd
             \/ EnsureSeedThrows \/ OnJobRebuild \/ OnJobResume \/ OnJobSetWork
             \/ OnJobSetStore \/ DropStore \/ ShutdownStore
    BY <2>3 DEF OnJobPause, Pause, OnJobPaused, PauseReturn, EnsureSeedBegin, EnsureSeedEnd,
         EnsureSeedThrows, OnJobRebuild, RebuildHashers, OnJobResume, Resume, OnJobSetWork,
         SetWork, OnJobSetStore, SetStore, DropStore, ClearStore, ShutdownStore, StopStore,
         vars, caller
  <2> QED
    BY <1>3, <2>1, <2>2, <2>3 DEF MainContinues
<1> QED
  BY <1>1, <1>2, <1>3 DEF MNext

\* With and without store buffering, for any number of threads, jobs and seed
\* changes: while ensure_seed rewrites the cache or the dataset no worker begins
\* a chunk, and one that is still in a chunk overtook the store of pause().
THEOREM RekeyOverlapIsBounded == MSpec => RekeyOverlapEnds
<1> DEFINE Step(w) == wpc'[w] \in HashingAt => wpc[w] \in HashingAt /\ w \in slipped
<1>1. PoolInv /\ PauseInv /\ RekeyProtocol /\ [MNext]_mvars
        => (mpc = "rekeying" => \A w \in Workers : Step(w))
  <2> SUFFICES ASSUME PoolInv, PauseInv, RekeyProtocol, [MNext]_mvars, mpc = "rekeying",
                      NEW w \in Workers, wpc'[w] \in HashingAt
               PROVE  wpc[w] \in HashingAt /\ w \in slipped
    OBVIOUS
  <2>1. TypeOK
    BY DEF PoolInv, CountInv
  <2>2. CASE held
    <3>1. paused
      BY <2>2 DEF PauseInv, PausedWhileHeld, RekeyProtocol
    <3>2. wpc[w] \in HashingAt
      BY <2>1, <3>1, BeginsUnpaused
    <3> QED
      BY <2>2, <3>2 DEF PauseInv, PauseHolds
  <2>3. CASE ~running
    <3>1. wpc[w] = "none"
      BY <2>3 DEF RekeyProtocol, PoolInv, Lifecycle
    <3> QED
      BY <2>1, <3>1, BeginsUnpaused DEF HashingAt
  <2> QED
    BY <2>2, <2>3 DEF RekeyProtocol
<1> QED
  BY <1>1, MiningImplementsPool, PoolInvariant, PauseInvariant, RekeyInvariant, PTL
     DEF MSpec, RekeyOverlapEnds

\* cmd_run inherits the bound on staleness: however jobs, re-keys and drops
\* follow one another, no worker misses two replacements of its job.
THEOREM MiningStalenessIsBounded == MSpec => []MissesAtMostOne
  BY MiningImplementsPool, StalenessIsBounded, PTL

-----------------------------------------------------------------------------
(* Types, and the life of the seed.                                        *)

\* The types of what cmd_run and the RandomX context add to the pool.
ControlTypes ==
    /\ mpc \in MainAt /\ wasRunning \in BOOLEAN /\ ctxKey \in Keys /\ seeded \in BOOLEAN
    /\ vmKey \in [Workers -> Keys] /\ digest \in [Workers -> Keys]
    /\ submitMtx \in Workers \cup {NoWorker} /\ starter \in Jobs

LEMMA ControlStep == TypeOK /\ SeedOK /\ ControlTypes /\ [MNext]_mvars => ControlTypes'
<1> SUFFICES ASSUME TypeOK, SeedOK, ControlTypes, [MNext]_mvars PROVE ControlTypes'
  OBVIOUS
<1> USE MiningAssumption DEF SeedOK, ControlTypes, MainAt, Keys, main, randomx
<1>1. ASSUME NEW s \in Seeds \cup {NoSeed}, OnJob(s) PROVE ControlTypes'
  <2>1. wasRunning' \in BOOLEAN
    BY <1>1 DEF OnJob, TypeOK
  <2> QED
    BY <1>1, <2>1 DEF OnJob
<1>2. CASE OnJobPause \/ OnJobPaused \/ OnJobRebuild \/ OnJobResume
  BY <1>2 DEF OnJobPause, OnJobPaused, OnJobRebuild, OnJobResume
<1>3. CASE OnJobStart \/ OnJobStartFails \/ OnJobSetWork \/ OnJobSetStore
  BY <1>3 DEF OnJobStart, OnJobStartFails, OnJobSetWork, OnJobSetStore
<1>4. CASE EnsureSeedBegin \/ EnsureSeedThrows
  BY <1>4 DEF EnsureSeedBegin, EnsureSeedThrows
<1>5. CASE EnsureSeedEnd
  <2>1. seeded' \in BOOLEAN
    BY <1>5 DEF EnsureSeedEnd
  <2> QED
    BY <1>5, <2>1 DEF EnsureSeedEnd
<1>6. CASE DropConnection \/ DropStore \/ Shutdown \/ ShutdownStore \/ ShutdownJoin \/ MDrain
  BY <1>6 DEF DropConnection, DropStore, Shutdown, ShutdownStore, ShutdownJoin, MDrain
<1>7. ASSUME NEW w \in Workers, MWorker(w) PROVE ControlTypes'
  <2>1. CASE MakeVM(w) \/ MakeThrows(w)
    BY <2>1 DEF MakeVM, MakeThrows
  <2>2. CASE FindShare(w)
    BY <2>2 DEF FindShare, DigestKey
  <2>3. CASE LockSubmit(w) \/ Submitted(w) \/ OtherStep(w)
    BY <2>3 DEF LockSubmit, Submitted, OtherStep
  <2> QED
    BY <1>7, <2>1, <2>2, <2>3 DEF MWorker
<1>8. CASE UNCHANGED mvars
  BY <1>8 DEF mvars
<1> QED
  BY <1>1, <1>2, <1>3, <1>4, <1>5, <1>6, <1>7, <1>8 DEF MNext, MainBegins, MainContinues

\* Every variable of cmd_run, the RandomX context and the worker pool has its
\* type.
THEOREM MiningTypeCorrect == MSpec => []MTypeOK
<1>1. MInit => ControlTypes
  <2> SUFFICES ASSUME MInit PROVE ControlTypes
    OBVIOUS
  <2>1. wasRunning \in BOOLEAN /\ seeded \in BOOLEAN
    BY DEF MInit
  <2> QED
    BY <2>1, MiningAssumption DEF MInit, ControlTypes, MainAt, Keys
<1>2. TypeOK /\ SeedOK /\ ControlTypes => MTypeOK
  BY MiningAssumption DEF SeedOK, ControlTypes, MTypeOK
<1> QED
  BY <1>1, <1>2, ControlStep, SeedInvariant, MiningImplementsPool, TypeCorrect, PTL DEF MSpec

\* A seed that on_job has gone through is loaded, and so is one before start().
\* Without one only a job that named none can have started the workers.
Seeding ==
    /\ currentSeed # NoSeed => seeded
    /\ mpc \in {"rebuild", "resume", "start"} /\ jobSeed # NoSeed => seeded
    /\ ~seeded /\ (\E w \in Workers : wpc[w] # "none") => starter = NoSeed
    /\ DiesOnlyUnseeded

LEMMA SeedingStep == TypeOK /\ Seeding /\ [MNext]_mvars => Seeding'
<1> SUFFICES ASSUME TypeOK, Seeding, [MNext]_mvars PROVE Seeding'
  OBVIOUS
<1> USE DEF Seeding, DiesOnlyUnseeded, main, randomx
<1>0. wpc \in [Workers -> WorkerAt]
  BY DEF TypeOK
<1>1. ASSUME UNCHANGED <<wpc, seeded, currentSeed, starter>>, mpc' # "dead",
             mpc' \in {"rebuild", "resume", "start"} =>
                mpc \in {"rebuild", "resume", "start"} /\ jobSeed' = jobSeed
      PROVE  Seeding'
  BY <1>1
<1>2. ASSUME NEW s \in Seeds \cup {NoSeed}, OnJob(s) PROVE Seeding'
  BY <1>2 DEF OnJob, vars
<1>3. CASE OnJobPause \/ OnJobPaused
  BY <1>1, <1>3 DEF OnJobPause, OnJobPaused, Pause, PauseReturn
<1>4. CASE OnJobRebuild \/ OnJobResume
  BY <1>1, <1>4 DEF OnJobRebuild, OnJobResume, RebuildHashers, Resume
<1>5. CASE OnJobStart \/ OnJobStartFails
  BY <1>5 DEF OnJobStart, OnJobStartFails
<1>6. CASE OnJobSetWork \/ OnJobSetStore
  BY <1>1, <1>6 DEF OnJobSetWork, OnJobSetStore, SetWork, SetStore
<1>7. CASE EnsureSeedBegin \/ EnsureSeedThrows
  BY <1>1, <1>7 DEF EnsureSeedBegin, EnsureSeedThrows, vars
<1>8. CASE EnsureSeedEnd
  BY <1>8 DEF EnsureSeedEnd
<1>9. CASE DropConnection \/ DropStore \/ ShutdownStore
  BY <1>1, <1>9 DEF DropConnection, DropStore, ShutdownStore, ClearWork, ClearStore, StopStore
<1>10. CASE Shutdown
  BY <1>1, <1>10 DEF Shutdown, Stop, vars
<1>11. CASE ShutdownJoin
  BY <1>11 DEF ShutdownJoin, Join
<1>12. CASE MDrain
  BY <1>12 DEF MDrain, Drain
<1>13. ASSUME NEW w \in Workers, MWorker(w) PROVE Seeding'
  <2>1. CASE MakeThrows(w)
    <3>1. wpc[w] # "none" /\ (~seeded \/ CreateVMFails)
      BY <2>1 DEF MakeThrows
    <3> QED
      BY <2>1, <3>1 DEF MakeThrows, vars
  <2>2. CASE ~MakeThrows(w)
    <3>1. UNCHANGED <<main, seeded, starter>> /\ wpc[w] # "none"
      BY <1>13, <2>2 DEF MWorker, MakeVM, FindShare, LockSubmit, Submitted, OtherStep, Make,
           HashHit, ShareReturn, RecordHasherGen, Top, CheckPaused, CheckHasher, LoadGen,
           Fetch, Enter, Recheck, BackOff, HashMiss, Leave, Count
    <3> QED
      BY <3>1
  <2> QED
    BY <2>1, <2>2
<1>14. CASE UNCHANGED mvars
  BY <1>14 DEF mvars, vars
<1> QED
  BY <1>2, <1>3, <1>4, <1>5, <1>6, <1>7, <1>8, <1>9, <1>10, <1>11, <1>12, <1>13, <1>14
     DEF MNext, MainBegins, MainContinues

LEMMA SeedingInvariant == MSpec => []Seeding
<1>1. MInit => Seeding
  BY DEF MInit, Init, Seeding, DiesOnlyUnseeded
<1> QED
  BY <1>1, SeedingStep, MiningImplementsPool, TypeCorrect, PTL DEF MSpec

\* Where VMs can be created, no order of jobs, re-keys and failures lets a worker
\* make its hasher before a seed was loaded, and so end the process, except
\* after a first job that named no seed.
THEOREM WorkersFindASeed == MSpec => []DiesOnlyUnseeded
<1>1. Seeding => DiesOnlyUnseeded
  BY DEF Seeding
<1> QED
  BY <1>1, SeedingInvariant, PTL

-----------------------------------------------------------------------------
(* CurrentJobDigest, in fast mode, with or without store buffering: a      *)
(* worker may hash while the dataset is rewritten, but then its job will   *)
(* have been replaced, or the pool left held, before on_job returns.  Two  *)
(* parts of the state meet in a digest: the key in memory (Loaded) and the *)
(* key the job was published for (JobKeys).                                *)

Ended == {"stopping", "exited", "dead", "aborted"}

\* The memory holds the current seed but from the pause of a re-key to its end,
\* which a throw puts off until the next re-key.
Loaded ==
    /\ \A w \in Workers : wpc[w] \notin {"none", "make"} => seeded
    /\ ~running /\ mpc \notin Ended => work = NoJob
    /\ mpc \in {"setWork", "setStore"} => running
    /\ mpc \in {"pause", "pausing", "rekey", "rekeying"} => (wasRunning <=> running)
    /\ mpc \in {"rebuild", "resume"} => running /\ ctxKey = currentSeed
    /\ seeded /\ ~running => mpc \in {"start"} \cup Ended
    /\ seeded /\ ctxKey # currentSeed =>
          held \/ mpc \in {"pausing", "rekey", "rekeying"} \cup Ended
    /\ held /\ mpc \notin Ended => running
    /\ held /\ mpc \notin {"rekey", "rebuild", "resume"} \cup Ended => ctxKey = Mixed

\* A job of the current generation is for the current seed; between the end of a
\* re-key and set_work() it is for the one before.
ForCurrent(j) == j # NoJob /\ j.generation = workGen => j.id = currentSeed

JobKeys ==
    /\ mpc = "setStore" => carg.id = currentSeed
    /\ mpc \notin {"rebuild", "resume", "start"} \cup Ended =>
          ForCurrent(work) /\ \A w \in Workers : ForCurrent(local[w])

DigestOK(w) == wpc[w] = "share" /\ local[w].generation = workGen => digest[w] = local[w].id

DigestKeys ==
    \/ held
    \/ mpc \in {"pausing", "rekey", "rekeying", "rebuild", "resume", "start"} \cup Ended
    \/ \A w \in Workers : DigestOK(w)

\* What is known of the pool while cmd_run uses it.
PoolFacts == PoolInv /\ StaleInv /\ Scanning /\ RekeyProtocol

LEMMA LoadedStep == PoolFacts /\ Loaded /\ [MNext]_mvars => Loaded'
<1> SUFFICES ASSUME PoolFacts, Loaded, [MNext]_mvars PROVE Loaded'
  OBVIOUS
<1> USE DEF Loaded, Ended, main, randomx
<1>0. /\ wpc \in [Workers -> WorkerAt] /\ running \in BOOLEAN /\ RekeyProtocol
      /\ (~running /\ cpc = "idle" => \A w \in Workers : wpc[w] = "none")
      /\ (cpc = "pauseWait" => running)
  BY DEF PoolFacts, PoolInv, CountInv, TypeOK, Lifecycle
<1>1. ASSUME NEW s \in Seeds \cup {NoSeed}, OnJob(s) PROVE Loaded'
  <2>1. UNCHANGED <<wpc, running, work, held, seeded, ctxKey, currentSeed>> /\ mpc = "loop"
    BY <1>1 DEF OnJob, vars, shared, caller
  <2>2. /\ mpc' \in {"pause", "rekey", "start"} /\ (mpc' = "rekey" => ~running)
        /\ mpc' # "start" => wasRunning' = running
    BY <1>1 DEF OnJob
  <2> QED
    BY <2>1, <2>2
<1>2. CASE OnJobPause
  <2>1. /\ UNCHANGED <<wpc, wasRunning, running, work, seeded, ctxKey, currentSeed>>
        /\ mpc = "pause" /\ mpc' = "pausing" /\ ~held'
    BY <1>0, <1>2 DEF OnJobPause, Pause, RekeyProtocol
  <2> QED
    BY <2>1
<1>3. CASE OnJobPaused
  <2>1. /\ UNCHANGED <<wpc, wasRunning, running, work, seeded, ctxKey, currentSeed>>
        /\ mpc = "pausing" /\ mpc' = "rekey" /\ running
    BY <1>0, <1>3 DEF OnJobPaused, PauseReturn, shared
  <2> QED
    BY <2>1
<1>4. CASE EnsureSeedBegin
  <2>1. /\ UNCHANGED <<wpc, wasRunning, running, work, held, seeded>>
        /\ mpc = "rekey" /\ mpc' = "rekeying" /\ ctxKey' = Mixed
    BY <1>4 DEF EnsureSeedBegin, vars, shared, caller
  <2> QED
    BY <2>1
<1>5. CASE EnsureSeedEnd
  <2>1. /\ UNCHANGED <<wpc, running, work, held>> /\ seeded' /\ ctxKey' = currentSeed'
        /\ mpc = "rekeying" /\ mpc' = IF wasRunning THEN "rebuild" ELSE "start"
    BY <1>5 DEF EnsureSeedEnd, vars, shared, caller
  <2> QED
    BY <2>1
<1>6. CASE EnsureSeedThrows
  BY <1>0, <1>6 DEF EnsureSeedThrows, vars, shared, caller, RekeyProtocol
<1>7. CASE OnJobRebuild
  <2>1. /\ UNCHANGED <<wpc, running, work, held, seeded, ctxKey, currentSeed>>
        /\ mpc = "rebuild" /\ mpc' = "resume"
    BY <1>7 DEF OnJobRebuild, RebuildHashers, caller
  <2> QED
    BY <2>1
<1>8. CASE OnJobResume
  <2>1. /\ UNCHANGED <<wpc, running, work, seeded, ctxKey, currentSeed>>
        /\ mpc = "resume" /\ mpc' = "start" /\ ~held'
    BY <1>8 DEF OnJobResume, Resume
  <2> QED
    BY <2>1
<1>9. CASE OnJobStart \/ OnJobStartFails
  <2>1. /\ UNCHANGED <<held, work, seeded, ctxKey, currentSeed>> /\ running'
        /\ mpc = "start" /\ mpc' \in {"setWork", "loop"}
        /\ \A w \in Workers : wpc'[w] \in {"none", "make"}
    BY <1>9 DEF OnJobStart, OnJobStartFails, Start, StartFails, StartThreads, caller
  <2> QED
    BY <2>1
<1>10. CASE OnJobSetWork
  <2>1. /\ UNCHANGED <<wpc, running, work, held, seeded, ctxKey, currentSeed>> /\ running
        /\ mpc \in {"setWork", "start"} /\ mpc' = "setStore"
    BY <1>10 DEF OnJobSetWork, SetWork
  <2> QED
    BY <2>1
<1>11. CASE OnJobSetStore
  <2>1. /\ UNCHANGED <<wpc, running, held, seeded, ctxKey, currentSeed>>
        /\ mpc = "setStore" /\ mpc' = "loop"
    BY <1>11 DEF OnJobSetStore, SetStore
  <2> QED
    BY <2>1
<1>12. CASE DropConnection
  <2>1. /\ UNCHANGED <<wpc, running, work, held, seeded, ctxKey, currentSeed>>
        /\ mpc = "loop" /\ mpc' = "clearing"
    BY <1>12 DEF DropConnection, ClearWork
  <2> QED
    BY <2>1
<1>13. CASE DropStore
  <2>1. /\ UNCHANGED <<wpc, running, held, seeded, ctxKey, currentSeed>> /\ work' = NoJob
        /\ mpc = "clearing" /\ mpc' = "loop"
    BY <1>13 DEF DropStore, ClearStore
  <2> QED
    BY <2>1
<1>14. CASE Shutdown
  <2>1. UNCHANGED <<wpc, seeded>> /\ mpc' \in Ended
    BY <1>14 DEF Shutdown, Stop, vars
  <2> QED
    BY <2>1
<1>15. CASE ShutdownStore
  <2>1. UNCHANGED <<wpc, seeded>> /\ mpc \in Ended /\ mpc' \in Ended
    BY <1>15 DEF ShutdownStore, StopStore
  <2> QED
    BY <2>1
<1>16. CASE ShutdownJoin
  BY <1>16 DEF ShutdownJoin, Join
<1>17. CASE MDrain
  BY <1>17 DEF MDrain, Drain, caller
<1>18. ASSUME NEW w \in Workers, MWorker(w) PROVE Loaded'
  <2>1. CASE MakeThrows(w)
    BY <2>1 DEF MakeThrows, vars
  <2>2. CASE MakeVM(w)
    BY <2>2 DEF MakeVM, Make, shared, caller
  <2>3. CASE FindShare(w) \/ LockSubmit(w) \/ Submitted(w)
    <3>1. /\ UNCHANGED <<running, work, held, seeded, ctxKey, main>>
          /\ wpc[w] \notin {"none", "make"}
          /\ \A v \in Workers : v # w => wpc'[v] = wpc[v]
      BY <1>0, <2>3 DEF FindShare, LockSubmit, Submitted, HashHit, ShareReturn, Advance,
                        Goto, vars, shared, caller
    <3> QED
      BY <3>1
  <2>4. CASE OtherStep(w)
    <3>1. /\ UNCHANGED <<running, work, held, seeded, ctxKey, main>>
          /\ wpc[w] \notin {"none", "make"}
      BY <2>4 DEF OtherStep, RecordHasherGen, Top, CheckPaused, CheckHasher, LoadGen, Fetch,
                  Enter, Recheck, BackOff, HashMiss, Leave, Count, shared, caller
    <3>2. \A v \in Workers : v # w => wpc'[v] = wpc[v]
      BY <1>0, <2>4 DEF OtherStep, RecordHasherGen, Top, CheckPaused, CheckHasher, LoadGen,
           Fetch, Enter, Recheck, BackOff, HashMiss, Advance, Leave, Count, Goto
    <3> QED
      BY <3>1, <3>2
  <2> QED
    BY <1>18, <2>1, <2>2, <2>3, <2>4 DEF MWorker
<1>19. CASE UNCHANGED mvars
  BY <1>19 DEF mvars, vars, shared, caller
<1> QED
  BY <1>1, <1>2, <1>3, <1>4, <1>5, <1>6, <1>7, <1>8, <1>9, <1>10, <1>11, <1>12, <1>13,
     <1>14, <1>15, <1>16, <1>17, <1>18, <1>19
     DEF MNext, MainBegins, MainContinues

LEMMA JobKeysStep == PoolFacts /\ Loaded /\ JobKeys /\ [MNext]_mvars => JobKeys'
<1> SUFFICES ASSUME PoolFacts, Loaded, JobKeys, [MNext]_mvars PROVE JobKeys'
  OBVIOUS
<1> USE DEF JobKeys, ForCurrent, Ended, main
<1>0. /\ workGen \in Nat /\ local \in [Workers -> Job \cup {NoJob}]
      /\ \A w \in Workers : local[w] # NoJob =>
            local[w].generation \in Nat /\ local[w].generation <= workGen
      /\ work # NoJob => work.generation \in Nat /\ work.generation <= workGen
  <2>1. workGen \in Nat /\ local \in [Workers -> Job \cup {NoJob}] /\ work \in Job \cup {NoJob}
    BY DEF PoolFacts, PoolInv, CountInv, TypeOK
  <2>2. \A j \in Job : j.generation \in Nat
    BY DEF Job
  <2> QED
    BY <2>1, <2>2 DEF PoolFacts, StaleInv, PublishedJob, Scanning
<1>1. ASSUME UNCHANGED <<work, local, workGen, currentSeed>>, mpc' # "setStore",
             mpc \in {"rebuild", "resume", "start"} \cup Ended =>
                mpc' \in {"rebuild", "resume", "start"} \cup Ended
      PROVE  JobKeys'
  BY <1>1
<1>2. ASSUME workGen' = workGen + 1, UNCHANGED <<work, local>>,
             mpc' = "setStore" => carg'.id = currentSeed'
      PROVE  JobKeys'
  BY <1>0, <1>2
<1>3. ASSUME NEW s \in Seeds \cup {NoSeed}, OnJob(s) PROVE JobKeys'
  <2>1. UNCHANGED <<work, local, workGen, currentSeed>> /\ mpc = "loop" /\ mpc' # "setStore"
    BY <1>3 DEF OnJob, vars, shared, progress
  <2> QED
    BY <1>1, <2>1
<1>4. CASE OnJobPause \/ OnJobPaused \/ OnJobRebuild \/ OnJobResume
  BY <1>1, <1>4 DEF OnJobPause, OnJobPaused, OnJobRebuild, OnJobResume, Pause, PauseReturn,
                    RebuildHashers, Resume, shared, progress
<1>5. CASE EnsureSeedBegin \/ EnsureSeedThrows
  BY <1>1, <1>5 DEF EnsureSeedBegin, EnsureSeedThrows, vars, shared, progress
<1>6. CASE EnsureSeedEnd
  BY <1>6 DEF EnsureSeedEnd
<1>7. CASE OnJobStart \/ OnJobStartFails
  <2>1. /\ mpc = "start" /\ ~running /\ work' = work /\ mpc' # "setStore"
        /\ \A w \in Workers : local'[w] = NoJob
    BY <1>7 DEF OnJobStart, OnJobStartFails, Start, StartFails, StartThreads
  <2>2. work = NoJob
    BY <2>1 DEF Loaded
  <2> QED
    BY <2>1, <2>2
<1>8. CASE OnJobSetWork
  <2>1. /\ workGen' = workGen + 1 /\ UNCHANGED <<work, local, currentSeed>>
        /\ carg' = [id |-> currentSeed, generation |-> workGen + 1]
    BY <1>8 DEF OnJobSetWork, SetWork, progress
  <2> QED
    BY <1>2, <2>1
<1>9. CASE OnJobSetStore
  <2>1. /\ mpc = "setStore" /\ mpc' = "loop" /\ work' = carg
        /\ UNCHANGED <<local, workGen, currentSeed>>
    BY <1>9 DEF OnJobSetStore, SetStore, progress
  <2> QED
    BY <2>1
<1>10. CASE DropConnection
  <2>1. workGen' = workGen + 1 /\ UNCHANGED <<work, local>> /\ mpc' = "clearing"
    BY <1>10 DEF DropConnection, ClearWork, progress
  <2> QED
    BY <1>2, <2>1
<1>11. CASE DropStore
  <2>1. /\ mpc = "clearing" /\ mpc' = "loop" /\ work' = NoJob
        /\ UNCHANGED <<local, workGen, currentSeed>>
    BY <1>11 DEF DropStore, ClearStore, progress
  <2> QED
    BY <2>1
<1>12. CASE Shutdown \/ ShutdownStore \/ ShutdownJoin
  BY <1>12 DEF Shutdown, ShutdownStore, ShutdownJoin
<1>13. ASSUME UNCHANGED <<work, workGen, currentSeed, carg, mpc>>,
              \A w \in Workers : local'[w] = local[w] \/ local'[w] = work
       PROVE  JobKeys'
  BY <1>13
<1>14. CASE MDrain
  BY <1>13, <1>14 DEF MDrain, Drain, caller, progress
<1>15. ASSUME NEW w \in Workers, MWorker(w) PROVE JobKeys'
  <2>1. CASE MakeThrows(w)
    BY <2>1 DEF MakeThrows
  <2>2. CASE MakeVM(w) \/ FindShare(w) \/ LockSubmit(w) \/ Submitted(w)
    BY <1>13, <2>2 DEF MakeVM, FindShare, LockSubmit, Submitted, Make, HashHit, ShareReturn,
                       vars, shared, caller, progress
  <2>3. CASE OtherStep(w)
    <3>1. UNCHANGED <<work, workGen, currentSeed, carg, mpc>>
      BY <2>3 DEF OtherStep, RecordHasherGen, Top, CheckPaused, CheckHasher, LoadGen, Fetch,
                  Enter, Recheck, BackOff, HashMiss, Leave, Count, shared, caller
    <3>2. \A v \in Workers : local'[v] = local[v] \/ local'[v] = work
      BY <1>0, <2>3 DEF OtherStep, RecordHasherGen, Top, CheckPaused, CheckHasher, LoadGen,
           Fetch, Enter, Recheck, BackOff, HashMiss, Leave, Count, progress
    <3> QED
      BY <1>13, <3>1, <3>2
  <2> QED
    BY <1>15, <2>1, <2>2, <2>3 DEF MWorker
<1>16. CASE UNCHANGED mvars
  BY <1>13, <1>16 DEF mvars, vars, shared, caller, progress
<1> QED
  BY <1>3, <1>4, <1>5, <1>6, <1>7, <1>8, <1>9, <1>10, <1>11, <1>12, <1>14, <1>15, <1>16
     DEF MNext, MainBegins, MainContinues

LEMMA DigestStep ==
    ASSUME Fast, PoolFacts, MTypeOK, Loaded, JobKeys, DigestKeys, [MNext]_mvars
    PROVE  DigestKeys'
<1> USE DEF DigestKeys, DigestOK, Ended, main
<1>0. /\ workGen \in Nat /\ wpc \in [Workers -> WorkerAt]
      /\ \A w \in Workers : wpc[w] = "share" =>
            local[w].generation \in Nat /\ local[w].generation <= workGen
  <2>1. local \in [Workers -> Job \cup {NoJob}] /\ workGen \in Nat /\ wpc \in [Workers -> WorkerAt]
    BY DEF MTypeOK, TypeOK
  <2>2. \A j \in Job : j.generation \in Nat
    BY DEF Job
  <2> QED
    BY <2>1, <2>2 DEF PoolFacts, Scanning
<1>1. ASSUME UNCHANGED <<wpc, local, workGen, digest>>, held => held',
             mpc \in {"pausing", "rekey", "rekeying", "rebuild", "resume", "start"} \cup Ended
                => held' \/ mpc' \in {"pausing", "rekey", "rekeying", "rebuild", "resume", "start"} \cup Ended
      PROVE  DigestKeys'
  BY <1>1
<1>2. ASSUME workGen' = workGen + 1, UNCHANGED <<wpc, local>> PROVE DigestKeys'
  BY <1>0, <1>2
<1>3. ASSUME NEW s \in Seeds \cup {NoSeed}, OnJob(s) PROVE DigestKeys'
  <2>1. UNCHANGED <<wpc, local, workGen, digest, held>> /\ mpc = "loop"
    BY <1>3 DEF OnJob, vars, shared, caller, progress
  <2> QED
    BY <1>1, <2>1
<1>4. CASE OnJobPause \/ OnJobPaused \/ EnsureSeedBegin \/ EnsureSeedEnd \/ OnJobRebuild \/ OnJobResume
  BY <1>4 DEF OnJobPause, OnJobPaused, EnsureSeedBegin, EnsureSeedEnd, OnJobRebuild, OnJobResume
<1>5. CASE EnsureSeedThrows
  <2>1. mpc = "rekeying" /\ UNCHANGED <<wpc, held>>
    BY <1>5 DEF EnsureSeedThrows, vars, caller
  <2>2. CASE held
    BY <2>1, <2>2
  <2>3. CASE ~running
    <3>1. \A w \in Workers : wpc[w] = "none"
      BY <2>1, <2>3 DEF PoolFacts, RekeyProtocol, PoolInv, Lifecycle
    <3> QED
      BY <2>1, <3>1
  <2> QED
    BY <2>1, <2>2, <2>3 DEF PoolFacts, RekeyProtocol
<1>6. CASE OnJobStart \/ OnJobStartFails
  <2>1. \A w \in Workers : wpc'[w] # "share"
    BY <1>6 DEF OnJobStart, OnJobStartFails, Start, StartFails, StartThreads
  <2> QED
    BY <2>1
<1>7. CASE OnJobSetWork \/ DropConnection
  BY <1>2, <1>7 DEF OnJobSetWork, SetWork, DropConnection, ClearWork, progress
<1>8. CASE OnJobSetStore \/ DropStore
  BY <1>1, <1>8 DEF OnJobSetStore, SetStore, DropStore, ClearStore, progress
<1>9. CASE Shutdown \/ ShutdownStore \/ ShutdownJoin
  BY <1>9 DEF Shutdown, ShutdownStore, ShutdownJoin
<1>10. CASE MDrain
  BY <1>1, <1>10 DEF MDrain, Drain, caller, progress
<1>11. ASSUME NEW w \in Workers, MWorker(w) PROVE DigestKeys'
  <2>1. CASE MakeThrows(w)
    BY <2>1 DEF MakeThrows
  <2>2. CASE FindShare(w)
    <3>1. /\ wpc[w] = "hash" /\ UNCHANGED <<mpc, held, local, workGen>>
          /\ digest' = [digest EXCEPT ![w] = ctxKey]
          /\ \A v \in Workers : v # w => wpc'[v] = wpc[v]
      BY <1>0, <2>2 DEF FindShare, DigestKey, HashHit, Goto, shared, caller
    <3>2. digest'[w] = ctxKey /\ \A v \in Workers : v # w => digest'[v] = digest[v]
      BY <3>1 DEF MTypeOK
    <3>3. local[w] # NoJob /\ seeded
      BY <3>1 DEF PoolFacts, Scanning, Loaded
    <3>4. CASE /\ ~held
               /\ mpc \notin {"pausing", "rekey", "rekeying", "rebuild", "resume", "start"} \cup Ended
      <4>1. ctxKey = currentSeed
        BY <3>3, <3>4 DEF Loaded
      <4>2. local[w].generation = workGen => local[w].id = currentSeed
        BY <3>3, <3>4 DEF JobKeys, ForCurrent
      <4> QED
        BY <3>1, <3>2, <3>4, <4>1, <4>2
    <3> QED
      BY <3>1, <3>4
  <2>3. CASE Submitted(w)
    <3>1. /\ wpc'[w] # "share" /\ UNCHANGED <<mpc, held, local, workGen>>
          /\ \A v \in Workers : v # w => wpc'[v] = wpc[v] /\ digest'[v] = digest[v]
      BY <1>0, <2>3 DEF Submitted, ShareReturn, Advance, Goto, shared, caller, MTypeOK
    <3> QED
      BY <3>1
  <2>4. CASE LockSubmit(w)
    BY <1>1, <2>4 DEF LockSubmit, vars, shared, caller, progress
  <2>5. CASE MakeVM(w) \/ OtherStep(w)
    <3>1. /\ wpc'[w] # "share" /\ UNCHANGED <<mpc, held, workGen, digest>>
          /\ \A v \in Workers : v # w => wpc'[v] = wpc[v]
      BY <1>0, <2>5 DEF MakeVM, Make, OtherStep, RecordHasherGen, Top, CheckPaused,
           CheckHasher, LoadGen, Fetch, Enter, Recheck, BackOff, HashMiss, Advance, Leave,
           Count, Goto, shared, caller
    <3>2. \A v \in Workers : v # w => local'[v] = local[v]
      BY <2>5 DEF MakeVM, Make, OtherStep, RecordHasherGen, Top, CheckPaused, CheckHasher,
           LoadGen, Fetch, Enter, Recheck, BackOff, HashMiss, Leave, Count, progress,
           MTypeOK, TypeOK
    <3> QED
      BY <3>1, <3>2
  <2> QED
    BY <1>11, <2>1, <2>2, <2>3, <2>4, <2>5 DEF MWorker
<1>12. CASE UNCHANGED mvars
  BY <1>1, <1>12 DEF mvars, vars, shared, caller, progress
<1> QED
  BY <1>3, <1>4, <1>5, <1>6, <1>7, <1>8, <1>9, <1>10, <1>11, <1>12
     DEF MNext, MainBegins, MainContinues

\* In fast mode, with or without store buffering, and also where a re-key or
\* start() throws: outside on_job a share for the job published last is hashed
\* under that job's key, unless a failed re-key has left the pool paused.
THEOREM CurrentSharesAreRight == ASSUME Fast PROVE MSpec => []CurrentJobDigest
<1>1. MInit => Loaded /\ JobKeys /\ DigestKeys
  BY DEF MInit, Init, Loaded, JobKeys, ForCurrent, DigestKeys, DigestOK
<1>2. PoolFacts /\ Loaded /\ [MNext]_mvars => Loaded'
  BY LoadedStep
<1>3. PoolFacts /\ Loaded /\ JobKeys /\ [MNext]_mvars => JobKeys'
  BY JobKeysStep
<1>4. PoolFacts /\ MTypeOK /\ Loaded /\ JobKeys /\ DigestKeys /\ [MNext]_mvars => DigestKeys'
  BY DigestStep
<1>5. DigestKeys => CurrentJobDigest
  BY DEF DigestKeys, DigestOK, Ended, CurrentJobDigest
<1>6. PoolInv /\ StaleInv /\ Scanning /\ RekeyProtocol => PoolFacts
  BY DEF PoolFacts
<1> QED
  BY <1>1, <1>2, <1>3, <1>4, <1>5, <1>6, MiningTypeCorrect, MiningImplementsPool,
     PoolInvariant, StaleInvariant, ScanningInvariant, RekeyInvariant, PTL DEF MSpec

\* However jobs, re-keys, drops and exceptions follow one another: outside on_job
\* a running pool is held only over half-rewritten memory, and always there.
THEOREM PausedOnlyOverMixed == MSpec => []PausedWhileMixed
<1>1. MInit => Loaded
  BY DEF MInit, Init, Loaded
<1>2. PoolFacts /\ Loaded /\ [MNext]_mvars => Loaded'
  BY LoadedStep
<1>3. MTypeOK /\ Loaded => PausedWhileMixed
  BY MiningAssumption DEF MTypeOK, Loaded, Ended, PausedWhileMixed
<1>4. PoolInv /\ StaleInv /\ Scanning /\ RekeyProtocol => PoolFacts
  BY DEF PoolFacts
<1> QED
  BY <1>1, <1>2, <1>3, <1>4, MiningTypeCorrect, MiningImplementsPool,
     PoolInvariant, StaleInvariant, ScanningInvariant, RekeyInvariant, PTL DEF MSpec
=============================================================================
