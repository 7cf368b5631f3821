# minerby in TLA+

minerby is a CPU miner: it takes jobs from a Monero pool or from a Stratum V1
pool, hashes them on a pool of worker threads, submits the shares it finds, and
keeps lifetime totals in a file. This directory holds TLA+ models of its
concurrent and failing parts and of the arithmetic they depend on, TLC
configurations that check them on small instances, and TLAPS proofs of the safety
properties that matter most for every instance. `PROJECT.json` maps every definition to the lines it models, and lists
the runs, the hazards, the findings and the theorems.

## The system

| Component | State | Operations | Talks to |
|---|---|---|---|
| Worker pool, `miner/worker.*` | `running_`, `paused_`, `in_flight_`, `work_`, `work_gen_`, `hasher_gen_`, `hashes_`; per thread: its hasher, its copy of the job, two generations, its nonce | `start`, `stop`, `set_work`, `clear_work`, `pause`, `resume`, `rebuild_hashers`; `run` on every worker | called by `cmd_run`; calls `on_share` on a worker thread |
| RandomX context and hasher, `pow/randomx_*` | the cache or dataset and its key, `seeded_`; one VM per worker | `ensure_seed`, the dataset build, VM constructor, `hash` | re-keyed by `on_job`, read by every worker |
| Mining control, `cmd_run` in `app/main.cpp` | `current_seed`, `submit_mtx`, `last_job_at` | `on_job`, `on_share`, `on_submit_result`, the connect / poll / watchdog loop, the shutdown | everything |
| Monero session, `pool/monero_client.*` | `next_id_`, `login_id_`, `last_submit_id_`, `logged_in_`, `rpc_id_`, `last_keepalive_` | `connect`, `poll`, `handle`, `apply_job`, `maybe_keepalive`, `submit`, `disconnect` | main thread and, in `submit`, a worker |
| Stratum V1 session, `pool/stratum_v1_client.*`, `stratum/*` | the ids, `extranonce1_`, `extranonce2_size_`, `job_`, `have_job_` | `connect`, `poll`, `handle_line`, `rebuild_job`, `submit`, `disconnect` | as above |
| TCP client, `net/tcp_client.*` | `sock_`, `rx_` | `connect`, `close`, `send_all`, `read_line` | both sessions |
| Lifetime totals, `telemetry/stats_store.*` and `persist` in `cmd_run` | a file, a temporary file, the totals loaded at the start | `load`, `save`, `persist` | the metrics and the pool's hash counter |
| Metrics, `telemetry/metrics.*` | `hashes_`, `last_hashes_`, the lock `m_`, a smoothed rate | counting, `snapshot` | sessions, status line, HTTP |
| HTTP server, `telemetry/http_server.*` | `running_`, `listen_sock_`, a thread | `start`, `stop`, `run` | scrapers; started and stopped by `cmd_run` |
| Target arithmetic, `pow/target.*`; SHA-256, `pow/sha256*`; work assembly, `stratum/work.*` | none | pure functions | workers and the Stratum session |
| Hex, configuration, platform | none | pure functions, one-off reads | |

What makes this hard:

* The pool synchronises its threads with hand-made protocols over atomics: a
  generation counter beside a mutex-protected job, a pause flag beside a count
  of busy workers, a second generation for hashers. Each has a window between
  two accesses that no test opens on purpose.
* `on_job` runs on the main thread as a callback of `poll`, pauses the pool and
  rewrites 2 GB that all workers read. A worker may meanwhile be anywhere in its
  loop, waiting for `submit_mtx` included.
* A session outlives its connections. What is remembered of the last connection
  (login, extranonce, job, request ids) can leak into the next one; replies come
  late, under ids two threads allocate without a lock, or not at all.
* The process may be killed between any two file operations of `save`, and the
  way out of `cmd_run` depends on how it ends: a signal, an exception that runs
  destructors in the order the compiler gives them, SIGPIPE, a console close.
* Three threads meet at the exit: the main thread joins the workers and a server
  thread that may be blocked in a system call nobody ends.
* `recv` cuts the pool's lines anywhere.
* The arithmetic has corners known-answer tests do not visit: a difficulty below
  1, a message that ends near a block boundary, more threads than items, a
  counter wider than the bytes it is encoded in.

What makes each part correct, in one line:

* pool: `in_flight_` is exact; after `pause` has returned nobody begins to hash; no two
  workers scan the same nonce; a new job reaches every worker; `pause` and `stop`
  return, and nothing is left uncounted after `stop`;
* re-key: nobody begins to hash while the memory is rewritten, the pool is left
  paused exactly where the memory is unusable, and a share's digest belongs to its
  job's key;
* sessions: each is a `PoolClient`: workers have a job only from a connection, and
  a share is counted as accepted only if the pool accepted it; no login, job or
  extranonce of an earlier connection is taken for one of this connection beyond
  what the code allows; a dead connection is replaced;
* TCP client: a queue of whole lines, each handed over once and in order;
* totals: nothing is counted twice and nothing saved is lost;
* exit: the final save has everything, no thread outlives what it uses, and the
  process ends;
* metrics: the sampling windows of both threads tile the hashes;
* pure functions: what their reference definitions say, on every input.

## Modules

`MinerPool` is `MinerPool` of `worker.cpp`: one caller thread (`cpc`) and
`Threads` workers (`wpc`). Every action makes at most one access to memory the
threads share, so that the windows between accesses are in the model: `SetWork`
is the bump of `work_gen_` and `SetStore` the store under `work_mtx_`; `Enter`,
`Recheck` and `BackOff` are the increment of `in_flight_`, the second look at
`paused_` and the way out. `paused_` is stored with release and `in_flight_`
loaded with acquire, which on x86 permits the load to come first. The constant
`TSO` puts the caller's stores to `paused_` into a store buffer (`sb`, drained by
`Drain`); with `TSO = FALSE` all accesses are sequentially consistent. A job is
an identity and its generation; whether a digest meets the target is open
(`HashHit`, `HashMiss`). `held`, `hashed` and `slipped` are history variables:
`pause` has returned, the hashes computed, and the workers whose second look at
`paused_` overtook the buffered store.

`Mining` extends `MinerPool` with `cmd_run`. Each of its steps is a step of the
pool or leaves the pool alone. `mpc` walks the main thread through `on_job`
(pause, `ensure_seed`, rebuild, resume, start, set_work), the drop of a
connection and the shutdown. The RandomX memory is its key (`ctxKey`, `Mixed`
while it is rewritten); a VM of light mode remembers the key it was compiled for
(`vmKey`), a VM of fast mode reads the dataset as it is. `digest` is the key a
share was hashed under. A dataset thread that cannot be started, a VM that
cannot be created and a first job without a seed are there with their
consequences: an exception swallowed by `apply_job` with the pool left paused, or
`std::terminate`. So is a `start` whose threads cannot all be created
(`ThreadsFail`): `running_` stays set with fewer workers than `threads_`, the
next job takes the pool to be running, and `stop` joins the ones there are.

`MoneroSession` is `MoneroClient` over `TcpClient` under the loop of `cmd_run`,
with one submitting worker. `poll` is one action per outcome: nothing to read,
end of stream, a message dispatched by `handle`, a message that makes the JSON
library throw. Every increment of `next_id_`, for a login, a keepalive or a
submit, is split into its read (`Connect`, `Keepalive`, `SubmitBegin`) and its
write, since it is a plain `int` without a lock: two requests can have one id. The
link may drop at any moment; of what was on its way a first part, all of it or
nothing, can still be read, and a send after that may fail or raise SIGPIPE. Time is two facts that become true at any moment: the watchdog's
timeout and the keepalive's. The branch of the loop for a `poll` that returns
false is not an action: with a client whose socket is open, `poll` cannot return
false, and the loop only calls it with an open socket. The history variables
`okSent` and `excused` are what the pool has accepted, and whether something
happened after which the code may overlook a verdict.

`StratumSession` is the same for `StratumV1Client`, with `parse_subscribe`,
`parse_notify` and `build_work` reduced to the outcomes the client tells apart
(`FormsOf`): a subscription whose size is no number keeps the old size, a rejected
size is kept all the same, and a negative one throws when work is built.
`extranonce1_`, `job_` and the workers' job are represented by the number of the
connection they came from.

`PoolContract` is the abstract specification of `PoolClient`: what `cmd_run`
takes a pool session for, whatever its protocol. Both sessions are shown to
implement it (`KeepsContract`). The mapping is the same for both: `connected` is
the socket, `working` whether the workers have a job, `granted` and `credited`
the shares accepted by the pool and counted by the miner. `redirected` is
`FALSE` in `MoneroSession` and `asked` in `StratumSession`: only
`client.reconnect` leaves the workers a job on the way to another connection.

`TcpClient` is `connect`, `close` and `read_line` on bytes, with `recv` returning
any part of what has arrived and with the guard on long lines. `LineChannel` is
the queue of messages the sessions are written over, and `TcpClient` implements
it (`IsAChannel`): the queue is the complete lines in `rx_` and in the kernel's
buffer together, where line `k` of a stream is what lies between its line feeds
`k - 1` and `k`. What `send_all` does to a session is in the sessions.

`Target`, `Sha256`, `Dataset` and `Work` are the pure functions: targets from a
difficulty, from nBits and from a Monero pool's hex, `meets_target`; the buffering
and padding of SHA-256; the division of the dataset among threads; the
extranonce2 encoding, the merkle fold and the header of Stratum work. `Arithmetic`
runs them on every input within bounds; its properties compare them with
definitions that do not follow the code. The width of a byte and of a word, the
number of words, the length of a block and the precision of a double are
constants. A conversion of a double that does not fit 64 bits is undefined in C++;
the result is 0, as the usual x86 sequence gives, or the largest integer, as a
saturating one does. A build has one or the other (`over`), and an input is run
under each: were the choice free at every call, two difficulties just below
2^-32 could get 0 for the harder and the largest integer for the easier one, and the
order of targets would be lost to a mixture no build produces. Loops are
recursive functions; `Numbers` has the powers as one.

`StatsStore` is `load`, `save` and `persist`: one action per file operation,
each of which may fail, with `Crash` possible between any two. `load` may find a
good file unreadable (`unread`) and then returns zeros, as for a missing one.

`Metrics` is the sampling window of `snapshot` under `m_`, `HttpServer` the
accept / recv / respond loop and the three steps of `stop`. `Posix` says what
`close` does to a blocked `accept` and whether a send to a reset connection raises
SIGPIPE. `Shutdown` extends `StatsStore` and instantiates both: a session of
`cmd_run` from launch to exit, with the periodic and the final `persist`, the
status line, signals, exceptions and kills. There the workers are a flag and a
counter (`MinerPool` has the rest), and a session is the verdicts and jobs `poll`
brings.

`MC*` modules instantiate these for TLC. `*Proofs` modules hold the theorems of the
module they are named after (`ShutdownProofs` those of `StatsStore` too), and
`VerdictQueue` the counting lemmas both sessions' proofs use.
Definitions commented `Fault:` are deliberately wrong variants of the definition
that follows them. No specification uses them; each one put in place of the
right definition makes TLC report one property, which shows that the property can
fail (`PROJECT.json`, "mutants").

## Runs

| Run | Instance | Shows |
|---|---|---|
| `minerpool` | 2 threads, 2 jobs (one too short for a nonce), chunks of 2, 6 nonces, one replacement, one rebuild, store buffering | `in_flight_` exact, after `pause` only a worker that overtook its store hashes, lanes disjoint over wraps, nothing lost at `stop`, `pause` and `stop` return |
| `mining_live` | 2 threads, 2 seeds, fast mode, 2 replacements, store buffering, VMs and dataset threads may fail | no worker begins to hash during a re-key, `on_job` and the shutdown end, workers of a pool that is not left paused notice the last change |
| `mining_digest` | as above, 3 replacements, 2 re-keys, no VM fails | the pool is left paused exactly over half rewritten memory; no worker misses two replacements; wrong digests only for replaced jobs; a worker dies only unseeded |
| `shutdown` | 2 sessions, 1 share and 1 hash each, Posix, HTTP endpoint on or off | nothing counted twice; loss only after a failed step, a kill between remove and rename, or a `load` that could not read the file; the final save is complete; sampling windows tile; no thread outlives its locals; the process ends when the endpoint is scraped |
| `monero` | ids up to 4, one message under way, 2 login polls | the session implements `PoolContract`; login is real; a verdict is overlooked only beside another share, with a lost connection or beside a login on its id; a dead connection is always closed |
| `stratum` | 2 connections, ids up to 6, one message under way, 1 login poll | the session implements `PoolContract`; no job of the first connection comes back on the second but after `client.reconnect` |
| `tcp` | streams of 4 bytes on 2 connections, reads of up to 2, guard at 1 | the client implements `LineChannel`; every complete line is handed over, one over the guard and those behind it included |
| `algorithms` | see below; about 220000 inputs | every pure function agrees with its reference definition |
| `v_setwork`, `v_rekey`, `v_rebuild`, `v_shutdown` | the smallest instance with the case | see Findings |

The bounds. Two workers are enough for every property that speaks of one worker
and the caller or of two workers; more of them only repeat these pairs, and the
safety part is proved for any number. Six nonces with two threads make a worker
wrap in the middle of a chunk of two (three nonces per lane). `HashMod` is small
so that `hashes_` wraps. Two replacements let a worker miss one; a third one is
needed for "never two". `MaxGen` and `MaxHasherGen` bound the calls, `MaxId` and
`MaxConns` the requests and connections; a bound blocks the start of an
operation, never its end. `MaxInbox = 1` bounds what is on its way, not what is
sent: the pool sends again as soon as a message is read, and the order of
replies is free since `requests` only counts them. Four request ids are a login, a
collision with it and a later submit; a Stratum connection takes two, and six leave
room for a second connection and submits that race with it. Two connections suffice for leaks from one
into the next, which have no memory beyond the last one.

In `shutdown`, two sessions are a save and a load of it; that the totals are
right for any number of sessions, shares and kills is proved. One hash makes a
sample differ from an empty one, and `Word = 8` shows a sample that wraps. In
`tcp`, 4 bytes hold two lines, an empty one, and a line over the guard with
another behind it; a second connection shows a leftover of the first.

In `algorithms`, a byte has 4 values, a word 2 bytes, a hash 4 words, and a double
6 bits of precision: words are still wider than bytes, hashes wider than the two
words a target sets, and a word wider than a double is precise. Difficulties run
from 0 to 140 in steps of 1/64, under each outcome of the undefined conversion, on both sides of every branch of
`target_from_difficulty`. Every hash is compared with the targets of difficulty 0, 1
and the largest one. Blocks are 5 long with 2 for the length, and messages up
to 12, cut anywhere, cover every distance from a block boundary twice. The
extranonce2 counter passes the range of one and of two bytes (`MaxCount` 20), with
extranonces of 1 to `MaxXn2` = 3 bytes and merkle branches of 0 to `MaxBranch` = 2.
What these bounds leave out is proved: every property of this run holds for every
value of its constants.

Deadlock checking is off where the program may end (`exited`, `dead`) or the
bounds are exhausted.

Symmetry: `mining_digest` permutes the two seeds; they occur only in equality
tests and the run has no liveness property.

### Fairness

`Fairness` (pool): a thread that can take a step takes one, and a store buffer
drains. Threads are preemptively scheduled and the sleeps in the code are finite.
Nobody has to call an operation. `MFairness` (program): the same for the main
thread inside an operation and for each worker; a worker that holds `submit_mtx`
comes back from `submit`, which assumes that `send` does not block for ever. It
is not assumed that a worker waiting for `submit_mtx` ever gets it, as
`std::mutex` does not promise it; `WorkersNotice` is stated accordingly.
`MoneroSession`: the main thread runs, and time passes (`JobTimeout`). The pool,
the network, a connection attempt and the workers owe nothing. `TcpClient`: an
open client is polled again and again, and a `read_line` goes on; the peer owes
nothing.

`Shutdown`, `CodeFairness`: the main thread and the server thread run, and Winsock
wakes an `accept` whose socket is closed. The main thread gets `m_` in the end
(strong fairness): the server does network I/O between any two times it holds
it. `CodeFairSpec` adds that a connected HTTP client sends or hangs up, since
`recv` has no timeout. `FairSpec` adds that somebody connects, since on Linux
only that (or an error) returns from `accept`. `shutdown` runs under `FairSpec` and shows that
nothing else is in the way; `v_shutdown` drops the last assumption (with
`Posix = FALSE` the property holds without it). Without the one before, a silent
client holds up the shutdown on every system.

## Findings

Four runs show a statement of the repository's comments or README that the code
does not keep. Each is a run with `expect` "violation"; `PROJECT.json` quotes the
lines.

1. `v_setwork`: `set_work` bumps `work_gen_` before it stores the job, and
   `run` records the generation it loaded before it copied. A worker that gets in
   between keeps the old job, and believes itself up to date.
   `MissesAtMostOne` is what remains true.
2. `v_rekey`: the acquire load of `in_flight_` may pass the release store to
   `paused_`, and `pause` returns next to a worker that enters its chunk; `on_job`
   goes on, and `ensure_seed` rewrites the dataset while that worker computes a
   digest from it. What remains true: only such a worker hashes on, to the end of
   one chunk (`PauseHolds`), none begins to while the memory is rewritten
   (`RekeyOverlapEnds`), and the digest is for a job that is replaced
   (`CurrentJobDigest`).
3. `v_rebuild`: `run` makes its hasher and reads `hasher_gen_` afterwards; a
   rebuild in between is lost (light mode).
4. `v_shutdown`: on Linux, `stop` closes the listening socket under a blocked
   `accept`, which does not return. `join` waits for a client that need not come,
   and the final `persist` is not reached.

Other behaviour a maintainer should know of is inside the models, as what a
passing property leaves room for or no property speaks of:

* `on_job` resumes the pool before `set_work`, so that the previous job is hashed
  under the new key for a while: `CurrentJobDigest` says it is confined to
  replaced jobs.
* `ensure_seed` that throws after `pause` leaves the pool paused until a job names
  another seed, and its workers do not notice anything before: `PausedWhileMixed`
  says that this is the only way to leave it paused.
* A kill between `std::remove` and `std::rename`, or an unchecked short write,
  resets the lifetime totals. So does a good file that cannot be opened at launch:
  `load` returns zeros and the next `save` overwrites what the file holds, although
  the README says that the totals accumulate across restarts and `stats_store.hpp`
  speaks only of a missing or corrupt file. `LossOnlyByFailure` says that nothing
  else does. What was counted since the last `persist` is lost with
  every death of the process, an exception out of `poll` included; no property
  forbids that.
* `poll` returns true at the end of the stream, because nothing has closed the
  socket. The connection is only replaced by the watchdog (`Recovers`).
* Only the id of the last submit is remembered: the verdict on an earlier one is
  overlooked, as is one whose id a racing login took (`VerdictsCounted`).
* `extranonce1_` is never cleared: from the second connection on, the Stratum
  `connect` returns true before its subscription is answered (`LoginDone`), against
  "Connect + authenticate, blocking until the first job arrives" in
  `pool_client.hpp`, and a job that comes first is built on the old extranonce1.
* After `client.reconnect`, `have_job_` and the workers' job outlive the
  connection, and a `set_difficulty` on the next one revives the old job.
  `NoRevivedJob` and `PoolContract` say that no other end of a connection does this.
* A subscription with a rejected size leaves the client with that size (`FormsOf`).
* An exception that unwinds `cmd_run` destroys `submit_mtx` before the workers
  that lock it are joined: the exception in `LocalsOutliveThreads`.
* On POSIX a send on a connection that the peer has reset raises SIGPIPE, which
  nothing handles: `send_all` does not return false, as `tcp_client.hpp` says, but
  the process ends, before the watchdog reconnects. A scraper that resets its
  connection ends it in the same way (`SigPipe`).
* A client that connects to the endpoint and stays silent holds the server thread
  in `recv`, and `stop` with it.

## Proofs

All theorems hold for every value of the constants that satisfies the
assumptions named in the modules: `PoolAssumption` (at least one thread, not more
threads than nonces), `MiningAssumption`, `StatsAssumption`, `ShutdownAssumption`,
`TcpAssumption`, and for the sessions their bounds being
natural numbers, with room for one request id (`MaxId # 0`). Those of the pure
functions are met by the real sizes: `TargetAssumption` (a byte has a power of two
of values, a word an even number of bytes, a hash more than two words, and a
double can hold half a word, 0xffff), `Sha256Assumption` (a length field that
is not empty and shorter than a block) and `ArithmeticAssumption`. Three
theorems have a further hypothesis, named with each. Every safety
property that a passing run checks is the statement of a theorem.

**Worker pool** (`MinerPoolProofs`).

* `TypeCorrect`, `InFlightCorrect`. The inductive invariant is `PoolInv`: types,
  `ChunkOK` (a chunk holds at most `KChunk` hashes, which the type of `done`
  needs), `InFlightExact` and `Lifecycle`. `Lifecycle` is needed because `Start`
  resets all workers at once: the count stays exact only if none of them was in a
  chunk. Each step moves one worker into or out of `InFlight`; two lemmas give its
  cardinality after that.
* `StopLosesNothing` (`StopDrains`). The hashes computed are, modulo 2^64, the
  published counter and what every worker still has in `done` (`Accounted`). The
  sum over workers is given by its partial sums (`Totals`), a function
  the invariant says exists; a step that changes one worker's term shifts the
  partial sums from there on. After `stop` every term is zero.
* `PauseIsSafe` (`PauseHolds`), with and without store buffering, adds
  `PausedWhileHeld`: from the store in `pause` to the next `resume` or `stop`,
  `paused_` is set or its store is in the buffer. `pause` returns when `in_flight_`
  is 0, so `InFlight` is empty; after that the second look at `paused_` keeps a
  worker from `hash`, unless the store is still buffered, and then the worker is
  in `slipped`. Without store buffering `slipped` stays empty.
* `StalenessIsBounded` rests on `PublishedJob`: `work_` is at most one generation
  behind `work_gen_`.
* `LanesAreDisjoint` assumes that `Threads` divides `NonceSpace` (2^32 is a power
  of two, so the thread count must be one). `Lanes` says that a worker with a job
  stays congruent to its index; the wrap is where divisibility is used. When it
  does not hold the lanes mix after the first wrap.

**Mining control** (`MiningProofs`).

* `MiningImplementsPool`: `MSpec => Spec`. Every step of `cmd_run` is a step of the
  pool or a stutter, so that the theorems above hold of the program;
  `MiningStalenessIsBounded` is one of them carried over.
* `RekeyOverlapIsBounded` (`RekeyOverlapEnds`) combines `PauseHolds` and
  `PausedWhileHeld` with `RekeyProtocol`, that `ensure_seed` is reached only on a
  pool that is held or was never started, and rewrites the memory only once the
  store buffer has drained. `BeginsUnpaused` says that a worker begins a chunk only
  where it finds `paused_` clear.
* `PausedOnlyOverMixed` (`PausedWhileMixed`) from `Loaded`, below.
* `WorkersFindASeed` (`DiesOnlyUnseeded`) rests on `Seeding`: once a job has named a
  seed, `start` and the rebuild of hashers come after a load that succeeded.
* `CurrentSharesAreRight` (`CurrentJobDigest`) assumes `Fast`: in light mode a worker
  can miss a rebuild and keep its old key, which is finding 3. Three
  invariants follow a key from the context to a digest: `Loaded` (outside a
  re-key the context holds `current_seed`, unless the pool is held, as a failed
  re-key leaves it), `JobKeys` (outside `on_job` the job of the current generation is
  for `current_seed`, in `work_` and in every worker's copy), `DigestKeys` (a share of
  that generation was hashed under its job's key). It holds under `TSO` as well: only a
  replaced job can be hashed across a re-key.

**Totals and exit** (`ShutdownProofs`).

* `StatsTypeCorrect`, `NeverCountedTwice`, `LossNeedsAFailure` (`LossOnlyByFailure`) are about
  `StatsStore` alone. `CountedOnce` strengthens `NoDoubleCount` by what a session
  has loaded and is about to write; the action property follows from
  `SavedInPlace` and `TmpWritten`, and from `Accumulates`: what a session that could
  read its base is about to save covers what was saved last.
* `ShutdownImplementsStats`: `SSpec => Spec`. The loop, the exit and the unwinding
  of an exception map to steps of `StatsStore`; the exception maps to a kill.
  `SessionsNeverCountTwice` and `SessionsLoseOnlyByFailure` are the two results
  carried over.
* `ShutdownTypeCorrect` and `ThreadsEndFirst` (`LocalsOutliveThreads`) from `Life`:
  which of workers and server thread can exist in which phase of `cmd_run`, on the
  normal and on the exceptional path.
* `FinalFlush` (`FinalFlushIsComplete`) from `Flushed`: once `persist(true)`
  has read the counters, nothing runs that could still count, and the program does
  not get back into its loop.
* `SamplesTile` (`WindowsTile`) assumes that a session stays below 2^64 hashes
  (`MaxHashes < Word`). `Windows` says that the samples given out add up
  to `last_hashes_`, and that what the holder of `m_` has read lies between that and
  the counter, so that the unsigned difference does not wrap.

**Sessions** (`MoneroSessionProofs`, `StratumSessionProofs`).

* `MoneroTypeCorrect`, `StratumTypeCorrect`: among other things, that the race of
  two threads on `next_id_` keeps it in its range.
* `MoneroKeepsContract`, `StratumKeepsContract`: both sessions implement
  `PoolContract`. The step that needs an argument is the counting of a share:
  that `accepted < okSent` then. `Earned` says that the favourable
  verdicts under way can be numbered, in the order of the queue, by distinct
  numbers between `accepted` and `okSent` (`Numbered` in `VerdictQueue`). Sending
  one takes the next number, reading one frees the lowest, and losing part of the
  queue leaves the others theirs (`NumberedSub`). This is a count of part of a queue without a cardinality,
  which the provers handle badly, and it does not depend on the ids, which may
  collide.
* `LoginIsReal` (`LoggedInIsReal`) from `LoginOK`: a successful login reply is in the
  queue, and `logged_in_` set, only if the pool accepted a login on this connection,
  because closing a connection clears both.
* `NoVerdictLost` (`VerdictsCounted`) from `Tracked`: as long as nothing excuses the
  client there is at most one share under way, under an id that is not the login's
  (`OneShare`), and the difference between what the pool accepted and the client
  counted is its verdict (`Balance`). The client is excused when the next share
  takes `last_submit_id_` before the verdict is read, when a connection is lost or
  given up with a verdict unread, and when a login and a submit have taken the
  same id.
* `JobsStayDead` (`NoRevivedJob`) from `SessionOK`: nothing is left in the queue of a
  closed socket (`SocketOK`), and a job that is there is of the connection that is
  open now, unless `client.reconnect` was followed (`ConnectionOK`). `SubscribeOK`,
  that a subscribe reply under way has the id of this connection's request, keeps
  it from being counted as a verdict in `StratumKeepsContract`.

**TCP client** (`TcpClientProofs`). `TcpIsAChannel`: every step of the client on bytes
is a step of `LineChannel` or a stutter, for any stream, any cut by `recv`, any
buffer size and any guard. A stream's lines are defined by the ranks of its line
feeds, so that no induction is needed: ranks are an injection of the feeds into as
many numbers, hence onto (`RankOnto`), the feeds of a prefix keep their ranks
(`PlacesOfPrefix`: a byte arrives, a reset cuts the stream) and without the first
feed every rank is one less (`PlacesOfRest`: a line is taken). `recv` moves bytes
and leaves the stream as it is (`MoveConcat`).

**Pure functions** (`ArithmeticProofs`). All six properties of `Arithmetic`. Each run
of it is one call, so that `Returned` (an input of its type, and no result or
the one its function gives for it) is inductive, and what remains is about the
functions. The library's induction theorems take an operator as parameter,
which the provers cannot instantiate; `SetInduction` says the same of a set of
naturals and follows from the well-foundedness of `<`. For each recursive function
of the model a lemma (`PowerExists`, `ValueExists` and the like) first
shows that a function with these values exists, by growing one a place at a time;
what it computes is then an induction over its argument.

* `HashesAreOrdered` (`MeetsIsOrder`): the bytes below a place add up to less than
  that place is worth, so that the highest byte that differs decides.
* `TargetsAreDecoded` (`TargetsDecode`): the bytes of a number add up to it
  (`BytesRoundTrip`), and shifting, cutting and placing them are multiplication,
  remainder and sums of disjoint places. The compact Monero form is two
  divisions, of which the outer one inverts the test of a hash's difficulty.
* `TargetsAreFaithful` (`TargetFaithful`): a quotient of doubles is off by at most
  one part in 2^`Precision` (`QuotientError`) and does not rise with the
  divisor (`QuotientFalls`), also across a power of two, where the precision
  changes. The order of targets has two places that could break it. Where the
  loop divides once more, the quotient must not jump: the difficulty
  just before it is exactly a power of 2^32, at which the quotient is 0xffff0000 and
  a double holds it (`Diff1Exact`, `NextDivision`). Where the quotient passes 64 bits,
  the outcome of a build must not fall below the target before it: 0 is
  replaced by the easiest target, and the largest integer is the largest that fits.
* `PaddingIsExact` (`PaddingExact`): `Holds` says that a hasher has taken exactly the
  first n bytes of a message, in whole blocks and a rest; `Put` takes one more,
  so that the cut does not matter. The zeros the loop in `finish` adds are the
  fewest that fit, counted modulo the block (`FewestZeros`).
* `WorkIsNotRepeated` (`WorkIsNew`): two counters have the same last bytes exactly if
  they agree modulo their range, and everything from the coinbase to the
  header is injective, given that sha256d is (it is uninterpreted in `Work`).
* `DatasetIsDivided` (`SlicesTile`), for any number of items and threads: the slices lie
  between consecutive multiples of `total / n`, the last one ends at `total`.

Only model-checked, and why: liveness, that is `PauseReturns`, `StopReturns`,
`OnJobReturns`, `WorkersNotice`, `ShutdownEnds`, `Recovers` and `LinesAreRead`. The
provers have no rules for fairness and `ENABLED`.

## Not modelled

* Configuration, hex, platform helpers, `bench` and `estimate`: no state, or a
  subset of what the pool model allows. Command-line parsing and the profit line.
* The SHA-256 compression function and RandomX itself: bit arithmetic with
  known-answer tests. The flags and fallbacks of the RandomX constructor:
  straight-line code on values of the library.
* The smoothed rate of the metrics: a floating-point function of the samples.
* `target_to_difficulty` (display) and `target_from_difficulty64` (a test option).
* The text of HTTP responses and of JSON requests.
* `send` that blocks for ever: `send_all` has no timeout, and a peer that stops
  reading holds the worker in `submit` and everyone who waits for `submit_mtx`.
  It is assumed away by the fairness of `Mining`.
* The byte order of the nonce a Stratum share is submitted with: a pool's view of
  it is not in this repository.
* Delays (backoff, sleeps) only postpone steps, and a failed connection attempt
  changes nothing; neither is a step.

## Plan

What can be modelled faithfully is modelled, and every safety property that a run
checks is proved. What could still be added is a composition: `TcpIsAChannel` and the
two contracts meet in the queue of messages, which both sessions assume with a
bound on what is under way.
