------------------------------ MODULE Shutdown ------------------------------
(***************************************************************************)
(* How a session of cmd_run (src/src/app/main.cpp) runs and ends: the main *)
(* loop, its periodic persist() and status line, the signals that stop it, *)
(* the final pool.stop(), http->stop() and persist(true), and the path of  *)
(* an exception, which runs the destructors instead.  It composes the      *)
(* lifetime totals, the metrics and the HTTP server; the worker pool is    *)
(* reduced to whether its workers run and how many hashes they have done,  *)
(* and the pool session to the verdicts and jobs that poll() brings.       *)
(***************************************************************************)
EXTENDS StatsStore

CONSTANTS
    Word,       \* 2^64
    Posix,      \* the build: Posix sockets, or Winsock
    MaxHashes   \* bound: hashes of one session

ASSUME ShutdownAssumption ==
    Word \in Nat \ {0} /\ Posix \in BOOLEAN /\ MaxHashes \in Nat

VARIABLES
    phase,      \* the place of the main thread in cmd_run
    g_stop,     \* g_stop
    threw,      \* an exception is unwinding cmd_run
    mining,     \* the workers of pool run
    poolHashes, \* pool.total_hashes()
    locals,     \* metrics, submit_mtx and what else is declared after pool live
    counted     \* history: the hashes in persist(true)

VARIABLES hashes_, last_hashes_, m_, total, sampled        \* Metrics
VARIABLES running_, sock, hpc                              \* HttpServer

Metrics == INSTANCE Metrics
Http    == INSTANCE HttpServer

metricsVars == <<hashes_, last_hashes_, m_, total, sampled>>
httpVars    == <<running_, sock, hpc>>
statsVars   == <<disk, pc, session, history>>
poolVars    == <<mining, poolHashes>>
exitVars    == <<g_stop, threw, locals>>
svars == <<statsVars, phase, exitVars, poolVars, counted, metricsVars, httpVars>>

SInit ==
    /\ Init /\ phase = "off" /\ g_stop = FALSE /\ threw = FALSE
    /\ mining = FALSE /\ poolHashes = 0 /\ locals = FALSE /\ counted = 0
    /\ Metrics!Init /\ Http!Init

\* The main thread is at p and not inside save().
At(p) == pc = "run" /\ phase = p
Goto(p) == phase' = p

-----------------------------------------------------------------------------
\* cmd_run up to its loop: load the totals and, if a port is configured and
\* can be bound, start the endpoint.
Launch ==
    /\ Load /\ Goto("loop")
    /\ g_stop' = FALSE /\ threw' = FALSE /\ locals' = TRUE
    /\ mining' = FALSE /\ poolHashes' = 0 /\ counted' = 0
    /\ Metrics!Reset
    /\ Http!Start \/ Http!Reset

\* on_signal and console_ctrl_handler.
Signal ==
    /\ pc # "down" /\ ~g_stop /\ g_stop' = TRUE
    /\ UNCHANGED <<statsVars, phase, threw, locals, poolVars, counted,
                   metricsVars, httpVars>>

\* The loop ends: g_stop, or the deadline of --for.
LoopEnds ==
    /\ At("loop") /\ Goto("poolstop")
    /\ UNCHANGED <<statsVars, exitVars, poolVars, counted, metricsVars, httpVars>>

\* One turn of the loop: poll() brings a verdict, a job or nothing, and
\* next_persist or next_status may be due; or the connection is gone and the
\* loop starts over.
Poll ==
    /\ At("loop") /\ ~g_stop
    /\ \/ ShareAccepted /\ UNCHANGED mining
       \/ mining' = TRUE /\ UNCHANGED statsVars
       \/ UNCHANGED <<statsVars, mining>>
    /\ phase' \in {"persist", "status", "loop"}
    /\ UNCHANGED <<exitVars, poolHashes, counted, metricsVars, httpVars>>

\* persist(false), before the status line of the same turn.
PeriodicPersist ==
    /\ At("persist") /\ Persist(FALSE) /\ Goto("status")
    /\ UNCHANGED <<exitVars, poolVars, counted, metricsVars, httpVars>>

\* If it is due, the status line hands the counter to metrics, then calls snapshot().
Status ==
    /\ At("status")
    /\ \/ Metrics!set_total_hashes(poolHashes) /\ Goto("sample")
       \/ Goto("loop") /\ UNCHANGED metricsVars
    /\ UNCHANGED <<statsVars, exitVars, poolVars, counted, httpVars>>

Sample ==
    /\ At("sample") /\ Goto("sampled") /\ Metrics!Begin("main")
    /\ UNCHANGED <<statsVars, exitVars, poolVars, counted, httpVars>>

Sampled ==
    /\ At("sampled") /\ Goto("loop") /\ Metrics!Close("main")
    /\ UNCHANGED <<statsVars, exitVars, poolVars, counted, httpVars>>

\* The steps of save(); after the last one of persist(true) cmd_run returns.
Save ==
    /\ OpenTmp \/ WriteTmp \/ RemoveOld \/ RenameTmp
    /\ locals' = (pc' # "down")
    /\ UNCHANGED <<phase, g_stop, threw, poolVars, counted, metricsVars, httpVars>>

\* A callback or the loop throws, and cmd_run is unwound.
Throws ==
    /\ At("loop") /\ ~g_stop /\ threw' = TRUE /\ Goto("httpstop")
    /\ UNCHANGED <<statsVars, g_stop, locals, poolVars, counted, metricsVars,
                   httpVars>>

\* Fault: pool.stop() does not wait for the workers.
PoolStopNoJoin ==
    /\ At("poolstop") /\ Goto("httpstop")
    /\ UNCHANGED <<statsVars, exitVars, poolVars, counted, metricsVars, httpVars>>

\* pool.stop(), which joins the workers.
PoolStop ==
    /\ At("poolstop") /\ Goto("httpstop") /\ mining' = FALSE
    /\ UNCHANGED <<statsVars, exitVars, poolHashes, counted, metricsVars, httpVars>>

\* Fault: stop() leaves before it has joined the thread.
HttpStopNoJoin ==
    /\ At("httpstop") /\ Goto("joined") /\ Http!StopFlag
    /\ UNCHANGED <<statsVars, exitVars, poolVars, counted, metricsVars>>

\* http->stop(), or ~HttpServer(): it returns at once unless the flag was set.
HttpStop ==
    /\ At("httpstop") /\ Http!StopFlag
    /\ Goto(IF running_ THEN "httpclose" ELSE "joined")
    /\ UNCHANGED <<statsVars, exitVars, poolVars, counted, metricsVars>>

HttpClose ==
    /\ At("httpclose") /\ Http!StopClose /\ Goto("httpjoin")
    /\ UNCHANGED <<statsVars, exitVars, poolVars, counted, metricsVars>>

HttpJoin ==
    /\ At("httpjoin") /\ Http!Joinable /\ Goto("joined")
    /\ UNCHANGED <<statsVars, exitVars, poolVars, counted, metricsVars, httpVars>>

\* disconnect() and persist(true).
FinalPersist ==
    /\ At("joined") /\ ~threw /\ Persist(TRUE) /\ counted' = poolHashes
    /\ UNCHANGED <<phase, exitVars, poolVars, metricsVars, httpVars>>

\* Unwinding destroys the locals declared after pool ...
DestroyLocals ==
    /\ At("joined") /\ threw /\ locals' = FALSE /\ Goto("destroyed")
    /\ UNCHANGED <<statsVars, g_stop, threw, poolVars, counted, metricsVars,
                   httpVars>>

\* ... and then pool, whose destructor joins the workers; main() catches the
\* exception and returns 1 with nothing saved.
DestroyPool ==
    /\ At("destroyed") /\ mining' = FALSE /\ pc' = "down"
    /\ UNCHANGED <<disk, session, history, phase, exitVars, poolHashes, counted,
                   metricsVars, httpVars>>

Loop == LoopEnds \/ Poll \/ PeriodicPersist \/ Status \/ Sampled
Stop == PoolStop \/ HttpStop \/ HttpClose \/ HttpJoin
Exit == FinalPersist \/ DestroyLocals \/ DestroyPool

-----------------------------------------------------------------------------
Hash ==
    /\ mining /\ poolHashes < MaxHashes /\ poolHashes' = poolHashes + 1
    /\ UNCHANGED <<statsVars, phase, exitVars, mining, counted, metricsVars,
                   httpVars>>

\* The steps of run() that wait for nobody, and those that wait for a client.
HttpRun ==
    /\ Http!Check \/ Http!Accept \/ Http!Failed \/ Http!Send
    /\ UNCHANGED <<statsVars, phase, exitVars, poolVars, counted, metricsVars>>

HttpConnects ==
    /\ Http!ClientConnects
    /\ UNCHANGED <<statsVars, phase, exitVars, poolVars, counted, metricsVars>>

HttpRecv ==
    /\ Http!Recv
    /\ UNCHANGED <<statsVars, phase, exitVars, poolVars, counted, metricsVars>>

HttpAcceptFails ==
    /\ Http!AcceptFails
    /\ UNCHANGED <<statsVars, phase, exitVars, poolVars, counted, metricsVars>>

\* body_provider_ is metrics.prometheus(), which calls snapshot().
Prometheus ==
    /\ \/ Http!Moves("body", "snapshot") /\ Metrics!Begin("http")
       \/ Http!Moves("snapshot", "send") /\ Metrics!Close("http")
    /\ UNCHANGED <<statsVars, phase, exitVars, poolVars, counted>>

\* The process is gone with all its state.
Gone ==
    /\ Goto("off") /\ g_stop' = FALSE /\ threw' = FALSE /\ locals' = FALSE
    /\ mining' = FALSE /\ poolHashes' = 0 /\ counted' = 0
    /\ Metrics!Reset /\ Http!Reset

\* The process dies: it is killed, Windows ends it once the handler of a
\* console close has returned, or SIGPIPE does.
Dies == Crash /\ Gone

Killed  == ~Http!SendKills /\ Dies
SigPipe == Http!SendKills /\ Dies

SNext ==
    \/ Launch \/ Signal \/ Loop \/ Sample \/ Save \/ Throws \/ Stop \/ Exit
    \/ Hash \/ HttpRun \/ Prometheus \/ HttpConnects \/ HttpRecv
    \/ HttpAcceptFails \/ Killed \/ SigPipe

SSpec == SInit /\ [][SNext]_svars

\* The threads of the process keep running.  The main thread gets m_ in the
\* end: the server does network I/O between any two times that it holds m_.
CodeFairness ==
    /\ WF_svars(Loop \/ Save \/ Stop \/ Exit)
    /\ SF_svars(Sample)
    /\ WF_svars(HttpRun \/ Prometheus \/ SigPipe)
    /\ WF_svars(Http!Woken /\ HttpAcceptFails)

\* recv() has no timeout: a client that connects must send or hang up.
CodeFairSpec == SSpec /\ CodeFairness /\ WF_svars(HttpRecv)

\* And accept() may only return for a connection: the endpoint is scraped again
\* and again.
FairSpec == CodeFairSpec /\ WF_svars(HttpConnects)

-----------------------------------------------------------------------------
\* Every variable has its type.
STypeOK ==
    /\ TypeOK /\ Metrics!TypeOK /\ Http!TypeOK
    /\ phase \in {"off", "loop", "persist", "status", "sample", "sampled",
                  "poolstop", "httpstop", "httpclose", "httpjoin", "joined",
                  "destroyed"}
    /\ g_stop \in BOOLEAN /\ threw \in BOOLEAN /\ locals \in BOOLEAN
    /\ mining \in BOOLEAN /\ poolHashes \in Nat /\ counted \in Nat

\* The final save() writes the session's last word: no share and no hash comes
\* after persist(true) has read the counters.
FinalFlushIsComplete == final => snap = LifetimeStats /\ counted = poolHashes

\* The windows of Metrics tile the hashes (Metrics.tla).
WindowsTile == Metrics!WindowsTile

\* No thread outlives what it uses: when the locals of cmd_run are destroyed
\* the server's thread, which calls metrics.prometheus(), has ended, and so
\* have the workers, which lock submit_mtx, unless an exception unwinds.
LocalsOutliveThreads == ~locals => Http!Joinable /\ (threw \/ ~mining)

\* A process told to stop ends, also when an exception met it on the way.
ShutdownEnds == (g_stop \/ threw) ~> (pc = "down")
=============================================================================
