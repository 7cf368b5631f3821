----------------------------- MODULE HttpServer -----------------------------
(***************************************************************************)
(* HttpServer (src/src/telemetry/http_server.cpp): the thread behind the   *)
(* metrics endpoint, start() and stop() on the thread that owns it, and    *)
(* the HTTP clients (external), seen where accept() and recv() return.     *)
(***************************************************************************)
CONSTANT Posix  \* the build: Posix sockets, or Winsock

VARIABLES
    running_, \* running_
    sock,     \* what listen_sock_ names: "none", "open" or "closed"
    hpc       \* the place of the thread in run(), "none" before start()

vars == <<running_, sock, hpc>>

Init == running_ = FALSE /\ sock = "none" /\ hpc = "none"

-----------------------------------------------------------------------------
\* The process is gone, or it has no server: no port, or it cannot be bound.
Reset == running_' = FALSE /\ sock' = "none" /\ hpc' = "none"

\* start(), when the port can be bound.
Start == running_' = TRUE /\ sock' = "open" /\ hpc' = "check"

\* stop() is three steps: the flag, the socket, the join.
StopFlag == running_' = FALSE /\ UNCHANGED <<sock, hpc>>

StopClose == sock' = "closed" /\ UNCHANGED <<running_, hpc>>

Joinable == hpc \in {"none", "exit"}

\* The thread goes from place a of run() to place b.
Moves(a, b) == hpc = a /\ hpc' = b /\ UNCHANGED <<running_, sock>>

\* while (running_.load())
Check == Moves("check", IF running_ THEN "accept" ELSE "exit")

\* accept() fails at once on a closed socket and blocks on an open one.
Accept == Moves("accept", IF sock = "open" THEN "blocked" ELSE "failed")

\* external: a connection completes accept().  On Linux also when the socket
\* was closed meanwhile, for the call holds on to it.
ClientConnects == (sock = "open" \/ Posix) /\ Moves("blocked", "recv")

\* accept() fails while it waits: the connection is aborted or has no
\* descriptor; with Winsock also because the socket is closed.
AcceptFails == Moves("blocked", "failed")

\* Winsock wakes a blocked accept() when the socket is closed, Linux does not.
Woken == sock = "closed" /\ ~Posix

\* Fault: a failed accept() always tries again.
FailedContinues == Moves("failed", "accept")

\* c == kInvalid: break when stopping, else go on.
Failed == Moves("failed", IF running_ THEN "check" ELSE "exit")

\* recv() has no timeout and returns when the client (external) has sent a
\* request for the metrics or another one, has hung up, or has reset the
\* connection.
Recv == \E answer \in {"body", "send", "reset"} : Moves("recv", answer)

\* The response is sent.  On Posix a send() after recv() has reported a reset
\* raises SIGPIPE, which nothing handles.
SendKills == hpc = "reset" /\ Posix

Send == Moves("send", "check") \/ (~SendKills /\ Moves("reset", "check"))

-----------------------------------------------------------------------------
\* Every variable has its type.
TypeOK ==
    /\ running_ \in BOOLEAN
    /\ sock \in {"none", "open", "closed"}
    /\ hpc \in {"none", "check", "accept", "blocked", "failed", "recv", "body",
                "snapshot", "send", "reset", "exit"}
=============================================================================
