--------------------------- MODULE StratumSession ---------------------------
(***************************************************************************)
(* One miner and its Stratum V1 pool: StratumV1Client                      *)
(* (src/src/pool/stratum_v1_client.cpp) with parse_notify, parse_subscribe *)
(* and build_work (src/src/stratum) over TcpClient, driven by the loop of  *)
(* cmd_run (src/src/app/main.cpp), while a worker thread submits shares    *)
(* through the same client.                                                *)
(*                                                                         *)
(* What outlives a connection is the point: extranonce1_, job_, have_job_  *)
(* and the workers' job.  Each of them is represented by the number of the *)
(* connection it came from.  Time is represented as in MoneroSession, and  *)
(* so is the unprotected next_id_, whose every increment is a read and a   *)
(* write.                                                                  *)
(***************************************************************************)
EXTENDS Naturals, Sequences

CONSTANTS
    LoginPolls,  \* polls of connect() while it waits for the subscription (20)
    MaxConns,    \* bound: connections
    MaxId,       \* bound: request ids
    MaxInbox,    \* bound: messages on their way to the miner
    Posix        \* BOOLEAN: a send on a reset connection raises SIGPIPE

ASSUME StratumAssumption ==
    /\ LoginPolls \in Nat \ {0} /\ MaxConns \in Nat /\ MaxId \in Nat \ {0}
    /\ MaxInbox \in Nat /\ Posix \in BOOLEAN

VARIABLES
    open,         \* conn_.is_open()
    link,         \* the TCP connection: "up", or "gone" once the peer left it
    conns,        \* the number of the last connection
    inbox,        \* messages sent by the pool and not yet read
    requests,     \* external: how many of each request the pool has not answered
    okSent,       \* external: shares the pool has accepted
    nextId,       \* next_id_
    subscribeId,  \* subscribe_id_
    authorizeId,  \* authorize_id_
    lastSubmitId, \* last_submit_id_
    xn1,          \* the connection extranonce1_ came from, 0 when it is empty
    sizeOK,       \* extranonce2_size_ is not negative
    job,          \* job_: the connection it came from, and if work can be built
    haveJob,      \* have_job_
    work,         \* the workers' job, as what it was built from
    hadWork,      \* some job has been given to the workers
    asked,        \* history: the last connection ended by client.reconnect
    mpc,          \* the main thread, see MainAt
    mid,          \* the value the main thread read from next_id_
    tries,        \* i: polls connect() has made
    stale,        \* now - last_job_at > kJobTimeout
    accepted,     \* metrics.accepted()
    wpc,          \* the submitting worker: "idle", "inc" or "send"
    wid           \* the value it read from next_id_

conn    == <<open, link, conns, inbox>>
pool    == <<requests, okSent>>
ids     == <<subscribeId, authorizeId, lastSubmitId>>
mining  == <<xn1, sizeOK, job, haveJob, work, hadWork>>
worker  == <<wpc, wid>>
vars    == <<conn, pool, nextId, ids, mining, asked, mpc, mid, tries, stale, accepted, worker>>

NoJob  == [from |-> 0, builds |-> FALSE]
NoWork == [on |-> 0, job |-> 0, asked |-> FALSE]

\* A message as handle_line sees it.  A subscription carries an extranonce1,
\* perhaps an empty one, and a size, which may be negative or not a number
\* ("part"); "part" is also a notify that no work can be built from.  An "odd"
\* message is JSON of a type handle_line does not expect.
Kinds   == {"subscribe", "submit", "notify", "difficulty", "reconnect", "odd"}
FormsOf == [k \in Kinds |->
               CASE k = "subscribe" -> {"good", "bad", "part", "empty", "negative"}
                 [] k = "submit"    -> {"good", "bad"}
                 [] k = "notify"    -> {"good", "bad", "part"}
                 [] OTHER           -> {"good"}]
Forms   == UNION {FormsOf[k] : k \in Kinds}
Message == [kind : Kinds, id : 0 .. MaxId, form : Forms]
Request == [kind : {"subscribe", "submit"}, id : 0 .. MaxId]
NoRequests == [r \in Request |-> 0]

\* In the loop of cmd_run; in connect(), before and after the subscription is
\* sent, before the authorization is, and in its poll loop; in the poll() of the
\* loop; at the watchdog; or ended.
MainAt == {"loop", "subscribeId", "subscribed", "authorizeId", "login", "poll", "watch", "dead"}

Init ==
    /\ open = FALSE /\ link = "gone" /\ conns = 0 /\ inbox = <<>>
    /\ requests = NoRequests /\ okSent = 0
    /\ nextId = 1 /\ subscribeId = 0 /\ authorizeId = 0 /\ lastSubmitId = 0
    /\ xn1 = 0 /\ sizeOK = TRUE /\ job = NoJob /\ haveJob = FALSE
    /\ work = NoWork /\ hadWork = FALSE
    /\ asked = FALSE
    /\ mpc = "loop" /\ mid = 0 /\ tries = 0 /\ stale = FALSE /\ accepted = 0
    /\ wpc = "idle" /\ wid = 0

-----------------------------------------------------------------------------
\* The request reaches a pool that is there; otherwise send_all returns an
\* error, or nothing was open in the first place.
Deliver(kind, id) ==
    requests' = IF open /\ link = "up"
                THEN [requests EXCEPT ![[kind |-> kind, id |-> id]] = @ + 1] ELSE requests

\* TcpClient::connect drops what the last connection left in rx_.
OpenConn == open' = TRUE /\ link' = "up" /\ inbox' = <<>>

\* TcpClient::close.
CloseConn == open' = FALSE /\ link' = "gone" /\ inbox' = <<>>

\* send() without MSG_NOSIGNAL on a connection the peer has reset.
SigPipe == Posix /\ open /\ link = "gone"

\* connect(): the TCP connection succeeds and next_id_ is read for the
\* subscription.  When it does not succeed nothing changes and the loop will try
\* again.
Connect ==
    /\ mpc = "loop" /\ ~open /\ conns < MaxConns /\ nextId + 1 < MaxId
    /\ OpenConn /\ conns' = conns + 1
    /\ requests' = NoRequests
    /\ mid' = nextId
    /\ mpc' = "subscribeId"
    /\ UNCHANGED <<okSent, nextId, ids, mining, asked, tries, stale, accepted, worker>>

\* send_json in connect(), which goes on, or returns false and leaves the socket
\* open if the peer has gone.
SendInConnect(next) ==
    \/ mpc' = next
    \/ link = "gone" /\ mpc' = "loop"
    \/ SigPipe /\ mpc' = "dead"

\* subscribe_id_ = next_id_++ is written and the subscription sent.
SendSubscribe ==
    /\ mpc = "subscribeId"
    /\ subscribeId' = mid /\ nextId' = mid + 1 /\ mid' = 0
    /\ Deliver("subscribe", mid)
    /\ SendInConnect("subscribed")
    /\ UNCHANGED <<conn, okSent, authorizeId, lastSubmitId, mining, asked, tries, stale>>
    /\ UNCHANGED <<accepted, worker>>

\* next_id_ is read again ...
ReadAuthorizeId ==
    /\ mpc = "subscribed"
    /\ mid' = nextId
    /\ mpc' = "authorizeId"
    /\ UNCHANGED <<conn, pool, nextId, ids, mining, asked, tries, stale, accepted, worker>>

\* ... and authorize_id_ written.  The reply to mining.authorize is only logged,
\* so that it is left out; its id is not.
SendAuthorize ==
    /\ mpc = "authorizeId"
    /\ authorizeId' = mid /\ nextId' = mid + 1 /\ mid' = 0
    /\ SendInConnect("login") /\ tries' = 0
    /\ UNCHANGED <<conn, pool, subscribeId, lastSubmitId, mining, asked, stale, accepted, worker>>

\* connect() waits until extranonce1_ is not empty, which after the first
\* subscription it never is again: then it does not wait at all.
LoginDone ==
    /\ mpc = "login" /\ xn1 # 0
    /\ stale' = FALSE
    /\ mpc' = "poll" /\ tries' = 0
    /\ UNCHANGED <<conn, pool, nextId, mid, ids, mining, asked, accepted, worker>>

\* ... or connect() returns false: the polls are used up, or a client.reconnect
\* has closed the socket.
LoginFails ==
    /\ mpc = "login" /\ xn1 = 0 /\ (tries = LoginPolls \/ ~open)
    /\ mpc' = "loop" /\ tries' = 0
    /\ UNCHANGED <<conn, pool, nextId, mid, ids, mining, asked, stale, accepted, worker>>

\* The loop finds an open socket and goes on to poll.
StillConnected ==
    /\ mpc = "loop" /\ open
    /\ mpc' = "poll"
    /\ UNCHANGED <<conn, pool, nextId, mid, ids, mining, asked, tries, stale, accepted, worker>>

\* Fault: connect() polls for its subscription without a bound.
PollingForever ==
    \/ mpc = "poll"
    \/ mpc = "login" /\ xn1 = 0 /\ open

\* The main thread is about to call poll(), in the loop or in connect(), with
\* an open socket.
Polling ==
    \/ mpc = "poll"
    \/ mpc = "login" /\ xn1 = 0 /\ tries < LoginPolls /\ open

\* Where poll() returns to: the watchdog, or the loop of connect().
PollReturns ==
    IF mpc = "login" THEN tries' = tries + 1 /\ UNCHANGED mpc
                     ELSE mpc' = "watch" /\ UNCHANGED tries

\* read_line finds nothing: a timeout or the end of the stream.
ReadNothing ==
    /\ Polling /\ inbox = <<>>
    /\ PollReturns
    /\ UNCHANGED <<conn, pool, nextId, mid, ids, mining, asked, stale, accepted, worker>>

-----------------------------------------------------------------------------
(* handle_line.                                                            *)

\* rebuild_job, for the job j, once have_job_ is set: the work is given to the
\* workers by on_job, which notes the time, unless none can be built.
RebuildJob(j) ==
    IF j.builds
    THEN /\ work' = [on |-> conns, job |-> j.from, asked |-> asked]
         /\ hadWork' = TRUE /\ stale' = FALSE
    ELSE UNCHANGED <<work, hadWork, stale>>

HandleDifficulty(m) ==
    /\ m.kind = "difficulty"
    /\ IF haveJob THEN RebuildJob(job) ELSE UNCHANGED <<work, hadWork, stale>>
    /\ UNCHANGED <<open, link, xn1, sizeOK, job, haveJob, asked, accepted, requests>>

HandleNotify(m) ==
    /\ m.kind = "notify"
    /\ IF m.form = "bad"
       THEN UNCHANGED <<job, haveJob, work, hadWork, stale>>
       ELSE LET j == [from |-> conns, builds |-> m.form = "good"]
            IN  job' = j /\ haveJob' = TRUE /\ RebuildJob(j)
    /\ UNCHANGED <<open, link, xn1, sizeOK, asked, accepted, requests>>

\* client.reconnect closes the socket and nothing else: have_job_, the workers'
\* job and the session stay.
HandleReconnect(m) ==
    /\ m.kind = "reconnect"
    /\ open' = FALSE /\ link' = "gone" /\ requests' = NoRequests
    /\ asked' = TRUE
    /\ UNCHANGED <<mining, stale, accepted>>

\* parse_subscribe assigns extranonce1 before it looks at the size, which it
\* keeps where there is no number.  A size it rejects, zero or more than 8, is
\* assigned all the same, and nothing but a log line depends on the result.
HandleSubscribe(m) ==
    /\ m.kind \in {"subscribe", "submit"} /\ m.id = subscribeId
    /\ IF m.kind = "subscribe" /\ m.form # "bad"
       THEN /\ xn1' = (IF m.form = "empty" THEN 0 ELSE conns)
            /\ sizeOK' = (m.form # "negative" /\ (m.form = "part" => sizeOK))
       ELSE UNCHANGED <<xn1, sizeOK>>
    /\ UNCHANGED <<open, link, job, haveJob, work, hadWork, asked, stale, accepted, requests>>

\* Any other reply: a verdict counts when it comes under the id of the last
\* submit and not under that of the authorization.
HandleReply(m) ==
    /\ m.kind \in {"subscribe", "submit"} /\ m.id # subscribeId
    /\ accepted' = IF m.id # authorizeId /\ m.id = lastSubmitId /\ m.form = "good"
                   THEN accepted + 1 ELSE accepted
    /\ UNCHANGED <<open, link, mining, asked, stale, requests>>

\* The JSON library throws on a message of an unexpected type, and
\* encode_extranonce2 on a negative size; nothing up to main() catches it.
Throws(m) ==
    \/ m.kind = "odd"
    \/ ~sizeOK /\ m.kind = "difficulty" /\ haveJob
    \/ ~sizeOK /\ m.kind = "notify" /\ m.form # "bad"

ReadThrows ==
    /\ Polling /\ inbox # <<>> /\ Throws(Head(inbox))
    /\ mpc' = "dead" /\ inbox' = Tail(inbox)
    /\ UNCHANGED <<open, link, conns, pool, nextId, mid, ids, mining, asked, tries>>
    /\ UNCHANGED <<stale, accepted, worker>>

\* read_line returns a line and poll() dispatches it; a line of client.reconnect
\* discards what was received after it.
ReadMessage ==
    /\ Polling /\ inbox # <<>> /\ ~Throws(Head(inbox))
    /\ LET m == Head(inbox)
       IN  /\ \/ HandleDifficulty(m) \/ HandleNotify(m) \/ HandleReconnect(m)
              \/ HandleSubscribe(m) \/ HandleReply(m)
           /\ inbox' = IF m.kind = "reconnect" THEN <<>> ELSE Tail(inbox)
    /\ PollReturns
    /\ UNCHANGED <<conns, okSent, nextId, mid, ids, worker>>

-----------------------------------------------------------------------------
\* Fault: disconnect() leaves have_job_ set.
WatchdogKeepsJob ==
    /\ mpc = "watch" /\ stale
    /\ CloseConn /\ requests' = NoRequests
    /\ asked' = FALSE
    /\ work' = NoWork
    /\ mpc' = "loop"
    /\ UNCHANGED <<conns, okSent, nextId, mid, ids, xn1, sizeOK, job, haveJob, hadWork>>
    /\ UNCHANGED <<tries, stale, accepted, worker>>

\* Fault: the watchdog disconnects without clear_work().
WatchdogKeepsWork ==
    /\ mpc = "watch" /\ stale
    /\ CloseConn /\ requests' = NoRequests
    /\ haveJob' = FALSE /\ asked' = FALSE
    /\ mpc' = "loop"
    /\ UNCHANGED <<conns, okSent, nextId, mid, ids, xn1, sizeOK, job, work, hadWork>>
    /\ UNCHANGED <<tries, stale, accepted, worker>>

\* The watchdog: disconnect() and clear_work().
Watchdog ==
    /\ mpc = "watch" /\ stale
    /\ CloseConn /\ requests' = NoRequests
    /\ haveJob' = FALSE /\ asked' = FALSE
    /\ work' = NoWork
    /\ mpc' = "loop"
    /\ UNCHANGED <<conns, okSent, nextId, mid, ids, xn1, sizeOK, job, hadWork>>
    /\ UNCHANGED <<tries, stale, accepted, worker>>

WatchdogQuiet ==
    /\ mpc = "watch" /\ ~stale
    /\ mpc' = "loop"
    /\ UNCHANGED <<conn, pool, nextId, mid, ids, mining, asked, tries, stale, accepted, worker>>

-----------------------------------------------------------------------------
(* The worker that holds submit_mtx, perhaps still with a job that the     *)
(* main thread has cleared.                                                *)

SubmitBegin ==
    /\ mpc # "dead" /\ wpc = "idle" /\ hadWork /\ nextId + 1 < MaxId
    /\ wid' = nextId
    /\ wpc' = "inc"
    /\ UNCHANGED <<conn, pool, nextId, mid, ids, mining, asked, mpc, tries, stale, accepted>>

SubmitId ==
    /\ mpc # "dead" /\ wpc = "inc"
    /\ nextId' = wid + 1 /\ lastSubmitId' = wid
    /\ wpc' = "send"
    /\ UNCHANGED <<conn, pool, mid, subscribeId, authorizeId, mining, asked, mpc, tries>>
    /\ UNCHANGED <<stale, accepted, wid>>

SubmitSend ==
    /\ mpc # "dead" /\ wpc = "send"
    /\ Deliver("submit", wid)
    /\ mpc' \in IF SigPipe THEN {mpc, "dead"} ELSE {mpc}
    /\ wpc' = "idle" /\ wid' = 0
    /\ UNCHANGED <<conn, okSent, nextId, mid, ids, mining, asked, tries, stale, accepted>>

-----------------------------------------------------------------------------
(* The pool, the network and time, until the process ends.                 *)

Send(m) ==
    /\ mpc # "dead" /\ open /\ link = "up" /\ Len(inbox) < MaxInbox
    /\ inbox' = Append(inbox, m)
    /\ UNCHANGED <<open, link, conns, nextId, mid, ids, mining, asked, mpc, tries>>
    /\ UNCHANGED <<stale, accepted, worker>>

PoolAnswers(r, form) ==
    /\ requests[r] > 0 /\ form \in FormsOf[r.kind]
    /\ Send([kind |-> r.kind, id |-> r.id, form |-> form])
    /\ requests' = [requests EXCEPT ![r] = @ - 1]
    /\ okSent' = IF r.kind = "submit" /\ form = "good" THEN okSent + 1 ELSE okSent

PoolNotifies(kind, form) ==
    /\ form \in FormsOf[kind]
    /\ Send([kind |-> kind, id |-> 0, form |-> form])
    /\ UNCHANGED pool

\* The peer closes or resets the connection, or the network breaks it: only the
\* first part of what was sent is read after that, as in MoneroSession.
LinkDrops ==
    /\ mpc # "dead" /\ open /\ link = "up"
    /\ link' = "gone"
    /\ \E n \in 0 .. Len(inbox) : inbox' = SubSeq(inbox, 1, n)
    /\ UNCHANGED <<open, conns, pool, nextId, ids, mining, asked, mpc, mid, tries>>
    /\ UNCHANGED <<stale, accepted, worker>>

JobTimeout ==
    /\ mpc # "dead" /\ ~stale /\ stale' = TRUE
    /\ UNCHANGED <<conn, pool, nextId, mid, ids, mining, asked, mpc, tries, accepted, worker>>

-----------------------------------------------------------------------------
Main ==
    \/ SendSubscribe \/ ReadAuthorizeId \/ SendAuthorize
    \/ LoginDone \/ LoginFails \/ StillConnected \/ ReadNothing \/ ReadMessage
    \/ ReadThrows \/ Watchdog \/ WatchdogQuiet

Submit == SubmitBegin \/ SubmitId \/ SubmitSend

Environment ==
    \/ \E r \in Request, form \in Forms : PoolAnswers(r, form)
    \/ \E kind \in {"notify", "difficulty", "reconnect", "odd"}, form \in Forms :
          PoolNotifies(kind, form)
    \/ LinkDrops \/ JobTimeout

Next == Main \/ Connect \/ Submit \/ Environment

Spec == Init /\ [][Next]_vars

-----------------------------------------------------------------------------
\* Every variable has its type.
TypeOK ==
    /\ open \in BOOLEAN /\ link \in {"up", "gone"} /\ conns \in 0 .. MaxConns
    /\ inbox \in Seq(Message) /\ Len(inbox) <= MaxInbox
    /\ requests \in [Request -> Nat] /\ okSent \in Nat
    /\ nextId \in 1 .. MaxId
    /\ subscribeId \in 0 .. MaxId /\ authorizeId \in 0 .. MaxId
    /\ lastSubmitId \in 0 .. MaxId
    /\ xn1 \in 0 .. MaxConns /\ sizeOK \in BOOLEAN
    /\ job \in [from : 0 .. MaxConns, builds : BOOLEAN] /\ haveJob \in BOOLEAN
    /\ work \in [on : 0 .. MaxConns, job : 0 .. MaxConns, asked : BOOLEAN]
    /\ hadWork \in BOOLEAN /\ asked \in BOOLEAN
    /\ mpc \in MainAt /\ mid \in 0 .. MaxId
    /\ tries \in 0 .. LoginPolls /\ stale \in BOOLEAN /\ accepted \in Nat
    /\ wpc \in {"idle", "inc", "send"} /\ wid \in 0 .. MaxId

\* The workers are given a job of an earlier connection only where
\* client.reconnect ended that one: after any other end of a connection
\* have_job_ keeps a set_difficulty from reviving the old job.
NoRevivedJob == work # NoWork /\ ~work.asked => work.job = work.on

Contract == INSTANCE PoolContract
                WITH connected <- open, redirected <- asked, working <- work # NoWork,
                     granted <- okSent, credited <- accepted

\* The client is a PoolClient: the workers go on for a closed connection only
\* where client.reconnect closed it, and every accepted share the metrics count
\* is one the pool accepted, although replies are told apart by ids that can
\* collide.
KeepsContract == Contract!Spec

=============================================================================
