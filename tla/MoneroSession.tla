---------------------------- MODULE MoneroSession ----------------------------
(***************************************************************************)
(* One miner and its Monero pool: MoneroClient                             *)
(* (src/src/pool/monero_client.cpp) over TcpClient                         *)
(* (src/src/net/tcp_client.cpp), driven by the connect / poll / watchdog   *)
(* loop of cmd_run (src/src/app/main.cpp) on the main thread, while a      *)
(* worker thread submits shares through the same client.                   *)
(*                                                                         *)
(* next_id_ is a plain int that both threads increment: every increment is *)
(* split into its read and its write.  Time appears as two facts that      *)
(* become true at any moment: no job for kJobTimeout (stale) and 45 s      *)
(* since the last keepalive (keepDue).  The delays of the backoff are left *)
(* out: they only postpone the next attempt.                               *)
(***************************************************************************)
EXTENDS Naturals, Sequences, FiniteSets

CONSTANTS
    LoginPolls,  \* polls of connect() while it waits for the login (20)
    MaxId,       \* bound: request ids
    MaxInbox,    \* bound: messages on their way to the miner
    Posix        \* BOOLEAN: a send on a reset connection raises SIGPIPE

ASSUME SessionAssumption ==
    /\ LoginPolls \in Nat \ {0} /\ MaxId \in Nat \ {0} /\ MaxInbox \in Nat
    /\ Posix \in BOOLEAN

VARIABLES
    open,         \* conn_.is_open()
    link,         \* the TCP connection: "up", or "gone" once the peer left it
    inbox,        \* messages sent by the pool and not yet read
    requests,     \* external: how many of each request the pool has not answered
    authed,       \* external: the pool has accepted a login on this connection
    okSent,       \* external: shares the pool has accepted
    nextId,       \* next_id_
    loginId,      \* login_id_
    lastSubmitId, \* last_submit_id_
    loggedIn,     \* logged_in_ (and rpc_id_ not empty: they change together)
    mpc,          \* the main thread, see MainAt
    mid,          \* the value the main thread read from next_id_
    tries,        \* i: polls connect() has made
    stale,        \* now - last_job_at > kJobTimeout
    keepDue,      \* now - last_keepalive_ >= 45 s
    hasWork,      \* the worker pool has a job
    hadJob,       \* some job has been given to the workers
    accepted,     \* metrics.accepted()
    rejected,     \* metrics.rejected()
    wpc,          \* the submitting worker: "idle", "inc" or "send"
    wid,          \* the value it read from next_id_
    excused       \* history: a verdict has lost its submit, see VerdictsCounted

conn    == <<open, link, inbox>>
pool    == <<requests, authed, okSent>>
client  == <<loginId, lastSubmitId, loggedIn>>
clock   == <<stale, keepDue>>
counts  == <<accepted, rejected>>
jobs    == <<hasWork, hadJob>>
worker  == <<wpc, wid, excused>>
vars    == <<conn, pool, nextId, client, mpc, mid, tries, clock, jobs, counts, worker>>

\* An "odd" message is JSON of a shape handle() does not expect: an id that is
\* no number, a login answered with a null result.
Message == [kind : {"login", "submit", "keepalive", "job", "odd"}, id : 0 .. MaxId,
            ok : BOOLEAN, job : BOOLEAN]
Request == [kind : {"login", "submit", "keepalive"}, id : 0 .. MaxId]
NoRequests == [r \in Request |-> 0]

\* In the loop of cmd_run; in connect(), before the login is sent and in its
\* poll loop; in poll(), before the keepalive is sent and in read_line; at the
\* watchdog; or ended.
MainAt == {"loop", "loginId", "login", "poll", "keepId", "read", "watch", "dead"}

Init ==
    /\ open = FALSE /\ link = "gone" /\ inbox = <<>>
    /\ requests = NoRequests /\ authed = FALSE /\ okSent = 0
    /\ nextId = 1 /\ loginId = 0 /\ lastSubmitId = 0 /\ loggedIn = FALSE
    /\ mpc = "loop" /\ mid = 0 /\ tries = 0 /\ stale = FALSE /\ keepDue = FALSE
    /\ hasWork = FALSE /\ hadJob = FALSE /\ accepted = 0 /\ rejected = 0
    /\ wpc = "idle" /\ wid = 0 /\ excused = FALSE

-----------------------------------------------------------------------------
(* TcpClient, with what the kernel does with a request.                    *)

\* The request reaches a pool that is there; otherwise send_all returns an
\* error that nobody looks at, or nothing was open in the first place.
Deliver(kind, id) ==
    requests' = IF open /\ link = "up"
                THEN [requests EXCEPT ![[kind |-> kind, id |-> id]] = @ + 1] ELSE requests

\* TcpClient::connect drops what the last connection left in rx_.
OpenConn == open' = TRUE /\ link' = "up" /\ inbox' = <<>>

\* TcpClient::close.
CloseConn == open' = FALSE /\ link' = "gone" /\ inbox' = <<>>

\* send() without MSG_NOSIGNAL on a connection the peer has reset.
SigPipe == Posix /\ open /\ link = "gone"

\* A verdict the pool owes, or one that was sent and not yet read.
VerdictSent == \E i \in 1 .. Len(inbox) : inbox[i].kind = "submit"
Outstanding == VerdictSent \/ \E r \in Request : r.kind = "submit" /\ requests[r] > 0

-----------------------------------------------------------------------------
(* The main thread.                                                        *)

\* connect(): the TCP connection succeeds and next_id_ is read for the login.
\* When it does not succeed nothing changes and the loop will try again.
Connect ==
    /\ mpc = "loop" /\ ~open /\ nextId < MaxId
    /\ OpenConn
    /\ requests' = NoRequests /\ authed' = FALSE
    /\ mid' = nextId
    /\ mpc' = "loginId"
    /\ UNCHANGED <<okSent, nextId, client, tries, clock, jobs, counts, worker>>

\* login_id_ = next_id_++ is written and the login sent.  If the peer has gone
\* the send fails and connect() returns false, leaving the socket open.  A share
\* that took the same id meanwhile will have its verdict taken for the login's.
SendLogin ==
    /\ mpc = "loginId"
    /\ loginId' = mid /\ nextId' = mid + 1 /\ mid' = 0
    /\ Deliver("login", mid)
    /\ excused' = (excused \/ (mid = lastSubmitId /\ (Outstanding \/ wpc = "send")))
    /\ \/ mpc' = "login" /\ keepDue' = FALSE /\ tries' = 0
       \/ link = "gone" /\ mpc' = "loop" /\ UNCHANGED <<keepDue, tries>>
       \/ SigPipe /\ mpc' = "dead" /\ UNCHANGED <<keepDue, tries>>
    /\ UNCHANGED <<conn, authed, okSent, lastSubmitId, loggedIn, stale, jobs, counts, wpc, wid>>

\* The poll loop of connect() ends with logged_in_: last_job_at is reset.
LoginDone ==
    /\ mpc = "login" /\ loggedIn
    /\ stale' = FALSE
    /\ mpc' = "poll" /\ tries' = 0
    /\ UNCHANGED <<conn, pool, nextId, mid, client, keepDue, jobs, counts, worker>>

\* ... or without: connect() returns false and leaves the socket open.
LoginFails ==
    /\ mpc = "login" /\ ~loggedIn /\ tries = LoginPolls
    /\ mpc' = "loop" /\ tries' = 0
    /\ UNCHANGED <<conn, pool, nextId, mid, client, clock, jobs, counts, worker>>

\* The loop finds an open socket and goes on to poll.
StillConnected ==
    /\ mpc = "loop" /\ open
    /\ mpc' = "poll"
    /\ UNCHANGED <<conn, pool, nextId, client, mid, tries, clock, jobs, counts, worker>>

KeepaliveNow == keepDue /\ loggedIn /\ nextId < MaxId

\* Fault: connect() waits for the login without the bound on its polls.
ReadingForever ==
    \/ mpc = "read" \/ (mpc = "poll" /\ ~KeepaliveNow)
    \/ mpc = "login" /\ ~loggedIn

\* The main thread is about to call read_line: in the poll() of the loop, with no
\* keepalive to send, or in the one of connect(), which has none yet.
Reading ==
    \/ mpc = "read" \/ (mpc = "poll" /\ ~KeepaliveNow)
    \/ mpc = "login" /\ ~loggedIn /\ tries < LoginPolls

\* maybe_keepalive, at the start of poll(), reads next_id_ ...
Keepalive ==
    /\ mpc = "poll" /\ KeepaliveNow
    /\ keepDue' = FALSE
    /\ mid' = nextId
    /\ mpc' = "keepId"
    /\ UNCHANGED <<conn, pool, nextId, client, tries, stale, jobs, counts, worker>>

\* Fault: the keepalive takes its id from the counter through last_submit_id_.
SendKeepaliveTakesId ==
    /\ mpc = "keepId"
    /\ nextId' = mid + 1 /\ mid' = 0 /\ lastSubmitId' = mid
    /\ Deliver("keepalive", mid)
    /\ mpc' \in IF SigPipe THEN {"read", "dead"} ELSE {"read"}
    /\ UNCHANGED <<conn, authed, okSent, loginId, loggedIn, tries, clock, jobs, counts, worker>>

\* ... and sends; nobody looks at what send_json returns.
SendKeepalive ==
    /\ mpc = "keepId"
    /\ nextId' = mid + 1 /\ mid' = 0
    /\ Deliver("keepalive", mid)
    /\ mpc' \in IF SigPipe THEN {"read", "dead"} ELSE {"read"}
    /\ UNCHANGED <<conn, authed, okSent, client, tries, clock, jobs, counts, worker>>

\* Where poll() returns to: the watchdog, or the loop of connect().
PollReturns ==
    IF mpc = "login" THEN tries' = tries + 1 /\ UNCHANGED mpc
                     ELSE mpc' = "watch" /\ UNCHANGED tries

\* Fault: every poll() counts as a job for the watchdog.
ReadNothingIsAJob ==
    /\ Reading /\ inbox = <<>>
    /\ stale' = FALSE
    /\ PollReturns
    /\ UNCHANGED <<conn, pool, nextId, mid, client, keepDue, jobs, counts, worker>>

\* read_line finds nothing: the timeout passed, or recv() met the end of the
\* stream.  Neither closes the socket, so poll() returns is_open(), true.
ReadNothing ==
    /\ Reading /\ inbox = <<>>
    /\ PollReturns
    /\ UNCHANGED <<conn, pool, nextId, mid, client, clock, jobs, counts, worker>>

\* apply_job: a well-formed job reaches the workers through on_job, which
\* notes the time; a malformed one is dropped.
ApplyJob(wellFormed) ==
    IF wellFormed
    THEN hasWork' = TRUE /\ hadJob' = TRUE /\ stale' = FALSE
    ELSE UNCHANGED <<jobs, stale>>

\* handle(), for the message m.
HandleJob(m) ==
    /\ m.kind = "job" /\ ApplyJob(m.ok)
    /\ UNCHANGED <<loggedIn, counts>>

\* A result under the login's id is taken for the login's: only a real one
\* carries a session id.
HandleLogin(m) ==
    /\ m.kind # "job" /\ m.id = loginId
    /\ IF m.ok
       THEN loggedIn' = (m.kind = "login") /\ ApplyJob(m.job)
       ELSE UNCHANGED <<loggedIn, jobs, stale>>
    /\ UNCHANGED counts

\* Fault: a result without an error is a verdict in favour, whatever its status.
HandleVerdictNoStatus(m) ==
    /\ m.kind # "job" /\ m.id # loginId /\ m.id = lastSubmitId
    /\ IF m.ok
       THEN accepted' = accepted + 1 /\ UNCHANGED rejected
       ELSE rejected' = rejected + 1 /\ UNCHANGED accepted
    /\ UNCHANGED <<loggedIn, jobs, stale>>

\* Any reply under the id of the last submit is its verdict; only a result
\* with status OK, which a keepalive's has not, counts as accepted.
HandleVerdict(m) ==
    /\ m.kind # "job" /\ m.id # loginId /\ m.id = lastSubmitId
    /\ IF m.ok /\ m.kind = "submit"
       THEN accepted' = accepted + 1 /\ UNCHANGED rejected
       ELSE rejected' = rejected + 1 /\ UNCHANGED accepted
    /\ UNCHANGED <<loggedIn, jobs, stale>>

HandleOther(m) ==
    /\ m.kind # "job" /\ m.id # loginId /\ m.id # lastSubmitId
    /\ UNCHANGED <<loggedIn, jobs, stale, counts>>

\* read_line returns a line and poll() dispatches it.
ReadMessage ==
    /\ Reading
    /\ inbox # <<>> /\ Head(inbox).kind # "odd"
    /\ LET m == Head(inbox)
       IN  HandleJob(m) \/ HandleLogin(m) \/ HandleVerdict(m) \/ HandleOther(m)
    /\ inbox' = Tail(inbox)
    /\ PollReturns
    /\ UNCHANGED <<open, link, pool, nextId, mid, loginId, lastSubmitId, keepDue, worker>>

\* ... or the JSON library throws: nothing between handle() and main() catches
\* it, and cmd_run ends without its final persist().
ReadThrows ==
    /\ Reading
    /\ inbox # <<>> /\ Head(inbox).kind = "odd"
    /\ mpc' = "dead" /\ inbox' = Tail(inbox)
    /\ UNCHANGED <<open, link, pool, nextId, client, mid, tries, clock, jobs, counts, worker>>

\* Fault: disconnect() leaves logged_in_ set.
WatchdogKeepsLogin ==
    /\ mpc = "watch" /\ stale
    /\ CloseConn
    /\ requests' = NoRequests /\ authed' = FALSE
    /\ hasWork' = FALSE
    /\ mpc' = "loop" /\ excused' = (excused \/ VerdictSent)
    /\ UNCHANGED <<okSent, nextId, client, mid, tries, clock, hadJob, counts, wpc, wid>>

\* The watchdog: disconnect() and clear_work().
Watchdog ==
    /\ mpc = "watch" /\ stale
    /\ CloseConn /\ loggedIn' = FALSE
    /\ requests' = NoRequests /\ authed' = FALSE
    /\ hasWork' = FALSE
    /\ mpc' = "loop" /\ excused' = (excused \/ VerdictSent)
    /\ UNCHANGED <<okSent, nextId, loginId, lastSubmitId, mid, tries, clock, hadJob, counts, wpc, wid>>

WatchdogQuiet ==
    /\ mpc = "watch" /\ ~stale
    /\ mpc' = "loop"
    /\ UNCHANGED <<conn, pool, nextId, client, mid, tries, clock, jobs, counts, worker>>

-----------------------------------------------------------------------------
(* The worker that holds submit_mtx.  It may still have a job the main     *)
(* thread has already cleared.                                             *)

SubmitBegin ==
    /\ mpc # "dead" /\ wpc = "idle" /\ hadJob /\ nextId < MaxId
    /\ wid' = nextId
    /\ wpc' = "inc"
    /\ UNCHANGED <<conn, pool, nextId, client, mpc, mid, tries, clock, jobs, counts, excused>>

\* last_submit_id_ is the only id remembered: an earlier verdict that is still
\* out will not be recognised, nor one whose id a login has taken meanwhile.
SubmitId ==
    /\ mpc # "dead" /\ wpc = "inc"
    /\ nextId' = wid + 1 /\ lastSubmitId' = wid
    /\ excused' = (excused \/ Outstanding \/ wid = loginId)
    /\ wpc' = "send"
    /\ UNCHANGED <<conn, pool, loginId, loggedIn, mpc, mid, tries, clock, jobs, counts, wid>>

SubmitSend ==
    /\ mpc # "dead" /\ wpc = "send"
    /\ Deliver("submit", wid)
    /\ mpc' \in IF SigPipe THEN {mpc, "dead"} ELSE {mpc}
    /\ wpc' = "idle" /\ wid' = 0
    /\ UNCHANGED <<conn, authed, okSent, nextId, client, mid, tries, clock, jobs, counts, excused>>

-----------------------------------------------------------------------------
(* The pool, the network and time.                                         *)

PoolAnswers(r, ok, job) ==
    /\ open /\ link = "up" /\ requests[r] > 0 /\ Len(inbox) < MaxInbox
    /\ job => r.kind = "login" /\ ok
    /\ inbox' = Append(inbox, [kind |-> r.kind, id |-> r.id, ok |-> ok, job |-> job])
    /\ requests' = [requests EXCEPT ![r] = @ - 1]
    /\ authed' = (authed \/ (r.kind = "login" /\ ok))
    /\ okSent' = IF r.kind = "submit" /\ ok THEN okSent + 1 ELSE okSent
    /\ UNCHANGED <<open, link, nextId, client, mpc, mid, tries, clock, jobs, counts, worker>>

PoolSendsJob(wellFormed) ==
    /\ open /\ link = "up" /\ Len(inbox) < MaxInbox
    /\ inbox' = Append(inbox, [kind |-> "job", id |-> 0, ok |-> wellFormed, job |-> FALSE])
    /\ UNCHANGED <<open, link, pool, nextId, client, mpc, mid, tries, clock, jobs, counts, worker>>

PoolSendsOdd ==
    /\ open /\ link = "up" /\ Len(inbox) < MaxInbox
    /\ inbox' = Append(inbox, [kind |-> "odd", id |-> 0, ok |-> FALSE, job |-> FALSE])
    /\ UNCHANGED <<open, link, pool, nextId, client, mpc, mid, tries, clock, jobs, counts, worker>>

\* The peer closes or resets the connection, or the network breaks it.  Of what
\* was sent only the first part is read after that: all of it when the peer
\* closed, less when what was under way is lost.
LinkDrops ==
    /\ open /\ link = "up"
    /\ link' = "gone"
    /\ \E n \in 0 .. Len(inbox) :
          /\ inbox' = SubSeq(inbox, 1, n)
          /\ excused' = (excused \/ \E i \in n + 1 .. Len(inbox) : inbox[i].kind = "submit")
    /\ UNCHANGED <<open, pool, nextId, client, mpc, mid, tries, clock, jobs, counts, wpc, wid>>

JobTimeout ==
    /\ ~stale /\ stale' = TRUE
    /\ UNCHANGED <<conn, pool, nextId, client, mpc, mid, tries, keepDue, jobs, counts, worker>>

KeepaliveTimeout ==
    /\ ~keepDue /\ keepDue' = TRUE
    /\ UNCHANGED <<conn, pool, nextId, client, mpc, mid, tries, stale, jobs, counts, worker>>

-----------------------------------------------------------------------------
Main ==
    \/ SendLogin \/ LoginDone \/ LoginFails \/ StillConnected
    \/ Keepalive \/ SendKeepalive
    \/ ReadNothing \/ ReadMessage \/ ReadThrows \/ Watchdog \/ WatchdogQuiet

Submit == SubmitBegin \/ SubmitId \/ SubmitSend

Environment ==
    \/ \E r \in Request, ok \in BOOLEAN, job \in BOOLEAN : PoolAnswers(r, ok, job)
    \/ \E wellFormed \in BOOLEAN : PoolSendsJob(wellFormed)
    \/ PoolSendsOdd \/ LinkDrops \/ JobTimeout \/ KeepaliveTimeout

Next == Main \/ Connect \/ Submit \/ Environment

Spec == Init /\ [][Next]_vars

\* The main thread runs and time passes; the pool, the network, a connection
\* attempt and the workers owe nothing.
Fairness == WF_vars(Main) /\ WF_vars(JobTimeout)

FairSpec == Spec /\ Fairness

-----------------------------------------------------------------------------
\* Every variable has its type.
TypeOK ==
    /\ open \in BOOLEAN /\ link \in {"up", "gone"}
    /\ inbox \in Seq(Message) /\ Len(inbox) <= MaxInbox
    /\ requests \in [Request -> Nat] /\ authed \in BOOLEAN /\ okSent \in Nat
    /\ nextId \in 1 .. MaxId /\ loginId \in 0 .. MaxId /\ lastSubmitId \in 0 .. MaxId
    /\ loggedIn \in BOOLEAN
    /\ mpc \in MainAt /\ mid \in 0 .. MaxId
    /\ tries \in 0 .. LoginPolls
    /\ stale \in BOOLEAN /\ keepDue \in BOOLEAN
    /\ hasWork \in BOOLEAN /\ hadJob \in BOOLEAN
    /\ accepted \in Nat /\ rejected \in Nat
    /\ wpc \in {"idle", "inc", "send"} /\ wid \in 0 .. MaxId
    /\ excused \in BOOLEAN

\* logged_in_ is never left over from an earlier connection: it means that the
\* pool has accepted a login on this one.
LoggedInIsReal == loggedIn => authed

Contract == INSTANCE PoolContract
                WITH connected <- open, redirected <- FALSE, working <- hasWork,
                     granted <- okSent, credited <- accepted

\* The client is a PoolClient: the workers have a job only while there is a
\* connection to submit its shares to, and every accepted share the metrics and
\* the lifetime totals count is one the pool accepted, although ids can collide
\* through the race on next_id_ and replies are told apart by their id alone.
KeepsContract == Contract!Spec

\* An accepted share goes uncounted only if the next one was submitted, or the
\* connection lost or given up, before its verdict was read, or if its id is also
\* that of a login that raced with it.
VerdictsCounted == ~excused /\ ~VerdictSent /\ mpc # "dead" => accepted = okSent

\* A connection the peer has left is always closed in the end, so that the
\* loop connects again, unless the process dies: the watchdog sees to it.  The
\* process may die of a send on that connection, which raises SIGPIPE on POSIX.
Recovers == (open /\ link = "gone") ~> (~open \/ mpc = "dead")

=============================================================================
