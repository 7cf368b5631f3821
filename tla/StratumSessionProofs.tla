------------------------ MODULE StratumSessionProofs ------------------------
(***************************************************************************)
(* The Stratum session, for any number of connections, shares and messages *)
(* under way: what outlives a connection never reaches the workers of the  *)
(* next one but where client.reconnect asked for it, and the client is a   *)
(* PoolClient.                                                             *)
(***************************************************************************)
EXTENDS StratumSession, SequenceTheorems, VerdictQueue

-----------------------------------------------------------------------------
(* Types.                                                                  *)

\* The increment a thread has begun stays within the bound on ids.
IdRoom ==
    /\ wpc = "inc" => wid + 1 < MaxId
    /\ mpc = "subscribeId" => mid + 1 < MaxId
    /\ mpc = "subscribed" => nextId < MaxId
    /\ mpc = "authorizeId" => mid < MaxId

Typed == TypeOK /\ IdRoom

LEMMA InboxTypes ==
    ASSUME TypeOK
    PROVE  /\ \A m \in Message : Append(inbox, m) \in Seq(Message)
           /\ \A m \in Message : Len(Append(inbox, m)) = Len(inbox) + 1
           /\ inbox # <<>> => Head(inbox) \in Message /\ Tail(inbox) \in Seq(Message)
           /\ inbox # <<>> => Len(Tail(inbox)) = Len(inbox) - 1
           /\ inbox # <<>> => Head(inbox) = inbox[1]
           /\ <<>> \in Seq(Message) /\ Len(<<>>) = 0 /\ Len(inbox) \in Nat
  BY HeadTailProperties, EmptySeq DEF TypeOK

\* What a lost connection leaves to read.
LEMMA InboxPrefix ==
    ASSUME TypeOK, NEW n \in 0 .. Len(inbox), inbox' = SubSeq(inbox, 1, n)
    PROVE  /\ inbox' \in Seq(Message) /\ Len(inbox') = n /\ Len(inbox') <= Len(inbox)
           /\ \A i \in 1 .. n : inbox'[i] = inbox[i]
  BY SubSeqProperties DEF TypeOK

\* A request is sent, or gets lost with its connection.
LEMMA Delivered ==
    ASSUME TypeOK, NEW k \in {"subscribe", "submit"}, NEW id \in 0 .. MaxId, Deliver(k, id)
    PROVE  /\ requests' \in [Request -> Nat]
           /\ \A r \in Request : r.kind # k \/ r.id # id => requests'[r] = requests[r]
<1>1. [kind |-> k, id |-> id] \in Request
  BY DEF Request
<1>2. requests \in [Request -> Nat]
  BY DEF TypeOK
<1> QED
  BY <1>1, <1>2 DEF Deliver

LEMMA NoRequestsType == NoRequests \in [Request -> Nat] /\ \A r \in Request : NoRequests[r] = 0
  BY DEF NoRequests

\* What rebuild_job gives to the workers.
Built(j) == [on |-> conns, job |-> j.from, asked |-> asked]

LEMMA RebuildTypes ==
    ASSUME TypeOK, NEW j \in [from : 0 .. MaxConns, builds : BOOLEAN], RebuildJob(j)
    PROVE  /\ stale' \in BOOLEAN /\ hadWork' \in BOOLEAN
           /\ work' \in [on : 0 .. MaxConns, job : 0 .. MaxConns, asked : BOOLEAN]
           /\ work' = work \/ work' = Built(j)
<1>1. stale' \in BOOLEAN /\ hadWork' \in BOOLEAN
  BY DEF TypeOK, RebuildJob
<1>2. work' = work \/ work' = Built(j)
  BY DEF RebuildJob, Built
<1>3. Built(j) \in [on : 0 .. MaxConns, job : 0 .. MaxConns, asked : BOOLEAN]
  BY DEF TypeOK, Built
<1> QED
  BY <1>1, <1>2, <1>3 DEF TypeOK

LEMMA ReadTypes ==
    ASSUME TypeOK, NEW m \in Message,
           \/ HandleDifficulty(m) \/ HandleNotify(m) \/ HandleReconnect(m)
           \/ HandleSubscribe(m) \/ HandleReply(m)
    PROVE  /\ open' \in BOOLEAN /\ link' \in {"up", "gone"} /\ requests' \in [Request -> Nat]
           /\ xn1' \in 0 .. MaxConns /\ sizeOK' \in BOOLEAN
           /\ job' \in [from : 0 .. MaxConns, builds : BOOLEAN] /\ haveJob' \in BOOLEAN
           /\ work' \in [on : 0 .. MaxConns, job : 0 .. MaxConns, asked : BOOLEAN]
           /\ hadWork' \in BOOLEAN /\ asked' \in BOOLEAN
           /\ stale' \in BOOLEAN /\ accepted' \in Nat
<1> USE DEF TypeOK, mining
<1>1. CASE HandleDifficulty(m)
  BY <1>1, RebuildTypes DEF HandleDifficulty
<1>2. CASE HandleNotify(m)
  <2> DEFINE j == [from |-> conns, builds |-> m.form = "good"]
  <2>1. j \in [from : 0 .. MaxConns, builds : BOOLEAN]
    OBVIOUS
  <2>2. CASE m.form = "bad"
    BY <1>2, <2>2 DEF HandleNotify
  <2>3. CASE m.form # "bad"
    <3>1. job' = j /\ haveJob' \in BOOLEAN /\ RebuildJob(j)
      BY <1>2, <2>3 DEF HandleNotify
    <3> HIDE DEF j
    <3> QED
      BY <1>2, <2>1, <3>1, RebuildTypes DEF HandleNotify
  <2> QED
    BY <2>2, <2>3
<1>3. CASE HandleReconnect(m)
  <2>1. open' \in BOOLEAN /\ asked' \in BOOLEAN
    BY <1>3 DEF HandleReconnect
  <2> QED
    BY <1>3, <2>1, NoRequestsType DEF HandleReconnect
<1>4. CASE HandleSubscribe(m)
  <2>1. sizeOK' \in BOOLEAN
    <3>1. CASE m.kind = "subscribe" /\ m.form # "bad"
      <4>1. sizeOK' = (m.form # "negative" /\ (m.form = "part" => sizeOK))
        BY <1>4, <3>1 DEF HandleSubscribe
      <4> QED
        BY <4>1, Zenon
    <3>2. CASE ~(m.kind = "subscribe" /\ m.form # "bad")
      BY <1>4, <3>2 DEF HandleSubscribe
    <3> QED
      BY <3>1, <3>2
  <2>2. xn1' \in 0 .. MaxConns
    BY <1>4, StratumAssumption DEF HandleSubscribe
  <2> QED
    BY <1>4, <2>1, <2>2 DEF HandleSubscribe
<1>5. CASE HandleReply(m)
  BY <1>5 DEF HandleReply
<1> QED
  BY <1>1, <1>2, <1>3, <1>4, <1>5

LEMMA TypeStep == Typed /\ [Next]_vars => Typed'
<1> SUFFICES ASSUME TypeOK, IdRoom, [Next]_vars PROVE Typed'
  BY DEF Typed
<1> USE StratumAssumption
    DEF Typed, TypeOK, IdRoom, MainAt, conn, pool, ids, mining, worker
<1>1. CASE Connect
  <2>1. open' \in BOOLEAN /\ link' = "up" /\ inbox' = <<>>
    BY <1>1 DEF Connect, OpenConn
  <2>2. requests' \in [Request -> Nat]
    BY <1>1, NoRequestsType DEF Connect
  <2> QED
    BY <1>1, <2>1, <2>2, InboxTypes DEF Connect
<1>2. CASE SendSubscribe \/ ReadAuthorizeId \/ SendAuthorize
  <2>1. CASE SendSubscribe
    <3>1. requests' \in [Request -> Nat]
      BY <2>1, Delivered DEF SendSubscribe
    <3>2. mpc' \in {"subscribed", "loop", "dead"}
      BY <2>1 DEF SendSubscribe, SendInConnect
    <3> QED
      BY <2>1, <3>1, <3>2 DEF SendSubscribe
  <2>2. CASE ReadAuthorizeId
    BY <2>2 DEF ReadAuthorizeId
  <2>3. CASE SendAuthorize
    <3>1. mpc' \in {"login", "loop", "dead"}
      BY <2>3 DEF SendAuthorize, SendInConnect
    <3> QED
      BY <2>3, <3>1 DEF SendAuthorize
  <2> QED
    BY <1>2, <2>1, <2>2, <2>3
<1>3. CASE LoginDone \/ LoginFails \/ StillConnected \/ WatchdogQuiet
  <2>1. stale' \in BOOLEAN
    BY <1>3 DEF LoginDone, LoginFails, StillConnected, WatchdogQuiet
  <2>2. tries' \in 0 .. LoginPolls /\ mpc' \in {"poll", "loop"}
    <3>1. CASE LoginDone
      BY <3>1 DEF LoginDone
    <3>2. CASE LoginFails
      BY <3>2 DEF LoginFails
    <3>3. CASE StillConnected
      BY <3>3 DEF StillConnected
    <3>4. CASE WatchdogQuiet
      BY <3>4 DEF WatchdogQuiet
    <3> QED
      BY <1>3, <3>1, <3>2, <3>3, <3>4
  <2>3. UNCHANGED <<conn, pool, nextId, mid, ids, mining, asked, accepted, worker>>
    BY <1>3 DEF LoginDone, LoginFails, StillConnected, WatchdogQuiet
  <2> QED
    BY <2>1, <2>2, <2>3
<1>4. CASE ReadNothing
  BY <1>4 DEF ReadNothing, PollReturns, Polling
<1>5. CASE ReadMessage
  <2>1. PICK m \in Message :
          /\ m = Head(inbox)
          /\ \/ HandleDifficulty(m) \/ HandleNotify(m) \/ HandleReconnect(m)
             \/ HandleSubscribe(m) \/ HandleReply(m)
    BY <1>5, InboxTypes DEF ReadMessage
  <2>2. tries' \in 0 .. LoginPolls /\ mpc' \in {mpc, "watch"}
    BY <1>5 DEF ReadMessage, PollReturns, Polling
  <2>3. inbox' \in Seq(Message) /\ Len(inbox') <= MaxInbox
    BY <1>5, InboxTypes DEF ReadMessage
  <2> QED
    BY <1>5, <2>1, <2>2, <2>3, ReadTypes DEF ReadMessage
<1>6. CASE ReadThrows
  BY <1>6, InboxTypes DEF ReadThrows
<1>7. CASE Watchdog
  <2>1. /\ open' \in BOOLEAN /\ haveJob' \in BOOLEAN /\ asked' \in BOOLEAN
        /\ link' = "gone" /\ inbox' = <<>>
    BY <1>7 DEF Watchdog, CloseConn
  <2>2. work' \in [on : 0 .. MaxConns, job : 0 .. MaxConns, asked : BOOLEAN]
    BY <1>7 DEF Watchdog, NoWork
  <2> QED
    BY <1>7, <2>1, <2>2, InboxTypes, NoRequestsType DEF Watchdog
<1>8. CASE SubmitBegin
  BY <1>8 DEF SubmitBegin
<1>9. CASE SubmitId
  BY <1>9 DEF SubmitId
<1>10. CASE SubmitSend
  <2>1. requests' \in [Request -> Nat]
    BY <1>10, Delivered DEF SubmitSend
  <2> QED
    BY <1>10, <2>1 DEF SubmitSend
<1>11. ASSUME NEW m \in Message, Send(m), requests' \in [Request -> Nat], okSent' \in Nat
       PROVE  Typed'
  <2>1. inbox' \in Seq(Message) /\ Len(inbox') <= MaxInbox
    BY <1>11, InboxTypes DEF Send
  <2> QED
    BY <1>11, <2>1 DEF Send
<1>12. ASSUME NEW r \in Request, NEW form \in Forms, PoolAnswers(r, form)
       PROVE  Typed'
  <2>1. [kind |-> r.kind, id |-> r.id, form |-> form] \in Message
    BY DEF Message, Request, Kinds
  <2>2. requests' \in [Request -> Nat] /\ okSent' \in Nat
    BY <1>12 DEF PoolAnswers
  <2> QED
    BY <1>11, <1>12, <2>1, <2>2 DEF PoolAnswers
<1>13. ASSUME NEW kind \in {"notify", "difficulty", "reconnect", "odd"}, NEW form \in Forms,
              PoolNotifies(kind, form)
       PROVE  Typed'
  <2>1. [kind |-> kind, id |-> 0, form |-> form] \in Message
    BY DEF Message, Kinds
  <2> QED
    BY <1>11, <1>13, <2>1 DEF PoolNotifies
<1>14. CASE LinkDrops
  <2>1. PICK n \in 0 .. Len(inbox) : inbox' = SubSeq(inbox, 1, n)
    BY <1>14 DEF LinkDrops
  <2>2. inbox' \in Seq(Message) /\ Len(inbox') <= MaxInbox
    BY <2>1, InboxPrefix, InboxTypes
  <2> QED
    BY <1>14, <2>2 DEF LinkDrops
<1>15. CASE JobTimeout
  <2>1. stale' \in BOOLEAN
    BY <1>15 DEF JobTimeout
  <2> QED
    BY <1>15, <2>1 DEF JobTimeout
<1>16. CASE UNCHANGED vars
  BY <1>16 DEF vars
<1> QED
  BY <1>1, <1>2, <1>3, <1>4, <1>5, <1>6, <1>7, <1>8, <1>9, <1>10, <1>12, <1>13, <1>14,
     <1>15, <1>16
     DEF Next, Main, Submit, Environment

LEMMA TypeInvariant == Spec => []Typed
<1>1. Init => Typed
  <2> SUFFICES ASSUME Init PROVE Typed
    OBVIOUS
  <2>1. /\ open \in BOOLEAN /\ sizeOK \in BOOLEAN /\ haveJob \in BOOLEAN
        /\ hadWork \in BOOLEAN /\ asked \in BOOLEAN
        /\ stale \in BOOLEAN
    BY DEF Init
  <2>2. /\ job \in [from : 0 .. MaxConns, builds : BOOLEAN]
        /\ work \in [on : 0 .. MaxConns, job : 0 .. MaxConns, asked : BOOLEAN]
    BY StratumAssumption DEF Init, NoJob, NoWork
  <2> QED
    BY <2>1, <2>2, StratumAssumption, EmptySeq, NoRequestsType
       DEF Init, Typed, TypeOK, IdRoom, MainAt
<1> QED
  BY <1>1, TypeStep, PTL DEF Spec

\* Every variable of the Stratum session has its type: no id leaves its range,
\* although two threads increment next_id_ without a lock.
THEOREM StratumTypeCorrect == Spec => []TypeOK
<1>1. Typed => TypeOK
  BY DEF Typed
<1> QED
  BY <1>1, TypeInvariant, PTL

-----------------------------------------------------------------------------
(* NoRevivedJob.  connect() does not wait for a second subscription, so    *)
(* that have_job_ must be known of the connection that is open now.        *)

\* poll() is called on an open socket, and nothing is left of a closed one.
SocketOK ==
    /\ mpc \in {"subscribeId", "subscribed", "authorizeId", "poll"} => open
    /\ mpc = "login" /\ xn1 # 0 => open
    /\ ~open => inbox = <<>>
    /\ open => conns > 0

\* What was said on this connection is told from what was said on an earlier one.
ConnectionOK ==
    /\ ~open /\ ~asked => ~haveJob
    /\ haveJob /\ ~asked => job.from = conns

\* The answer to a subscription comes under the id of this connection's, and not
\* before it was sent.
SubscribeOK ==
    /\ \A r \in Request : r.kind = "subscribe" /\ requests[r] # 0 =>
          r.id = subscribeId /\ mpc # "subscribeId"
    /\ \A i \in 1 .. Len(inbox) : inbox[i].kind = "subscribe" =>
          inbox[i].id = subscribeId /\ mpc # "subscribeId"

SessionOK == SocketOK /\ ConnectionOK /\ SubscribeOK /\ NoRevivedJob

\* What the pool sends is put behind what it has sent before.
LEMMA InboxAppend ==
    ASSUME TypeOK, NEW m \in Message, inbox' = Append(inbox, m)
    PROVE  /\ Len(inbox') = Len(inbox) + 1 /\ inbox'[Len(inbox) + 1] = m
           /\ \A i \in 1 .. Len(inbox) : inbox'[i] = inbox[i]
  BY DEF TypeOK

\* poll() takes what was sent first.
LEMMA InboxTail ==
    ASSUME TypeOK, inbox # <<>>, inbox' = Tail(inbox)
    PROVE  /\ Len(inbox') = Len(inbox) - 1 /\ Len(inbox) > 0 /\ Head(inbox) = inbox[1]
           /\ \A i \in 1 .. Len(inbox) - 1 : inbox'[i] = inbox[i + 1]
  BY HeadTailProperties, EmptySeq DEF TypeOK

LEMMA InboxEmpty == inbox' = <<>> => Len(inbox') = 0
  OBVIOUS

\* A job that is built is built for the connection that is open.
LEMMA RebuildOK ==
    ASSUME SessionOK, open, NEW j, RebuildJob(j), ~asked => j.from = conns
    PROVE  (work' = work \/ work' # NoWork) /\ NoRevivedJob'
<1>1. CASE work' = work
  BY <1>1 DEF SessionOK, NoRevivedJob
<1>2. CASE work' = Built(j)
  <2>1. work'.on = conns /\ work'.job = j.from /\ work'.asked = asked
    BY <1>2 DEF Built
  <2>2. conns # 0 /\ NoWork.on = 0
    BY DEF SessionOK, SocketOK, NoWork
  <2> QED
    BY <2>1, <2>2 DEF SessionOK, ConnectionOK, NoRevivedJob
<1> QED
  BY <1>1, <1>2 DEF RebuildJob, Built

LEMMA SessionStays ==
    ASSUME SessionOK, UNCHANGED <<open, conns, inbox, requests, subscribeId>>,
           UNCHANGED <<xn1, job, haveJob, work, asked>>,
           mpc' = mpc \/ mpc' \in {"loop", "watch", "dead"} \/ (mpc' = "poll" /\ open)
    PROVE  SessionOK'
  BY DEF SessionOK, SocketOK, ConnectionOK, SubscribeOK, NoRevivedJob

\* What a line changes but for the inbox and the place poll() returns to.
ReadFacts(m) ==
    /\ \/ UNCHANGED <<open, requests>>
       \/ ~open' /\ asked' /\ m.kind = "reconnect" /\ requests' = NoRequests
    /\ ConnectionOK' /\ NoRevivedJob'
    /\ xn1' # xn1 => open'

LEMMA ReadOK ==
    ASSUME Typed, SessionOK, open, conns' = conns, NEW m,
           \/ HandleDifficulty(m) \/ HandleNotify(m) \/ HandleReconnect(m)
           \/ HandleSubscribe(m) \/ HandleReply(m)
    PROVE  ReadFacts(m)
<1> USE DEF ReadFacts, ConnectionOK, mining
<1>0. ConnectionOK /\ NoRevivedJob
  BY DEF SessionOK
<1>1. CASE HandleDifficulty(m)
  <2>1. UNCHANGED <<open, requests, xn1, job, haveJob, asked>>
    BY <1>1 DEF HandleDifficulty
  <2>2. NoRevivedJob'
    <3>1. CASE haveJob
      BY <1>0, <1>1, <3>1, RebuildOK DEF HandleDifficulty
    <3>2. CASE ~haveJob
      BY <1>0, <1>1, <3>2 DEF HandleDifficulty, NoRevivedJob
    <3> QED
      BY <3>1, <3>2
  <2> QED
    BY <1>0, <2>1, <2>2
<1>2. CASE HandleNotify(m)
  <2>1. UNCHANGED <<open, requests, xn1, asked>>
    BY <1>2 DEF HandleNotify
  <2>2. CASE m.form = "bad"
    BY <1>0, <1>2, <2>1, <2>2 DEF HandleNotify, NoRevivedJob
  <2>3. CASE m.form # "bad"
    <3>1. PICK j : j.from = conns /\ job' = j /\ RebuildJob(j)
      BY <1>2, <2>3 DEF HandleNotify
    <3> QED
      BY <1>0, <2>1, <3>1, RebuildOK
  <2> QED
    BY <2>2, <2>3
<1>3. CASE HandleReconnect(m)
  BY <1>0, <1>3 DEF HandleReconnect, NoRevivedJob
<1>4. CASE HandleSubscribe(m)
  <2>1. UNCHANGED <<open, requests, job, haveJob, work, asked>>
    BY <1>4 DEF HandleSubscribe
  <2> QED
    BY <1>0, <2>1 DEF NoRevivedJob
<1>5. CASE HandleReply(m)
  BY <1>0, <1>5 DEF HandleReply, NoRevivedJob
<1> QED
  BY <1>1, <1>2, <1>3, <1>4, <1>5

LEMMA SessionStep == Typed /\ SessionOK /\ [Next]_vars => SessionOK'
<1> SUFFICES ASSUME Typed, TypeOK, SessionOK, [Next]_vars PROVE SessionOK'
  BY DEF Typed
<1> USE DEF conn, pool, ids, mining, worker
<1>0. Len(inbox) \in Nat /\ (Len(inbox) > 0 => inbox # <<>>) /\ conns \in Nat
  BY InboxTypes, StratumAssumption DEF TypeOK
<1>1. CASE Connect
  <2>1. /\ open' /\ inbox' = <<>> /\ conns' = conns + 1 /\ ~open
        /\ mpc' = "subscribeId" /\ UNCHANGED <<xn1, job, haveJob, work, asked>>
        /\ requests' = NoRequests
    BY <1>1 DEF Connect, OpenConn
  <2>2. SubscribeOK'
    BY <2>1, InboxEmpty, NoRequestsType DEF SubscribeOK
  <2>3. SocketOK' /\ ConnectionOK'
    BY <1>0, <2>1 DEF SessionOK, SocketOK, ConnectionOK
  <2> QED
    BY <2>1, <2>2, <2>3 DEF SessionOK, NoRevivedJob
<1>15. CASE SendSubscribe
  <2>1. /\ mpc = "subscribeId" /\ mpc' \in {"subscribed", "loop", "dead"}
        /\ subscribeId' = mid /\ Deliver("subscribe", mid)
        /\ UNCHANGED <<open, conns, inbox, mining, asked>>
    BY <1>15 DEF SendSubscribe, SendInConnect
  <2>2. \A r \in Request : r.kind = "subscribe" /\ requests'[r] # 0 => r.id = mid
    <3>1. mid \in 0 .. MaxId /\ \A r \in Request : r.kind = "subscribe" => requests[r] = 0
      BY <2>1 DEF TypeOK, SessionOK, SubscribeOK
    <3> QED
      BY <2>1, <3>1, Delivered
  <2>3. SubscribeOK'
    BY <2>1, <2>2 DEF SessionOK, SubscribeOK
  <2>4. SocketOK' /\ ConnectionOK'
    BY <2>1 DEF SessionOK, SocketOK, ConnectionOK
  <2> QED
    BY <2>1, <2>3, <2>4 DEF SessionOK, NoRevivedJob
<1>16. CASE ReadAuthorizeId \/ SendAuthorize
  <2>1. /\ UNCHANGED <<open, conns, inbox, requests, subscribeId>>
        /\ UNCHANGED <<xn1, job, haveJob, work, asked>>
        /\ mpc \in {"subscribed", "authorizeId"}
        /\ mpc' \in {"authorizeId", "login", "loop", "dead"} /\ (mpc' = "login" => mpc = "authorizeId")
    BY <1>16 DEF ReadAuthorizeId, SendAuthorize, SendInConnect
  <2>2. SocketOK' /\ ConnectionOK' /\ SubscribeOK' /\ NoRevivedJob'
    BY <2>1 DEF SessionOK, SocketOK, ConnectionOK, SubscribeOK, NoRevivedJob
  <2> QED
    BY <2>2 DEF SessionOK
<1>2. CASE LoginDone
  BY <1>2, SessionStays DEF LoginDone, SessionOK, SocketOK
<1>3. CASE LoginFails \/ StillConnected \/ WatchdogQuiet
  BY <1>3, SessionStays DEF LoginFails, StillConnected, WatchdogQuiet
<1>4. CASE ReadNothing
  BY <1>4, SessionStays DEF ReadNothing, PollReturns, Polling
<1>5. CASE ReadMessage
  <2>1. /\ open /\ inbox # <<>> /\ UNCHANGED <<conns, subscribeId>>
        /\ mpc' = "watch" \/ (mpc' = mpc /\ mpc = "login" /\ xn1 = 0)
    BY <1>5 DEF ReadMessage, Polling, PollReturns, SessionOK, SocketOK
  <2>2. PICK m : /\ m = Head(inbox)
                 /\ \/ HandleDifficulty(m) \/ HandleNotify(m) \/ HandleReconnect(m)
                    \/ HandleSubscribe(m) \/ HandleReply(m)
                 /\ inbox' = IF m.kind = "reconnect" THEN <<>> ELSE Tail(inbox)
    BY <1>5 DEF ReadMessage
  <2>3. ReadFacts(m)
    BY <2>1, <2>2, ReadOK
  <2>4. SubscribeOK'
    <3>1. requests' = requests \/ requests' = NoRequests
      BY <2>3 DEF ReadFacts
    <3>2. CASE inbox' = <<>>
      BY <2>1, <3>1, <3>2, InboxEmpty, NoRequestsType DEF SessionOK, SubscribeOK
    <3>3. CASE inbox' = Tail(inbox)
      BY <1>0, <2>1, <3>1, <3>3, InboxTail, NoRequestsType DEF SessionOK, SubscribeOK
    <3> QED
      BY <2>2, <3>2, <3>3
  <2>5. SocketOK'
    BY <2>1, <2>2, <2>3 DEF SessionOK, SocketOK, ReadFacts
  <2> QED
    BY <2>3, <2>4, <2>5 DEF SessionOK, ReadFacts
<1>6. CASE ReadThrows
  <2>1. /\ inbox # <<>> /\ inbox' = Tail(inbox) /\ mpc' = "dead" /\ open
        /\ UNCHANGED <<open, conns, requests, subscribeId, mining, asked>>
    BY <1>6 DEF ReadThrows, Polling, SessionOK, SocketOK
  <2>2. SubscribeOK'
    BY <1>0, <2>1, InboxTail DEF SessionOK, SubscribeOK
  <2>3. SocketOK' /\ ConnectionOK'
    BY <2>1 DEF SessionOK, SocketOK, ConnectionOK
  <2> QED
    BY <2>1, <2>2, <2>3 DEF SessionOK, NoRevivedJob
<1>7. CASE Watchdog
  <2>1. /\ ~open' /\ inbox' = <<>> /\ requests' = NoRequests /\ ~haveJob' /\ mpc' = "loop"
        /\ work' = NoWork /\ UNCHANGED <<conns, subscribeId, xn1, job>>
    BY <1>7 DEF Watchdog, CloseConn
  <2>2. SubscribeOK'
    BY <2>1, InboxEmpty, NoRequestsType DEF SubscribeOK
  <2>3. SocketOK' /\ ConnectionOK'
    BY <2>1 DEF SessionOK, SocketOK, ConnectionOK
  <2> QED
    BY <2>1, <2>2, <2>3 DEF SessionOK, NoRevivedJob, NoWork
<1>8. CASE SubmitBegin \/ SubmitId
  BY <1>8, SessionStays DEF SubmitBegin, SubmitId, SessionOK, SocketOK
<1>9. CASE SubmitSend
  <2>1. /\ Deliver("submit", wid)
        /\ UNCHANGED <<open, conns, inbox, subscribeId, mining, asked>>
        /\ mpc' = mpc \/ mpc' = "dead"
    BY <1>9 DEF SubmitSend
  <2>4. \A r \in Request : r.kind = "subscribe" => requests'[r] = requests[r]
    BY <2>1, Delivered DEF TypeOK
  <2>2. SubscribeOK'
    BY <2>1, <2>4 DEF SessionOK, SubscribeOK
  <2>3. SocketOK' /\ ConnectionOK'
    BY <2>1 DEF SessionOK, SocketOK, ConnectionOK
  <2> QED
    BY <2>1, <2>2, <2>3 DEF SessionOK, NoRevivedJob
<1>10. ASSUME NEW m \in Message, Send(m),
              \A r \in Request : requests'[r] # 0 => requests[r] # 0,
              m.kind = "subscribe" => m.id = subscribeId /\ mpc # "subscribeId"
       PROVE  SessionOK'
  <2>1. /\ open /\ inbox' = Append(inbox, m)
        /\ UNCHANGED <<open, conns, subscribeId, mining, asked, mpc>>
    BY <1>10 DEF Send
  <2>2. SubscribeOK'
    BY <1>0, <1>10, <2>1, InboxAppend DEF SessionOK, SubscribeOK
  <2>3. SocketOK' /\ ConnectionOK'
    BY <2>1 DEF SessionOK, SocketOK, ConnectionOK
  <2> QED
    BY <2>1, <2>2, <2>3 DEF SessionOK, NoRevivedJob
<1>11. ASSUME NEW r \in Request, NEW form \in Forms, PoolAnswers(r, form)
       PROVE  SessionOK'
  <2> DEFINE m == [kind |-> r.kind, id |-> r.id, form |-> form]
  <2>1. m \in Message /\ m.kind = r.kind /\ m.id = r.id
    BY DEF TypeOK, Message, Request, Kinds
  <2>2. Send(m) /\ requests[r] > 0
    BY <1>11 DEF PoolAnswers
  <2>3. \A q \in Request : requests'[q] # 0 => requests[q] # 0
    BY <1>11 DEF PoolAnswers, TypeOK
  <2>4. m.kind = "subscribe" => m.id = subscribeId /\ mpc # "subscribeId"
    <3>1. requests[r] # 0
      BY <2>2 DEF TypeOK
    <3> QED
      BY <2>1, <3>1 DEF SessionOK, SubscribeOK
  <2> HIDE DEF m
  <2> QED
    BY <1>10, <2>1, <2>2, <2>3, <2>4
<1>12. ASSUME NEW kind \in {"notify", "difficulty", "reconnect", "odd"}, NEW form \in Forms,
              PoolNotifies(kind, form)
       PROVE  SessionOK'
  <2> DEFINE m == [kind |-> kind, id |-> 0, form |-> form]
  <2>1. m \in Message /\ m.kind # "subscribe"
    BY StratumAssumption DEF Message, Kinds
  <2>2. Send(m) /\ requests' = requests
    BY <1>12 DEF PoolNotifies
  <2> HIDE DEF m
  <2> QED
    BY <1>10, <2>1, <2>2
<1>13. CASE LinkDrops
  <2>1. PICK n \in 0 .. Len(inbox) : inbox' = SubSeq(inbox, 1, n)
    BY <1>13 DEF LinkDrops
  <2>2. open /\ UNCHANGED <<open, conns, requests, subscribeId, mining, asked, mpc>>
    BY <1>13 DEF LinkDrops
  <2>3. SubscribeOK'
    BY <1>0, <2>1, <2>2, InboxPrefix DEF SessionOK, SubscribeOK
  <2>4. SocketOK' /\ ConnectionOK'
    BY <2>2 DEF SessionOK, SocketOK, ConnectionOK
  <2> QED
    BY <2>2, <2>3, <2>4 DEF SessionOK, NoRevivedJob
<1>17. CASE JobTimeout
  BY <1>17, SessionStays DEF JobTimeout, SessionOK, SocketOK
<1>14. CASE UNCHANGED vars
  BY <1>14, SessionStays DEF vars, SessionOK, SocketOK
<1> QED
  BY <1>1, <1>2, <1>3, <1>4, <1>5, <1>6, <1>7, <1>8, <1>9, <1>11, <1>12, <1>13, <1>14,
     <1>15, <1>16, <1>17
     DEF Next, Main, Submit, Environment

LEMMA SessionInvariant == Spec => []SessionOK
<1>1. Init => SessionOK
  <2> SUFFICES ASSUME Init PROVE SessionOK
    OBVIOUS
  <2>1. SocketOK /\ ConnectionOK /\ SubscribeOK
    BY NoRequestsType DEF Init, SocketOK, ConnectionOK, SubscribeOK
  <2> QED
    BY <2>1 DEF Init, SessionOK, NoRevivedJob, NoWork
<1> QED
  BY <1>1, SessionStep, TypeInvariant, PTL DEF Spec

\* No job of an earlier connection comes back to the workers, unless that
\* connection ended with client.reconnect.
THEOREM JobsStayDead == Spec => []NoRevivedJob
<1>1. SessionOK => NoRevivedJob
  BY DEF SessionOK
<1> QED
  BY <1>1, SessionInvariant, PTL

-----------------------------------------------------------------------------
(* KeepsContract, along the argument of MoneroSessionProofs: a verdict in  *)
(* favour under way has a number among the shares accepted and not yet     *)
(* counted, and no other reply can be taken for one (SubscribeOK).         *)

\* The verdicts in favour that are on their way.
OkAt == {i \in 1 .. Len(inbox) : inbox[i].kind = "submit" /\ inbox[i].form = "good"}

Earned == accepted <= okSent /\ Numbered(OkAt, accepted, okSent)

\* A read moves the verdicts one place forward.
LEMMA OkAtTail ==
    ASSUME TypeOK, inbox # <<>>, inbox' = Tail(inbox)
    PROVE  /\ OkAt' = Shifted(OkAt) /\ OkAt \in SUBSET (Nat \ {0})
           /\ Head(inbox).kind = "submit" /\ Head(inbox).form = "good" => 1 \in OkAt
<1>1. Len(inbox) \in Nat
  BY InboxTypes
<1> QED
  BY <1>1, InboxTail DEF OkAt, Shifted

\* A message that is no verdict in favour leaves them where they are; one that
\* is comes last.
LEMMA OkAtAppend ==
    ASSUME TypeOK, NEW m \in Message, inbox' = Append(inbox, m)
    PROVE  /\ ~(m.kind = "submit" /\ m.form = "good") => OkAt' = OkAt
           /\ m.kind = "submit" /\ m.form = "good" => OkAt' = OkAt \cup {Len(inbox) + 1}
           /\ OkAt \in SUBSET Nat /\ \A i \in OkAt : i < Len(inbox) + 1
<1>1. Len(inbox) \in Nat
  BY InboxTypes
<1> QED
  BY <1>1, InboxAppend DEF OkAt

\* A lost connection may lose some of them.
LEMMA OkAtPrefix ==
    ASSUME TypeOK, NEW n \in 0 .. Len(inbox), inbox' = SubSeq(inbox, 1, n)
    PROVE  OkAt' \in SUBSET OkAt
<1>1. Len(inbox) \in Nat
  BY InboxTypes
<1> QED
  BY <1>1, InboxPrefix DEF OkAt

LEMMA OkAtEmpty == inbox' = <<>> => OkAt' = {}
  BY InboxEmpty DEF OkAt

\* The verdicts stay numbered, and the step is one of the contract's or none.
ContractStep == Earned' /\ [Contract!Next]_(Contract!vars)

\* A line that poll() dispatches counts a share, gives a job, redirects, or
\* shows nothing to cmd_run.
LEMMA ReadKeepsContract ==
    ASSUME Typed, SessionOK, Earned, ReadMessage
    PROVE  ContractStep
<1> USE DEF mining, ids
<1>1. /\ open /\ inbox # <<>> /\ UNCHANGED <<conns, okSent>> /\ TypeOK
      /\ accepted \in Nat /\ okSent \in Nat /\ accepted <= okSent /\ Len(inbox) \in Nat
  BY InboxTypes DEF ReadMessage, Polling, SessionOK, SocketOK, Typed, TypeOK, Earned
<1>2. PICK m : /\ m = Head(inbox)
               /\ \/ HandleDifficulty(m) \/ HandleNotify(m) \/ HandleReconnect(m)
                  \/ HandleSubscribe(m) \/ HandleReply(m)
               /\ inbox' = IF m.kind = "reconnect" THEN <<>> ELSE Tail(inbox)
  BY DEF ReadMessage
<1>3. CASE HandleReconnect(m)
  <2>1. /\ inbox' = <<>> /\ ~open' /\ asked'
        /\ UNCHANGED <<work, okSent, accepted>>
    BY <1>1, <1>2, <1>3 DEF HandleReconnect
  <2>2. Earned'
    BY <1>1, <2>1, OkAtEmpty, NumberedEmpty DEF Earned
  <2>3. Contract!Redirect
    BY <1>1, <2>1 DEF Contract!Redirect
  <2> QED
    BY <2>2, <2>3 DEF ContractStep, Contract!Next
<1>4. CASE ~HandleReconnect(m)
  <2>1. inbox' = Tail(inbox) /\ UNCHANGED <<open, asked>>
    BY <1>2, <1>4 DEF HandleDifficulty, HandleNotify, HandleSubscribe, HandleReply
  <2>2. /\ OkAt' = Shifted(OkAt) /\ OkAt \in SUBSET (Nat \ {0})
        /\ m.kind = "submit" /\ m.form = "good" => 1 \in OkAt
    BY <1>1, <1>2, <2>1, OkAtTail
  <2>3. /\ Numbered(OkAt', accepted, okSent)
        /\ 1 \in OkAt => accepted < okSent /\ Numbered(OkAt', accepted + 1, okSent)
    BY <1>1, <2>2, NumberedTail DEF Earned
  <2>4. CASE accepted' = accepted /\ (work' = work \/ work' # NoWork)
    <3>1. Earned'
      BY <1>1, <2>3, <2>4 DEF Earned
    <3>2. [Contract!Next]_(Contract!vars)
      BY <1>1, <2>1, <2>4 DEF Contract!Next, Contract!GiveJob, Contract!vars
    <3> QED
      BY <3>1, <3>2 DEF ContractStep
  <2>5. CASE HandleReply(m) /\ accepted' # accepted
    <3>1. accepted' = accepted + 1 /\ m.form = "good" /\ work' = work
      BY <2>5 DEF HandleReply
    <3>2. m = inbox[1] /\ 1 \in 1 .. Len(inbox)
      BY <1>1, <1>2, <2>1, InboxTail
    <3>3. m.kind = "submit"
      BY <2>5, <3>2 DEF HandleReply, SessionOK, SubscribeOK
    <3>4. accepted < okSent /\ Numbered(OkAt', accepted + 1, okSent)
      BY <2>2, <2>3, <3>1, <3>3
    <3>5. Earned'
      BY <1>1, <3>1, <3>4 DEF Earned
    <3>6. Contract!Credit
      BY <1>1, <2>1, <3>1, <3>4 DEF Contract!Credit
    <3> QED
      BY <3>5, <3>6 DEF ContractStep, Contract!Next
  <2>6. CASE HandleDifficulty(m)
    <3>1. work' = work \/ work' # NoWork
      <4>1. CASE haveJob
        BY <1>1, <2>6, <4>1, RebuildOK DEF HandleDifficulty, SessionOK, ConnectionOK
      <4>2. CASE ~haveJob
        BY <2>6, <4>2 DEF HandleDifficulty
      <4> QED
        BY <4>1, <4>2
    <3> QED
      BY <2>4, <2>6, <3>1 DEF HandleDifficulty
  <2>7. CASE HandleNotify(m)
    <3>1. work' = work \/ work' # NoWork
      <4>1. CASE m.form = "bad"
        BY <2>7, <4>1 DEF HandleNotify
      <4>2. CASE m.form # "bad"
        <5>1. PICK j : j.from = conns /\ RebuildJob(j)
          BY <2>7, <4>2 DEF HandleNotify
        <5> QED
          BY <1>1, <5>1, RebuildOK
      <4> QED
        BY <4>1, <4>2
    <3> QED
      BY <2>4, <2>7, <3>1 DEF HandleNotify
  <2>8. CASE HandleSubscribe(m)
    BY <2>4, <2>8 DEF HandleSubscribe
  <2>9. CASE HandleReply(m)
    <3>1. work' = work
      BY <2>9 DEF HandleReply
    <3> QED
      BY <2>4, <2>5, <2>9, <3>1
  <2> QED
    BY <1>2, <1>4, <2>6, <2>7, <2>8, <2>9
<1> QED
  BY <1>3, <1>4

LEMMA EarnedStep == Typed /\ SessionOK /\ Earned /\ [Next]_vars => ContractStep
<1> SUFFICES ASSUME Typed, TypeOK, SessionOK, Earned, [Next]_vars PROVE ContractStep
  BY DEF Typed
<1> USE DEF conn, pool, ids, mining, worker
<1>0. accepted \in Nat /\ okSent \in Nat /\ accepted <= okSent /\ Len(inbox) \in Nat
  BY InboxTypes DEF TypeOK, Earned
<1>1. ASSUME UNCHANGED <<open, asked, inbox, work, okSent, accepted>> PROVE ContractStep
  <2>1. Earned'
    BY <1>1 DEF Earned, OkAt
  <2> QED
    BY <1>1, <2>1 DEF ContractStep, Contract!vars
<1>2. CASE Connect
  <2>1. /\ inbox' = <<>> /\ ~open /\ open'
        /\ UNCHANGED <<work, asked, okSent, accepted>>
    BY <1>2 DEF Connect, OpenConn
  <2>2. Earned'
    BY <1>0, <2>1, OkAtEmpty, NumberedEmpty DEF Earned
  <2>3. Contract!Connect
    BY <2>1 DEF Contract!Connect
  <2> QED
    BY <2>2, <2>3 DEF ContractStep, Contract!Next
<1>3. CASE LoginDone \/ LoginFails \/ StillConnected \/ WatchdogQuiet \/ ReadNothing
  BY <1>1, <1>3 DEF LoginDone, LoginFails, StillConnected, WatchdogQuiet, ReadNothing
<1>4. CASE ReadMessage
  BY <1>4, ReadKeepsContract
<1>5. CASE ReadThrows
  <2>1. /\ inbox # <<>> /\ inbox' = Tail(inbox)
        /\ UNCHANGED <<open, asked, work, okSent, accepted>>
    BY <1>5 DEF ReadThrows
  <2>2. OkAt' = Shifted(OkAt) /\ OkAt \in SUBSET (Nat \ {0})
    BY <2>1, OkAtTail
  <2>3. Earned'
    BY <1>0, <2>1, <2>2, NumberedTail DEF Earned
  <2> QED
    BY <2>1, <2>3 DEF ContractStep, Contract!vars
<1>6. CASE Watchdog
  <2>1. /\ inbox' = <<>> /\ ~open' /\ ~asked' /\ work' = NoWork
        /\ UNCHANGED <<okSent, accepted>>
    BY <1>6 DEF Watchdog, CloseConn
  <2>2. Earned'
    BY <1>0, <2>1, OkAtEmpty, NumberedEmpty DEF Earned
  <2>3. Contract!Lose
    BY <2>1 DEF Contract!Lose
  <2> QED
    BY <2>2, <2>3 DEF ContractStep, Contract!Next
<1>7. CASE Submit
  BY <1>1, <1>7 DEF Submit, SubmitBegin, SubmitId, SubmitSend
<1>8. ASSUME NEW r \in Request, NEW form \in Forms, PoolAnswers(r, form)
      PROVE  ContractStep
  <2> DEFINE m == [kind |-> r.kind, id |-> r.id, form |-> form]
  <2>1. m \in Message /\ inbox' = Append(inbox, m)
    BY <1>8 DEF PoolAnswers, Send, TypeOK, Message, Request, Kinds
  <2>2. okSent' = IF m.kind = "submit" /\ m.form = "good" THEN okSent + 1 ELSE okSent
    BY <1>8 DEF PoolAnswers
  <2>3. open /\ UNCHANGED <<open, asked, work, accepted>>
    BY <1>8 DEF PoolAnswers, Send
  <2> HIDE DEF m
  <2>4. CASE m.kind = "submit" /\ m.form = "good"
    <3>1. Numbered(OkAt \cup {Len(inbox) + 1}, accepted, okSent + 1)
      BY <1>0, <2>1, OkAtAppend, NumberedAppend DEF Earned
    <3>2. OkAt' = OkAt \cup {Len(inbox) + 1}
      BY <2>1, <2>4, OkAtAppend
    <3>3. okSent' = okSent + 1 /\ accepted' = accepted
      BY <2>2, <2>3, <2>4
    <3>4. Earned'
      BY <1>0, <3>1, <3>2, <3>3 DEF Earned
    <3>5. Contract!Grant
      BY <2>3, <3>3 DEF Contract!Grant
    <3> QED
      BY <3>4, <3>5 DEF ContractStep, Contract!Next
  <2>5. CASE ~(m.kind = "submit" /\ m.form = "good")
    <3>1. okSent' = okSent /\ OkAt' = OkAt
      BY <2>1, <2>2, <2>5, OkAtAppend
    <3> QED
      BY <2>3, <3>1 DEF ContractStep, Earned, Contract!vars
  <2> QED
    BY <2>4, <2>5
<1>9. ASSUME NEW kind \in {"notify", "difficulty", "reconnect", "odd"}, NEW form \in Forms,
             PoolNotifies(kind, form)
      PROVE  ContractStep
  <2> DEFINE m == [kind |-> kind, id |-> 0, form |-> form]
  <2>1. m \in Message /\ m.kind # "submit"
    BY StratumAssumption DEF Message, Kinds
  <2>2. inbox' = Append(inbox, m) /\ UNCHANGED <<open, asked, work, okSent, accepted>>
    BY <1>9 DEF PoolNotifies, Send
  <2> HIDE DEF m
  <2>3. OkAt' = OkAt
    BY <2>1, <2>2, OkAtAppend
  <2> QED
    BY <2>2, <2>3 DEF ContractStep, Earned, Contract!vars
<1>10. CASE LinkDrops
  <2>1. PICK n \in 0 .. Len(inbox) : inbox' = SubSeq(inbox, 1, n)
    BY <1>10 DEF LinkDrops
  <2>2. UNCHANGED <<open, asked, work, okSent, accepted>>
    BY <1>10 DEF LinkDrops
  <2>3. Numbered(OkAt', accepted, okSent)
    BY <2>1, OkAtPrefix, NumberedSub DEF Earned
  <2> QED
    BY <1>0, <2>2, <2>3 DEF ContractStep, Earned, Contract!vars
<1>12. CASE SendSubscribe \/ ReadAuthorizeId \/ SendAuthorize \/ JobTimeout
  BY <1>1, <1>12 DEF SendSubscribe, ReadAuthorizeId, SendAuthorize, JobTimeout
<1>11. CASE UNCHANGED vars
  BY <1>1, <1>11 DEF vars
<1> QED
  BY <1>2, <1>3, <1>4, <1>5, <1>6, <1>7, <1>8, <1>9, <1>10, <1>11, <1>12
     DEF Next, Main, Environment

\* StratumV1Client is a PoolClient, for any number of connections, shares and
\* messages: the workers go on for a closed connection only after
\* client.reconnect, and no share is counted as accepted that the pool did not
\* accept, nor any twice.
THEOREM StratumKeepsContract == Spec => KeepsContract
<1>1. Init => Contract!Init /\ Earned
  <2> SUFFICES ASSUME Init PROVE Contract!Init /\ Earned
    OBVIOUS
  <2>1. Contract!Init
    BY DEF Init, Contract!Init
  <2>2. OkAt = {}
    BY DEF Init, OkAt
  <2> QED
    BY <2>1, <2>2, NumberedEmpty DEF Init, Earned
<1>2. Typed /\ SessionOK /\ Earned /\ [Next]_vars => Earned' /\ [Contract!Next]_(Contract!vars)
  BY EarnedStep DEF ContractStep
<1> QED
  BY <1>1, <1>2, TypeInvariant, SessionInvariant, PTL DEF Spec, KeepsContract, Contract!Spec

=============================================================================
