------------------------ MODULE MoneroSessionProofs ------------------------
(***************************************************************************)
(* The Monero session, for any number of connections, shares and messages  *)
(* under way: a login belongs to its connection, the client is a           *)
(* PoolClient, and a verdict is overlooked only where VerdictsCounted says *)
(* so.                                                                     *)
(***************************************************************************)
EXTENDS MoneroSession, SequenceTheorems, VerdictQueue

-----------------------------------------------------------------------------
(* Types.                                                                  *)

\* The increment a thread has begun stays within the bound on ids.
IdRoom == (wpc = "inc" => wid < MaxId) /\ (mpc \in {"loginId", "keepId"} => mid < MaxId)

LEMMA MessageTypes ==
    ASSUME TypeOK
    PROVE  /\ \A m \in Message : Append(inbox, m) \in Seq(Message)
           /\ \A m \in Message : Len(Append(inbox, m)) = Len(inbox) + 1
           /\ inbox # <<>> => Head(inbox) \in Message /\ Tail(inbox) \in Seq(Message)
           /\ inbox # <<>> => Len(Tail(inbox)) = Len(inbox) - 1
           /\ inbox # <<>> => Head(inbox) = inbox[1]
           /\ <<>> \in Seq(Message) /\ Len(<<>>) = 0 /\ Len(inbox) \in Nat
  BY HeadTailProperties, EmptySeq DEF TypeOK

\* What a lost connection leaves to read.
LEMMA InboxPrefix ==
    ASSUME TypeOK, NEW n \in 0 .. Len(inbox), inbox' = SubSeq(inbox, 1, n)
    PROVE  /\ inbox' \in Seq(Message) /\ Len(inbox') = n /\ Len(inbox') <= Len(inbox)
           /\ \A i \in 1 .. n : inbox'[i] = inbox[i]
  BY SubSeqProperties DEF TypeOK

\* A request is sent, or gets lost with its connection.
LEMMA Delivered ==
    ASSUME TypeOK, NEW k \in {"login", "submit", "keepalive"}, NEW id \in 0 .. MaxId,
           Deliver(k, id)
    PROVE  /\ requests' \in [Request -> Nat]
           /\ \A r \in Request : /\ r # [kind |-> k, id |-> id] => requests'[r] = requests[r]
                                  /\ requests'[r] <= requests[r] + 1
<1>1. [kind |-> k, id |-> id] \in Request
  BY DEF Request
<1>2. requests \in [Request -> Nat]
  BY DEF TypeOK
<1> QED
  BY <1>1, <1>2 DEF Deliver

LEMMA NoRequestsType == NoRequests \in [Request -> Nat] /\ \A r \in Request : NoRequests[r] = 0
  BY DEF NoRequests

LEMMA TypeStep == TypeOK /\ IdRoom /\ [Next]_vars => (TypeOK /\ IdRoom)'
<1> SUFFICES ASSUME TypeOK, IdRoom, [Next]_vars PROVE (TypeOK /\ IdRoom)'
  OBVIOUS
<1> USE SessionAssumption
    DEF TypeOK, IdRoom, MainAt, conn, pool, client, clock, counts, jobs, worker
<1>1. CASE Connect
  <2>1. /\ open' \in BOOLEAN /\ authed' \in BOOLEAN /\ link' = "up" /\ inbox' = <<>>
    BY <1>1 DEF Connect, OpenConn
  <2>2. requests' \in [Request -> Nat]
    BY <1>1, NoRequestsType DEF Connect
  <2> QED
    BY <1>1, <2>1, <2>2, MessageTypes DEF Connect
<1>2. CASE SendLogin
  <2>1. requests' \in [Request -> Nat]
    BY <1>2, Delivered DEF SendLogin
  <2>2. excused' \in BOOLEAN
    BY <1>2, Zenon DEF SendLogin
  <2>3. tries' \in 0 .. LoginPolls /\ mpc' \in {"login", "loop", "dead"}
    BY <1>2 DEF SendLogin
  <2>4. keepDue' \in BOOLEAN
    <3>1. keepDue' = FALSE \/ keepDue' = keepDue
      BY <1>2, Zenon DEF SendLogin
    <3> QED
      BY <3>1
  <2> QED
    BY <1>2, <2>1, <2>2, <2>3, <2>4 DEF SendLogin
<1>3. CASE LoginDone \/ LoginFails \/ StillConnected \/ WatchdogQuiet
  <2>1. CASE LoginDone
    <3>1. stale' \in BOOLEAN
      BY <2>1 DEF LoginDone
    <3>3. mpc' = "poll" /\ tries' = 0 /\ 0 \in 0 .. LoginPolls
      BY <2>1 DEF LoginDone
    <3>2. UNCHANGED <<conn, pool, nextId, mid, client, keepDue, jobs, counts, worker>>
      BY <2>1 DEF LoginDone
    <3> QED
      BY <3>1, <3>2, <3>3
  <2>2. CASE LoginFails
    BY <2>2 DEF LoginFails
  <2>3. CASE StillConnected
    BY <2>3 DEF StillConnected
  <2>4. CASE WatchdogQuiet
    BY <2>4 DEF WatchdogQuiet
  <2> QED
    BY <1>3, <2>1, <2>2, <2>3, <2>4
<1>4. CASE Keepalive \/ SendKeepalive
  <2>1. CASE Keepalive
    <3>1. keepDue' \in BOOLEAN
      BY <2>1 DEF Keepalive
    <3> QED
      BY <2>1, <3>1 DEF Keepalive, KeepaliveNow
  <2>2. CASE SendKeepalive
    <3>1. requests' \in [Request -> Nat]
      BY <2>2, Delivered DEF SendKeepalive
    <3>2. mpc' \in {"read", "dead"}
      BY <2>2 DEF SendKeepalive
    <3> QED
      BY <2>2, <3>1, <3>2 DEF SendKeepalive
  <2> QED
    BY <1>4, <2>1, <2>2
<1>5. CASE ReadNothing
  BY <1>5 DEF ReadNothing, PollReturns, Reading
<1>6. CASE ReadMessage
  <2>1. PICK m \in Message : /\ m = Head(inbox)
                             /\ HandleJob(m) \/ HandleLogin(m) \/ HandleVerdict(m) \/ HandleOther(m)
    BY <1>6, MessageTypes DEF ReadMessage
  <2>2. /\ loggedIn' \in BOOLEAN /\ hasWork' \in BOOLEAN /\ hadJob' \in BOOLEAN
        /\ stale' \in BOOLEAN /\ accepted' \in Nat /\ rejected' \in Nat
    <3>1. CASE HandleJob(m)
      BY <3>1 DEF HandleJob, ApplyJob
    <3>2. CASE HandleLogin(m)
      <4>1. loggedIn' \in BOOLEAN
        BY <3>2, Zenon DEF HandleLogin
      <4> QED
        BY <3>2, <4>1 DEF HandleLogin, ApplyJob
    <3>3. CASE HandleVerdict(m) \/ HandleOther(m)
      BY <3>3 DEF HandleVerdict, HandleOther
    <3> QED
      BY <2>1, <3>1, <3>2, <3>3
  <2>3. tries' \in 0 .. LoginPolls /\ mpc' \in {mpc, "watch"}
    BY <1>6 DEF ReadMessage, PollReturns, Reading
  <2>4. inbox' \in Seq(Message) /\ Len(inbox') <= MaxInbox
    BY <1>6, MessageTypes DEF ReadMessage
  <2> QED
    BY <1>6, <2>2, <2>3, <2>4 DEF ReadMessage
<1>7. CASE ReadThrows
  BY <1>7, MessageTypes DEF ReadThrows
<1>8. CASE Watchdog
  <2>1. /\ open' \in BOOLEAN /\ authed' \in BOOLEAN /\ loggedIn' \in BOOLEAN
        /\ hasWork' \in BOOLEAN /\ link' = "gone" /\ inbox' = <<>>
    BY <1>8 DEF Watchdog, CloseConn
  <2>2. excused' \in BOOLEAN
    BY <1>8, Zenon DEF Watchdog
  <2> QED
    BY <1>8, <2>1, <2>2, MessageTypes, NoRequestsType DEF Watchdog
<1>9. CASE SubmitBegin
  BY <1>9 DEF SubmitBegin
<1>10. CASE SubmitId
  <2>1. excused' \in BOOLEAN
    BY <1>10, Zenon DEF SubmitId
  <2> QED
    BY <1>10, <2>1 DEF SubmitId
<1>11. CASE SubmitSend
  <2>1. requests' \in [Request -> Nat]
    BY <1>11, Delivered DEF SubmitSend
  <2> QED
    BY <1>11, <2>1 DEF SubmitSend
<1>12. ASSUME NEW r \in Request, NEW ok \in BOOLEAN, NEW job \in BOOLEAN,
              PoolAnswers(r, ok, job)
       PROVE  (TypeOK /\ IdRoom)'
  <2> DEFINE m == [kind |-> r.kind, id |-> r.id, ok |-> ok, job |-> job]
  <2>1. m \in Message
    BY DEF Message, Request
  <2>2. authed' \in BOOLEAN
    BY <1>12, Zenon DEF PoolAnswers
  <2>3. inbox' = Append(inbox, m) /\ Len(inbox) < MaxInbox
    BY <1>12 DEF PoolAnswers
  <2>4. inbox' \in Seq(Message) /\ Len(inbox') <= MaxInbox
    BY <2>1, <2>3, MessageTypes
  <2>5. requests' \in [Request -> Nat]
    BY <1>12 DEF PoolAnswers
  <2> QED
    BY <1>12, <2>2, <2>4, <2>5 DEF PoolAnswers
<1>13. ASSUME NEW wellFormed \in BOOLEAN, PoolSendsJob(wellFormed)
       PROVE  (TypeOK /\ IdRoom)'
  <2>1. [kind |-> "job", id |-> 0, ok |-> wellFormed, job |-> FALSE] \in Message
    BY DEF Message
  <2> QED
    BY <1>13, <2>1, MessageTypes DEF PoolSendsJob
<1>14. CASE PoolSendsOdd
  <2>1. [kind |-> "odd", id |-> 0, ok |-> FALSE, job |-> FALSE] \in Message
    BY DEF Message
  <2> QED
    BY <1>14, <2>1, MessageTypes DEF PoolSendsOdd
<1>15. CASE LinkDrops
  <2>1. excused' \in BOOLEAN
    BY <1>15, Zenon DEF LinkDrops
  <2>2. PICK n \in 0 .. Len(inbox) : inbox' = SubSeq(inbox, 1, n)
    BY <1>15 DEF LinkDrops
  <2>3. inbox' \in Seq(Message) /\ Len(inbox') <= MaxInbox
    BY <2>2, InboxPrefix, MessageTypes
  <2> QED
    BY <1>15, <2>1, <2>3 DEF LinkDrops
<1>16. CASE JobTimeout \/ KeepaliveTimeout
  <2>1. stale' \in BOOLEAN /\ keepDue' \in BOOLEAN
    BY <1>16 DEF JobTimeout, KeepaliveTimeout
  <2>2. UNCHANGED <<conn, pool, nextId, client, mpc, mid, tries, jobs, counts, worker>>
    BY <1>16 DEF JobTimeout, KeepaliveTimeout
  <2> QED
    BY <2>1, <2>2
<1>17. CASE UNCHANGED vars
  BY <1>17 DEF vars
<1> QED
  BY <1>1, <1>2, <1>3, <1>4, <1>5, <1>6, <1>7, <1>8, <1>9, <1>10, <1>11, <1>12,
     <1>13, <1>14, <1>15, <1>16, <1>17
     DEF Next, Main, Submit, Environment

LEMMA TypeInvariant == Spec => [](TypeOK /\ IdRoom)
<1>1. Init => TypeOK /\ IdRoom
  <2> SUFFICES ASSUME Init PROVE TypeOK /\ IdRoom
    OBVIOUS
  <2>1. /\ open \in BOOLEAN /\ authed \in BOOLEAN /\ loggedIn \in BOOLEAN
        /\ stale \in BOOLEAN /\ keepDue \in BOOLEAN /\ hasWork \in BOOLEAN
        /\ hadJob \in BOOLEAN /\ excused \in BOOLEAN
    BY DEF Init
  <2> QED
    BY <2>1, SessionAssumption, EmptySeq, NoRequestsType DEF Init, TypeOK, IdRoom, MainAt
<1> QED
  BY <1>1, TypeStep, PTL DEF Spec

\* Every variable of the Monero session has its type: no counter leaves its
\* range, although two threads increment next_id_ without a lock.
THEOREM MoneroTypeCorrect == Spec => []TypeOK
  BY TypeInvariant, PTL

-----------------------------------------------------------------------------
(* LoggedInIsReal.  What the pool said on an earlier connection is gone    *)
(* from the inbox before the next one, and so is logged_in_.               *)

LoginOK ==
    /\ mpc \in MainAt \ {"loop", "dead"} => open
    /\ ~open => inbox = <<>>
    /\ loggedIn => authed /\ open
    /\ \A i \in 1 .. Len(inbox) : inbox[i].kind = "login" /\ inbox[i].ok => authed

\* What the pool sends is put behind what it has sent before.
LEMMA InboxAppend ==
    ASSUME TypeOK, NEW m \in Message, inbox' = Append(inbox, m)
    PROVE  /\ Len(inbox') = Len(inbox) + 1 /\ inbox'[Len(inbox) + 1] = m
           /\ \A i \in 1 .. Len(inbox) : inbox'[i] = inbox[i]
  BY DEF TypeOK

\* poll() takes what was sent first.
LEMMA InboxTail ==
    ASSUME TypeOK, inbox # <<>>, inbox' = Tail(inbox)
    PROVE  /\ Len(inbox') = Len(inbox) - 1 /\ Len(inbox) > 0 /\ Head(inbox) = inbox[1]
           /\ \A i \in 1 .. Len(inbox) - 1 : inbox'[i] = inbox[i + 1]
  BY HeadTailProperties, EmptySeq DEF TypeOK

LEMMA InboxEmpty == inbox' = <<>> => Len(inbox') = 0
  OBVIOUS

LEMMA LoginStep == TypeOK /\ LoginOK /\ [Next]_vars => LoginOK'
<1> SUFFICES ASSUME TypeOK, LoginOK, [Next]_vars PROVE LoginOK'
  OBVIOUS
<1> USE DEF LoginOK, MainAt, conn, pool, client, clock, counts, jobs, worker
<1>0. Len(inbox) \in Nat /\ (Len(inbox) > 0 => inbox # <<>>)
  BY MessageTypes
<1>1. CASE Connect \/ SendLogin
  BY <1>1, InboxEmpty DEF Connect, SendLogin, OpenConn
<1>2. CASE LoginDone \/ LoginFails \/ StillConnected \/ WatchdogQuiet
  BY <1>2 DEF LoginDone, LoginFails, StillConnected, WatchdogQuiet
<1>3. CASE Keepalive \/ SendKeepalive
  BY <1>3 DEF Keepalive, SendKeepalive
<1>4. CASE ReadNothing
  BY <1>4 DEF ReadNothing, PollReturns, Reading
<1>5. CASE ReadMessage
  <2>1. inbox # <<>> /\ inbox' = Tail(inbox) /\ open /\ UNCHANGED <<open, authed>>
    BY <1>5 DEF ReadMessage, Reading
  <2>2. loggedIn' => authed
    <3>1. PICK m : m = Head(inbox)
                   /\ (HandleJob(m) \/ HandleLogin(m) \/ HandleVerdict(m) \/ HandleOther(m))
      BY <1>5 DEF ReadMessage
    <3>2. m = inbox[1] /\ 1 \in 1 .. Len(inbox)
      BY <1>0, <2>1, <3>1, InboxTail
    <3>3. CASE HandleLogin(m)
      BY <3>2, <3>3 DEF HandleLogin
    <3>4. CASE HandleJob(m) \/ HandleVerdict(m) \/ HandleOther(m)
      BY <3>4 DEF HandleJob, HandleVerdict, HandleOther
    <3> QED
      BY <3>1, <3>3, <3>4
  <2>3. \A i \in 1 .. Len(inbox') : inbox'[i].kind = "login" /\ inbox'[i].ok => authed
    BY <1>0, <2>1, InboxTail
  <2> QED
    BY <2>1, <2>2, <2>3
<1>6. CASE ReadThrows
  <2>1. inbox # <<>> /\ inbox' = Tail(inbox) /\ open /\ UNCHANGED <<open, authed, loggedIn>>
    BY <1>6 DEF ReadThrows, Reading
  <2>2. \A i \in 1 .. Len(inbox') : inbox'[i].kind = "login" /\ inbox'[i].ok => authed
    BY <1>0, <2>1, InboxTail
  <2> QED
    BY <1>6, <2>1, <2>2 DEF ReadThrows
<1>7. CASE Watchdog
  BY <1>7, InboxEmpty DEF Watchdog, CloseConn
<1>8. CASE Submit
  BY <1>8 DEF Submit, SubmitBegin, SubmitId, SubmitSend
<1>9. ASSUME NEW r \in Request, NEW ok \in BOOLEAN, NEW job \in BOOLEAN,
             PoolAnswers(r, ok, job)
      PROVE  LoginOK'
  <2> DEFINE m == [kind |-> r.kind, id |-> r.id, ok |-> ok, job |-> job]
  <2>1. m \in Message /\ inbox' = Append(inbox, m)
    BY <1>9 DEF PoolAnswers, TypeOK, Message, Request
  <2>2. authed' <=> authed \/ (m.kind = "login" /\ m.ok)
    BY <1>9 DEF PoolAnswers
  <2>3. open /\ UNCHANGED <<open, mpc, loggedIn>>
    BY <1>9 DEF PoolAnswers
  <2> HIDE DEF m
  <2> QED
    BY <1>0, <2>1, <2>2, <2>3, InboxAppend
<1>10. ASSUME NEW wellFormed \in BOOLEAN, PoolSendsJob(wellFormed)
       PROVE  LoginOK'
  <2> DEFINE m == [kind |-> "job", id |-> 0, ok |-> wellFormed, job |-> FALSE]
  <2>1. m \in Message /\ m.kind = "job"
    BY SessionAssumption DEF Message
  <2>2. inbox' = Append(inbox, m) /\ open /\ UNCHANGED <<open, mpc, loggedIn, authed>>
    BY <1>10 DEF PoolSendsJob
  <2> HIDE DEF m
  <2> QED
    BY <1>0, <2>1, <2>2, InboxAppend
<1>11. CASE PoolSendsOdd
  <2> DEFINE m == [kind |-> "odd", id |-> 0, ok |-> FALSE, job |-> FALSE]
  <2>1. m \in Message /\ m.kind = "odd"
    BY SessionAssumption DEF Message
  <2>2. inbox' = Append(inbox, m) /\ open /\ UNCHANGED <<open, mpc, loggedIn, authed>>
    BY <1>11 DEF PoolSendsOdd
  <2> HIDE DEF m
  <2> QED
    BY <1>0, <2>1, <2>2, InboxAppend
<1>12. CASE LinkDrops
  <2>1. PICK n \in 0 .. Len(inbox) : inbox' = SubSeq(inbox, 1, n)
    BY <1>12 DEF LinkDrops
  <2>2. open /\ UNCHANGED <<open, mpc, loggedIn, authed>>
    BY <1>12 DEF LinkDrops
  <2> QED
    BY <1>0, <2>1, <2>2, InboxPrefix
<1>13. CASE JobTimeout \/ KeepaliveTimeout
  BY <1>13 DEF JobTimeout, KeepaliveTimeout
<1>14. CASE UNCHANGED vars
  BY <1>14 DEF vars
<1> QED
  BY <1>1, <1>2, <1>3, <1>4, <1>5, <1>6, <1>7, <1>8, <1>9, <1>10, <1>11, <1>12, <1>13, <1>14
     DEF Next, Main, Environment

LEMMA LoginInvariant == Spec => []LoginOK
<1>1. Init => LoginOK
  BY DEF Init, LoginOK
<1> QED
  BY <1>1, LoginStep, TypeInvariant, PTL DEF Spec

\* A client that takes itself to be logged in has been accepted by the pool on
\* the connection it has now, whatever ids collide and whatever comes late.
THEOREM LoginIsReal == Spec => []LoggedInIsReal
<1>1. LoginOK => LoggedInIsReal
  BY DEF LoginOK, LoggedInIsReal
<1> QED
  BY <1>1, LoginInvariant, PTL

-----------------------------------------------------------------------------
(* KeepsContract.  Every share the client may still count has a verdict in *)
(* favour under way, numbered among the shares the pool has accepted and   *)
(* the client has not counted.                                             *)

\* The verdicts in favour that are on their way.
OkAt == {i \in 1 .. Len(inbox) : inbox[i].kind = "submit" /\ inbox[i].ok}

Earned == accepted <= okSent /\ Numbered(OkAt, accepted, okSent)

\* A read moves the verdicts one place forward.
LEMMA OkAtTail ==
    ASSUME TypeOK, inbox # <<>>, inbox' = Tail(inbox)
    PROVE  /\ OkAt' = Shifted(OkAt) /\ OkAt \in SUBSET (Nat \ {0})
           /\ Head(inbox).kind = "submit" /\ Head(inbox).ok => 1 \in OkAt
<1>1. Len(inbox) \in Nat
  BY MessageTypes
<1> QED
  BY <1>1, InboxTail DEF OkAt, Shifted

\* A message that is no verdict in favour leaves them where they are; one that
\* is comes last.
LEMMA OkAtAppend ==
    ASSUME TypeOK, NEW m \in Message, inbox' = Append(inbox, m)
    PROVE  /\ ~(m.kind = "submit" /\ m.ok) => OkAt' = OkAt
           /\ m.kind = "submit" /\ m.ok => OkAt' = OkAt \cup {Len(inbox) + 1}
           /\ OkAt \in SUBSET Nat /\ \A i \in OkAt : i < Len(inbox) + 1
<1>1. Len(inbox) \in Nat
  BY MessageTypes
<1> QED
  BY <1>1, InboxAppend DEF OkAt

\* A lost connection may lose some of them.
LEMMA OkAtPrefix ==
    ASSUME TypeOK, NEW n \in 0 .. Len(inbox), inbox' = SubSeq(inbox, 1, n)
    PROVE  OkAt' \in SUBSET OkAt
<1>1. Len(inbox) \in Nat
  BY MessageTypes
<1> QED
  BY <1>1, InboxPrefix DEF OkAt

LEMMA OkAtEmpty == inbox' = <<>> => OkAt' = {}
  BY InboxEmpty DEF OkAt

\* Where the verdicts in favour and the counts stay, so does Earned.
LEMMA EarnedStays == Earned /\ UNCHANGED <<inbox, okSent, accepted>> => Earned'
  BY DEF Earned, OkAt

\* What a step has to do with the contract: the verdicts stay numbered, and the
\* step is one of the contract's or none.
ContractStep == Earned' /\ [Contract!Next]_(Contract!vars)

LEMMA EarnedStep == TypeOK /\ LoginOK /\ Earned /\ [Next]_vars => ContractStep
<1> SUFFICES ASSUME TypeOK, LoginOK, Earned, [Next]_vars PROVE ContractStep
  OBVIOUS
<1> USE DEF conn, pool, client, clock, counts, jobs, worker
<1>0. accepted \in Nat /\ okSent \in Nat /\ accepted <= okSent /\ Len(inbox) \in Nat
  BY MessageTypes DEF TypeOK, Earned
<1>1. ASSUME UNCHANGED <<open, inbox, hasWork, okSent, accepted>> PROVE ContractStep
  BY <1>1, EarnedStays DEF ContractStep, Contract!vars
<1>2. CASE Connect
  <2>1. inbox' = <<>> /\ UNCHANGED <<hasWork, okSent, accepted>> /\ ~open /\ open'
    BY <1>2 DEF Connect, OpenConn
  <2>2. Earned'
    BY <1>0, <2>1, OkAtEmpty, NumberedEmpty DEF Earned
  <2>3. Contract!Connect
    BY <2>1 DEF Contract!Connect
  <2> QED
    BY <2>2, <2>3 DEF ContractStep, Contract!Next
<1>3. CASE LoginDone \/ LoginFails \/ StillConnected \/ WatchdogQuiet
  BY <1>1, <1>3 DEF LoginDone, LoginFails, StillConnected, WatchdogQuiet
<1>4. CASE SendLogin \/ Keepalive \/ SendKeepalive \/ ReadNothing
  BY <1>1, <1>4 DEF SendLogin, Keepalive, SendKeepalive, ReadNothing
<1>5. CASE ReadMessage
  <2>1. /\ inbox # <<>> /\ inbox' = Tail(inbox) /\ open
        /\ UNCHANGED <<open, okSent>>
    BY <1>5 DEF ReadMessage, Reading, LoginOK, MainAt
  <2>2. PICK m : /\ m = Head(inbox)
                 /\ HandleJob(m) \/ HandleLogin(m) \/ HandleVerdict(m) \/ HandleOther(m)
    BY <1>5 DEF ReadMessage
  <2>3. /\ OkAt' = Shifted(OkAt) /\ OkAt \in SUBSET (Nat \ {0})
        /\ m.kind = "submit" /\ m.ok => 1 \in OkAt
    BY <2>1, <2>2, OkAtTail
  <2>4. /\ Numbered(OkAt', accepted, okSent)
        /\ 1 \in OkAt => accepted < okSent /\ Numbered(OkAt', accepted + 1, okSent)
    BY <1>0, <2>3, NumberedTail DEF Earned
  <2>5. CASE accepted' = accepted /\ (hasWork' = hasWork \/ hasWork')
    <3>1. Earned'
      BY <1>0, <2>1, <2>4, <2>5 DEF Earned
    <3>2. [Contract!Next]_(Contract!vars)
      BY <2>1, <2>5 DEF Contract!Next, Contract!GiveJob, Contract!vars
    <3> QED
      BY <3>1, <3>2 DEF ContractStep
  <2>6. CASE HandleVerdict(m) /\ m.ok /\ m.kind = "submit"
    <3>1. accepted' = accepted + 1 /\ hasWork' = hasWork /\ accepted < okSent
      BY <2>3, <2>4, <2>6 DEF HandleVerdict
    <3>2. Earned'
      BY <1>0, <2>1, <2>3, <2>4, <2>6, <3>1 DEF Earned
    <3>3. Contract!Credit
      BY <2>1, <3>1 DEF Contract!Credit
    <3> QED
      BY <3>2, <3>3 DEF ContractStep, Contract!Next
  <2> QED
    BY <2>2, <2>5, <2>6 DEF HandleJob, HandleLogin, HandleVerdict, HandleOther, ApplyJob
<1>6. CASE ReadThrows
  <2>1. inbox # <<>> /\ inbox' = Tail(inbox) /\ UNCHANGED <<open, hasWork, okSent, accepted>>
    BY <1>6 DEF ReadThrows
  <2>2. OkAt' = Shifted(OkAt) /\ OkAt \in SUBSET (Nat \ {0})
    BY <2>1, OkAtTail
  <2>3. Earned'
    BY <1>0, <2>1, <2>2, NumberedTail DEF Earned
  <2> QED
    BY <2>1, <2>3 DEF ContractStep, Contract!vars
<1>7. CASE Watchdog
  <2>1. inbox' = <<>> /\ ~open' /\ ~hasWork' /\ UNCHANGED <<okSent, accepted>>
    BY <1>7 DEF Watchdog, CloseConn
  <2>2. Earned'
    BY <1>0, <2>1, OkAtEmpty, NumberedEmpty DEF Earned
  <2>3. Contract!Lose
    BY <2>1 DEF Contract!Lose
  <2> QED
    BY <2>2, <2>3 DEF ContractStep, Contract!Next
<1>8. CASE Submit
  BY <1>1, <1>8 DEF Submit, SubmitBegin, SubmitId, SubmitSend
<1>9. ASSUME NEW r \in Request, NEW ok \in BOOLEAN, NEW job \in BOOLEAN,
             PoolAnswers(r, ok, job)
      PROVE  ContractStep
  <2> DEFINE m == [kind |-> r.kind, id |-> r.id, ok |-> ok, job |-> job]
  <2>1. m \in Message /\ inbox' = Append(inbox, m)
    BY <1>9 DEF PoolAnswers, TypeOK, Message, Request
  <2>2. okSent' = IF m.kind = "submit" /\ m.ok THEN okSent + 1 ELSE okSent
    BY <1>9 DEF PoolAnswers
  <2>3. open /\ UNCHANGED <<open, hasWork, accepted>>
    BY <1>9 DEF PoolAnswers
  <2> HIDE DEF m
  <2>4. CASE m.kind = "submit" /\ m.ok
    <3>1. Numbered(OkAt \cup {Len(inbox) + 1}, accepted, okSent + 1)
      BY <1>0, <2>1, OkAtAppend, NumberedAppend DEF Earned
    <3>2. Earned'
      <4>1. OkAt' = OkAt \cup {Len(inbox) + 1}
        BY <2>1, <2>4, OkAtAppend
      <4>2. okSent' = okSent + 1 /\ accepted' = accepted
        BY <2>2, <2>3, <2>4
      <4> QED
        BY <1>0, <3>1, <4>1, <4>2 DEF Earned
    <3>3. Contract!Grant
      BY <2>2, <2>3, <2>4 DEF Contract!Grant
    <3> QED
      BY <3>2, <3>3 DEF ContractStep, Contract!Next
  <2>5. CASE ~(m.kind = "submit" /\ m.ok)
    <3>1. okSent' = okSent /\ OkAt' = OkAt
      BY <2>1, <2>2, <2>5, OkAtAppend
    <3> QED
      BY <2>3, <3>1 DEF ContractStep, Earned, Contract!vars
  <2> QED
    BY <2>4, <2>5
<1>10. ASSUME NEW m \in Message, m.kind # "submit", inbox' = Append(inbox, m),
              UNCHANGED <<open, hasWork, okSent, accepted>>
       PROVE  ContractStep
  <2>1. OkAt' = OkAt
    BY <1>10, OkAtAppend
  <2> QED
    BY <1>10, <2>1 DEF ContractStep, Earned, Contract!vars
<1>11. ASSUME NEW wellFormed \in BOOLEAN, PoolSendsJob(wellFormed)
       PROVE  ContractStep
  <2> DEFINE m == [kind |-> "job", id |-> 0, ok |-> wellFormed, job |-> FALSE]
  <2>1. m \in Message /\ m.kind # "submit"
    BY SessionAssumption DEF Message
  <2>2. inbox' = Append(inbox, m) /\ UNCHANGED <<open, hasWork, okSent, accepted>>
    BY <1>11 DEF PoolSendsJob
  <2> QED
    BY <1>10, <2>1, <2>2
<1>12. CASE PoolSendsOdd
  <2> DEFINE m == [kind |-> "odd", id |-> 0, ok |-> FALSE, job |-> FALSE]
  <2>1. m \in Message /\ m.kind # "submit"
    BY SessionAssumption DEF Message
  <2>2. inbox' = Append(inbox, m) /\ UNCHANGED <<open, hasWork, okSent, accepted>>
    BY <1>12 DEF PoolSendsOdd
  <2> QED
    BY <1>10, <2>1, <2>2
<1>13. CASE LinkDrops
  <2>1. PICK n \in 0 .. Len(inbox) : inbox' = SubSeq(inbox, 1, n)
    BY <1>13 DEF LinkDrops
  <2>2. UNCHANGED <<open, hasWork, okSent, accepted>>
    BY <1>13 DEF LinkDrops
  <2>3. Numbered(OkAt', accepted, okSent)
    BY <2>1, OkAtPrefix, NumberedSub DEF Earned
  <2> QED
    BY <1>0, <2>2, <2>3 DEF ContractStep, Earned, Contract!vars
<1>14. CASE JobTimeout \/ KeepaliveTimeout
  BY <1>1, <1>14 DEF JobTimeout, KeepaliveTimeout
<1>15. CASE UNCHANGED vars
  BY <1>1, <1>15 DEF vars
<1> QED
  BY <1>2, <1>3, <1>4, <1>5, <1>6, <1>7, <1>8, <1>9, <1>11, <1>12, <1>13, <1>14, <1>15
     DEF Next, Main, Environment

\* MoneroClient is a PoolClient, for any number of connections, shares and
\* messages: the workers have a job only while connected, and no share is
\* counted as accepted that the pool did not accept, nor any twice, although
\* replies are told apart by ids that can collide.
THEOREM MoneroKeepsContract == Spec => KeepsContract
<1>1. Init => Contract!Init /\ Earned
  <2> SUFFICES ASSUME Init PROVE Contract!Init /\ Earned
    OBVIOUS
  <2>1. Contract!Init
    BY DEF Init, Contract!Init
  <2>2. OkAt = {}
    BY DEF Init, OkAt
  <2> QED
    BY <2>1, <2>2, NumberedEmpty DEF Init, Earned
<1>2. TypeOK /\ LoginOK /\ Earned /\ [Next]_vars => Earned' /\ [Contract!Next]_(Contract!vars)
  BY EarnedStep DEF ContractStep
<1> QED
  BY <1>1, <1>2, TypeInvariant, LoginInvariant, PTL DEF Spec, KeepsContract, Contract!Spec

-----------------------------------------------------------------------------
(* VerdictsCounted.  As long as no verdict has lost its submit, at most    *)
(* one share is under way, under the id the client remembers; its verdict  *)
(* is all that can keep the counts apart.                                  *)

IsVerdict(i) == inbox[i].kind = "submit"

\* A share is between its id and its send, with the pool, or on its way back,
\* in one of the three places only.
OneShare ==
    /\ wpc = "send" => lastSubmitId = wid /\ wid # loginId
    /\ \A r \in Request : r.kind = "submit" /\ requests[r] > 0 =>
          r.id = lastSubmitId /\ r.id # loginId /\ wpc # "send" /\ requests[r] = 1
    /\ \A i \in 1 .. Len(inbox) : IsVerdict(i) =>
          /\ inbox[i].id = lastSubmitId /\ inbox[i].id # loginId /\ wpc # "send"
          /\ \A r \in Request : r.kind = "submit" => requests[r] = 0
          /\ \A j \in 1 .. Len(inbox) : IsVerdict(j) => i = j

Balance ==
    \/ \E i \in 1 .. Len(inbox) : IsVerdict(i) /\ inbox[i].ok /\ okSent = accepted + 1
    \/ (\A i \in 1 .. Len(inbox) : ~(IsVerdict(i) /\ inbox[i].ok)) /\ okSent = accepted

Tracked == ~excused /\ mpc # "dead" => OneShare /\ Balance

\* Steps that touch neither the share nor the counts.
TrackedFrame == <<inbox, requests, okSent, accepted, loginId, lastSubmitId, wpc, wid, excused>>

LEMMA TrackedStays ==
    ASSUME Tracked, mpc # "dead", UNCHANGED TrackedFrame
    PROVE  Tracked'
  BY DEF Tracked, TrackedFrame, OneShare, Balance, IsVerdict

\* Without a message under way, nothing keeps the counts apart.
LEMMA TrackedEmpty ==
    ASSUME Len(inbox') = 0, okSent' = accepted',
           \A r \in Request : r.kind = "submit" => requests'[r] = 0,
           wpc' = "send" => lastSubmitId' = wid' /\ wid' # loginId'
    PROVE  Tracked'
  BY DEF Tracked, OneShare, Balance, IsVerdict

\* A request that is no submit changes nothing, unless it is a login that takes
\* the id of the share under way.
LEMMA TrackedRequest ==
    ASSUME Tracked, mpc # "dead", ~excused,
           \A r \in Request : r.kind = "submit" => requests'[r] = requests[r],
           UNCHANGED <<inbox, okSent, accepted, lastSubmitId, wpc, wid>>,
           loginId' = loginId \/ loginId' # lastSubmitId \/ ~(Outstanding \/ wpc = "send")
    PROVE  Tracked'
<1>1. OneShare /\ Balance
  BY DEF Tracked
<1>2. OneShare'
  BY <1>1 DEF OneShare, IsVerdict, Outstanding, VerdictSent
<1>3. Balance'
  BY <1>1 DEF Balance, IsVerdict
<1> QED
  BY <1>2, <1>3 DEF Tracked

\* A message that is no verdict changes nothing, one that comes and one that goes.
LEMMA TrackedAppend ==
    ASSUME TypeOK, Tracked, NEW m \in Message, m.kind # "submit", inbox' = Append(inbox, m),
           \A r \in Request : r.kind = "submit" => requests'[r] = requests[r], mpc' = mpc,
           UNCHANGED <<okSent, accepted, loginId, lastSubmitId, wpc, wid, excused>>
    PROVE  Tracked'
<1> SUFFICES ASSUME ~excused, mpc # "dead" PROVE OneShare' /\ Balance'
  BY DEF Tracked
<1>1. /\ Len(inbox) \in Nat /\ Len(inbox') = Len(inbox) + 1 /\ inbox'[Len(inbox) + 1] = m
      /\ \A i \in 1 .. Len(inbox) : inbox'[i] = inbox[i]
  BY InboxAppend, MessageTypes
<1>2. OneShare'
  BY <1>1 DEF Tracked, OneShare, IsVerdict
<1>3. Balance'
  <2>1. CASE \E i \in 1 .. Len(inbox) : IsVerdict(i) /\ inbox[i].ok /\ okSent = accepted + 1
    <3>1. PICK i \in 1 .. Len(inbox) : IsVerdict(i) /\ inbox[i].ok /\ okSent = accepted + 1
      BY <2>1
    <3>2. i \in 1 .. Len(inbox') /\ inbox'[i] = inbox[i]
      BY <1>1
    <3> QED
      BY <3>1, <3>2 DEF Balance, IsVerdict
  <2>2. CASE (\A i \in 1 .. Len(inbox) : ~(IsVerdict(i) /\ inbox[i].ok)) /\ okSent = accepted
    BY <1>1, <2>2 DEF Balance, IsVerdict
  <2> QED
    BY <2>1, <2>2 DEF Tracked, Balance
<1> QED
  BY <1>2, <1>3

LEMMA TrackedStep == TypeOK /\ IdRoom /\ LoginOK /\ Tracked /\ [Next]_vars => Tracked'
<1> SUFFICES ASSUME TypeOK, IdRoom, LoginOK, Tracked, [Next]_vars PROVE Tracked'
  OBVIOUS
<1> USE DEF conn, pool, client, clock, counts, jobs, worker
<1>0. /\ accepted \in Nat /\ okSent \in Nat /\ Len(inbox) \in Nat /\ nextId \in Nat
      /\ wid \in Nat /\ (Len(inbox) > 0 => inbox # <<>>)
  BY MessageTypes, SessionAssumption DEF TypeOK
<1>1. CASE mpc' = "dead" \/ excused'
  BY <1>1 DEF Tracked
<1>2. ASSUME mpc # "dead", UNCHANGED TrackedFrame PROVE Tracked'
  BY <1>2, TrackedStays
<1> SUFFICES ASSUME mpc' # "dead", ~excused' PROVE Tracked'
  BY <1>1
<1>3. CASE Connect
  <2>1. /\ Len(inbox') = 0 /\ Len(inbox) = 0 /\ mpc # "dead" /\ ~excused
        /\ UNCHANGED <<okSent, accepted, wpc, wid, lastSubmitId, loginId>>
        /\ requests' = NoRequests
    BY <1>3, MessageTypes, InboxEmpty DEF Connect, OpenConn, LoginOK
  <2>2. okSent = accepted /\ (wpc = "send" => lastSubmitId = wid /\ wid # loginId)
    BY <1>0, <2>1 DEF Tracked, OneShare, Balance
  <2> QED
    BY <2>1, <2>2, NoRequestsType, TrackedEmpty
<1>18. CASE SendLogin
  <2>1. /\ UNCHANGED <<inbox, okSent, accepted, lastSubmitId, wpc, wid>>
        /\ loginId' = mid /\ mpc # "dead" /\ Deliver("login", mid)
    BY <1>18 DEF SendLogin
  <2>2. ~excused /\ ~(mid = lastSubmitId /\ (Outstanding \/ wpc = "send"))
    BY <1>18 DEF SendLogin
  <2>3. \A r \in Request : r.kind = "submit" => requests'[r] = requests[r]
    BY <2>1, Delivered DEF TypeOK
  <2> QED
    BY <2>1, <2>2, <2>3, TrackedRequest
<1>4. CASE LoginDone \/ LoginFails \/ StillConnected \/ WatchdogQuiet
  BY <1>2, <1>4 DEF LoginDone, LoginFails, StillConnected, WatchdogQuiet, TrackedFrame
<1>5. CASE Keepalive
  BY <1>2, <1>5 DEF Keepalive, TrackedFrame
<1>19. CASE SendKeepalive
  <2>1. /\ UNCHANGED <<inbox, okSent, accepted, lastSubmitId, loginId, wpc, wid, excused>>
        /\ mpc # "dead" /\ Deliver("keepalive", mid)
    BY <1>19 DEF SendKeepalive
  <2>2. \A r \in Request : r.kind = "submit" => requests'[r] = requests[r]
    BY <2>1, Delivered DEF TypeOK
  <2> QED
    BY <2>1, <2>2, TrackedRequest
<1>6. CASE ReadNothing
  BY <1>2, <1>6 DEF ReadNothing, Reading, TrackedFrame
<1>7. CASE ReadMessage
  <2> SUFFICES OneShare' /\ Balance'
    BY DEF Tracked
  <2>1. /\ inbox # <<>> /\ inbox' = Tail(inbox) /\ mpc # "dead" /\ ~excused
        /\ UNCHANGED <<requests, okSent, loginId, lastSubmitId, wpc, wid, nextId>>
    BY <1>7 DEF ReadMessage, Reading
  <2>2. /\ OneShare /\ Balance
    BY <2>1 DEF Tracked
  <2>3. /\ Len(inbox') = Len(inbox) - 1 /\ Len(inbox) > 0 /\ 1 \in 1 .. Len(inbox)
        /\ \A i \in 1 .. Len(inbox') : i + 1 \in 1 .. Len(inbox) /\ inbox'[i] = inbox[i + 1]
        /\ Head(inbox) = inbox[1]
    BY <1>0, <2>1, InboxTail
  <2>4. OneShare'
    BY <1>0, <2>1, <2>2, <2>3 DEF OneShare, IsVerdict
  <2>5. PICK m : /\ m = inbox[1]
                 /\ HandleJob(m) \/ HandleLogin(m) \/ HandleVerdict(m) \/ HandleOther(m)
    BY <1>7, <2>3 DEF ReadMessage
  <2>6. CASE IsVerdict(1)
    <3>1. \A i \in 1 .. Len(inbox') : inbox'[i].kind # "submit"
      BY <1>0, <2>2, <2>3, <2>6 DEF OneShare, IsVerdict
    <3>2. m.kind = "submit" /\ m.id = lastSubmitId /\ m.id # loginId
      BY <2>2, <2>3, <2>5, <2>6 DEF OneShare, IsVerdict
    <3>3. HandleVerdict(m)
      BY <2>5, <3>2 DEF HandleJob, HandleLogin, HandleOther
    <3>4. okSent = IF m.ok THEN accepted + 1 ELSE accepted
      <4>1. \A i \in 1 .. Len(inbox) : IsVerdict(i) => i = 1
        BY <2>2, <2>3, <2>6 DEF OneShare
      <4> QED
        BY <2>2, <2>3, <2>5, <2>6, <4>1 DEF Balance
    <3>5. accepted' = IF m.ok THEN accepted + 1 ELSE accepted
      BY <3>2, <3>3 DEF HandleVerdict
    <3> QED
      BY <2>1, <2>4, <3>1, <3>4, <3>5 DEF Balance, IsVerdict
  <2>7. CASE ~IsVerdict(1)
    <3>1. accepted' = accepted
      BY <2>5, <2>7 DEF IsVerdict, HandleJob, HandleLogin, HandleVerdict, HandleOther
    <3>2. CASE \E i \in 1 .. Len(inbox) : IsVerdict(i) /\ inbox[i].ok /\ okSent = accepted + 1
      <4>1. PICK i \in 1 .. Len(inbox) : IsVerdict(i) /\ inbox[i].ok /\ okSent = accepted + 1
        BY <3>2
      <4>2. i # 1
        BY <2>7, <4>1
      <4>3. i - 1 \in 1 .. Len(inbox') /\ inbox'[i - 1] = inbox[i]
        BY <1>0, <2>3, <4>2
      <4> QED
        BY <2>1, <2>4, <3>1, <4>1, <4>3 DEF Balance, IsVerdict
    <3>3. CASE (\A i \in 1 .. Len(inbox) : ~(IsVerdict(i) /\ inbox[i].ok)) /\ okSent = accepted
      BY <2>1, <2>3, <2>4, <3>1, <3>3 DEF Balance, IsVerdict
    <3> QED
      BY <2>2, <3>2, <3>3 DEF Balance
  <2> QED
    BY <2>6, <2>7
<1>8. CASE ReadThrows
  BY <1>8 DEF ReadThrows
<1>9. CASE Watchdog
  <2>1. /\ Len(inbox') = 0 /\ mpc # "dead" /\ ~excused /\ ~VerdictSent /\ requests' = NoRequests
        /\ UNCHANGED <<okSent, accepted, wpc, wid, lastSubmitId, loginId, nextId>>
    BY <1>9, InboxEmpty DEF Watchdog, CloseConn
  <2>2. okSent = accepted
    BY <2>1 DEF Tracked, Balance, VerdictSent, IsVerdict
  <2>3. wpc = "send" => lastSubmitId = wid /\ wid # loginId
    BY <2>1 DEF Tracked, OneShare
  <2> QED
    BY <2>1, <2>2, <2>3, NoRequestsType, TrackedEmpty
<1>10. CASE SubmitBegin
  <2>1. /\ mpc # "dead" /\ ~excused /\ wpc = "idle" /\ wpc' = "inc"
        /\ UNCHANGED <<inbox, requests, okSent, accepted, loginId, lastSubmitId>>
    BY <1>10 DEF SubmitBegin
  <2> QED
    BY <2>1 DEF Tracked, OneShare, Balance, IsVerdict
<1>11. CASE SubmitId
  <2>1. /\ mpc # "dead" /\ ~excused /\ ~Outstanding /\ wid # loginId
        /\ wid' = wid /\ lastSubmitId' = wid /\ nextId' = wid + 1
        /\ UNCHANGED <<inbox, requests, okSent, accepted, loginId>>
    BY <1>11 DEF SubmitId
  <2>2. /\ \A i \in 1 .. Len(inbox') : ~IsVerdict(i)'
        /\ \A r \in Request : r.kind = "submit" => ~(requests'[r] > 0)
    BY <2>1 DEF Outstanding, VerdictSent, IsVerdict
  <2>3. OneShare'
    BY <1>0, <2>1, <2>2 DEF OneShare
  <2>4. Balance'
    BY <2>1 DEF Tracked, Balance, IsVerdict
  <2> QED
    BY <2>3, <2>4 DEF Tracked
<1>12. CASE SubmitSend
  <2>1. /\ mpc # "dead" /\ ~excused /\ wpc = "send" /\ wpc' = "idle"
        /\ UNCHANGED <<inbox, okSent, accepted, loginId, lastSubmitId>>
        /\ Deliver("submit", wid)
    BY <1>12 DEF SubmitSend
  <2>2. OneShare /\ Balance
    BY <2>1 DEF Tracked
  <2>3. /\ \A i \in 1 .. Len(inbox) : ~IsVerdict(i)
        /\ lastSubmitId = wid /\ wid # loginId
    BY <2>1, <2>2 DEF OneShare
  <2>4. \A r \in Request : r.kind = "submit" => requests[r] = 0
    BY <2>1, <2>2 DEF OneShare, TypeOK
  <2>8. /\ requests' \in [Request -> Nat]
        /\ \A r \in Request :
               /\ r # [kind |-> "submit", id |-> wid] => requests'[r] = requests[r]
               /\ requests'[r] <= requests[r] + 1
    <3>1. requests \in [Request -> Nat] /\ [kind |-> "submit", id |-> wid] \in Request
      BY DEF TypeOK, Request
    <3> QED
      BY <2>1, <3>1 DEF Deliver
  <2>5. \A r \in Request : r.kind = "submit" /\ requests'[r] > 0 =>
                               r.id = wid /\ requests'[r] = 1
    <3> SUFFICES ASSUME NEW r \in Request, r.kind = "submit", requests'[r] > 0
                 PROVE  r.id = wid /\ requests'[r] = 1
      OBVIOUS
    <3>1. requests[r] = 0 /\ requests'[r] \in Nat /\ requests'[r] <= requests[r] + 1
      BY <2>4, <2>8
    <3>2. r = [kind |-> "submit", id |-> wid] /\ requests'[r] = 1
      BY <2>8, <3>1
    <3> QED
      BY <3>2
  <2>6. OneShare'
    BY <2>1, <2>3, <2>5 DEF OneShare, IsVerdict
  <2>7. Balance'
    BY <2>1, <2>2 DEF Balance, IsVerdict
  <2> QED
    BY <2>6, <2>7 DEF Tracked
<1>13. ASSUME NEW r \in Request, NEW ok \in BOOLEAN, NEW job \in BOOLEAN,
              PoolAnswers(r, ok, job)
       PROVE  Tracked'
  <2> DEFINE m == [kind |-> r.kind, id |-> r.id, ok |-> ok, job |-> job]
  <2>1. m \in Message /\ inbox' = Append(inbox, m) /\ m.kind = r.kind /\ m.id = r.id
    BY <1>13 DEF PoolAnswers, TypeOK, Message, Request
  <2>2. okSent' = IF m.kind = "submit" /\ m.ok THEN okSent + 1 ELSE okSent
    BY <1>13 DEF PoolAnswers
  <2>3. /\ requests[r] > 0 /\ requests' = [requests EXCEPT ![r] = @ - 1]
        /\ mpc # "dead" /\ ~excused
        /\ UNCHANGED <<accepted, loginId, lastSubmitId, wpc, wid, excused, mpc>>
    BY <1>13 DEF PoolAnswers
  <2>6. /\ \A q \in Request : q # r => requests'[q] = requests[q]
        /\ requests'[r] = requests[r] - 1 /\ \A q \in Request : requests[q] \in Nat
    BY <2>3 DEF TypeOK
  <2> HIDE DEF m
  <2>4. CASE m.kind # "submit"
    BY <2>1, <2>2, <2>3, <2>4, <2>6, TrackedAppend
  <2>5. CASE m.kind = "submit"
    <3>1. OneShare /\ Balance
      BY <2>3 DEF Tracked
    <3>2. /\ r.id = lastSubmitId /\ r.id # loginId /\ wpc # "send"
          /\ \A i \in 1 .. Len(inbox) : ~IsVerdict(i)
          /\ \A q \in Request : q.kind = "submit" => requests'[q] = 0
      <4>1. \A i \in 1 .. Len(inbox) : ~IsVerdict(i)
        <5>1. r.kind = "submit" /\ requests[r] # 0
          BY <2>1, <2>3, <2>5, <2>6
        <5> QED
          BY <3>1, <5>1 DEF OneShare
      <4>2. r.id = lastSubmitId /\ r.id # loginId /\ wpc # "send" /\ requests[r] = 1
        BY <2>1, <2>3, <2>5, <3>1 DEF OneShare
      <4>3. ASSUME NEW q \in Request, q.kind = "submit" PROVE requests'[q] = 0
        <5>1. CASE q = r
          BY <2>6, <4>2, <5>1
        <5>2. CASE q # r
          <6>1. q.id # r.id
            <7>1. r.kind = "submit" /\ q.kind = "submit"
              BY <2>1, <2>5, <4>3
            <7> QED
              BY <5>2, <7>1 DEF Request
          <6>2. ~(requests[q] > 0)
            BY <3>1, <4>2, <4>3, <6>1 DEF OneShare
          <6> QED
            BY <2>6, <5>2, <6>2
        <5> QED
          BY <5>1, <5>2
      <4> QED
        BY <4>1, <4>2, <4>3
    <3>3. okSent = accepted
      BY <3>1, <3>2 DEF Balance
    <3>4. /\ Len(inbox') = Len(inbox) + 1 /\ inbox'[Len(inbox) + 1] = m
          /\ \A i \in 1 .. Len(inbox) : inbox'[i] = inbox[i]
      BY <2>1, InboxAppend
    <3>5. \A i \in 1 .. Len(inbox') : inbox'[i].kind = "submit" => i = Len(inbox')
      BY <1>0, <3>2, <3>4 DEF IsVerdict
    <3>6. Len(inbox') \in 1 .. Len(inbox') /\ inbox'[Len(inbox')] = m
      BY <1>0, <3>4
    <3>7. OneShare'
      BY <2>1, <2>3, <3>2, <3>5, <3>6 DEF OneShare, IsVerdict
    <3>8. Balance'
      <4>1. CASE m.ok
        BY <2>2, <2>3, <2>5, <3>3, <3>6, <4>1 DEF Balance, IsVerdict
      <4>2. CASE ~m.ok
        BY <2>2, <2>3, <3>3, <3>5, <3>6, <4>2 DEF Balance, IsVerdict
      <4> QED
        BY <4>1, <4>2
    <3> QED
      BY <3>7, <3>8 DEF Tracked
  <2> QED
    BY <2>4, <2>5
<1>14. ASSUME NEW wellFormed \in BOOLEAN, PoolSendsJob(wellFormed)
       PROVE  Tracked'
  <2> DEFINE m == [kind |-> "job", id |-> 0, ok |-> wellFormed, job |-> FALSE]
  <2>1. m \in Message /\ m.kind # "submit"
    BY SessionAssumption DEF Message
  <2>2. /\ inbox' = Append(inbox, m) /\ requests' = requests /\ mpc' = mpc
        /\ UNCHANGED <<okSent, accepted, loginId, lastSubmitId, wpc, wid, excused>>
    BY <1>14 DEF PoolSendsJob
  <2> QED
    BY <2>1, <2>2, TrackedAppend
<1>15. CASE PoolSendsOdd
  <2> DEFINE m == [kind |-> "odd", id |-> 0, ok |-> FALSE, job |-> FALSE]
  <2>1. m \in Message /\ m.kind # "submit"
    BY SessionAssumption DEF Message
  <2>2. /\ inbox' = Append(inbox, m) /\ requests' = requests /\ mpc' = mpc
        /\ UNCHANGED <<okSent, accepted, loginId, lastSubmitId, wpc, wid, excused>>
    BY <1>15 DEF PoolSendsOdd
  <2> QED
    BY <2>1, <2>2, TrackedAppend
<1>16. CASE LinkDrops
  <2>1. PICK n \in 0 .. Len(inbox) :
            /\ inbox' = SubSeq(inbox, 1, n)
            /\ excused' = (excused \/ \E i \in n + 1 .. Len(inbox) : inbox[i].kind = "submit")
    BY <1>16 DEF LinkDrops
  <2>2. mpc # "dead" /\ UNCHANGED <<requests, okSent, accepted, loginId, lastSubmitId, wpc, wid>>
    BY <1>16 DEF LinkDrops, pool
  <2>3. ~excused /\ \A i \in n + 1 .. Len(inbox) : ~IsVerdict(i)
    BY <2>1 DEF IsVerdict
  <2>4. OneShare /\ Balance
    BY <2>2, <2>3 DEF Tracked
  <2>5. /\ Len(inbox') = n /\ n \in Nat /\ n <= Len(inbox)
        /\ \A i \in 1 .. n : i \in 1 .. Len(inbox) /\ inbox'[i] = inbox[i]
        /\ \A i \in 1 .. Len(inbox) : IsVerdict(i) => i \in 1 .. n
    BY <1>0, <2>1, <2>3, InboxPrefix
  <2>6. OneShare'
    BY <2>2, <2>4, <2>5 DEF OneShare, IsVerdict
  <2>7. Balance'
    <3>1. CASE \E i \in 1 .. Len(inbox) : IsVerdict(i) /\ inbox[i].ok /\ okSent = accepted + 1
      BY <2>2, <2>5, <3>1 DEF Balance, IsVerdict
    <3>2. CASE (\A i \in 1 .. Len(inbox) : ~(IsVerdict(i) /\ inbox[i].ok)) /\ okSent = accepted
      BY <2>2, <2>5, <3>2 DEF Balance, IsVerdict
    <3> QED
      BY <2>4, <3>1, <3>2 DEF Balance
  <2> QED
    BY <2>6, <2>7 DEF Tracked
<1>17. CASE JobTimeout \/ KeepaliveTimeout \/ UNCHANGED vars
  <2>1. UNCHANGED TrackedFrame /\ mpc' = mpc
    BY <1>17 DEF JobTimeout, KeepaliveTimeout, vars, TrackedFrame
  <2> QED
    BY <1>2, <2>1
<1> QED
  BY <1>3, <1>4, <1>5, <1>6, <1>7, <1>8, <1>9, <1>10, <1>11, <1>12, <1>13, <1>14,
     <1>15, <1>16, <1>17, <1>18, <1>19
     DEF Next, Main, Submit, Environment

\* A share the pool accepts is counted, unless the next one was submitted or the
\* connection lost or given up before its verdict was read, or a login took its
\* id, each thread reading next_id_ before the other writes it: no
\* other order of the two threads, the pool and the clock loses one.
THEOREM NoVerdictLost == Spec => []VerdictsCounted
<1>1. Init => Tracked
  BY NoRequestsType DEF Init, Tracked, OneShare, Balance, IsVerdict
<1>2. Tracked => VerdictsCounted
  BY DEF Tracked, Balance, IsVerdict, VerdictsCounted, VerdictSent
<1> QED
  BY <1>1, <1>2, TrackedStep, TypeInvariant, LoginInvariant, PTL DEF Spec

=============================================================================
