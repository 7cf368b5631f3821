----------------------------- MODULE TcpClient -----------------------------
(***************************************************************************)
(* TcpClient (src/src/net/tcp_client.cpp): lines cut out of a stream of    *)
(* bytes that recv() returns in pieces of any size.  The caller is the     *)
(* main thread: poll() calls read_line, the loop and handle_line call      *)
(* connect and close.  A byte is "lf", "cr" or another one.                *)
(***************************************************************************)
EXTENDS Naturals, SequencesExt

CONSTANTS
    Chunk,      \* sizeof(buf) in read_line (4096)
    MaxLine,    \* the runaway line guard (2^20)
    MaxStream,  \* bound: bytes a peer sends on one connection
    MaxConns    \* bound: connections

ASSUME TcpAssumption ==
    /\ Chunk \in Nat \ {0} /\ MaxLine \in Nat
    /\ MaxStream \in Nat /\ MaxConns \in Nat

Byte == {"x", "cr", "lf"}

VARIABLES
    sock,   \* is_open()
    rx,     \* rx_
    out,    \* the caller's string that read_line fills
    pc,     \* "idle", or "read" inside the loop of read_line
    peer,   \* "up", or "gone" once the peer has closed its end
    wire,   \* external: bytes in the kernel's receive buffer
    sent,   \* external: bytes the peer has sent on this connection
    conns   \* connections made

vars == <<sock, rx, out, pc, peer, wire, sent, conns>>

Init ==
    /\ sock = FALSE /\ rx = <<>> /\ out = <<>> /\ pc = "idle"
    /\ peer = "gone" /\ wire = <<>> /\ sent = 0 /\ conns = 0

-----------------------------------------------------------------------------
\* connect() closes first; the loop only calls it on a closed client.
Connect ==
    /\ pc = "idle" /\ ~sock /\ conns < MaxConns
    /\ sock' = TRUE /\ peer' = "up" /\ rx' = <<>> /\ wire' = <<>> /\ sent' = 0
    /\ conns' = conns + 1
    /\ UNCHANGED <<out, pc>>

\* Fault: close() keeps rx_, and connect() relies on it.
CloseKeepsBuffer ==
    /\ pc = "idle" /\ sock
    /\ sock' = FALSE /\ peer' = "gone" /\ wire' = <<>>
    /\ UNCHANGED <<rx, out, pc, sent, conns>>

\* close(), by disconnect() or on client.reconnect, drops rx_ as well.
Close ==
    /\ pc = "idle" /\ sock
    /\ sock' = FALSE /\ peer' = "gone" /\ rx' = <<>> /\ wire' = <<>>
    /\ UNCHANGED <<out, pc, sent, conns>>

-----------------------------------------------------------------------------
(* read_line.                                                              *)

ReadLine ==
    /\ pc = "idle" /\ sock
    /\ pc' = "read"
    /\ UNCHANGED <<sock, rx, out, peer, wire, sent, conns>>

HasLine == Contains(rx, "lf")

\* One carriage return before the line feed belongs to the line end.
Trim(line) ==
    IF line # <<>> /\ Last(line) = "cr" THEN Front(line) ELSE line

\* rx_ holds a line feed: what is before it is the line.
TakeLine ==
    /\ pc = "read" /\ HasLine
    /\ LET nl == SelectInSeq(rx, LAMBDA b : b = "lf")
       IN  /\ out' = Trim(SubSeq(rx, 1, nl - 1))
           /\ rx' = SubSeq(rx, nl + 1, Len(rx))
    /\ pc' = "idle"
    /\ UNCHANGED <<sock, peer, wire, sent, conns>>

\* Fault: the guard throws away what it found too long.
RecvDiscards ==
    /\ pc = "read" /\ ~HasLine /\ wire # <<>>
    /\ \E n \in 1 .. Chunk :
          /\ n <= Len(wire)
          /\ rx' = IF Len(rx) + n > MaxLine THEN <<>> ELSE rx \o SubSeq(wire, 1, n)
          /\ wire' = SubSeq(wire, n + 1, Len(wire))
          /\ pc' = IF Len(rx) + n > MaxLine THEN "idle" ELSE "read"
    /\ UNCHANGED <<sock, out, peer, sent, conns>>

\* Fault: the guard comes before recv(), so that a long line blocks the client.
RecvGuardFirst ==
    /\ pc = "read" /\ ~HasLine /\ wire # <<>>
    /\ IF Len(rx) > MaxLine
       THEN pc' = "idle" /\ UNCHANGED <<rx, wire>>
       ELSE \E n \in 1 .. Chunk :
              /\ n <= Len(wire)
              /\ rx' = rx \o SubSeq(wire, 1, n)
              /\ wire' = SubSeq(wire, n + 1, Len(wire))
              /\ UNCHANGED pc
    /\ UNCHANGED <<sock, out, peer, sent, conns>>

\* recv() returns some of the bytes that are there.  Over the guard read_line
\* gives up for this time, with the bytes kept.
Recv ==
    /\ pc = "read" /\ ~HasLine /\ wire # <<>>
    /\ \E n \in 1 .. Chunk :
          /\ n <= Len(wire)
          /\ rx' = rx \o SubSeq(wire, 1, n)
          /\ wire' = SubSeq(wire, n + 1, Len(wire))
    /\ pc' = IF Len(rx') > MaxLine THEN "idle" ELSE "read"
    /\ UNCHANGED <<sock, out, peer, sent, conns>>

\* Nothing there before the timeout, or the end of the stream: read_line returns
\* false, with an unfinished line left in rx_.
RecvFails ==
    /\ pc = "read" /\ ~HasLine /\ wire = <<>>
    /\ pc' = "idle"
    /\ UNCHANGED <<sock, rx, out, peer, wire, sent, conns>>

-----------------------------------------------------------------------------
PeerSends(b) ==
    /\ peer = "up" /\ sent < MaxStream
    /\ wire' = Append(wire, b) /\ sent' = sent + 1
    /\ UNCHANGED <<sock, rx, out, pc, peer, conns>>

PeerCloses ==
    /\ peer = "up" /\ peer' = "gone"
    /\ UNCHANGED <<sock, rx, out, pc, wire, sent, conns>>

\* A reset drops what recv() has not returned yet.
PeerResets ==
    /\ peer = "up" /\ peer' = "gone" /\ wire' = <<>>
    /\ UNCHANGED <<sock, rx, out, pc, sent, conns>>

Read == TakeLine \/ Recv \/ RecvFails

Next ==
    \/ Connect \/ Close \/ ReadLine \/ Read
    \/ PeerCloses \/ PeerResets \/ \E b \in Byte : PeerSends(b)

Spec == Init /\ [][Next]_vars

\* The loop of cmd_run polls an open client again and again, and a read_line
\* that has begun goes on; nobody has to connect, close or send.
Fairness == WF_vars(ReadLine) /\ WF_vars(Read)

FairSpec == Spec /\ Fairness

-----------------------------------------------------------------------------
\* Every variable has its type.
TypeOK ==
    /\ sock \in BOOLEAN /\ pc \in {"idle", "read"} /\ peer \in {"up", "gone"}
    /\ rx \in Seq(Byte) /\ out \in Seq(Byte) /\ wire \in Seq(Byte)
    /\ sent \in 0 .. MaxStream /\ conns \in 0 .. MaxConns
    /\ pc = "read" => sock
    /\ ~sock => rx = <<>>

\* The complete lines of a stream, by a definition that knows no buffer: line k
\* is what lies between line feed k - 1 (or the start) and line feed k.
Feeds(stream) == {i \in 1 .. Len(stream) : stream[i] = "lf"}

Upto(places, p) == {i \in places : i <= p}

\* The k-th of a set of places, and the start before the first one.
Place(places, k) ==
    IF k = 0 THEN 0 ELSE CHOOSE p \in places : Cardinality(Upto(places, p)) = k

Line(stream, k) ==
    LET End(n) == Place(Feeds(stream), n)
    IN  Trim(SubSeq(stream, End(k - 1) + 1, End(k) - 1))

Lines(stream) == [k \in 1 .. Cardinality(Feeds(stream)) |-> Line(stream, k)]

Pending == Lines(rx \o wire)

Channel == INSTANCE LineChannel
               WITH connected <- sock, inbox <- Pending, message <- out

\* However recv() cuts the stream, and whether or not the guard has fired,
\* read_line hands over exactly the lines that were sent on this connection, in
\* their order and once each: the client is a queue of messages.
IsAChannel == Channel!Spec

\* Every complete line is handed over as long as the client is polled, also one
\* longer than the guard, and the lines behind it.
LinesAreRead == (Pending # <<>>) ~> (Pending = <<>>)

=============================================================================
