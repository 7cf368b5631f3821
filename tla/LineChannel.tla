---------------------------- MODULE LineChannel ----------------------------
(***************************************************************************)
(* What the pool clients take a connection for: a queue of whole messages. *)
(* MoneroSession and StratumSession are written over this abstraction;     *)
(* TcpClient shows that read_line provides it on a stream of bytes.        *)
(***************************************************************************)
EXTENDS Naturals, Sequences

VARIABLES
    connected,  \* is_open()
    inbox,      \* complete messages that have arrived and were not read
    message     \* the last message handed to the caller

vars == <<connected, inbox, message>>

Init == ~connected /\ inbox = <<>> /\ message = <<>>

\* A new connection starts with nothing left over from the one before.
Open == connected' /\ inbox' = <<>> /\ UNCHANGED message

Shut == ~connected' /\ inbox' = <<>> /\ UNCHANGED message

\* A message arrives whole: it joins the end of the queue.
Arrive ==
    /\ connected
    /\ Len(inbox') = Len(inbox) + 1 /\ SubSeq(inbox', 1, Len(inbox)) = inbox
    /\ UNCHANGED <<connected, message>>

\* Messages are handed over in the order they came in, each of them once.
Receive ==
    /\ connected /\ inbox # <<>>
    /\ message' = Head(inbox) /\ inbox' = Tail(inbox)
    /\ UNCHANGED connected

\* The connection breaks: what had not reached the client yet may be lost.
Break ==
    /\ connected
    /\ inbox' \in {SubSeq(inbox, 1, n) : n \in 0 .. Len(inbox)}
    /\ UNCHANGED <<connected, message>>

Next == Open \/ Shut \/ Arrive \/ Receive \/ Break

Spec == Init /\ [][Next]_vars

=============================================================================
