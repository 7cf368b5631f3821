---------------------------- MODULE PoolContract ----------------------------
(***************************************************************************)
(* What cmd_run takes a PoolClient (src/src/pool/pool_client.hpp) for,     *)
(* whatever its protocol: work comes from a connection and ends with it,   *)
(* and on_submit_result reports shares that the pool has accepted.  The    *)
(* specifications of the two clients implement this one.                   *)
(***************************************************************************)
EXTENDS Naturals

VARIABLES
    connected,   \* connected()
    redirected,  \* the pool ended the last connection by asking for another
    working,     \* the workers have a job
    granted,     \* shares the pool has accepted
    credited     \* shares the miner counts as accepted

vars == <<connected, redirected, working, granted, credited>>

Init == ~connected /\ ~redirected /\ ~working /\ granted = 0 /\ credited = 0

Connect ==
    /\ ~connected /\ connected'
    /\ UNCHANGED <<redirected, working, granted, credited>>

\* on_job: only a connected client has a job to give.
GiveJob ==
    /\ connected /\ working'
    /\ UNCHANGED <<connected, redirected, granted, credited>>

\* disconnect() and clear_work() go together.
Lose ==
    /\ ~connected' /\ ~redirected' /\ ~working'
    /\ UNCHANGED <<granted, credited>>

\* client.reconnect: the workers keep their job on the way to another server.
Redirect ==
    /\ connected /\ ~connected' /\ redirected'
    /\ UNCHANGED <<working, granted, credited>>

Grant ==
    /\ connected /\ granted' = granted + 1
    /\ UNCHANGED <<connected, redirected, working, credited>>

\* on_submit_result(true): for a share that the pool has accepted, once.
Credit ==
    /\ connected /\ credited < granted /\ credited' = credited + 1
    /\ UNCHANGED <<connected, redirected, working, granted>>

Next == Connect \/ GiveJob \/ Lose \/ Redirect \/ Grant \/ Credit

Spec == Init /\ [][Next]_vars

=============================================================================
