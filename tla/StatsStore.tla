----------------------------- MODULE StatsStore -----------------------------
(***************************************************************************)
(* The lifetime totals: StatsStore::load and save                          *)
(* (src/src/telemetry/stats_store.cpp) and the persist lambda of cmd_run   *)
(* (src/src/app/main.cpp), over a file system on which a step may fail and *)
(* a process that may be killed between any two steps.  Of the totals only *)
(* the accepted shares and the sessions are kept; rejected, hashes and     *)
(* uptime_s are added to base in the same way as accepted.                 *)
(***************************************************************************)
EXTENDS Naturals

CONSTANTS
    Missing,      \* no file of that name
    Torn,         \* an empty or partial file: load() treats it as all zero
    MaxAccepted,  \* bound: accepted shares over all sessions
    MaxSessions   \* bound: sessions

Totals == [accepted : Nat, sessions : Nat]
Zero == [accepted |-> 0, sessions |-> 0]

ASSUME StatsAssumption ==
    /\ Missing \notin Totals /\ Torn \notin Totals /\ Missing # Torn
    /\ MaxAccepted \in Nat /\ MaxSessions \in Nat

VARIABLES
    file,         \* what path_ holds
    tmp,          \* what path_.tmp holds
    pc,           \* "down", "run", or the step of save() that comes next
    base,         \* base: the totals loaded by this session
    accepted,     \* metrics.accepted() of this session
    snap,         \* the argument of the save() in progress
    final,        \* the save() in progress is persist(true)
    saved,        \* history: the totals the last complete save() put in place
    everAccepted, \* history: shares accepted in all sessions
    everSessions, \* history: sessions started
    damaged,      \* history: a failure or a kill has damaged path_
    unread        \* history: load() of this session could not read path_

disk    == <<file, tmp>>
session == <<base, accepted, snap, final>>
history == <<saved, everAccepted, everSessions, damaged, unread>>
vars    == <<disk, pc, session, history>>

Init ==
    /\ file = Missing /\ tmp = Missing /\ pc = "down"
    /\ base = Zero /\ accepted = 0 /\ snap = Zero /\ final = FALSE
    /\ saved = Zero /\ everAccepted = 0 /\ everSessions = 0 /\ damaged = FALSE
    /\ unread = FALSE

-----------------------------------------------------------------------------
\* Fault: load() does not tell a missing or unreadable file from a good one.
LoadedUnchecked == file

\* What load() makes of a file it can open: one that does not parse counts as
\* all zero, as a missing one does.
Loaded == IF file \in {Missing, Torn} THEN Zero ELSE file

\* A session starts with stats.load(), which also returns all zero when a good
\* file cannot be opened or read now (a lock, permissions, descriptors, I/O).
Load ==
    /\ pc = "down" /\ everSessions < MaxSessions
    /\ unread' \in BOOLEAN
    /\ base' = IF unread' THEN Zero ELSE Loaded
    /\ accepted' = 0 /\ snap' = Zero /\ final' = FALSE
    /\ everSessions' = everSessions + 1
    /\ pc' = "run"
    /\ UNCHANGED <<disk, saved, everAccepted, damaged>>

ShareAccepted ==
    /\ pc = "run" /\ everAccepted < MaxAccepted
    /\ accepted' = accepted + 1
    /\ everAccepted' = everAccepted + 1
    /\ UNCHANGED <<disk, pc, base, snap, final, saved, everSessions, damaged, unread>>

\* Fault: persist() adds the session's counters to what the file holds now.
LifetimeStatsOnFile ==
    [accepted |-> Loaded.accepted + accepted, sessions |-> Loaded.sessions + 1]

\* What persist() hands to save(): the loaded totals plus this session's.
LifetimeStats ==
    [accepted |-> base.accepted + accepted, sessions |-> base.sessions + 1]

\* persist(f), every 30 s and, with f TRUE, once after the loop.
Persist(f) ==
    /\ pc = "run"
    /\ snap' = LifetimeStats /\ final' = f
    /\ pc' = "open"
    /\ UNCHANGED <<disk, base, accepted, history>>

\* Where the program goes when save() returns.
Return == pc' = IF final THEN "down" ELSE "run"

\* Fault: save() truncates path_ itself, where no temporary file is meant.
OpenInPlace ==
    /\ pc = "open"
    /\ \/ tmp' = Torn /\ file' = Torn /\ pc' = "write"
       \/ Return /\ UNCHANGED disk
    /\ UNCHANGED <<session, history>>

\* The ofstream truncates path_.tmp, or cannot be opened and save() gives up.
OpenTmp ==
    /\ pc = "open"
    /\ \/ tmp' = Torn /\ pc' = "write"
       \/ Return /\ UNCHANGED tmp
    /\ UNCHANGED <<file, session, history>>

\* The write is not checked: a full disk leaves a partial file and save() goes
\* on.
WriteTmp ==
    /\ pc = "write"
    /\ tmp' \in {snap, Torn}
    /\ pc' = "remove"
    /\ UNCHANGED <<file, session, history>>

\* std::remove(path_), whose result is ignored.
RemoveOld ==
    /\ pc = "remove"
    /\ file' \in {file, Missing}
    /\ pc' = "rename"
    /\ UNCHANGED <<tmp, session, history>>

RenameTmp ==
    /\ pc = "rename"
    /\ \/ /\ file' = tmp /\ tmp' = Missing
          /\ saved' = IF tmp = Torn THEN saved ELSE tmp
          /\ damaged' = (tmp = Torn)
       \/ /\ damaged' = (damaged \/ file = Missing)
          /\ UNCHANGED <<disk, saved>>
    /\ Return
    /\ UNCHANGED <<session, everAccepted, everSessions, unread>>

\* The process is killed, or an exception ends it without a final persist().
Crash ==
    /\ pc # "down"
    /\ damaged' = (damaged \/ (pc = "rename" /\ file = Missing))
    /\ pc' = "down"
    /\ UNCHANGED <<disk, session, saved, everAccepted, everSessions, unread>>

Next ==
    \/ Load \/ ShareAccepted \/ (\E f \in BOOLEAN : Persist(f))
    \/ OpenTmp \/ WriteTmp \/ RemoveOld \/ RenameTmp \/ Crash

Spec == Init /\ [][Next]_vars

-----------------------------------------------------------------------------
\* Every variable has its type.
TypeOK ==
    /\ file \in Totals \cup {Missing, Torn} /\ tmp \in Totals \cup {Missing, Torn}
    /\ pc \in {"down", "run", "open", "write", "remove", "rename"}
    /\ base \in Totals /\ accepted \in Nat /\ snap \in Totals
    /\ final \in BOOLEAN
    /\ saved \in Totals /\ everAccepted \in Nat /\ everSessions \in Nat
    /\ damaged \in BOOLEAN /\ unread \in BOOLEAN

\* No share and no session is ever counted twice, whatever is killed or fails:
\* neither file ever claims more than what happened, although persist() is
\* called many times in a session and base was itself written by persist().
NoDoubleCount ==
    \A f \in {file, tmp} :
        f \in {Missing, Torn}
        \/ (f.accepted <= everAccepted /\ f.sessions <= everSessions)

\* What a session adds to the loaded totals has happened: the strengthening that
\* makes NoDoubleCount inductive.
CountedOnce ==
    /\ NoDoubleCount
    /\ snap.accepted <= everAccepted /\ snap.sessions <= everSessions
    /\ pc # "down" =>
          /\ base.accepted + accepted <= everAccepted
          /\ base.sessions + 1 <= everSessions

\* std::rename never finds path_.tmp missing: it was written just before.
TmpWritten == pc \in {"remove", "rename"} => tmp # Missing

\* An undamaged path_ holds the totals of the last complete save(), except
\* between std::remove and std::rename.
SavedInPlace == ~damaged => Loaded = saved \/ (pc = "rename" /\ file = Missing)

Covers(t, u) == t.accepted >= u.accepted /\ t.sessions >= u.sessions

\* What a session that has read its base builds on the last complete save().
Accumulates ==
    /\ pc \in {"remove", "rename"} => tmp \in {snap, Torn}
    /\ pc \notin {"down", "run"} => Covers(LifetimeStats, snap)
    /\ pc # "down" /\ ~damaged /\ ~unread =>
          /\ Covers(LifetimeStats, saved)
          /\ pc # "run" => Covers(snap, saved)

\* Saved totals are lost in two ways only.  A failed step, or a kill between
\* std::remove and std::rename, damages the file; a kill anywhere else in save()
\* is harmless.  Or load() cannot read a good file, and the next save() of that
\* session puts its own totals in place.  Otherwise a session starts from the
\* totals of the last complete save(), and no later save() puts less in place.
LossOnlyByFailure ==
    [][~damaged => /\ pc = "down" /\ pc' = "run" /\ ~unread' => base' = saved
                   /\ ~unread => Covers(saved', saved)]_vars

=============================================================================
