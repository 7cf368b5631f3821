--------------------------- MODULE ShutdownProofs ---------------------------
(***************************************************************************)
(* A session of cmd_run from launch to exit, for any number of sessions,   *)
(* shares, hashes, scrapes and failures: it uses the statistics file as    *)
(* StatsStore says, no thread outlives what it uses, the final save() is   *)
(* complete, and the sampling windows tile the hashes.                     *)
(***************************************************************************)
EXTENDS Shutdown, TLAPS

-----------------------------------------------------------------------------
(* load(), persist() and save() on their own: the totals never count       *)
(* anything twice, and are only lost in the two ways save() leaves open.   *)


LEMMA ZeroType == Zero \in Totals
  BY DEF Zero, Totals

LEMMA LoadedType == TypeOK => Loaded \in Totals
  BY ZeroType DEF TypeOK, Loaded

LEMMA LifetimeType ==
    TypeOK => /\ LifetimeStats \in Totals
              /\ LifetimeStats.accepted = base.accepted + accepted
              /\ LifetimeStats.sessions = base.sessions + 1
  BY DEF TypeOK, LifetimeStats, Totals

LEMMA TmpStep == TypeOK /\ TmpWritten /\ [Next]_vars => TmpWritten'
<1> SUFFICES ASSUME TypeOK, TmpWritten, [Next]_vars PROVE TmpWritten'
  OBVIOUS
<1> USE DEF TmpWritten
<1>1. CASE WriteTmp
  BY <1>1, StatsAssumption DEF WriteTmp, TypeOK
<1>2. CASE RemoveOld
  BY <1>2 DEF RemoveOld
<1>3. CASE Load \/ ShareAccepted \/ Crash \/ \E f \in BOOLEAN : Persist(f)
  BY <1>3 DEF Load, ShareAccepted, Crash, Persist
<1>4. CASE OpenTmp \/ RenameTmp
  BY <1>4 DEF OpenTmp, RenameTmp, Return
<1>5. CASE UNCHANGED vars
  BY <1>5 DEF vars, disk
<1> QED
  BY <1>1, <1>2, <1>3, <1>4, <1>5 DEF Next

LEMMA TypeStep == TypeOK /\ TmpWritten /\ [Next]_vars => TypeOK'
<1> SUFFICES ASSUME TypeOK, TmpWritten, [Next]_vars PROVE TypeOK'
  OBVIOUS
<1> USE DEF TypeOK
<1>1. CASE Load
  <2>1. final' \in BOOLEAN
    BY <1>1 DEF Load
  <2>2. damaged' \in BOOLEAN /\ unread' \in BOOLEAN
    BY <1>1 DEF Load
  <2>3. base' \in Totals
    BY <1>1, LoadedType, ZeroType DEF Load
  <2> QED
    BY <1>1, <2>1, <2>2, <2>3, ZeroType DEF Load, disk
<1>2. CASE ShareAccepted
  BY <1>2 DEF ShareAccepted, disk
<1>3. ASSUME NEW f \in BOOLEAN, Persist(f)
      PROVE  TypeOK'
  BY <1>3, LifetimeType DEF Persist, disk, history
<1>4. CASE OpenTmp
  BY <1>4 DEF OpenTmp, Return, session, history
<1>5. CASE WriteTmp
  BY <1>5 DEF WriteTmp, session, history
<1>6. CASE RemoveOld
  BY <1>6 DEF RemoveOld, session, history
<1>7. CASE RenameTmp
  <2>1. pc' \in {"down", "run"}
    BY <1>7 DEF RenameTmp, Return
  <2>2. saved' \in Totals
    BY <1>7 DEF RenameTmp, TmpWritten
  <2>3. damaged' \in BOOLEAN
    BY <1>7, Zenon DEF RenameTmp
  <2> QED
    BY <1>7, <2>1, <2>2, <2>3 DEF RenameTmp, disk, session
<1>8. CASE Crash
  <2>1. damaged' \in BOOLEAN
    BY <1>8, Zenon DEF Crash
  <2> QED
    BY <1>8, <2>1 DEF Crash, disk, session
<1>9. CASE UNCHANGED vars
  BY <1>9 DEF vars, disk, session, history
<1> QED
  BY <1>1, <1>2, <1>3, <1>4, <1>5, <1>6, <1>7, <1>8, <1>9 DEF Next

LEMMA StatsInit == Init => TypeOK /\ TmpWritten
<1> SUFFICES ASSUME Init PROVE TypeOK /\ TmpWritten
  OBVIOUS
<1>1. damaged \in BOOLEAN /\ unread \in BOOLEAN /\ final \in BOOLEAN
  BY DEF Init
<1> QED
  BY <1>1, ZeroType DEF Init, TypeOK, TmpWritten

LEMMA StatsInvariant == Spec => [](TypeOK /\ TmpWritten)
  BY StatsInit, TypeStep, TmpStep, PTL DEF Spec

\* Every variable of the stats model has its type.
THEOREM StatsTypeCorrect == Spec => []TypeOK
  BY StatsInvariant, PTL
-----------------------------------------------------------------------------
(* NoDoubleCount.  A file's claim comes from a save(), whose argument was  *)
(* base plus the session's counters, and base from an earlier file: the    *)
(* strengthening CountedOnce follows the totals around that circle.        *)

LEMMA CountedStep == TypeOK /\ CountedOnce /\ [Next]_vars => CountedOnce'
<1> SUFFICES ASSUME TypeOK, CountedOnce, [Next]_vars PROVE CountedOnce'
  OBVIOUS
<1> USE StatsAssumption DEF TypeOK, CountedOnce, NoDoubleCount
<1>1. CASE Load
  <2>1. base'.accepted <= everAccepted /\ base'.sessions <= everSessions
    BY <1>1 DEF Load, Loaded, Zero, Totals
  <2>2. base' \in Totals
    BY <1>1, LoadedType, ZeroType DEF Load
  <2> QED
    BY <1>1, <2>1, <2>2 DEF Load, disk, Zero, Totals
<1>2. CASE ShareAccepted
  BY <1>2 DEF ShareAccepted, disk, Totals
<1>3. ASSUME NEW f \in BOOLEAN, Persist(f)
      PROVE  CountedOnce'
  BY <1>3, LifetimeType DEF Persist, disk, history
<1>4. CASE OpenTmp
  BY <1>4 DEF OpenTmp, Return, session, history
<1>5. CASE WriteTmp
  BY <1>5 DEF WriteTmp, session, history
<1>6. CASE RemoveOld
  BY <1>6 DEF RemoveOld, session, history
<1>7. CASE RenameTmp
  BY <1>7 DEF RenameTmp, Return, disk, session
<1>8. CASE Crash
  BY <1>8 DEF Crash, disk, session
<1>9. CASE UNCHANGED vars
  BY <1>9 DEF vars, disk, session, history
<1> QED
  BY <1>1, <1>2, <1>3, <1>4, <1>5, <1>6, <1>7, <1>8, <1>9 DEF Next

\* However often persist() runs, wherever the process is killed and whichever
\* step of save() fails, no file claims a share or a session that was not.
THEOREM NeverCountedTwice == Spec => []NoDoubleCount
<1>1. Init => CountedOnce
  BY StatsAssumption DEF Init, CountedOnce, NoDoubleCount, Zero
<1>2. CountedOnce => NoDoubleCount
  BY DEF CountedOnce
<1> QED
  BY <1>1, <1>2, CountedStep, StatsInvariant, PTL DEF Spec

-----------------------------------------------------------------------------
(* LossOnlyByFailure, an action property, from SavedInPlace (what a        *)
(* session starts from) and Accumulates (what it builds on that).          *)

LEMMA SavedStep ==
    TypeOK /\ TmpWritten /\ SavedInPlace /\ [Next]_vars => SavedInPlace'
<1> SUFFICES ASSUME TypeOK, TmpWritten, SavedInPlace, [Next]_vars
             PROVE  SavedInPlace'
  OBVIOUS
<1> USE DEF SavedInPlace
<1>1. CASE Load \/ ShareAccepted \/ OpenTmp \/ WriteTmp \/ \E f \in BOOLEAN : Persist(f)
  <2>1. UNCHANGED <<file, saved, damaged>> /\ pc # "rename"
    BY <1>1 DEF Load, ShareAccepted, OpenTmp, WriteTmp, Persist, disk, history
  <2> QED
    BY <2>1 DEF Loaded
<1>2. CASE RemoveOld
  BY <1>2 DEF RemoveOld, history, Loaded
<1>3. CASE RenameTmp
  BY <1>3, StatsAssumption DEF RenameTmp, TmpWritten, TypeOK, Loaded, disk
<1>4. CASE Crash
  BY <1>4 DEF Crash, disk, Loaded
<1>5. CASE UNCHANGED vars
  BY <1>5 DEF vars, disk, history, Loaded
<1> QED
  BY <1>1, <1>2, <1>3, <1>4, <1>5 DEF Next

LEMMA AccumulatesStep ==
    TypeOK /\ TmpWritten /\ SavedInPlace /\ Accumulates /\ [Next]_vars => Accumulates'
<1> SUFFICES ASSUME TypeOK, TmpWritten, SavedInPlace, Accumulates, [Next]_vars
             PROVE  Accumulates'
  OBVIOUS
<1> USE DEF Accumulates, Covers
<1>0. /\ base \in Totals /\ snap \in Totals /\ saved \in Totals /\ accepted \in Nat
      /\ base.accepted \in Nat /\ base.sessions \in Nat
      /\ LifetimeStats.accepted = base.accepted + accepted
      /\ LifetimeStats.sessions = base.sessions + 1
      /\ LifetimeStats'.accepted = base'.accepted + accepted'
      /\ LifetimeStats'.sessions = base'.sessions + 1
      /\ saved.accepted \in Nat /\ saved.sessions \in Nat
      /\ snap.accepted \in Nat /\ snap.sessions \in Nat
  BY DEF TypeOK, Totals, LifetimeStats
<1>1. CASE Load
  <2>1. pc' = "run" /\ accepted' = 0 /\ UNCHANGED <<saved, damaged>>
    BY <1>1 DEF Load
  <2>2. ~damaged /\ ~unread' => base' = saved
    BY <1>1 DEF Load, SavedInPlace
  <2> QED
    BY <1>0, <2>1, <2>2
<1>2. CASE ShareAccepted
  BY <1>0, <1>2 DEF ShareAccepted
<1>3. ASSUME NEW f \in BOOLEAN, Persist(f)
      PROVE  Accumulates'
  <2>1. /\ pc = "run" /\ pc' = "open" /\ snap' = LifetimeStats
        /\ UNCHANGED <<base, accepted, saved, damaged, unread>>
    BY <1>3 DEF Persist, history
  <2> QED
    BY <1>0, <2>1
<1>4. CASE OpenTmp
  BY <1>0, <1>4 DEF OpenTmp, Return, session, history
<1>5. CASE WriteTmp
  BY <1>0, <1>5 DEF WriteTmp, session, history
<1>6. CASE RemoveOld
  BY <1>0, <1>6 DEF RemoveOld, session, history
<1>7. CASE RenameTmp
  <2>1. /\ pc = "rename" /\ pc' \in {"run", "down"} /\ tmp \in {snap, Torn}
        /\ UNCHANGED <<base, accepted, snap, unread>>
        /\ saved' = saved \/ (saved' = snap /\ tmp # Torn)
        /\ saved' = saved /\ ~damaged' => ~damaged \/ saved' = snap
    BY <1>7 DEF RenameTmp, Return, session
  <2> QED
    BY <1>0, <2>1
<1>8. CASE Crash
  BY <1>8 DEF Crash
<1>9. CASE UNCHANGED vars
  BY <1>0, <1>9 DEF vars, disk, session, history
<1> QED
  BY <1>1, <1>2, <1>3, <1>4, <1>5, <1>6, <1>7, <1>8, <1>9 DEF Next

\* Over any chain of sessions, kills and failed steps, saved totals are lost
\* only where a failed step or a kill between std::remove and std::rename has
\* damaged the file, or where load() could not read a good one.
THEOREM LossNeedsAFailure == Spec => LossOnlyByFailure
<1>1. Init => SavedInPlace /\ Accumulates
  BY DEF Init, SavedInPlace, Loaded, Accumulates
<1>2. TypeOK /\ TmpWritten /\ SavedInPlace /\ Accumulates /\ [Next]_vars
      => [~damaged => /\ pc = "down" /\ pc' = "run" /\ ~unread' => base' = saved
                      /\ ~unread => Covers(saved', saved)]_vars
  <2> SUFFICES ASSUME TypeOK, TmpWritten, SavedInPlace, Accumulates, Next, ~damaged
               PROVE  /\ pc = "down" /\ pc' = "run" /\ ~unread' => base' = saved
                      /\ ~unread => Covers(saved', saved)
    OBVIOUS
  <2>1. ASSUME pc = "down", pc' = "run", ~unread' PROVE base' = saved
    <3>1. Load
      BY <2>1 DEF Next, ShareAccepted, Persist, OpenTmp, WriteTmp, RemoveOld, RenameTmp, Crash
    <3> QED
      BY <2>1, <3>1 DEF Load, SavedInPlace
  <2>2. ASSUME ~unread PROVE Covers(saved', saved)
    <3>1. saved.accepted \in Nat /\ saved.sessions \in Nat
      BY DEF TypeOK, Totals
    <3>2. CASE RenameTmp
      <4>1. /\ pc = "rename" /\ tmp \in {snap, Torn}
            /\ saved' = saved \/ saved' = snap
        BY <3>2 DEF RenameTmp, Accumulates
      <4> QED
        BY <2>2, <3>1, <4>1 DEF Accumulates, Covers
    <3>3. CASE ~RenameTmp
      <4>1. saved' = saved
        BY <3>3 DEF Next, Load, ShareAccepted, Persist, OpenTmp, WriteTmp, RemoveOld,
                    Crash, history
      <4> QED
        BY <3>1, <4>1 DEF Covers
    <3> QED
      BY <3>2, <3>3
  <2> QED
    BY <2>1, <2>2
<1> QED
  BY <1>1, <1>2, SavedStep, AccumulatesStep, StatsInvariant, PTL DEF Spec, LossOnlyByFailure

-----------------------------------------------------------------------------
(* The totals in a session of cmd_run.                                     *)

\* The step an exception takes to end the process is a kill to the totals.
LEMMA StatsStep == TypeOK /\ [SNext]_svars => [Next]_vars
<1> SUFFICES ASSUME TypeOK, [SNext]_svars PROVE [Next]_vars
  OBVIOUS
<1> USE DEF vars, statsVars
<1>1. CASE Launch
  BY <1>1 DEF Launch, Next
<1>2. CASE Poll
  BY <1>2 DEF Poll, Next
<1>3. CASE PeriodicPersist \/ FinalPersist
  BY <1>3 DEF PeriodicPersist, FinalPersist, Next
<1>4. CASE Save
  BY <1>4 DEF Save, Next
<1>5. CASE DestroyPool
  <2>1. damaged' = (damaged \/ (pc = "rename" /\ file = Missing))
    BY <1>5 DEF DestroyPool, At, TypeOK, history
  <2>2. Crash
    BY <1>5, <2>1 DEF DestroyPool, At, Crash, history
  <2> QED
    BY <2>2 DEF Next
<1>6. CASE Killed \/ SigPipe
  BY <1>6 DEF Killed, SigPipe, Dies, Next
<1>7. CASE Signal \/ LoopEnds \/ Status \/ Sample \/ Sampled \/ Throws
  BY <1>7 DEF Signal, LoopEnds, Status, Sample, Sampled, Throws
<1>8. CASE Stop \/ DestroyLocals
  BY <1>8 DEF Stop, PoolStop, HttpStop, HttpClose, HttpJoin, DestroyLocals
<1>9. CASE Hash \/ HttpRun \/ Prometheus \/ HttpConnects \/ HttpRecv \/ HttpAcceptFails
  BY <1>9 DEF Hash, HttpRun, Prometheus, HttpConnects, HttpRecv, HttpAcceptFails
<1>10. CASE UNCHANGED svars
  BY <1>10 DEF svars
<1> QED
  BY <1>1, <1>2, <1>3, <1>4, <1>5, <1>6, <1>7, <1>8, <1>9, <1>10
     DEF SNext, Loop, Exit

\* Every step of a session is a step of StatsStore or leaves the totals alone:
\* the loop, the shutdown and the unwinding of an exception use nothing but
\* load(), persist() and save(), and an exception is a kill to the totals.
THEOREM ShutdownImplementsStats == SSpec => Spec
<1>1. SInit => Init
  BY DEF SInit
<1>2. Init => TypeOK /\ TmpWritten
  BY StatsInit
<1>3. TypeOK /\ TmpWritten /\ [SNext]_svars => (TypeOK /\ TmpWritten)'
  BY StatsStep, TypeStep, TmpStep
<1> QED
  BY <1>1, <1>2, <1>3, StatsStep, PTL DEF SSpec, Spec

\* Across sessions that end in any way, no share and no session is counted
\* twice in the statistics file.
THEOREM SessionsNeverCountTwice == SSpec => []NoDoubleCount
  BY ShutdownImplementsStats, NeverCountedTwice, PTL

\* Sessions of cmd_run, however they end, lose saved totals only where a failure
\* has damaged the file or load() could not read it.
THEOREM SessionsLoseOnlyByFailure == SSpec => LossOnlyByFailure
  BY ShutdownImplementsStats, LossNeedsAFailure, PTL

-----------------------------------------------------------------------------
(* The threads and what they use.                                          *)

\* The way out of cmd_run, from the stop of the server on.
Ending == {"httpstop", "httpclose", "httpjoin", "joined"}

\* What is alive at each place of cmd_run.  LocalsOutliveThreads needs to know
\* where threw and running_ can have changed: an exception starts the way out
\* without pool.stop(), and http->stop() returns at once only where the server
\* was never started.
Life ==
    /\ pc = "down" => phase \in {"off", "joined", "destroyed"} /\ ~mining
    /\ phase = "off" => pc = "down" /\ hpc = "none"
    /\ pc \notin {"down", "run"} =>
          phase \in {"status", "joined"} /\ (final <=> phase = "joined") /\ ~threw
    /\ phase = "destroyed" => threw
    /\ threw => phase \in Ending \cup {"destroyed"}
    /\ phase \in Ending => threw \/ ~mining
    /\ locals <=> (pc # "down" /\ phase # "destroyed")
    /\ phase \in {"joined", "destroyed"} => Http!Joinable
    /\ running_ \/ hpc = "none"
       \/ phase \in {"httpclose", "httpjoin", "joined", "destroyed"}

LEMMA LifeStep == STypeOK /\ Life /\ [SNext]_svars => Life'
<1> SUFFICES ASSUME STypeOK, Life, [SNext]_svars PROVE Life'
  OBVIOUS
<1> USE DEF Life, Ending, Http!Joinable, At, Goto, exitVars, httpVars, poolVars,
            statsVars, session
<1>1. CASE Launch
  BY <1>1 DEF Launch, Load, Http!Start, Http!Reset
<1>2. CASE Signal \/ LoopEnds \/ Status \/ Sample \/ Sampled \/ Throws
  BY <1>2 DEF Signal, LoopEnds, Status, Sample, Sampled, Throws
<1>3. CASE Poll
  BY <1>3 DEF Poll, ShareAccepted
<1>4. CASE PeriodicPersist \/ FinalPersist
  BY <1>4 DEF PeriodicPersist, FinalPersist, Persist
<1>5. CASE Save
  <2>1. locals' <=> pc' # "down"
    BY <1>5 DEF Save
  <2>2. /\ pc \notin {"down", "run"} /\ UNCHANGED final
        /\ pc' \in {"write", "remove", "rename"} \/ pc' = IF final THEN "down" ELSE "run"
    BY <1>5 DEF Save, OpenTmp, WriteTmp, RemoveOld, RenameTmp, Return
  <2>3. UNCHANGED <<phase, threw, mining, running_, hpc>>
    BY <1>5 DEF Save
  <2> QED
    BY <2>1, <2>2, <2>3
<1>6. CASE Stop
  BY <1>6 DEF Stop, PoolStop, HttpStop, HttpClose, HttpJoin, Http!StopFlag,
              Http!StopClose
<1>7. CASE DestroyLocals \/ DestroyPool
  BY <1>7 DEF DestroyLocals, DestroyPool
<1>8. CASE Hash
  BY <1>8 DEF Hash
<1>9. CASE HttpRun \/ Prometheus \/ HttpConnects \/ HttpRecv \/ HttpAcceptFails
  BY <1>9 DEF HttpRun, Prometheus, HttpConnects, HttpRecv, HttpAcceptFails,
              Http!Check, Http!Accept, Http!Failed, Http!Send, Http!ClientConnects,
              Http!Recv, Http!AcceptFails, Http!Moves
<1>10. CASE Killed \/ SigPipe
  BY <1>10 DEF Killed, SigPipe, Dies, Crash, Gone, Http!Reset
<1>11. CASE UNCHANGED svars
  BY <1>11 DEF svars
<1> QED
  BY <1>1, <1>2, <1>3, <1>4, <1>5, <1>6, <1>7, <1>8, <1>9, <1>10, <1>11
     DEF SNext, Loop, Exit

-----------------------------------------------------------------------------
(* Type correctness.                                                       *)

LEMMA STypeStep ==
    STypeOK /\ TmpWritten /\ [SNext]_svars => STypeOK'
<1> SUFFICES ASSUME STypeOK, TmpWritten, [SNext]_svars PROVE STypeOK'
  OBVIOUS
<1>1. TypeOK'
  BY StatsStep, TypeStep DEF STypeOK
<1> USE ShutdownAssumption, <1>1
    DEF STypeOK, Metrics!TypeOK, Metrics!Samplers, Http!TypeOK, At, Goto, exitVars,
        httpVars, metricsVars, poolVars
<1>2. CASE Launch
  BY <1>2 DEF Launch, Http!Start, Http!Reset, Metrics!Reset
<1>3. CASE Signal \/ LoopEnds \/ Throws
  <2>1. /\ g_stop' \in BOOLEAN /\ threw' \in BOOLEAN
        /\ UNCHANGED <<locals, poolVars, counted, metricsVars, httpVars>>
        /\ phase' \in {phase, "poolstop", "httpstop"}
    BY <1>3 DEF Signal, LoopEnds, Throws
  <2> QED
    BY <2>1
<1>4. CASE Status \/ Sample
  BY <1>4 DEF Status, Sample, Metrics!set_total_hashes, Metrics!Begin
<1>5. CASE Sampled
  BY <1>5 DEF Sampled, Metrics!Close
<1>6. CASE Poll
  <2>1. /\ mining' \in BOOLEAN /\ phase' \in {"persist", "status", "loop"}
        /\ UNCHANGED <<exitVars, poolHashes, counted, metricsVars, httpVars>>
    BY <1>6 DEF Poll
  <2> QED
    BY <2>1
<1>7. CASE PeriodicPersist \/ FinalPersist
  <2>1. /\ counted' \in Nat /\ phase' \in {phase, "status"}
        /\ UNCHANGED <<exitVars, poolVars, metricsVars, httpVars>>
    BY <1>7 DEF PeriodicPersist, FinalPersist
  <2> QED
    BY <2>1
<1>8. CASE Save
  BY <1>8 DEF Save
<1>9. CASE Stop
  <2>1. /\ mining' \in BOOLEAN /\ running_' \in BOOLEAN /\ sock' \in {sock, "closed"}
        /\ phase' \in {"httpstop", "httpclose", "httpjoin", "joined"}
        /\ UNCHANGED <<exitVars, poolHashes, counted, metricsVars, hpc>>
    BY <1>9 DEF Stop, PoolStop, HttpStop, HttpClose, HttpJoin, Http!StopFlag,
                Http!StopClose
  <2> QED
    BY <2>1
<1>10. CASE DestroyLocals \/ DestroyPool
  <2>1. /\ mining' \in BOOLEAN /\ locals' \in BOOLEAN /\ phase' \in {phase, "destroyed"}
        /\ UNCHANGED <<g_stop, threw, poolHashes, counted, metricsVars, httpVars>>
    BY <1>10 DEF DestroyLocals, DestroyPool
  <2> QED
    BY <2>1
<1>11. CASE Hash
  BY <1>11 DEF Hash
<1>12. CASE HttpRun \/ HttpConnects \/ HttpRecv \/ HttpAcceptFails
  BY <1>12 DEF HttpRun, HttpConnects, HttpRecv, HttpAcceptFails, Http!Check,
               Http!Accept, Http!Failed, Http!Send, Http!ClientConnects, Http!Recv,
               Http!AcceptFails, Http!Moves
<1>13. CASE Prometheus
  BY <1>13 DEF Prometheus, Http!Moves, Metrics!Begin, Metrics!Close
<1>14. CASE Killed \/ SigPipe
  <2>1. Gone
    BY <1>14 DEF Killed, SigPipe, Dies
  <2> QED
    BY <2>1 DEF Gone, Http!Reset, Metrics!Reset
<1>15. CASE UNCHANGED svars
  BY <1>15 DEF svars
<1> QED
  BY <1>2, <1>3, <1>4, <1>5, <1>6, <1>7, <1>8, <1>9, <1>10, <1>11, <1>12, <1>13,
     <1>14, <1>15
     DEF SNext, Loop, Exit

-----------------------------------------------------------------------------
(* The final save.                                                         *)

\* FinalFlushIsComplete, with what keeps it: after persist(true) nothing runs
\* that could count, and the program never gets back into its loop.
Flushed ==
    final => /\ phase \in {"joined", "off"} /\ pc # "run" /\ ~threw
             /\ snap = LifetimeStats /\ counted = poolHashes

LEMMA FlushedStep ==
    STypeOK /\ Life /\ Flushed /\ [SNext]_svars => Flushed'
<1> SUFFICES ASSUME STypeOK, Life, Flushed, [SNext]_svars PROVE Flushed'
  OBVIOUS
<1> USE DEF Flushed, At, Goto, exitVars, poolVars, statsVars, session, LifetimeStats
<1>1. CASE Launch
  BY <1>1 DEF Launch, Load
<1>2. CASE Signal \/ LoopEnds \/ Status \/ Sample \/ Sampled \/ Throws
  BY <1>2 DEF Signal, LoopEnds, Status, Sample, Sampled, Throws
<1>3. CASE Poll
  BY <1>3 DEF Poll, ShareAccepted
<1>4. CASE PeriodicPersist
  BY <1>4 DEF PeriodicPersist, Persist
<1>5. CASE FinalPersist
  BY <1>5 DEF FinalPersist, Persist
<1>6. CASE Save
  BY <1>6 DEF Save, OpenTmp, WriteTmp, RemoveOld, RenameTmp, Return, STypeOK, TypeOK
<1>7. CASE Stop
  BY <1>7 DEF Stop, PoolStop, HttpStop, HttpClose, HttpJoin
<1>8. CASE DestroyLocals \/ DestroyPool
  BY <1>8 DEF DestroyLocals, DestroyPool
<1>9. CASE Hash
  BY <1>9 DEF Hash, Life, Ending
<1>10. CASE HttpRun \/ Prometheus \/ HttpConnects \/ HttpRecv \/ HttpAcceptFails
  BY <1>10 DEF HttpRun, Prometheus, HttpConnects, HttpRecv, HttpAcceptFails
<1>11. CASE Killed \/ SigPipe
  BY <1>11 DEF Killed, SigPipe, Dies, Crash, Gone
<1>12. CASE UNCHANGED svars
  BY <1>12 DEF svars
<1> QED
  BY <1>1, <1>2, <1>3, <1>4, <1>5, <1>6, <1>7, <1>8, <1>9, <1>10, <1>11, <1>12
     DEF SNext, Loop, Exit

-----------------------------------------------------------------------------
(* The sampling windows.                                                   *)

\* WindowsTile, with what an open window holds: total is between the end of the
\* last window and the counter, and only the thread that holds m_ is inside
\* snapshot().
Windows ==
    /\ sampled = last_hashes_ /\ last_hashes_ <= hashes_
    /\ hashes_ <= poolHashes /\ poolHashes <= MaxHashes
    /\ m_ = "main" <=> phase = "sampled"
    /\ m_ = "http" <=> hpc = "snapshot"
    /\ m_ # "free" => last_hashes_ <= total[m_] /\ total[m_] <= hashes_

LEMMA SmallModulo == \A w \in Nat \ {0} : \A a \in 0 .. w - 1 : a % w = a
  OBVIOUS

\* The unsigned subtraction of snapshot() does not wrap.
LEMMA CloseWindow ==
    ASSUME MaxHashes < Word, STypeOK, Windows, NEW t \in {"main", "http"}, m_ = t,
           Metrics!Close(t)
    PROVE  /\ sampled' = last_hashes_' /\ last_hashes_' <= hashes_'
           /\ m_' = "free" /\ UNCHANGED hashes_
<1> USE ShutdownAssumption DEF STypeOK, Metrics!TypeOK, Metrics!Samplers, Windows
<1>1. total[t] - last_hashes_ \in 0 .. Word - 1
  OBVIOUS
<1>2. (total[t] - last_hashes_) % Word = total[t] - last_hashes_
  BY <1>1, ShutdownAssumption, SmallModulo
<1> QED
  BY <1>2 DEF Metrics!Close

LEMMA WindowsStep ==
    ASSUME MaxHashes < Word
    PROVE  STypeOK /\ Windows /\ [SNext]_svars => Windows'
<1> SUFFICES ASSUME STypeOK, Windows, [SNext]_svars PROVE Windows'
  OBVIOUS
<1> USE ShutdownAssumption DEF Windows, At, Goto, httpVars, metricsVars, poolVars
<1>1. CASE Launch
  BY <1>1 DEF Launch, Http!Start, Http!Reset, Metrics!Reset
<1>2. CASE Signal \/ LoopEnds \/ Throws \/ PeriodicPersist \/ FinalPersist
  BY <1>2 DEF Signal, LoopEnds, Throws, PeriodicPersist, FinalPersist
<1>3. CASE Poll \/ Save
  BY <1>3 DEF Poll, Save
<1>4. CASE Status
  BY <1>4 DEF Status, Metrics!set_total_hashes, STypeOK, Metrics!TypeOK, Metrics!Samplers
<1>5. CASE Sample
  BY <1>5 DEF Sample, Metrics!Begin, STypeOK, Metrics!TypeOK, Metrics!Samplers
<1>6. CASE Sampled
  BY <1>6, CloseWindow DEF Sampled
<1>7. CASE Stop
  BY <1>7 DEF Stop, PoolStop, HttpStop, HttpClose, HttpJoin, Http!StopFlag,
              Http!StopClose
<1>8. CASE DestroyLocals \/ DestroyPool
  BY <1>8 DEF DestroyLocals, DestroyPool
<1>9. CASE Hash
  BY <1>9 DEF Hash, STypeOK, Metrics!TypeOK
<1>10. CASE HttpRun \/ HttpConnects \/ HttpRecv \/ HttpAcceptFails
  BY <1>10 DEF HttpRun, HttpConnects, HttpRecv, HttpAcceptFails, Http!Check,
               Http!Accept, Http!Failed, Http!Send, Http!ClientConnects, Http!Recv,
               Http!AcceptFails, Http!Moves
<1>11. CASE Http!Moves("body", "snapshot") /\ Metrics!Begin("http") /\ Prometheus
  BY <1>11 DEF Prometheus, Http!Moves, Metrics!Begin, STypeOK, Metrics!TypeOK,
               Metrics!Samplers
<1>12. CASE Http!Moves("snapshot", "send") /\ Metrics!Close("http") /\ Prometheus
  BY <1>12, CloseWindow DEF Prometheus, Http!Moves
<1>13. CASE Killed \/ SigPipe
  BY <1>13 DEF Killed, SigPipe, Dies, Gone, Http!Reset, Metrics!Reset
<1>14. CASE UNCHANGED svars
  BY <1>14 DEF svars
<1> QED
  BY <1>1, <1>2, <1>3, <1>4, <1>5, <1>6, <1>7, <1>8, <1>9, <1>10, <1>11, <1>12,
     <1>13, <1>14
     DEF SNext, Loop, Exit, Prometheus

-----------------------------------------------------------------------------
LEMMA ShutdownInit == SInit => STypeOK /\ TmpWritten /\ Life /\ Flushed /\ Windows
<1> SUFFICES ASSUME SInit PROVE STypeOK /\ TmpWritten /\ Life /\ Flushed /\ Windows
  OBVIOUS
<1> USE DEF SInit, Init, Metrics!Init, Http!Init
<1>1. TypeOK /\ TmpWritten
  BY StatsInit
<1>2. Metrics!TypeOK /\ Http!TypeOK
  BY DEF Metrics!TypeOK, Metrics!Samplers, Http!TypeOK
<1>3. g_stop \in BOOLEAN /\ threw \in BOOLEAN /\ locals \in BOOLEAN /\ mining \in BOOLEAN
  OBVIOUS
<1>4. STypeOK
  BY <1>1, <1>2, <1>3 DEF STypeOK
<1>5. Life /\ Flushed
  BY DEF Life, Ending, Flushed, Http!Joinable
<1>6. Windows
  BY ShutdownAssumption DEF Windows
<1> QED
  BY <1>1, <1>4, <1>5, <1>6

LEMMA ShutdownInvariant == SSpec => [](STypeOK /\ TmpWritten /\ Life /\ Flushed)
<1>1. STypeOK /\ TmpWritten /\ [SNext]_svars => TmpWritten'
  BY StatsStep, TmpStep DEF STypeOK
<1> QED
  BY <1>1, ShutdownInit, STypeStep, LifeStep, FlushedStep, PTL DEF SSpec

\* Every variable of a session has its type.
THEOREM ShutdownTypeCorrect == SSpec => []STypeOK
  BY ShutdownInvariant, PTL

\* However cmd_run ends, the server's thread has ended before the metrics it
\* reads are destroyed, and so have the workers before submit_mtx is, except
\* where an exception unwinds.
THEOREM ThreadsEndFirst == SSpec => []LocalsOutliveThreads
<1>1. Life => LocalsOutliveThreads
  BY DEF Life, LocalsOutliveThreads, Http!Joinable, Ending
<1> QED
  BY <1>1, ShutdownInvariant, PTL

\* The save() after the loop has every share and every hash of its session,
\* whatever the workers, the scrapes and the signals did before it.
THEOREM FinalFlush == SSpec => []FinalFlushIsComplete
<1>1. Flushed => FinalFlushIsComplete
  BY DEF Flushed, FinalFlushIsComplete
<1> QED
  BY <1>1, ShutdownInvariant, PTL

\* As long as a session stays below 2^64 hashes, the samples of the status line
\* and of the scrapes add up to the hashes, each counted in one of them.
THEOREM SamplesTile == ASSUME MaxHashes < Word PROVE SSpec => []WindowsTile
<1>1. Windows => WindowsTile
  BY DEF Windows, WindowsTile, Metrics!WindowsTile
<1> QED
  BY <1>1, ShutdownInit, ShutdownInvariant, WindowsStep, PTL DEF SSpec
=============================================================================
