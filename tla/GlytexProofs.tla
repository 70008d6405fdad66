---------------------------- MODULE GlytexProofs ----------------------------
(***************************************************************************)
(* Proofs about the composed process: it implements the specification of   *)
(* its threads, whose theorems hold of it too, and how it ends.            *)
(***************************************************************************)
EXTENDS Glytex, MiningThreadsProofs

\* When the process runs, is told to stop, and has stopped.
Ending ==
  /\ shutdown = (main # "polling")
  /\ ~shutdown => status # "stopped" /\ \A i \in Devices : pc[i] # "done"
  /\ shutdown => Failed
  /\ main = "exited" => AllOver
  /\ verdict # "Total hashrate"

\* The inductive invariant.
GInv == MinersInv /\ PartsTypeOK /\ Ending

\* The process starts as its threads do.
LEMMA InitSplit == Init => MinersInit
  BY DEF Init

LEMMA VersionTypes ==
  ASSUME MinersTypeOK, PartsTypeOK
  PROVE  MaxVersion \in Nat \ {0} /\ version \in 1 .. MaxVersion /\ cache \in 0 .. MaxVersion
  <1>1. MaxVersion \in Nat \ {0}
    BY MinersAssumption
  <1>2. version \in 1 .. MaxVersion
    BY Zenon DEF PartsTypeOK
  <1>3. cache \in 0 .. MaxVersion
    BY Zenon DEF MinersTypeOK, Versions
  <1> QED
    BY <1>1, <1>2, <1>3

\* Every step of the process is one the threads' specification allows.
LEMMA MinersSim ==
  ASSUME MinersTypeOK, PartsTypeOK, [Next]_vars
  PROVE  [MinersNext]_minerVars
  <1>1. CASE \E i \in Devices : Device(i)
    BY <1>1 DEF Device, MinersNext
  <1>2. CASE Publish
    <2>1. UNCHANGED <<shutdown, receiver, crashed, thread>> /\ ~crashed
      BY <1>2 DEF Publish, Running
    <2>2. PICK v \in 1 .. version : cache <= v /\ cache' = v
      BY <1>2 DEF Publish, Source!Publish
    <2>3. v \in Versions /\ cache \in Nat
      BY <2>2, VersionTypes DEF Versions
    <2>4. CASE v > cache
      BY <2>1, <2>2, <2>3, <2>4 DEF MinersNext, replace_block_template_cache
    <2>5. CASE v = cache
      BY <2>1, <2>2, <2>5 DEF minerVars, env
    <2> QED
      BY <2>2, <2>3, <2>4, <2>5
  <1>3. CASE TipMoves
    BY <1>3 DEF TipMoves, Source!TipMoves, minerVars, env
  <1>4. ASSUME NEW how, WatcherEnds(how) PROVE [MinersNext]_minerVars
    BY <1>4 DEF WatcherEnds, Source!End, Running, MinersNext, WatcherPanics, minerVars,
       env, MinersTypeOK
  <1>5. CASE CollectorEnds
    BY <1>5 DEF CollectorEnds, Running, MinersNext, DropReceiver, PartsTypeOK
  <1>6. CASE PollThreads
    BY <1>6 DEF PollThreads, StopOthers, Running, MinersNext, TriggerShutdown, minerVars, env,
       MinersTypeOK
  <1>7. CASE JoinThreads \/ Gone \/ UNCHANGED vars
    BY <1>7 DEF JoinThreads, Gone, vars, minerVars
  <1> QED
    BY <1>1, <1>2, <1>3, <1>4, <1>5, <1>6, <1>7
    DEF Next, WatcherStops, CollectorStops, CollectorLags

\* The collector and the receiver end together; the rest is typing.
LEMMA PartsStep == MinersTypeOK /\ PartsTypeOK /\ [Next]_vars => PartsTypeOK'
  <1> SUFFICES ASSUME MinersTypeOK, PartsTypeOK, [Next]_vars PROVE PartsTypeOK'
    OBVIOUS
  <1> USE MinersAssumption DEF PartsTypeOK, MinersTypeOK
  <1>1. CASE \E i \in Devices : Device(i)
    <2>1. PICK i \in Devices : Device(i)
      BY <1>1
    <2>2. UNCHANGED receiver
      BY <2>1 DEF Device, Thread, Step, Connect, SetupFails, Panic, Quit, ReadTemplate,
         TemplateExpires, Mine, MineFails, Report, ReportFails, Submit, env
    <2> QED
      BY <2>1, <2>2 DEF Device, parts
  <1>2. CASE Publish \/ TipMoves
    <2>1. UNCHANGED <<receiver, status, collector, main, verdict>>
      BY <1>2 DEF Publish, TipMoves, Source!Publish, Source!TipMoves
    <2>2. version' \in 1 .. MaxVersion
      <3>1. version' = version \/ (version < MaxVersion /\ version' = version + 1)
        BY <1>2 DEF Publish, TipMoves, Source!Publish, Source!TipMoves
      <3>2. MaxVersion \in Nat /\ version \in 1 .. MaxVersion
        BY VersionTypes
      <3> HIDE DEF PartsTypeOK, MinersTypeOK
      <3> QED
        BY <3>1, <3>2
    <2> QED
      BY <2>1, <2>2
  <1>3. ASSUME NEW how, WatcherEnds(how) PROVE PartsTypeOK'
    BY <1>3 DEF WatcherEnds, Source!End
  <1>4. CASE CollectorEnds
    BY <1>4 DEF CollectorEnds
  <1>5. CASE PollThreads \/ JoinThreads
    BY <1>5 DEF PollThreads, StopOthers, JoinThreads, minerVars, env
  <1>6. CASE Gone \/ UNCHANGED vars
    BY <1>6 DEF Gone, vars, minerVars, parts, env
  <1> QED
    BY <1>1, <1>2, <1>3, <1>4, <1>5, <1>6
    DEF Next, WatcherStops, CollectorStops, CollectorLags

\* A thread that quits has seen a shutdown; the main task triggers one only when
\* a thread is over.
LEMMA EndingStep ==
  MinersTypeOK /\ PartsTypeOK /\ Ending /\ [Next]_vars => Ending'
  <1> SUFFICES ASSUME MinersTypeOK, PartsTypeOK, Ending, [Next]_vars PROVE Ending'
    OBVIOUS
  <1> USE DEF PartsTypeOK, Ending, MinersTypeOK
  <1>1. CASE \E i \in Devices : Device(i)
    <2>1. PICK i \in Devices : Device(i)
      BY <1>1
    <2>2. /\ UNCHANGED <<shutdown, parts>>
          /\ \A k \in Devices \ {i} : pc'[k] = pc[k]
          /\ pc'[i] = "done" => shutdown \/ pc[i] = "done"
          /\ pc[i] = "failed" => pc'[i] = "failed"
      BY <2>1 DEF Device, Thread, Step, Connect, SetupFails, Panic, Quit, ReadTemplate,
         TemplateExpires, Mine, MineFails, Report, ReportFails, Submit, env, thread, Goto
    <2>3. Failed => Failed'
      BY <2>2 DEF Failed, parts
    <2>4. main' # "exited"
      BY <2>1, <2>2 DEF Device, Running, parts
    <2> QED
      BY <2>2, <2>3, <2>4 DEF parts
  <1>2. CASE Publish \/ TipMoves
    BY <1>2 DEF Publish, TipMoves, Source!Publish, Source!TipMoves, Running, thread,
       Failed
  <1>3. CASE WatcherStops \/ WatcherEnds("failed") \/ WatcherEnds("crashed")
    BY <1>3 DEF WatcherStops, WatcherEnds, Source!End, Running, thread, Failed
  <1>4. CASE CollectorEnds
    BY <1>4 DEF CollectorEnds, Running, thread, Failed
  <1>5. CASE PollThreads
    <2>1. ~shutdown /\ AnyOver
      BY <1>5 DEF PollThreads, StopOthers
    <2>2. Failed
      BY <2>1 DEF AnyOver, WatcherOver, Failed, Over
    <2> QED
      BY <1>5, <2>2 DEF PollThreads, StopOthers, Failed, thread
  <1>6. CASE JoinThreads
    BY <1>6 DEF JoinThreads, EveryOver, AllOver, Failed, minerVars, env, thread
  <1>7. CASE Gone \/ UNCHANGED vars
    BY <1>7 DEF Gone, vars, minerVars, parts, env, thread, Failed, AllOver
  <1> QED
    BY <1>1, <1>2, <1>3, <1>4, <1>5, <1>6, <1>7
    DEF Next, CollectorStops, CollectorLags

THEOREM ProcessInvariance == Spec => []GInv
  <1>1. Init => GInv
    <2> SUFFICES ASSUME Init PROVE GInv
      OBVIOUS
    <2>1. MinersInv
      BY InitSplit, MinersInvInit
    <2>2. PartsTypeOK
      <3>1. 1 \in 1 .. MaxVersion
        BY MinersAssumption
      <3> QED
        BY <3>1 DEF Init, PartsTypeOK, MinersInit, Source!Init
    <2>3. Ending
      BY DEF Init, Ending, MinersInit, Source!Init
    <2> QED
      BY <2>1, <2>2, <2>3 DEF GInv
  <1>2. GInv /\ [Next]_vars => GInv'
    <2> SUFFICES ASSUME GInv, [Next]_vars PROVE GInv'
      OBVIOUS
    <2>1. [MinersNext]_minerVars
      BY MinersSim DEF GInv, MinersInv
    <2>2. MinersInv'
      BY <2>1, MinersInvStep DEF GInv
    <2> QED
      BY <2>2, PartsStep, EndingStep DEF GInv, MinersInv
  <1> QED
    BY <1>1, <1>2, PTL DEF Spec

-----------------------------------------------------------------------------
\* The composed process is an implementation of the mining threads and their
\* environment: the cache only moves on, the signal and the receiver only change
\* once, as MiningThreads assumes (main.rs 503-571).
THEOREM ImplementsMiners == Spec => MinersSafety
  <1>1. GInv /\ [Next]_vars => [MinersNext]_minerVars
    BY MinersSim DEF GInv, MinersInv
  <1> QED
    BY <1>1, InitSplit, ProcessInvariance, PTL DEF Spec, MinersSafety, MinersSpec

\* The parts keep their types, and the receiver of the statistics goes with the
\* collector (main.rs 503-511, stats_collector.rs 142-180).
THEOREM PartsTypeCorrect == Spec => []PartsTypeOK
  <1>1. GInv => PartsTypeOK
    BY DEF GInv
  <1> QED
    BY <1>1, ProcessInvariance, PTL

\* Nothing in the process stops it but a thread that failed (main.rs 557-599).
THEOREM StopsOnlyWhenFailed == Spec => []StopsOnlyOnFailure
  <1>1. GInv => StopsOnlyOnFailure
    BY DEF GInv, Ending, StopsOnlyOnFailure
  <1> QED
    BY <1>1, ProcessInvariance, PTL

\* The process does not leave a solution behind when it ends by itself, except
\* those of threads that died after the collector (main.rs 571-586, 889-893).
THEOREM NothingLostAtExit == Spec => []ExitLosesNothing
  <1>1. GInv => ExitLosesNothing
    <2> SUFFICES ASSUME GInv, main = "exited", NEW s \in solutions
                 PROVE  Delivered(s) \/ (collector = "ended" /\ pc[s.device] = "failed")
      BY DEF ExitLosesNothing
    <2>1. s.device \in Devices
      BY DEF GInv, MinersInv, MinersTypeOK
    <2>2. pc[s.device] \in Over
      BY <2>1 DEF GInv, Ending, AllOver
    <2>3. Delivered(s) \/ Held(s)
      BY DEF GInv, MinersInv, NoSolutionDropped
    <2>4. Held(s) => pc[s.device] = "failed" /\ ~receiver
      BY <2>2 DEF Held, Over
    <2>5. ~receiver => collector = "ended"
      BY DEF GInv, PartsTypeOK
    <2> QED
      BY <2>3, <2>4, <2>5
  <1> QED
    BY <1>1, ProcessInvariance, PTL
=============================================================================
