------------------------------- MODULE Glytex -------------------------------
(***************************************************************************)
(* The whole process (main_inner, main.rs): the mining threads, the source *)
(* of their templates (TemplateSource, which TemplateWatcher implements),  *)
(* the collector of their statistics, and the main task that waits for the *)
(* first thread to end, stops the others and joins them all.               *)
(***************************************************************************)
EXTENDS MiningThreads

VARIABLES
  version, status,       \* the chain and the watcher thread: see TemplateSource
  collector,             \* "none" without an HTTP server
  main,                  \* what main_inner is doing
  verdict                \* what it prints at the end

parts == <<version, status, collector, main, verdict>>
vars == <<minerVars, parts>>

Source == INSTANCE TemplateSource WITH published <- cache

\* The process is there until a panic ends it or main_inner returns.
Running == ~crashed /\ main # "exited"

Init ==
  /\ MinersInit
  /\ Source!Init
  /\ collector \in {"none", "running"}
  /\ main = "polling"
  /\ verdict = "none"

Device(i) == Running /\ Thread(i) /\ UNCHANGED parts

-----------------------------------------------------------------------------
\* The watcher thread, seen through the template source.

TipMoves ==
  /\ Running /\ Source!TipMoves
  /\ UNCHANGED <<shutdown, receiver, crashed, thread, collector, main, verdict>>

Publish ==
  /\ Running /\ Source!Publish
  /\ UNCHANGED <<shutdown, receiver, crashed, thread, collector, main, verdict>>

\* Ok(0) only after a shutdown, Err after too many failures, or a panic.
WatcherEnds(how) ==
  /\ Running /\ Source!End
  /\ status' = how
  /\ crashed' = (how = "crashed")
  /\ UNCHANGED <<shutdown, receiver, thread, collector, main, verdict>>

WatcherStops == shutdown /\ WatcherEnds("stopped")

-----------------------------------------------------------------------------
\* The statistics collector holds the only receiver while it runs; without an
\* HTTP server main_inner itself does, to its end.

\* Mutant: the broadcast receiver outlives the collector.
CollectorEnds_LeaksReceiver ==
  /\ Running
  /\ collector = "running"
  /\ collector' = "ended"
  /\ UNCHANGED <<env, crashed, thread, version, status, main, verdict>>

CollectorEnds ==
  /\ Running
  /\ collector = "running"
  /\ collector' = "ended"
  /\ receiver' = FALSE
  /\ UNCHANGED <<cache, shutdown, crashed, thread, version, status, main, verdict>>

CollectorStops == shutdown /\ CollectorEnds
\* Any error of the broadcast channel, a receiver that lags included.
CollectorLags == ~shutdown /\ CollectorEnds

-----------------------------------------------------------------------------
\* main_inner.

WatcherOver == status \in {"stopped", "failed"}
AnyOver == WatcherOver \/ \E i \in Devices : pc[i] \in Over

\* Mutant: only the first of the joins is waited for.
EveryOver_WatcherOnly == WatcherOver

EveryOver == WatcherOver /\ AllOver

\* The shutdown is triggered and the polling loop left.
StopOthers ==
  /\ Running
  /\ main = "polling"
  /\ shutdown' = TRUE
  /\ main' = "joining"
  /\ UNCHANGED <<receiver, crashed, version, status, collector, verdict>>

\* Mutants: shut down at once; wait for all threads; end the threads where they are.
PollThreads_AtOnce == StopOthers /\ UNCHANGED <<cache, thread>>
PollThreads_WaitsForAll == EveryOver /\ StopOthers /\ UNCHANGED <<cache, thread>>
PollThreads_Kills ==
  /\ AnyOver /\ StopOthers
  /\ pc' = [i \in Devices |-> IF pc[i] = "failed" THEN "failed" ELSE "done"]
  /\ UNCHANGED <<cache, search, solutions, submitted>>

PollThreads == AnyOver /\ StopOthers /\ UNCHANGED <<cache, thread>>

Failed == status = "failed" \/ \E i \in Devices : pc[i] = "failed"

\* The joins are in the order of the threads; the last returns when all are over.
JoinThreads ==
  /\ Running
  /\ main = "joining"
  /\ EveryOver
  /\ main' = "exited"
  /\ verdict' = IF Failed THEN "Not all threads finished successfully"
                ELSE "Total hashrate"
  /\ UNCHANGED <<minerVars, version, status, collector>>

\* Nothing is left to do: lets the model checker tell the end from a deadlock.
Gone == ~Running /\ UNCHANGED vars

Next ==
  \/ \E i \in Devices : Device(i)
  \/ TipMoves \/ Publish
  \/ WatcherStops \/ WatcherEnds("failed") \/ WatcherEnds("crashed")
  \/ CollectorStops \/ CollectorLags
  \/ PollThreads \/ JoinThreads
  \/ Gone

Spec == Init /\ [][Next]_vars

\* Scheduling: main_inner polls every 100 ms, the tasks and threads run.
Scheduled ==
  /\ WF_vars(PollThreads) /\ WF_vars(JoinThreads) /\ WF_vars(CollectorStops)
  /\ \A i \in Devices : WF_vars(Step(i) /\ Device(i))
\* The node accepts every connection in the end, the watcher's too, which notices
\* a shutdown only when it is connected (TemplateWatcher!ShutdownStops).
NodeUp ==
  /\ WF_vars(WatcherStops)
  /\ \A i \in Devices : WF_vars(Connect(i) /\ Device(i))

FairSpec == Spec /\ Scheduled /\ NodeUp
\* The same scheduling, and a node that may be down for whoever connects.
NodeDownSpec == Spec /\ Scheduled

-----------------------------------------------------------------------------
\* The parts keep their types, and the receiver goes with the collector.
PartsTypeOK ==
  /\ version \in 1 .. MaxVersion
  /\ status \in {"running"} \cup Source!Ended
  /\ collector \in {"none", "running", "ended"}
  /\ receiver = (collector # "ended")
  /\ main \in {"polling", "joining", "exited"}
  /\ verdict \in {"none", "Not all threads finished successfully", "Total hashrate"}

\* The composed process is one of the mining threads' environments, so what holds
\* of MiningThreads holds here.
MinersSafety == MinersSpec

\* A miner never stops of its own accord: the first thread to end is one that
\* failed, so the total hash rate of a finished run is never printed
\* (main.rs 557-569, 593-599, 779).
StopsOnlyOnFailure ==
  /\ shutdown => Failed
  /\ verdict # "Total hashrate"

\* When the process ends by itself, every solution found was submitted, unless
\* its thread died because the collector had gone first (main.rs 571-586, 889-893).
ExitLosesNothing ==
  main = "exited" =>
    \A s \in solutions :
      Delivered(s) \/ (collector = "ended" /\ pc[s.device] = "failed")

\* One thread's end ends the process, when the node can be reached: the shutdown
\* reaches every thread and the main task joins them (main.rs 557-571).
StopsTogether == AnyOver ~> ~Running

\* "if any thread is finished, stop all of them" (main.rs 560), whatever state
\* the others are in.
StopsAllOfThem == AnyOver ~> (crashed \/ AllOver)
=============================================================================
