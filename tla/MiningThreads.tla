---------------------------- MODULE MiningThreads ----------------------------
(***************************************************************************)
(* run_thread (main.rs), one thread for each device in use: connect, then  *)
(* again and again read the template cache and search this thread's part   *)
(* of the nonces, batch after batch, until a nonce is found or the         *)
(* template has been mined for too long.                                   *)
(*                                                                         *)
(* A template is known by the version of the chain it builds on.  The      *)
(* clock of a search (elapsed) counts batches: a batch takes a tick.       *)
(***************************************************************************)
EXTENDS Integers

CONSTANTS
  NumDevices,            \* num_threads: devices found, used or not
  Devices,               \* thread_index of each thread started
  NonceSpace,            \* u64::MAX
  Batch,                 \* nonces one call of mine searches
  TemplateRefreshSecs,   \* ticks after which the template is read again
  ReportAfter,           \* ticks before the hash rate is reported
  MaxVersion,            \* bound: versions of the chain in a behaviour
  Solves                 \* <<template, nonce>>: the hash meets the difficulty

Quota == NonceSpace \div NumDevices

\* The last conjunct: no device gets through its quota before it reads the
\* template again (2^64 nonces among the devices of one machine).
ASSUME MinersAssumption ==
  /\ NumDevices \in Nat \ {0}
  /\ Devices \subseteq 0 .. NumDevices - 1
  /\ NonceSpace \in Nat
  /\ Batch \in Nat
  /\ TemplateRefreshSecs \in Nat
  /\ ReportAfter \in Nat
  /\ MaxVersion \in Nat \ {0}
  /\ (TemplateRefreshSecs + 1) * Batch <= Quota

VARIABLES
  cache,                 \* block_template_cache, 0 while it is None
  shutdown,              \* the ShutdownSignal
  receiver,              \* stats_tx has a receiver left
  crashed,               \* a panic ended the process
  pc, job, header,       \* job: the hash in data; header: what is submitted
  nonce_start, elapsed,
  nonce,                 \* found by the last batch, 0 for None
  \* history
  solutions,             \* every solution found: [device, job, nonce]
  submitted              \* blocks given to submit_block: [device, header, nonce]

env == <<cache, shutdown, receiver>>
thread == <<pc, job, header, nonce_start, elapsed, nonce, solutions, submitted>>
minerVars == <<env, crashed, thread>>

Over == {"done", "failed"}
Nonces == 0 .. NonceSpace
Versions == 0 .. MaxVersion

\* Mutants: quotas counted from one, and devices a batch apart.
FirstNonce_OneBased(i) == Quota * (i - 1)
FirstNonce_BatchApart(i) == Batch * i

FirstNonce(i) == Quota * i

MinersInit ==
  /\ cache = 0
  /\ shutdown = FALSE
  /\ receiver = TRUE
  /\ crashed = FALSE
  /\ pc = [i \in Devices |-> "connect"]
  /\ job = [i \in Devices |-> 0]
  /\ header = [i \in Devices |-> 0]
  /\ nonce_start = [i \in Devices |-> 0]
  /\ elapsed = [i \in Devices |-> 0]
  /\ nonce = [i \in Devices |-> 0]
  /\ solutions = {}
  /\ submitted = {}

-----------------------------------------------------------------------------
\* One thread.

Goto(i, from, to) == ~crashed /\ pc[i] = from /\ pc' = [pc EXCEPT ![i] = to]
search == <<job, header, nonce_start, elapsed, nonce>>

\* create_client has returned, context and kernel are set up.
Connect(i) ==
  /\ Goto(i, "connect", "top")
  /\ UNCHANGED <<env, crashed, search, solutions, submitted>>

\* The address does not parse, or the engine has no context or program; or, at
\* the top of the loop, no kernel.
SetupFails(i) ==
  /\ \/ Goto(i, "connect", "failed")
     \/ ~shutdown /\ cache # 0 /\ Goto(i, "top", "failed")
  /\ UNCHANGED <<env, crashed, search, solutions, submitted>>

\* per_device_grid_sizes is too short, or an engine divides by an empty output:
\* the panic hook ends the process.
Panic(i) ==
  /\ ~crashed
  /\ pc[i] = "connect" \/ (pc[i] = "mine" /\ elapsed[i] <= TemplateRefreshSecs)
  /\ crashed' = TRUE
  /\ UNCHANGED <<env, thread>>

\* Mutant: the shutdown is looked at once there is a template.
Quit_AfterTemplate(i) ==
  /\ shutdown /\ cache # 0
  /\ Goto(i, "top", "done")
  /\ UNCHANGED <<env, crashed, search, solutions, submitted>>

Quit(i) ==
  /\ shutdown
  /\ Goto(i, "top", "done")
  /\ UNCHANGED <<env, crashed, search, solutions, submitted>>

\* While the cache is empty the thread sleeps and looks again.
ReadTemplate(i) ==
  /\ ~shutdown
  /\ cache # 0
  /\ Goto(i, "top", "mine")
  /\ job' = [job EXCEPT ![i] = cache]
  /\ header' = [header EXCEPT ![i] = cache]
  /\ nonce_start' = [nonce_start EXCEPT ![i] = FirstNonce(i)]
  /\ elapsed' = [elapsed EXCEPT ![i] = 0]
  /\ nonce' = [nonce EXCEPT ![i] = 0]
  /\ UNCHANGED <<env, crashed, solutions, submitted>>

TemplateExpires(i) ==
  /\ elapsed[i] > TemplateRefreshSecs
  /\ Goto(i, "mine", "top")
  /\ UNCHANGED <<env, crashed, search, solutions, submitted>>

\* The solutions one batch can report.  An output nonce of 0 means none, and an
\* engine may miss a solution: not all of them hash every nonce they count.
Found(i) == {n \in nonce_start[i] .. nonce_start[i] + Batch - 1 :
               n > 0 /\ <<job[i], n>> \in Solves}

Mine(i) ==
  /\ elapsed[i] <= TemplateRefreshSecs
  /\ Goto(i, "mine", "report")
  /\ \E n \in Found(i) \cup {0} :
       /\ nonce' = [nonce EXCEPT ![i] = n]
       /\ solutions' = IF n = 0 THEN solutions
                       ELSE solutions \cup {[device |-> i, job |-> job[i], nonce |-> n]}
  /\ nonce_start' = [nonce_start EXCEPT ![i] = @ + Batch]
  /\ elapsed' = [elapsed EXCEPT ![i] = @ + 1]
  /\ UNCHANGED <<env, crashed, job, header, submitted>>

MineFails(i) ==
  /\ elapsed[i] <= TemplateRefreshSecs
  /\ Goto(i, "mine", "failed")
  /\ UNCHANGED <<env, crashed, search, solutions, submitted>>

\* Mutant: a template that has expired is given up before its nonce is submitted.
Report_ExpiresFirst(i) ==
  /\ Goto(i, "report", IF nonce[i] = 0 \/ elapsed[i] > TemplateRefreshSecs
                       THEN "mine" ELSE "submit")
  /\ UNCHANGED <<env, crashed, search, solutions, submitted>>

\* The hash rate is sent, or nothing is: too early, or 500 ms have not passed.
Report(i) ==
  /\ Goto(i, "report", IF nonce[i] = 0 THEN "mine" ELSE "submit")
  /\ UNCHANGED <<env, crashed, search, solutions, submitted>>

\* send fails without a receiver, and the thread with it.
ReportFails(i) ==
  /\ elapsed[i] > ReportAfter
  /\ ~receiver
  /\ Goto(i, "report", "failed")
  /\ UNCHANGED <<env, crashed, search, solutions, submitted>>

\* Mutant: the header is the cached template's at the time of the submission.
Submit_FromCache(i) ==
  /\ Goto(i, "submit", "top")
  /\ submitted' = submitted \cup
       {[device |-> i, header |-> cache, nonce |-> nonce[i]]}
  /\ UNCHANGED <<env, crashed, search, solutions>>

\* The outcome of submit_block, or its timeout, is only printed.
Submit(i) ==
  /\ Goto(i, "submit", "top")
  /\ submitted' = submitted \cup
       {[device |-> i, header |-> header[i], nonce |-> nonce[i]]}
  /\ UNCHANGED <<env, crashed, search, solutions>>

\* What a thread does by itself once it is connected.
Step(i) ==
  \/ Quit(i) \/ ReadTemplate(i) \/ TemplateExpires(i) \/ Mine(i)
  \/ Report(i) \/ ReportFails(i) \/ Submit(i)

Thread(i) == Connect(i) \/ SetupFails(i) \/ Panic(i) \/ MineFails(i) \/ Step(i)

-----------------------------------------------------------------------------
\* The other parts of the process, as the threads see them.

replace_block_template_cache ==
  /\ ~crashed
  /\ \E v \in Versions : v > cache /\ cache' = v
  /\ UNCHANGED <<shutdown, receiver, crashed, thread>>

TriggerShutdown ==
  /\ ~crashed /\ ~shutdown
  /\ shutdown' = TRUE
  /\ UNCHANGED <<cache, receiver, crashed, thread>>

DropReceiver ==
  /\ ~crashed /\ receiver
  /\ receiver' = FALSE
  /\ UNCHANGED <<cache, shutdown, crashed, thread>>

WatcherPanics ==
  /\ ~crashed
  /\ crashed' = TRUE
  /\ UNCHANGED <<env, thread>>

AllOver == \A i \in Devices : pc[i] \in Over

\* Nothing is left to do: lets the model checker tell the end from a deadlock.
\* A thread that waits for its first template is idle, not stuck.
Idle == (crashed \/ AllOver \/ cache = 0) /\ UNCHANGED minerVars

MinersNext ==
  \/ \E i \in Devices : Thread(i)
  \/ replace_block_template_cache \/ TriggerShutdown \/ DropReceiver \/ WatcherPanics
  \/ Idle

MinersSpec == MinersInit /\ [][MinersNext]_minerVars

\* Every thread is scheduled, and a call of mine or submit_block returns; a node
\* that can be reached is the assumption under which Connect is fair.
ThreadsRun == \A i \in Devices : WF_minerVars(Step(i))
NodesAccept == \A i \in Devices : WF_minerVars(Connect(i))
MinersFairSpec == MinersSpec /\ ThreadsRun /\ NodesAccept

-----------------------------------------------------------------------------
\* The threads' state has its type.
MinersTypeOK ==
  /\ cache \in Versions
  /\ shutdown \in BOOLEAN
  /\ receiver \in BOOLEAN
  /\ crashed \in BOOLEAN
  /\ pc \in [Devices -> {"connect", "top", "mine", "report", "submit"} \cup Over]
  /\ job \in [Devices -> Versions]
  /\ header \in [Devices -> Versions]
  /\ nonce_start \in [Devices -> Nat]
  /\ elapsed \in [Devices -> 0 .. TemplateRefreshSecs + 1]
  /\ nonce \in [Devices -> Nat]
  /\ solutions \subseteq [device : Devices, job : Versions, nonce : Nat]
  /\ submitted \subseteq [device : Devices, header : Versions, nonce : Nat]

\* The nonces searched since the thread read its template.
Searched(i) == IF pc[i] = "connect" THEN {} ELSE FirstNonce(i) .. nonce_start[i] - 1

\* Two devices never search the same nonce of a template, and none leaves the 64
\* bits: each starts at its own quota and reads the template again before it has
\* used the quota up (main.rs 821, 834-837, 884).
DisjointSearch ==
  \A i, k \in Devices :
    /\ i # k => Searched(i) \cap Searched(k) = {}
    /\ Searched(i) \subseteq Nonces

\* Every block submitted carries a nonce that solves that block's own header,
\* though the cache moves on while the thread mines (main.rs 793-821, 918-921).
SubmittedSolve == \A b \in submitted : <<b.header, b.nonce>> \in Solves

Delivered(s) ==
  [device |-> s.device, header |-> s.job, nonce |-> s.nonce] \in submitted
Held(s) ==
  /\ job[s.device] = s.job /\ nonce[s.device] = s.nonce
  /\ pc[s.device] \in {"report", "submit"} \/ (pc[s.device] = "failed" /\ ~receiver)

\* A solution found reaches submit_block, or its thread still holds it, or the
\* thread died with it because nobody receives the statistics (main.rs 889-893
\* come before 917-942).
NoSolutionDropped == \A s \in solutions : Delivered(s) \/ Held(s)

\* A triggered shutdown ends every thread, although it is looked at only between
\* two templates (main.rs 779): a search ends by itself (main.rs 834, 944).
ShutdownEndsThreads == shutdown ~> (crashed \/ AllOver)
=============================================================================
