--------------------------- MODULE StatsCollector ---------------------------
(***************************************************************************)
(* StatsCollector (http/stats_collector.rs): a task that keeps the hash    *)
(* rate samples the mining threads broadcast and answers the HTTP handlers *)
(* that ask for the averages.  Averages are modelled by the totals they    *)
(* divide by 10 and 60 seconds.                                            *)
(***************************************************************************)
EXTENDS Integers, Sequences, SequencesExt

CONSTANTS
  Devices,               \* devices that send samples
  Clients,               \* HTTP requests to /stats that may be open at a time
  Rates,                 \* hash rates a sample may report
  Window, ShortWindow,   \* 60 and 10 seconds
  MaxKept,               \* 180: a device with more samples loses its oldest one
  Capacity,              \* of the broadcast channel
  RequestCapacity,       \* of the request queue
  SamplesPerSecond,      \* 2: a thread waits more than 500 ms between samples
  MaxTime                \* bound: the last second of a behaviour

ASSUME CollectorAssumption ==
  /\ Rates \subseteq Nat
  /\ {Window, ShortWindow, MaxKept, SamplesPerSecond, MaxTime} \subseteq Nat
  /\ {Capacity, RequestCapacity} \subseteq Nat \ {0}
  /\ ShortWindow <= Window
  /\ SamplesPerSecond * (Window + 1) <= MaxKept + 1

VARIABLES
  now,                   \* EpochTime::now(), in seconds
  sent,                  \* samples of each device in this second
  channel, lagged,       \* the broadcast channel; its receiver lost a sample
  status,                \* of the task: "running" or "ended"
  shutdown,
  hashrate_samples,      \* what the task keeps, by device
  first_stat_received,   \* timestamp of the first sample, 0 for None
  requests,              \* clients in the request queue
  client,                \* what each client is doing
  \* history
  received               \* every sample the task has taken, by device

collected == <<hashrate_samples, first_stat_received, received>>
sending == <<now, sent>>
vars == <<sending, channel, lagged, status, shutdown, collected, requests, client>>

Sample == [device_id : Devices, timestamp : Nat, hashrate : Rates]

Init ==
  /\ now = Window
  /\ sent = [d \in Devices |-> 0]
  /\ channel = <<>>
  /\ lagged = FALSE
  /\ status = "running"
  /\ shutdown = FALSE
  /\ hashrate_samples = [d \in Devices |-> <<>>]
  /\ first_stat_received = 0
  /\ requests = <<>>
  /\ client = [c \in Clients |-> "idle"]
  /\ received = [d \in Devices |-> <<>>]

-----------------------------------------------------------------------------
\* The clock, the mining threads, the main task.

Tick ==
  /\ now < MaxTime
  /\ now' = now + 1
  /\ sent' = [d \in Devices |-> 0]
  /\ UNCHANGED <<channel, lagged, status, shutdown, collected, requests, client>>

\* stats_tx.send: a full channel forgets its oldest sample, and the receiver is
\* told that it lags.
Send(d) ==
  /\ status = "running"
  /\ sent[d] < SamplesPerSecond
  /\ sent' = [sent EXCEPT ![d] = @ + 1]
  /\ \E rate \in Rates :
       LET sample == [device_id |-> d, timestamp |-> now, hashrate |-> rate]
       IN  channel' = Append(IF Len(channel) < Capacity THEN channel ELSE Tail(channel),
                             sample)
  /\ lagged' = (lagged \/ Len(channel) = Capacity)
  /\ UNCHANGED <<now, status, shutdown, collected, requests, client>>

TriggerShutdown ==
  /\ ~shutdown
  /\ shutdown' = TRUE
  /\ UNCHANGED <<sending, channel, lagged, status, collected, requests, client>>

-----------------------------------------------------------------------------
\* StatsClient::get_hashrate, called by a handler.

\* send waits while the queue is full.
Ask(c) ==
  /\ status = "running"
  /\ client[c] = "idle"
  /\ Len(requests) < RequestCapacity
  /\ client' = [client EXCEPT ![c] = "waiting"]
  /\ requests' = Append(requests, c)
  /\ UNCHANGED <<sending, channel, lagged, status, shutdown, collected>>

\* The queue is closed: the handler answers 500.
AskFails(c) ==
  /\ status = "ended"
  /\ client[c] = "idle"
  /\ client' = [client EXCEPT ![c] = "error"]
  /\ UNCHANGED <<sending, channel, lagged, status, shutdown, collected, requests>>

\* The handler returns and another request comes in.
NextRequest(c) ==
  /\ client[c] \in {"answered", "error"}
  /\ client' = [client EXCEPT ![c] = "idle"]
  /\ UNCHANGED <<sending, channel, lagged, status, shutdown, collected, requests>>

-----------------------------------------------------------------------------
\* calc_hashrate.

\* Samples at the front that are older than the second are dropped.
DropOlder(samples, second) ==
  LET first == SelectInSeq(samples, LAMBDA s : s.timestamp >= second)
  IN  IF first = 0 THEN <<>> ELSE SubSeq(samples, first, Len(samples))

\* The first sample of a second is taken, what is left in front of it is dropped.
Take(acc, second, time) ==
  LET rest == DropOlder(acc.rest, second)
  IN  IF rest # <<>> /\ Head(rest).timestamp = second
      THEN [rest |-> Tail(rest),
            long |-> acc.long + Head(rest).hashrate,
            short |-> IF second >= time - ShortWindow
                      THEN acc.short + Head(rest).hashrate ELSE acc.short]
      ELSE [acc EXCEPT !.rest = rest]

\* One pass over the seconds of the window.
Totals(samples, time) ==
  LET pass[k \in 0 .. Window] ==
        IF k = 0 THEN [rest |-> samples, long |-> 0, short |-> 0]
        ELSE Take(pass[k - 1], time - Window + k - 1, time)
  IN  pass[Window]

-----------------------------------------------------------------------------
\* run: whichever of its three channels select! picks.

Answer ==
  /\ status = "running"
  /\ requests # <<>>
  /\ client' = [client EXCEPT ![Head(requests)] = "answered"]
  /\ requests' = Tail(requests)
  /\ UNCHANGED <<sending, channel, lagged, status, shutdown, collected>>

\* Mutants: one sample for each second of the window, no bound, or a full deque
\* that loses its newest sample.
Keep_OnePerSecond(samples, sample) ==
  Append(IF Len(samples) > Window THEN Tail(samples) ELSE samples, sample)
Keep_Everything(samples, sample) == Append(samples, sample)
Keep_NewestFirst(samples, sample) ==
  Append(IF Len(samples) > MaxKept THEN Front(samples) ELSE samples, sample)

Keep(samples, sample) ==
  Append(IF Len(samples) > MaxKept THEN Tail(samples) ELSE samples, sample)

Receive ==
  /\ status = "running"
  /\ channel # <<>>
  /\ ~lagged
  /\ LET sample == Head(channel)
     IN  /\ hashrate_samples' = [hashrate_samples EXCEPT
              ![sample.device_id] = Keep(@, sample)]
         /\ received' = [received EXCEPT ![sample.device_id] = Append(@, sample)]
         /\ first_stat_received' = IF first_stat_received = 0 THEN sample.timestamp
                                   ELSE first_stat_received
  /\ channel' = Tail(channel)
  /\ UNCHANGED <<sending, lagged, status, shutdown, requests, client>>

\* Mutant: the queue is left behind and the clients in it wait on.
EndTask_LeavesQueue ==
  /\ status = "running"
  /\ status' = "ended"
  /\ channel' = <<>>
  /\ UNCHANGED <<sending, lagged, shutdown, collected, requests, client>>

\* The task and its ends of the channels go: a client in the queue gets an error.
EndTask ==
  /\ status = "running"
  /\ status' = "ended"
  /\ channel' = <<>>
  /\ requests' = <<>>
  /\ client' = [c \in Clients |-> IF client[c] = "waiting" THEN "error" ELSE client[c]]
  /\ UNCHANGED <<sending, lagged, shutdown, collected>>

Stop == shutdown /\ EndTask
ReceiveLagged == lagged /\ EndTask

\* Nothing is left to do but to ask an ended task.
Idle == now = MaxTime /\ UNCHANGED vars

Next ==
  \/ Tick \/ TriggerShutdown
  \/ \E d \in Devices : Send(d)
  \/ \E c \in Clients : Ask(c) \/ AskFails(c) \/ NextRequest(c)
  \/ Answer \/ Receive \/ Stop \/ ReceiveLagged
  \/ Idle

Spec == Init /\ [][Next]_vars

\* select! picks among its ready channels at random, so each gets its turn.
Fairness == WF_vars(Answer) /\ WF_vars(Receive) /\ WF_vars(Stop) /\ WF_vars(ReceiveLagged)
FairSpec == Spec /\ Fairness

-----------------------------------------------------------------------------
\* The task's state has its type; no device's samples outgrow their bound.
TypeOK ==
  /\ now \in Nat
  /\ sent \in [Devices -> 0 .. SamplesPerSecond]
  /\ Len(channel) <= Capacity
  /\ status \in {"running", "ended"}
  /\ \A d \in Devices : Len(hashrate_samples[d]) <= MaxKept + 1
  /\ first_stat_received \in Nat
  /\ client \in [Clients -> {"idle", "waiting", "answered", "error"}]
  /\ \A i \in 1 .. Len(requests) : client[requests[i]] = "waiting"

\* What the averages are meant to be: for every second of the window that had a
\* sample, the first one that was received, whatever has been evicted since.
FirstAt(samples, second) ==
  LET i == SelectInSeq(samples, LAMBDA s : s.timestamp = second)
  IN  IF i = 0 THEN 0 ELSE samples[i].hashrate
TotalSince(samples, from) ==
  LET total[k \in 0 .. now - from] ==
        IF k = 0 THEN 0 ELSE total[k - 1] + FirstAt(samples, from + k - 1)
  IN  total[now - from]

\* Whenever a client asks, the totals are those of every sample received: the
\* eviction at 180 samples never reaches into the last minute, and the single
\* pass over the deque finds each second's first sample (stats_collector.rs
\* 76-116, 165-170).
AveragesExact ==
  \A d \in Devices :
    LET totals == Totals(hashrate_samples[d], now)
    IN  /\ totals.long = TotalSince(received[d], now - Window)
        /\ totals.short = TotalSince(received[d], now - ShortWindow)

\* Why they are: the samples of the last Window seconds, and all that came after
\* them, are at the end of what is kept.  The bound of 180 counts samples while
\* the window is in seconds, and samples may wait in the channel until several
\* seconds' worth are taken in one (stats_collector.rs 165-171).
WindowIsKept ==
  \A d \in Devices : \A i \in 1 .. Len(received[d]) :
    received[d][i].timestamp >= now - Window =>
      LET all == received[d]
          kept == hashrate_samples[d]
          k == i - (Len(all) - Len(kept))
      IN  k \in 1 .. Len(kept) /\ kept[k] = all[i]

\* A client whose request is in the queue gets an answer or an error, however the
\* shutdown, a lagging channel and the queue fall (stats_collector.rs 50-56,
\* 142-180).  One that still waits for room in a full queue is "idle" here.
EveryRequestEnds ==
  \A c \in Clients : client[c] = "waiting" ~> client[c] \in {"answered", "error"}
=============================================================================
