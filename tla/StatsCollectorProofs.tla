------------------------ MODULE StatsCollectorProofs ------------------------
(***************************************************************************)
(* Proofs about StatsCollector for any number of devices and clients and   *)
(* every size of its channels and windows: types, that the eviction never  *)
(* takes a sample that is still in the window, and that the averages are   *)
(* those of every sample received.                                         *)
(***************************************************************************)
EXTENDS StatsCollector, FiniteSetTheorems, FunctionTheorems,
        SequenceTheorems, Recursions, TLAPS

\* Products of the numbers involved: what the provers need to be told.
LEMMA Products ==
  /\ \A m, n \in Nat : m * n \in Nat
  /\ \A m, n \in Nat : m * (n + 1) = m * n + m
  /\ \A l, m, n \in Nat : l <= m => n * l <= n * m
OBVIOUS

\* The places, from the p-th on, of a device's samples in a channel.
Later(c, d, p) == {q \in p .. Len(c) : c[q].device_id = d}

LEMMA LaterFinite ==
  ASSUME NEW c \in Seq(Sample), NEW d, NEW p \in Nat
  PROVE  IsFiniteSet(Later(c, d, p)) /\ Cardinality(Later(c, d, p)) \in Nat
<1>1. IsFiniteSet(p .. Len(c))
  BY FS_Interval, LenProperties
<1> QED BY <1>1, FS_Subset, FS_CardinalityType DEF Later

\* A sample that is sent is one more of its device, after every place.
LEMMA LaterAppend ==
  ASSUME NEW c \in Seq(Sample), NEW s \in Sample, NEW d, NEW p \in 1 .. Len(c) + 1
  PROVE  Cardinality(Later(Append(c, s), d, p)) =
           Cardinality(Later(c, d, p)) + (IF s.device_id = d THEN 1 ELSE 0)
<1>1. /\ Len(c) \in Nat /\ Len(Append(c, s)) = Len(c) + 1
      /\ \A q \in 1 .. Len(c) : Append(c, s)[q] = c[q]
      /\ Append(c, s)[Len(c) + 1] = s
  BY AppendProperties, LenProperties
<1>2. IsFiniteSet(Later(c, d, p)) /\ Cardinality(Later(c, d, p)) \in Nat
  BY <1>1, LaterFinite
<1>5. Len(c) + 1 \notin Later(c, d, p)
  BY <1>1 DEF Later
<1>3. CASE s.device_id = d
  <2>1. Later(Append(c, s), d, p) = Later(c, d, p) \cup {Len(c) + 1}
    BY <1>1, <1>3 DEF Later
  <2> QED BY <1>2, <1>3, <1>5, <2>1, FS_AddElement
<1>4. CASE s.device_id # d
  <2>1. Later(Append(c, s), d, p) = Later(c, d, p)
    BY <1>1, <1>4 DEF Later
  <2> QED BY <1>2, <1>4, <2>1
<1> QED BY <1>3, <1>4

\* When the first sample is taken every place moves up by one.
LEMMA LaterTail ==
  ASSUME NEW c \in Seq(Sample), c # <<>>, NEW d, NEW p \in Nat \ {0}
  PROVE  Cardinality(Later(Tail(c), d, p)) = Cardinality(Later(c, d, p + 1))
<1> DEFINE S == Later(c, d, p + 1)
           T == Later(Tail(c), d, p)
           f == [q \in S |-> q - 1]
<1>1. /\ Len(c) \in Nat /\ Len(Tail(c)) = Len(c) - 1
      /\ \A q \in 1 .. Len(c) - 1 : Tail(c)[q] = c[q + 1]
  BY HeadTailProperties, LenProperties
<1>2. f \in [S -> T] /\ \A a, b \in S : f[a] = f[b] => a = b
  BY <1>1 DEF Later
<1>3. ASSUME NEW t \in T
      PROVE  \E q \in S : f[q] = t
  <2>1. t + 1 \in S /\ f[t + 1] = t
    BY <1>1 DEF Later
  <2> QED BY <2>1
<1>4. f \in Bijection(S, T)
  BY <1>2, <1>3, Fun_IsBij
<1> QED BY <1>4, FS_Bijection, LaterFinite DEF ExistsBijection

\* The first sample is the one by which its device's count goes down.
LEMMA LaterFirst ==
  ASSUME NEW c \in Seq(Sample), c # <<>>, NEW d
  PROVE  Cardinality(Later(c, d, 1)) =
           Cardinality(Later(c, d, 2)) + (IF Head(c).device_id = d THEN 1 ELSE 0)
<1>1. Len(c) \in Nat \ {0} /\ Head(c) = c[1]
  BY EmptySeq
<1>2. IsFiniteSet(Later(c, d, 2)) /\ Cardinality(Later(c, d, 2)) \in Nat
  BY LaterFinite
<1>5. 1 \notin Later(c, d, 2)
  BY DEF Later
<1>3. CASE Head(c).device_id = d
  <2>1. Later(c, d, 1) = Later(c, d, 2) \cup {1}
    BY <1>1, <1>3 DEF Later
  <2> QED BY <1>2, <1>3, <1>5, <2>1, FS_AddElement
<1>4. CASE Head(c).device_id # d
  <2>1. Later(c, d, 1) = Later(c, d, 2)
    BY <1>1, <1>4 DEF Later
  <2> QED BY <1>2, <1>4, <2>1
<1> QED BY <1>3, <1>4

-----------------------------------------------------------------------------
\* Types, and a request queue that holds each waiting client once: Answer then
\* leaves only waiting clients in it.
Typed ==
  /\ now \in Nat
  /\ sent \in [Devices -> 0 .. SamplesPerSecond]
  /\ channel \in Seq(Sample) /\ Len(channel) <= Capacity
  /\ lagged \in BOOLEAN /\ shutdown \in BOOLEAN
  /\ status \in {"running", "ended"}
  /\ hashrate_samples \in [Devices -> Seq(Sample)]
  /\ \A d \in Devices : Len(hashrate_samples[d]) <= MaxKept + 1
  /\ received \in [Devices -> Seq(Sample)]
  /\ first_stat_received \in Nat
  /\ requests \in Seq(Clients)
  /\ client \in [Clients -> {"idle", "waiting", "answered", "error"}]
  /\ \A i \in 1 .. Len(requests) : client[requests[i]] = "waiting"
  /\ \A i, j \in 1 .. Len(requests) : requests[i] = requests[j] => i = j

LEMMA KeepType ==
  ASSUME NEW samples \in Seq(Sample), NEW sample \in Sample, Len(samples) <= MaxKept + 1
  PROVE  Keep(samples, sample) \in Seq(Sample) /\ Len(Keep(samples, sample)) <= MaxKept + 1
<1>1. MaxKept \in Nat /\ Len(samples) \in Nat
  BY CollectorAssumption, LenProperties
<1>2. CASE Len(samples) > MaxKept
  <2>1. samples # <<>>
    BY <1>1, <1>2
  <2>2. Tail(samples) \in Seq(Sample) /\ Len(Tail(samples)) = Len(samples) - 1
    BY <2>1, HeadTailProperties
  <2> QED BY <1>1, <1>2, <2>2, AppendProperties DEF Keep
<1>3. CASE ~(Len(samples) > MaxKept)
  BY <1>1, <1>3, AppendProperties DEF Keep
<1> QED BY <1>2, <1>3

LEMMA TypedInit == Init => Typed
<1>1. /\ {Window, MaxKept, SamplesPerSecond} \subseteq Nat /\ Capacity \in Nat
  BY CollectorAssumption
<1>2. \A S : <<>> \in Seq(S) /\ Len(<<>>) = 0
  BY EmptySeq
<1>3. ASSUME Init
      PROVE  now \in Nat /\ sent \in [Devices -> 0 .. SamplesPerSecond]
  <2>1. 0 \in 0 .. SamplesPerSecond
    BY <1>1
  <2> QED BY <1>1, <1>3, <2>1 DEF Init
<1>7. ASSUME Init
      PROVE  /\ lagged \in BOOLEAN /\ shutdown \in BOOLEAN
             /\ status \in {"running", "ended"} /\ first_stat_received \in Nat
             /\ client \in [Clients -> {"idle", "waiting", "answered", "error"}]
  BY <1>7 DEF Init
<1>5. ASSUME Init
      PROVE  /\ channel \in Seq(Sample) /\ Len(channel) <= Capacity
             /\ requests \in Seq(Clients) /\ Len(requests) = 0
  BY <1>1, <1>2, <1>5 DEF Init
<1>6. ASSUME Init
      PROVE  /\ \A i \in 1 .. Len(requests) : client[requests[i]] = "waiting"
             /\ \A i, j \in 1 .. Len(requests) : requests[i] = requests[j] => i = j
  BY <1>5, <1>6
<1>4. ASSUME Init
      PROVE  /\ hashrate_samples \in [Devices -> Seq(Sample)]
             /\ received \in [Devices -> Seq(Sample)]
             /\ \A d \in Devices : Len(hashrate_samples[d]) <= MaxKept + 1
  BY <1>1, <1>2, <1>4 DEF Init
<1> QED BY <1>3, <1>4, <1>5, <1>6, <1>7 DEF Typed

LEMMA TypedNext == Typed /\ [Next]_vars => Typed'
<1> SUFFICES ASSUME Typed, [Next]_vars PROVE Typed'
  OBVIOUS
<1> USE DEF Typed, vars, sending, collected
<1>1. CASE Tick
  BY <1>1, CollectorAssumption DEF Tick
<1>2. CASE TriggerShutdown
  BY <1>2 DEF TriggerShutdown
<1>3. ASSUME NEW d \in Devices, Send(d) PROVE Typed'
  <2>1. PICK rate \in Rates : channel' =
          Append(IF Len(channel) < Capacity THEN channel ELSE Tail(channel),
                 [device_id |-> d, timestamp |-> now, hashrate |-> rate])
    BY <1>3 DEF Send
  <2>2. [device_id |-> d, timestamp |-> now, hashrate |-> rate] \in Sample
    BY DEF Sample
  <2>3. Capacity \in Nat \ {0} /\ SamplesPerSecond \in Nat /\ Len(channel) \in Nat
    BY CollectorAssumption, LenProperties
  <2>4. sent' \in [Devices -> 0 .. SamplesPerSecond] /\ lagged' \in BOOLEAN
    BY <1>3, <2>3 DEF Send
  <2>5. channel' \in Seq(Sample) /\ Len(channel') <= Capacity
    <3>1. CASE Len(channel) < Capacity
      BY <2>1, <2>2, <2>3, <3>1, AppendProperties
    <3>2. CASE ~(Len(channel) < Capacity)
      <4>1. channel # <<>>
        BY <2>3, <3>2
      <4>2. Tail(channel) \in Seq(Sample) /\ Len(Tail(channel)) = Len(channel) - 1
        BY <4>1, HeadTailProperties
      <4> QED BY <2>1, <2>2, <2>3, <3>2, <4>2, AppendProperties
    <3> QED BY <3>1, <3>2
  <2> QED BY <1>3, <2>4, <2>5 DEF Send
<1>4. ASSUME NEW c \in Clients, Ask(c) PROVE Typed'
  <2>1. /\ requests' \in Seq(Clients) /\ Len(requests') = Len(requests) + 1
        /\ \A i \in 1 .. Len(requests) : requests'[i] = requests[i]
        /\ requests'[Len(requests) + 1] = c /\ Len(requests) \in Nat
    BY <1>4, AppendProperties, LenProperties DEF Ask
  <2>2. \A i \in 1 .. Len(requests) : requests[i] # c
    BY <1>4 DEF Ask
  <2>3. \A i \in 1 .. Len(requests') : i \in 1 .. Len(requests) \/ i = Len(requests) + 1
    BY <2>1
  <2>4. /\ client'[c] = "waiting" /\ \A e \in Clients : e # c => client'[e] = client[e]
        /\ client' \in [Clients -> {"idle", "waiting", "answered", "error"}]
    BY <1>4 DEF Ask
  <2>5. \A i \in 1 .. Len(requests) : requests[i] \in Clients
    BY ElementOfSeq
  <2>6. \A i \in 1 .. Len(requests') : client'[requests'[i]] = "waiting"
    BY <2>1, <2>2, <2>3, <2>4, <2>5
  <2>7. \A i, j \in 1 .. Len(requests') : requests'[i] = requests'[j] => i = j
    BY <2>1, <2>2, <2>3
  <2> QED BY <1>4, <2>1, <2>4, <2>6, <2>7 DEF Ask
<1>5. ASSUME NEW c \in Clients, AskFails(c) \/ NextRequest(c) PROVE Typed'
  <2>1. \A i \in 1 .. Len(requests) : requests[i] # c /\ requests[i] \in Clients
    BY <1>5, ElementOfSeq DEF AskFails, NextRequest
  <2> QED BY <1>5, <2>1 DEF AskFails, NextRequest
<1>6. CASE Answer
  <2>1. /\ requests' = Tail(requests) /\ requests # <<>>
        /\ client' = [client EXCEPT ![Head(requests)] = "answered"]
    BY <1>6 DEF Answer
  <2>2. /\ Head(requests) = requests[1] /\ Head(requests) \in Clients
        /\ Tail(requests) \in Seq(Clients) /\ Len(Tail(requests)) = Len(requests) - 1
        /\ \A i \in 1 .. Len(requests) - 1 : Tail(requests)[i] = requests[i + 1]
        /\ Len(requests) \in Nat \ {0}
    BY <2>1, HeadTailProperties, EmptySeq
  <2>3. \A i \in 1 .. Len(requests) - 1 :
          requests[i + 1] # requests[1] /\ requests[i + 1] \in Clients
    BY <2>2, ElementOfSeq
  <2>4. ASSUME NEW i \in 1 .. Len(requests')
        PROVE  /\ requests'[i] = requests[i + 1] /\ i + 1 \in 1 .. Len(requests)
               /\ i \in 1 .. Len(requests) - 1
    <3>1. i \in 1 .. Len(requests) - 1
      BY <2>1, <2>2
    <3>2. requests'[i] = requests[i + 1]
      BY <2>1, <2>2, <3>1, Zenon
    <3> QED BY <2>2, <3>1, <3>2
  <2>5. ASSUME NEW i \in 1 .. Len(requests')
        PROVE  client'[requests'[i]] = "waiting"
    <3>1. /\ requests[i + 1] # Head(requests) /\ requests[i + 1] \in Clients
          /\ client[requests[i + 1]] = "waiting"
      BY <2>2, <2>3, <2>4
    <3> QED BY <2>1, <2>4, <3>1
  <2>6. ASSUME NEW i \in 1 .. Len(requests'), NEW j \in 1 .. Len(requests'),
               requests'[i] = requests'[j]
        PROVE  i = j
    <3>1. requests[i + 1] = requests[j + 1]
      BY <2>4, <2>6
    <3>2. i + 1 = j + 1
      BY <2>4, <3>1
    <3> QED BY <3>2
  <2> QED BY <1>6, <2>1, <2>2, <2>5, <2>6 DEF Answer
<1>7. CASE Receive
  <2>1. /\ Head(channel) \in Sample /\ Tail(channel) \in Seq(Sample)
        /\ Len(Tail(channel)) <= Capacity
    BY <1>7, HeadTailProperties, LenProperties, CollectorAssumption DEF Receive
  <2>2. PICK sample \in Sample : sample = Head(channel)
    BY <2>1
  <2>3. sample.device_id \in Devices /\ sample.timestamp \in Nat
    BY DEF Sample
  <2>4. /\ Keep(hashrate_samples[sample.device_id], sample) \in Seq(Sample)
        /\ Len(Keep(hashrate_samples[sample.device_id], sample)) <= MaxKept + 1
    BY <2>3, KeepType
  <2>5. Append(received[sample.device_id], sample) \in Seq(Sample)
    BY <2>3, AppendProperties
  <2>6. /\ hashrate_samples' \in [Devices -> Seq(Sample)]
        /\ \A d \in Devices : Len(hashrate_samples'[d]) <= MaxKept + 1
    BY <1>7, <2>2, <2>3, <2>4 DEF Receive
  <2>7. received' \in [Devices -> Seq(Sample)] /\ first_stat_received' \in Nat
    BY <1>7, <2>2, <2>3, <2>5 DEF Receive
  <2> QED BY <1>7, <2>1, <2>6, <2>7 DEF Receive
<1>8. CASE EndTask
  <2>1. /\ channel' = <<>> /\ requests' = <<>> /\ Len(channel') = 0 /\ Len(requests') = 0
        /\ channel' \in Seq(Sample) /\ requests' \in Seq(Clients)
    BY <1>8, EmptySeq DEF EndTask
  <2>2. client' \in [Clients -> {"idle", "waiting", "answered", "error"}]
    BY <1>8 DEF EndTask
  <2> QED BY <1>8, <2>1, <2>2, CollectorAssumption DEF EndTask
<1>9. CASE UNCHANGED vars
  BY <1>9
<1> QED
  BY <1>1, <1>2, <1>3, <1>4, <1>5, <1>6, <1>7, <1>8, <1>9
     DEF Next, Stop, ReceiveLagged, Idle

\* The collector's state has its type whatever the sizes of its channels: a
\* device never keeps more than MaxKept + 1 samples, and every client in the
\* queue is still waiting (stats_collector.rs 50-56, 142-180).
THEOREM TypeCorrect == Spec => []TypeOK
<1>1. Typed => TypeOK
  BY DEF Typed, TypeOK
<1> QED BY <1>1, TypedInit, TypedNext, PTL DEF Spec

-----------------------------------------------------------------------------
\* A device sends SamplesPerSecond samples in a second, so those from a sample
\* on, whether the task has them or they are still in the channel, fit in the
\* seconds since it was sent.  A receiver that lags takes no more of them.
Budget(d, time) == SamplesPerSecond * (now - time) + sent[d]
Pending(d) == IF lagged THEN 0 ELSE Cardinality(Later(channel, d, 1))

ReceivedFits(d, i) ==
  /\ received[d][i].timestamp <= now
  /\ Len(received[d]) - i + 1 + Pending(d) <= Budget(d, received[d][i].timestamp)

ChannelFits(p) ==
  LET d == channel[p].device_id
  IN  /\ channel[p].timestamp <= now
      /\ Cardinality(Later(channel, d, p)) <= Budget(d, channel[p].timestamp)

Counted ==
  /\ \A d \in Devices : \A i \in 1 .. Len(received[d]) : ReceivedFits(d, i)
  /\ ~lagged => \A p \in 1 .. Len(channel) : ChannelFits(p)

\* What Typed says of the samples and the numbers that Counted is about.
LEMMA Numbers ==
  ASSUME Typed
  PROVE  /\ now \in Nat /\ SamplesPerSecond \in Nat
         /\ channel \in Seq(Sample) /\ Len(channel) \in Nat
         /\ \A p \in 1 .. Len(channel) :
              channel[p].device_id \in Devices /\ channel[p].timestamp \in Nat
         /\ \A d \in Devices :
              /\ sent[d] \in Nat /\ sent[d] <= SamplesPerSecond
              /\ received[d] \in Seq(Sample) /\ Len(received[d]) \in Nat
              /\ Pending(d) \in Nat
              /\ \A i \in 1 .. Len(received[d]) : received[d][i].timestamp \in Nat
              /\ \A time \in Nat : time <= now => Budget(d, time) \in Nat
<1>1. now \in Nat /\ SamplesPerSecond \in Nat /\ channel \in Seq(Sample)
  BY CollectorAssumption DEF Typed
<1>2. \A p \in 1 .. Len(channel) :
        channel[p].device_id \in Devices /\ channel[p].timestamp \in Nat
  <2>1. \A p \in 1 .. Len(channel) : channel[p] \in Sample
    BY <1>1, ElementOfSeq
  <2> QED BY <2>1 DEF Sample
<1>3. ASSUME NEW d \in Devices
      PROVE  /\ sent[d] \in Nat /\ sent[d] <= SamplesPerSecond
             /\ received[d] \in Seq(Sample) /\ Len(received[d]) \in Nat
             /\ Pending(d) \in Nat
             /\ \A i \in 1 .. Len(received[d]) : received[d][i].timestamp \in Nat
             /\ \A time \in Nat : time <= now => Budget(d, time) \in Nat
  <2>1. sent[d] \in Nat /\ sent[d] <= SamplesPerSecond
    BY <1>1 DEF Typed
  <2>2. received[d] \in Seq(Sample) /\ Len(received[d]) \in Nat
    BY LenProperties DEF Typed
  <2>3. \A i \in 1 .. Len(received[d]) : received[d][i].timestamp \in Nat
    <3>1. \A i \in 1 .. Len(received[d]) : received[d][i] \in Sample
      BY <2>2, ElementOfSeq
    <3> QED BY <3>1 DEF Sample
  <2>4. Pending(d) \in Nat
    BY <1>1, LaterFinite DEF Pending
  <2>5. ASSUME NEW time \in Nat, time <= now PROVE Budget(d, time) \in Nat
    <3>1. now - time \in Nat
      BY <1>1, <2>5
    <3>2. SamplesPerSecond * (now - time) \in Nat
      BY <1>1, <3>1, Products
    <3> QED BY <2>1, <3>2 DEF Budget
  <2> QED BY <2>1, <2>2, <2>3, <2>4, <2>5
<1> QED BY <1>1, <1>2, <1>3, LenProperties

\* A second that passes gives every device at least what it may have used.
LEMMA BudgetTick ==
  ASSUME Typed, Tick, NEW d \in Devices, NEW time \in Nat, time <= now
  PROVE  Budget(d, time)' \in Int /\ Budget(d, time) <= Budget(d, time)'
<1>1. now' = now + 1 /\ sent'[d] = 0
  BY DEF Tick, sending
<1>2. /\ now - time \in Nat /\ SamplesPerSecond \in Nat
      /\ sent[d] \in Nat /\ sent[d] <= SamplesPerSecond
  BY Numbers
<1>3. PICK n \in Nat : n = now - time
  BY <1>2
<1>4. SamplesPerSecond * (n + 1) = SamplesPerSecond * n + SamplesPerSecond
  BY <1>2, Products
<1>5. SamplesPerSecond * n \in Nat
  BY <1>2, Products
<1>6. Budget(d, time) = SamplesPerSecond * n + sent[d]
  BY <1>3 DEF Budget
<1>7. Budget(d, time)' = SamplesPerSecond * (n + 1)
  <2>1. now' - time = n + 1
    BY <1>1, <1>3, Numbers
  <2>2. Budget(d, time)' = SamplesPerSecond * (n + 1) + 0
    BY <1>1, <2>1 DEF Budget
  <2>3. SamplesPerSecond * (n + 1) \in Int
    BY <1>2, <1>4, <1>5
  <2> QED BY <2>2, <2>3
<1> QED BY <1>2, <1>4, <1>5, <1>6, <1>7

LEMMA CountedFrame ==
  ASSUME Counted, UNCHANGED <<now, sent, channel, lagged, received>>
  PROVE  Counted'
BY DEF Counted, ReceivedFits, ChannelFits, Budget, Pending

LEMMA CountedTick ==
  ASSUME Typed, Counted, Tick
  PROVE  Counted'
<1>1. UNCHANGED <<channel, lagged, received>> /\ now' = now + 1
  BY DEF Tick, collected
<1>2. ASSUME NEW d \in Devices, NEW i \in 1 .. Len(received[d])
      PROVE  ReceivedFits(d, i)'
  <2>1. ReceivedFits(d, i) /\ received[d][i].timestamp \in Nat
    BY Numbers DEF Counted
  <2>2. PICK time \in Nat : time = received[d][i].timestamp
    BY <2>1
  <2>3. Budget(d, time)' \in Int /\ Budget(d, time) <= Budget(d, time)'
    BY <2>1, <2>2, BudgetTick DEF ReceivedFits
  <2>4. Len(received[d]) - i + 1 + Pending(d) <= Budget(d, time)
    BY <2>1, <2>2 DEF ReceivedFits
  <2>5. Pending(d) \in Nat /\ Len(received[d]) \in Nat /\ Budget(d, time) \in Nat /\ now \in Nat
    BY <2>1, <2>2, Numbers DEF ReceivedFits
  <2>6. Pending(d)' = Pending(d)
    BY <1>1 DEF Pending
  <2>7. Len(received[d]) - i + 1 + Pending(d) <= Budget(d, time)'
    BY <2>3, <2>4, <2>5
  <2>8. Budget(d, received[d][i].timestamp)' = Budget(d, time)'
    BY <1>1, <2>2 DEF Budget
  <2>9. received'[d][i].timestamp <= now'
    BY <1>1, <2>1, <2>5 DEF ReceivedFits
  <2> QED BY <1>1, <2>6, <2>7, <2>8, <2>9 DEF ReceivedFits
<1>3. ASSUME ~lagged, NEW p \in 1 .. Len(channel)
      PROVE  ChannelFits(p)'
  <2>1. PICK d \in Devices, time \in Nat :
          d = channel[p].device_id /\ time = channel[p].timestamp
    BY Numbers
  <2>2. time <= now /\ Cardinality(Later(channel, d, p)) <= Budget(d, time)
    BY <1>3, <2>1 DEF Counted, ChannelFits
  <2>3. Budget(d, time)' \in Int /\ Budget(d, time) <= Budget(d, time)'
    BY <2>2, BudgetTick
  <2>4. /\ Budget(d, time) \in Nat /\ Cardinality(Later(channel, d, p)) \in Nat
        /\ now \in Nat
    BY <2>2, Numbers, LaterFinite
  <2>5. Cardinality(Later(channel, d, p)) <= Budget(d, time)' /\ time <= now'
    BY <1>1, <2>2, <2>3, <2>4
  <2> QED BY <1>1, <2>1, <2>5 DEF ChannelFits, Budget
<1> QED BY <1>1, <1>2, <1>3 DEF Counted

\* A sample into a channel with room: one more in the channel and in the second.
LEMMA CountedSend ==
  ASSUME Typed, Counted, NEW d \in Devices, Send(d)
  PROVE  Counted'
<1>1. /\ now' = now /\ received' = received
      /\ sent'[d] = sent[d] + 1 /\ \A e \in Devices : e # d => sent'[e] = sent[e]
      /\ lagged' = (lagged \/ Len(channel) = Capacity)
  BY DEF Send, collected, Typed
<1>2. PICK s \in Sample :
        /\ channel' = Append(IF Len(channel) < Capacity THEN channel ELSE Tail(channel), s)
        /\ s.device_id = d /\ s.timestamp = now
  <2>1. PICK rate \in Rates : channel' =
          Append(IF Len(channel) < Capacity THEN channel ELSE Tail(channel),
                 [device_id |-> d, timestamp |-> now, hashrate |-> rate])
    BY DEF Send
  <2>2. [device_id |-> d, timestamp |-> now, hashrate |-> rate] \in Sample
    BY Numbers DEF Sample
  <2> QED BY <2>1, <2>2
<1>3. ASSUME NEW e \in Devices, NEW time \in Nat, time <= now
      PROVE  /\ Budget(e, time) \in Nat
             /\ Budget(e, time)' = Budget(e, time) + (IF e = d THEN 1 ELSE 0)
  <2>1. Budget(e, time) \in Nat /\ sent[e] \in Nat /\ now - time \in Nat
        /\ SamplesPerSecond \in Nat
    BY <1>3, Numbers
  <2>2. PICK n \in Nat : n = SamplesPerSecond * (now - time)
    BY <2>1, Products
  <2> QED BY <1>1, <2>1, <2>2 DEF Budget
<1>4. ~lagged' => ~lagged /\ channel' = Append(channel, s)
  <2>1. Capacity \in Nat /\ Len(channel) <= Capacity /\ Len(channel) \in Nat
    BY Numbers, CollectorAssumption DEF Typed
  <2>2. ~lagged' => ~lagged /\ Len(channel) # Capacity
    BY <1>1, Zenon
  <2>3. Len(channel) # Capacity => Len(channel) < Capacity
    BY <2>1
  <2>4. Len(channel) < Capacity => channel' = Append(channel, s)
    BY <1>2
  <2> QED BY <2>2, <2>3, <2>4, Zenon
<1>7. ASSUME ~lagged', NEW e \in Devices, NEW p \in 1 .. Len(channel) + 1
      PROVE  Cardinality(Later(channel', e, p)) =
               Cardinality(Later(channel, e, p)) + (IF e = d THEN 1 ELSE 0)
  <2>1. Cardinality(Later(Append(channel, s), e, p)) =
          Cardinality(Later(channel, e, p)) + (IF s.device_id = e THEN 1 ELSE 0)
    BY LaterAppend, Numbers
  <2>2. (IF s.device_id = e THEN 1 ELSE 0) = (IF e = d THEN 1 ELSE 0)
    BY <1>2
  <2>3. Later(channel', e, p) = Later(Append(channel, s), e, p)
    BY <1>4, <1>7
  <2> QED BY <2>1, <2>2, <2>3
<1>5. ASSUME NEW e \in Devices, NEW i \in 1 .. Len(received[e])
      PROVE  ReceivedFits(e, i)'
  <2>1. ReceivedFits(e, i)
    BY DEF Counted
  <2>2. PICK time \in Nat : time = received[e][i].timestamp /\ time <= now
    BY <2>1, Numbers DEF ReceivedFits
  <2>3. /\ Len(received[e]) - i + 1 + Pending(e) <= Budget(e, time)
        /\ Pending(e) \in Nat /\ Len(received[e]) \in Nat
    BY <2>1, <2>2, Numbers DEF ReceivedFits
  <2>4. Pending(e)' \in Nat /\ Pending(e)' <= Pending(e) + (IF e = d THEN 1 ELSE 0)
    <3>1. CASE lagged'
      BY <2>3, <3>1 DEF Pending
    <3>2. CASE ~lagged'
      <4>1. Cardinality(Later(channel', e, 1)) =
              Cardinality(Later(channel, e, 1)) + (IF e = d THEN 1 ELSE 0)
        BY <1>7, <3>2, Numbers
      <4> QED BY <1>4, <2>3, <3>2, <4>1 DEF Pending
    <3> QED BY <3>1, <3>2
  <2>5. Len(received[e]) - i + 1 + Pending(e)' <= Budget(e, time)'
    BY <1>3, <2>2, <2>3, <2>4
  <2>6. Budget(e, received[e][i].timestamp)' = Budget(e, time)'
    BY <1>1, <2>2 DEF Budget
  <2> QED BY <1>1, <2>2, <2>5, <2>6 DEF ReceivedFits
<1>6. ASSUME ~lagged', NEW p \in 1 .. Len(channel')
      PROVE  ChannelFits(p)'
  <2>1. /\ channel' = Append(channel, s) /\ Len(channel') = Len(channel) + 1
        /\ \A q \in 1 .. Len(channel) : channel'[q] = channel[q]
        /\ channel'[Len(channel) + 1] = s
        /\ Len(channel) \in Nat /\ channel \in Seq(Sample)
    <3>1. channel' = Append(channel, s) /\ Len(channel) \in Nat /\ channel \in Seq(Sample)
      BY <1>4, <1>6, Numbers
    <3>2. /\ Len(Append(channel, s)) = Len(channel) + 1
          /\ \A q \in 1 .. Len(channel) : Append(channel, s)[q] = channel[q]
          /\ Append(channel, s)[Len(channel) + 1] = s
      BY <3>1, AppendProperties
    <3> QED BY <3>1, <3>2, Zenon
  <2>2. ASSUME NEW e \in Devices
        PROVE  Cardinality(Later(channel', e, p)) =
                 Cardinality(Later(channel, e, p)) + (IF e = d THEN 1 ELSE 0)
    BY <1>6, <1>7, <2>1
  <2>3. CASE p \in 1 .. Len(channel)
    <3>1. PICK e \in Devices, time \in Nat :
            e = channel[p].device_id /\ time = channel[p].timestamp
      BY <2>3, Numbers
    <3>2. time <= now /\ Cardinality(Later(channel, e, p)) <= Budget(e, time)
      BY <1>4, <1>6, <2>3, <3>1 DEF Counted, ChannelFits
    <3>3. Cardinality(Later(channel, e, p)) \in Nat
      BY <2>1, LaterFinite
    <3>4. Cardinality(Later(channel', e, p)) <= Budget(e, time)'
      BY <1>3, <2>2, <3>2, <3>3
    <3>5. channel'[p].device_id = e /\ channel'[p].timestamp = time
      BY <2>1, <2>3, <3>1
    <3> QED BY <1>1, <3>2, <3>4, <3>5 DEF ChannelFits, Budget
  <2>4. CASE p = Len(channel) + 1
    <3>1. Later(channel, d, p) = {}
      BY <2>1, <2>4 DEF Later
    <3>2. Cardinality(Later(channel', d, p)) = 1
      BY <2>2, <3>1, FS_EmptySet
    <3>3. PICK time \in Nat : time = now /\ time <= now
      BY Numbers
    <3>4. channel'[p].device_id = d /\ channel'[p].timestamp = time
      BY <1>2, <2>1, <2>4, <3>3
    <3>5. 1 <= Budget(d, time)'
      BY <1>3, <3>3
    <3> QED BY <1>1, <3>2, <3>3, <3>4, <3>5 DEF ChannelFits, Budget
  <2> QED BY <2>1, <2>3, <2>4
<1> QED BY <1>1, <1>5, <1>6 DEF Counted

\* A sample that is taken leaves the channel for the samples received.
LEMMA CountedReceive ==
  ASSUME Typed, Counted, Receive
  PROVE  Counted'
<1>1. /\ UNCHANGED <<now, sent, lagged>> /\ ~lagged /\ channel # <<>>
      /\ channel' = Tail(channel)
  BY DEF Receive, sending
<1>2. PICK s \in Sample, d \in Devices :
        s = Head(channel) /\ s = channel[1] /\ d = s.device_id /\ s.timestamp \in Nat
  <2>1. Head(channel) \in Sample /\ Head(channel) = channel[1]
    BY <1>1, HeadTailProperties, Numbers
  <2> QED BY <2>1 DEF Sample
<1>3. /\ received'[d] = Append(received[d], s)
      /\ \A e \in Devices : e # d => received'[e] = received[e]
  BY <1>2 DEF Receive, Typed
<1>4. /\ Len(channel) \in Nat \ {0} /\ Len(channel') = Len(channel) - 1
      /\ \A q \in 1 .. Len(channel) - 1 : channel'[q] = channel[q + 1]
  <2>1. /\ Len(Tail(channel)) = Len(channel) - 1 /\ Len(channel) \in Nat \ {0}
        /\ \A q \in 1 .. Len(channel) - 1 : Tail(channel)[q] = channel[q + 1]
    BY <1>1, HeadTailProperties, EmptySeq, Numbers
  <2> QED BY <1>1, <2>1, Zenon
<1>5. ASSUME NEW e, NEW p \in Nat \ {0}
      PROVE  Cardinality(Later(channel', e, p)) = Cardinality(Later(channel, e, p + 1))
  <2>1. Cardinality(Later(Tail(channel), e, p)) = Cardinality(Later(channel, e, p + 1))
    BY <1>1, LaterTail, Numbers
  <2> QED BY <1>1, <2>1
<1>6. ASSUME NEW e \in Devices
      PROVE  /\ Pending(e)' \in Nat
             /\ Pending(e) = Pending(e)' + (IF e = d THEN 1 ELSE 0)
  <2>1. Pending(e)' = Cardinality(Later(channel, e, 2))
    <3>1. Cardinality(Later(channel', e, 1)) = Cardinality(Later(channel, e, 1 + 1))
      BY <1>5
    <3> QED BY <1>1, <3>1 DEF Pending
  <2>2. Pending(e) = Cardinality(Later(channel, e, 2)) + (IF Head(channel).device_id = e THEN 1 ELSE 0)
    BY <1>1, LaterFirst, Numbers DEF Pending
  <2>3. Cardinality(Later(channel, e, 2)) \in Nat
    BY LaterFinite, Numbers
  <2>4. (IF Head(channel).device_id = e THEN 1 ELSE 0) = (IF e = d THEN 1 ELSE 0)
    BY <1>2
  <2> QED BY <2>1, <2>2, <2>3, <2>4
<1>7. ASSUME NEW e \in Devices, NEW i \in 1 .. Len(received'[e])
      PROVE  ReceivedFits(e, i)'
  <2>1. CASE e # d
    <3>1. ReceivedFits(e, i) /\ received'[e] = received[e]
      BY <1>3, <1>7, <2>1 DEF Counted
    <3>2. Pending(e) = Pending(e)'
      BY <1>6, <2>1
    <3> QED BY <1>1, <3>1, <3>2 DEF ReceivedFits, Budget
  <2>2. CASE e = d
    <3>1. /\ Len(received[d]) \in Nat /\ Len(received'[d]) = Len(received[d]) + 1
          /\ \A j \in 1 .. Len(received[d]) : received'[d][j] = received[d][j]
          /\ received'[d][Len(received[d]) + 1] = s
      <4>1. received[d] \in Seq(Sample) /\ Len(received[d]) \in Nat
        BY Numbers
      <4>2. /\ Len(Append(received[d], s)) = Len(received[d]) + 1
            /\ \A j \in 1 .. Len(received[d]) : Append(received[d], s)[j] = received[d][j]
            /\ Append(received[d], s)[Len(received[d]) + 1] = s
        BY <4>1, AppendProperties
      <4> QED BY <1>3, <4>1, <4>2, Zenon
    <3>2. Pending(d)' \in Nat /\ Pending(d) = Pending(d)' + 1
      BY <1>6
    <3>3. CASE i \in 1 .. Len(received[d])
      <4>1. ReceivedFits(d, i) /\ received'[d][i] = received[d][i]
        BY <3>1, <3>3 DEF Counted
      <4>2. Len(received[d]) - i + 1 + Pending(d)
              = Len(received'[d]) - i + 1 + Pending(d)'
        BY <3>1, <3>2
      <4> QED BY <1>1, <2>2, <4>1, <4>2 DEF ReceivedFits, Budget
    <3>4. CASE i = Len(received[d]) + 1
      <4>1. ChannelFits(1)
        BY <1>1, <1>4 DEF Counted
      <4>2. s.timestamp <= now /\ Pending(d) <= Budget(d, s.timestamp)
        BY <1>1, <1>2, <4>1 DEF ChannelFits, Pending
      <4>3. Len(received'[d]) - i + 1 + Pending(d)' = Pending(d)
        BY <3>1, <3>2, <3>4
      <4> QED BY <1>1, <2>2, <3>1, <3>4, <4>2, <4>3 DEF ReceivedFits, Budget
    <3> QED BY <1>7, <2>2, <3>1, <3>3, <3>4
  <2> QED BY <2>1, <2>2
<1>8. ASSUME NEW p \in 1 .. Len(channel')
      PROVE  ChannelFits(p)'
  <2>1. /\ p + 1 \in 1 .. Len(channel) /\ channel'[p] = channel[p + 1]
        /\ p \in Nat \ {0}
    BY <1>4
  <2>2. ChannelFits(p + 1)
    BY <1>1, <2>1 DEF Counted
  <2>3. Cardinality(Later(channel', channel[p + 1].device_id, p)) =
          Cardinality(Later(channel, channel[p + 1].device_id, p + 1))
    BY <1>5, <2>1
  <2> QED BY <1>1, <2>1, <2>2, <2>3 DEF ChannelFits, Budget
<1> QED BY <1>7, <1>8 DEF Counted

LEMMA CountedEnd ==
  ASSUME Typed, Counted, EndTask
  PROVE  Counted'
<1>1. UNCHANGED <<now, sent, lagged, received>> /\ channel' = <<>>
  BY DEF EndTask, sending, collected
<1>2. Len(channel') = 0
  BY <1>1, EmptySeq
<1>3. ASSUME NEW d \in Devices PROVE Pending(d)' = 0
  <2>1. Later(channel', d, 1) = {}
    BY <1>2 DEF Later
  <2> QED BY <2>1, FS_EmptySet DEF Pending
<1>4. ASSUME NEW d \in Devices, NEW i \in 1 .. Len(received[d])
      PROVE  ReceivedFits(d, i)'
  <2>1. ReceivedFits(d, i)
    BY DEF Counted
  <2>2. /\ Pending(d) \in Nat /\ Len(received[d]) \in Nat
        /\ Budget(d, received[d][i].timestamp) \in Nat
    BY <2>1, Numbers DEF ReceivedFits
  <2>3. Len(received[d]) - i + 1 + 0 <= Budget(d, received[d][i].timestamp)
    BY <2>1, <2>2 DEF ReceivedFits
  <2> QED BY <1>1, <1>3, <2>1, <2>3 DEF ReceivedFits, Budget
<1> QED BY <1>1, <1>2, <1>4 DEF Counted

LEMMA CountedInit == Init => Counted
<1>1. Init => channel = <<>> /\ received = [d \in Devices |-> <<>>]
  BY DEF Init
<1>2. Len(<<>>) = 0
  BY EmptySeq
<1> QED BY <1>1, <1>2 DEF Counted

LEMMA CountedNext == Typed /\ Counted /\ [Next]_vars => Counted'
<1> SUFFICES ASSUME Typed, Counted, [Next]_vars PROVE Counted'
  OBVIOUS
<1>1. CASE Tick
  BY <1>1, CountedTick
<1>2. ASSUME NEW d \in Devices, Send(d) PROVE Counted'
  BY <1>2, CountedSend
<1>3. CASE Receive
  BY <1>3, CountedReceive
<1>4. CASE EndTask
  BY <1>4, CountedEnd
<1>5. CASE TriggerShutdown
  BY <1>5, CountedFrame DEF TriggerShutdown, sending, collected
<1>6. ASSUME NEW c \in Clients, Ask(c) \/ AskFails(c) \/ NextRequest(c) PROVE Counted'
  BY <1>6, CountedFrame DEF Ask, AskFails, NextRequest, sending, collected
<1>7. CASE Answer
  BY <1>7, CountedFrame DEF Answer, sending, collected
<1>8. CASE UNCHANGED vars
  BY <1>8, CountedFrame DEF vars, sending, collected
<1> QED
  BY <1>1, <1>2, <1>3, <1>4, <1>5, <1>6, <1>7, <1>8
     DEF Next, Stop, ReceiveLagged, Idle

-----------------------------------------------------------------------------
\* What is kept is the end of what was received, and only a full one is shorter.
KeptEnd(kept, all) ==
  /\ Len(kept) <= Len(all)
  /\ \A k \in 1 .. Len(kept) : kept[k] = all[Len(all) - Len(kept) + k]
  /\ Len(kept) = Len(all) \/ Len(kept) = MaxKept + 1

Kept == \A d \in Devices : KeptEnd(hashrate_samples[d], received[d])

LEMMA KeepEnd ==
  ASSUME NEW kept \in Seq(Sample), NEW all \in Seq(Sample), NEW s \in Sample,
         Len(kept) <= MaxKept + 1, KeptEnd(kept, all)
  PROVE  KeptEnd(Keep(kept, s), Append(all, s))
<1>1. MaxKept \in Nat /\ Len(kept) \in Nat /\ Len(all) \in Nat
  BY CollectorAssumption, LenProperties
<1>2. /\ Len(Append(all, s)) = Len(all) + 1
      /\ \A k \in 1 .. Len(all) : Append(all, s)[k] = all[k]
      /\ Append(all, s)[Len(all) + 1] = s
  BY AppendProperties
<1>3. CASE Len(kept) > MaxKept
  <2>1. kept # <<>>
    BY <1>1, <1>3
  <2>2. PICK rest \in Seq(Sample) : rest = Tail(kept)
    BY <2>1, HeadTailProperties
  <2>3. /\ Len(rest) = Len(kept) - 1
        /\ \A k \in 1 .. Len(rest) : rest[k] = kept[k + 1]
    BY <2>1, <2>2, HeadTailProperties
  <2>4. /\ Keep(kept, s) = Append(rest, s)
        /\ Len(Append(rest, s)) = Len(kept)
        /\ \A k \in 1 .. Len(rest) : Append(rest, s)[k] = rest[k]
        /\ Append(rest, s)[Len(rest) + 1] = s
    BY <1>1, <1>3, <2>2, <2>3, AppendProperties DEF Keep
  <2>5. ASSUME NEW k \in 1 .. Len(kept)
        PROVE  Append(rest, s)[k] = Append(all, s)[Len(all) + 1 - Len(kept) + k]
    <3>1. CASE k = Len(kept)
      <4>1. k = Len(rest) + 1 /\ Len(all) + 1 - Len(kept) + k = Len(all) + 1
        BY <1>1, <2>3, <3>1
      <4> QED BY <1>2, <2>4, <4>1
    <3>2. CASE k # Len(kept)
      <4>1. /\ k \in 1 .. Len(rest) /\ k + 1 \in 1 .. Len(kept)
            /\ Len(all) + 1 - Len(kept) + k \in 1 .. Len(all)
            /\ Len(all) - Len(kept) + (k + 1) = Len(all) + 1 - Len(kept) + k
        BY <1>1, <2>3, <2>5, <3>2 DEF KeptEnd
      <4>2. kept[k + 1] = all[Len(all) + 1 - Len(kept) + k]
        BY <4>1 DEF KeptEnd
      <4> QED BY <1>2, <2>3, <2>4, <4>1, <4>2
    <3> QED BY <3>1, <3>2
  <2>6. Len(kept) <= Len(all) + 1 /\ Len(kept) = MaxKept + 1
    BY <1>1, <1>3 DEF KeptEnd
  <2>7. PICK new \in Seq(Sample), whole \in Seq(Sample) :
          new = Append(rest, s) /\ whole = Append(all, s)
    BY AppendProperties
  <2>8. Len(new) = Len(kept) /\ Len(whole) = Len(all) + 1
    BY <1>2, <2>4, <2>7
  <2>9. ASSUME NEW k \in 1 .. Len(new)
        PROVE  new[k] = whole[Len(whole) - Len(new) + k]
    <3>1. Append(rest, s)[k] = Append(all, s)[Len(all) + 1 - Len(kept) + k]
      BY <2>5, <2>8, Zenon
    <3>2. new[k] = whole[Len(all) + 1 - Len(kept) + k]
      BY <2>7, <3>1, Zenon
    <3>3. Len(all) + 1 - Len(kept) + k = Len(whole) - Len(new) + k
      BY <1>1, <2>8
    <3> QED BY <3>2, <3>3, Zenon
  <2>10. KeptEnd(new, whole)
    BY <2>6, <2>8, <2>9 DEF KeptEnd
  <2> QED BY <2>4, <2>7, <2>10
<1>4. CASE ~(Len(kept) > MaxKept)
  <2>1. Len(kept) = Len(all)
    BY <1>1, <1>4 DEF KeptEnd
  <2>2. /\ Keep(kept, s) = Append(kept, s)
        /\ Len(Append(kept, s)) = Len(kept) + 1
        /\ \A k \in 1 .. Len(kept) : Append(kept, s)[k] = kept[k]
        /\ Append(kept, s)[Len(kept) + 1] = s
    BY <1>4, AppendProperties DEF Keep
  <2>3. ASSUME NEW k \in 1 .. Len(kept) + 1
        PROVE  Append(kept, s)[k] = Append(all, s)[Len(all) + 1 - (Len(kept) + 1) + k]
    <3>1. Len(all) + 1 - (Len(kept) + 1) + k = k
      BY <1>1, <2>1
    <3>2. CASE k = Len(kept) + 1
      BY <1>2, <2>1, <2>2, <3>1, <3>2
    <3>3. CASE k # Len(kept) + 1
      <4>1. k \in 1 .. Len(kept) /\ Len(all) - Len(kept) + k = k
        BY <1>1, <2>1, <2>3, <3>3
      <4>2. kept[k] = all[k]
        BY <4>1 DEF KeptEnd
      <4> QED BY <1>2, <2>1, <2>2, <3>1, <4>1, <4>2
    <3> QED BY <3>2, <3>3
  <2> QED BY <1>1, <1>2, <2>1, <2>2, <2>3 DEF KeptEnd
<1> QED BY <1>3, <1>4

LEMMA KeptInit == Init => Kept
<1>1. ASSUME Init, NEW d \in Devices
      PROVE  hashrate_samples[d] = <<>> /\ received[d] = <<>>
  BY <1>1 DEF Init
<1>2. KeptEnd(<<>>, <<>>)
  <2>1. Len(<<>>) = 0
    BY EmptySeq
  <2> QED BY <2>1 DEF KeptEnd
<1> QED BY <1>1, <1>2 DEF Kept

LEMMA KeptNext == Typed /\ Kept /\ [Next]_vars => Kept'
<1> SUFFICES ASSUME Typed, Kept, [Next]_vars PROVE Kept'
  OBVIOUS
<1>1. CASE Receive
  <2>1. Head(channel) \in Sample
    BY <1>1, HeadTailProperties DEF Receive, Typed
  <2>2. PICK s \in Sample, d \in Devices : s = Head(channel) /\ d = s.device_id
    BY <2>1 DEF Sample
  <2>3. /\ hashrate_samples'[d] = Keep(hashrate_samples[d], s)
        /\ received'[d] = Append(received[d], s)
        /\ \A e \in Devices : e # d => /\ hashrate_samples'[e] = hashrate_samples[e]
                                       /\ received'[e] = received[e]
    BY <1>1, <2>2 DEF Receive, Typed
  <2>4. KeptEnd(Keep(hashrate_samples[d], s), Append(received[d], s))
    BY KeepEnd DEF Kept, Typed
  <2>5. ASSUME NEW e \in Devices PROVE KeptEnd(hashrate_samples'[e], received'[e])
    BY <2>3, <2>4 DEF Kept
  <2> QED BY <2>5 DEF Kept, KeptEnd
<1>2. CASE UNCHANGED <<hashrate_samples, received>>
  BY <1>2 DEF Kept, KeptEnd
<1>3. [Next]_vars => Receive \/ UNCHANGED <<hashrate_samples, received>>
  BY DEF Next, vars, sending, collected, Tick, TriggerShutdown, Send, Ask, AskFails,
         NextRequest, Answer, Stop, ReceiveLagged, EndTask, Idle
<1> QED BY <1>1, <1>2, <1>3

\* The samples that may have come since one in the window are no more than are
\* kept.
LEMMA KeptCoversWindow == Typed /\ Counted /\ Kept => WindowIsKept
<1> SUFFICES ASSUME Typed, Counted, Kept, NEW d \in Devices,
                    NEW i \in 1 .. Len(received[d]),
                    received[d][i].timestamp >= now - Window
             PROVE  LET all == received[d]
                        kept == hashrate_samples[d]
                        k == i - (Len(all) - Len(kept))
                    IN  k \in 1 .. Len(kept) /\ kept[k] = all[i]
  BY DEF WindowIsKept
<1>0. PICK all \in Seq(Sample), kept \in Seq(Sample) :
        all = received[d] /\ kept = hashrate_samples[d]
  BY DEF Typed
<1>1. /\ now \in Nat /\ SamplesPerSecond \in Nat /\ Pending(d) \in Nat
      /\ sent[d] \in Nat /\ sent[d] <= SamplesPerSecond
  BY Numbers
<1>2. ReceivedFits(d, i) /\ KeptEnd(kept, all)
  BY <1>0 DEF Counted, Kept
<1>3. PICK m \in Nat, n \in Nat : m = Len(kept) /\ n = Len(all) /\ i \in 1 .. n
  BY <1>0, LenProperties
<1>4. PICK time \in Nat : time = all[i].timestamp /\ time <= now /\ now - time <= Window
  <2>1. all[i].timestamp \in Nat /\ all[i].timestamp <= now /\ Window \in Nat
    BY <1>0, <1>2, Numbers, CollectorAssumption DEF ReceivedFits
  <2> QED BY <1>0, <1>1, <2>1
<1>5. n - i + 1 + Pending(d) <= Budget(d, time)
  BY <1>0, <1>2, <1>3, <1>4 DEF ReceivedFits
<1>6. Budget(d, time) <= MaxKept + 1 /\ Budget(d, time) \in Nat /\ MaxKept \in Nat
  <2>1. Window \in Nat /\ MaxKept \in Nat /\ SamplesPerSecond * (Window + 1) <= MaxKept + 1
    BY CollectorAssumption
  <2>2. PICK age \in Nat : age = now - time /\ age <= Window
    BY <1>1, <1>4
  <2>3. PICK used \in Nat, most \in Nat :
          used = SamplesPerSecond * age /\ most = SamplesPerSecond * Window
    BY <1>1, <2>1, <2>2, Products
  <2>4. used <= most
    BY <1>1, <2>1, <2>2, <2>3, Products
  <2>5. most + SamplesPerSecond <= MaxKept + 1
    <3>1. SamplesPerSecond * (Window + 1) = SamplesPerSecond * Window + SamplesPerSecond
      BY <1>1, <2>1, Products
    <3> QED BY <2>1, <2>3, <3>1
  <2>6. Budget(d, time) = used + sent[d]
    BY <2>2, <2>3 DEF Budget
  <2>7. PICK budget \in Nat : budget = Budget(d, time)
    BY <1>4, Numbers
  <2>8. MaxKept \in Nat
    BY <2>1
  <2>9. budget <= MaxKept + 1
    BY <1>1, <2>3, <2>4, <2>5, <2>6, <2>7, <2>8
  <2> QED BY <2>7, <2>8, <2>9
<1>7. n - i + 1 <= m
  <2>1. n - i + 1 <= MaxKept + 1 /\ n - i + 1 <= n
    BY <1>1, <1>3, <1>5, <1>6
  <2>2. m = n \/ m = MaxKept + 1
    BY <1>2, <1>3 DEF KeptEnd
  <2> QED BY <1>3, <1>6, <2>1, <2>2
<1>8. i - (n - m) \in 1 .. m /\ n - m + (i - (n - m)) = i
  <2>1. m <= n
    BY <1>2, <1>3 DEF KeptEnd
  <2> QED BY <1>3, <1>7, <2>1
<1>9. kept[i - (n - m)] = all[i]
  <2>1. kept[i - (n - m)] = all[n - m + (i - (n - m))]
    BY <1>2, <1>3, <1>8 DEF KeptEnd
  <2> QED BY <1>8, <2>1
<1> QED BY <1>0, <1>3, <1>8, <1>9

\* Whatever the rates, the channels' sizes, the clock and the delay of the
\* samples in the channel: no sample of the last minute is ever evicted, as long
\* as a device sends SamplesPerSecond of them in a second at most and the bound
\* holds those of Window + 1 seconds (stats_collector.rs 165-171, main.rs 886-895).
THEOREM WindowStaysKept == Spec => []WindowIsKept
<1> DEFINE IInv == Typed /\ Counted /\ Kept
<1>1. Init => IInv
  BY TypedInit, CountedInit, KeptInit
<1>2. IInv /\ [Next]_vars => IInv'
  BY TypedNext, CountedNext, KeptNext
<1>3. IInv => WindowIsKept
  BY KeptCoversWindow
<1> QED BY <1>1, <1>2, <1>3, PTL DEF Spec

-----------------------------------------------------------------------------
\* Min is of FiniteSetsExt.
LEMMA MinMeans ==
  ASSUME NEW S \in SUBSET Nat, S # {}
  PROVE  Min(S) \in S /\ \A n \in S : Min(S) <= n
<1>1. \E least \in S : \A n \in S : least <= n
  BY NatMinimum
<1> QED BY <1>1 DEF Min

\* The first sample of a second, if there is one.
LEMMA FirstAtMeans ==
  ASSUME NEW s \in Seq(Sample), NEW second \in Int
  PROVE  \/ /\ \A i \in 1 .. Len(s) : s[i].timestamp # second
            /\ FirstAt(s, second) = 0
         \/ \E i \in 1 .. Len(s) :
              /\ s[i].timestamp = second
              /\ \A j \in 1 .. i - 1 : s[j].timestamp # second
              /\ FirstAt(s, second) = s[i].hashrate
<1>0. Len(s) \in Nat
  BY LenProperties
<1> DEFINE I == {i \in 1 .. Len(s) : s[i].timestamp = second}
           found == SelectInSeq(s, LAMBDA x : x.timestamp = second)
<1>1. FirstAt(s, second) = IF found = 0 THEN 0 ELSE s[found].hashrate
  BY DEF FirstAt
<1>2. found = IF I # {} THEN Min(I) ELSE 0
  BY DEF SelectInSeq
<1>3. CASE I = {}
  BY <1>1, <1>2, <1>3
<1>4. CASE I # {}
  <2>1. I \in SUBSET Nat
    OBVIOUS
  <2>2. Min(I) \in I /\ \A j \in I : Min(I) <= j
    <3> HIDE DEF I
    <3> QED BY <1>4, <2>1, MinMeans
  <2>3. PICK m \in I : m = found /\ \A j \in I : m <= j
    BY <1>2, <1>4, <2>2
  <2>4. m \in 1 .. Len(s) /\ s[m].timestamp = second
    OBVIOUS
  <2>5. ASSUME NEW j \in 1 .. m - 1 PROVE s[j].timestamp # second
    <3>1. j \in 1 .. Len(s) /\ ~(m <= j)
      BY <1>0, <2>4
    <3> QED BY <2>3, <3>1
  <2>6. FirstAt(s, second) = s[m].hashrate
    BY <1>1, <2>3, <2>4
  <2> QED BY <2>4, <2>5, <2>6
<1> QED BY <1>3, <1>4

\* What is dropped is older than the second, the first that is left is not.
LEMMA DropOlderMeans ==
  ASSUME NEW s \in Seq(Sample), NEW second \in Int
  PROVE  \E m \in 0 .. Len(s) :
           /\ \A i \in 1 .. m : s[i].timestamp < second
           /\ m < Len(s) => s[m + 1].timestamp >= second
           /\ DropOlder(s, second) \in Seq(Sample)
           /\ Len(DropOlder(s, second)) = Len(s) - m
           /\ \A i \in 1 .. Len(s) - m : DropOlder(s, second)[i] = s[m + i]
<1>0. Len(s) \in Nat /\ \A i \in 1 .. Len(s) : s[i] \in Sample /\ s[i].timestamp \in Nat
  <2>1. \A i \in 1 .. Len(s) : s[i] \in Sample
    BY ElementOfSeq
  <2> QED BY <2>1, LenProperties DEF Sample
<1> DEFINE I == {i \in 1 .. Len(s) : s[i].timestamp >= second}
           found == SelectInSeq(s, LAMBDA x : x.timestamp >= second)
<1>1. DropOlder(s, second) = IF found = 0 THEN <<>> ELSE SubSeq(s, found, Len(s))
  BY DEF DropOlder
<1>2. found = IF I # {} THEN Min(I) ELSE 0
  BY DEF SelectInSeq
<1>3. CASE I = {}
  <2>1. DropOlder(s, second) = <<>>
    BY <1>1, <1>2, <1>3
  <2>2. <<>> \in Seq(Sample) /\ Len(<<>>) = 0
    BY EmptySeq
  <2>3. \A i \in 1 .. Len(s) : s[i].timestamp < second
    BY <1>0, <1>3
  <2> QED BY <1>0, <2>1, <2>2, <2>3
<1>4. CASE I # {}
  <2>1. I \in SUBSET Nat
    OBVIOUS
  <2>2. Min(I) \in I /\ \A j \in I : Min(I) <= j
    <3> HIDE DEF I
    <3> QED BY <1>4, <2>1, MinMeans
  <2>3. PICK n \in I : n = found /\ \A j \in I : n <= j
    BY <1>2, <1>4, <2>2
  <2>4. n \in 1 .. Len(s) /\ s[n].timestamp >= second
    OBVIOUS
  <2>5. ASSUME NEW i \in 1 .. n - 1 PROVE s[i].timestamp < second
    <3>1. i \in 1 .. Len(s) /\ ~(n <= i)
      BY <1>0, <2>4
    <3>2. ~(s[i].timestamp >= second)
      BY <2>3, <3>1
    <3> QED BY <1>0, <3>1, <3>2
  <2>6. DropOlder(s, second) = SubSeq(s, n, Len(s))
    <3>1. n # 0 /\ found = n
      BY <1>0, <2>3, <2>4
    <3> HIDE DEF found
    <3> QED BY <1>1, <3>1
  <2>7. /\ SubSeq(s, n, Len(s)) \in Seq(Sample)
        /\ Len(SubSeq(s, n, Len(s))) = Len(s) - n + 1
        /\ \A i \in 1 .. Len(s) - n + 1 : SubSeq(s, n, Len(s))[i] = s[n + i - 1]
    <3>1. n \in 1 .. Len(s) + 1 /\ Len(s) \in n - 1 .. Len(s)
      BY <1>0, <2>4
    <3> QED BY <1>0, <3>1, SubSeqProperties
  <2>8. PICK m \in 0 .. Len(s) : m = n - 1
    BY <1>0, <2>4
  <2>9. /\ \A i \in 1 .. m : s[i].timestamp < second
        /\ m < Len(s) => s[m + 1].timestamp >= second
    BY <1>0, <2>4, <2>5, <2>8
  <2>10. /\ Len(DropOlder(s, second)) = Len(s) - m
         /\ \A i \in 1 .. Len(s) - m : DropOlder(s, second)[i] = s[m + i]
    BY <1>0, <2>4, <2>6, <2>7, <2>8
  <2> QED BY <2>6, <2>7, <2>9, <2>10
<1> QED BY <1>3, <1>4

-----------------------------------------------------------------------------
Totalled == [rest : Seq(Sample), long : Nat, short : Nat]

LEMMA TakeType ==
  ASSUME NEW acc \in Totalled, NEW second \in Int, NEW time \in Int
  PROVE  Take(acc, second, time) \in Totalled
<1> DEFINE rest == DropOlder(acc.rest, second)
<1>1. acc.rest \in Seq(Sample) /\ acc.long \in Nat /\ acc.short \in Nat
  BY DEF Totalled
<1>2. rest \in Seq(Sample)
  BY <1>1, DropOlderMeans
<1>3. CASE rest # <<>> /\ Head(rest).timestamp = second
  <2>1. Tail(rest) \in Seq(Sample) /\ Head(rest) \in Sample
    BY <1>2, <1>3, HeadTailProperties
  <2>2. Head(rest).hashrate \in Nat
    BY <2>1, CollectorAssumption DEF Sample
  <2> QED BY <1>1, <1>3, <2>1, <2>2 DEF Take, Totalled
<1>4. CASE ~(rest # <<>> /\ Head(rest).timestamp = second)
  BY <1>1, <1>2, <1>4 DEF Take, Totalled
<1> QED BY <1>3, <1>4

\* The pass and the total are what their recursive definitions say.
LEMMA PassRuns ==
  ASSUME NEW samples \in Seq(Sample), NEW time \in Int
  PROVE  \E pass \in [0 .. Window -> Totalled] :
           /\ pass[0] = [rest |-> samples, long |-> 0, short |-> 0]
           /\ \A k \in 1 .. Window :
                pass[k] = Take(pass[k - 1], time - Window + k - 1, time)
           /\ Totals(samples, time) = pass[Window]
<1>0. Window \in Nat
  BY CollectorAssumption
<1> DEFINE first == [rest |-> samples, long |-> 0, short |-> 0]
           Passes(f) == f = [k \in 0 .. Window |->
             IF k = 0 THEN first ELSE Take(f[k - 1], time - Window + k - 1, time)]
           pass == CHOOSE f : Passes(f)
           step == [k \in Nat |-> [acc \in Totalled |->
                      Take(acc, time - Window + k - 1, time)]]
<1>1. first \in Totalled
  BY DEF Totalled
<1>2. step \in [Nat -> [Totalled -> Totalled]]
  <2>1. \A k \in Nat : time - Window + k - 1 \in Int
    BY <1>0
  <2>2. \A k \in Nat : \A acc \in Totalled :
          Take(acc, time - Window + k - 1, time) \in Totalled
    BY <2>1, TakeType
  <2> QED BY <2>2
<1>3. PICK f : Runs(f, Totalled, first, step, Window)
  <2> HIDE DEF step, first
  <2> QED BY <1>0, <1>1, <1>2, PrimitiveRecursion
<1>4. Passes(f)
  <2>0. /\ f \in [0 .. Window -> Totalled] /\ f[0] = first
        /\ \A k \in 1 .. Window : f[k] = step[k][f[k - 1]]
    BY <1>3 DEF Runs
  <2>1. ASSUME NEW k \in 0 .. Window, k # 0
        PROVE  f[k] = Take(f[k - 1], time - Window + k - 1, time)
    <3>1. k \in 1 .. Window /\ k \in Nat /\ k - 1 \in 0 .. Window
      BY <1>0, <2>1
    <3>2. f[k - 1] \in Totalled
      BY <2>0, <3>1
    <3> QED BY <2>0, <3>1, <3>2
  <2>2. f = [k \in 0 .. Window |-> f[k]]
    BY <2>0
  <2> HIDE DEF step, first
  <2> QED BY <2>0, <2>1, <2>2
<1>5. Passes(pass)
  <2> HIDE DEF Passes
  <2> QED BY <1>4
<1>6. Totals(samples, time) = pass[Window]
  BY DEF Totals
<1>7. /\ pass[0] = first
      /\ \A k \in 1 .. Window :
           pass[k] = Take(pass[k - 1], time - Window + k - 1, time)
  <2> HIDE DEF pass, first
  <2> QED BY <1>0, <1>5
<1>8. pass \in [0 .. Window -> Totalled]
  <2> DEFINE S == {k \in 0 .. Window : pass[k] \in Totalled}
  <2>1. 0 \in S
    BY <1>0, <1>1, <1>7
  <2>2. ASSUME NEW k \in 1 .. Window, k - 1 \in S PROVE k \in S
    <3>1. time - Window + k - 1 \in Int /\ k \in 0 .. Window
      BY <1>0
    <3> HIDE DEF pass
    <3> QED BY <1>7, <2>2, <3>1, TakeType
  <2>3. 0 .. Window \subseteq S
    <3> HIDE DEF S
    <3> QED BY <1>0, <2>1, <2>2, UpTo
  <2>4. pass = [k \in 0 .. Window |-> pass[k]]
    <3> HIDE DEF pass, first
    <3> QED BY <1>5
  <2> HIDE DEF pass
  <2> QED BY <2>3, <2>4
<1> HIDE DEF pass
<1> QED BY <1>6, <1>7, <1>8

LEMMA FirstAtType ==
  ASSUME NEW s \in Seq(Sample), NEW second \in Int
  PROVE  FirstAt(s, second) \in Nat
<1>1. \A i \in 1 .. Len(s) : s[i] \in Sample
  BY ElementOfSeq
<1>2. \A i \in 1 .. Len(s) : s[i].hashrate \in Nat
  BY <1>1, CollectorAssumption DEF Sample
<1> QED BY <1>2, FirstAtMeans

LEMMA TotalRuns ==
  ASSUME NEW samples \in Seq(Sample), NEW width \in Nat, now \in Nat
  PROVE  \E total \in [0 .. width -> Nat] :
           /\ total[0] = 0
           /\ \A k \in 1 .. width :
                total[k] = total[k - 1] + FirstAt(samples, now - width + k - 1)
           /\ TotalSince(samples, now - width) = total[width]
<1> DEFINE Adds(f) == f = [k \in 0 .. now - (now - width) |->
             IF k = 0 THEN 0 ELSE f[k - 1] + FirstAt(samples, now - width + k - 1)]
           total == CHOOSE f : Adds(f)
           step == [k \in Nat |-> [sum \in Nat |->
                      sum + FirstAt(samples, now - width + k - 1)]]
<1>0. now - (now - width) = width
  OBVIOUS
<1>1. \A k \in Nat : FirstAt(samples, now - width + k - 1) \in Nat
  <2>1. \A k \in Nat : now - width + k - 1 \in Int
    OBVIOUS
  <2> QED BY <2>1, FirstAtType
<1>2. step \in [Nat -> [Nat -> Nat]]
  <2>1. ASSUME NEW k \in Nat, NEW sum \in Nat
        PROVE  sum + FirstAt(samples, now - width + k - 1) \in Nat
    <3>1. PICK n \in Nat : n = FirstAt(samples, now - width + k - 1)
      BY <1>1
    <3>2. sum + n \in Nat
      OBVIOUS
    <3> QED BY <3>1, <3>2
  <2> QED BY <2>1
<1>3. PICK f : Runs(f, Nat, 0, step, width)
  <2> HIDE DEF step
  <2> QED BY <1>2, PrimitiveRecursion
<1>4. Adds(f)
  <2>0. /\ f \in [0 .. width -> Nat] /\ f[0] = 0
        /\ \A k \in 1 .. width : f[k] = step[k][f[k - 1]]
    BY <1>3 DEF Runs
  <2>1. ASSUME NEW k \in 0 .. width, k # 0
        PROVE  f[k] = f[k - 1] + FirstAt(samples, now - width + k - 1)
    <3>1. k \in 1 .. width /\ k \in Nat /\ k - 1 \in 0 .. width
      BY <2>1
    <3>2. f[k - 1] \in Nat
      BY <2>0, <3>1
    <3> QED BY <2>0, <3>1, <3>2
  <2>2. f = [k \in 0 .. width |-> f[k]]
    BY <2>0
  <2> HIDE DEF step
  <2> QED BY <1>0, <2>0, <2>1, <2>2
<1>5. Adds(total)
  <2> HIDE DEF Adds
  <2> QED BY <1>4
<1>6. TotalSince(samples, now - width) = total[width]
  <2>1. TotalSince(samples, now - width) = total[now - (now - width)]
    BY DEF TotalSince
  <2> HIDE DEF total
  <2> QED BY <1>0, <2>1
<1>7. /\ total[0] = 0
      /\ \A k \in 1 .. width :
           total[k] = total[k - 1] + FirstAt(samples, now - width + k - 1)
  <2> HIDE DEF total
  <2> QED BY <1>0, <1>5
<1>8. total \in [0 .. width -> Nat]
  <2> DEFINE S == {k \in 0 .. width : total[k] \in Nat}
  <2>1. 0 \in S
    BY <1>7
  <2>2. ASSUME NEW k \in 1 .. width, k - 1 \in S PROVE k \in S
    <3> HIDE DEF total
    <3> QED BY <1>1, <1>7, <2>2
  <2>3. 0 .. width \subseteq S
    <3> HIDE DEF S
    <3> QED BY <2>1, <2>2, UpTo
  <2>4. total = [k \in 0 .. width |-> total[k]]
    <3> HIDE DEF total
    <3> QED BY <1>0, <1>5
  <2> HIDE DEF total
  <2> QED BY <2>3, <2>4
<1> HIDE DEF total
<1> QED BY <1>6, <1>7, <1>8

-----------------------------------------------------------------------------
Sorted(s) ==
  \A i, j \in 1 .. Len(s) : i <= j => s[i].timestamp <= s[j].timestamp

\* What is left of all samples before the pass looks at a second: only older ones
\* are gone.
LeftAt(rest, all, second) ==
  \E j \in 0 .. Len(all) :
    /\ Len(rest) = Len(all) - j
    /\ \A k \in 1 .. Len(rest) : rest[k] = all[j + k]
    /\ \A i \in 1 .. j : all[i].timestamp < second

\* A step of the pass adds the first sample of its second, however many of that or
\* of earlier seconds are left in front of it.
LEMMA TakeMeans ==
  ASSUME NEW acc \in Totalled, NEW all \in Seq(Sample), Sorted(all),
         NEW second \in Int, NEW time \in Int, LeftAt(acc.rest, all, second)
  PROVE  LET next == Take(acc, second, time)
         IN  /\ LeftAt(next.rest, all, second + 1)
             /\ next.long = acc.long + FirstAt(all, second)
             /\ next.short = acc.short +
                  IF second >= time - ShortWindow THEN FirstAt(all, second) ELSE 0
<1>0. /\ acc.rest \in Seq(Sample) /\ acc.long \in Nat /\ acc.short \in Nat
      /\ Len(all) \in Nat /\ Len(acc.rest) \in Nat
  BY LenProperties DEF Totalled
<1>1. \A i \in 1 .. Len(all) : all[i].timestamp \in Nat
  <2>1. \A i \in 1 .. Len(all) : all[i] \in Sample
    BY ElementOfSeq
  <2> QED BY <2>1 DEF Sample
<1>2. PICK j \in 0 .. Len(all) :
        /\ Len(acc.rest) = Len(all) - j
        /\ \A k \in 1 .. Len(acc.rest) : acc.rest[k] = all[j + k]
        /\ \A i \in 1 .. j : all[i].timestamp < second
  BY DEF LeftAt
<1>3. PICK rest \in Seq(Sample) : rest = DropOlder(acc.rest, second)
  BY <1>0, DropOlderMeans
<1>4. PICK m \in 0 .. Len(acc.rest) :
        /\ \A i \in 1 .. m : acc.rest[i].timestamp < second
        /\ m < Len(acc.rest) => acc.rest[m + 1].timestamp >= second
        /\ Len(rest) = Len(acc.rest) - m
        /\ \A i \in 1 .. Len(acc.rest) - m : rest[i] = acc.rest[m + i]
  <2>1. PICK m \in 0 .. Len(acc.rest) :
          /\ \A i \in 1 .. m : acc.rest[i].timestamp < second
          /\ m < Len(acc.rest) => acc.rest[m + 1].timestamp >= second
          /\ Len(DropOlder(acc.rest, second)) = Len(acc.rest) - m
          /\ \A i \in 1 .. Len(acc.rest) - m :
               DropOlder(acc.rest, second)[i] = acc.rest[m + i]
    BY <1>0, DropOlderMeans
  <2> QED BY <1>3, <2>1
<1>5. PICK n \in 0 .. Len(all) : n = j + m
  BY <1>0, <1>2
<1>6. /\ Len(rest) = Len(all) - n
      /\ \A k \in 1 .. Len(rest) : rest[k] = all[n + k]
  <2>1. Len(rest) = Len(all) - n
    BY <1>0, <1>2, <1>4, <1>5
  <2>2. ASSUME NEW k \in 1 .. Len(rest) PROVE rest[k] = all[n + k]
    <3>1. m + k \in 1 .. Len(acc.rest) /\ k \in 1 .. Len(acc.rest) - m
      BY <1>0, <1>4, <2>1
    <3>2. rest[k] = all[j + (m + k)] /\ j + (m + k) = n + k
      BY <1>0, <1>2, <1>4, <1>5, <3>1
    <3> QED BY <3>2
  <2> QED BY <2>1, <2>2
<1>7. ASSUME NEW i \in 1 .. n PROVE all[i].timestamp < second
  <2>1. CASE i <= j
    BY <1>2, <2>1
  <2>2. CASE ~(i <= j)
    <3>1. i - j \in 1 .. m /\ i - j \in 1 .. Len(acc.rest) /\ j + (i - j) = i
      BY <1>0, <1>2, <1>4, <1>5, <2>2
    <3> QED BY <1>2, <1>4, <3>1
  <2> QED BY <2>1, <2>2
<1>8. n < Len(all) => all[n + 1].timestamp >= second
  <2>1. n < Len(all) => m < Len(acc.rest) /\ m + 1 \in 1 .. Len(acc.rest)
                        /\ j + (m + 1) = n + 1
    BY <1>0, <1>2, <1>4, <1>5
  <2> QED BY <1>2, <1>4, <2>1
<1>9. n < Len(all) => rest # <<>> /\ Head(rest) = all[n + 1]
  <2>1. n < Len(all) => 1 \in 1 .. Len(rest)
    BY <1>0, <1>6
  <2> QED BY <1>6, <2>1, EmptySeq
<1>10. n = Len(all) => rest = <<>>
  BY <1>0, <1>6, EmptySeq
<1>11. CASE n < Len(all) /\ all[n + 1].timestamp = second
  <2>1. FirstAt(all, second) = all[n + 1].hashrate
    <3>1. n + 1 \in 1 .. Len(all)
      BY <1>0, <1>11
    <3>2. PICK i \in 1 .. Len(all) :
            /\ all[i].timestamp = second
            /\ \A x \in 1 .. i - 1 : all[x].timestamp # second
            /\ FirstAt(all, second) = all[i].hashrate
      BY <1>11, <3>1, FirstAtMeans
    <3>3. ~(i <= n) /\ ~(n + 1 <= i - 1)
      BY <1>0, <1>1, <1>7, <1>11, <3>1, <3>2
    <3>4. i = n + 1
      BY <1>0, <3>3
    <3> QED BY <3>2, <3>4
  <2>2. /\ Take(acc, second, time).rest = Tail(rest)
        /\ Take(acc, second, time).long = acc.long + FirstAt(all, second)
        /\ Take(acc, second, time).short =
             IF second >= time - ShortWindow
             THEN acc.short + FirstAt(all, second) ELSE acc.short
    BY <1>3, <1>9, <1>11, <2>1 DEF Take
  <2>3. LeftAt(Tail(rest), all, second + 1)
    <3>1. PICK end \in Seq(Sample) : end = Tail(rest)
      BY <1>9, <1>11, HeadTailProperties
    <3>2. Len(end) = Len(rest) - 1 /\ \A k \in 1 .. Len(end) : end[k] = rest[k + 1]
      BY <1>9, <1>11, <3>1, HeadTailProperties
    <3>3. n + 1 \in 0 .. Len(all) /\ Len(end) = Len(all) - (n + 1)
      BY <1>0, <1>6, <1>11, <3>2
    <3>4. ASSUME NEW k \in 1 .. Len(end) PROVE end[k] = all[(n + 1) + k]
      <4>1. k + 1 \in 1 .. Len(rest) /\ n + (k + 1) = (n + 1) + k
        BY <1>0, <1>6, <3>2, <3>3
      <4> QED BY <1>6, <3>2, <4>1
    <3>5. ASSUME NEW i \in 1 .. n + 1 PROVE all[i].timestamp < second + 1
      <4>1. i \in 1 .. Len(all) /\ (i \in 1 .. n \/ i = n + 1)
        BY <3>3
      <4> QED BY <1>1, <1>7, <1>11, <4>1
    <3> QED BY <3>1, <3>3, <3>4, <3>5 DEF LeftAt
  <2>4. FirstAt(all, second) \in Nat
    BY FirstAtType
  <2> QED BY <1>0, <2>2, <2>3, <2>4
<1>12. CASE ~(n < Len(all) /\ all[n + 1].timestamp = second)
  <2>1. \A i \in 1 .. Len(all) : all[i].timestamp # second
    <3>1. ASSUME NEW i \in 1 .. Len(all), i > n PROVE all[i].timestamp # second
      <4>1. n < Len(all) /\ n + 1 \in 1 .. Len(all) /\ n + 1 <= i
        BY <1>0, <3>1
      <4>2. all[n + 1].timestamp <= all[i].timestamp /\ all[n + 1].timestamp # second
        BY <1>12, <4>1 DEF Sorted
      <4> QED BY <1>1, <1>8, <4>1, <4>2
    <3>2. ASSUME NEW i \in 1 .. Len(all), ~(i > n) PROVE all[i].timestamp # second
      <4>1. i \in 1 .. n
        BY <1>0, <3>2
      <4> QED BY <1>1, <1>7, <4>1
    <3> QED BY <3>1, <3>2
  <2>2. FirstAt(all, second) = 0
    BY <2>1, FirstAtMeans
  <2>3. ~(rest # <<>> /\ Head(rest).timestamp = second)
    BY <1>0, <1>9, <1>10, <1>12
  <2>4. /\ Take(acc, second, time).rest = rest
        /\ Take(acc, second, time).long = acc.long
        /\ Take(acc, second, time).short = acc.short
    BY <1>3, <2>3 DEF Take, Totalled
  <2>5. LeftAt(rest, all, second + 1)
    <3>1. ASSUME NEW i \in 1 .. n PROVE all[i].timestamp < second + 1
      <4>1. i \in 1 .. Len(all)
        BY <1>0
      <4> QED BY <1>1, <1>7, <4>1
    <3> QED BY <1>6, <3>1 DEF LeftAt
  <2> QED BY <1>0, <2>2, <2>4, <2>5
<1> QED BY <1>11, <1>12

\* The pass over what is kept finds what a search of all samples finds.
LEMMA TotalsMean ==
  ASSUME now \in Nat, NEW kept \in Seq(Sample), NEW all \in Seq(Sample), Sorted(all),
         LeftAt(kept, all, now - Window)
  PROVE  /\ Totals(kept, now).long = TotalSince(all, now - Window)
         /\ Totals(kept, now).short = TotalSince(all, now - ShortWindow)
<1>1. Window \in Nat /\ ShortWindow \in Nat /\ ShortWindow <= Window
  BY CollectorAssumption
<1>2. PICK pass \in [0 .. Window -> Totalled] :
        /\ pass[0] = [rest |-> kept, long |-> 0, short |-> 0]
        /\ \A k \in 1 .. Window : pass[k] = Take(pass[k - 1], now - Window + k - 1, now)
        /\ Totals(kept, now) = pass[Window]
  BY PassRuns
<1>3. PICK long \in [0 .. Window -> Nat] :
        /\ long[0] = 0
        /\ \A k \in 1 .. Window :
             long[k] = long[k - 1] + FirstAt(all, now - Window + k - 1)
        /\ TotalSince(all, now - Window) = long[Window]
  BY <1>1, TotalRuns
<1>4. PICK short \in [0 .. ShortWindow -> Nat] :
        /\ short[0] = 0
        /\ \A k \in 1 .. ShortWindow :
             short[k] = short[k - 1] + FirstAt(all, now - ShortWindow + k - 1)
        /\ TotalSince(all, now - ShortWindow) = short[ShortWindow]
  BY <1>1, TotalRuns
<1>5. PICK skip \in Nat : skip = Window - ShortWindow
  BY <1>1
<1> DEFINE Agrees(k) ==
             /\ LeftAt(pass[k].rest, all, now - Window + k)
             /\ pass[k].long = long[k]
             /\ k <= skip => pass[k].short = 0
             /\ k >= skip => pass[k].short = short[k - skip]
           S == {k \in 0 .. Window : Agrees(k)}
<1>6. 0 \in S
  <2>1. now - Window + 0 = now - Window
    BY <1>1
  <2>2. 0 >= skip => 0 - skip = 0
    BY <1>5
  <2> QED BY <1>1, <1>2, <1>3, <1>4, <2>1, <2>2
<1>7. ASSUME NEW k \in 1 .. Window, k - 1 \in S PROVE k \in S
  <2>1. /\ k - 1 \in 0 .. Window /\ k \in 0 .. Window
        /\ now - Window + k - 1 \in Int /\ now \in Int
        /\ now - Window + (k - 1) = now - Window + k - 1
        /\ (now - Window + k - 1) + 1 = now - Window + k
    BY <1>1
  <2>2. PICK second \in Int : second = now - Window + k - 1
    BY <2>1
  <2>3. PICK acc \in Totalled, next \in Totalled :
          /\ acc = pass[k - 1] /\ next = pass[k] /\ next = Take(acc, second, now)
    BY <1>2, <2>1, <2>2
  <2>4. LeftAt(acc.rest, all, second)
    BY <1>7, <2>1, <2>2, <2>3
  <2>5. /\ LeftAt(next.rest, all, second + 1)
        /\ next.long = acc.long + FirstAt(all, second)
        /\ next.short = acc.short +
             IF second >= now - ShortWindow THEN FirstAt(all, second) ELSE 0
    BY <2>1, <2>3, <2>4, TakeMeans
  <2>6. FirstAt(all, second) \in Nat /\ acc.short \in Nat
    BY FirstAtType DEF Totalled
  <2>7. LeftAt(pass[k].rest, all, now - Window + k)
    BY <2>1, <2>2, <2>3, <2>5
  <2>8. pass[k].long = long[k]
    BY <1>3, <1>7, <2>2, <2>3, <2>5
  <2>9. second >= now - ShortWindow <=> k > skip
    BY <1>1, <1>5, <2>2
  <2>10. k <= skip => pass[k].short = 0
    <3>1. k <= skip => acc.short = 0 /\ ~(second >= now - ShortWindow)
      BY <1>5, <1>7, <2>3, <2>9
    <3> QED BY <2>3, <2>5, <3>1
  <2>11. k >= skip => pass[k].short = short[k - skip]
    <3>1. CASE k = skip
      BY <1>4, <2>10, <3>1
    <3>2. CASE k > skip
      <4>1. /\ k - skip \in 1 .. ShortWindow /\ (k - 1) - skip = (k - skip) - 1
            /\ now - ShortWindow + (k - skip) - 1 = second
        BY <1>1, <1>5, <2>2, <3>2
      <4>2. acc.short = short[(k - skip) - 1]
        BY <1>7, <2>3, <3>2, <4>1
      <4>3. next.short = acc.short + FirstAt(all, second)
        BY <2>5, <2>9, <3>2
      <4> QED BY <1>4, <2>3, <4>1, <4>2, <4>3
    <3> QED BY <1>5, <3>1, <3>2
  <2> QED BY <2>1, <2>7, <2>8, <2>10, <2>11
<1>8. Window \in S
  <2>1. 0 .. Window \subseteq S
    <3> HIDE DEF S
    <3> QED BY <1>1, <1>6, <1>7, UpTo
  <2> QED BY <1>1, <2>1
<1>9. Window >= skip /\ Window - skip = ShortWindow
  BY <1>1, <1>5
<1> QED BY <1>2, <1>3, <1>4, <1>8, <1>9

-----------------------------------------------------------------------------
\* Samples are received in the order of their timestamps, and those in the channel
\* come after all that were received.
Ordered ==
  /\ \A p \in 1 .. Len(channel) : channel[p].timestamp <= now
  /\ Sorted(channel)
  /\ \A d \in Devices :
       /\ Sorted(received[d])
       /\ \A i \in 1 .. Len(received[d]), p \in 1 .. Len(channel) :
            received[d][i].timestamp <= channel[p].timestamp

LEMMA OrderedInit == Init => Ordered
<1>1. Init => channel = <<>> /\ \A d \in Devices : received[d] = <<>>
  BY DEF Init
<1>2. Len(<<>>) = 0
  BY EmptySeq
<1> QED BY <1>1, <1>2 DEF Ordered, Sorted

LEMMA OrderedSend ==
  ASSUME Typed, Counted, Ordered, NEW d \in Devices, Send(d)
  PROVE  Ordered'
<1>1. now' = now /\ received' = received
  BY DEF Send, collected
<1>2. PICK s \in Sample, before \in Seq(Sample) :
        /\ channel' = Append(before, s) /\ s.timestamp = now
        /\ before = IF Len(channel) < Capacity THEN channel ELSE Tail(channel)
  <2>1. PICK rate \in Rates : channel' =
          Append(IF Len(channel) < Capacity THEN channel ELSE Tail(channel),
                 [device_id |-> d, timestamp |-> now, hashrate |-> rate])
    BY DEF Send
  <2>2. [device_id |-> d, timestamp |-> now, hashrate |-> rate] \in Sample
    BY Numbers DEF Sample
  <2>3. (IF Len(channel) < Capacity THEN channel ELSE Tail(channel)) \in Seq(Sample)
    <3>1. Len(channel) < Capacity \/ channel # <<>>
      BY CollectorAssumption, EmptySeq, Numbers
    <3> QED BY <3>1, HeadTailProperties, Numbers
  <2> QED BY <2>1, <2>2, <2>3
<1>3. /\ now \in Nat /\ Len(channel) \in Nat /\ Len(before) \in Nat
      /\ \A p \in 1 .. Len(channel) : channel[p].timestamp \in Nat
      /\ \A e \in Devices : \A i \in 1 .. Len(received[e]) :
           received[e][i].timestamp \in Nat /\ received[e][i].timestamp <= now
  BY Numbers, LenProperties DEF Counted, ReceivedFits
<1>4. \E shift \in {0, 1} :
        /\ Len(before) = Len(channel) - shift
        /\ \A p \in 1 .. Len(before) : before[p] = channel[p + shift]
  <2>1. CASE Len(channel) < Capacity
    BY <1>2, <1>3, <2>1
  <2>2. CASE ~(Len(channel) < Capacity)
    <3>1. channel # <<>> /\ before = Tail(channel)
      BY <1>2, <2>2, CollectorAssumption, EmptySeq
    <3> QED BY <3>1, HeadTailProperties, Numbers
  <2> QED BY <2>1, <2>2
<1>5. PICK shift \in {0, 1} :
        /\ Len(before) = Len(channel) - shift
        /\ \A p \in 1 .. Len(before) : before[p] = channel[p + shift]
  BY <1>4
<1>6. ASSUME NEW p \in 1 .. Len(channel')
      PROVE  \/ p \in 1 .. Len(before) /\ p + shift \in 1 .. Len(channel)
                                       /\ channel'[p] = channel[p + shift]
             \/ p = Len(before) + 1 /\ channel'[p] = s
  <2>1. /\ Len(Append(before, s)) = Len(before) + 1
        /\ \A q \in 1 .. Len(before) : Append(before, s)[q] = before[q]
        /\ Append(before, s)[Len(before) + 1] = s
    BY AppendProperties
  <2>2. p \in 1 .. Len(before) \/ p = Len(before) + 1
    BY <1>2, <1>3, <2>1
  <2>3. p \in 1 .. Len(before) => p + shift \in 1 .. Len(channel)
    BY <1>3, <1>5
  <2> QED BY <1>2, <1>5, <2>1, <2>2, <2>3
<1>7. ASSUME NEW p \in 1 .. Len(channel') PROVE channel'[p].timestamp <= now
  BY <1>2, <1>3, <1>6 DEF Ordered
<1>8. ASSUME NEW p \in 1 .. Len(channel'), NEW q \in 1 .. Len(channel'), p <= q
      PROVE  channel'[p].timestamp <= channel'[q].timestamp
  <2>1. CASE q = Len(before) + 1
    <3>1. channel'[q] = s
      BY <1>3, <1>6, <2>1
    <3> QED BY <1>2, <1>7, <3>1
  <2>2. CASE q # Len(before) + 1
    <3>1. p # Len(before) + 1
      BY <1>3, <1>6, <1>8, <2>2
    <3>2. /\ p + shift \in 1 .. Len(channel) /\ channel'[p] = channel[p + shift]
          /\ q + shift \in 1 .. Len(channel) /\ channel'[q] = channel[q + shift]
          /\ p + shift <= q + shift
      BY <1>6, <1>8, <2>2, <3>1
    <3> QED BY <3>2 DEF Ordered, Sorted
  <2> QED BY <2>1, <2>2
<1>9. ASSUME NEW e \in Devices, NEW i \in 1 .. Len(received[e]),
             NEW p \in 1 .. Len(channel')
      PROVE  received[e][i].timestamp <= channel'[p].timestamp
  BY <1>2, <1>3, <1>6 DEF Ordered
<1> QED BY <1>1, <1>7, <1>8, <1>9 DEF Ordered, Sorted

LEMMA OrderedReceive ==
  ASSUME Typed, Ordered, Receive
  PROVE  Ordered'
<1>1. now' = now /\ channel # <<>> /\ channel' = Tail(channel)
  BY DEF Receive, sending
<1>2. PICK s \in Sample, d \in Devices : s = channel[1] /\ s = Head(channel) /\ d = s.device_id
  <2>1. Head(channel) \in Sample /\ Head(channel) = channel[1]
    BY <1>1, HeadTailProperties, Numbers
  <2> QED BY <2>1 DEF Sample
<1>3. /\ received'[d] = Append(received[d], s)
      /\ \A e \in Devices : e # d => received'[e] = received[e]
  BY <1>2 DEF Receive, Typed
<1>4. /\ Len(channel) \in Nat \ {0} /\ Len(channel') = Len(channel) - 1
      /\ \A p \in 1 .. Len(channel') :
           p + 1 \in 1 .. Len(channel) /\ channel'[p] = channel[p + 1]
  <2>1. /\ Len(channel) \in Nat \ {0} /\ Len(channel') = Len(channel) - 1
        /\ \A p \in 1 .. Len(Tail(channel)) : Tail(channel)[p] = channel[p + 1]
    BY <1>1, HeadTailProperties, EmptySeq, Numbers
  <2> QED BY <1>1, <2>1
<1>5. /\ now \in Nat /\ s.timestamp \in Nat /\ s.timestamp <= now
      /\ \A p \in 1 .. Len(channel) : channel[p].timestamp \in Nat
                                      /\ s.timestamp <= channel[p].timestamp
  <2>1. 1 \in 1 .. Len(channel)
    BY <1>4
  <2> QED BY <1>2, <1>4, <2>1, Numbers DEF Ordered, Sorted
<1>6. \A p \in 1 .. Len(channel') : channel'[p].timestamp <= now'
  BY <1>1, <1>4 DEF Ordered
<1>7. Sorted(channel')
  <2>1. ASSUME NEW p \in 1 .. Len(channel'), NEW q \in 1 .. Len(channel'), p <= q
        PROVE  channel'[p].timestamp <= channel'[q].timestamp
    <3>1. p + 1 \in 1 .. Len(channel) /\ q + 1 \in 1 .. Len(channel) /\ p + 1 <= q + 1
      BY <1>4, <2>1
    <3> QED BY <1>4, <3>1 DEF Ordered, Sorted
  <2> QED BY <2>1 DEF Sorted
<1>8. ASSUME NEW e \in Devices, NEW i \in 1 .. Len(received'[e])
      PROVE  \/ i \in 1 .. Len(received[e]) /\ received'[e][i] = received[e][i]
             \/ e = d /\ i = Len(received[e]) + 1 /\ received'[e][i] = s
  <2>1. CASE e # d
    BY <1>3, <2>1
  <2>2. CASE e = d
    <3>1. received[d] \in Seq(Sample) /\ Len(received[d]) \in Nat
      BY Numbers
    <3>2. /\ Len(Append(received[d], s)) = Len(received[d]) + 1
          /\ \A j \in 1 .. Len(received[d]) : Append(received[d], s)[j] = received[d][j]
          /\ Append(received[d], s)[Len(received[d]) + 1] = s
      BY <3>1, AppendProperties
    <3>3. i \in 1 .. Len(received[d]) \/ i = Len(received[d]) + 1
      BY <1>3, <1>8, <2>2, <3>1, <3>2
    <3> QED BY <1>3, <2>2, <3>2, <3>3
  <2> QED BY <2>1, <2>2
<1>9. ASSUME NEW e \in Devices, NEW i \in 1 .. Len(received'[e])
      PROVE  \A p \in 1 .. Len(channel) : received'[e][i].timestamp <= channel[p].timestamp
  BY <1>5, <1>8 DEF Ordered
<1>10. ASSUME NEW e \in Devices, NEW i \in 1 .. Len(received'[e]),
              NEW p \in 1 .. Len(channel')
       PROVE  received'[e][i].timestamp <= channel'[p].timestamp
  BY <1>4, <1>9
<1>11. ASSUME NEW e \in Devices, NEW i \in 1 .. Len(received'[e]),
              NEW j \in 1 .. Len(received'[e]), i <= j
       PROVE  received'[e][i].timestamp <= received'[e][j].timestamp
  <2>1. CASE received'[e][j] = s
    <3>1. 1 \in 1 .. Len(channel)
      BY <1>4
    <3> QED BY <1>2, <1>9, <2>1, <3>1
  <2>2. CASE received'[e][j] # s
    <3>1. j \in 1 .. Len(received[e]) /\ received'[e][j] = received[e][j]
      BY <1>8, <2>2
    <3>2. i \in 1 .. Len(received[e]) /\ Len(received[e]) \in Nat
      BY <1>11, <3>1, Numbers
    <3>3. received'[e][i] = received[e][i]
      <4>1. i # Len(received[e]) + 1
        BY <3>2
      <4> QED BY <1>8, <4>1
    <3> QED BY <1>11, <3>1, <3>2, <3>3 DEF Ordered, Sorted
  <2> QED BY <2>1, <2>2
<1>12. ASSUME NEW e \in Devices PROVE Sorted(received'[e])
  BY <1>11 DEF Sorted
<1> QED BY <1>6, <1>7, <1>10, <1>12 DEF Ordered, Sorted

LEMMA OrderedNext == Typed /\ Counted /\ Ordered /\ [Next]_vars => Ordered'
<1> SUFFICES ASSUME Typed, Counted, Ordered, [Next]_vars PROVE Ordered'
  OBVIOUS
<1>1. CASE Tick
  <2>1. UNCHANGED <<channel, received>> /\ now' = now + 1 /\ now \in Nat
        /\ \A p \in 1 .. Len(channel) : channel[p].timestamp \in Nat
    BY <1>1, Numbers DEF Tick, collected
  <2>2. \A p \in 1 .. Len(channel) : channel[p].timestamp <= now'
    BY <2>1 DEF Ordered
  <2> QED BY <2>1, <2>2 DEF Ordered, Sorted
<1>2. ASSUME NEW d \in Devices, Send(d) PROVE Ordered'
  BY <1>2, OrderedSend
<1>3. CASE Receive
  BY <1>3, OrderedReceive
<1>4. CASE EndTask
  <2>1. channel' = <<>> /\ now' = now /\ received' = received /\ Len(<<>>) = 0
    BY <1>4, EmptySeq DEF EndTask, sending, collected
  <2>2. \A p \in 1 .. Len(channel') : FALSE
    BY <2>1
  <2> QED BY <2>1, <2>2 DEF Ordered, Sorted
<1>5. CASE UNCHANGED <<now, channel, received>>
  BY <1>5 DEF Ordered, Sorted
<1>6. \/ Tick \/ Receive \/ EndTask \/ UNCHANGED <<now, channel, received>>
      \/ \E d \in Devices : Send(d)
  BY DEF Next, vars, sending, collected, TriggerShutdown, Ask, AskFails, NextRequest,
         Answer, Stop, ReceiveLagged, Idle
<1> QED BY <1>1, <1>2, <1>3, <1>4, <1>5, <1>6

LEMMA AveragesFollow ==
  ASSUME Typed, Counted, Kept, Ordered
  PROVE  AveragesExact
<1> SUFFICES ASSUME NEW d \in Devices
             PROVE  /\ Totals(hashrate_samples[d], now).long
                         = TotalSince(received[d], now - Window)
                    /\ Totals(hashrate_samples[d], now).short
                         = TotalSince(received[d], now - ShortWindow)
  BY DEF AveragesExact
<1>1. PICK all \in Seq(Sample), kept \in Seq(Sample) :
        all = received[d] /\ kept = hashrate_samples[d]
  BY DEF Typed
<1>2. /\ now \in Nat /\ Window \in Nat /\ Sorted(all) /\ KeptEnd(kept, all)
      /\ \A i \in 1 .. Len(all) : all[i].timestamp \in Nat
  BY <1>1, CollectorAssumption, Numbers DEF Ordered, Kept
<1>3. PICK m \in Nat, n \in Nat : m = Len(kept) /\ n = Len(all) /\ m <= n
  BY <1>2, LenProperties DEF KeptEnd
<1>4. ASSUME NEW i \in 1 .. n - m PROVE all[i].timestamp < now - Window
  <2>1. i \in 1 .. Len(all) /\ ~(i - (n - m) \in 1 .. m)
    BY <1>3
  <2>2. ~(all[i].timestamp >= now - Window)
    BY <1>1, <1>3, <2>1, KeptCoversWindow DEF WindowIsKept
  <2> QED BY <1>2, <2>1, <2>2
<1>5. LeftAt(kept, all, now - Window)
  <2>4. n - m \in 0 .. n
    BY <1>3
  <2>1. PICK j \in 0 .. Len(all) : j = n - m
    BY <1>3, <2>4
  <2>2. Len(kept) = Len(all) - j /\ \A i \in 1 .. j : all[i].timestamp < now - Window
    BY <1>3, <1>4, <2>1
  <2>3. \A k \in 1 .. Len(kept) : kept[k] = all[j + k]
    BY <1>2, <1>3, <2>1 DEF KeptEnd
  <2> QED BY <2>2, <2>3 DEF LeftAt
<1>6. /\ Totals(kept, now).long = TotalSince(all, now - Window)
      /\ Totals(kept, now).short = TotalSince(all, now - ShortWindow)
  BY <1>2, <1>5, TotalsMean
<1> QED BY <1>1, <1>6

\* The averages answered are those of all samples received, for windows of any
\* length: neither the eviction, nor the order in which samples arrive, nor the
\* single pass that drops what it has seen loses one (stats_collector.rs 76-116,
\* 165-171).
THEOREM AveragesAreExact == Spec => []AveragesExact
<1> DEFINE IInv == Typed /\ Counted /\ Kept /\ Ordered
<1>1. Init => IInv
  BY TypedInit, CountedInit, KeptInit, OrderedInit
<1>2. IInv /\ [Next]_vars => IInv'
  BY TypedNext, CountedNext, KeptNext, OrderedNext
<1>3. IInv => AveragesExact
  BY AveragesFollow
<1> QED BY <1>1, <1>2, <1>3, PTL DEF Spec

-----------------------------------------------------------------------------
\* A client waits exactly as long as it is in the queue of a running task: none
\* waits for an answer that nobody will give.
Queued ==
  /\ \A c \in Clients :
       client[c] = "waiting" => \E i \in 1 .. Len(requests) : requests[i] = c
  /\ status = "ended" => Len(requests) = 0

LEMMA QueuedInit == Init => Queued
<1>1. Len(<<>>) = 0
  BY EmptySeq
<1> QED BY <1>1 DEF Init, Queued

LEMMA QueuedNext == Typed /\ Queued /\ [Next]_vars => Queued'
<1> SUFFICES ASSUME Typed, Queued, [Next]_vars PROVE Queued'
  OBVIOUS
<1>0. /\ client \in [Clients -> {"idle", "waiting", "answered", "error"}]
      /\ requests \in Seq(Clients) /\ Len(requests) \in Nat
  BY LenProperties DEF Typed
<1>1. ASSUME UNCHANGED <<client, requests, status>> PROVE Queued'
  BY <1>1 DEF Queued
<1>2. CASE Tick \/ TriggerShutdown \/ Receive \/ UNCHANGED vars
  BY <1>1, <1>2 DEF Tick, TriggerShutdown, Receive, vars
<1>3. ASSUME NEW d \in Devices, Send(d) PROVE Queued'
  BY <1>1, <1>3 DEF Send
<1>4. ASSUME NEW c \in Clients, Ask(c) PROVE Queued'
  <2>1. /\ Len(requests') = Len(requests) + 1 /\ requests'[Len(requests) + 1] = c
        /\ \A i \in 1 .. Len(requests) : requests'[i] = requests[i]
    BY <1>0, <1>4, AppendProperties DEF Ask
  <2>2. ASSUME NEW e \in Clients, client'[e] = "waiting"
        PROVE  \E i \in 1 .. Len(requests') : requests'[i] = e
    <3>1. CASE e = c
      <4>1. Len(requests) + 1 \in 1 .. Len(requests')
        BY <1>0, <2>1
      <4> QED BY <2>1, <3>1, <4>1
    <3>2. CASE e # c
      <4>1. client[e] = "waiting"
        BY <1>0, <1>4, <2>2, <3>2 DEF Ask
      <4>2. PICK i \in 1 .. Len(requests) : requests[i] = e
        BY <4>1 DEF Queued
      <4>3. i \in 1 .. Len(requests') /\ requests'[i] = e
        BY <1>0, <2>1, <4>2
      <4> QED BY <4>3
    <3> QED BY <3>1, <3>2
  <2> QED BY <1>4, <2>2 DEF Ask, Queued
<1>5. ASSUME NEW c \in Clients, AskFails(c) \/ NextRequest(c) PROVE Queued'
  <2>1. \A e \in Clients : client'[e] = "waiting" => client[e] = "waiting"
    BY <1>0, <1>5 DEF AskFails, NextRequest
  <2> QED BY <1>5, <2>1 DEF AskFails, NextRequest, Queued
<1>6. CASE Answer
  <2>1. /\ requests # <<>> /\ requests' = Tail(requests) /\ status = "running"
        /\ status' = status /\ client' = [client EXCEPT ![Head(requests)] = "answered"]
    BY <1>6 DEF Answer
  <2>2. /\ Head(requests) = requests[1] /\ Len(Tail(requests)) = Len(requests) - 1
        /\ \A i \in 1 .. Len(requests) - 1 : Tail(requests)[i] = requests[i + 1]
    BY <2>1, HeadTailProperties, <1>0
  <2>3. ASSUME NEW e \in Clients, client'[e] = "waiting"
        PROVE  \E i \in 1 .. Len(requests') : requests'[i] = e
    <3>1. e # Head(requests) /\ client[e] = "waiting"
      BY <1>0, <2>1, <2>3
    <3>2. PICK i \in 1 .. Len(requests) : requests[i] = e
      BY <3>1 DEF Queued
    <3>3. i # 1
      BY <2>2, <3>1, <3>2
    <3>4. i - 1 \in 1 .. Len(requests) - 1 /\ (i - 1) + 1 = i
      BY <1>0, <3>3
    <3>5. Tail(requests)[i - 1] = e /\ i - 1 \in 1 .. Len(Tail(requests))
      BY <2>2, <3>2, <3>4
    <3> QED BY <2>1, <3>5
  <2> QED BY <2>1, <2>3 DEF Queued
<1>7. CASE EndTask
  <2>1. Len(requests') = 0
    BY <1>7, EmptySeq DEF EndTask
  <2>2. \A e \in Clients : client'[e] # "waiting"
    BY <1>7 DEF EndTask
  <2> QED BY <2>1, <2>2 DEF Queued
<1> QED
  BY <1>2, <1>3, <1>4, <1>5, <1>6, <1>7 DEF Next, Stop, ReceiveLagged, Idle

\* A client that waits has its place in the queue of a task that still runs, so none
\* waits for an answer that nobody will give: what EveryRequestEnds needs besides
\* fairness, for any number of clients and any size of the queue
\* (stats_collector.rs 50-56, 142-180).
THEOREM NobodyWaitsInVain ==
  Spec => [](\A c \in Clients :
               client[c] = "waiting" =>
                 status = "running" /\ \E i \in 1 .. Len(requests) : requests[i] = c)
<1> DEFINE Waiting(c) ==
             client[c] = "waiting" =>
               status = "running" /\ \E i \in 1 .. Len(requests) : requests[i] = c
<1>1. Init => Typed /\ Queued
  BY TypedInit, QueuedInit
<1>2. Typed /\ Queued /\ [Next]_vars => (Typed /\ Queued)'
  BY TypedNext, QueuedNext
<1>3. Typed /\ Queued => \A c \in Clients : Waiting(c)
  <2> SUFFICES ASSUME Typed, Queued, NEW c \in Clients, client[c] = "waiting"
               PROVE  status = "running" /\ \E i \in 1 .. Len(requests) : requests[i] = c
    OBVIOUS
  <2>1. PICK i \in 1 .. Len(requests) : requests[i] = c
    BY DEF Queued
  <2>2. Len(requests) # 0
    BY <2>1
  <2>3. status = "running"
    BY <2>2 DEF Queued, Typed
  <2> QED BY <2>1, <2>3
<1> QED BY <1>1, <1>2, <1>3, PTL DEF Spec
=============================================================================
