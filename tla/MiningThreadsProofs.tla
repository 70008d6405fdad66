------------------------- MODULE MiningThreadsProofs -------------------------
(***************************************************************************)
(* Proofs, for any number of devices, any nonce space and any set of       *)
(* solutions, of the invariants of MiningThreads.                          *)
(***************************************************************************)
EXTENDS MiningThreads, TLAPS

\* Products of the numbers involved: what the provers need to be told.
LEMMA Products ==
  /\ \A m, n \in Nat : m * n \in Nat
  /\ \A m, n \in Nat : (m + 1) * n = m * n + n
  /\ \A l, m, n \in Nat : l <= m => l * n <= m * n
  /\ \A l, m, n \in Nat : l <= m => n * l <= n * m
  /\ \A m, n \in Nat : n * (m + 1) = n * m + n
  OBVIOUS

\* The quotas of all devices fit the nonce space.
LEMMA QuotaBounds == Quota \in Nat /\ Quota * NumDevices <= NonceSpace
  <1>1. \A m \in Nat, n \in Nat \ {0} : m \div n \in Nat /\ (m \div n) * n <= m
    OBVIOUS
  <1> QED
    BY <1>1, MinersAssumption DEF Quota

LEMMA FirstNonceIsNat == \A i \in Devices : i \in Nat /\ FirstNonce(i) \in Nat
  BY Products, QuotaBounds, MinersAssumption DEF FirstNonce

-----------------------------------------------------------------------------
\* Only the thread that takes a step changes its own entries.
LEMMA MinersTypeStep == MinersTypeOK /\ [MinersNext]_minerVars => MinersTypeOK'
  <1> SUFFICES ASSUME MinersTypeOK, [MinersNext]_minerVars PROVE MinersTypeOK'
    OBVIOUS
  <1> USE MinersAssumption DEF MinersTypeOK, Over, Versions
  <1>1. ASSUME NEW i \in Devices, Thread(i) PROVE MinersTypeOK'
    <2>1. CASE Connect(i)
      BY <2>1 DEF Connect, Goto, env, search
    <2>2. CASE SetupFails(i)
      BY <2>2 DEF SetupFails, Goto, env, search
    <2>3. CASE Panic(i)
      BY <2>3 DEF Panic, env, thread
    <2>4. CASE Quit(i)
      BY <2>4 DEF Quit, Goto, env, search
    <2>5. CASE ReadTemplate(i)
      BY <2>5, FirstNonceIsNat DEF ReadTemplate, Goto, env
    <2>6. CASE TemplateExpires(i)
      BY <2>6 DEF TemplateExpires, Goto, env, search
    <2>7. CASE Mine(i)
      <3>1. PICK n \in Found(i) \cup {0} :
              /\ nonce' = [nonce EXCEPT ![i] = n]
              /\ solutions' = IF n = 0 THEN solutions ELSE
                    solutions \cup {[device |-> i, job |-> job[i], nonce |-> n]}
        BY <2>7 DEF Mine
      <3>2. n \in Nat
        BY DEF Found
      <3>3. nonce' \in [Devices -> Nat]
        BY <3>1, <3>2
      <3>4. solutions' \subseteq [device : Devices, job : Versions, nonce : Nat]
        BY <3>1, <3>2
      <3>5. nonce_start' \in [Devices -> Nat]
            /\ elapsed' \in [Devices -> 0 .. TemplateRefreshSecs + 1]
        BY <2>7 DEF Mine
      <3> QED
        BY <2>7, <3>3, <3>4, <3>5 DEF Mine, Goto, env
    <2>8. CASE MineFails(i)
      BY <2>8 DEF MineFails, Goto, env, search
    <2>9. CASE Report(i)
      BY <2>9 DEF Report, Goto, env, search
    <2>10. CASE ReportFails(i)
      BY <2>10 DEF ReportFails, Goto, env, search
    <2>11. CASE Submit(i)
      BY <2>11 DEF Submit, Goto, env, search
    <2> QED
      BY <1>1, <2>1, <2>2, <2>3, <2>4, <2>5, <2>6, <2>7, <2>8, <2>9, <2>10, <2>11
      DEF Thread, Step
  <1>2. CASE replace_block_template_cache
    BY <1>2 DEF replace_block_template_cache, thread
  <1>3. CASE TriggerShutdown \/ DropReceiver \/ WatcherPanics
    BY <1>3 DEF TriggerShutdown, DropReceiver, WatcherPanics, env, thread
  <1>4. CASE UNCHANGED minerVars
    BY <1>4 DEF minerVars, env, thread
  <1> QED
    BY <1>1, <1>2, <1>3, <1>4 DEF MinersNext, Idle

LEMMA MinersTypeInit == MinersInit => MinersTypeOK
  <1>1. 0 \in Versions /\ 0 \in 0 .. TemplateRefreshSecs + 1
    BY MinersAssumption DEF Versions
  <1>2. ASSUME NEW S, NEW x \in S PROVE [i \in Devices |-> x] \in [Devices -> S]
    OBVIOUS
  <1>3. "connect" \in {"connect", "top", "mine", "report", "submit"} \cup Over
    OBVIOUS
  <1>4. MinersInit => /\ pc \in [Devices -> {"connect", "top", "mine", "report", "submit"} \cup Over]
                      /\ job \in [Devices -> Versions] /\ header \in [Devices -> Versions]
                      /\ nonce_start \in [Devices -> Nat] /\ nonce \in [Devices -> Nat]
                      /\ elapsed \in [Devices -> 0 .. TemplateRefreshSecs + 1]
    BY <1>1, <1>2, <1>3 DEF MinersInit
  <1> QED
    BY <1>1, <1>4 DEF MinersInit, MinersTypeOK

\* The threads' state keeps its type in every behaviour.
THEOREM MinersTypeCorrect == MinersSpec => []MinersTypeOK
  BY MinersTypeInit, MinersTypeStep, PTL DEF MinersSpec

-----------------------------------------------------------------------------
\* A thread has searched no more than the batches its clock has counted.
Progress ==
  \A i \in Devices :
    \/ nonce_start[i] = 0
    \/ nonce_start[i] <= FirstNonce(i) + elapsed[i] * Batch

\* What a thread mines is what it submits, and a nonce it holds after a batch
\* solves it.
Holding ==
  /\ header = job
  /\ \A i \in Devices :
       /\ pc[i] \in {"report", "submit"} /\ nonce[i] # 0 =>
            <<job[i], nonce[i]>> \in Solves
       /\ pc[i] = "submit" => nonce[i] # 0
  /\ \A s \in solutions : s.nonce # 0

LEMMA ProgressStep ==
  MinersTypeOK /\ Progress /\ [MinersNext]_minerVars => Progress'
  <1> SUFFICES ASSUME MinersTypeOK, Progress, [MinersNext]_minerVars,
                      NEW k \in Devices
               PROVE  \/ nonce_start'[k] = 0
                      \/ nonce_start'[k] <= FirstNonce(k) + elapsed'[k] * Batch
    BY DEF Progress, FirstNonce
  <1> USE MinersAssumption DEF MinersTypeOK
  <1>1. CASE \E i \in Devices : ReadTemplate(i)
    <2>1. PICK i \in Devices : ReadTemplate(i)
      BY <1>1
    <2>2. CASE i = k
      <3>1. nonce_start'[k] = FirstNonce(k) /\ elapsed'[k] = 0
        BY <2>1, <2>2 DEF ReadTemplate
      <3>2. 0 * Batch = 0
        OBVIOUS
      <3> QED
        BY <3>1, <3>2, FirstNonceIsNat
    <2>3. CASE i # k
      BY <2>1, <2>3 DEF ReadTemplate, Goto, Progress
    <2> QED
      BY <2>2, <2>3
  <1>2. CASE \E i \in Devices : Mine(i)
    <2>1. PICK i \in Devices : Mine(i)
      BY <1>2
    <2>2. CASE i = k
      <3>1. /\ nonce_start'[k] = nonce_start[k] + Batch
            /\ elapsed'[k] = elapsed[k] + 1
            /\ pc[k] = "mine"
        BY <2>1, <2>2 DEF Mine, Goto
      <3>2. elapsed[k] \in Nat /\ nonce_start[k] \in Nat
        OBVIOUS
      <3>3. (elapsed[k] + 1) * Batch = elapsed[k] * Batch + Batch
            /\ elapsed[k] * Batch \in Nat
        BY <3>2, Products
      <3>4. nonce_start[k] <= FirstNonce(k) + elapsed[k] * Batch
        BY <3>1, <3>2, <3>3, FirstNonceIsNat DEF Progress
      <3> QED
        BY <3>1, <3>2, <3>3, <3>4, FirstNonceIsNat
    <2>3. CASE i # k
      BY <2>1, <2>3 DEF Mine, Goto, Progress
    <2> QED
      BY <2>2, <2>3
  <1>3. CASE UNCHANGED <<nonce_start, elapsed>>
    BY <1>3 DEF Progress
  <1>4. UNCHANGED <<nonce_start, elapsed>> \/ \E i \in Devices : ReadTemplate(i) \/ Mine(i)
    BY DEF MinersNext, Thread, Step, Connect, SetupFails, Panic, Quit, TemplateExpires,
       MineFails, Report, ReportFails, Submit, Idle, minerVars, thread, search,
       replace_block_template_cache, TriggerShutdown, DropReceiver, WatcherPanics
  <1> QED
    BY <1>1, <1>2, <1>3, <1>4

LEMMA HoldingStep ==
  MinersTypeOK /\ Holding /\ [MinersNext]_minerVars => Holding'
  <1> SUFFICES ASSUME MinersTypeOK, Holding, [MinersNext]_minerVars PROVE Holding'
    OBVIOUS
  <1> USE MinersAssumption DEF MinersTypeOK, Holding
  <1>1. ASSUME NEW i \in Devices, Thread(i) PROVE Holding'
    <2>1. CASE Connect(i) \/ SetupFails(i) \/ Quit(i) \/ TemplateExpires(i)
               \/ MineFails(i) \/ Report(i) \/ ReportFails(i)
      BY <2>1 DEF Connect, SetupFails, Quit, TemplateExpires, MineFails, Report,
         ReportFails, Goto, search
    <2>2. CASE Panic(i)
      BY <2>2 DEF Panic, thread
    <2>3. CASE ReadTemplate(i)
      BY <2>3 DEF ReadTemplate, Goto
    <2>4. CASE Mine(i)
      <3>1. PICK n \in Found(i) \cup {0} :
              /\ nonce' = [nonce EXCEPT ![i] = n]
              /\ solutions' = IF n = 0 THEN solutions ELSE
                    solutions \cup {[device |-> i, job |-> job[i], nonce |-> n]}
        BY <2>4 DEF Mine
      <3>2. n # 0 => <<job[i], n>> \in Solves
        BY DEF Found
      <3>3. \A s \in solutions' : s.nonce # 0
        BY <3>1
      <3> QED
        BY <2>4, <3>1, <3>2, <3>3 DEF Mine, Goto
    <2>5. CASE Submit(i)
      BY <2>5 DEF Submit, Goto, search
    <2> QED
      BY <1>1, <2>1, <2>2, <2>3, <2>4, <2>5 DEF Thread, Step
  <1>2. CASE replace_block_template_cache \/ TriggerShutdown \/ DropReceiver
             \/ WatcherPanics \/ UNCHANGED minerVars
    BY <1>2 DEF replace_block_template_cache, TriggerShutdown, DropReceiver,
       WatcherPanics, minerVars, thread
  <1> QED
    BY <1>1, <1>2 DEF MinersNext, Idle

\* No other entry than the stepping thread's changes in pc, job and nonce.
LEMMA DroppedStep ==
  MinersTypeOK /\ Holding /\ NoSolutionDropped /\ [MinersNext]_minerVars
    => NoSolutionDropped'
  <1> SUFFICES ASSUME MinersTypeOK, Holding, NoSolutionDropped, [MinersNext]_minerVars
               PROVE  NoSolutionDropped'
    OBVIOUS
  <1> USE MinersAssumption DEF MinersTypeOK
  <1>1. ASSUME NEW i \in Devices, Thread(i), NEW s \in solutions'
        PROVE  Delivered(s)' \/ Held(s)'
    <2>0. /\ s.device \in Devices
          /\ solutions' = solutions => (Delivered(s) \/ Held(s)) /\ s.nonce # 0
      BY <1>1, MinersTypeStep DEF NoSolutionDropped, Holding
    <2>1. CASE Connect(i) \/ SetupFails(i) \/ Quit(i) \/ TemplateExpires(i)
               \/ MineFails(i)
      <3>1. /\ UNCHANGED <<receiver, job, nonce, solutions, submitted>>
            /\ pc[i] \in {"connect", "top", "mine"}
            /\ \A k \in Devices \ {i} : pc'[k] = pc[k]
        BY <2>1 DEF Connect, SetupFails, Quit, TemplateExpires, MineFails, Goto,
           search, env
      <3> QED
        BY <2>0, <3>1 DEF Delivered, Held
    <2>2. CASE Report(i) \/ ReportFails(i)
      <3>1. /\ UNCHANGED <<receiver, job, nonce, solutions, submitted>>
            /\ \A k \in Devices \ {i} : pc'[k] = pc[k]
            /\ nonce[i] # 0 => pc'[i] = "submit" \/ (pc'[i] = "failed" /\ ~receiver)
        BY <2>2 DEF Report, ReportFails, Goto, search, env
      <3> QED
        BY <2>0, <3>1 DEF Delivered, Held
    <2>3. CASE Panic(i)
      BY <2>0, <2>3 DEF Panic, thread, env, Delivered, Held
    <2>4. CASE ReadTemplate(i)
      <3>1. /\ UNCHANGED <<receiver, solutions, submitted>>
            /\ pc[i] = "top"
            /\ \A k \in Devices \ {i} :
                 pc'[k] = pc[k] /\ job'[k] = job[k] /\ nonce'[k] = nonce[k]
        BY <2>4 DEF ReadTemplate, Goto, env
      <3> QED
        BY <2>0, <3>1 DEF Delivered, Held
    <2>5. CASE Mine(i)
      <3>1. PICK n \in Found(i) \cup {0} :
              /\ nonce' = [nonce EXCEPT ![i] = n]
              /\ solutions' = IF n = 0 THEN solutions ELSE
                    solutions \cup {[device |-> i, job |-> job[i], nonce |-> n]}
        BY <2>5 DEF Mine
      <3>2. pc[i] = "mine" /\ pc' = [pc EXCEPT ![i] = "report"]
            /\ UNCHANGED <<receiver, job, submitted>>
        BY <2>5 DEF Mine, Goto, env
      <3>3. CASE s \in solutions
        <4>1. Delivered(s) \/ Held(s)
          BY <3>3 DEF NoSolutionDropped
        <4> QED
          BY <2>0, <3>1, <3>2, <4>1 DEF Delivered, Held
      <3>4. CASE s = [device |-> i, job |-> job[i], nonce |-> n]
        BY <3>1, <3>2, <3>4 DEF Held
      <3> QED
        BY <1>1, <3>1, <3>3, <3>4
    <2>6. CASE Submit(i)
      <3>1. /\ UNCHANGED <<receiver, job, nonce, solutions>>
            /\ \A k \in Devices \ {i} : pc'[k] = pc[k]
            /\ submitted' = submitted \cup
                 {[device |-> i, header |-> job[i], nonce |-> nonce[i]]}
        BY <2>6 DEF Submit, Goto, search, env, Holding
      <3>2. Delivered(s) => Delivered(s)'
        BY <3>1 DEF Delivered
      <3>3. Held(s) => Delivered(s)' \/ Held(s)'
        <4>1. CASE s.device = i
          BY <3>1, <4>1 DEF Held, Delivered
        <4>2. CASE s.device # i
          BY <2>0, <3>1, <4>2 DEF Held
        <4> QED
          BY <4>1, <4>2
      <3> QED
        BY <2>0, <3>1, <3>2, <3>3
    <2> QED
      BY <1>1, <2>1, <2>2, <2>3, <2>4, <2>5, <2>6 DEF Thread, Step
  <1>2. CASE replace_block_template_cache \/ TriggerShutdown \/ DropReceiver
             \/ WatcherPanics \/ UNCHANGED minerVars
    BY <1>2 DEF replace_block_template_cache, TriggerShutdown, DropReceiver,
       WatcherPanics, minerVars, thread, env, NoSolutionDropped, Delivered, Held
  <1> QED
    BY <1>1, <1>2 DEF MinersNext, Idle, NoSolutionDropped

\* A block goes out with the nonce and the header its thread holds.
LEMMA SubmittedStep ==
  MinersTypeOK /\ Holding /\ SubmittedSolve /\ [MinersNext]_minerVars
    => SubmittedSolve'
  <1> SUFFICES ASSUME MinersTypeOK, Holding, SubmittedSolve, [MinersNext]_minerVars
               PROVE  SubmittedSolve'
    OBVIOUS
  <1>1. CASE \E i \in Devices : Submit(i)
    <2>1. PICK i \in Devices : Submit(i)
      BY <1>1
    <2>2. <<header[i], nonce[i]>> \in Solves
      BY <2>1 DEF Submit, Goto, Holding, MinersTypeOK
    <2>3. ASSUME NEW b \in submitted' PROVE <<b.header, b.nonce>> \in Solves
      <3>1. b \in submitted \/ b = [device |-> i, header |-> header[i], nonce |-> nonce[i]]
        BY <2>1 DEF Submit
      <3> QED
        BY <2>2, <3>1 DEF SubmittedSolve
    <2> QED
      BY <2>3 DEF SubmittedSolve
  <1>2. CASE UNCHANGED submitted
    BY <1>2 DEF SubmittedSolve
  <1>3. UNCHANGED submitted \/ \E i \in Devices : Submit(i)
    BY DEF MinersNext, Thread, Step, Connect, SetupFails, Panic, Quit, ReadTemplate,
       TemplateExpires, Mine, MineFails, Report, ReportFails, Idle, minerVars, thread,
       replace_block_template_cache, TriggerShutdown, DropReceiver, WatcherPanics
  <1> QED
    BY <1>1, <1>2, <1>3

-----------------------------------------------------------------------------
\* The inductive invariant.
MinersInv ==
  MinersTypeOK /\ Progress /\ Holding /\ NoSolutionDropped /\ SubmittedSolve

LEMMA MinersInvInit == MinersInit => MinersInv
  BY MinersTypeInit, MinersAssumption
  DEF MinersInit, MinersInv, Progress, Holding, NoSolutionDropped, SubmittedSolve

LEMMA MinersInvStep == MinersInv /\ [MinersNext]_minerVars => MinersInv'
  BY MinersTypeStep, ProgressStep, HoldingStep, DroppedStep, SubmittedStep
  DEF MinersInv

THEOREM MinersInvariance == MinersSpec => []MinersInv
  BY MinersInvInit, MinersInvStep, PTL DEF MinersSpec

\* Every submitted block carries a solution of its own header (main.rs 793-942).
THEOREM SubmittedBlocksSolve == MinersSpec => []SubmittedSolve
  <1>1. MinersInv => SubmittedSolve
    BY DEF MinersInv
  <1> QED
    BY <1>1, MinersInvariance, PTL

\* A solution is lost only by a thread that dies without a statistics receiver
\* (main.rs 880-942).
THEOREM SolutionsReachSubmit == MinersSpec => []NoSolutionDropped
  <1>1. MinersInv => NoSolutionDropped
    BY DEF MinersInv
  <1> QED
    BY <1>1, MinersInvariance, PTL

\* Quotas of different devices do not overlap.
LEMMA QuotasApart ==
  ASSUME NEW i \in Devices, NEW k \in Devices, i < k
  PROVE  FirstNonce(i) + Quota <= FirstNonce(k)
  <1>1. i \in Nat /\ k \in Nat /\ i + 1 <= k
    BY FirstNonceIsNat
  <1>2. Quota * (i + 1) <= Quota * k /\ Quota * (i + 1) = Quota * i + Quota
    BY <1>1, Products, QuotaBounds
  <1> QED
    BY <1>2 DEF FirstNonce

\* No two devices search the same nonce, and no search leaves the nonce space
\* (main.rs 821, 834-837, 884).
THEOREM SearchIsDisjoint == MinersSpec => []DisjointSearch
  <1>1. MinersInv => DisjointSearch
    <2> SUFFICES ASSUME MinersInv PROVE DisjointSearch
      OBVIOUS
    <2> USE MinersAssumption, QuotaBounds
    <2>1. ASSUME NEW i \in Devices
          PROVE  Searched(i) \subseteq FirstNonce(i) .. FirstNonce(i) + Quota - 1
      <3>1. elapsed[i] \in Nat /\ elapsed[i] <= TemplateRefreshSecs + 1
            /\ nonce_start[i] \in Nat
        BY DEF MinersInv, MinersTypeOK
      <3>2. elapsed[i] * Batch <= (TemplateRefreshSecs + 1) * Batch
            /\ elapsed[i] * Batch \in Nat /\ (TemplateRefreshSecs + 1) * Batch \in Nat
        BY <3>1, Products
      <3>3. nonce_start[i] <= FirstNonce(i) + Quota
        BY <3>1, <3>2, FirstNonceIsNat DEF MinersInv, Progress
      <3> QED
        BY <3>1, <3>3, FirstNonceIsNat DEF Searched
    <2>2. ASSUME NEW i \in Devices PROVE FirstNonce(i) + Quota <= NonceSpace
      <3>1. i \in Nat /\ i + 1 <= NumDevices
        BY FirstNonceIsNat
      <3>2. Quota * (i + 1) <= Quota * NumDevices /\ Quota * (i + 1) = Quota * i + Quota
        BY <3>1, Products
      <3>3. Quota * NumDevices \in Nat /\ Quota * i \in Nat
        BY <3>1, Products
      <3> QED
        BY <3>2, <3>3 DEF FirstNonce
    <2>3. ASSUME NEW i \in Devices, NEW k \in Devices, i # k
          PROVE  Searched(i) \cap Searched(k) = {}
      <3>1. CASE i < k
        BY <2>1, <3>1, QuotasApart, FirstNonceIsNat
      <3>2. CASE k < i
        BY <2>1, <3>2, QuotasApart, FirstNonceIsNat
      <3> QED
        BY <2>3, <3>1, <3>2, FirstNonceIsNat
    <2>4. ASSUME NEW i \in Devices PROVE Searched(i) \subseteq Nonces
      BY <2>1, <2>2, FirstNonceIsNat DEF Nonces
    <2> QED
      BY <2>3, <2>4 DEF DisjointSearch
  <1> QED
    BY <1>1, MinersInvariance, PTL
=============================================================================
